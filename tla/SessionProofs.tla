--------------------------- MODULE SessionProofs ---------------------------
(***************************************************************************)
(* Proofs about Session, for every library of commands, every set of       *)
(* scripts and everything that may be typed: what the prompt admits runs   *)
(* in the mode and with the circuit it needs, and no line of a script is   *)
(* passed over.                                                            *)
(***************************************************************************)
EXTENDS Session, TLAPS

(* Two commands that answer to the same words have one name.                *)
LEMMA MatchesOneName ==
  ASSUME NEW words, DOMAIN words = 1 .. Len(words),
         NEW e \in Matches(words), NEW f \in Matches(words)
  PROVE  e.names = f.names
<1>1. /\ e \in Library /\ CheckCmd(e, words)
      /\ f \in Library /\ CheckCmd(f, words)
  BY DEF Matches
<1>2. e.names \in Seq(STRING) /\ f.names \in Seq(STRING)
  BY <1>1, LibraryAssumption
<1>3. Len(e.names) = Len(f.names)
      /\ \A i \in 1 .. Len(e.names) : e.names[i] = f.names[i]
  BY <1>1 DEF CheckCmd
<1>4. QED
  BY <1>2, <1>3

(* The commands a line can mean are of one type.                            *)
LEMMA FoundOneType ==
  ASSUME NEW words, NEW e \in Found(words), NEW f \in Found(words)
  PROVE  e \in Library /\ e.type = f.type
<1> DEFINE one == SubSeq(words, 1, 1)
           two == SubSeq(words, 1, 2)
<1>1. /\ DOMAIN one = 1 .. Len(one)
      /\ DOMAIN two = 1 .. Len(two)
  OBVIOUS
<1> HIDE DEF one, two
<1>2. \/ e \in Matches(one) /\ f \in Matches(one)
      \/ e \in Matches(two) /\ f \in Matches(two)
  BY DEF Found, one, two
<1>3. e.names = f.names
  BY <1>1, <1>2, MatchesOneName
<1>4. e \in Library /\ f \in Library
  BY DEF Found
<1>5. QED
  BY <1>3, <1>4, LibraryAssumption

-----------------------------------------------------------------------------
(***************************************************************************)
(* The inductive invariant.  What admits a command is the prompt, so the   *)
(* prompt must be the mode whenever a command can run; and verification    *)
(* mode must keep its circuit, which only a setup command takes away.      *)
(***************************************************************************)
PromptIsMode == at = "main" => prompt = mode
VrfHasCircuit == mode = "vrf" => circuit

IInv ==
  /\ mode \in {"setup", "vrf", "app"}
  /\ PromptIsMode
  /\ VrfHasCircuit
  /\ ProperMode

(* A line that is recorded as a comment, refused or left to the shell says  *)
(* nothing about modes.                                                     *)
LEMMA NothingExecuted ==
  ASSUME ran'.status \notin {"DONE", "ERROR"}
  PROVE  ProperMode'
BY DEF ProperMode, Executed

\* The fields of the report on a line that was run.
LEMMA RanFields ==
  ASSUME NEW line, NEW status, Ran(line, status)
  PROVE  /\ ran'.line = line /\ ran'.status = status
         /\ ran'.mode = mode /\ ran'.circuit = circuit
BY DEF Ran

(* A command that a line means and the prompt admits runs where its type    *)
(* belongs.                                                                 *)
LEMMA AdmittedIsProper ==
  ASSUME IInv, at = "main", mode # "app",
         NEW line, NEW e \in Found(line.words), Admitted(e),
         NEW status, Ran(line, status)
  PROVE  ProperMode'
<1>1. ran'.line = line /\ ran'.mode = mode /\ ran'.circuit = circuit
  BY RanFields
<1>2. \A f \in Found(line.words) : f.type = e.type
  BY FoundOneType
<1>3. prompt = mode /\ mode \in {"setup", "vrf"} /\ (mode = "vrf" => circuit)
  BY DEF IInv, PromptIsMode, VrfHasCircuit
<1>4. e.type \in {"verify", "prove", "itp"} => mode = "vrf"
  BY <1>3 DEF Admitted, SetupMode
<1>5. e.type \in {"network", "bdd", "abc", "yosys"} => mode = "setup"
  BY <1>3 DEF Admitted, VrfMode
<1>6. ASSUME NEW types, Executed(types)' PROVE e.type \in types
  <2>1. \E f \in Found(line.words) : f.type \in types
    BY <1>1, <1>6 DEF Executed, Found, Matches
  <2>2. QED
    BY <1>2, <2>1
<1>7. Executed({"verify", "prove", "itp"})' => ran'.mode = "vrf" /\ ran'.circuit
  BY <1>1, <1>3, <1>4, <1>6
<1>8. Executed({"network", "bdd", "abc", "yosys"})' => ran'.mode = "setup"
  BY <1>1, <1>5, <1>6
<1>9. QED
  BY <1>7, <1>8 DEF ProperMode

(* What a command does to the mode and the circuit.                         *)
LEMMA ExecKeepsModes ==
  ASSUME IInv, at = "main", mode # "app", NEW line, NEW s,
         NEW e \in Library, Admitted(e), Exec(e, line, s)
  PROVE  mode' \in {"setup", "vrf", "app"} /\ VrfHasCircuit' /\ at' # "main"
<1>1. CASE e.names = <<"SET", "SYSTEM">>
  <2>1. SetSystem(line, s)
    BY <1>1 DEF Exec
  <2>2. QED
    BY <2>1 DEF SetSystem, ModeOf, IInv, VrfHasCircuit
<1>2. CASE e.names = <<"CIRREAD">>
  <2>1. CirRead(line, s)
    BY <1>2 DEF Exec
  <2>2. prompt # "vrf"
    BY <1>2, LibraryAssumption DEF Admitted, VrfMode
  <2>3. mode # "vrf"
    BY <2>2 DEF IInv, PromptIsMode
  <2>4. QED
    BY <2>1, <2>3 DEF CirRead, IInv, VrfHasCircuit
<1>3. CASE e.names \notin {<<"SET", "SYSTEM">>, <<"CIRREAD">>}
  <2>1. UNCHANGED <<mode, circuit>> /\ at' \in {"top", "end"}
    BY <1>3 DEF Exec, Dofile, Quit, Stays
  <2>2. QED
    BY <2>1 DEF IInv, VrfHasCircuit
<1>4. QED
  BY <1>1, <1>2, <1>3

(* A line of the script or of the console, whatever it says.                *)
LEMMA ExecuteKeepsIInv ==
  ASSUME IInv, at = "main", mode # "app", NEW line, NEW s, Execute(line, s)
  PROVE  IInv'
<1>1. ASSUME Ran(line, "NOP"), Stays PROVE IInv'
  <2>1. ProperMode'
    BY <1>1, RanFields, NothingExecuted
  <2>2. QED
    BY <1>1, <2>1 DEF Stays, IInv, PromptIsMode, VrfHasCircuit
<1>2. ASSUME NEW e \in Found(line.words), Admitted(e),
             Ran(line, StatusOf(e, line, s)), Exec(e, line, s)
      PROVE  IInv'
  <2>1. ProperMode'
    BY <1>2, AdmittedIsProper
  <2>2. e \in Library
    BY FoundOneType
  <2>3. mode' \in {"setup", "vrf", "app"} /\ VrfHasCircuit' /\ at' # "main"
    BY <1>2, <2>2, ExecKeepsModes
  <2>4. QED
    BY <2>1, <2>3 DEF IInv, PromptIsMode
<1>3. QED
  BY <1>1, <1>2 DEF Execute

\* The invariant holds when the program starts.
LEMMA InitIInv == Init => IInv
<1> SUFFICES ASSUME Init PROVE IInv
  OBVIOUS
<1>1. \E line : ran = [line |-> line, status |-> "NOP", mode |-> "gv", circuit |-> FALSE]
  BY Zenon DEF Init
<1>2. ran.status = "NOP"
  BY <1>1
<1>3. ProperMode
  BY <1>2 DEF ProperMode, Executed
<1>4. mode = "setup" /\ at = "top"
  BY Zenon DEF Init
<1>5. QED
  BY <1>3, <1>4 DEF IInv, PromptIsMode, VrfHasCircuit

\* Every action keeps the invariant.
LEMMA NextIInv == IInv /\ [Next]_vars => IInv'
<1> SUFFICES ASSUME IInv, [Next]_vars PROVE IInv'
  OBVIOUS
<1>1. CASE SetPrompt \/ EnterApp \/ ScriptFails \/ UNCHANGED vars
  <2>1. UNCHANGED <<mode, circuit, ran>> /\ (at' = "main" => prompt' = mode)
    BY <1>1 DEF SetPrompt, EnterApp, ScriptFails, Stays, vars, IInv, PromptIsMode
  <2>2. ProperMode'
    BY <2>1 DEF IInv, ProperMode, Executed, Found, Matches
  <2>3. QED
    BY <2>1, <2>2 DEF IInv, PromptIsMode, VrfHasCircuit
<1>2. CASE ReadScript
  <2> DEFINE line == Head(dofile.lines)
             s    == Eased(Getline(dofile))
  <2>1. at = "main" /\ mode # "app" /\ ScriptLine(line, s)
    BY <1>2 DEF ReadScript, InMain
  <2>2. CASE Ran(line, "COMMENT") /\ Stays
    <3>1. ProperMode'
      BY <2>2, RanFields, NothingExecuted
    <3>2. QED
      BY <2>2, <3>1 DEF Stays, IInv, PromptIsMode, VrfHasCircuit
  <2>3. CASE Execute(line, s)
    BY <2>1, <2>3, ExecuteKeepsIInv
  <2>4. QED
    BY <2>1, <2>2, <2>3 DEF ScriptLine
<1>3. CASE ReadConsole
  <2>1. PICK line \in Typed : Execute(line, dofile)
    BY <1>3 DEF ReadConsole
  <2>2. at = "main" /\ mode # "app"
    BY <1>3 DEF ReadConsole, InMain
  <2>3. QED
    BY <2>1, <2>2, ExecuteKeepsIInv
<1>4. CASE AppScript \/ AppConsole
  <2>1. PICK line, s : at = "app" /\ TakeApp(line, s)
    BY <1>4 DEF AppScript, AppConsole
  <2>2. ProperMode'
    <3>1. Ran(line, "QUIT") \/ Ran(line, "NOP")
      BY <2>1 DEF TakeApp
    <3>2. QED
      BY <3>1, RanFields, NothingExecuted
  <2>3. mode' \in {"setup", mode} /\ UNCHANGED circuit /\ at' \in {"top", "app"}
    BY <2>1 DEF TakeApp
  <2>4. QED
    BY <2>2, <2>3 DEF IInv, PromptIsMode, VrfHasCircuit
<1>5. QED
  BY <1>1, <1>2, <1>3, <1>4 DEF Next

\* The invariant holds in every reachable state.
LEMMA InvariantHolds == Spec => []IInv
<1>1. Init => IInv
  BY InitIInv
<1>2. IInv /\ [Next]_vars => IInv'
  BY NextIInv
<1>3. QED
  BY <1>1, <1>2, PTL DEF Spec

-----------------------------------------------------------------------------
(* GVCmdMgr::execOneCmd admits a command by the text of the prompt, and     *)
(* that is enough: what reads or proves about the circuit runs in           *)
(* verification mode with a circuit there, what replaces the circuit or     *)
(* builds its BDDs in setup mode.                                           *)
THEOREM ModesProper == Spec => []ProperMode
<1>1. IInv => ProperMode
  BY DEF IInv
<1>2. QED
  BY <1>1, InvariantHolds, PTL

(* Verification mode never loses the circuit it was entered with.           *)
THEOREM CircuitKept == Spec => []VrfHasCircuit
<1>1. IInv => VrfHasCircuit
  BY DEF IInv
<1>2. QED
  BY <1>1, InvariantHolds, PTL

(* Whatever takes a line from a readable script acts on that line, the last *)
(* one of a file without a newline included.                                *)
THEOREM NoLineLost == Spec => LineRuns
<1> DEFINE Unread == dofile.open /\ dofile.lines # <<>> /\ ~dofile.fail /\ ~dofile.eof
<1>1. ASSUME [Next]_vars, Unread, dofile' # dofile
      PROVE  ran'.line = Head(dofile.lines)
  <2>1. Readable(dofile)
    BY <1>1 DEF Readable
  <2>2. CASE ReadScript
    <3> DEFINE line == Head(dofile.lines)
               s    == Eased(Getline(dofile))
    <3>1. ScriptLine(line, s)
      BY <2>2 DEF ReadScript
    <3>2. \E status : Ran(line, status)
      <4> HIDE DEF line, s
      <4>1. QED
        BY <3>1 DEF ScriptLine, Execute
    <3>3. QED
      BY <3>2, RanFields
  <2>3. CASE AppScript
    <3>1. \E status : Ran(Head(dofile.lines), status)
      BY <2>1, <2>3 DEF AppScript, TakeApp
    <3>2. QED
      BY <3>1, RanFields
  <2>4. CASE AppConsole \/ ReadConsole \/ ScriptFails
    BY <1>1, <2>1, <2>4 DEF AppConsole, ReadConsole, ScriptFails
  <2>5. CASE SetPrompt \/ EnterApp \/ UNCHANGED vars
    BY <1>1, <2>5 DEF SetPrompt, EnterApp, vars
  <2>6. QED
    BY <1>1, <2>2, <2>3, <2>4, <2>5 DEF Next
<1>2. [Next]_vars => [(Unread /\ dofile' # dofile) => ran'.line = Head(dofile.lines)]_vars
  BY <1>1
<1>3. QED
  BY <1>2, PTL DEF Spec, LineRuns
=============================================================================
