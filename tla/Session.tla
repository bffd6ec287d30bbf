------------------------------ MODULE Session ------------------------------
(***************************************************************************)
(* A session of gv: the loop of main.cpp, the command manager that reads a *)
(* line of the script (the dofile) or of the console, looks the command up *)
(* and admits it by mode (gvCmdMgr.cpp), the modes (modMgr.cpp, modCmd.cpp)*)
(* and the command loop of application mode (appMgr.cpp).                  *)
(*                                                                         *)
(* A line is a record: its words, each a name and how many characters of   *)
(* the name are typed, and its options.  A comment, a blank line and a     *)
(* word gv does not know have the names "//", "" and anything else.        *)
(***************************************************************************)
EXTENDS Integers, Sequences, FiniteSets, SequencesExt, FiniteSetsExt

CONSTANTS
    Library,     \* the registered commands: [names, least, lengths, type]
    Files,       \* the scripts: Files[f] = [lines, newline], newline at the end or not
    Missing,     \* names of no file
    Typed,       \* bound: the lines typed at the console
    Scripts      \* bound: the scripts of the command line; "" for none

ASSUME SessionAssumption ==
    /\ "" \notin DOMAIN Files \cup Missing
    /\ Missing \cap DOMAIN Files = {}
    /\ Scripts \subseteq DOMAIN Files \cup {""}

\* The regCmd calls of the packages: commands of one name are of one type,
\* and CIRRead, which can leave gv without a circuit, is a setup command.
ASSUME LibraryAssumption ==
    /\ \A e \in Library : e.names \in Seq(STRING)
    /\ \A e, f \in Library : e.names = f.names => e.type = f.type
    /\ \A e \in Library : e.names = <<"CIRREAD">> => e.type = "network"

VARIABLES
    mode,        \* ModMgr::_gvMode
    prompt,      \* the mode in GVCmdMgr::_prompt, which admits commands
    dofile,      \* GVCmdMgr::_dofile: [open, lines, newline, eof, fail]
    circuit,     \* whether there is a cirMgr
    at,          \* "top" of the loop, "main" past the prompt, "app" in appCmdHandler, "end"
    ran          \* the last line taken, [line, status, mode, circuit] as it ran

vars == <<mode, prompt, dofile, circuit, at, ran>>

-----------------------------------------------------------------------------
(***************************************************************************)
(* The script, an ifstream.  Opening one that is open fails and leaves it  *)
(* open; nothing is read from one that failed or ended.                    *)
(***************************************************************************)
Closed == [open |-> FALSE, lines |-> <<>>, newline |-> TRUE, eof |-> FALSE, fail |-> FALSE]
Opened(f) == [Closed EXCEPT !.open = TRUE, !.lines = Files[f].lines, !.newline = Files[f].newline]

Open(s, f) ==
    IF s.open THEN [s EXCEPT !.fail = TRUE]
    ELSE IF f \in Missing THEN [s EXCEPT !.fail = TRUE]
    ELSE Opened(f)

(* Slip: the end of the file is looked for before the line is used.        *)
ReadableHasty(s) == ~s.eof /\ ~s.fail /\ s.lines # <<>> /\ (Len(s.lines) > 1 \/ s.newline)

Readable(s) == ~s.eof /\ ~s.fail /\ s.lines # <<>>
\* getline: the line is Head(s.lines) when s is readable; else it is empty.
Getline(s) ==
    IF Readable(s)
    THEN [s EXCEPT !.lines = Tail(@), !.eof = Len(s.lines) = 1 /\ ~s.newline]
    ELSE [s EXCEPT !.eof = TRUE, !.fail = TRUE]

-----------------------------------------------------------------------------
(***************************************************************************)
(* Looking a command up.  The mandatory part of each name must be there,   *)
(* and what is typed further must agree.                                   *)
(***************************************************************************)
Name(words, i) == words[i].name
CheckCmd(e, words) ==
    /\ Len(e.names) = Len(words)
    /\ \A i \in DOMAIN words :
        Name(words, i) = e.names[i] /\ words[i].typed \in e.least[i] .. e.lengths[i]

\* getCmd, with one word and then with two.
Matches(words) == {e \in Library : CheckCmd(e, words)}
Found(words) ==
    {e \in Library : \/ e \in Matches(SubSeq(words, 1, 1))
                     \/ Matches(SubSeq(words, 1, 1)) = {} /\ Len(words) >= 2
                        /\ e \in Matches(SubSeq(words, 1, 2))}

Comment(line) == line.words = <<>> \/ Name(line.words, 1) = "//"

SetupMode == {"revealed", "common", "network", "abc", "mod", "bdd", "yosys", "satsolve",
              "experiment", "simulate"}
VrfMode == {"verify", "simulate", "common", "mod", "prove", "itp", "satsolve", "experiment"}
Admitted(e) == e.type \in (IF prompt = "vrf" THEN VrfMode ELSE SetupMode)

-----------------------------------------------------------------------------
(***************************************************************************)
(* The commands that change the session.  Each operator says what a line   *)
(* of the command does, the script being s once the line is read.          *)
(***************************************************************************)
Init ==
    /\ mode = "setup"
    /\ prompt = "gv"
    /\ \E f \in Scripts : dofile = IF f = "" THEN Closed ELSE Opened(f)
    /\ circuit = FALSE
    /\ at = "top"
    /\ ran = [line |-> [words |-> <<>>], status |-> "NOP", mode |-> "gv", circuit |-> FALSE]

Stays == UNCHANGED <<mode, circuit>> /\ at' = "top"

\* SEt SYStem: `setup' excludes what follows it, `vrf' goes before `app'.
Tokens(line) == Range(line.options)
Ordered(line) ==
    /\ line.options # <<>> /\ Tokens(line) \subseteq {"setup", "vrf", "app"}
    /\ \A i, k \in DOMAIN line.options :
        i < k => ~(line.options[i] = "setup" /\ line.options[k] \in {"vrf", "app"})
                 /\ ~(line.options[i] = "vrf" /\ line.options[k] = "setup")
ModeOf(line) ==
    IF "vrf" \in Tokens(line) THEN "vrf" ELSE IF "app" \in Tokens(line) THEN "app" ELSE "setup"

SetSystem(line, s) ==
    /\ mode' = IF /\ Ordered(line)
                  /\ ModeOf(line) = "vrf" => circuit
               THEN ModeOf(line) ELSE mode
    /\ dofile' = s
    /\ at' = "top"
    /\ UNCHANGED circuit

\* CIRRead: with a circuit there already -Replace is needed, and deletes it.
CirRead(line, s) ==
    /\ circuit' = IF circuit /\ "-Replace" \notin Tokens(line) THEN TRUE
                  ELSE "readable" \in Tokens(line)
    /\ dofile' = s
    /\ at' = "top"
    /\ UNCHANGED mode

\* DOfile: what is_open says after opening decides, and failing closes.
Dofile(line, s) ==
    /\ dofile' = IF Len(line.options) # 1 THEN s
                 ELSE LET opened == Open(s, line.options[1]) IN
                      IF opened.open THEN opened ELSE Closed
    /\ Stays

\* Quit asks at the console unless it is forced; the answer is its option.
Quit(line, s) ==
    /\ at' = IF line.options \in {<<"-Force">>, <<"yes">>} THEN "end" ELSE "top"
    /\ dofile' = s
    /\ UNCHANGED <<mode, circuit>>

Exec(e, line, s) ==
    CASE e.names = <<"SET", "SYSTEM">> -> SetSystem(line, s)
      [] e.names = <<"CIRREAD">> -> CirRead(line, s)
      [] e.names = <<"DOFILE">> -> Dofile(line, s)
      [] e.names = <<"QUIT">> -> Quit(line, s)
      [] OTHER -> dofile' = s /\ Stays

StatusOf(e, line, s) ==
    CASE e.names = <<"DOFILE">> ->
            IF Len(line.options) = 1 /\ Open(s, line.options[1]).open THEN "DONE" ELSE "ERROR"
      [] e.names = <<"QUIT">> -> IF line.options \in {<<"-Force">>, <<"yes">>} THEN "QUIT" ELSE "DONE"
      [] OTHER -> "DONE"

Ran(line, status) ==
    ran' = [line |-> line, status |-> status, mode |-> mode, circuit |-> circuit]

\* The end of execOneCmd for a line that is no comment.
Execute(line, s) ==
    \/ /\ Found(line.words) = {}
       /\ Ran(line, "NOP") /\ dofile' = s /\ Stays
    \/ \E e \in Found(line.words) :
        \/ ~Admitted(e) /\ Ran(line, "NOP") /\ dofile' = s /\ Stays
        \/ Admitted(e) /\ Ran(line, StatusOf(e, line, s)) /\ Exec(e, line, s)

-----------------------------------------------------------------------------
(***************************************************************************)
(* The loop of main and that of application mode.                          *)
(***************************************************************************)
(* Slip: the prompt keeps the mode it was first given.                     *)
SetPromptOnce ==
    /\ at = "top"
    /\ prompt' = IF prompt = "gv" THEN mode ELSE prompt
    /\ at' = "main"
    /\ UNCHANGED <<mode, dofile, circuit, ran>>

SetPrompt ==
    /\ at = "top"
    /\ prompt' = mode
    /\ at' = "main"
    /\ UNCHANGED <<mode, dofile, circuit, ran>>

InMain == at = "main" /\ mode # "app" /\ UNCHANGED prompt

(* Slip: the state of the stream is cleared, and it is left open.          *)
ShutHalf(s) == [s EXCEPT !.eof = FALSE, !.fail = FALSE]

\* The script is closed as soon as it has ended, before its last line runs,
\* or when nothing can be read.
Shut(s) == Closed
Eased(s) == IF s.eof THEN Shut(s) ELSE s

ScriptFails ==
    /\ InMain /\ dofile.open /\ ~Readable(dofile)
    /\ dofile' = Shut(dofile)
    /\ Stays
    /\ UNCHANGED ran

ScriptLine(line, s) ==
    \/ Comment(line) /\ Ran(line, "COMMENT") /\ dofile' = s /\ Stays
    \/ ~Comment(line) /\ Execute(line, s)
ReadScript ==
    /\ InMain /\ dofile.open /\ Readable(dofile)
    /\ ScriptLine(Head(dofile.lines), Eased(Getline(dofile)))

ReadConsole ==
    /\ InMain /\ ~dofile.open
    /\ \E line \in Typed : Execute(line, dofile)

EnterApp ==
    /\ at = "main" /\ mode = "app"
    /\ at' = "app"
    /\ UNCHANGED <<mode, prompt, dofile, circuit, ran>>

\* appCmdHandler, one turn: SAVE ends it; any other line goes to the shell.
\* At the end of the script closeDofile is that of the application's own.
IsSave(line) == line.words # <<>> /\ Name(line.words, 1) = "SAVE" /\ line.words[1].typed = 4
TakeApp(line, s) ==
    /\ dofile' = s
    /\ Ran(line, IF IsSave(line) THEN "QUIT" ELSE "NOP")
    /\ at' = IF IsSave(line) THEN "top" ELSE at
    /\ mode' = IF IsSave(line) THEN "setup" ELSE mode
    /\ UNCHANGED <<prompt, circuit>>

Blank == [words |-> <<>>, options |-> <<>>]
AppScript ==
    /\ at = "app" /\ dofile.open
    /\ TakeApp(IF Readable(dofile) THEN Head(dofile.lines) ELSE Blank, Getline(dofile))
AppConsole ==
    /\ at = "app" /\ ~dofile.open
    /\ \E line \in Typed : TakeApp(line, dofile)

Next == SetPrompt \/ ScriptFails \/ ReadScript \/ ReadConsole \/ EnterApp \/ AppScript \/ AppConsole

\* Nothing but the console makes the loops wait, if every command returns.
Fairness == WF_vars(SetPrompt \/ ScriptFails \/ ReadScript \/ EnterApp \/ AppScript)

Spec == Init /\ [][Next]_vars /\ Fairness

-----------------------------------------------------------------------------
(***************************************************************************)
(* What is true of a session.                                              *)
(***************************************************************************)
Executed(type) ==
    /\ ran.status \in {"DONE", "ERROR"}
    /\ \E e \in Found(ran.line.words) : e.type \in type

(* A command that reads or proves about the circuit runs in verification   *)
(* mode and with a circuit there, one that replaces the circuit or builds  *)
(* its BDDs in setup mode, though what admits it is the text of the prompt *)
(* (GVCmdMgr::execOneCmd).                                                 *)
ProperMode ==
    /\ Executed({"verify", "prove", "itp"}) => ran.mode = "vrf" /\ ran.circuit
    /\ Executed({"network", "bdd", "abc", "yosys"}) => ran.mode = "setup"

(* No line of a script that can be read is passed over: whatever changes   *)
(* the script takes its first line, the last one included, and acts on it. *)
LineRuns ==
    [][(dofile.open /\ dofile.lines # <<>> /\ ~dofile.fail /\ ~dofile.eof /\ dofile' # dofile)
         => ran'.line = Head(dofile.lines)]_vars

(* A script ends, and the session goes back to the console: the file is    *)
(* closed as soon as its end is seen (gvCmdMgr.cpp:274).                   *)
DofileEnds == dofile.open ~> ~dofile.open

=============================================================================
