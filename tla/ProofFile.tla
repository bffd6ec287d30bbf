----------------------------- MODULE ProofFile -----------------------------
(***************************************************************************)
(* The proof as bytes: Proof (Proof.cpp) writes it through a buffered File *)
(* (File.h, File.cpp) that serves for reading and for writing, copies it   *)
(* out with save and reads it back with traverse, and ItpMgr reads the     *)
(* copy with a Reader of its own (reader.cpp).                             *)
(*                                                                         *)
(* An entry of the proof is a root [lits], the sorted literals of a clause *)
(* of the problem; a chain [start, steps] of clauses resolved; or a        *)
(* deletion, a chain without steps.  Clauses are numbered from 0.  A file  *)
(* is its bytes, and `off' the place where the kernel reads or writes next.*)
(***************************************************************************)
EXTENDS Integers, Sequences, FiniteSetsExt

CONSTANTS
    Clauses,     \* bound: the sequences of literals added as roots
    Vars,        \* bound: the variables resolved upon
    MaxEntries,  \* bound: entries of the proof
    BufSize      \* File_BufSize and BUF_SIZE, one number here

\* Numbers are written in 31 bits; addRoot sorts a clause and drops doubles.
NumberLimit == 2147483647
Ascending(lits) == \A i \in 1 .. Len(lits) - 1 : lits[i] < lits[i + 1]

ASSUME ProofFileAssumption ==
    /\ MaxEntries \in Nat /\ 2 * MaxEntries <= NumberLimit /\ BufSize \in Nat \ {0}
    /\ \A lits \in Clauses :
         /\ lits \in Seq(Nat) /\ lits # <<>> /\ Ascending(lits)
         /\ \A i \in DOMAIN lits : 2 * lits[i] <= NumberLimit
    /\ \A v \in Vars : v \in Nat /\ v + 1 <= NumberLimit

VARIABLES
    log,         \* the entries logged so far
    fp,          \* the File of the proof: [disk, off, mode, buf, pos, overall]
    saved,       \* the file saved and not yet removed: [there, bytes, log]
    failed,      \* whether a save found such a file, and nothing restored fp since
    answer       \* what the last operation read: [by, entries]

vars == <<log, fp, saved, failed, answer>>

Root(lits) == [kind |-> "root", lits |-> lits]
Derived(start, steps) == [kind |-> "chain", start |-> start, steps |-> steps]
Deletion(id) == [kind |-> "deletion", start |-> id, steps |-> <<>>]
IsClause(e) == e.kind # "deletion"

\* The clauses among the first entries, in their order, which numbers them.
ClausesUpTo(l) ==
    LET c[i \in 0 .. Len(l)] ==
          IF i = 0 THEN <<>> ELSE IF IsClause(l[i]) THEN Append(c[i - 1], l[i]) ELSE c[i - 1]
    IN  c
ClausesOf(l) == ClausesUpTo(l)[Len(l)]
IdCounter == Len(ClausesOf(log))

-----------------------------------------------------------------------------
(***************************************************************************)
(* File.  In mode WRITE buf holds the bytes that are not yet written; in   *)
(* mode READ the bytes read last, of which pos have been taken.            *)
(***************************************************************************)
Overwrite(disk, off, bytes) ==
    SubSeq(disk, 1, off) \o bytes \o SubSeq(disk, off + Len(bytes) + 1, Len(disk))

Flush(f) ==
    [f EXCEPT !.disk = Overwrite(@, f.off, f.buf), !.off = @ + Len(f.buf), !.buf = <<>>]
Fill(f) ==
    LET n == Max({0, Min({BufSize, Len(f.disk) - f.off})}) IN
    [f EXCEPT !.buf = SubSeq(f.disk, f.off + 1, f.off + n), !.off = @ + n, !.pos = 0]

Opened(bytes, mode) ==
    [disk |-> bytes, off |-> 0, mode |-> mode, buf |-> <<>>, pos |-> 0, overall |-> 0]
NewFile == Opened(<<>>, "WRITE")

\* setMode.  Its early return is the first alternative of each.
ToRead(f) == IF f.mode = "READ" THEN f ELSE [Fill(Flush(f)) EXCEPT !.mode = "READ"]
ToWrite(f) == [f EXCEPT !.off = @ + f.pos - Len(f.buf), !.buf = <<>>, !.pos = 0,
                        !.mode = "WRITE", !.overall = 0]

\* seek, in mode READ: from the start or to the end.
SeekStart(f) == Fill([f EXCEPT !.off = 0])
SeekEnd(f) == Fill([f EXCEPT !.off = Len(f.disk)])

PutInto(f, byte) == [(IF Len(f.buf) = BufSize THEN Flush(f) ELSE f) EXCEPT !.buf = Append(@, byte)]
PutChar(f, byte) == PutInto(IF f.mode = "READ" THEN ToWrite(f) ELSE f, byte)
PutChars(f, bytes) ==
    LET w[k \in 0 .. Len(bytes)] == IF k = 0 THEN f ELSE PutChar(w[k - 1], bytes[k])
    IN  w

\* getChar, in mode READ: [f, byte]; a buffer that was not full was the last.
Eof == -1
Take(f) == [f |-> [f EXCEPT !.pos = @ + 1, !.overall = @ + 1], byte |-> f.buf[f.pos + 1]]
TakeOrEof(f) == IF f.buf = <<>> THEN [f |-> f, byte |-> Eof] ELSE Take(f)
GetChar(f) ==
    IF f.pos < Len(f.buf) THEN Take(f)
    ELSE IF Len(f.buf) < BufSize THEN [f |-> f, byte |-> Eof]
    ELSE TakeOrEof(Fill(f))

-----------------------------------------------------------------------------
(***************************************************************************)
(* putUInt: 1, 2, 3, 4 or 9 bytes.  Numbers stay below 2^31 here, so that  *)
(* the upper word of the long form is 0.                                   *)
(***************************************************************************)
Place256 == <<1, 256, 65536, 16777216>>
High(v, k) == v \div Place256[k + 1]
ByteOf(v, k) == High(v, k) % 256
LowBytes(v, n) == [i \in 1 .. n |-> ByteOf(v, n - i)]

\* A first byte of 3 bits for the form holds 5 bits of the number; the limits
\* are those of 7, 13, 21 and 29 bits.
Forms == <<128, 8192, 2097152, 536870912>>

(* Slip: the bound of the two-byte form is that of fourteen bits.          *)
EncodeWide(v) ==
    IF v < Forms[1] THEN <<v>>
    ELSE IF v < 16384 THEN <<128 + High(v, 1)>> \o LowBytes(v, 1)
    ELSE IF v < Forms[3] THEN <<160 + High(v, 2)>> \o LowBytes(v, 2)
    ELSE IF v < Forms[4] THEN <<192 + High(v, 3)>> \o LowBytes(v, 3)
    ELSE <<224, 0, 0, 0, 0>> \o LowBytes(v, 4)

Encode(v) ==
    IF v < Forms[1] THEN <<v>>
    ELSE IF v < Forms[2] THEN <<128 + High(v, 1)>> \o LowBytes(v, 1)
    ELSE IF v < Forms[3] THEN <<160 + High(v, 2)>> \o LowBytes(v, 2)
    ELSE IF v < Forms[4] THEN <<192 + High(v, 3)>> \o LowBytes(v, 3)
    ELSE <<224, 0, 0, 0, 0>> \o LowBytes(v, 4)

\* getUInt and get64: how many bytes follow the first, and what it gives.
Following(byte) == CASE byte < 128 -> 0 [] byte \in 128 .. 159 -> 1 [] byte \in 160 .. 191 -> 2
                     [] byte \in 192 .. 223 -> 3 [] OTHER -> 8
Leading(byte) == IF byte < 128 THEN byte ELSE IF byte < 224 THEN byte % 32 ELSE 0
AndByte(g, val) == [f |-> g.f, val |-> val * 256 + g.byte]
BytesTaken(g) ==
    LET r[k \in 0 .. Following(g.byte)] ==
          IF k = 0 THEN [f |-> g.f, val |-> Leading(g.byte)]
          ELSE AndByte(GetChar(r[k - 1].f), r[k - 1].val)
    IN  r
NumberFrom(g) ==
    IF g.byte = Eof THEN [f |-> g.f, val |-> Eof] ELSE BytesTaken(g)[Following(g.byte)]
GetUInt(f) == NumberFrom(GetChar(f))

-----------------------------------------------------------------------------
(***************************************************************************)
(* Entries as numbers.  A root is 2 * its first literal and then the       *)
(* distances to the next ones; a chain is 2 * the distance to its start    *)
(* plus 1 and then variables plus 1 and distances; 0 ends both.            *)
(***************************************************************************)
RootNumbers(lits) ==
    [i \in 1 .. Len(lits) + 1 |->
        IF i = 1 THEN 2 * lits[1] ELSE IF i > Len(lits) THEN 0 ELSE lits[i] - lits[i - 1]]
ChainNumbers(e, id) ==
    [i \in 1 .. 2 * Len(e.steps) + 2 |->
        IF i = 1 THEN 2 * (id - e.start) + 1
        ELSE IF i > 2 * Len(e.steps) + 1 THEN 0
        ELSE IF i % 2 = 0 THEN e.steps[i \div 2].var + 1 ELSE id - e.steps[i \div 2].id]
Numbers(e, id) == IF e.kind = "root" THEN RootNumbers(e.lits) ELSE ChainNumbers(e, id)

BytesUpTo(numbers) ==
    LET b[k \in 0 .. Len(numbers)] == IF k = 0 THEN <<>> ELSE b[k - 1] \o Encode(numbers[k])
    IN  b
EntryBytes(e, id) == BytesUpTo(Numbers(e, id))[Len(Numbers(e, id))]

Write(f, e, id) == PutChars(f, EntryBytes(e, id))[Len(EntryBytes(e, id))]

\* The rest of an entry: numbers until one is 0.  No loop over a file takes
\* more rounds than it has bytes.
RestRound(r) ==
    IF r.next.val = 0 THEN r
    ELSE [next |-> GetUInt(r.next.f), numbers |-> Append(r.numbers, r.next.val)]
RestRounds(first) ==
    LET r[k \in 0 .. Len(first.f.disk)] ==
          IF k = 0 THEN [next |-> GetUInt(first.f), numbers |-> <<first.val>>] ELSE RestRound(r[k - 1])
    IN  r
Rest(first) == RestRounds(first)[Len(first.f.disk)]

\* The entry that numbers say, read as the one of clause id.
Sums(numbers) ==
    LET s[i \in 1 .. Len(numbers)] == IF i = 1 THEN numbers[1] \div 2 ELSE s[i - 1] + numbers[i]
    IN  s
EntryOf(numbers, id) ==
    IF numbers[1] % 2 = 0 THEN Root(Sums(numbers))
    ELSE Derived(id - numbers[1] \div 2,
                 [i \in 1 .. (Len(numbers) - 1) \div 2 |->
                     [var |-> numbers[2 * i] - 1, id |-> id - numbers[2 * i + 1]]])
EntryThere(rest, id) == [f |-> rest.next.f, entry |-> EntryOf(rest.numbers, id)]
EntryRead(first, id) == EntryThere(Rest(first), id)
NoNewClause(e) == e.kind = "chain" /\ e.steps = <<>>

-----------------------------------------------------------------------------
(***************************************************************************)
(* The operations of Proof, and the Reader of ItpMgr on a saved copy.      *)
(***************************************************************************)
None == [by |-> "nobody", entries |-> <<>>]
NoCopy == [there |-> FALSE, bytes |-> <<>>, log |-> <<>>]

Init ==
    /\ log = <<>>
    /\ fp = NewFile
    /\ saved = NoCopy
    /\ failed = FALSE
    /\ answer = None

\* A write after a failed save begins at the start of the file: from there
\* on the file is damaged, and what it is read as is not modelled.
Damaged == failed /\ fp.mode = "WRITE"

Logged(e) ==
    /\ Len(log) < MaxEntries
    /\ log' = Append(log, e)
    /\ fp' = Write(fp, e, IdCounter)
    /\ answer' = None
    /\ UNCHANGED <<saved, failed>>

AddRoot == \E lits \in Clauses : Logged(Root(lits))

\* endChain logs nothing for a chain of one clause.
StepsOf(n) == [1 .. n -> [var : Vars, id : 0 .. IdCounter - 1]]
EndChain == \E start \in 0 .. IdCounter - 1, n \in 1 .. 2 :
                \E steps \in StepsOf(n) : Logged(Derived(start, steps))
Deleted == \E id \in 0 .. IdCounter - 1 : Logged(Deletion(id))

(* Slip: setMode only, as if reading always ended at the end of the file.  *)
RestoredWhereRead(f) == ToWrite(f)

\* setMode(READ), seek(0); then, at the end, seek(0, SEEK_END), setMode(WRITE).
AtStart(f) == SeekStart(ToRead(f))
Restored(f) == ToWrite(SeekEnd(f))

\* The loop of save that copies the bytes.
CopyRound(c) ==
    IF c.next.byte = Eof THEN c
    ELSE [next |-> GetChar(c.next.f), bytes |-> Append(c.bytes, c.next.byte)]
CopyRounds(f) ==
    LET c[k \in 0 .. Len(f.disk)] ==
          IF k = 0 THEN [next |-> GetChar(f), bytes |-> <<>>] ELSE CopyRound(c[k - 1])
    IN  c
Copied(f) == CopyRounds(f)[Len(f.disk)]

Save ==
    /\ ~Damaged
    /\ answer' = None
    /\ \/ /\ ~saved.there
          /\ LET c == Copied(AtStart(fp))
             IN  /\ saved' = [there |-> TRUE, bytes |-> c.bytes, log |-> log]
                 /\ fp' = Restored(c.next.f)
          /\ failed' = FALSE
       \/ /\ saved.there
          /\ fp' = AtStart(fp)
          /\ failed' = TRUE
          /\ UNCHANGED saved
    /\ UNCHANGED log

\* traverse: the entries up to the last clause; a deletion takes no number.
Announced(e) == IF NoNewClause(e) THEN Deletion(e.start) ELSE e
EntryThen(r, id, entries) ==
    [f |-> r.f, id |-> IF NoNewClause(r.entry) THEN id ELSE id + 1,
     entries |-> Append(entries, Announced(r.entry))]
TraverseRound(t, goal) ==
    IF t.id > goal THEN t ELSE EntryThen(EntryRead(GetUInt(t.f), t.id), t.id, t.entries)
TraverseRounds(f, goal) ==
    LET t[k \in 0 .. Len(f.disk)] ==
          IF k = 0 THEN [f |-> f, id |-> 0, entries |-> <<>>] ELSE TraverseRound(t[k - 1], goal)
    IN  t
Traversed(f, goal) == TraverseRounds(f, goal)[Len(f.disk)]

Traverse ==
    /\ ~Damaged
    /\ LET t == Traversed(AtStart(fp), IdCounter - 1)
       IN  /\ answer' = [by |-> "traverse", entries |-> t.entries]
           /\ fp' = Restored(t.f)
    /\ failed' = FALSE
    /\ UNCHANGED <<log, saved>>

(* Slip: a deletion keeps its place among the clauses.                     *)
KeepEvery(places, place, entry) == Append(places, place)

\* Reader::seek, and the two passes of retrieveProof: where the clauses begin,
\* a deletion being dropped again; then each clause, at its place.
Seek(f, to) == [Fill([f EXCEPT !.off = to]) EXCEPT !.overall = to]
KeepPlace(places, place, entry) == IF NoNewClause(entry) THEN places ELSE Append(places, place)
PlacesAfter(p, r) ==
    [next |-> GetUInt(r.f), at |-> r.f.overall, places |-> KeepPlace(p.places, p.at, r.entry)]
PlacesRound(p) ==
    IF p.next.val = Eof THEN p ELSE PlacesAfter(p, EntryRead(p.next, Len(p.places)))
PlacesRounds(f) ==
    LET p[k \in 0 .. Len(f.disk)] ==
          IF k = 0 THEN [next |-> GetUInt(f), at |-> 0, places |-> <<>>] ELSE PlacesRound(p[k - 1])
    IN  p
Places(f) == PlacesRounds(f)[Len(f.disk)]
EntryAt(f, to, id) == EntryRead(GetUInt(Seek(f, to)), id).entry
EntriesAt(p) == [i \in DOMAIN p.places |-> EntryAt(p.next.f, p.places[i], i - 1)]
Retrieved(f) == EntriesAt(Places(f))

\* The copy is removed when it has been read.
Retrieve ==
    /\ saved.there
    /\ answer' = [by |-> "retrieveProof",
                  entries |-> Retrieved(Seek(Opened(saved.bytes, "READ"), 0))]
    /\ saved' = NoCopy
    /\ UNCHANGED <<log, fp, failed>>

Next == AddRoot \/ EndChain \/ Deleted \/ Save \/ Traverse \/ Retrieve

Spec == Init /\ [][Next]_vars

-----------------------------------------------------------------------------
(***************************************************************************)
(* What is true of the bytes.                                              *)
(***************************************************************************)
LogBytes(l) ==
    LET b[i \in 0 .. Len(l)] ==
          IF i = 0 THEN <<>> ELSE b[i - 1] \o EntryBytes(l[i], Len(ClausesUpTo(l)[i - 1]))
    IN  b
BytesOf(l) == LogBytes(l)[Len(l)]

\* The bytes on the disk once the buffer is written.
Content == IF fp.mode = "WRITE" THEN Flush(fp).disk ELSE fp.disk

\* The entries before the last clause, and that clause: where traverse ends.
UpToLastClause(l) ==
    SubSeq(l, 1, Max({0} \cup {i \in DOMAIN l : IsClause(l[i])}))

(* Between two operations the file and its buffer hold the bytes of every  *)
(* entry logged, in order, however reading and writing alternated          *)
(* (File::setMode, File::seek, Proof::save, Proof::traverse); but for the  *)
(* writes after a save that failed.                                        *)
LogOnDisk == ~Damaged => Content = BytesOf(log)

(* Traversing the proof of a live solver gives what was logged, entry for  *)
(* entry, with the numbers of the clauses it is about (Proof::traverse).   *)
TraverseIsLog == answer.by = "traverse" => answer.entries = UpToLastClause(log)

(* The places ItpMgr::retrieveProof notes in its first pass over a saved   *)
(* proof are those of the clauses: seeking each of them gives the clause   *)
(* of that number as it was when the proof was saved.                      *)
RetrieveIsLog == [][Retrieve => answer'.entries = ClausesOf(saved.log)]_vars
=============================================================================
