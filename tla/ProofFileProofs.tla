-------------------------- MODULE ProofFileProofs --------------------------
(***************************************************************************)
(* Proofs about ProofFile, for every size of the buffer, every length of   *)
(* the log and all clauses and variables whose numbers fit in 31 bits:     *)
(* first the file and the numbers in it, then entries, the log, and the    *)
(* theorems about save, traverse and retrieveProof.                        *)
(***************************************************************************)
EXTENDS ProofFile, Induction, SequenceTheorems

Bytes == Seq(Nat)
Files == [disk : Bytes, off : Nat, mode : {"READ", "WRITE"}, buf : Bytes, pos : Nat, overall : Nat]
IsFile(f) == f \in Files /\ f.off <= Len(f.disk)

\* A file being written, whose bytes are d once the buffer is.
Writes(f, d) ==
    /\ IsFile(f) /\ f.mode = "WRITE" /\ f.off = Len(f.disk)
    /\ Len(f.buf) <= BufSize /\ f.disk \o f.buf = d

\* A file d being read, of which p bytes were taken, o since it was sought.
Reads(f, d, p, o) ==
    /\ IsFile(f) /\ f.mode = "READ" /\ f.disk = d
    /\ Len(f.buf) <= f.off /\ f.buf = SubSeq(d, f.off - Len(f.buf) + 1, f.off)
    /\ f.pos <= Len(f.buf) /\ Len(f.buf) <= BufSize
    /\ Len(f.buf) < BufSize => f.off = Len(d)
    /\ p = f.off - Len(f.buf) + f.pos /\ f.overall = o

-----------------------------------------------------------------------------
(***************************************************************************)
(* The operations of File.                                                 *)
(***************************************************************************)

(* The fields of a file, and a part of its bytes.                           *)
LEMMA FieldsOf ==
  ASSUME NEW f, IsFile(f)
  PROVE  /\ f.disk \in Bytes /\ f.off \in Nat /\ f.buf \in Bytes /\ f.pos \in Nat
         /\ f.overall \in Nat /\ f.mode \in {"READ", "WRITE"}
         /\ f.off <= Len(f.disk) /\ Len(f.disk) \in Nat /\ Len(f.buf) \in Nat
         /\ f = [disk |-> f.disk, off |-> f.off, mode |-> f.mode, buf |-> f.buf,
                 pos |-> f.pos, overall |-> f.overall]
<1>1. f \in Files /\ f.off <= Len(f.disk)
  BY DEF IsFile
<1>2. /\ f.disk \in Bytes /\ f.off \in Nat /\ f.buf \in Bytes /\ f.pos \in Nat
      /\ f.overall \in Nat /\ f.mode \in {"READ", "WRITE"}
      /\ f = [disk |-> f.disk, off |-> f.off, mode |-> f.mode, buf |-> f.buf,
              pos |-> f.pos, overall |-> f.overall]
  BY <1>1 DEF Files
<1>3. Len(f.disk) \in Nat /\ Len(f.buf) \in Nat
  BY <1>2 DEF Bytes
<1>4. QED
  BY <1>1, <1>2, <1>3

\* The empty string of bytes.
LEMMA NoBytes == <<>> \in Bytes /\ Len(<<>>) = 0
BY EmptySeq DEF Bytes

\* Strings of bytes may be joined in any grouping.
LEMMA JoinsOf ==
  ASSUME NEW a \in Bytes, NEW b \in Bytes, NEW c \in Bytes
  PROVE  (a \o b) \o c = a \o (b \o c)
BY ConcatAssociative DEF Bytes

\* The length and the members of two strings joined.
LEMMA JoinOf ==
  ASSUME NEW a \in Bytes, NEW b \in Bytes
  PROVE  /\ a \o b \in Bytes /\ Len(a \o b) = Len(a) + Len(b)
         /\ Len(a) \in Nat /\ Len(b) \in Nat
         /\ \A i \in 1 .. Len(a) : (a \o b)[i] = a[i]
         /\ \A i \in 1 .. Len(b) : (a \o b)[Len(a) + i] = b[i]
<1>1. /\ a \o b \in Bytes /\ Len(a \o b) = Len(a) + Len(b)
      /\ \A i \in 1 .. Len(a) + Len(b) : (a \o b)[i] = IF i <= Len(a) THEN a[i] ELSE b[i - Len(a)]
  BY ConcatProperties DEF Bytes
<1>2. Len(a) \in Nat /\ Len(b) \in Nat
  BY DEF Bytes
<1>3. ASSUME NEW i \in 1 .. Len(a) PROVE (a \o b)[i] = a[i]
  BY <1>1, <1>2
<1>4. ASSUME NEW i \in 1 .. Len(b) PROVE (a \o b)[Len(a) + i] = b[i]
  <2>1. Len(a) + i \in 1 .. Len(a) + Len(b) /\ ~(Len(a) + i <= Len(a)) /\ Len(a) + i - Len(a) = i
    BY <1>2
  <2>2. QED
    BY <1>1, <2>1
<1>5. QED
  BY <1>1, <1>2, <1>3, <1>4

\* The length and the members of a part of a string.
LEMMA PartOf ==
  ASSUME NEW d \in Bytes, NEW a \in Nat, NEW b \in Nat, a <= b, b <= Len(d)
  PROVE  /\ SubSeq(d, a + 1, b) \in Bytes /\ Len(SubSeq(d, a + 1, b)) = b - a
         /\ \A i \in 1 .. b - a : SubSeq(d, a + 1, b)[i] = d[a + i]
<1>1. Len(d) \in Nat /\ \A i \in a + 1 .. b : d[i] \in Nat
  BY DEF Bytes
<1>2. /\ SubSeq(d, a + 1, b) \in Seq(Nat)
      /\ Len(SubSeq(d, a + 1, b)) = IF a + 1 <= b THEN b - (a + 1) + 1 ELSE 0
      /\ \A i \in 1 .. b - (a + 1) + 1 : SubSeq(d, a + 1, b)[i] = d[(a + 1) + i - 1]
  BY <1>1, SubSeqProperties
<1>3. ASSUME NEW i \in 1 .. b - a PROVE SubSeq(d, a + 1, b)[i] = d[a + i]
  <2>1. i \in 1 .. b - (a + 1) + 1 /\ (a + 1) + i - 1 = a + i
    OBVIOUS
  <2>2. QED
    BY <1>2, <2>1, Zenon
<1>4. Len(SubSeq(d, a + 1, b)) = b - a
  BY <1>2
<1>5. QED
  BY <1>2, <1>3, <1>4 DEF Bytes

(* The extremes of two numbers.                                            *)
LEMMA Extremes ==
  ASSUME NEW a \in Int, NEW b \in Int
  PROVE  /\ Max({a, b}) = IF a < b THEN b ELSE a
         /\ Min({a, b}) = IF a < b THEN a ELSE b
<1>1. PICK m : m \in {a, b} /\ \A y \in {a, b} : m >= y
  BY \A y \in {a, b} : (IF a < b THEN b ELSE a) >= y
<1>2. PICK l : l \in {a, b} /\ \A y \in {a, b} : l <= y
  BY \A y \in {a, b} : (IF a < b THEN a ELSE b) <= y
<1>3. Max({a, b}) \in {a, b} /\ \A y \in {a, b} : Max({a, b}) >= y
  BY <1>1 DEF Max
<1>4. Min({a, b}) \in {a, b} /\ \A y \in {a, b} : Min({a, b}) <= y
  BY <1>2 DEF Min
<1>5. QED
  BY <1>3, <1>4

(* Flushing a buffer keeps a file a file; at its end, it appends.          *)
LEMMA FlushIs ==
  ASSUME NEW f, IsFile(f)
  PROVE  /\ IsFile(Flush(f)) /\ Flush(f).mode = f.mode /\ Flush(f).buf = <<>>
         /\ Flush(f).pos = f.pos /\ Flush(f).overall = f.overall
         /\ f.off = Len(f.disk) =>
              Flush(f).disk = f.disk \o f.buf /\ Flush(f).off = Len(Flush(f).disk)
<1> DEFINE d == f.disk
           a == SubSeq(d, 1, f.off)
           z == SubSeq(d, f.off + Len(f.buf) + 1, Len(d))
           w == Overwrite(d, f.off, f.buf)
<1>0. /\ d \in Bytes /\ f.off \in Nat /\ f.buf \in Bytes /\ f.pos \in Nat
      /\ f.overall \in Nat /\ f.mode \in {"READ", "WRITE"}
      /\ f.off <= Len(d) /\ Len(d) \in Nat /\ Len(f.buf) \in Nat
      /\ f = [disk |-> d, off |-> f.off, mode |-> f.mode, buf |-> f.buf,
              pos |-> f.pos, overall |-> f.overall]
  BY FieldsOf
<1> HIDE DEF d
<1>1. a \in Bytes /\ Len(a) = f.off
  BY <1>0, PartOf, 0 + 1 = 1
<1>2. z \in Bytes /\ Len(z) \in Nat
  <2>1. CASE f.off + Len(f.buf) <= Len(d)
    <3>1. f.off + Len(f.buf) \in Nat
      BY <1>0
    <3>2. QED
      BY <1>0, <2>1, <3>1, PartOf
  <2>2. CASE ~(f.off + Len(f.buf) <= Len(d))
    <3>1. z = <<>>
      BY <1>0, <2>2, SubSeqEmpty
    <3>2. QED
      BY <3>1, NoBytes, 0 \in Nat, Zenon
  <2>3. QED
    BY <2>1, <2>2
<1>3. w = (a \o f.buf) \o z
  BY DEF Overwrite
<1>4. w \in Bytes /\ Len(w) \in Nat /\ f.off + Len(f.buf) <= Len(w)
  <2> HIDE DEF a, z, w
  <2>1. a \o f.buf \in Bytes /\ Len(a \o f.buf) = f.off + Len(f.buf)
    <3>1. a \o f.buf \in Bytes /\ Len(a \o f.buf) = Len(a) + Len(f.buf)
      BY <1>0, <1>1, JoinOf, Zenon
    <3>2. QED
      BY <1>1, <3>1
  <2>2. w \in Bytes /\ Len(w) = Len(a \o f.buf) + Len(z)
    BY <1>2, <1>3, <2>1, JoinOf, Zenon
  <2>3. QED
    BY <1>0, <1>2, <2>1, <2>2
<1>5. ASSUME f.off = Len(d) PROVE w = d \o f.buf
  <2>1. a = d
    BY <1>0, <1>5, SubSeqFull DEF Bytes
  <2>2. z = <<>>
    BY <1>0, <1>5, Len(d) < f.off + Len(f.buf) + 1, SubSeqEmpty
  <2>3. d \o f.buf \in Seq(Nat)
    BY <1>0, JoinOf DEF Bytes
  <2>4. (d \o f.buf) \o <<>> = d \o f.buf
    BY <2>3, ConcatEmptySeq
  <2>5. QED
    BY <1>3, <2>1, <2>2, <2>4
<1>6. Len(d \o f.buf) = Len(d) + Len(f.buf)
  BY <1>0, JoinOf
<1> DEFINE n == f.off + Len(f.buf)
<1>7. Flush(f) = [f EXCEPT !.disk = w, !.off = n, !.buf = <<>>]
  BY DEF Flush, d
<1>8. n \in Nat
  BY <1>0
<1> HIDE DEF w, n, a, z
<1>9. PICK e : e = <<>>
  OBVIOUS
<1>10. Flush(f) = [f EXCEPT !.disk = w, !.off = n, !.buf = e]
  BY <1>7, <1>9, Zenon
<1>11. /\ IsFile(Flush(f)) /\ Flush(f).disk = w /\ Flush(f).off = n /\ Flush(f).mode = f.mode
       /\ Flush(f).buf = e /\ Flush(f).pos = f.pos /\ Flush(f).overall = f.overall
  <2>1. Flush(f) = [disk |-> w, off |-> n, mode |-> f.mode, buf |-> e, pos |-> f.pos,
                    overall |-> f.overall]
    BY <1>0, <1>10
  <2>2. e \in Bytes
    BY <1>9, NoBytes, Zenon
  <2>3. n <= Len(w)
    BY <1>4 DEF n
  <2>4. QED
    BY <1>0, <1>4, <1>8, <2>1, <2>2, <2>3 DEF IsFile, Files
<1>12. f.off = Len(d) => w = d \o f.buf /\ n = Len(w)
  BY <1>0, <1>5, <1>6 DEF n
<1>13. QED
  BY <1>9, <1>11, <1>12, Zenon DEF d

(* Filling the buffer reads on where the kernel stands.                    *)
LEMMA FillReads ==
  ASSUME NEW f, IsFile(f)
  PROVE  /\ Reads([Fill(f) EXCEPT !.mode = "READ"], f.disk, f.off, f.overall)
         /\ f.mode = "READ" => Reads(Fill(f), f.disk, f.off, f.overall)
<1> DEFINE l == Len(f.disk) - f.off
           n == Max({0, Min({BufSize, l})})
<1>0. /\ f.disk \in Bytes /\ f.off \in Nat /\ f.buf \in Bytes /\ f.pos \in Nat
      /\ f.overall \in Nat /\ f.mode \in {"READ", "WRITE"}
      /\ f.off <= Len(f.disk) /\ Len(f.disk) \in Nat /\ Len(f.buf) \in Nat
      /\ f = [disk |-> f.disk, off |-> f.off, mode |-> f.mode, buf |-> f.buf,
              pos |-> f.pos, overall |-> f.overall]
  BY FieldsOf
<1>1. l \in Nat /\ BufSize \in Nat /\ BufSize > 0
  BY <1>0, ProofFileAssumption
<1>2. n = IF l < BufSize THEN l ELSE BufSize
  <2> DEFINE m == Min({BufSize, l})
  <2> HIDE DEF l
  <2>1. m = IF BufSize < l THEN BufSize ELSE l
    BY <1>1, Extremes
  <2>2. m \in Nat
    BY <1>1, <2>1
  <2> HIDE DEF m
  <2>3. Max({0, m}) = IF 0 < m THEN m ELSE 0
    BY <2>2, Extremes
  <2>4. QED
    BY <1>1, <2>1, <2>2, <2>3 DEF m
<1> DEFINE b == SubSeq(f.disk, f.off + 1, f.off + n)
           q == f.off + n
<1>3. n \in Nat /\ n <= l /\ n <= BufSize /\ (n < BufSize => n = l)
  BY <1>1, <1>2
<1>4. Fill(f) = [f EXCEPT !.buf = b, !.off = q, !.pos = 0]
  BY DEF Fill
<1> HIDE DEF n
<1>5. q \in Nat /\ f.off <= q /\ q <= Len(f.disk) /\ q - f.off = n /\ (n < BufSize => q = Len(f.disk))
  BY <1>0, <1>3
<1>6. b \in Bytes /\ Len(b) = n
  BY <1>0, <1>5, PartOf
<1> HIDE DEF q, b
<1> DEFINE g == [Fill(f) EXCEPT !.mode = "READ"]
<1>7. g = [disk |-> f.disk, off |-> q, mode |-> "READ", buf |-> b, pos |-> 0,
           overall |-> f.overall]
  <2>1. Fill(f) = [disk |-> f.disk, off |-> q, mode |-> f.mode, buf |-> b, pos |-> 0,
                   overall |-> f.overall]
    BY <1>0, <1>4
  <2>2. QED
    BY <2>1
<1>8. f.mode = "READ" => Fill(f) = g
  BY <1>0, <1>4
<1> HIDE DEF g
<1>9. /\ IsFile(g) /\ g.disk = f.disk /\ g.off = q /\ g.mode = "READ"
      /\ g.buf = b /\ g.pos = 0 /\ g.overall = f.overall
  BY <1>0, <1>5, <1>6, <1>7 DEF IsFile, Files
<1>10. q - n + 1 = f.off + 1 /\ f.off = q - n + 0 /\ n <= q /\ 0 <= n
  BY <1>0, <1>3, <1>5
<1>11. b = SubSeq(f.disk, q - n + 1, q)
  BY <1>10 DEF b, q
<1>12. Reads(g, f.disk, f.off, f.overall)
  BY <1>3, <1>5, <1>6, <1>9, <1>10, <1>11 DEF Reads
<1>13. QED
  BY <1>8, <1>12, Zenon DEF g

(* Seeking a place reads on from there, and a Reader counts from there.    *)
LEMMA SeekReads ==
  ASSUME NEW f, IsFile(f), f.mode = "READ", NEW n \in Nat, n <= Len(f.disk)
  PROVE  /\ Reads(Fill([f EXCEPT !.off = n]), f.disk, n, f.overall)
         /\ Reads(Seek(f, n), f.disk, n, n)
<1> DEFINE g == [f EXCEPT !.off = n]
<1>1. /\ IsFile(g) /\ g.mode = "READ" /\ g.disk = f.disk /\ g.off = n /\ g.overall = f.overall
  BY DEF IsFile, Files
<1> HIDE DEF g
<1>2. Reads(Fill(g), f.disk, n, f.overall)
  BY <1>1, FillReads, Zenon
<1> DEFINE h == Fill(g)
<1>3. Seek(f, n) = [h EXCEPT !.overall = n]
  BY DEF Seek, g
<1> HIDE DEF h
<1>4. Reads(h, f.disk, n, f.overall)
  BY <1>2 DEF h
<1>5. IsFile(h)
  BY <1>4 DEF Reads
<1> DEFINE k == [h EXCEPT !.overall = n]
<1>6. /\ IsFile(k) /\ k.mode = h.mode /\ k.disk = h.disk /\ k.off = h.off /\ k.buf = h.buf
      /\ k.pos = h.pos /\ k.overall = n
  BY <1>5 DEF IsFile, Files
<1> HIDE DEF k
<1>7. Reads(k, f.disk, n, n)
  BY <1>4, <1>6 DEF Reads
<1>8. QED
  BY <1>2, <1>3, <1>7 DEF g, k

(* Leaving a file that was read: writing goes on where reading stood.      *)
LEMMA ToWriteIs ==
  ASSUME NEW f, NEW d, NEW p, NEW o, Reads(f, d, p, o)
  PROVE  /\ IsFile(ToWrite(f)) /\ ToWrite(f).mode = "WRITE"
         /\ p = Len(d) => Writes(ToWrite(f), d)
<1> DEFINE q == f.off + f.pos - Len(f.buf)
<1>1. /\ IsFile(f) /\ f.disk = d /\ p = f.off - Len(f.buf) + f.pos
      /\ f.pos <= Len(f.buf) /\ Len(f.buf) <= f.off
  BY DEF Reads
<1>2. /\ f.disk \in Bytes /\ f.off \in Nat /\ f.pos \in Nat /\ f.off <= Len(d)
      /\ Len(d) \in Nat /\ Len(f.buf) \in Nat
  BY <1>1, FieldsOf
<1>3. q \in Nat /\ q <= Len(d) /\ q = p
  BY <1>1, <1>2
<1>4. PICK e : e = <<>>
  OBVIOUS
<1> DEFINE g == ToWrite(f)
<1>5. g = [f EXCEPT !.off = q, !.buf = e, !.pos = 0, !.mode = "WRITE", !.overall = 0]
  <2>1. g = [f EXCEPT !.off = q, !.buf = <<>>, !.pos = 0, !.mode = "WRITE", !.overall = 0]
    BY DEF ToWrite
  <2>2. QED
    BY <1>4, <2>1, Zenon
<1> HIDE DEF q, g
<1>6. e \in Bytes /\ Len(e) = 0
  BY <1>4, NoBytes, Zenon
<1>7. /\ IsFile(g) /\ g.disk = d /\ g.off = q /\ g.buf = e /\ g.mode = "WRITE"
  BY <1>1, <1>2, <1>3, <1>5, <1>6 DEF IsFile, Files
<1>8. d \o e = d
  BY <1>1, <1>2, <1>4, ConcatEmptySeq, Zenon DEF Bytes
<1>9. 0 <= BufSize
  BY ProofFileAssumption
<1>10. p = Len(d) => Writes(g, d)
  BY <1>3, <1>6, <1>7, <1>8, <1>9 DEF Writes
<1>11. QED
  BY <1>7, <1>10 DEF g

(* Going to the start of the file, whatever was done with it.              *)
LEMMA AtStartReads ==
  ASSUME NEW f, NEW d, Writes(f, d) \/ (IsFile(f) /\ f.mode = "READ" /\ f.disk = d)
  PROVE  Reads(AtStart(f), d, 0, AtStart(f).overall)
<1> DEFINE g == ToRead(f)
<1>1. IsFile(g) /\ g.mode = "READ" /\ g.disk = d
  <2>1. CASE Writes(f, d)
    <3> DEFINE h == Flush(f)
    <3>1. IsFile(h) /\ h.disk = d
      BY <2>1, FlushIs DEF Writes
    <3>2. g = [Fill(h) EXCEPT !.mode = "READ"]
      BY <2>1 DEF ToRead, Writes
    <3> HIDE DEF h, g
    <3>3. Reads(g, d, h.off, h.overall)
      BY <3>1, <3>2, FillReads, Zenon
    <3>4. QED
      BY <3>3 DEF Reads
  <2>2. CASE IsFile(f) /\ f.mode = "READ" /\ f.disk = d
    BY <2>2 DEF ToRead
  <2>3. QED
    BY <2>1, <2>2
<1> HIDE DEF g
<1>2. 0 \in Nat /\ 0 <= Len(g.disk)
  BY <1>1, FieldsOf
<1>3. Reads(Fill([g EXCEPT !.off = 0]), d, 0, g.overall)
  BY <1>1, <1>2, SeekReads, Zenon
<1>4. AtStart(f) = Fill([g EXCEPT !.off = 0])
  BY DEF AtStart, SeekStart, g
<1>5. Reads(AtStart(f), d, 0, g.overall)
  BY <1>3, <1>4
<1>6. AtStart(f).overall = g.overall
  BY <1>5 DEF Reads
<1>7. QED
  BY <1>5, <1>6

(* And back to its end, to log on.                                         *)
LEMMA RestoredWrites ==
  ASSUME NEW f, NEW d, NEW p, NEW o, Reads(f, d, p, o)
  PROVE  Writes(Restored(f), d)
<1>1. IsFile(f) /\ f.mode = "READ" /\ f.disk = d
  BY DEF Reads
<1>2. Len(d) \in Nat /\ Len(d) <= Len(f.disk)
  BY <1>1, FieldsOf
<1> DEFINE g == SeekEnd(f)
<1>3. Reads(g, d, Len(d), f.overall)
  BY <1>1, <1>2, SeekReads DEF SeekEnd
<1> HIDE DEF g
<1>4. Writes(ToWrite(g), d)
  BY <1>3, ToWriteIs
<1>5. QED
  BY <1>4 DEF Restored, g

(* A byte put into a file being written is the next of its bytes; and what  *)
(* is written into a file that was read leaves it a file being written.    *)
LEMMA PutIntoIs ==
  ASSUME NEW f, IsFile(f), f.mode = "WRITE", NEW byte \in Nat
  PROVE  /\ IsFile(PutInto(f, byte)) /\ PutInto(f, byte).mode = "WRITE"
         /\ \A d : Writes(f, d) => Writes(PutInto(f, byte), Append(d, byte))
<1> DEFINE g == IF Len(f.buf) = BufSize THEN Flush(f) ELSE f
           h == PutInto(f, byte)
<1>1. h = [g EXCEPT !.buf = Append(@, byte)]
  BY DEF PutInto
<1>2. IsFile(g) /\ g.mode = "WRITE"
  BY FlushIs
<1>3. ASSUME NEW d, Writes(f, d) PROVE Writes(g, d) /\ Len(g.buf) < BufSize
  <2>1. BufSize \in Nat \ {0} /\ Len(f.buf) \in Nat
    BY ProofFileAssumption, FieldsOf
  <2>2. CASE Len(f.buf) = BufSize
    <3>1. g = Flush(f)
      BY <2>2
    <3> HIDE DEF g
    <3>2. /\ g.disk = d /\ g.off = Len(g.disk) /\ g.buf = <<>>
      BY <1>3, <3>1, FlushIs DEF Writes
    <3>3. g.disk \in Bytes
      BY <1>2, FieldsOf
    <3>4. d \o <<>> = d
      BY <3>2, <3>3, ConcatEmptySeq DEF Bytes
    <3>5. Len(g.buf) = 0
      BY <3>2, NoBytes, Zenon
    <3>6. g.disk \o g.buf = d
      BY <3>2, <3>4, Zenon
    <3>7. QED
      BY <1>2, <2>1, <3>2, <3>5, <3>6 DEF Writes
  <2>3. CASE Len(f.buf) # BufSize
    <3>1. g = f
      BY <2>3
    <3> HIDE DEF g
    <3>2. Len(f.buf) <= BufSize
      BY <1>3, Zenon DEF Writes
    <3>3. Len(f.buf) < BufSize
      BY <2>1, <2>3, <3>2
    <3>4. QED
      BY <1>3, <3>1, <3>3, Zenon
  <2>4. QED
    BY <2>2, <2>3
<1> HIDE DEF g
<1> DEFINE b == Append(g.buf, byte)
<1>4. g.buf \in Bytes /\ g.disk \in Bytes /\ Len(g.buf) \in Nat
  BY <1>2, FieldsOf
<1>5. b \in Bytes /\ Len(b) = Len(g.buf) + 1 /\ b = g.buf \o <<byte>>
  BY <1>4, AppendProperties, AppendIsConcat DEF Bytes
<1> HIDE DEF b, h
<1>6. h = [g EXCEPT !.buf = b]
  BY <1>1 DEF b
<1>7. IsFile(h) /\ h.mode = "WRITE" /\ h.disk = g.disk /\ h.off = g.off /\ h.buf = b
  BY <1>2, <1>5, <1>6 DEF IsFile, Files
<1>8. ASSUME NEW d, Writes(f, d) PROVE Writes(h, Append(d, byte))
  <2>1. /\ g.off = Len(g.disk) /\ d = g.disk \o g.buf /\ Len(g.buf) < BufSize
    BY <1>3, <1>8 DEF Writes
  <2>2. d \in Bytes
    BY <1>4, <2>1, JoinOf, Zenon
  <2>3. Append(d, byte) = d \o <<byte>>
    BY <2>2, AppendIsConcat DEF Bytes
  <2>4. <<byte>> \in Bytes
    BY DEF Bytes
  <2>5. g.disk \o b = d \o <<byte>>
    <3>1. (g.disk \o g.buf) \o <<byte>> = g.disk \o (g.buf \o <<byte>>)
      <4> DEFINE u == <<byte>>
      <4> HIDE DEF u
      <4>1. u \in Seq(Nat)
        BY <2>4 DEF u, Bytes
      <4>2. (g.disk \o g.buf) \o u = g.disk \o (g.buf \o u)
        BY <1>4, <4>1, JoinsOf DEF Bytes
      <4>3. QED
        BY <4>2 DEF u
    <3>2. QED
      BY <1>5, <2>1, <3>1, Zenon
  <2>6. Len(b) <= BufSize
    BY <1>4, <1>5, <2>1, ProofFileAssumption
  <2>7. QED
    BY <1>7, <2>1, <2>3, <2>5, <2>6 DEF Writes
<1>9. QED
  BY <1>7, <1>8 DEF h

(* The next byte, or Eof at the end.                                       *)
LEMMA GetCharIs ==
  ASSUME NEW f, NEW d, NEW p, NEW o, Reads(f, d, p, o)
  PROVE  /\ d \in Bytes /\ p \in 0 .. Len(d) /\ o \in Nat
         /\ p < Len(d) => /\ GetChar(f).byte = d[p + 1]
                          /\ Reads(GetChar(f).f, d, p + 1, o + 1)
         /\ p = Len(d) => /\ GetChar(f).byte = Eof
                          /\ Reads(GetChar(f).f, d, p, o)
<1>1. /\ IsFile(f) /\ f.mode = "READ" /\ f.disk = d /\ f.overall = o
      /\ Len(f.buf) <= f.off /\ f.buf = SubSeq(d, f.off - Len(f.buf) + 1, f.off)
      /\ f.pos <= Len(f.buf) /\ Len(f.buf) <= BufSize
      /\ Len(f.buf) < BufSize => f.off = Len(d)
      /\ p = f.off - Len(f.buf) + f.pos
  BY DEF Reads
<1>2. /\ d \in Bytes /\ f.off \in Nat /\ f.pos \in Nat /\ f.off <= Len(d)
      /\ Len(d) \in Nat /\ Len(f.buf) \in Nat /\ o \in Nat
  BY <1>1, FieldsOf
<1>3. p \in 0 .. Len(d)
  BY <1>1, <1>2
<1>4. BufSize \in Nat /\ BufSize > 0
  BY ProofFileAssumption
<1>5. ASSUME NEW g, Reads(g, d, p, o), g.pos < Len(g.buf)
      PROVE  p < Len(d) /\ Take(g).byte = d[p + 1] /\ Reads(Take(g).f, d, p + 1, o + 1)
  <2>1. /\ IsFile(g) /\ g.mode = "READ" /\ g.disk = d /\ g.overall = o
        /\ Len(g.buf) <= g.off /\ g.buf = SubSeq(d, g.off - Len(g.buf) + 1, g.off)
        /\ p = g.off - Len(g.buf) + g.pos
    BY <1>5 DEF Reads
  <2>2. /\ g.off \in Nat /\ g.pos \in Nat /\ g.off <= Len(d) /\ Len(g.buf) \in Nat
    BY <2>1, FieldsOf
  <2> DEFINE a == g.off - Len(g.buf)
  <2>3. a \in Nat /\ a <= g.off /\ p = a + g.pos /\ g.off - a = Len(g.buf)
    BY <2>1, <2>2
  <2>4. \A i \in 1 .. g.off - a : SubSeq(d, a + 1, g.off)[i] = d[a + i]
    <3> HIDE DEF a
    <3>1. QED
      BY <1>2, <2>2, <2>3, PartOf
  <2>5. g.pos + 1 \in 1 .. g.off - a /\ a + (g.pos + 1) = p + 1
    <3> HIDE DEF a
    <3>1. QED
      BY <1>3, <1>5, <2>2, <2>3
  <2>6. g.buf[g.pos + 1] = d[p + 1]
    <3>1. SubSeq(d, a + 1, g.off)[g.pos + 1] = d[a + (g.pos + 1)]
      <4> HIDE DEF a
      <4>1. QED
        BY <2>4, <2>5, Zenon
    <3>2. QED
      BY <2>1, <2>5, <3>1
  <2> DEFINE h == [g EXCEPT !.pos = @ + 1, !.overall = @ + 1]
  <2>7. /\ IsFile(h) /\ h.mode = "READ" /\ h.disk = d /\ h.off = g.off /\ h.buf = g.buf
        /\ h.pos = g.pos + 1 /\ h.overall = o + 1
    <3> DEFINE r == g.pos + 1
               t == o + 1
    <3>1. r \in Nat /\ t \in Nat /\ h = [g EXCEPT !.pos = r, !.overall = t]
      BY <1>2, <2>1, <2>2
    <3> HIDE DEF r, t, h
    <3>2. /\ IsFile(h) /\ h.mode = g.mode /\ h.disk = g.disk /\ h.off = g.off /\ h.buf = g.buf
          /\ h.pos = r /\ h.overall = t
      BY <2>1, <3>1 DEF IsFile, Files
    <3>3. QED
      BY <2>1, <3>2 DEF r, t
  <2>8. Take(g).f = h /\ Take(g).byte = g.buf[g.pos + 1]
    BY DEF Take
  <2> HIDE DEF h, a
  <2>9. p + 1 = g.off - Len(g.buf) + (g.pos + 1) /\ g.pos + 1 <= Len(g.buf)
    BY <1>5, <2>1, <2>2
  <2>10. Reads(h, d, p + 1, o + 1)
    BY <1>5, <2>1, <2>7, <2>9 DEF Reads
  <2>11. p < Len(d)
    BY <1>2, <1>5, <2>1, <2>2
  <2>12. QED
    BY <2>6, <2>8, <2>10, <2>11
<1>6. CASE f.pos < Len(f.buf)
  BY <1>2, <1>3, <1>5, <1>6 DEF GetChar
<1>7. CASE ~(f.pos < Len(f.buf)) /\ Len(f.buf) < BufSize
  <2>1. p = Len(d) /\ GetChar(f) = [f |-> f, byte |-> Eof]
    BY <1>1, <1>2, <1>7 DEF GetChar
  <2>2. QED
    BY <1>2, <1>3, <2>1
<1>8. CASE ~(f.pos < Len(f.buf)) /\ ~(Len(f.buf) < BufSize)
  <2> DEFINE g == Fill(f)
  <2>1. f.off = p /\ GetChar(f) = TakeOrEof(g)
    BY <1>1, <1>2, <1>8 DEF GetChar
  <2>2. Reads(g, d, p, o)
    BY <1>1, <2>1, FillReads
  <2> HIDE DEF g
  <2>3. /\ IsFile(g) /\ Len(g.buf) <= g.off /\ p = g.off - Len(g.buf) + g.pos
        /\ Len(g.buf) < BufSize => g.off = Len(d)
        /\ g.pos <= Len(g.buf)
    BY <2>2 DEF Reads
  <2>4. g.off \in Nat /\ g.pos \in Nat /\ Len(g.buf) \in Nat /\ g.buf \in Bytes
    BY <2>3, FieldsOf
  <2>5. g.pos = 0
    BY DEF g, Fill
  <2>6. CASE g.buf = <<>>
    <3>1. Len(g.buf) = 0
      BY <2>6, NoBytes, Zenon
    <3>2. p = Len(d)
      BY <1>2, <1>4, <2>3, <2>4, <2>5, <3>1
    <3>3. GetChar(f) = [f |-> g, byte |-> Eof]
      BY <2>1, <2>6, Zenon DEF TakeOrEof
    <3>4. GetChar(f).byte = Eof /\ GetChar(f).f = g
      BY <3>3
    <3>5. QED
      BY <1>2, <1>3, <2>2, <3>2, <3>4
  <2>7. CASE g.buf # <<>>
    <3>1. Len(g.buf) # 0
      BY <2>4, <2>7, EmptySeq DEF Bytes
    <3>2. GetChar(f) = Take(g)
      BY <2>1, <2>7, Zenon DEF TakeOrEof
    <3>3. g.pos < Len(g.buf)
      BY <2>4, <2>5, <3>1
    <3>4. QED
      BY <1>2, <1>3, <1>5, <2>2, <3>2, <3>3
  <2>8. QED
    BY <2>6, <2>7
<1>9. QED
  BY <1>6, <1>7, <1>8

-----------------------------------------------------------------------------
(***************************************************************************)
(* The loops of the module, as equations.                                  *)
(***************************************************************************)

(* The steps of the clauses among the entries, as equations.              *)
LEMMA ClausesSteps ==
  ASSUME NEW l, Len(l) \in Nat
  PROVE  /\ ClausesUpTo(l)[0] = <<>>
         /\ \A k \in 1 .. Len(l) : ClausesUpTo(l)[k] = IF IsClause(l[k]) THEN Append(ClausesUpTo(l)[k - 1], l[k]) ELSE ClausesUpTo(l)[k - 1]
<1> DEFINE n == Len(l)
           F == ClausesUpTo(l)
           Base == <<>>
           Step(x, k) == IF IsClause(l[k]) THEN Append(x, l[k]) ELSE x
           Eq(u, m) == u = [k \in 0 .. m |-> IF k = 0 THEN Base ELSE Step(u[k - 1], k)]
           S == {m \in Nat : \E u : Eq(u, m)}
<1>1. (\E u : Eq(u, n)) => Eq(F, n)
  BY Zenon DEF ClausesUpTo
<1> HIDE DEF Base, Step, F
<1>2. 0 \in S
  <2> DEFINE u == [k \in 0 .. 0 |-> Base]
  <2>1. Eq(u, 0)
    OBVIOUS
  <2>2. QED
    BY <2>1
<1>3. ASSUME NEW m \in Nat, m \in S PROVE m + 1 \in S
  <2>1. PICK u : Eq(u, m)
    BY <1>3
  <2> DEFINE w == [k \in 0 .. m + 1 |-> IF k <= m THEN u[k]
                     ELSE IF k = 0 THEN Base ELSE Step(u[m], k)]
  <2>2. ASSUME NEW k \in 0 .. m + 1
        PROVE  w[k] = IF k = 0 THEN Base ELSE Step(w[k - 1], k)
    <3>1. CASE k <= m
      <4>1. k \in 0 .. m /\ w[k] = u[k] /\ (k # 0 => w[k - 1] = u[k - 1])
        BY <3>1
      <4>2. QED
        BY <2>1, <4>1
    <3>2. CASE k = m + 1
      <4>1. CASE k = 0
        BY <3>2, <4>1
      <4>2. CASE k # 0
        <5>1. k - 1 = m /\ m \in 0 .. m + 1 /\ m <= m /\ ~(k <= m)
          BY <3>2, <4>2
        <5>2. w[k - 1] = u[m] /\ w[k] = Step(u[m], k)
          BY <4>2, <5>1
        <5>3. QED
          BY <4>2, <5>2, Zenon
      <4>3. QED
        BY <4>1, <4>2
    <3>3. QED
      BY <3>1, <3>2
  <2>3. Eq(w, m + 1)
    <3>1. w = [k \in 0 .. m + 1 |-> w[k]]
      OBVIOUS
    <3> HIDE DEF w
    <3>2. QED
      BY <2>2, <3>1, Zenon
  <2> HIDE DEF w, Eq
  <2>4. \E h : Eq(h, m + 1)
    BY <2>3
  <2>5. QED
    BY <2>4
<1>4. n \in S
  <2> HIDE DEF S
  <2>1. QED
    BY <1>2, <1>3, AllNumbers
<1>5. F = [k \in 0 .. n |-> IF k = 0 THEN Base ELSE Step(F[k - 1], k)]
  BY <1>1, <1>4
<1>6. F[0] = Base
  <2>1. 0 \in 0 .. n
    OBVIOUS
  <2>2. QED
    BY <1>5, <2>1, Zenon
<1>7. ASSUME NEW k \in 1 .. n PROVE F[k] = Step(F[k - 1], k)
  <2>1. k \in 0 .. n /\ k # 0
    OBVIOUS
  <2>2. QED
    BY <1>5, <2>1, Zenon
<1>8. QED
  BY <1>6, <1>7, Zenon DEF F, Base, Step

(* Of the bytes put.                                                      *)
LEMMA PutSteps ==
  ASSUME NEW f, NEW bytes, Len(bytes) \in Nat
  PROVE  /\ PutChars(f, bytes)[0] = f
         /\ \A k \in 1 .. Len(bytes) : PutChars(f, bytes)[k] = PutChar(PutChars(f, bytes)[k - 1], bytes[k])
<1> DEFINE n == Len(bytes)
           F == PutChars(f, bytes)
           Base == f
           Step(x, k) == PutChar(x, bytes[k])
           Eq(u, m) == u = [k \in 0 .. m |-> IF k = 0 THEN Base ELSE Step(u[k - 1], k)]
           S == {m \in Nat : \E u : Eq(u, m)}
<1>1. (\E u : Eq(u, n)) => Eq(F, n)
  BY Zenon DEF PutChars
<1> HIDE DEF Base, Step, F
<1>2. 0 \in S
  <2> DEFINE u == [k \in 0 .. 0 |-> Base]
  <2>1. Eq(u, 0)
    OBVIOUS
  <2>2. QED
    BY <2>1
<1>3. ASSUME NEW m \in Nat, m \in S PROVE m + 1 \in S
  <2>1. PICK u : Eq(u, m)
    BY <1>3
  <2> DEFINE w == [k \in 0 .. m + 1 |-> IF k <= m THEN u[k]
                     ELSE IF k = 0 THEN Base ELSE Step(u[m], k)]
  <2>2. ASSUME NEW k \in 0 .. m + 1
        PROVE  w[k] = IF k = 0 THEN Base ELSE Step(w[k - 1], k)
    <3>1. CASE k <= m
      <4>1. k \in 0 .. m /\ w[k] = u[k] /\ (k # 0 => w[k - 1] = u[k - 1])
        BY <3>1
      <4>2. QED
        BY <2>1, <4>1
    <3>2. CASE k = m + 1
      <4>1. CASE k = 0
        BY <3>2, <4>1
      <4>2. CASE k # 0
        <5>1. k - 1 = m /\ m \in 0 .. m + 1 /\ m <= m /\ ~(k <= m)
          BY <3>2, <4>2
        <5>2. w[k - 1] = u[m] /\ w[k] = Step(u[m], k)
          BY <4>2, <5>1
        <5>3. QED
          BY <4>2, <5>2, Zenon
      <4>3. QED
        BY <4>1, <4>2
    <3>3. QED
      BY <3>1, <3>2
  <2>3. Eq(w, m + 1)
    <3>1. w = [k \in 0 .. m + 1 |-> w[k]]
      OBVIOUS
    <3> HIDE DEF w
    <3>2. QED
      BY <2>2, <3>1, Zenon
  <2> HIDE DEF w, Eq
  <2>4. \E h : Eq(h, m + 1)
    BY <2>3
  <2>5. QED
    BY <2>4
<1>4. n \in S
  <2> HIDE DEF S
  <2>1. QED
    BY <1>2, <1>3, AllNumbers
<1>5. F = [k \in 0 .. n |-> IF k = 0 THEN Base ELSE Step(F[k - 1], k)]
  BY <1>1, <1>4
<1>6. F[0] = Base
  <2>1. 0 \in 0 .. n
    OBVIOUS
  <2>2. QED
    BY <1>5, <2>1, Zenon
<1>7. ASSUME NEW k \in 1 .. n PROVE F[k] = Step(F[k - 1], k)
  <2>1. k \in 0 .. n /\ k # 0
    OBVIOUS
  <2>2. QED
    BY <1>5, <2>1, Zenon
<1>8. QED
  BY <1>6, <1>7, Zenon DEF F, Base, Step

(* Of the bytes of a number taken.                                        *)
LEMMA TakenSteps ==
  ASSUME NEW g, Following(g.byte) \in Nat
  PROVE  /\ BytesTaken(g)[0] = [f |-> g.f, val |-> Leading(g.byte)]
         /\ \A k \in 1 .. Following(g.byte) : BytesTaken(g)[k] = AndByte(GetChar(BytesTaken(g)[k - 1].f), BytesTaken(g)[k - 1].val)
<1> DEFINE n == Following(g.byte)
           F == BytesTaken(g)
           Base == [f |-> g.f, val |-> Leading(g.byte)]
           Step(x, k) == AndByte(GetChar(x.f), x.val)
           Eq(u, m) == u = [k \in 0 .. m |-> IF k = 0 THEN Base ELSE Step(u[k - 1], k)]
           S == {m \in Nat : \E u : Eq(u, m)}
<1>1. (\E u : Eq(u, n)) => Eq(F, n)
  BY Zenon DEF BytesTaken
<1> HIDE DEF Base, Step, F
<1>2. 0 \in S
  <2> DEFINE u == [k \in 0 .. 0 |-> Base]
  <2>1. Eq(u, 0)
    OBVIOUS
  <2>2. QED
    BY <2>1
<1>3. ASSUME NEW m \in Nat, m \in S PROVE m + 1 \in S
  <2>1. PICK u : Eq(u, m)
    BY <1>3
  <2> DEFINE w == [k \in 0 .. m + 1 |-> IF k <= m THEN u[k]
                     ELSE IF k = 0 THEN Base ELSE Step(u[m], k)]
  <2>2. ASSUME NEW k \in 0 .. m + 1
        PROVE  w[k] = IF k = 0 THEN Base ELSE Step(w[k - 1], k)
    <3>1. CASE k <= m
      <4>1. k \in 0 .. m /\ w[k] = u[k] /\ (k # 0 => w[k - 1] = u[k - 1])
        BY <3>1
      <4>2. QED
        BY <2>1, <4>1
    <3>2. CASE k = m + 1
      <4>1. CASE k = 0
        BY <3>2, <4>1
      <4>2. CASE k # 0
        <5>1. k - 1 = m /\ m \in 0 .. m + 1 /\ m <= m /\ ~(k <= m)
          BY <3>2, <4>2
        <5>2. w[k - 1] = u[m] /\ w[k] = Step(u[m], k)
          BY <4>2, <5>1
        <5>3. QED
          BY <4>2, <5>2, Zenon
      <4>3. QED
        BY <4>1, <4>2
    <3>3. QED
      BY <3>1, <3>2
  <2>3. Eq(w, m + 1)
    <3>1. w = [k \in 0 .. m + 1 |-> w[k]]
      OBVIOUS
    <3> HIDE DEF w
    <3>2. QED
      BY <2>2, <3>1, Zenon
  <2> HIDE DEF w, Eq
  <2>4. \E h : Eq(h, m + 1)
    BY <2>3
  <2>5. QED
    BY <2>4
<1>4. n \in S
  <2> HIDE DEF S
  <2>1. QED
    BY <1>2, <1>3, AllNumbers
<1>5. F = [k \in 0 .. n |-> IF k = 0 THEN Base ELSE Step(F[k - 1], k)]
  BY <1>1, <1>4
<1>6. F[0] = Base
  <2>1. 0 \in 0 .. n
    OBVIOUS
  <2>2. QED
    BY <1>5, <2>1, Zenon
<1>7. ASSUME NEW k \in 1 .. n PROVE F[k] = Step(F[k - 1], k)
  <2>1. k \in 0 .. n /\ k # 0
    OBVIOUS
  <2>2. QED
    BY <1>5, <2>1, Zenon
<1>8. QED
  BY <1>6, <1>7, Zenon DEF F, Base, Step

(* Of the bytes of some numbers.                                          *)
LEMMA BytesSteps ==
  ASSUME NEW numbers, Len(numbers) \in Nat
  PROVE  /\ BytesUpTo(numbers)[0] = <<>>
         /\ \A k \in 1 .. Len(numbers) : BytesUpTo(numbers)[k] = BytesUpTo(numbers)[k - 1] \o Encode(numbers[k])
<1> DEFINE n == Len(numbers)
           F == BytesUpTo(numbers)
           Base == <<>>
           Step(x, k) == x \o Encode(numbers[k])
           Eq(u, m) == u = [k \in 0 .. m |-> IF k = 0 THEN Base ELSE Step(u[k - 1], k)]
           S == {m \in Nat : \E u : Eq(u, m)}
<1>1. (\E u : Eq(u, n)) => Eq(F, n)
  BY Zenon DEF BytesUpTo
<1> HIDE DEF Base, Step, F
<1>2. 0 \in S
  <2> DEFINE u == [k \in 0 .. 0 |-> Base]
  <2>1. Eq(u, 0)
    OBVIOUS
  <2>2. QED
    BY <2>1
<1>3. ASSUME NEW m \in Nat, m \in S PROVE m + 1 \in S
  <2>1. PICK u : Eq(u, m)
    BY <1>3
  <2> DEFINE w == [k \in 0 .. m + 1 |-> IF k <= m THEN u[k]
                     ELSE IF k = 0 THEN Base ELSE Step(u[m], k)]
  <2>2. ASSUME NEW k \in 0 .. m + 1
        PROVE  w[k] = IF k = 0 THEN Base ELSE Step(w[k - 1], k)
    <3>1. CASE k <= m
      <4>1. k \in 0 .. m /\ w[k] = u[k] /\ (k # 0 => w[k - 1] = u[k - 1])
        BY <3>1
      <4>2. QED
        BY <2>1, <4>1
    <3>2. CASE k = m + 1
      <4>1. CASE k = 0
        BY <3>2, <4>1
      <4>2. CASE k # 0
        <5>1. k - 1 = m /\ m \in 0 .. m + 1 /\ m <= m /\ ~(k <= m)
          BY <3>2, <4>2
        <5>2. w[k - 1] = u[m] /\ w[k] = Step(u[m], k)
          BY <4>2, <5>1
        <5>3. QED
          BY <4>2, <5>2, Zenon
      <4>3. QED
        BY <4>1, <4>2
    <3>3. QED
      BY <3>1, <3>2
  <2>3. Eq(w, m + 1)
    <3>1. w = [k \in 0 .. m + 1 |-> w[k]]
      OBVIOUS
    <3> HIDE DEF w
    <3>2. QED
      BY <2>2, <3>1, Zenon
  <2> HIDE DEF w, Eq
  <2>4. \E h : Eq(h, m + 1)
    BY <2>3
  <2>5. QED
    BY <2>4
<1>4. n \in S
  <2> HIDE DEF S
  <2>1. QED
    BY <1>2, <1>3, AllNumbers
<1>5. F = [k \in 0 .. n |-> IF k = 0 THEN Base ELSE Step(F[k - 1], k)]
  BY <1>1, <1>4
<1>6. F[0] = Base
  <2>1. 0 \in 0 .. n
    OBVIOUS
  <2>2. QED
    BY <1>5, <2>1, Zenon
<1>7. ASSUME NEW k \in 1 .. n PROVE F[k] = Step(F[k - 1], k)
  <2>1. k \in 0 .. n /\ k # 0
    OBVIOUS
  <2>2. QED
    BY <1>5, <2>1, Zenon
<1>8. QED
  BY <1>6, <1>7, Zenon DEF F, Base, Step

(* Of the numbers read.                                                   *)
LEMMA RestSteps ==
  ASSUME NEW first, Len(first.f.disk) \in Nat
  PROVE  /\ RestRounds(first)[0] = [next |-> GetUInt(first.f), numbers |-> <<first.val>>]
         /\ \A k \in 1 .. Len(first.f.disk) : RestRounds(first)[k] = RestRound(RestRounds(first)[k - 1])
<1> DEFINE n == Len(first.f.disk)
           F == RestRounds(first)
           Base == [next |-> GetUInt(first.f), numbers |-> <<first.val>>]
           Step(x, k) == RestRound(x)
           Eq(u, m) == u = [k \in 0 .. m |-> IF k = 0 THEN Base ELSE Step(u[k - 1], k)]
           S == {m \in Nat : \E u : Eq(u, m)}
<1>1. (\E u : Eq(u, n)) => Eq(F, n)
  BY Zenon DEF RestRounds
<1> HIDE DEF Base, Step, F
<1>2. 0 \in S
  <2> DEFINE u == [k \in 0 .. 0 |-> Base]
  <2>1. Eq(u, 0)
    OBVIOUS
  <2>2. QED
    BY <2>1
<1>3. ASSUME NEW m \in Nat, m \in S PROVE m + 1 \in S
  <2>1. PICK u : Eq(u, m)
    BY <1>3
  <2> DEFINE w == [k \in 0 .. m + 1 |-> IF k <= m THEN u[k]
                     ELSE IF k = 0 THEN Base ELSE Step(u[m], k)]
  <2>2. ASSUME NEW k \in 0 .. m + 1
        PROVE  w[k] = IF k = 0 THEN Base ELSE Step(w[k - 1], k)
    <3>1. CASE k <= m
      <4>1. k \in 0 .. m /\ w[k] = u[k] /\ (k # 0 => w[k - 1] = u[k - 1])
        BY <3>1
      <4>2. QED
        BY <2>1, <4>1
    <3>2. CASE k = m + 1
      <4>1. CASE k = 0
        BY <3>2, <4>1
      <4>2. CASE k # 0
        <5>1. k - 1 = m /\ m \in 0 .. m + 1 /\ m <= m /\ ~(k <= m)
          BY <3>2, <4>2
        <5>2. w[k - 1] = u[m] /\ w[k] = Step(u[m], k)
          BY <4>2, <5>1
        <5>3. QED
          BY <4>2, <5>2, Zenon
      <4>3. QED
        BY <4>1, <4>2
    <3>3. QED
      BY <3>1, <3>2
  <2>3. Eq(w, m + 1)
    <3>1. w = [k \in 0 .. m + 1 |-> w[k]]
      OBVIOUS
    <3> HIDE DEF w
    <3>2. QED
      BY <2>2, <3>1, Zenon
  <2> HIDE DEF w, Eq
  <2>4. \E h : Eq(h, m + 1)
    BY <2>3
  <2>5. QED
    BY <2>4
<1>4. n \in S
  <2> HIDE DEF S
  <2>1. QED
    BY <1>2, <1>3, AllNumbers
<1>5. F = [k \in 0 .. n |-> IF k = 0 THEN Base ELSE Step(F[k - 1], k)]
  BY <1>1, <1>4
<1>6. F[0] = Base
  <2>1. 0 \in 0 .. n
    OBVIOUS
  <2>2. QED
    BY <1>5, <2>1, Zenon
<1>7. ASSUME NEW k \in 1 .. n PROVE F[k] = Step(F[k - 1], k)
  <2>1. k \in 0 .. n /\ k # 0
    OBVIOUS
  <2>2. QED
    BY <1>5, <2>1, Zenon
<1>8. QED
  BY <1>6, <1>7, Zenon DEF F, Base, Step

(* Of the sums.                                                           *)
LEMMA SumsSteps ==
  ASSUME NEW numbers, Len(numbers) \in Nat
  PROVE  /\ Sums(numbers) = [k \in 1 .. Len(numbers) |-> Sums(numbers)[k]]
         /\ Len(numbers) > 0 => Sums(numbers)[1] = numbers[1] \div 2
         /\ \A k \in 2 .. Len(numbers) : Sums(numbers)[k] = Sums(numbers)[k - 1] + numbers[k]
<1> DEFINE n == Len(numbers)
           F == Sums(numbers)
           Base == numbers[1] \div 2
           Step(x, k) == x + numbers[k]
           Eq(u, m) == u = [k \in 1 .. m |-> IF k = 1 THEN Base ELSE Step(u[k - 1], k)]
           S == {m \in Nat : \E u : Eq(u, m)}
<1>1. (\E u : Eq(u, n)) => Eq(F, n)
  BY Zenon DEF Sums
<1> HIDE DEF Base, Step, F
<1>2. 0 \in S
  <2> DEFINE u == [k \in 1 .. 0 |-> Base]
  <2>1. Eq(u, 0)
    OBVIOUS
  <2>2. QED
    BY <2>1
<1>3. ASSUME NEW m \in Nat, m \in S PROVE m + 1 \in S
  <2>1. PICK u : Eq(u, m)
    BY <1>3
  <2> DEFINE w == [k \in 1 .. m + 1 |-> IF k <= m THEN u[k]
                     ELSE IF k = 1 THEN Base ELSE Step(u[m], k)]
  <2>2. ASSUME NEW k \in 1 .. m + 1
        PROVE  w[k] = IF k = 1 THEN Base ELSE Step(w[k - 1], k)
    <3>1. CASE k <= m
      <4>1. k \in 1 .. m /\ w[k] = u[k] /\ (k # 1 => w[k - 1] = u[k - 1])
        BY <3>1
      <4>2. QED
        BY <2>1, <4>1
    <3>2. CASE k = m + 1
      <4>1. CASE k = 1
        BY <3>2, <4>1
      <4>2. CASE k # 1
        <5>1. k - 1 = m /\ m \in 1 .. m + 1 /\ m <= m /\ ~(k <= m)
          BY <3>2, <4>2
        <5>2. w[k - 1] = u[m] /\ w[k] = Step(u[m], k)
          BY <4>2, <5>1
        <5>3. QED
          BY <4>2, <5>2, Zenon
      <4>3. QED
        BY <4>1, <4>2
    <3>3. QED
      BY <3>1, <3>2
  <2>3. Eq(w, m + 1)
    <3>1. w = [k \in 1 .. m + 1 |-> w[k]]
      OBVIOUS
    <3> HIDE DEF w
    <3>2. QED
      BY <2>2, <3>1, Zenon
  <2> HIDE DEF w, Eq
  <2>4. \E h : Eq(h, m + 1)
    BY <2>3
  <2>5. QED
    BY <2>4
<1>4. n \in S
  <2> HIDE DEF S
  <2>1. QED
    BY <1>2, <1>3, AllNumbers
<1>5. F = [k \in 1 .. n |-> IF k = 1 THEN Base ELSE Step(F[k - 1], k)]
  BY <1>1, <1>4
<1>6. ASSUME n > 0 PROVE F[1] = Base
  <2>1. 1 \in 1 .. n
    BY <1>6
  <2>2. QED
    BY <1>5, <2>1, Zenon
<1>7. ASSUME NEW k \in 2 .. n PROVE F[k] = Step(F[k - 1], k)
  <2>1. k \in 1 .. n /\ k # 1
    OBVIOUS
  <2>2. QED
    BY <1>5, <2>1, Zenon
<1>8. F = [k \in 1 .. n |-> F[k]]
  BY <1>5
<1>9. QED
  BY <1>6, <1>7, <1>8, Zenon DEF F, Base, Step

(* Of the bytes copied.                                                   *)
LEMMA CopySteps ==
  ASSUME NEW f, Len(f.disk) \in Nat
  PROVE  /\ CopyRounds(f)[0] = [next |-> GetChar(f), bytes |-> <<>>]
         /\ \A k \in 1 .. Len(f.disk) : CopyRounds(f)[k] = CopyRound(CopyRounds(f)[k - 1])
<1> DEFINE n == Len(f.disk)
           F == CopyRounds(f)
           Base == [next |-> GetChar(f), bytes |-> <<>>]
           Step(x, k) == CopyRound(x)
           Eq(u, m) == u = [k \in 0 .. m |-> IF k = 0 THEN Base ELSE Step(u[k - 1], k)]
           S == {m \in Nat : \E u : Eq(u, m)}
<1>1. (\E u : Eq(u, n)) => Eq(F, n)
  BY Zenon DEF CopyRounds
<1> HIDE DEF Base, Step, F
<1>2. 0 \in S
  <2> DEFINE u == [k \in 0 .. 0 |-> Base]
  <2>1. Eq(u, 0)
    OBVIOUS
  <2>2. QED
    BY <2>1
<1>3. ASSUME NEW m \in Nat, m \in S PROVE m + 1 \in S
  <2>1. PICK u : Eq(u, m)
    BY <1>3
  <2> DEFINE w == [k \in 0 .. m + 1 |-> IF k <= m THEN u[k]
                     ELSE IF k = 0 THEN Base ELSE Step(u[m], k)]
  <2>2. ASSUME NEW k \in 0 .. m + 1
        PROVE  w[k] = IF k = 0 THEN Base ELSE Step(w[k - 1], k)
    <3>1. CASE k <= m
      <4>1. k \in 0 .. m /\ w[k] = u[k] /\ (k # 0 => w[k - 1] = u[k - 1])
        BY <3>1
      <4>2. QED
        BY <2>1, <4>1
    <3>2. CASE k = m + 1
      <4>1. CASE k = 0
        BY <3>2, <4>1
      <4>2. CASE k # 0
        <5>1. k - 1 = m /\ m \in 0 .. m + 1 /\ m <= m /\ ~(k <= m)
          BY <3>2, <4>2
        <5>2. w[k - 1] = u[m] /\ w[k] = Step(u[m], k)
          BY <4>2, <5>1
        <5>3. QED
          BY <4>2, <5>2, Zenon
      <4>3. QED
        BY <4>1, <4>2
    <3>3. QED
      BY <3>1, <3>2
  <2>3. Eq(w, m + 1)
    <3>1. w = [k \in 0 .. m + 1 |-> w[k]]
      OBVIOUS
    <3> HIDE DEF w
    <3>2. QED
      BY <2>2, <3>1, Zenon
  <2> HIDE DEF w, Eq
  <2>4. \E h : Eq(h, m + 1)
    BY <2>3
  <2>5. QED
    BY <2>4
<1>4. n \in S
  <2> HIDE DEF S
  <2>1. QED
    BY <1>2, <1>3, AllNumbers
<1>5. F = [k \in 0 .. n |-> IF k = 0 THEN Base ELSE Step(F[k - 1], k)]
  BY <1>1, <1>4
<1>6. F[0] = Base
  <2>1. 0 \in 0 .. n
    OBVIOUS
  <2>2. QED
    BY <1>5, <2>1, Zenon
<1>7. ASSUME NEW k \in 1 .. n PROVE F[k] = Step(F[k - 1], k)
  <2>1. k \in 0 .. n /\ k # 0
    OBVIOUS
  <2>2. QED
    BY <1>5, <2>1, Zenon
<1>8. QED
  BY <1>6, <1>7, Zenon DEF F, Base, Step

(* Of the entries traversed.                                              *)
LEMMA TraverseSteps ==
  ASSUME NEW f, NEW goal, Len(f.disk) \in Nat
  PROVE  /\ TraverseRounds(f, goal)[0] = [f |-> f, id |-> 0, entries |-> <<>>]
         /\ \A k \in 1 .. Len(f.disk) : TraverseRounds(f, goal)[k] = TraverseRound(TraverseRounds(f, goal)[k - 1], goal)
<1> DEFINE n == Len(f.disk)
           F == TraverseRounds(f, goal)
           Base == [f |-> f, id |-> 0, entries |-> <<>>]
           Step(x, k) == TraverseRound(x, goal)
           Eq(u, m) == u = [k \in 0 .. m |-> IF k = 0 THEN Base ELSE Step(u[k - 1], k)]
           S == {m \in Nat : \E u : Eq(u, m)}
<1>1. (\E u : Eq(u, n)) => Eq(F, n)
  BY Zenon DEF TraverseRounds
<1> HIDE DEF Base, Step, F
<1>2. 0 \in S
  <2> DEFINE u == [k \in 0 .. 0 |-> Base]
  <2>1. Eq(u, 0)
    OBVIOUS
  <2>2. QED
    BY <2>1
<1>3. ASSUME NEW m \in Nat, m \in S PROVE m + 1 \in S
  <2>1. PICK u : Eq(u, m)
    BY <1>3
  <2> DEFINE w == [k \in 0 .. m + 1 |-> IF k <= m THEN u[k]
                     ELSE IF k = 0 THEN Base ELSE Step(u[m], k)]
  <2>2. ASSUME NEW k \in 0 .. m + 1
        PROVE  w[k] = IF k = 0 THEN Base ELSE Step(w[k - 1], k)
    <3>1. CASE k <= m
      <4>1. k \in 0 .. m /\ w[k] = u[k] /\ (k # 0 => w[k - 1] = u[k - 1])
        BY <3>1
      <4>2. QED
        BY <2>1, <4>1
    <3>2. CASE k = m + 1
      <4>1. CASE k = 0
        BY <3>2, <4>1
      <4>2. CASE k # 0
        <5>1. k - 1 = m /\ m \in 0 .. m + 1 /\ m <= m /\ ~(k <= m)
          BY <3>2, <4>2
        <5>2. w[k - 1] = u[m] /\ w[k] = Step(u[m], k)
          BY <4>2, <5>1
        <5>3. QED
          BY <4>2, <5>2, Zenon
      <4>3. QED
        BY <4>1, <4>2
    <3>3. QED
      BY <3>1, <3>2
  <2>3. Eq(w, m + 1)
    <3>1. w = [k \in 0 .. m + 1 |-> w[k]]
      OBVIOUS
    <3> HIDE DEF w
    <3>2. QED
      BY <2>2, <3>1, Zenon
  <2> HIDE DEF w, Eq
  <2>4. \E h : Eq(h, m + 1)
    BY <2>3
  <2>5. QED
    BY <2>4
<1>4. n \in S
  <2> HIDE DEF S
  <2>1. QED
    BY <1>2, <1>3, AllNumbers
<1>5. F = [k \in 0 .. n |-> IF k = 0 THEN Base ELSE Step(F[k - 1], k)]
  BY <1>1, <1>4
<1>6. F[0] = Base
  <2>1. 0 \in 0 .. n
    OBVIOUS
  <2>2. QED
    BY <1>5, <2>1, Zenon
<1>7. ASSUME NEW k \in 1 .. n PROVE F[k] = Step(F[k - 1], k)
  <2>1. k \in 0 .. n /\ k # 0
    OBVIOUS
  <2>2. QED
    BY <1>5, <2>1, Zenon
<1>8. QED
  BY <1>6, <1>7, Zenon DEF F, Base, Step

(* Of the places noted.                                                   *)
LEMMA PlacesSteps ==
  ASSUME NEW f, Len(f.disk) \in Nat
  PROVE  /\ PlacesRounds(f)[0] = [next |-> GetUInt(f), at |-> 0, places |-> <<>>]
         /\ \A k \in 1 .. Len(f.disk) : PlacesRounds(f)[k] = PlacesRound(PlacesRounds(f)[k - 1])
<1> DEFINE n == Len(f.disk)
           F == PlacesRounds(f)
           Base == [next |-> GetUInt(f), at |-> 0, places |-> <<>>]
           Step(x, k) == PlacesRound(x)
           Eq(u, m) == u = [k \in 0 .. m |-> IF k = 0 THEN Base ELSE Step(u[k - 1], k)]
           S == {m \in Nat : \E u : Eq(u, m)}
<1>1. (\E u : Eq(u, n)) => Eq(F, n)
  BY Zenon DEF PlacesRounds
<1> HIDE DEF Base, Step, F
<1>2. 0 \in S
  <2> DEFINE u == [k \in 0 .. 0 |-> Base]
  <2>1. Eq(u, 0)
    OBVIOUS
  <2>2. QED
    BY <2>1
<1>3. ASSUME NEW m \in Nat, m \in S PROVE m + 1 \in S
  <2>1. PICK u : Eq(u, m)
    BY <1>3
  <2> DEFINE w == [k \in 0 .. m + 1 |-> IF k <= m THEN u[k]
                     ELSE IF k = 0 THEN Base ELSE Step(u[m], k)]
  <2>2. ASSUME NEW k \in 0 .. m + 1
        PROVE  w[k] = IF k = 0 THEN Base ELSE Step(w[k - 1], k)
    <3>1. CASE k <= m
      <4>1. k \in 0 .. m /\ w[k] = u[k] /\ (k # 0 => w[k - 1] = u[k - 1])
        BY <3>1
      <4>2. QED
        BY <2>1, <4>1
    <3>2. CASE k = m + 1
      <4>1. CASE k = 0
        BY <3>2, <4>1
      <4>2. CASE k # 0
        <5>1. k - 1 = m /\ m \in 0 .. m + 1 /\ m <= m /\ ~(k <= m)
          BY <3>2, <4>2
        <5>2. w[k - 1] = u[m] /\ w[k] = Step(u[m], k)
          BY <4>2, <5>1
        <5>3. QED
          BY <4>2, <5>2, Zenon
      <4>3. QED
        BY <4>1, <4>2
    <3>3. QED
      BY <3>1, <3>2
  <2>3. Eq(w, m + 1)
    <3>1. w = [k \in 0 .. m + 1 |-> w[k]]
      OBVIOUS
    <3> HIDE DEF w
    <3>2. QED
      BY <2>2, <3>1, Zenon
  <2> HIDE DEF w, Eq
  <2>4. \E h : Eq(h, m + 1)
    BY <2>3
  <2>5. QED
    BY <2>4
<1>4. n \in S
  <2> HIDE DEF S
  <2>1. QED
    BY <1>2, <1>3, AllNumbers
<1>5. F = [k \in 0 .. n |-> IF k = 0 THEN Base ELSE Step(F[k - 1], k)]
  BY <1>1, <1>4
<1>6. F[0] = Base
  <2>1. 0 \in 0 .. n
    OBVIOUS
  <2>2. QED
    BY <1>5, <2>1, Zenon
<1>7. ASSUME NEW k \in 1 .. n PROVE F[k] = Step(F[k - 1], k)
  <2>1. k \in 0 .. n /\ k # 0
    OBVIOUS
  <2>2. QED
    BY <1>5, <2>1, Zenon
<1>8. QED
  BY <1>6, <1>7, Zenon DEF F, Base, Step

(* Of the bytes of the log.                                               *)
LEMMA LogSteps ==
  ASSUME NEW l, Len(l) \in Nat
  PROVE  /\ LogBytes(l)[0] = <<>>
         /\ \A k \in 1 .. Len(l) : LogBytes(l)[k] = LogBytes(l)[k - 1] \o EntryBytes(l[k], Len(ClausesUpTo(l)[k - 1]))
<1> DEFINE n == Len(l)
           F == LogBytes(l)
           Base == <<>>
           Step(x, k) == x \o EntryBytes(l[k], Len(ClausesUpTo(l)[k - 1]))
           Eq(u, m) == u = [k \in 0 .. m |-> IF k = 0 THEN Base ELSE Step(u[k - 1], k)]
           S == {m \in Nat : \E u : Eq(u, m)}
<1>1. (\E u : Eq(u, n)) => Eq(F, n)
  BY Zenon DEF LogBytes
<1> HIDE DEF Base, Step, F
<1>2. 0 \in S
  <2> DEFINE u == [k \in 0 .. 0 |-> Base]
  <2>1. Eq(u, 0)
    OBVIOUS
  <2>2. QED
    BY <2>1
<1>3. ASSUME NEW m \in Nat, m \in S PROVE m + 1 \in S
  <2>1. PICK u : Eq(u, m)
    BY <1>3
  <2> DEFINE w == [k \in 0 .. m + 1 |-> IF k <= m THEN u[k]
                     ELSE IF k = 0 THEN Base ELSE Step(u[m], k)]
  <2>2. ASSUME NEW k \in 0 .. m + 1
        PROVE  w[k] = IF k = 0 THEN Base ELSE Step(w[k - 1], k)
    <3>1. CASE k <= m
      <4>1. k \in 0 .. m /\ w[k] = u[k] /\ (k # 0 => w[k - 1] = u[k - 1])
        BY <3>1
      <4>2. QED
        BY <2>1, <4>1
    <3>2. CASE k = m + 1
      <4>1. CASE k = 0
        BY <3>2, <4>1
      <4>2. CASE k # 0
        <5>1. k - 1 = m /\ m \in 0 .. m + 1 /\ m <= m /\ ~(k <= m)
          BY <3>2, <4>2
        <5>2. w[k - 1] = u[m] /\ w[k] = Step(u[m], k)
          BY <4>2, <5>1
        <5>3. QED
          BY <4>2, <5>2, Zenon
      <4>3. QED
        BY <4>1, <4>2
    <3>3. QED
      BY <3>1, <3>2
  <2>3. Eq(w, m + 1)
    <3>1. w = [k \in 0 .. m + 1 |-> w[k]]
      OBVIOUS
    <3> HIDE DEF w
    <3>2. QED
      BY <2>2, <3>1, Zenon
  <2> HIDE DEF w, Eq
  <2>4. \E h : Eq(h, m + 1)
    BY <2>3
  <2>5. QED
    BY <2>4
<1>4. n \in S
  <2> HIDE DEF S
  <2>1. QED
    BY <1>2, <1>3, AllNumbers
<1>5. F = [k \in 0 .. n |-> IF k = 0 THEN Base ELSE Step(F[k - 1], k)]
  BY <1>1, <1>4
<1>6. F[0] = Base
  <2>1. 0 \in 0 .. n
    OBVIOUS
  <2>2. QED
    BY <1>5, <2>1, Zenon
<1>7. ASSUME NEW k \in 1 .. n PROVE F[k] = Step(F[k - 1], k)
  <2>1. k \in 0 .. n /\ k # 0
    OBVIOUS
  <2>2. QED
    BY <1>5, <2>1, Zenon
<1>8. QED
  BY <1>6, <1>7, Zenon DEF F, Base, Step

-----------------------------------------------------------------------------
(***************************************************************************)
(* Numbers: what putUInt writes, getUInt reads.                            *)
(***************************************************************************)

\* The bytes b are those of d from place p on.
Held(d, p, b) == p + Len(b) <= Len(d) /\ \A i \in 1 .. Len(b) : d[p + i] = b[i]

\* Parts e[1] .. e[n] put one after another, c[k] being the first k of them.
Joined(n, c, e) ==
    /\ c[0] = <<>>
    /\ \A k \in 1 .. n : e[k] \in Bytes /\ c[k] = c[k - 1] \o e[k]
Ends(m, c) == \A k \in 0 .. m : c[k] \in Bytes /\ Len(c[k]) \in Nat /\ Len(c[k]) <= Len(c[m])
PartAt(m, k, c, e) ==
    /\ Len(e[k]) \in Nat /\ Len(c[k]) = Len(c[k - 1]) + Len(e[k])
    /\ Held(c[m], Len(c[k - 1]), e[k])

(* Each part is where the ones before end.                                 *)
LEMMA Concatenation ==
  ASSUME NEW n \in Nat, NEW c, NEW e, Joined(n, c, e)
  PROVE  Ends(n, c) /\ \A k \in 1 .. n : PartAt(n, k, c, e)
<1> DEFINE Q(m) == Ends(m, c) /\ \A k \in 1 .. m : PartAt(m, k, c, e)
           S == {m \in Nat : m <= n => Q(m)}
<1>1. 0 \in S
  <2>1. c[0] \in Bytes /\ Len(c[0]) = 0
    BY NoBytes, Zenon DEF Joined
  <2>2. Ends(0, c)
    <3>1. ASSUME NEW k \in 0 .. 0 PROVE c[k] \in Bytes /\ Len(c[k]) \in Nat /\ Len(c[k]) <= Len(c[0])
      <4>1. k = 0
        OBVIOUS
      <4>2. QED
        BY <2>1, <4>1
    <3>2. QED
      BY <3>1 DEF Ends
  <2>3. Q(0)
    BY <2>2
  <2>4. QED
    BY <2>3
<1>2. ASSUME NEW m \in Nat, m \in S PROVE m + 1 \in S
  <2> HIDE DEF Q
  <2>1. ASSUME m + 1 <= n PROVE Q(m + 1)
    <3>1. Ends(m, c) /\ \A k \in 1 .. m : PartAt(m, k, c, e)
      BY <1>2, <2>1 DEF Q
    <3>2. m + 1 \in 1 .. n /\ (m + 1) - 1 = m /\ m \in 0 .. m
      BY <2>1
    <3> DEFINE b == c[m + 1]
               a == c[m]
               x == e[m + 1]
    <3>3. a \in Bytes /\ Len(a) \in Nat
      BY <3>1, <3>2, Zenon DEF Ends
    <3>4. x \in Bytes /\ b = a \o x
      BY <3>2, Zenon DEF Joined
    <3> HIDE DEF a, b, x
    <3>5. /\ b \in Bytes /\ Len(b) = Len(a) + Len(x) /\ Len(x) \in Nat
          /\ \A i \in 1 .. Len(a) : b[i] = a[i]
          /\ \A i \in 1 .. Len(x) : b[Len(a) + i] = x[i]
      BY <3>3, <3>4, JoinOf, Zenon
    <3>6. ASSUME NEW k \in 0 .. m + 1
          PROVE  c[k] \in Bytes /\ Len(c[k]) \in Nat /\ Len(c[k]) <= Len(b)
      <4>1. CASE k = m + 1
        <5>1. c[k] = b
          BY <4>1 DEF b
        <5>2. QED
          BY <3>3, <3>5, <5>1
      <4>2. CASE k # m + 1
        <5>1. k \in 0 .. m
          BY <4>2
        <5>2. c[k] \in Bytes /\ Len(c[k]) \in Nat /\ Len(c[k]) <= Len(a)
          BY <3>1, <5>1, Zenon DEF Ends, a
        <5>3. QED
          BY <3>3, <3>5, <5>2
      <4>3. QED
        BY <4>1, <4>2
    <3>7. ASSUME NEW k \in 1 .. m + 1 PROVE PartAt(m + 1, k, c, e)
      <4>1. CASE k = m + 1
        <5>1. c[k - 1] = a /\ c[k] = b /\ e[k] = x
          BY <4>1, <3>2 DEF a, b, x
        <5>2. Held(b, Len(a), x)
          BY <3>3, <3>5 DEF Held
        <5>3. QED
          BY <3>5, <5>1, <5>2 DEF PartAt, b
      <4>2. CASE k # m + 1
        <5>1. k \in 1 .. m /\ k - 1 \in 0 .. m
          BY <4>2
        <5> DEFINE y == e[k]
                   l == Len(c[k - 1])
        <5>2. /\ Len(y) \in Nat /\ Len(c[k]) = l + Len(y) /\ l \in Nat
              /\ l + Len(y) <= Len(a) /\ \A i \in 1 .. Len(y) : a[l + i] = y[i]
          BY <3>1, <5>1, Zenon DEF PartAt, Held, Ends, a
        <5> HIDE DEF y, l
        <5>3. ASSUME NEW i \in 1 .. Len(y) PROVE b[l + i] = y[i]
          <6>1. l + i \in 1 .. Len(a)
            BY <3>3, <5>2
          <6>2. QED
            BY <3>5, <5>2, <6>1
        <5>4. Held(b, l, y)
          BY <3>3, <3>5, <5>2, <5>3 DEF Held
        <5>5. QED
          BY <5>2, <5>4, Zenon DEF PartAt, b, y, l
      <4>3. QED
        BY <4>1, <4>2
    <3>8. Ends(m + 1, c)
      BY <3>6, Zenon DEF Ends, b
    <3>9. QED
      BY <3>7, <3>8, Zenon DEF Q
  <2>2. QED
    BY <2>1
<1>3. n \in S
  <2> HIDE DEF S
  <2>1. QED
    BY <1>1, <1>2, AllNumbers
<1>4. QED
  BY <1>3

(* The parts of a number.                                                  *)
LEMMA PartsOfNumber ==
  ASSUME NEW v \in Nat
  PROVE  /\ High(v, 0) = v \div 1 /\ High(v, 1) = v \div 256 /\ High(v, 2) = v \div 65536
         /\ High(v, 3) = v \div 16777216
         /\ ByteOf(v, 0) = v % 256 /\ ByteOf(v, 1) = (v \div 256) % 256
         /\ ByteOf(v, 2) = (v \div 65536) % 256 /\ ByteOf(v, 3) = (v \div 16777216) % 256
<1>1. /\ High(v, 0) = v \div 1 /\ High(v, 1) = v \div 256 /\ High(v, 2) = v \div 65536
      /\ High(v, 3) = v \div 16777216
  BY SMT DEF High, Place256
<1>2. v \div 1 = v
  BY SMT
<1>3. QED
  BY <1>1, <1>2, SMT DEF ByteOf

\* The bytes that putUInt splits a number into are natural numbers.
LEMMA ByteIsNat ==
  ASSUME NEW v \in Nat, NEW k \in {0, 1, 2, 3}
  PROVE  ByteOf(v, k) \in Nat /\ High(v, k) \in Nat
<1>1. /\ v \div 1 \in Nat /\ v \div 256 \in Nat /\ v \div 65536 \in Nat
      /\ v \div 16777216 \in Nat
  BY SMT
<1>2. /\ v % 256 \in Nat /\ (v \div 256) % 256 \in Nat /\ (v \div 65536) % 256 \in Nat
      /\ (v \div 16777216) % 256 \in Nat
  BY SMT
<1>0. v \div 1 = v
  BY SMT
<1>3. CASE k = 0
  <2>1. High(v, k) = v \div 1 /\ ByteOf(v, k) = v % 256
    BY <1>3, <1>0, SMT DEF High, ByteOf, Place256
  <2>2. QED
    BY <1>1, <1>2, <2>1
<1>4. CASE k = 1
  <2>1. High(v, k) = v \div 256 /\ ByteOf(v, k) = (v \div 256) % 256
    BY <1>4, SMT DEF High, ByteOf, Place256
  <2>2. QED
    BY <1>1, <1>2, <2>1
<1>5. CASE k = 2
  <2>1. High(v, k) = v \div 65536 /\ ByteOf(v, k) = (v \div 65536) % 256
    BY <1>5, SMT DEF High, ByteOf, Place256
  <2>2. QED
    BY <1>1, <1>2, <2>1, SMT
<1>6. CASE k = 3
  <2>1. High(v, k) = v \div 16777216 /\ ByteOf(v, k) = (v \div 16777216) % 256
    BY <1>6, SMT DEF High, ByteOf, Place256
  <2>2. QED
    BY <1>1, <1>2, <2>1, SMT
<1>7. QED
  BY <1>3, <1>4, <1>5, <1>6

(* A number is made of its bytes, and of the five bits a first byte holds  *)
(* and the bytes after it.  (Numerals this large are for the SMT solver.)  *)
LEMMA NumberOfBytes ==
  ASSUME NEW v \in Nat
  PROVE  /\ v < Forms[1] => v < 128
         /\ v < Forms[2] =>
              High(v, 1) < 32 /\ High(v, 1) * 256 + ByteOf(v, 0) = v
         /\ v < Forms[3] =>
              High(v, 2) < 32 /\ (High(v, 2) * 256 + ByteOf(v, 1)) * 256 + ByteOf(v, 0) = v
         /\ v < Forms[4] =>
              /\ High(v, 3) < 32
              /\ ((High(v, 3) * 256 + ByteOf(v, 2)) * 256 + ByteOf(v, 1)) * 256 + ByteOf(v, 0) = v
         /\ v <= NumberLimit =>
              ((ByteOf(v, 3) * 256 + ByteOf(v, 2)) * 256 + ByteOf(v, 1)) * 256 + ByteOf(v, 0) = v
<1>1. /\ High(v, 1) = v \div 256 /\ High(v, 2) = v \div 65536 /\ High(v, 3) = v \div 16777216
  BY SMT DEF High, Place256
<1>3. High(v, 0) = v
  <2>1. v \div 1 = v
    BY SMT
  <2>2. QED
    BY <2>1, SMT DEF High, Place256
<1>2. /\ ByteOf(v, 0) = v % 256 /\ ByteOf(v, 1) = (v \div 256) % 256
      /\ ByteOf(v, 2) = (v \div 65536) % 256 /\ ByteOf(v, 3) = (v \div 16777216) % 256
  BY <1>1, <1>3, SMT DEF ByteOf
<1>4. v < Forms[1] => v < 128
  BY SMT DEF Forms
<1>5. v < Forms[2] => High(v, 1) < 32 /\ High(v, 1) * 256 + ByteOf(v, 0) = v
  <2>1. v < 8192 => v \div 256 < 32 /\ (v \div 256) * 256 + (v % 256) = v
    BY SMT
  <2>2. QED
    BY <1>1, <1>2, <2>1, SMT DEF Forms
<1>6. v < Forms[3] =>
        High(v, 2) < 32 /\ (High(v, 2) * 256 + ByteOf(v, 1)) * 256 + ByteOf(v, 0) = v
  <2>1. v < 2097152 =>
          /\ v \div 65536 < 32
          /\ ((v \div 65536) * 256 + ((v \div 256) % 256)) * 256 + (v % 256) = v
    BY SMT
  <2>2. QED
    BY <1>1, <1>2, <2>1, SMT DEF Forms
<1>7. v < Forms[4] =>
        /\ High(v, 3) < 32
        /\ ((High(v, 3) * 256 + ByteOf(v, 2)) * 256 + ByteOf(v, 1)) * 256 + ByteOf(v, 0) = v
  <2>1. v < 536870912 =>
          /\ v \div 16777216 < 32
          /\ (((v \div 16777216) * 256 + ((v \div 65536) % 256)) * 256
                + ((v \div 256) % 256)) * 256 + (v % 256) = v
    BY SMT
  <2>2. QED
    BY <1>1, <1>2, <2>1, SMT DEF Forms
<1>8. v <= NumberLimit =>
        ((ByteOf(v, 3) * 256 + ByteOf(v, 2)) * 256 + ByteOf(v, 1)) * 256 + ByteOf(v, 0) = v
  <2>1. v <= 2147483647 =>
          ((((v \div 16777216) % 256) * 256 + ((v \div 65536) % 256)) * 256
             + ((v \div 256) % 256)) * 256 + (v % 256) = v
    BY SMT
  <2>2. QED
    <3>1. ASSUME v <= 2147483647
          PROVE  ((ByteOf(v, 3) * 256 + ByteOf(v, 2)) * 256 + ByteOf(v, 1)) * 256 + ByteOf(v, 0) = v
      <4> DEFINE a == v % 256
                 b == (v \div 256) % 256
                 c == (v \div 65536) % 256
                 d == (v \div 16777216) % 256
      <4>1. ((d * 256 + c) * 256 + b) * 256 + a = v
        BY <2>1, <3>1, SMT
      <4>2. ByteOf(v, 0) = a /\ ByteOf(v, 1) = b /\ ByteOf(v, 2) = c /\ ByteOf(v, 3) = d
        BY <1>2, SMT
      <4> HIDE DEF a, b, c, d
      <4>3. QED
        BY <4>1, <4>2
    <3>2. QED
      BY <3>1, SMT DEF NumberLimit
<1>9. QED
  BY <1>4, <1>5, <1>6, <1>7, <1>8, Zenon

(* A first part and the low bytes of a number.                             *)
LEMMA FormOf ==
  ASSUME NEW v \in Nat, NEW n \in 1 .. 4, NEW b \in Bytes
  PROVE  /\ b \o LowBytes(v, n) \in Bytes /\ Len(b \o LowBytes(v, n)) = Len(b) + n
         /\ \A i \in 1 .. Len(b) : (b \o LowBytes(v, n))[i] = b[i]
         /\ \A i \in 1 .. n : (b \o LowBytes(v, n))[Len(b) + i] = ByteOf(v, n - i)
<1> DEFINE w == LowBytes(v, n)
<1>1. ASSUME NEW i \in 1 .. n PROVE ByteOf(v, n - i) \in Nat
  <2>1. n - i \in {0, 1, 2, 3}
    OBVIOUS
  <2>2. QED
    BY <2>1, ByteIsNat
<1>2. w = [i \in 1 .. n |-> ByteOf(v, n - i)]
  BY DEF LowBytes
<1>3. w \in Bytes /\ Len(w) = n /\ \A i \in 1 .. n : w[i] = ByteOf(v, n - i)
  BY <1>1, <1>2 DEF Bytes
<1> HIDE DEF w
<1>4. /\ b \o w \in Bytes /\ Len(b \o w) = Len(b) + Len(w)
      /\ \A i \in 1 .. Len(b) : (b \o w)[i] = b[i]
      /\ \A i \in 1 .. Len(w) : (b \o w)[Len(b) + i] = w[i]
  BY <1>3, JoinOf
<1>5. /\ b \o w \in Bytes /\ Len(b \o w) = Len(b) + n
      /\ \A i \in 1 .. Len(b) : (b \o w)[i] = b[i]
      /\ \A i \in 1 .. n : (b \o w)[Len(b) + i] = ByteOf(v, n - i)
  BY <1>3, <1>4
<1>6. QED
  BY <1>5 DEF w

\* A number from its first byte on: r[k] is what k more bytes give.
NumberAt(f, d, p, o, h, n) ==
    \E r : /\ GetUInt(f) = r[n] /\ r[0].val = Leading(h)
          /\ Reads(r[n].f, d, p + 1 + n, o + 1 + n)
          /\ \A k \in Nat : k < n => r[k + 1].val = r[k].val * 256 + d[p + 1 + (k + 1)]

(* The bytes of a file say a number.                                        *)
LEMMA NumberRead ==
  ASSUME NEW f, NEW d, NEW p, NEW o, Reads(f, d, p, o), NEW h \in Nat, NEW n \in Nat,
         Following(h) = n, p + 1 + n <= Len(d), d[p + 1] = h
  PROVE  NumberAt(f, d, p, o, h, n)
<1> DEFINE g == GetChar(f)
           r == BytesTaken(g)
           q == p + 1
           t == o + 1
           S == {k \in Nat : k <= n => Reads(r[k].f, d, q + k, t + k)}
<1>1. d \in Bytes /\ p \in Nat /\ o \in Nat /\ Len(d) \in Nat
  <2>1. d \in Bytes /\ p \in 0 .. Len(d) /\ o \in Nat
    BY GetCharIs
  <2>2. Len(d) \in Nat
    BY <2>1 DEF Bytes
  <2>3. QED
    BY <2>1, <2>2
<1>2. g.byte = h /\ Reads(g.f, d, q, t)
  <2>1. p < Len(d)
    BY <1>1
  <2>2. QED
    BY <2>1, GetCharIs
<1>3. q \in Nat /\ t \in Nat /\ q + n <= Len(d)
  BY <1>1
<1> HIDE DEF g, q, t
<1>4. /\ r[0] = [f |-> g.f, val |-> Leading(h)]
      /\ \A k \in 1 .. n : r[k] = AndByte(GetChar(r[k - 1].f), r[k - 1].val)
  BY <1>2, TakenSteps
<1> HIDE DEF r
<1>5. r[0].f = g.f /\ r[0].val = Leading(h)
  BY <1>4
<1>6. ASSUME NEW k \in Nat, k < n, Reads(r[k].f, d, q + k, t + k)
      PROVE  /\ Reads(r[k + 1].f, d, q + (k + 1), t + (k + 1))
             /\ r[k + 1].val = r[k].val * 256 + d[q + (k + 1)]
  <2>1. k + 1 \in 1 .. n /\ (k + 1) - 1 = k
    BY <1>6
  <2>2. r[k + 1] = AndByte(GetChar(r[k].f), r[k].val)
    BY <1>4, <2>1, Zenon
  <2> DEFINE x == GetChar(r[k].f)
             a == q + k
             b == t + k
  <2>3. a \in Nat /\ b \in Nat /\ a < Len(d) /\ a + 1 = q + (k + 1) /\ b + 1 = t + (k + 1)
    BY <1>1, <1>3, <1>6
  <2>4. x.byte = d[a + 1] /\ Reads(x.f, d, a + 1, b + 1)
    <3> HIDE DEF a, b
    <3>1. Reads(r[k].f, d, a, b)
      BY <1>6 DEF a, b
    <3>2. QED
      BY <2>3, <3>1, GetCharIs
  <2>5. r[k + 1].f = x.f /\ r[k + 1].val = r[k].val * 256 + x.byte
    BY <2>2 DEF AndByte
  <2> HIDE DEF x, a, b
  <2>6. QED
    BY <2>3, <2>4, <2>5
<1>7. 0 \in S
  <2>1. q + 0 = q /\ t + 0 = t
    BY <1>3
  <2>2. QED
    BY <1>2, <1>5, <2>1
<1>8. ASSUME NEW k \in Nat, k \in S PROVE k + 1 \in S
  <2>1. k + 1 <= n => k <= n /\ k < n
    OBVIOUS
  <2>2. QED
    BY <1>6, <1>8, <2>1
<1>9. \A k \in Nat : k \in S
  <2> HIDE DEF S
  <2>1. QED
    BY <1>7, <1>8, AllNumbers
<1>10. Reads(r[n].f, d, q + n, t + n)
  BY <1>9
<1>11. ASSUME NEW k \in Nat, k < n PROVE r[k + 1].val = r[k].val * 256 + d[q + (k + 1)]
  <2>1. k <= n
    BY <1>11
  <2>2. Reads(r[k].f, d, q + k, t + k)
    BY <1>9, <2>1
  <2>3. QED
    BY <1>6, <1>11, <2>2
<1>12. GetUInt(f) = r[n]
  <2>1. h # Eof
    BY DEF Eof
  <2>2. QED
    BY <1>2, <2>1 DEF GetUInt, NumberFrom, g, r
<1>13. QED
  BY <1>5, <1>10, <1>11, <1>12, Zenon DEF q, t, NumberAt

(* What Encode writes of a number is read as that number.                  *)
THEOREM DecodeIs ==
  ASSUME NEW v \in Nat, v <= NumberLimit,
         NEW f, NEW d, NEW p, NEW o, Reads(f, d, p, o), Held(d, p, Encode(v))
  PROVE  LET n == Len(Encode(v))
         IN  GetUInt(f).val = v /\ Reads(GetUInt(f).f, d, p + n, o + n)
<1> DEFINE e == Encode(v)
<1>1. d \in Bytes /\ p \in Nat /\ o \in Nat /\ Len(d) \in Nat
  <2>1. d \in Bytes /\ p \in 0 .. Len(d) /\ o \in Nat
    BY GetCharIs
  <2>2. Len(d) \in Nat
    BY <2>1 DEF Bytes
  <2>3. QED
    BY <2>1, <2>2
<1>2. p + Len(e) <= Len(d) /\ \A i \in 1 .. Len(e) : d[p + i] = e[i]
  BY DEF Held
<1>3. /\ \A k \in {0, 1, 2, 3} : ByteOf(v, k) \in Nat /\ High(v, k) \in Nat
      /\ v < Forms[1] => v < 128
      /\ v < Forms[2] =>
           High(v, 1) < 32 /\ High(v, 1) * 256 + ByteOf(v, 0) = v
      /\ v < Forms[3] =>
           High(v, 2) < 32 /\ (High(v, 2) * 256 + ByteOf(v, 1)) * 256 + ByteOf(v, 0) = v
      /\ v < Forms[4] =>
           /\ High(v, 3) < 32
           /\ ((High(v, 3) * 256 + ByteOf(v, 2)) * 256 + ByteOf(v, 1)) * 256 + ByteOf(v, 0) = v
      /\ ((ByteOf(v, 3) * 256 + ByteOf(v, 2)) * 256 + ByteOf(v, 1)) * 256 + ByteOf(v, 0) = v
  BY NumberOfBytes, ByteIsNat, SMT
<1> HIDE DEF e
<1>4. CASE v < Forms[1]
  <2> DEFINE n == 0
  <2>1. e = <<v>>
    BY <1>4, Zenon DEF e, Encode
  <2>2. Len(e) = 1 /\ d[p + 1] = v /\ p + 1 <= Len(d)
    BY <1>2, <2>1
  <2>3. Following(v) = n /\ Leading(v) = v
    <3>1. v < 128
      BY <1>3, <1>4
    <3>2. QED
      BY <3>1 DEF Following, Leading
  <2>4. n \in Nat /\ p + 1 + n <= Len(d) /\ p + 1 + n = p + 1 /\ o + 1 + n = o + 1
    BY <1>1, <2>2
  <2> HIDE DEF n
  <2>5. PICK r : /\ GetUInt(f) = r[n] /\ r[0].val = Leading(v)
                 /\ Reads(r[n].f, d, p + 1 + n, o + 1 + n)
    <3>1. NumberAt(f, d, p, o, v, n)
      <4>1. n \in Nat /\ v \in Nat
        BY <2>2, <2>3, <2>4 DEF n
      <4>2. Following(v) = n /\ p + 1 + n <= Len(d) /\ d[p + 1] = v
        BY <2>2, <2>3, <2>4
      <4>3. QED
        BY <4>1, <4>2, NumberRead
    <3>2. QED
      BY <3>1, Zenon DEF NumberAt
  <2>6. r[n].val = v
    BY <2>3, <2>5 DEF n
  <2>7. QED
    BY <2>2, <2>4, <2>5, <2>6 DEF e
<1>5. CASE ~(v < Forms[1]) /\ v < Forms[2]
  <2> DEFINE H == High(v, 1)
             h == 128 + H
             b == <<h>>
             n == 1
  <2>1. H \in Nat /\ H < 32 /\ H * 256 + ByteOf(v, 0) = v
    BY <1>3, <1>5
  <2>2. e = b \o LowBytes(v, n)
    BY <1>5, Zenon DEF e, Encode
  <2> HIDE DEF H
  <2>3. h \in 128 .. 159 /\ h % 32 = H /\ h \in Nat
    BY <2>1
  <2>4. Following(h) = n /\ Leading(h) = H
    BY <2>3 DEF Following, Leading
  <2> HIDE DEF h
  <2>5. b \in Bytes /\ Len(b) = 1 /\ b[1] = h
    BY <2>3 DEF Bytes
  <2> HIDE DEF b, n
  <2>6. /\ Len(e) = Len(b) + n
        /\ \A i \in 1 .. Len(b) : e[i] = b[i]
        /\ \A i \in 1 .. n : e[Len(b) + i] = ByteOf(v, n - i)
    <3>1. n \in 1 .. 4
      BY DEF n
    <3>2. QED
      BY <2>2, <2>5, <3>1, FormOf, Zenon
  <2>7. Len(e) = 2 /\ e[1] = h /\ e[2] = ByteOf(v, 0)
    BY <2>5, <2>6 DEF n
  <2>8. /\ d[p + 1] = h /\ p + 1 + n <= Len(d)
        /\ d[p + 1 + 1] = ByteOf(v, 0)
    BY <1>1, <1>2, <2>7 DEF n
  <2>9. PICK r : /\ GetUInt(f) = r[n] /\ r[0].val = Leading(h)
                 /\ Reads(r[n].f, d, p + 1 + n, o + 1 + n)
                 /\ \A k \in Nat : k < n => r[k + 1].val = r[k].val * 256 + d[p + 1 + (k + 1)]
    <3>1. NumberAt(f, d, p, o, h, n)
      <4>1. n \in Nat /\ h \in Nat
        BY <2>3, <2>4, <2>8 DEF n
      <4>2. Following(h) = n /\ p + 1 + n <= Len(d) /\ d[p + 1] = h
        BY <2>3, <2>4, <2>8
      <4>3. QED
        BY <4>1, <4>2, NumberRead
    <3>2. QED
      BY <3>1, Zenon DEF NumberAt
  <2>10. /\ r[1].val = r[0].val * 256 + ByteOf(v, 0)
    BY <2>8, <2>9 DEF n
  <2>11. r[n].val = v
    BY <2>1, <2>4, <2>9, <2>10 DEF n
  <2>12. p + 1 + n = p + 2 /\ o + 1 + n = o + 2
    BY <1>1 DEF n
  <2>13. QED
    BY <2>7, <2>9, <2>11, <2>12 DEF e
<1>6. CASE ~(v < Forms[1]) /\ ~(v < Forms[2]) /\ v < Forms[3]
  <2> DEFINE H == High(v, 2)
             h == 160 + H
             b == <<h>>
             n == 2
  <2>1. H \in Nat /\ H < 32 /\ (H * 256 + ByteOf(v, 1)) * 256 + ByteOf(v, 0) = v
    BY <1>3, <1>6
  <2>2. e = b \o LowBytes(v, n)
    BY <1>6, Zenon DEF e, Encode
  <2> HIDE DEF H
  <2>3. h \in 160 .. 191 /\ h % 32 = H /\ h \in Nat
    BY <2>1
  <2>4. Following(h) = n /\ Leading(h) = H
    BY <2>3 DEF Following, Leading
  <2> HIDE DEF h
  <2>5. b \in Bytes /\ Len(b) = 1 /\ b[1] = h
    BY <2>3 DEF Bytes
  <2> HIDE DEF b, n
  <2>6. /\ Len(e) = Len(b) + n
        /\ \A i \in 1 .. Len(b) : e[i] = b[i]
        /\ \A i \in 1 .. n : e[Len(b) + i] = ByteOf(v, n - i)
    <3>1. n \in 1 .. 4
      BY DEF n
    <3>2. QED
      BY <2>2, <2>5, <3>1, FormOf, Zenon
  <2>7. Len(e) = 3 /\ e[1] = h /\ e[2] = ByteOf(v, 1) /\ e[3] = ByteOf(v, 0)
    BY <2>5, <2>6 DEF n
  <2>8. /\ d[p + 1] = h /\ p + 1 + n <= Len(d)
        /\ d[p + 1 + 1] = ByteOf(v, 1)
        /\ d[p + 1 + 2] = ByteOf(v, 0)
    BY <1>1, <1>2, <2>7 DEF n
  <2>9. PICK r : /\ GetUInt(f) = r[n] /\ r[0].val = Leading(h)
                 /\ Reads(r[n].f, d, p + 1 + n, o + 1 + n)
                 /\ \A k \in Nat : k < n => r[k + 1].val = r[k].val * 256 + d[p + 1 + (k + 1)]
    <3>1. NumberAt(f, d, p, o, h, n)
      <4>1. n \in Nat /\ h \in Nat
        BY <2>3, <2>4, <2>8 DEF n
      <4>2. Following(h) = n /\ p + 1 + n <= Len(d) /\ d[p + 1] = h
        BY <2>3, <2>4, <2>8
      <4>3. QED
        BY <4>1, <4>2, NumberRead
    <3>2. QED
      BY <3>1, Zenon DEF NumberAt
  <2>10. /\ r[1].val = r[0].val * 256 + ByteOf(v, 1)
        /\ r[2].val = r[1].val * 256 + ByteOf(v, 0)
    BY <2>8, <2>9 DEF n
  <2>11. r[n].val = v
    BY <2>1, <2>4, <2>9, <2>10 DEF n
  <2>12. p + 1 + n = p + 3 /\ o + 1 + n = o + 3
    BY <1>1 DEF n
  <2>13. QED
    BY <2>7, <2>9, <2>11, <2>12 DEF e
<1>7. CASE ~(v < Forms[1]) /\ ~(v < Forms[2]) /\ ~(v < Forms[3]) /\ v < Forms[4]
  <2> DEFINE H == High(v, 3)
             h == 192 + H
             b == <<h>>
             n == 3
  <2>1. H \in Nat /\ H < 32 /\ ((H * 256 + ByteOf(v, 2)) * 256 + ByteOf(v, 1)) * 256 + ByteOf(v, 0) = v
    BY <1>3, <1>7
  <2>2. e = b \o LowBytes(v, n)
    BY <1>7, Zenon DEF e, Encode
  <2> HIDE DEF H
  <2>3. h \in 192 .. 223 /\ h % 32 = H /\ h \in Nat
    BY <2>1
  <2>4. Following(h) = n /\ Leading(h) = H
    BY <2>3 DEF Following, Leading
  <2> HIDE DEF h
  <2>5. b \in Bytes /\ Len(b) = 1 /\ b[1] = h
    BY <2>3 DEF Bytes
  <2> HIDE DEF b, n
  <2>6. /\ Len(e) = Len(b) + n
        /\ \A i \in 1 .. Len(b) : e[i] = b[i]
        /\ \A i \in 1 .. n : e[Len(b) + i] = ByteOf(v, n - i)
    <3>1. n \in 1 .. 4
      BY DEF n
    <3>2. QED
      BY <2>2, <2>5, <3>1, FormOf, Zenon
  <2>7. Len(e) = 4 /\ e[1] = h /\ e[2] = ByteOf(v, 2) /\ e[3] = ByteOf(v, 1) /\ e[4] = ByteOf(v, 0)
    BY <2>5, <2>6 DEF n
  <2>8. /\ d[p + 1] = h /\ p + 1 + n <= Len(d)
        /\ d[p + 1 + 1] = ByteOf(v, 2)
        /\ d[p + 1 + 2] = ByteOf(v, 1)
        /\ d[p + 1 + 3] = ByteOf(v, 0)
    BY <1>1, <1>2, <2>7 DEF n
  <2>9. PICK r : /\ GetUInt(f) = r[n] /\ r[0].val = Leading(h)
                 /\ Reads(r[n].f, d, p + 1 + n, o + 1 + n)
                 /\ \A k \in Nat : k < n => r[k + 1].val = r[k].val * 256 + d[p + 1 + (k + 1)]
    <3>1. NumberAt(f, d, p, o, h, n)
      <4>1. n \in Nat /\ h \in Nat
        BY <2>3, <2>4, <2>8 DEF n
      <4>2. Following(h) = n /\ p + 1 + n <= Len(d) /\ d[p + 1] = h
        BY <2>3, <2>4, <2>8
      <4>3. QED
        BY <4>1, <4>2, NumberRead
    <3>2. QED
      BY <3>1, Zenon DEF NumberAt
  <2>10. /\ r[1].val = r[0].val * 256 + ByteOf(v, 2)
        /\ r[2].val = r[1].val * 256 + ByteOf(v, 1)
        /\ r[3].val = r[2].val * 256 + ByteOf(v, 0)
    BY <2>8, <2>9 DEF n
  <2>11. r[n].val = v
    BY <2>1, <2>4, <2>9, <2>10 DEF n
  <2>12. p + 1 + n = p + 4 /\ o + 1 + n = o + 4
    BY <1>1 DEF n
  <2>13. QED
    BY <2>7, <2>9, <2>11, <2>12 DEF e
<1>8. CASE ~(v < Forms[1]) /\ ~(v < Forms[2]) /\ ~(v < Forms[3]) /\ ~(v < Forms[4])
  <2> DEFINE b == <<224, 0, 0, 0, 0>>
             h == 224
             n == 8
             m == 4
  <2>1. e = b \o LowBytes(v, m)
    BY <1>8, Zenon DEF e, Encode
  <2>2. Following(h) = n /\ Leading(h) = 0
    BY DEF Following, Leading
  <2>3. b \in Bytes /\ Len(b) = 5 /\ b[1] = h /\ b[2] = 0 /\ b[3] = 0 /\ b[4] = 0 /\ b[5] = 0
    BY DEF Bytes
  <2> HIDE DEF b, n, m, h
  <2>4. /\ Len(e) = Len(b) + m
        /\ \A i \in 1 .. Len(b) : e[i] = b[i]
        /\ \A i \in 1 .. m : e[Len(b) + i] = ByteOf(v, m - i)
    <3>1. m \in 1 .. 4
      BY DEF m
    <3>2. QED
      BY <2>1, <2>3, <3>1, FormOf, Zenon
  <2>5. /\ Len(e) = 9 /\ e[1] = h /\ e[2] = 0 /\ e[3] = 0 /\ e[4] = 0 /\ e[5] = 0
        /\ e[6] = ByteOf(v, 3) /\ e[7] = ByteOf(v, 2) /\ e[8] = ByteOf(v, 1) /\ e[9] = ByteOf(v, 0)
    BY <2>3, <2>4 DEF m
  <2>6. /\ d[p + 1] = h /\ p + 1 + n <= Len(d)
        /\ d[p + 1 + 1] = 0 /\ d[p + 1 + 2] = 0 /\ d[p + 1 + 3] = 0 /\ d[p + 1 + 4] = 0
        /\ d[p + 1 + 5] = ByteOf(v, 3) /\ d[p + 1 + 6] = ByteOf(v, 2)
        /\ d[p + 1 + 7] = ByteOf(v, 1) /\ d[p + 1 + 8] = ByteOf(v, 0)
    <3>1. p + 9 <= Len(d) /\ \A i \in {1, 2, 3, 4, 5, 6, 7, 8, 9} : d[p + i] = e[i]
      BY <1>1, <1>2, <2>5
    <3>2. /\ p + 1 + 1 = p + 2 /\ p + 1 + 2 = p + 3 /\ p + 1 + 3 = p + 4 /\ p + 1 + 4 = p + 5
          /\ p + 1 + 5 = p + 6 /\ p + 1 + 6 = p + 7 /\ p + 1 + 7 = p + 8 /\ p + 1 + 8 = p + 9
      BY <1>1
    <3>3. QED
      BY <2>5, <3>1, <3>2 DEF n
  <2>7. PICK r : /\ GetUInt(f) = r[n] /\ r[0].val = Leading(h)
                 /\ Reads(r[n].f, d, p + 1 + n, o + 1 + n)
                 /\ \A k \in Nat : k < n => r[k + 1].val = r[k].val * 256 + d[p + 1 + (k + 1)]
    <3>1. NumberAt(f, d, p, o, h, n)
      <4>1. n \in Nat /\ h \in Nat
        BY <2>2, <2>6 DEF n, h
      <4>2. Following(h) = n /\ p + 1 + n <= Len(d) /\ d[p + 1] = h
        BY <2>2, <2>6
      <4>3. QED
        BY <4>1, <4>2, NumberRead
    <3>2. QED
      BY <3>1, Zenon DEF NumberAt
  <2>8. r[1].val = 0 /\ r[2].val = 0 /\ r[3].val = 0 /\ r[4].val = 0
    <3>1. r[1].val = 0
      <4>1. r[0 + 1].val = r[0].val * 256 + d[p + 1 + (0 + 1)]
        BY <2>7 DEF n
      <4>2. QED
        BY <2>2, <2>6, <2>7, <4>1
    <3>2. r[2].val = 0
      <4>1. r[1 + 1].val = r[1].val * 256 + d[p + 1 + (1 + 1)]
        BY <2>7 DEF n
      <4>2. r[2].val = r[1].val * 256 + d[p + 1 + 2]
        BY <4>1
      <4>3. d[p + 1 + 2] = 0
        BY <2>6
      <4>4. QED
        BY <3>1, <4>2, <4>3
    <3>3. r[3].val = 0
      <4>1. r[2 + 1].val = r[2].val * 256 + d[p + 1 + (2 + 1)]
        BY <2>7 DEF n
      <4>2. r[3].val = r[2].val * 256 + d[p + 1 + 3]
        BY <4>1
      <4>3. d[p + 1 + 3] = 0
        BY <2>6
      <4>4. QED
        BY <3>2, <4>2, <4>3
    <3>4. r[4].val = 0
      <4>1. r[3 + 1].val = r[3].val * 256 + d[p + 1 + (3 + 1)]
        BY <2>7 DEF n
      <4>2. r[4].val = r[3].val * 256 + d[p + 1 + 4]
        BY <4>1
      <4>3. d[p + 1 + 4] = 0
        BY <2>6
      <4>4. QED
        BY <3>3, <4>2, <4>3
    <3>5. QED
      BY <3>1, <3>2, <3>3, <3>4
  <2>9. /\ r[5].val = ByteOf(v, 3) /\ r[6].val = r[5].val * 256 + ByteOf(v, 2)
        /\ r[7].val = r[6].val * 256 + ByteOf(v, 1) /\ r[8].val = r[7].val * 256 + ByteOf(v, 0)
    <3>1. r[5].val = r[4].val * 256 + d[p + 1 + 5]
      <4>1. r[4 + 1].val = r[4].val * 256 + d[p + 1 + (4 + 1)]
        BY <2>7 DEF n
      <4>2. QED
        BY <4>1
    <3>2. r[6].val = r[5].val * 256 + d[p + 1 + 6]
      <4>1. r[5 + 1].val = r[5].val * 256 + d[p + 1 + (5 + 1)]
        BY <2>7 DEF n
      <4>2. QED
        BY <4>1
    <3>3. r[7].val = r[6].val * 256 + d[p + 1 + 7]
      <4>1. r[6 + 1].val = r[6].val * 256 + d[p + 1 + (6 + 1)]
        BY <2>7 DEF n
      <4>2. QED
        BY <4>1
    <3>4. r[8].val = r[7].val * 256 + d[p + 1 + 8]
      <4>1. r[7 + 1].val = r[7].val * 256 + d[p + 1 + (7 + 1)]
        BY <2>7 DEF n
      <4>2. QED
        BY <4>1
    <3>5. ByteOf(v, 3) \in Nat
      BY <1>3, ByteIsNat
    <3>6. QED
      BY <2>6, <2>8, <3>1, <3>2, <3>3, <3>4, <3>5
  <2>10. r[n].val = v
    <3>1. ((ByteOf(v, 3) * 256 + ByteOf(v, 2)) * 256 + ByteOf(v, 1)) * 256 + ByteOf(v, 0) = v
      BY <1>3
    <3>2. QED
      BY <2>9, <3>1 DEF n
  <2>11. p + 1 + n = p + 9 /\ o + 1 + n = o + 9
    BY <1>1 DEF n
  <2>12. QED
    BY <2>5, <2>7, <2>10, <2>11 DEF e
<1>9. QED
  BY <1>4, <1>5, <1>6, <1>7, <1>8

(* The code of a number is at least one byte.                               *)
LEMMA EncodeIs ==
  ASSUME NEW v \in Nat
  PROVE  Encode(v) \in Bytes /\ Len(Encode(v)) \in Nat /\ Len(Encode(v)) >= 1
<1>1. ASSUME NEW x \in Nat PROVE <<x>> \in Bytes /\ Len(<<x>>) = 1
  BY DEF Bytes
<1>2. ASSUME NEW b \in Bytes, NEW n \in 1 .. 4, Len(b) \in Nat, Len(b) >= 1
      PROVE  LET w == b \o LowBytes(v, n) IN w \in Bytes /\ Len(w) \in Nat /\ Len(w) >= 1
  <2> DEFINE w == b \o LowBytes(v, n)
  <2>1. w \in Bytes /\ Len(w) = Len(b) + n
    BY FormOf, Zenon
  <2> HIDE DEF w
  <2>2. Len(w) \in Nat /\ Len(w) >= 1
    BY <1>2, <2>1
  <2>3. QED
    BY <2>1, <2>2 DEF w
<1>3. CASE v < Forms[1]
  <2>1. Encode(v) = <<v>>
    BY <1>3, Zenon DEF Encode
  <2>2. QED
    BY <1>1, <2>1
<1>4. CASE ~(v < Forms[1]) /\ v < Forms[2]
  <2> DEFINE b == <<128 + High(v, 1)>>
             n == 1
  <2>1. Encode(v) = b \o LowBytes(v, n)
    BY <1>4, Zenon DEF Encode
  <2>2. 128 + High(v, 1) \in Nat
    BY ByteIsNat
  <2>3. b \in Bytes /\ Len(b) = 1 /\ n \in 1 .. 4
    BY <1>1, <2>2
  <2> HIDE DEF b, n
  <2>4. Len(b) \in Nat /\ Len(b) >= 1
    BY <2>3
  <2>5. QED
    BY <1>2, <2>1, <2>3, <2>4, Zenon
<1>5. CASE ~(v < Forms[1]) /\ ~(v < Forms[2]) /\ v < Forms[3]
  <2> DEFINE b == <<160 + High(v, 2)>>
             n == 2
  <2>1. Encode(v) = b \o LowBytes(v, n)
    BY <1>5, Zenon DEF Encode
  <2>2. 160 + High(v, 2) \in Nat
    BY ByteIsNat
  <2>3. b \in Bytes /\ Len(b) = 1 /\ n \in 1 .. 4
    BY <1>1, <2>2
  <2> HIDE DEF b, n
  <2>4. Len(b) \in Nat /\ Len(b) >= 1
    BY <2>3
  <2>5. QED
    BY <1>2, <2>1, <2>3, <2>4, Zenon
<1>6. CASE ~(v < Forms[1]) /\ ~(v < Forms[2]) /\ ~(v < Forms[3]) /\ v < Forms[4]
  <2> DEFINE b == <<192 + High(v, 3)>>
             n == 3
  <2>1. Encode(v) = b \o LowBytes(v, n)
    BY <1>6, Zenon DEF Encode
  <2>2. 192 + High(v, 3) \in Nat
    BY ByteIsNat
  <2>3. b \in Bytes /\ Len(b) = 1 /\ n \in 1 .. 4
    BY <1>1, <2>2
  <2> HIDE DEF b, n
  <2>4. Len(b) \in Nat /\ Len(b) >= 1
    BY <2>3
  <2>5. QED
    BY <1>2, <2>1, <2>3, <2>4, Zenon
<1>7. CASE ~(v < Forms[1]) /\ ~(v < Forms[2]) /\ ~(v < Forms[3]) /\ ~(v < Forms[4])
  <2> DEFINE b == <<224, 0, 0, 0, 0>>
             n == 4
  <2>1. Encode(v) = b \o LowBytes(v, n)
    BY <1>7, Zenon DEF Encode
  <2>2. b \in Bytes /\ Len(b) = 5 /\ n \in 1 .. 4
    BY DEF Bytes
  <2> HIDE DEF b, n
  <2>3. Len(b) \in Nat /\ Len(b) >= 1
    BY <2>2
  <2>4. QED
    BY <1>2, <2>1, <2>2, <2>3, Zenon
<1>8. QED
  BY <1>3, <1>4, <1>5, <1>6, <1>7

(* At its end a file has no more numbers.                                   *)
LEMMA NumbersEnd ==
  ASSUME NEW f, NEW d, NEW p, NEW o, Reads(f, d, p, o), p = Len(d)
  PROVE  GetUInt(f).val = Eof /\ Reads(GetUInt(f).f, d, p, o)
<1> DEFINE g == GetChar(f)
<1>1. g.byte = Eof /\ Reads(g.f, d, p, o)
  BY GetCharIs
<1> HIDE DEF g
<1>2. GetUInt(f) = [f |-> g.f, val |-> Eof]
  BY <1>1, Zenon DEF GetUInt, NumberFrom, g
<1>3. QED
  BY <1>1, <1>2

-----------------------------------------------------------------------------
(***************************************************************************)
(* Entries, the log and its readers.                                       *)
(***************************************************************************)

(* One more byte of a sequence of bytes.                                    *)
LEMMA OneMore ==
  ASSUME NEW d \in Bytes, NEW b \in Bytes, NEW k \in Nat, k < Len(b)
  PROVE  /\ SubSeq(b, 1, k) \in Bytes
         /\ Append(d \o SubSeq(b, 1, k), b[k + 1]) = d \o SubSeq(b, 1, k + 1)
<1> DEFINE x == SubSeq(b, 1, k)
           y == SubSeq(b, 1, k + 1)
<1>1. /\ x \in Bytes /\ Len(x) = k /\ y \in Bytes /\ Len(y) = k + 1
      /\ b[k + 1] \in Nat
      /\ \A i \in 1 .. k : x[i] = b[i]
      /\ \A i \in 1 .. k + 1 : y[i] = b[i]
  BY DEF Bytes
<1> HIDE DEF x, y
<1> DEFINE e == b[k + 1]
<1>2. y = Append(x, e)
  <2>1. e \in Nat /\ x \in Seq(Nat) /\ y \in Seq(Nat)
    BY <1>1 DEF Bytes
  <2> HIDE DEF e
  <2>2. /\ Append(x, e) \in Seq(Nat) /\ Len(Append(x, e)) = k + 1
        /\ \A i \in 1 .. k : Append(x, e)[i] = x[i]
        /\ Append(x, e)[k + 1] = e
    BY <1>1, <2>1, AppendProperties
  <2>3. \A i \in 1 .. Len(y) : y[i] = Append(x, e)[i]
    BY <1>1, <2>2 DEF e
  <2>4. Len(y) = Len(Append(x, e))
    BY <1>1, <2>2
  <2>5. QED
    BY <2>1, <2>2, <2>3, <2>4, SeqEqual
<1>3. Append(d \o x, e) = d \o Append(x, e)
  <2>1. <<e>> \in Bytes
    BY <1>1 DEF Bytes
  <2>2. Append(x, e) = x \o <<e>> /\ Append(d \o x, e) = (d \o x) \o <<e>>
    <3>1. e \in Nat /\ x \in Seq(Nat) /\ d \o x \in Seq(Nat)
      BY <1>1 DEF Bytes
    <3> HIDE DEF e
    <3>2. QED
      BY <3>1, AppendIsConcat
  <2> HIDE DEF e
  <2>3. (d \o x) \o <<e>> = d \o (x \o <<e>>)
    BY <1>1, <2>1, JoinsOf
  <2>4. QED
    BY <2>2, <2>3
<1>4. QED
  BY <1>1, <1>2, <1>3 DEF x, y

(* Writing bytes leaves a file in mode WRITE, and appends them when it was  *)
(* one.                                                                     *)
LEMMA PutCharsIs ==
  ASSUME NEW f, IsFile(f), f.mode = "WRITE" \/ (\E d, p, o : Reads(f, d, p, o)),
         NEW bytes \in Bytes
  PROVE  \A k \in 0 .. Len(bytes) :
            /\ IsFile(PutChars(f, bytes)[k])
            /\ k > 0 => PutChars(f, bytes)[k].mode = "WRITE"
            /\ \A d \in Bytes : Writes(f, d) => Writes(PutChars(f, bytes)[k], d \o SubSeq(bytes, 1, k))
<1> DEFINE w == PutChars(f, bytes)
           D(k) == \A d \in Bytes : Writes(f, d) => Writes(w[k], d \o SubSeq(bytes, 1, k))
           S == {k \in Nat : k <= Len(bytes) =>
                   IsFile(w[k]) /\ (k > 0 => w[k].mode = "WRITE") /\ D(k)}
<1>1. Len(bytes) \in Nat
  BY DEF Bytes
<1>2. w[0] = f /\ \A k \in 1 .. Len(bytes) : w[k] = PutChar(w[k - 1], bytes[k])
  BY <1>1, PutSteps
<1> HIDE DEF w, D
<1>3. 0 \in S
  <2>1. ASSUME NEW d \in Bytes PROVE d \o SubSeq(bytes, 1, 0) = d
    <3>1. SubSeq(bytes, 1, 0) = <<>>
      BY DEF Bytes
    <3>2. QED
      BY <3>1 DEF Bytes
  <2>2. D(0)
    BY <1>2, <2>1 DEF D
  <2>3. QED
    BY <1>2, <2>2
<1>4. ASSUME NEW k \in Nat, k \in S PROVE k + 1 \in S
  <2>1. SUFFICES ASSUME k + 1 <= Len(bytes)
                 PROVE  IsFile(w[k + 1]) /\ w[k + 1].mode = "WRITE" /\ D(k + 1)
    OBVIOUS
  <2>2. IsFile(w[k]) /\ (k > 0 => w[k].mode = "WRITE") /\ D(k)
    BY <1>1, <1>4, <2>1
  <2>3. w[k + 1] = PutChar(w[k], bytes[k + 1])
    <3>1. k + 1 \in 1 .. Len(bytes) /\ (k + 1) - 1 = k
      BY <1>1, <2>1
    <3>2. QED
      BY <1>2, <3>1
  <2>4. bytes[k + 1] \in Nat
    BY <1>1, <2>1 DEF Bytes
  <2>5. PICK g : /\ IsFile(g) /\ g.mode = "WRITE" /\ w[k + 1] = PutInto(g, bytes[k + 1])
                 /\ w[k].mode = "WRITE" => g = w[k]
    <3>1. CASE w[k].mode = "READ"
      <4>1. k = 0 /\ w[k] = f
        BY <1>2, <2>2, <3>1
      <4>2. IsFile(ToWrite(f)) /\ ToWrite(f).mode = "WRITE"
        BY <3>1, <4>1, ToWriteIs
      <4>3. w[k + 1] = PutInto(ToWrite(f), bytes[k + 1])
        BY <2>3, <3>1, <4>1, Zenon DEF PutChar
      <4>4. QED
        BY <3>1, <4>2, <4>3
    <3>2. CASE w[k].mode # "READ"
      <4>1. w[k].mode = "WRITE"
        BY <2>2, <3>2, FieldsOf
      <4>2. w[k + 1] = PutInto(w[k], bytes[k + 1])
        BY <2>3, <3>2, Zenon DEF PutChar
      <4>3. QED
        BY <2>2, <4>1, <4>2
    <3>3. QED
      BY <3>1, <3>2
  <2>6. /\ IsFile(w[k + 1]) /\ w[k + 1].mode = "WRITE"
        /\ \A d : Writes(g, d) => Writes(w[k + 1], Append(d, bytes[k + 1]))
    BY <2>4, <2>5, PutIntoIs
  <2>7. ASSUME NEW d \in Bytes, Writes(f, d) PROVE Writes(w[k + 1], d \o SubSeq(bytes, 1, k + 1))
    <3>1. Writes(w[k], d \o SubSeq(bytes, 1, k))
      BY <2>2, <2>7 DEF D
    <3>2. g = w[k]
      <4>1. w[k].mode = "WRITE"
        BY <3>1, Zenon DEF Writes
      <4>2. QED
        BY <2>5, <4>1
    <3>3. Writes(w[k + 1], Append(d \o SubSeq(bytes, 1, k), bytes[k + 1]))
      BY <2>6, <3>1, <3>2
    <3>4. Append(d \o SubSeq(bytes, 1, k), bytes[k + 1]) = d \o SubSeq(bytes, 1, k + 1)
      <4>1. k < Len(bytes)
        BY <1>1, <2>1
      <4>2. QED
        BY <4>1, OneMore
    <3>5. QED
      BY <3>3, <3>4
  <2>8. D(k + 1)
    BY <2>7 DEF D
  <2>9. QED
    BY <2>6, <2>8
<1>5. \A k \in Nat : k \in S
  <2> HIDE DEF S
  <2>1. QED
    BY <1>3, <1>4, AllNumbers
<1>6. ASSUME NEW k \in 0 .. Len(bytes)
      PROVE  IsFile(w[k]) /\ (k > 0 => w[k].mode = "WRITE") /\ D(k)
  <2>1. k \in Nat /\ k \in S /\ k <= Len(bytes)
    BY <1>1, <1>5
  <2>2. QED
    BY <2>1
<1>7. QED
  BY <1>6 DEF w, D

(* Write appends the bytes of an entry.                                     *)
LEMMA WriteIs ==
  ASSUME NEW f, IsFile(f), f.mode = "WRITE" \/ (\E d, p, o : Reads(f, d, p, o)),
         NEW e, NEW id, EntryBytes(e, id) \in Bytes, Len(EntryBytes(e, id)) > 0
  PROVE  /\ IsFile(Write(f, e, id)) /\ Write(f, e, id).mode = "WRITE"
         /\ \A d \in Bytes : Writes(f, d) => Writes(Write(f, e, id), d \o EntryBytes(e, id))
<1> DEFINE b == EntryBytes(e, id)
           n == Len(b)
<1>1. b \in Bytes /\ n \in Nat /\ n > 0
  BY DEF Bytes
<1>2. SubSeq(b, 1, n) = b
  BY <1>1 DEF Bytes
<1>3. Write(f, e, id) = PutChars(f, b)[n]
  BY Zenon DEF Write
<1> HIDE DEF b, n
<1>4. /\ IsFile(PutChars(f, b)[n])
      /\ n > 0 => PutChars(f, b)[n].mode = "WRITE"
      /\ \A d \in Bytes : Writes(f, d) => Writes(PutChars(f, b)[n], d \o SubSeq(b, 1, n))
  <2>1. n \in 0 .. Len(b)
    BY <1>1 DEF n
  <2>2. QED
    BY <1>1, <2>1, PutCharsIs
<1>5. QED
  BY <1>1, <1>2, <1>3, <1>4 DEF b

-----------------------------------------------------------------------------
(***************************************************************************)
(* Entries.                                                                *)
(***************************************************************************)

\* An entry that may be logged when id clauses have been.
StepsBelow(id) == Seq([var : Vars, id : 0 .. id - 1])
IsEntry(e, id) ==
    \/ \E lits \in Clauses : e = Root(lits)
    \/ \E start \in 0 .. id - 1, steps \in StepsBelow(id) : Len(steps) > 0 /\ e = Derived(start, steps)
    \/ \E i \in 0 .. id - 1 : e = Deletion(i)

\* The numbers of an entry: within the limit, and the first 0 after the first
\* number is the last one.
IsNumbers(ns) ==
    /\ ns \in Seq(Nat) /\ Len(ns) >= 2 /\ ns[Len(ns)] = 0
    /\ \A i \in 1 .. Len(ns) : ns[i] <= NumberLimit
    /\ \A i \in 2 .. Len(ns) - 1 : ns[i] # 0

\* What is read for an entry: a deletion as a chain without steps.
ReadFor(r, e) ==
    Announced(r) = e /\ (NoNewClause(r) <=> ~IsClause(e)) /\ (IsClause(e) => r = e)

(* A root is read back from its numbers.                                    *)
LEMMA RootIsNumbers ==
  ASSUME NEW lits \in Clauses, NEW id
  PROVE  LET e == Root(lits)
             ns == Numbers(e, id)
         IN  IsNumbers(ns) /\ ReadFor(EntryOf(SubSeq(ns, 1, Len(ns) - 1), id), e)
<1> DEFINE n == Len(lits)
           ns == RootNumbers(lits)
           m == SubSeq(ns, 1, Len(ns) - 1)
           e == Root(lits)
<1>1. /\ lits \in Seq(Nat) /\ lits # <<>>
      /\ \A i \in 1 .. n - 1 : lits[i] < lits[i + 1]
      /\ \A i \in 1 .. n : 2 * lits[i] <= NumberLimit
  <2>1. /\ lits \in Seq(Nat) /\ lits # <<>> /\ Ascending(lits)
        /\ \A i \in DOMAIN lits : 2 * lits[i] <= NumberLimit
    BY ProofFileAssumption
  <2>2. DOMAIN lits = 1 .. n
    BY <2>1, LenProperties
  <2>3. QED
    BY <2>1, <2>2 DEF Ascending
<1>2. n \in Nat /\ n >= 1
  <2>1. Len(lits) \in Nat \ {0}
    BY <1>1, EmptySeq, Zenon
  <2>2. QED
    BY <2>1
<1> HIDE DEF n
<1>3. Numbers(e, id) = ns /\ e.kind = "root" /\ e.lits = lits
  BY DEF Numbers, Root
<1>4. ns = [i \in 1 .. n + 1 |->
              IF i = 1 THEN 2 * lits[1] ELSE IF i > n THEN 0 ELSE lits[i] - lits[i - 1]]
  BY Zenon DEF RootNumbers, n
<1>5. NumberLimit \in Nat
  BY SMT DEF NumberLimit
<1>6. \A i \in 1 .. n : lits[i] \in Nat /\ 2 * lits[i] <= NumberLimit
  BY <1>1 DEF n
<1>7. \A i \in 2 .. n : lits[i - 1] < lits[i]
  <2>1. ASSUME NEW i \in 2 .. n PROVE lits[i - 1] < lits[i]
    <3>1. i - 1 \in 1 .. n - 1 /\ (i - 1) + 1 = i
      BY <1>2, <2>1
    <3>2. QED
      BY <1>1, <3>1 DEF n
  <2>2. QED
    BY <2>1
<1>8. /\ ns[1] = 2 * lits[1] /\ ns[n + 1] = 0
      /\ \A i \in 2 .. n : ns[i] = lits[i] - lits[i - 1]
  BY <1>2, <1>4
<1>9. \A i \in 1 .. n + 1 : ns[i] \in Nat /\ ns[i] <= NumberLimit
  <2>1. ASSUME NEW i \in 1 .. n + 1 PROVE ns[i] \in Nat /\ ns[i] <= NumberLimit
    <3>1. CASE i = 1
      BY <1>2, <1>6, <1>8, <3>1
    <3>2. CASE i \in 2 .. n
      <4>1. i - 1 \in 1 .. n /\ i \in 1 .. n
        BY <1>2, <3>2
      <4>2. QED
        BY <1>5, <1>6, <1>7, <1>8, <3>2, <4>1
    <3>3. CASE i = n + 1
      BY <1>5, <1>8, <3>3
    <3>4. QED
      BY <1>2, <3>1, <3>2, <3>3
  <2>2. QED
    BY <2>1
<1>10. \A i \in 2 .. n : ns[i] # 0
  <2>1. ASSUME NEW i \in 2 .. n PROVE ns[i] # 0
    <3>1. i - 1 \in 1 .. n /\ i \in 1 .. n
      BY <1>2, <2>1
    <3>2. QED
      BY <1>6, <1>7, <1>8, <3>1
  <2>2. QED
    BY <2>1
<1>11. ns \in Seq(Nat) /\ Len(ns) = n + 1
  <2>1. ns \in [1 .. n + 1 -> Nat]
    BY <1>4, <1>9
  <2> HIDE DEF ns
  <2>2. QED
    BY <1>2, <2>1
<1> HIDE DEF ns
<1>12. IsNumbers(ns)
  BY <1>2, <1>8, <1>9, <1>10, <1>11 DEF IsNumbers
<1>13. /\ m \in Seq(Nat) /\ Len(m) = n
       /\ \A i \in 1 .. n : m[i] = ns[i]
  BY <1>2, <1>11
<1> HIDE DEF m
<1>14. Sums(m) = lits
  <2> DEFINE s == Sums(m)
             S == {i \in Nat : i < n => s[i + 1] = lits[i + 1]}
  <2>1. /\ s = [k \in 1 .. n |-> s[k]]
        /\ s[1] = m[1] \div 2
        /\ \A k \in 2 .. n : s[k] = s[k - 1] + m[k]
    BY <1>2, <1>13, SumsSteps
  <2> HIDE DEF s
  <2>2. 0 \in S
    <3>1. m[1] = 2 * lits[1] /\ lits[1] \in Nat
      BY <1>2, <1>6, <1>8, <1>13
    <3>2. s[1] = lits[1]
      BY <2>1, <3>1
    <3>3. QED
      BY <3>2
  <2>3. ASSUME NEW i \in Nat, i \in S PROVE i + 1 \in S
    <3>1. SUFFICES ASSUME i + 1 < n PROVE s[i + 2] = lits[i + 2]
      OBVIOUS
    <3>2. i + 2 \in 2 .. n /\ i + 1 \in 1 .. n /\ i + 2 \in 1 .. n /\ (i + 2) - 1 = i + 1
      BY <1>2, <3>1
    <3>3. s[i + 1] = lits[i + 1]
      BY <1>2, <2>3, <3>1
    <3>4. s[i + 2] = s[i + 1] + m[i + 2]
      BY <2>1, <3>2
    <3>5. m[i + 2] = lits[i + 2] - lits[i + 1]
      BY <1>8, <1>13, <3>2
    <3>6. QED
      BY <1>6, <3>2, <3>3, <3>4, <3>5
  <2>4. \A i \in Nat : i \in S
    <3> HIDE DEF S
    <3>1. QED
      BY <2>2, <2>3, AllNumbers
  <2>5. \A k \in 1 .. n : s[k] = lits[k]
    <3>1. ASSUME NEW k \in 1 .. n PROVE s[k] = lits[k]
      <4>1. k - 1 \in Nat /\ k - 1 \in S /\ k - 1 < n /\ (k - 1) + 1 = k
        BY <1>2, <2>4
      <4>2. QED
        BY <4>1
    <3>2. QED
      BY <3>1
  <2>6. lits = [k \in 1 .. n |-> lits[k]]
    BY <1>1 DEF n
  <2>7. s = lits
    BY <2>1, <2>5, <2>6
  <2>8. QED
    BY <2>7 DEF s
<1>15. EntryOf(m, id) = e
  <2>1. m[1] % 2 = 0
    BY <1>2, <1>6, <1>8, <1>13
  <2>2. QED
    BY <1>14, <2>1, Zenon DEF EntryOf
<1>16. ReadFor(e, e)
  BY <1>3 DEF ReadFor, Announced, NoNewClause, IsClause
<1>17. QED
  BY <1>3, <1>12, <1>15, <1>16 DEF m

(* A chain, or a deletion, is read back from its numbers.                   *)
LEMMA ChainIsNumbers ==
  ASSUME NEW id \in Nat, id < MaxEntries, NEW e, e.start \in 0 .. id - 1,
         e.steps \in StepsBelow(id)
  PROVE  LET ns == ChainNumbers(e, id)
         IN  IsNumbers(ns) /\ EntryOf(SubSeq(ns, 1, Len(ns) - 1), id) = Derived(e.start, e.steps)
<1> DEFINE n == Len(e.steps)
           ns == ChainNumbers(e, id)
           m == SubSeq(ns, 1, Len(ns) - 1)
           step(i) == e.steps[i]
<1>1. n \in Nat /\ e.steps = [i \in 1 .. n |-> step(i)]
  <2>1. e.steps \in Seq([var : Vars, id : 0 .. id - 1])
    BY DEF StepsBelow
  <2>2. QED
    BY <2>1
<1>2. ASSUME NEW i \in 1 .. n
      PROVE  /\ step(i).var \in Nat /\ step(i).var + 1 <= NumberLimit
             /\ step(i).id \in 0 .. id - 1
             /\ step(i) = [var |-> step(i).var, id |-> step(i).id]
  <2>1. step(i) \in [var : Vars, id : 0 .. id - 1]
    <3>1. e.steps \in Seq([var : Vars, id : 0 .. id - 1])
      BY DEF StepsBelow
    <3>2. QED
      BY <3>1, ElementOfSeq
  <2>2. step(i).var \in Vars
    BY <2>1
  <2>3. QED
    BY <2>1, <2>2, ProofFileAssumption
<1> HIDE DEF n, step
<1>3. ns = [i \in 1 .. 2 * n + 2 |->
              IF i = 1 THEN 2 * (id - e.start) + 1
              ELSE IF i > 2 * n + 1 THEN 0
              ELSE IF i % 2 = 0 THEN step(i \div 2).var + 1 ELSE id - step(i \div 2).id]
  BY Zenon DEF ChainNumbers, n, step
<1>4. NumberLimit \in Nat /\ MaxEntries \in Nat /\ 2 * MaxEntries <= NumberLimit
  BY ProofFileAssumption, SMT DEF NumberLimit
<1>5. /\ ns[1] = 2 * (id - e.start) + 1 /\ ns[2 * n + 2] = 0
      /\ \A i \in 1 .. n : ns[2 * i] = step(i).var + 1 /\ ns[2 * i + 1] = id - step(i).id
  <2>1. ns[1] = 2 * (id - e.start) + 1 /\ ns[2 * n + 2] = 0
    BY <1>1, <1>3
  <2>2. ASSUME NEW i \in 1 .. n
        PROVE  ns[2 * i] = step(i).var + 1 /\ ns[2 * i + 1] = id - step(i).id
    <3>1. /\ 2 * i \in 1 .. 2 * n + 2 /\ 2 * i + 1 \in 1 .. 2 * n + 2
          /\ 2 * i # 1 /\ 2 * i + 1 # 1 /\ ~(2 * i > 2 * n + 1) /\ ~(2 * i + 1 > 2 * n + 1)
          /\ (2 * i) % 2 = 0 /\ (2 * i + 1) % 2 # 0
          /\ (2 * i) \div 2 = i /\ (2 * i + 1) \div 2 = i
      BY <1>1
    <3>2. QED
      BY <1>3, <3>1
  <2>3. QED
    BY <2>1, <2>2
<1>6. \A i \in 2 .. 2 * n + 1 : \E k \in 1 .. n : i = 2 * k \/ i = 2 * k + 1
  <2>1. ASSUME NEW i \in 2 .. 2 * n + 1
        PROVE  \E k \in 1 .. n : i = 2 * k \/ i = 2 * k + 1
    <3>1. i \div 2 \in 1 .. n /\ (i = 2 * (i \div 2) \/ i = 2 * (i \div 2) + 1)
      BY <1>1
    <3>2. QED
      BY <3>1
  <2>2. QED
    BY <2>1
<1>7. \A i \in 2 .. 2 * n + 1 : ns[i] \in Nat /\ ns[i] # 0 /\ ns[i] <= NumberLimit
  <2>1. ASSUME NEW i \in 2 .. 2 * n + 1
        PROVE  ns[i] \in Nat /\ ns[i] # 0 /\ ns[i] <= NumberLimit
    <3>1. PICK k \in 1 .. n : i = 2 * k \/ i = 2 * k + 1
      BY <1>6
    <3>2. /\ step(k).var \in Nat /\ step(k).var + 1 <= NumberLimit
          /\ step(k).id \in 0 .. id - 1
      BY <1>2
    <3>3. ns[2 * k] = step(k).var + 1 /\ ns[2 * k + 1] = id - step(k).id
      BY <1>5
    <3>4. QED
      BY <1>4, <3>1, <3>2, <3>3
  <2>2. QED
    BY <2>1
<1>8. \A i \in 1 .. 2 * n + 2 : ns[i] \in Nat /\ ns[i] <= NumberLimit
  <2>1. ns[1] \in Nat /\ ns[1] <= NumberLimit
    BY <1>4, <1>5
  <2>2. ASSUME NEW i \in 1 .. 2 * n + 2
        PROVE  i = 1 \/ i = 2 * n + 2 \/ i \in 2 .. 2 * n + 1
    BY <1>1
  <2>3. QED
    BY <1>4, <1>5, <1>7, <2>1, <2>2
<1>9. ns \in Seq(Nat) /\ Len(ns) = 2 * n + 2
  <2>1. ns \in [1 .. 2 * n + 2 -> Nat]
    <3>1. ns = [i \in 1 .. 2 * n + 2 |-> ns[i]]
      BY <1>3
    <3> HIDE DEF ns
    <3>2. QED
      BY <1>8, <3>1
  <2>2. 2 * n + 2 \in Nat
    BY <1>1
  <2> HIDE DEF ns
  <2>3. QED
    BY <2>1, <2>2
<1> HIDE DEF ns
<1>10. IsNumbers(ns)
  <2>1. Len(ns) >= 2 /\ Len(ns) - 1 = 2 * n + 1
    BY <1>1, <1>9
  <2>2. ns[Len(ns)] = 0 /\ \A i \in 1 .. Len(ns) : ns[i] <= NumberLimit
    BY <1>5, <1>8, <1>9
  <2>3. \A i \in 2 .. Len(ns) - 1 : ns[i] # 0
    BY <1>7, <2>1
  <2>4. QED
    BY <1>9, <2>1, <2>2, <2>3 DEF IsNumbers
<1>11. /\ m \in Seq(Nat) /\ Len(m) = 2 * n + 1
       /\ \A i \in 1 .. 2 * n + 1 : m[i] = ns[i]
  <2> DEFINE k == 2 * n + 1
  <2>1. k \in Nat /\ Len(ns) = k + 1
    BY <1>1, <1>9
  <2> HIDE DEF k
  <2>2. m \in Seq(Nat) /\ Len(m) = k /\ \A i \in 1 .. k : m[i] = ns[i]
    BY <1>9, <2>1
  <2>3. QED
    BY <2>2 DEF k
<1> HIDE DEF m
<1>12. m[1] % 2 # 0 /\ id - m[1] \div 2 = e.start /\ (Len(m) - 1) \div 2 = n
  <2>1. m[1] = 2 * (id - e.start) + 1
    BY <1>1, <1>5, <1>11
  <2>2. Len(m) - 1 = 2 * n
    BY <1>1, <1>11
  <2>3. (2 * n) \div 2 = n
    BY <1>1
  <2>4. m[1] % 2 = 1 /\ m[1] \div 2 = id - e.start
    BY <2>1
  <2>5. QED
    BY <2>2, <2>3, <2>4
<1>13. [i \in 1 .. n |-> [var |-> m[2 * i] - 1, id |-> id - m[2 * i + 1]]] = e.steps
  <2>1. ASSUME NEW i \in 1 .. n
        PROVE  [var |-> m[2 * i] - 1, id |-> id - m[2 * i + 1]] = step(i)
    <3>1. /\ step(i).var \in Nat /\ step(i).id \in 0 .. id - 1
          /\ step(i) = [var |-> step(i).var, id |-> step(i).id]
      BY <1>2
    <3>2. ns[2 * i] = step(i).var + 1 /\ ns[2 * i + 1] = id - step(i).id
      BY <1>5
    <3>3. m[2 * i] = ns[2 * i] /\ m[2 * i + 1] = ns[2 * i + 1]
      BY <1>1, <1>11
    <3>4. m[2 * i] - 1 = step(i).var /\ id - m[2 * i + 1] = step(i).id
      BY <3>1, <3>2, <3>3
    <3>5. QED
      BY <3>1, <3>4
  <2>2. QED
    BY <1>1, <2>1
<1>14. EntryOf(m, id) = Derived(e.start, e.steps)
  BY <1>12, <1>13, Zenon DEF EntryOf
<1>15. QED
  BY <1>10, <1>14 DEF m, ns

\* The fields of the entry of a chain.
LEMMA DerivedIs ==
  ASSUME NEW a, NEW b
  PROVE  Derived(a, b).kind = "chain" /\ Derived(a, b).start = a /\ Derived(a, b).steps = b
BY DEF Derived

\* The fields of the entry of a deletion.
LEMMA DeletionIs ==
  ASSUME NEW a
  PROVE  /\ Deletion(a).kind = "deletion" /\ Deletion(a).start = a /\ Deletion(a).steps = <<>>
BY Zenon DEF Deletion

(* Every entry that may be logged is read back from its numbers.            *)
LEMMA EntryIsNumbers ==
  ASSUME NEW id \in Nat, id < MaxEntries, NEW e, IsEntry(e, id)
  PROVE  LET ns == Numbers(e, id)
         IN  IsNumbers(ns) /\ ReadFor(EntryOf(SubSeq(ns, 1, Len(ns) - 1), id), e)
<1>1. CASE \E lits \in Clauses : e = Root(lits)
  BY <1>1, RootIsNumbers
<1>2. CASE \E start \in 0 .. id - 1, steps \in StepsBelow(id) :
             Len(steps) > 0 /\ e = Derived(start, steps)
  <2>1. PICK start \in 0 .. id - 1, steps \in StepsBelow(id) :
               Len(steps) > 0 /\ e = Derived(start, steps)
    BY <1>2
  <2>2. e.kind = "chain" /\ e.start = start /\ e.steps = steps
    BY <2>1, DerivedIs
  <2>3. Numbers(e, id) = ChainNumbers(e, id)
    BY <2>2 DEF Numbers
  <2>4. LET ns == ChainNumbers(e, id)
        IN  IsNumbers(ns) /\ EntryOf(SubSeq(ns, 1, Len(ns) - 1), id) = Derived(e.start, e.steps)
    BY <2>2, ChainIsNumbers
  <2>5. steps # <<>>
    BY <2>1
  <2>6. ReadFor(e, e)
    BY <2>2, <2>5 DEF ReadFor, Announced, NoNewClause, IsClause
  <2>7. Derived(e.start, e.steps) = e
    BY <2>1, <2>2
  <2>8. QED
    BY <2>3, <2>4, <2>6, <2>7
<1>3. CASE \E i \in 0 .. id - 1 : e = Deletion(i)
  <2>1. PICK i \in 0 .. id - 1 : e = Deletion(i)
    BY <1>3
  <2>2. e.kind = "deletion" /\ e.start = i /\ e.steps = <<>>
    BY <2>1, DeletionIs
  <2>3. Numbers(e, id) = ChainNumbers(e, id)
    BY <2>2 DEF Numbers
  <2>4. e.start \in 0 .. id - 1 /\ e.steps \in StepsBelow(id)
    BY <2>1, <2>2, EmptySeq DEF StepsBelow
  <2>5. LET ns == ChainNumbers(e, id)
        IN  IsNumbers(ns) /\ EntryOf(SubSeq(ns, 1, Len(ns) - 1), id) = Derived(e.start, e.steps)
    BY <2>4, ChainIsNumbers
  <2> DEFINE r == Derived(e.start, e.steps)
  <2>6. r.kind = "chain" /\ r.start = i /\ r.steps = <<>>
    BY <2>2, DerivedIs
  <2> HIDE DEF r
  <2>7. NoNewClause(r)
    BY <2>6 DEF NoNewClause
  <2>8. ~IsClause(e)
    BY <2>2 DEF IsClause
  <2>9. Announced(r) = e
    BY <2>1, <2>6, <2>7, Zenon DEF Announced
  <2>10. ReadFor(r, e)
    BY <2>7, <2>8, <2>9, Zenon DEF ReadFor
  <2>11. QED
    BY <2>3, <2>5, <2>10 DEF r
<1>4. QED
  BY <1>1, <1>2, <1>3 DEF IsEntry

(* What a part of a part of a file holds.                                   *)
LEMMA HeldIn ==
  ASSUME NEW d \in Bytes, NEW c \in Bytes, NEW b \in Bytes, NEW p \in Nat, NEW q \in Nat,
         Held(d, p, c), Held(c, q, b)
  PROVE  Held(d, p + q, b)
<1>1. Len(d) \in Nat /\ Len(c) \in Nat /\ Len(b) \in Nat
  BY DEF Bytes
<1>2. /\ p + Len(c) <= Len(d) /\ q + Len(b) <= Len(c)
      /\ \A i \in 1 .. Len(c) : d[p + i] = c[i]
      /\ \A i \in 1 .. Len(b) : c[q + i] = b[i]
  BY DEF Held
<1>3. (p + q) + Len(b) <= Len(d)
  BY <1>1, <1>2
<1>4. ASSUME NEW i \in 1 .. Len(b) PROVE d[(p + q) + i] = b[i]
  <2>1. q + i \in 1 .. Len(c) /\ p + (q + i) = (p + q) + i
    BY <1>1, <1>2
  <2>2. QED
    BY <1>2, <2>1
<1>5. QED
  BY <1>3, <1>4 DEF Held

(* Parts joined, none of them empty: where each begins, and that the whole  *)
(* holds it there.                                                          *)
LEMMA Pieces ==
  ASSUME NEW n \in Nat, NEW c, NEW e, Joined(n, c, e), \A k \in 1 .. n : Len(e[k]) >= 1
  PROVE  /\ \A k \in 0 .. n : c[k] \in Bytes /\ Len(c[k]) \in Nat /\ Len(c[k]) >= k
         /\ Len(c[0]) = 0
         /\ \A k \in 1 .. n : Len(c[k]) = Len(c[k - 1]) + Len(e[k]) /\ Held(c[n], Len(c[k - 1]), e[k])
<1> DEFINE S == {k \in Nat : k <= n => Len(c[k]) >= k}
<1>1. Ends(n, c) /\ \A k \in 1 .. n : PartAt(n, k, c, e)
  BY Concatenation
<1>2. /\ \A k \in 0 .. n : c[k] \in Bytes /\ Len(c[k]) \in Nat
      /\ \A k \in 1 .. n : /\ Len(e[k]) \in Nat
                           /\ Len(c[k]) = Len(c[k - 1]) + Len(e[k])
                           /\ Held(c[n], Len(c[k - 1]), e[k])
  BY <1>1 DEF Ends, PartAt
<1>3. Len(c[0]) = 0
  BY DEF Joined
<1>4. 0 \in S
  BY <1>3
<1>5. ASSUME NEW k \in Nat, k \in S PROVE k + 1 \in S
  <2>1. SUFFICES ASSUME k + 1 <= n PROVE Len(c[k + 1]) >= k + 1
    OBVIOUS
  <2>2. k + 1 \in 1 .. n /\ (k + 1) - 1 = k /\ k \in 0 .. n /\ k <= n
    BY <2>1
  <2> DEFINE x == Len(c[k])
             y == Len(e[k + 1])
             z == Len(c[k + 1])
  <2>3. x \in Nat /\ y \in Nat /\ y >= 1 /\ x >= k /\ z = x + y
    BY <1>2, <1>5, <2>2
  <2> HIDE DEF x, y, z
  <2>4. z >= k + 1
    BY <2>3
  <2>5. QED
    BY <2>4 DEF z
<1>6. \A k \in Nat : k \in S
  <2> HIDE DEF S
  <2>1. QED
    BY <1>4, <1>5, AllNumbers
<1>7. \A k \in 0 .. n : Len(c[k]) >= k
  BY <1>6
<1>8. QED
  BY <1>2, <1>3, <1>7

(* The bytes of numbers.                                                    *)
LEMMA BytesAre ==
  ASSUME NEW ns \in Seq(Nat)
  PROVE  LET c == BytesUpTo(ns)
             n == Len(ns)
         IN  /\ \A k \in 0 .. n : c[k] \in Bytes /\ Len(c[k]) \in Nat /\ Len(c[k]) >= k
             /\ Len(c[0]) = 0
             /\ \A k \in 1 .. n : /\ Len(c[k]) = Len(c[k - 1]) + Len(Encode(ns[k]))
                                  /\ Held(c[n], Len(c[k - 1]), Encode(ns[k]))
<1> DEFINE c == BytesUpTo(ns)
           n == Len(ns)
           e == [k \in 1 .. n |-> Encode(ns[k])]
<1>1. n \in Nat /\ \A k \in 1 .. n : ns[k] \in Nat
  OBVIOUS
<1>2. \A k \in 1 .. n : e[k] = Encode(ns[k]) /\ e[k] \in Bytes /\ Len(e[k]) >= 1
  BY <1>1, EncodeIs
<1>3. c[0] = <<>> /\ \A k \in 1 .. n : c[k] = c[k - 1] \o Encode(ns[k])
  BY <1>1, BytesSteps
<1> HIDE DEF c, e
<1>4. Joined(n, c, e)
  BY <1>2, <1>3 DEF Joined
<1> HIDE DEF n
<1>5. /\ \A k \in 0 .. n : c[k] \in Bytes /\ Len(c[k]) \in Nat /\ Len(c[k]) >= k
      /\ Len(c[0]) = 0
      /\ \A k \in 1 .. n : Len(c[k]) = Len(c[k - 1]) + Len(e[k]) /\ Held(c[n], Len(c[k - 1]), e[k])
  BY <1>1, <1>2, <1>4, Pieces
<1>6. QED
  BY <1>2, <1>5 DEF c, n

(* The numbers of an entry are read up to the 0 that ends it.               *)
LEMMA RestReads ==
  ASSUME NEW ns, IsNumbers(ns), NEW f, NEW d, NEW p, NEW o, Reads(f, d, p, o),
         Held(d, p, BytesUpTo(ns)[Len(ns)])
  PROVE  LET r == Rest(GetUInt(f))
             b == BytesUpTo(ns)[Len(ns)]
         IN  /\ GetUInt(f).val = ns[1] /\ r.numbers = SubSeq(ns, 1, Len(ns) - 1)
             /\ Reads(r.next.f, d, p + Len(b), o + Len(b))
<1> DEFINE first == GetUInt(f)
           c == BytesUpTo(ns)
           n == Len(ns)
           r == RestRounds(first)
           m == Len(first.f.disk)
           At(j, x) == /\ x.numbers = SubSeq(ns, 1, j + 1) /\ x.next.val = ns[j + 2]
                       /\ Reads(x.next.f, d, p + Len(c[j + 2]), o + Len(c[j + 2]))
           Q(k) == \E j \in 0 .. n - 2 : At(j, r[k]) /\ (j = k \/ j = n - 2)
           S == {k \in Nat : k <= m => Q(k)}
<1>1. /\ ns \in Seq(Nat) /\ n \in Nat /\ n >= 2 /\ ns[n] = 0
      /\ \A i \in 1 .. n : ns[i] \in Nat /\ ns[i] <= NumberLimit
      /\ \A i \in 2 .. n - 1 : ns[i] # 0
  BY DEF IsNumbers
<1>2. d \in Bytes /\ p \in Nat /\ o \in Nat /\ Len(d) \in Nat
  <2>1. d \in Bytes /\ p \in 0 .. Len(d) /\ o \in Nat
    BY GetCharIs
  <2>2. Len(d) \in Nat
    BY <2>1 DEF Bytes
  <2>3. QED
    BY <2>1, <2>2
<1>3. /\ \A k \in 0 .. n : c[k] \in Bytes /\ Len(c[k]) \in Nat /\ Len(c[k]) >= k
      /\ Len(c[0]) = 0
      /\ \A k \in 1 .. n : /\ Len(c[k]) = Len(c[k - 1]) + Len(Encode(ns[k]))
                           /\ Held(c[n], Len(c[k - 1]), Encode(ns[k]))
  BY <1>1, BytesAre
<1> HIDE DEF c, n
\* One number.
<1>4. ASSUME NEW k \in 1 .. n, NEW g,
             Reads(g, d, p + Len(c[k - 1]), o + Len(c[k - 1]))
      PROVE  GetUInt(g).val = ns[k] /\ Reads(GetUInt(g).f, d, p + Len(c[k]), o + Len(c[k]))
  <2> DEFINE v == ns[k]
             q == Len(c[k - 1])
             u == Len(Encode(v))
  <2>1. v \in Nat /\ v <= NumberLimit
    BY <1>1
  <2>2. k - 1 \in 0 .. n /\ n \in 0 .. n
    BY <1>1
  <2>3. q \in Nat /\ c[n] \in Bytes /\ Held(c[n], q, Encode(v)) /\ Len(c[k]) = q + u
    BY <1>3, <2>2
  <2>4. Encode(v) \in Bytes /\ u \in Nat
    BY <2>1, EncodeIs
  <2>5. Held(d, p, c[n])
    BY DEF c, n
  <2> HIDE DEF v, q, u
  <2>6. Held(d, p + q, Encode(v))
    BY <1>2, <2>3, <2>4, <2>5, HeldIn
  <2>7. Reads(g, d, p + q, o + q)
    BY <1>4 DEF q
  <2>8. GetUInt(g).val = v /\ Reads(GetUInt(g).f, d, (p + q) + u, (o + q) + u)
    BY <2>1, <2>6, <2>7, DecodeIs DEF u
  <2>9. (p + q) + u = p + Len(c[k]) /\ (o + q) + u = o + Len(c[k])
    BY <1>2, <2>3, <2>4
  <2>10. QED
    BY <2>8, <2>9 DEF v
<1>5. first.val = ns[1] /\ Reads(first.f, d, p + Len(c[1]), o + Len(c[1]))
  <2>1. p + Len(c[1 - 1]) = p /\ o + Len(c[1 - 1]) = o
    BY <1>2, <1>3
  <2>2. 1 \in 1 .. n
    BY <1>1
  <2>3. QED
    BY <1>4, <2>1, <2>2
<1> HIDE DEF first
<1>6. first.f.disk = d /\ m = Len(d)
  BY <1>5 DEF Reads
<1> HIDE DEF m
<1>7. /\ r[0] = [next |-> GetUInt(first.f), numbers |-> <<first.val>>]
      /\ \A k \in 1 .. m : r[k] = RestRound(r[k - 1])
  BY <1>2, <1>6, RestSteps
<1> HIDE DEF r, Q
<1>8. Q(0)
  <2>1. 2 \in 1 .. n /\ 2 - 1 = 1 /\ 0 \in 0 .. n - 2
    BY <1>1
  <2>2. /\ GetUInt(first.f).val = ns[2]
        /\ Reads(GetUInt(first.f).f, d, p + Len(c[2]), o + Len(c[2]))
    BY <1>4, <1>5, <2>1
  <2>3. SubSeq(ns, 1, 1) = <<ns[1]>>
    <3>1. 1 \in 1 .. Len(ns) /\ 1 \in 1 .. 1 /\ 1 - 1 = 0
      BY <1>1 DEF n
    <3>2. SubSeq(ns, 1, 1) = SubSeq(ns, 1, 0) \o <<ns[1]>>
      <4>1. 1 \in 1 .. Len(ns)
        BY <3>1
      <4>2. SubSeq(ns, 1, 1) = SubSeq(ns, 1, 1 - 1) \o <<ns[1]>>
        BY <1>1, <4>1, SubSeqRecursiveSecond
      <4>3. QED
        BY <3>1, <4>2
    <3>3. SubSeq(ns, 1, 0) = <<>>
      BY SubSeqEmpty
    <3>4. <<ns[1]>> \in Seq(Nat)
      BY <1>1
    <3>5. QED
      BY <3>2, <3>3, <3>4, ConcatEmptySeq
  <2>4. r[0].next = GetUInt(first.f) /\ r[0].numbers = <<first.val>>
    BY <1>7
  <2>5. 0 + 1 = 1 /\ 0 + 2 = 2
    OBVIOUS
  <2>6. At(0, r[0])
    BY <1>5, <2>2, <2>3, <2>4, <2>5
  <2> HIDE DEF At
  <2>7. QED
    BY <2>1, <2>6 DEF Q
<1>9. ASSUME NEW k \in Nat, k \in S PROVE k + 1 \in S
  <2>1. SUFFICES ASSUME k + 1 <= m PROVE Q(k + 1)
    OBVIOUS
  <2>2. Q(k)
    BY <1>2, <1>6, <1>9, <2>1
  <2>3. r[k + 1] = RestRound(r[k])
    <3>1. k + 1 \in 1 .. m /\ (k + 1) - 1 = k
      BY <1>2, <1>6, <2>1
    <3>2. QED
      BY <1>7, <3>1
  <2>4. PICK j \in 0 .. n - 2 : At(j, r[k]) /\ (j = k \/ j = n - 2)
    BY <2>2 DEF Q
  <2>5. CASE j = n - 2
    <3>1. j + 2 = n
      BY <1>1, <2>5
    <3>2. r[k].next.val = 0
      BY <1>1, <2>4, <3>1
    <3>3. r[k + 1] = r[k]
      BY <2>3, <3>2, Zenon DEF RestRound
    <3> HIDE DEF At
    <3>4. QED
      BY <2>4, <2>5, <3>3 DEF Q
  <2>6. CASE j # n - 2
    <3>1. j = k /\ j + 1 \in 0 .. n - 2 /\ j + 2 \in 2 .. n - 1 /\ j + 3 \in 1 .. n
          /\ (j + 3) - 1 = j + 2 /\ (j + 1) + 1 = j + 2 /\ (j + 1) + 2 = j + 3
      BY <1>1, <2>4, <2>6
    <3>2. /\ r[k].next.val = ns[j + 2] /\ r[k].next.val # 0
          /\ r[k].numbers = SubSeq(ns, 1, j + 1)
          /\ Reads(r[k].next.f, d, p + Len(c[j + 2]), o + Len(c[j + 2]))
      BY <1>1, <2>4, <3>1
    <3> DEFINE g == r[k].next.f
    <3>3. r[k + 1] = [next |-> GetUInt(g), numbers |-> Append(r[k].numbers, r[k].next.val)]
      BY <2>3, <3>2, Zenon DEF RestRound
    <3> HIDE DEF g
    <3>4. Append(SubSeq(ns, 1, j + 1), ns[j + 2]) = SubSeq(ns, 1, j + 2)
      <4>1. j + 2 \in 1 .. Len(ns) /\ 1 \in 1 .. Len(ns) /\ j + 2 \in 1 .. j + 2 /\ (j + 2) - 1 = j + 1
            /\ 1 <= j + 2
        BY <1>1, <3>1 DEF n
      <4>2. SubSeq(ns, 1, j + 2) = SubSeq(ns, 1, j + 1) \o <<ns[j + 2]>>
        <5>1. j + 2 \in 1 .. Len(ns)
          BY <4>1
        <5>2. QED
          BY <1>1, <4>1, <5>1, SubSeqRecursiveSecond
      <4>3. SubSeq(ns, 1, j + 1) \in Seq(Nat) /\ ns[j + 2] \in Nat
        BY <1>1, <3>1, <4>1 DEF n
      <4>4. Append(SubSeq(ns, 1, j + 1), ns[j + 2]) = SubSeq(ns, 1, j + 1) \o <<ns[j + 2]>>
        BY <4>3, AppendIsConcat
      <4>5. QED
        BY <4>2, <4>4
    <3>5. Reads(g, d, p + Len(c[(j + 3) - 1]), o + Len(c[(j + 3) - 1]))
      BY <3>1, <3>2 DEF g
    <3>6. GetUInt(g).val = ns[j + 3] /\ Reads(GetUInt(g).f, d, p + Len(c[j + 3]), o + Len(c[j + 3]))
      BY <1>4, <3>1, <3>5
    <3>7. /\ r[k + 1].next = GetUInt(g)
          /\ r[k + 1].numbers = SubSeq(ns, 1, j + 2)
      BY <3>2, <3>3, <3>4
    <3>8. At(j + 1, r[k + 1])
      BY <3>1, <3>6, <3>7
    <3> HIDE DEF At
    <3>9. QED
      BY <3>1, <3>8 DEF Q
  <2>7. QED
    BY <2>5, <2>6
<1>10. \A k \in Nat : k \in S
  <2>1. 0 \in S
    BY <1>8
  <2> HIDE DEF S
  <2>2. QED
    BY <1>9, <2>1, AllNumbers
<1>11. Q(m)
  BY <1>2, <1>6, <1>10
<1>12. m >= n
  <2>1. Held(d, p, c[n])
    BY DEF c, n
  <2>2. p + Len(c[n]) <= Len(d)
    BY <2>1 DEF Held
  <2>3. Len(c[n]) \in Nat /\ Len(c[n]) >= n
    BY <1>1, <1>3
  <2>4. QED
    BY <1>1, <1>2, <1>6, <2>2, <2>3
<1>13. At(n - 2, r[m])
  <2>1. PICK j \in 0 .. n - 2 : At(j, r[m]) /\ (j = m \/ j = n - 2)
    BY <1>11 DEF Q
  <2>2. j = n - 2
    BY <1>1, <1>2, <1>6, <1>12, <2>1
  <2> HIDE DEF At
  <2>3. QED
    BY <2>1, <2>2
<1>14. /\ r[m].numbers = SubSeq(ns, 1, n - 1)
       /\ Reads(r[m].next.f, d, p + Len(c[n]), o + Len(c[n]))
  <2>1. (n - 2) + 1 = n - 1 /\ (n - 2) + 2 = n
    BY <1>1
  <2>2. QED
    BY <1>13, <2>1
<1>15. Rest(first) = r[m]
  BY Zenon DEF Rest, r, m
<1>16. QED
  BY <1>5, <1>14, <1>15 DEF first, c, n

(* The bytes of an entry are bytes, and some.                               *)
LEMMA EntryBytesAre ==
  ASSUME NEW id \in Nat, id < MaxEntries, NEW e, IsEntry(e, id)
  PROVE  EntryBytes(e, id) \in Bytes /\ Len(EntryBytes(e, id)) \in Nat /\ Len(EntryBytes(e, id)) >= 1
<1> DEFINE ns == Numbers(e, id)
           n == Len(ns)
           b == EntryBytes(e, id)
<1>1. IsNumbers(ns)
  BY EntryIsNumbers
<1> HIDE DEF ns
<1>2. ns \in Seq(Nat) /\ n \in Nat /\ n >= 2
  BY <1>1 DEF IsNumbers
<1>3. b = BytesUpTo(ns)[n]
  BY Zenon DEF EntryBytes, ns
<1> HIDE DEF b
<1>4. \A k \in 0 .. n : /\ BytesUpTo(ns)[k] \in Bytes /\ Len(BytesUpTo(ns)[k]) \in Nat
                        /\ Len(BytesUpTo(ns)[k]) >= k
  BY <1>2, BytesAre
<1>5. b \in Bytes /\ Len(b) \in Nat /\ Len(b) >= n
  BY <1>2, <1>3, <1>4
<1> HIDE DEF n
<1>6. Len(b) >= 1
  BY <1>2, <1>5
<1>7. QED
  BY <1>5, <1>6 DEF b

(* Where the file holds an entry, that entry is read.                       *)
LEMMA EntryReads ==
  ASSUME NEW id \in Nat, id < MaxEntries, NEW e, IsEntry(e, id),
         NEW f, NEW d, NEW p, NEW o, Reads(f, d, p, o), Held(d, p, EntryBytes(e, id))
  PROVE  LET r == EntryRead(GetUInt(f), id)
             n == Len(EntryBytes(e, id))
         IN  GetUInt(f).val # Eof /\ ReadFor(r.entry, e) /\ Reads(r.f, d, p + n, o + n)
<1> DEFINE ns == Numbers(e, id)
           b == BytesUpTo(ns)[Len(ns)]
           first == GetUInt(f)
           rest == Rest(first)
           r == EntryRead(first, id)
<1>1. IsNumbers(ns) /\ ReadFor(EntryOf(SubSeq(ns, 1, Len(ns) - 1), id), e)
  BY EntryIsNumbers
<1>2. EntryBytes(e, id) = b
  BY Zenon DEF EntryBytes
<1> HIDE DEF ns
<1>3. Held(d, p, b)
  BY <1>2
<1>4. /\ first.val = ns[1] /\ rest.numbers = SubSeq(ns, 1, Len(ns) - 1)
      /\ Reads(rest.next.f, d, p + Len(b), o + Len(b))
  BY <1>1, <1>3, RestReads
<1>5. first.val # Eof
  <2>1. ns[1] \in Nat
    BY <1>1 DEF IsNumbers
  <2>2. QED
    BY <1>4, <2>1 DEF Eof
<1> HIDE DEF b, first, rest
<1>6. r = [f |-> rest.next.f, entry |-> EntryOf(rest.numbers, id)]
  BY Zenon DEF EntryRead, EntryThere, rest
<1> HIDE DEF r
<1>7. r.f = rest.next.f /\ r.entry = EntryOf(SubSeq(ns, 1, Len(ns) - 1), id)
  BY <1>4, <1>6
<1>8. ReadFor(r.entry, e) /\ Reads(r.f, d, p + Len(b), o + Len(b))
  BY <1>1, <1>4, <1>7
<1>9. QED
  BY <1>2, <1>5, <1>8 DEF r, first

-----------------------------------------------------------------------------
(***************************************************************************)
(* The log.                                                                *)
(***************************************************************************)
StepForm == [var : Vars, id : Nat]
Chains == {Derived(start, steps) : start \in Nat, steps \in Seq(StepForm)}
Entries == {Root(lits) : lits \in Clauses} \cup Chains \cup {Deletion(id) : id \in Nat}

\* How many clauses are among the first k entries.
Ids(l, k) == Len(ClausesUpTo(l)[k])

IsLog(l) ==
    /\ l \in Seq(Entries) /\ Len(l) <= MaxEntries
    /\ \A k \in 1 .. Len(l) : IsEntry(l[k], Ids(l, k - 1))

\* An entry as a reader may meet it is one of the entries of a log.
LEMMA EntriesAre ==
  ASSUME NEW id \in Nat, NEW e, IsEntry(e, id)
  PROVE  e \in Entries
<1>1. CASE \E lits \in Clauses : e = Root(lits)
  BY <1>1 DEF Entries
<1>2. CASE \E start \in 0 .. id - 1, steps \in StepsBelow(id) :
             Len(steps) > 0 /\ e = Derived(start, steps)
  <2>1. PICK start \in 0 .. id - 1, steps \in StepsBelow(id) : e = Derived(start, steps)
    BY <1>2
  <2> DEFINE T == [var : Vars, id : 0 .. id - 1]
  <2>2. T \subseteq StepForm
    BY DEF StepForm
  <2>3. steps \in Seq(T)
    BY DEF StepsBelow
  <2> HIDE DEF T
  <2>4. steps \in Seq(StepForm)
    BY <2>2, <2>3, SeqMonotonic
  <2>5. start \in Nat
    OBVIOUS
  <2>6. e \in Chains
    BY <2>1, <2>4, <2>5 DEF Chains
  <2>7. QED
    BY <2>6 DEF Entries
<1>3. CASE \E i \in 0 .. id - 1 : e = Deletion(i)
  <2>1. PICK i \in 0 .. id - 1 : e = Deletion(i)
    BY <1>3
  <2>2. i \in Nat
    OBVIOUS
  <2>3. e \in {Deletion(a) : a \in Nat}
    BY <2>1, <2>2
  <2>4. QED
    BY <2>3 DEF Entries
<1>4. QED
  BY <1>1, <1>2, <1>3 DEF IsEntry

(* The clauses among the first entries: at most as many as entries, one     *)
(* more after a clause.                                                     *)
LEMMA ClausesAre ==
  ASSUME NEW l \in Seq(Entries)
  PROVE  /\ \A k \in 0 .. Len(l) : /\ ClausesUpTo(l)[k] \in Seq(Entries)
                                   /\ Ids(l, k) \in Nat /\ Ids(l, k) <= k
         /\ Ids(l, 0) = 0
         /\ \A k \in 1 .. Len(l) :
              Ids(l, k) = IF IsClause(l[k]) THEN Ids(l, k - 1) + 1 ELSE Ids(l, k - 1)
<1> DEFINE c == ClausesUpTo(l)
           n == Len(l)
           S == {k \in Nat : k <= n => c[k] \in Seq(Entries) /\ Len(c[k]) <= k}
<1>1. n \in Nat /\ \A k \in 1 .. n : l[k] \in Entries
  BY ElementOfSeq
<1>2. /\ c[0] = <<>>
      /\ \A k \in 1 .. n : c[k] = IF IsClause(l[k]) THEN Append(c[k - 1], l[k]) ELSE c[k - 1]
  BY <1>1, ClausesSteps
<1> HIDE DEF c, n
<1>3. 0 \in S
  <2>1. <<>> \in Seq(Entries) /\ Len(<<>>) <= 0
    BY EmptySeq
  <2>2. QED
    BY <1>2, <2>1
<1>4. ASSUME NEW k \in Nat, k \in S PROVE k + 1 \in S
  <2>1. SUFFICES ASSUME k + 1 <= n PROVE c[k + 1] \in Seq(Entries) /\ Len(c[k + 1]) <= k + 1
    OBVIOUS
  <2>2. k + 1 \in 1 .. n /\ (k + 1) - 1 = k /\ k <= n
    BY <1>1, <2>1
  <2>3. c[k] \in Seq(Entries) /\ Len(c[k]) <= k /\ Len(c[k]) \in Nat /\ l[k + 1] \in Entries
    BY <1>1, <1>4, <2>2, LenProperties
  <2>4. CASE IsClause(l[k + 1])
    <3>1. c[k + 1] = Append(c[k], l[k + 1])
      BY <1>2, <2>2, <2>4
    <3> DEFINE x == c[k]
               y == c[k + 1]
               z == l[k + 1]
    <3>2. x \in Seq(Entries) /\ Len(x) <= k /\ Len(x) \in Nat /\ z \in Entries /\ y = Append(x, z)
      BY <2>3, <3>1
    <3> HIDE DEF x, y, z
    <3>3. Append(x, z) \in Seq(Entries) /\ Len(Append(x, z)) = Len(x) + 1
      BY <3>2, AppendProperties
    <3>4. y \in Seq(Entries) /\ Len(y) <= k + 1
      BY <3>2, <3>3
    <3>5. QED
      BY <3>4 DEF y
  <2>5. CASE ~IsClause(l[k + 1])
    <3> DEFINE x == c[k]
               y == c[k + 1]
    <3>1. x \in Seq(Entries) /\ Len(x) <= k /\ Len(x) \in Nat /\ y = x
      BY <1>2, <2>2, <2>3, <2>5
    <3> HIDE DEF x, y
    <3>2. y \in Seq(Entries) /\ Len(y) <= k + 1
      BY <3>1
    <3>3. QED
      BY <3>2 DEF y
  <2>6. QED
    BY <2>4, <2>5
<1>5. \A k \in Nat : k \in S
  <2> HIDE DEF S
  <2>1. QED
    BY <1>3, <1>4, AllNumbers
<1>6. \A k \in 0 .. n : c[k] \in Seq(Entries) /\ Len(c[k]) \in Nat /\ Len(c[k]) <= k
  BY <1>1, <1>5, LenProperties
<1>7. Len(c[0]) = 0
  BY <1>2
<1>8. ASSUME NEW k \in 1 .. n
      PROVE  Len(c[k]) = IF IsClause(l[k]) THEN Len(c[k - 1]) + 1 ELSE Len(c[k - 1])
  <2>1. k - 1 \in 0 .. n
    BY <1>1
  <2>2. c[k - 1] \in Seq(Entries) /\ l[k] \in Entries
    BY <1>1, <1>6, <2>1
  <2>3. Len(Append(c[k - 1], l[k])) = Len(c[k - 1]) + 1
    BY <2>2, AppendProperties
  <2>4. QED
    BY <1>2, <2>3
<1>9. QED
  BY <1>6, <1>7, <1>8 DEF Ids, c, n

(* The bytes of a log: where each entry begins.                             *)
LEMMA LogBytesAre ==
  ASSUME NEW l, IsLog(l)
  PROVE  LET c == LogBytes(l)
             n == Len(l)
         IN  /\ \A k \in 0 .. n : c[k] \in Bytes /\ Len(c[k]) \in Nat /\ Len(c[k]) >= k
             /\ Len(c[0]) = 0
             /\ \A k \in 1 .. n :
                  LET e == EntryBytes(l[k], Ids(l, k - 1))
                  IN  Len(c[k]) = Len(c[k - 1]) + Len(e) /\ Held(c[n], Len(c[k - 1]), e)
<1> DEFINE c == LogBytes(l)
           n == Len(l)
           e == [k \in 1 .. n |-> EntryBytes(l[k], Ids(l, k - 1))]
<1>1. n \in Nat /\ n <= MaxEntries
  BY LenProperties DEF IsLog
<1>2. ASSUME NEW k \in 1 .. n
      PROVE  /\ e[k] = EntryBytes(l[k], Ids(l, k - 1)) /\ e[k] \in Bytes /\ Len(e[k]) >= 1
  <2> DEFINE id == Ids(l, k - 1)
             x == l[k]
             b == EntryBytes(x, id)
  <2>1. IsEntry(x, id)
    BY DEF IsLog
  <2>2. id \in Nat /\ id <= k - 1
    <3>1. k - 1 \in 0 .. Len(l) /\ l \in Seq(Entries)
      BY <1>1 DEF IsLog
    <3>2. QED
      BY <3>1, ClausesAre
  <2>3. id < MaxEntries
    BY <1>1, <2>2, ProofFileAssumption
  <2>4. e[k] = b
    OBVIOUS
  <2> HIDE DEF id, x, e
  <2>5. b \in Bytes /\ Len(b) >= 1
    BY <2>1, <2>2, <2>3, EntryBytesAre
  <2>6. QED
    BY <2>4, <2>5 DEF id, x
<1>3. /\ c[0] = <<>>
      /\ \A k \in 1 .. n : c[k] = c[k - 1] \o EntryBytes(l[k], Ids(l, k - 1))
  BY <1>1, LogSteps, Zenon DEF Ids
<1> HIDE DEF c, e, n
<1>4. Joined(n, c, e)
  BY <1>2, <1>3 DEF Joined
<1>5. /\ \A k \in 0 .. n : c[k] \in Bytes /\ Len(c[k]) \in Nat /\ Len(c[k]) >= k
      /\ Len(c[0]) = 0
      /\ \A k \in 1 .. n : Len(c[k]) = Len(c[k - 1]) + Len(e[k]) /\ Held(c[n], Len(c[k - 1]), e[k])
  BY <1>1, <1>2, <1>4, Pieces
<1>6. ASSUME NEW k \in 1 .. n
      PROVE  LET b == EntryBytes(l[k], Ids(l, k - 1))
             IN  Len(c[k]) = Len(c[k - 1]) + Len(b) /\ Held(c[n], Len(c[k - 1]), b)
  BY <1>2, <1>5
<1>7. QED
  BY <1>5, <1>6 DEF c, n

(* A log may grow by an entry about the clauses there are.                  *)
LEMMA LogAppends ==
  ASSUME NEW l, IsLog(l), Len(l) < MaxEntries, NEW e, IsEntry(e, Len(ClausesOf(l)))
  PROVE  /\ IsLog(Append(l, e))
         /\ BytesOf(Append(l, e)) = BytesOf(l) \o EntryBytes(e, Len(ClausesOf(l)))
<1> DEFINE n == Len(l)
           m == Append(l, e)
           id == Ids(l, n)
           S == {k \in Nat : k <= n => /\ ClausesUpTo(m)[k] = ClausesUpTo(l)[k]
                                       /\ LogBytes(m)[k] = LogBytes(l)[k]}
<1>1. l \in Seq(Entries) /\ n \in Nat /\ n < MaxEntries /\ MaxEntries \in Nat
  BY ProofFileAssumption, LenProperties DEF IsLog
<1>2. id = Len(ClausesOf(l))
  BY Zenon DEF Ids, ClausesOf
<1>3. id \in Nat
  <2>1. n \in 0 .. Len(l)
    BY <1>1
  <2>2. QED
    BY <1>1, <2>1, ClausesAre
<1>4. e \in Entries
  BY <1>2, <1>3, EntriesAre
<1>5. m \in Seq(Entries) /\ Len(m) = n + 1 /\ m[n + 1] = e /\ \A i \in 1 .. n : m[i] = l[i]
  BY <1>1, <1>4, AppendProperties
<1> HIDE DEF m, id, n
<1>6. /\ ClausesUpTo(m)[0] = <<>> /\ LogBytes(m)[0] = <<>>
      /\ \A k \in 1 .. n + 1 :
           /\ ClausesUpTo(m)[k] = IF IsClause(m[k]) THEN Append(ClausesUpTo(m)[k - 1], m[k])
                                  ELSE ClausesUpTo(m)[k - 1]
           /\ LogBytes(m)[k] = LogBytes(m)[k - 1] \o EntryBytes(m[k], Len(ClausesUpTo(m)[k - 1]))
  <2>1. Len(m) \in Nat /\ Len(m) = n + 1
    BY <1>1, <1>5
  <2>2. QED
    BY <2>1, ClausesSteps, LogSteps, Zenon
<1>7. /\ ClausesUpTo(l)[0] = <<>> /\ LogBytes(l)[0] = <<>>
      /\ \A k \in 1 .. n :
           /\ ClausesUpTo(l)[k] = IF IsClause(l[k]) THEN Append(ClausesUpTo(l)[k - 1], l[k])
                                  ELSE ClausesUpTo(l)[k - 1]
           /\ LogBytes(l)[k] = LogBytes(l)[k - 1] \o EntryBytes(l[k], Len(ClausesUpTo(l)[k - 1]))
  <2>1. Len(l) \in Nat /\ Len(l) = n
    BY <1>1 DEF n
  <2>2. QED
    BY <2>1, ClausesSteps, LogSteps, Zenon
<1>8. 0 \in S
  BY <1>6, <1>7
<1>9. ASSUME NEW k \in Nat, k \in S PROVE k + 1 \in S
  <2>1. SUFFICES ASSUME k + 1 <= n
                 PROVE  /\ ClausesUpTo(m)[k + 1] = ClausesUpTo(l)[k + 1]
                        /\ LogBytes(m)[k + 1] = LogBytes(l)[k + 1]
    OBVIOUS
  <2>2. k + 1 \in 1 .. n /\ k + 1 \in 1 .. n + 1 /\ (k + 1) - 1 = k /\ k <= n
    BY <1>1, <2>1
  <2>3. /\ ClausesUpTo(m)[k] = ClausesUpTo(l)[k]
        /\ LogBytes(m)[k] = LogBytes(l)[k]
    BY <1>9, <2>2
  <2>4. m[k + 1] = l[k + 1]
    BY <1>5, <2>2
  <2>5. /\ ClausesUpTo(m)[k + 1] = IF IsClause(m[k + 1]) THEN Append(ClausesUpTo(m)[k], m[k + 1])
                                   ELSE ClausesUpTo(m)[k]
        /\ LogBytes(m)[k + 1] = LogBytes(m)[k] \o EntryBytes(m[k + 1], Len(ClausesUpTo(m)[k]))
    BY <1>6, <2>2
  <2>6. /\ ClausesUpTo(l)[k + 1] = IF IsClause(l[k + 1]) THEN Append(ClausesUpTo(l)[k], l[k + 1])
                                   ELSE ClausesUpTo(l)[k]
        /\ LogBytes(l)[k + 1] = LogBytes(l)[k] \o EntryBytes(l[k + 1], Len(ClausesUpTo(l)[k]))
    BY <1>7, <2>2
  <2>7. ClausesUpTo(m)[k + 1] = ClausesUpTo(l)[k + 1]
    BY <2>3, <2>4, <2>5, <2>6
  <2>8. LogBytes(m)[k + 1] = LogBytes(l)[k + 1]
    BY <2>3, <2>4, <2>5, <2>6
  <2>9. QED
    BY <2>7, <2>8
<1>10. \A k \in Nat : k \in S
  <2> HIDE DEF S
  <2>1. QED
    BY <1>8, <1>9, AllNumbers
<1>11. \A k \in 0 .. n : Ids(m, k) = Ids(l, k) /\ LogBytes(m)[k] = LogBytes(l)[k]
  BY <1>1, <1>10 DEF Ids
<1>12. IsLog(m)
  <2>1. ASSUME NEW k \in 1 .. n + 1 PROVE IsEntry(m[k], Ids(m, k - 1))
    <3>1. k - 1 \in 0 .. n
      BY <1>1
    <3>2. Ids(m, k - 1) = Ids(l, k - 1)
      BY <1>11, <3>1
    <3>3. CASE k \in 1 .. n
      <4>1. IsEntry(l[k], Ids(l, k - 1)) /\ m[k] = l[k]
        BY <1>5, <3>3 DEF IsLog, n
      <4>2. QED
        BY <3>2, <4>1
    <3>4. CASE k = n + 1
      <4>1. k - 1 = n /\ m[k] = e
        BY <1>1, <1>5, <3>4
      <4>2. QED
        BY <1>2, <3>2, <4>1 DEF id
    <3>5. QED
      BY <1>1, <3>3, <3>4
  <2>2. QED
    BY <1>1, <1>5, <2>1 DEF IsLog
<1>13. BytesOf(m) = BytesOf(l) \o EntryBytes(e, id)
  <2>1. n + 1 \in 1 .. n + 1 /\ (n + 1) - 1 = n /\ n \in 0 .. n
    BY <1>1
  <2>2. LogBytes(m)[n + 1] = LogBytes(m)[n] \o EntryBytes(m[n + 1], Ids(m, n))
    BY <1>6, <2>1, Zenon DEF Ids
  <2>3. LogBytes(m)[n + 1] = LogBytes(l)[n] \o EntryBytes(e, id)
    BY <1>5, <1>11, <2>1, <2>2 DEF id
  <2>4. BytesOf(m) = LogBytes(m)[n + 1] /\ BytesOf(l) = LogBytes(l)[n]
    BY <1>5, Zenon DEF BytesOf, n
  <2>5. QED
    BY <2>3, <2>4
<1>14. QED
  BY <1>2, <1>12, <1>13 DEF m

(* The last clause: traverse has all the clauses there, and not before.     *)
LEMMA LastClause ==
  ASSUME NEW l \in Seq(Entries)
  PROVE  \E x \in 0 .. Len(l) :
            /\ UpToLastClause(l) = SubSeq(l, 1, x) /\ Ids(l, x) = Ids(l, Len(l))
            /\ \A j \in 0 .. x - 1 : Ids(l, j) < Ids(l, Len(l))
<1> DEFINE n == Len(l)
           Last(x, k) == /\ x = 0 \/ IsClause(l[x])
                         /\ \A i \in 1 .. k : IsClause(l[i]) => i <= x
                         /\ Ids(l, x) = Ids(l, k)
                         /\ \A j \in 0 .. x - 1 : Ids(l, j) < Ids(l, k)
                         /\ \A j \in 0 .. k : Ids(l, j) <= Ids(l, k)
           S == {k \in Nat : k <= n => \E x \in 0 .. k : Last(x, k)}
<1>1. n \in Nat /\ DOMAIN l = 1 .. n
  BY LenProperties
<1>2. /\ \A k \in 0 .. n : Ids(l, k) \in Nat
      /\ \A k \in 1 .. n : Ids(l, k) = IF IsClause(l[k]) THEN Ids(l, k - 1) + 1 ELSE Ids(l, k - 1)
  BY ClausesAre
<1> HIDE DEF n
<1>3. 0 \in S
  <2>1. Ids(l, 0) \in Nat
    BY <1>1, <1>2
  <2>2. Last(0, 0)
    BY <2>1
  <2> HIDE DEF Last
  <2>3. QED
    BY <2>2
<1>4. ASSUME NEW k \in Nat, k \in S PROVE k + 1 \in S
  <2>1. SUFFICES ASSUME k + 1 <= n PROVE \E x \in 0 .. k + 1 : Last(x, k + 1)
    OBVIOUS
  <2>2. k + 1 \in 1 .. n /\ (k + 1) - 1 = k /\ k <= n
    BY <1>1, <2>1
  <2>3. PICK x \in 0 .. k : Last(x, k)
    BY <1>4, <2>2
  <2>4. \A j \in 0 .. k + 1 : Ids(l, j) \in Nat
    BY <1>1, <1>2, <2>1
  <2>5. \A j \in 0 .. k : Ids(l, j) <= Ids(l, k)
    BY <2>3
  <2>6. CASE IsClause(l[k + 1])
    <3>1. Ids(l, k + 1) = Ids(l, k) + 1
      BY <1>2, <2>2, <2>6
    <3>2. \A j \in 0 .. k : Ids(l, j) < Ids(l, k + 1)
      BY <2>4, <2>5, <3>1
    <3>3. \A j \in 0 .. k + 1 : Ids(l, j) <= Ids(l, k + 1)
      BY <2>4, <3>2
    <3>4. Last(k + 1, k + 1)
      BY <2>6, <3>2, <3>3
    <3> HIDE DEF Last
    <3>5. QED
      BY <3>4
  <2>7. CASE ~IsClause(l[k + 1])
    <3>1. Ids(l, k + 1) = Ids(l, k)
      BY <1>2, <2>2, <2>7
    <3>2. \A j \in 0 .. k + 1 : Ids(l, j) <= Ids(l, k + 1)
      BY <2>4, <2>5, <3>1
    <3>3. \A i \in 1 .. k + 1 : IsClause(l[i]) => i <= x
      BY <2>3, <2>7
    <3>4. Last(x, k + 1)
      BY <2>3, <3>1, <3>2, <3>3
    <3> HIDE DEF Last
    <3>5. QED
      BY <3>4
  <2>8. QED
    BY <2>6, <2>7
<1>5. \A k \in Nat : k \in S
  <2> HIDE DEF S
  <2>1. QED
    BY <1>3, <1>4, AllNumbers
<1>6. PICK x \in 0 .. n : Last(x, n)
  BY <1>1, <1>5
<1> DEFINE T == {0} \cup {i \in DOMAIN l : IsClause(l[i])}
<1>7. x \in T /\ \A y \in T : x >= y
  BY <1>1, <1>6
<1>8. T \subseteq Int
  BY <1>1
<1> HIDE DEF T
<1>9. Max(T) = x
  <2>1. Max(T) \in T /\ \A y \in T : Max(T) >= y
    BY <1>7 DEF Max
  <2>2. Max(T) >= x /\ x >= Max(T) /\ Max(T) \in Int /\ x \in Int
    BY <1>7, <1>8, <2>1
  <2>3. QED
    BY <2>2
<1>10. UpToLastClause(l) = SubSeq(l, 1, x)
  BY <1>9, Zenon DEF UpToLastClause, T
<1>11. QED
  BY <1>6, <1>10 DEF n

(* save copies every byte.                                                  *)
LEMMA CopyReads ==
  ASSUME NEW f, NEW d, NEW o, Reads(f, d, 0, o)
  PROVE  Copied(f).bytes = d /\ \E p, q : Reads(Copied(f).next.f, d, p, q)
<1> DEFINE m == Len(d)
           c == CopyRounds(f)
           At(k) == /\ c[k].bytes = SubSeq(d, 1, k)
                    /\ k < m => /\ c[k].next.byte = d[k + 1]
                                /\ Reads(c[k].next.f, d, k + 1, o + k + 1)
                    /\ k = m => Reads(c[k].next.f, d, k, o + k)
           S == {k \in Nat : k <= m => At(k)}
<1>1. d \in Bytes /\ o \in Nat /\ m \in Nat
  <2>1. d \in Bytes /\ o \in Nat
    BY GetCharIs
  <2>2. QED
    BY <2>1 DEF Bytes
<1>2. f.disk = d
  BY DEF Reads
<1>3. /\ c[0] = [next |-> GetChar(f), bytes |-> <<>>]
      /\ \A k \in 1 .. m : c[k] = CopyRound(c[k - 1])
  BY <1>1, <1>2, CopySteps
<1> HIDE DEF c, m
<1>4. ASSUME NEW k \in Nat, k <= m, NEW g, Reads(g, d, k, o + k)
      PROVE  /\ k < m => /\ GetChar(g).byte = d[k + 1]
                         /\ Reads(GetChar(g).f, d, k + 1, o + k + 1)
             /\ k = m => Reads(GetChar(g).f, d, k, o + k)
  <2>1. /\ k < Len(d) => /\ GetChar(g).byte = d[k + 1]
                         /\ Reads(GetChar(g).f, d, k + 1, (o + k) + 1)
        /\ k = Len(d) => Reads(GetChar(g).f, d, k, o + k)
    BY <1>4, GetCharIs
  <2>2. QED
    BY <1>1, <2>1 DEF m
<1>5. At(0)
  <2>1. Reads(f, d, 0, o + 0) /\ 0 <= m
    BY <1>1
  <2>2. /\ 0 < m => /\ GetChar(f).byte = d[0 + 1]
                    /\ Reads(GetChar(f).f, d, 0 + 1, o + 0 + 1)
        /\ 0 = m => Reads(GetChar(f).f, d, 0, o + 0)
    BY <1>4, <2>1
  <2>3. c[0].next = GetChar(f) /\ c[0].bytes = <<>>
    BY <1>3
  <2>4. SubSeq(d, 1, 0) = <<>>
    BY SubSeqEmpty
  <2>5. QED
    BY <2>2, <2>3, <2>4
<1> HIDE DEF At
<1>6. ASSUME NEW k \in Nat, k \in S PROVE k + 1 \in S
  <2>1. SUFFICES ASSUME k + 1 <= m PROVE At(k + 1)
    OBVIOUS
  <2>2. k + 1 \in 1 .. m /\ (k + 1) - 1 = k /\ k < m
    BY <1>1, <2>1
  <2>3. /\ c[k].bytes = SubSeq(d, 1, k) /\ c[k].next.byte = d[k + 1]
        /\ Reads(c[k].next.f, d, k + 1, o + k + 1)
    BY <1>1, <1>6, <2>2 DEF At
  <2>4. d[k + 1] \in Nat /\ d[k + 1] # Eof
    BY <1>1, <2>2 DEF Bytes, Eof, m
  <2> DEFINE g == c[k].next.f
  <2>5. c[k + 1] = [next |-> GetChar(g), bytes |-> Append(c[k].bytes, c[k].next.byte)]
    <3>1. c[k + 1] = CopyRound(c[k])
      BY <1>3, <2>2
    <3>2. QED
      BY <2>3, <2>4, <3>1, Zenon DEF CopyRound
  <2>6. Reads(g, d, k + 1, o + (k + 1))
    BY <1>1, <2>3
  <2> HIDE DEF g
  <2>7. /\ k + 1 < m => /\ GetChar(g).byte = d[(k + 1) + 1]
                        /\ Reads(GetChar(g).f, d, (k + 1) + 1, o + (k + 1) + 1)
        /\ k + 1 = m => Reads(GetChar(g).f, d, k + 1, o + (k + 1))
    BY <1>4, <2>1, <2>6
  <2>8. c[k + 1].bytes = SubSeq(d, 1, k + 1)
    <3>1. SubSeq(d, 1, k + 1) = SubSeq(d, 1, k) \o <<d[k + 1]>>
      <4>1. d \in Seq(Nat) /\ k + 1 \in 1 .. Len(d) /\ 1 \in 1 .. Len(d) /\ k + 1 \in 1 .. Len(d)
            /\ 1 <= k + 1 /\ (k + 1) - 1 = k
        BY <1>1, <2>2 DEF Bytes, m
      <4>2. k + 1 \in 1 .. Len(d)
        BY <4>1
      <4>3. QED
        BY <4>1, <4>2, SubSeqRecursiveSecond
    <3>2. SubSeq(d, 1, k) \in Seq(Nat)
      BY <1>1, <2>2 DEF Bytes, m
    <3>3. Append(SubSeq(d, 1, k), d[k + 1]) = SubSeq(d, 1, k) \o <<d[k + 1]>>
      BY <2>4, <3>2, AppendIsConcat
    <3>4. c[k + 1].bytes = Append(SubSeq(d, 1, k), d[k + 1])
      BY <2>3, <2>5
    <3>5. QED
      BY <3>1, <3>3, <3>4
  <2>9. c[k + 1].next = GetChar(g)
    BY <2>5
  <2>10. QED
    BY <2>7, <2>8, <2>9 DEF At
<1>7. \A k \in Nat : k \in S
  <2>1. 0 \in S
    BY <1>5
  <2> HIDE DEF S
  <2>2. QED
    BY <1>6, <2>1, AllNumbers
<1>8. At(m)
  BY <1>1, <1>7
<1>9. c[m].bytes = SubSeq(d, 1, m) /\ Reads(c[m].next.f, d, m, o + m)
  BY <1>1, <1>8 DEF At
<1>10. SubSeq(d, 1, m) = d
  BY <1>1, SubSeqFull DEF m, Bytes
<1>11. Copied(f) = c[m]
  BY <1>2, Zenon DEF Copied, c, m
<1>12. QED
  BY <1>9, <1>10, <1>11

(* traverse reads the log up to its last clause.                            *)
LEMMA TraverseReads ==
  ASSUME NEW l, IsLog(l), NEW f, NEW o, Reads(f, BytesOf(l), 0, o)
  PROVE  LET t == Traversed(f, Len(ClausesOf(l)) - 1)
         IN  /\ t.entries = UpToLastClause(l)
             /\ \E p, q : Reads(t.f, BytesOf(l), p, q)
<1> DEFINE n == Len(l)
           d == BytesOf(l)
           m == Len(d)
           c == LogBytes(l)
           goal == Len(ClausesOf(l)) - 1
           t == TraverseRounds(f, goal)
           At(j, y) == /\ y.entries = SubSeq(l, 1, j) /\ y.id = Ids(l, j)
                       /\ Reads(y.f, d, Len(c[j]), o + Len(c[j]))
<1>1. l \in Seq(Entries) /\ n \in Nat /\ n <= MaxEntries /\ \A i \in 1 .. n : l[i] \in Entries
  BY LenProperties, ElementOfSeq DEF IsLog
<1>2. MaxEntries \in Nat
  BY ProofFileAssumption
<1>3. d \in Bytes /\ o \in Nat /\ m \in Nat
  <2>1. d \in Bytes /\ o \in Nat
    BY GetCharIs
  <2>2. QED
    BY <2>1 DEF Bytes
<1>4. f.disk = d
  BY DEF Reads
<1>5. PICK x \in 0 .. n :
            /\ UpToLastClause(l) = SubSeq(l, 1, x) /\ Ids(l, x) = Ids(l, n)
            /\ \A j \in 0 .. x - 1 : Ids(l, j) < Ids(l, n)
  BY <1>1, LastClause
<1>6. /\ \A k \in 0 .. n : Ids(l, k) \in Nat /\ Ids(l, k) <= k
      /\ Ids(l, 0) = 0
      /\ \A k \in 1 .. n : Ids(l, k) = IF IsClause(l[k]) THEN Ids(l, k - 1) + 1 ELSE Ids(l, k - 1)
  BY <1>1, ClausesAre
<1>7. goal = Ids(l, n) - 1
  BY Zenon DEF Ids, ClausesOf
<1>8. d = c[n]
  BY Zenon DEF BytesOf
<1>9. /\ \A k \in 0 .. n : Len(c[k]) \in Nat /\ Len(c[k]) >= k
      /\ Len(c[0]) = 0
      /\ \A k \in 1 .. n :
           LET e == EntryBytes(l[k], Ids(l, k - 1))
           IN  Len(c[k]) = Len(c[k - 1]) + Len(e) /\ Held(d, Len(c[k - 1]), e)
  BY <1>8, LogBytesAre
<1> HIDE DEF n, d, m, c, goal
<1>10. /\ t[0] = [f |-> f, id |-> 0, entries |-> <<>>]
       /\ \A k \in 1 .. m : t[k] = TraverseRound(t[k - 1], goal)
  BY <1>3, <1>4, TraverseSteps DEF m
<1> HIDE DEF t
<1> DEFINE Q(k) == \E j \in 0 .. x : At(j, t[k]) /\ (j = k \/ j = x)
           S == {k \in Nat : k <= m => Q(k)}
<1>11. At(0, t[0])
  <2>1. t[0].f = f /\ t[0].id = 0 /\ t[0].entries = <<>>
    BY <1>10
  <2>2. SubSeq(l, 1, 0) = <<>>
    BY SubSeqEmpty
  <2>3. Reads(f, d, Len(c[0]), o + Len(c[0]))
    <3>1. o + Len(c[0]) = o /\ Reads(f, d, 0, o)
      BY <1>3, <1>9 DEF d
    <3>2. QED
      BY <1>9, <3>1
  <2>4. QED
    BY <1>6, <2>1, <2>2, <2>3
\* One entry.
<1>12. ASSUME NEW j \in 0 .. x - 1, NEW y, At(j, y)
       PROVE  At(j + 1, TraverseRound(y, goal))
  <2> DEFINE id == Ids(l, j)
             e == l[j + 1]
             b == EntryBytes(e, id)
             p == Len(c[j])
             first == GetUInt(y.f)
             r == EntryRead(first, id)
  <2>1. /\ j \in Nat /\ j + 1 \in 1 .. n /\ (j + 1) - 1 = j /\ j \in 0 .. n /\ j + 1 \in 0 .. n
        /\ j < MaxEntries
    BY <1>1, <1>2
  <2>2. id \in Nat /\ id < MaxEntries /\ ~(id > goal)
    <3>1. id \in Nat /\ id <= j /\ Ids(l, n) \in Nat
      BY <1>1, <1>6, <2>1
    <3>2. id < Ids(l, n)
      BY <1>5
    <3>3. QED
      BY <1>2, <1>7, <2>1, <3>1, <3>2
  <2>3. IsEntry(e, id) /\ e \in Entries
    <3>1. IsEntry(l[j + 1], Ids(l, (j + 1) - 1))
      BY <2>1 DEF IsLog, n
    <3>2. QED
      BY <1>1, <2>1, <3>1
  <2>4. /\ y.entries = SubSeq(l, 1, j) /\ y.id = id /\ Reads(y.f, d, p, o + p)
    BY <1>12
  <2>5. Held(d, p, b) /\ Len(c[j + 1]) = p + Len(b) /\ p \in Nat
    BY <1>9, <2>1
  <2>6. Len(b) \in Nat
    BY <2>2, <2>3, EntryBytesAre
  <2> HIDE DEF e, id, p
  <2>7. ReadFor(r.entry, e) /\ Reads(r.f, d, p + Len(b), (o + p) + Len(b))
    BY <2>2, <2>3, <2>4, <2>5, EntryReads
  <2> HIDE DEF b, first, r
  <2> DEFINE z == TraverseRound(y, goal)
  <2>8. z = EntryThen(r, id, y.entries)
    BY <2>2, <2>4, Zenon DEF TraverseRound, r, first
  <2> HIDE DEF z
  <2>9. /\ z.f = r.f /\ z.entries = Append(y.entries, Announced(r.entry))
        /\ z.id = IF NoNewClause(r.entry) THEN id ELSE id + 1
    BY <2>8 DEF EntryThen
  <2>10. z.id = Ids(l, j + 1)
    <3>1. Ids(l, j + 1) = IF IsClause(e) THEN id + 1 ELSE id
      BY <1>6, <2>1 DEF e, id
    <3>2. NoNewClause(r.entry) <=> ~IsClause(e)
      BY <2>7 DEF ReadFor
    <3>3. QED
      BY <2>9, <3>1, <3>2
  <2>11. z.entries = SubSeq(l, 1, j + 1)
    <3>1. SubSeq(l, 1, j + 1) = SubSeq(l, 1, j) \o <<e>>
      <4>1. j + 1 \in 1 .. Len(l) /\ 1 \in 1 .. Len(l) /\ j + 1 \in 1 .. Len(l)
        BY <1>1, <2>1 DEF n
      <4>2. SubSeq(l, 1, j + 1) = SubSeq(l, 1, (j + 1) - 1) \o <<l[j + 1]>>
        BY <1>1, <2>1, <4>1, SubSeqRecursiveSecond
      <4>3. QED
        BY <2>1, <4>2 DEF e
    <3>2. SubSeq(l, 1, j) \in Seq(Entries)
      <4>1. \A i \in 1 .. j : l[i] \in Entries
        BY <1>1, <2>1
      <4>2. 1 \in Int /\ j \in Int
        BY <2>1
      <4>3. QED
        BY <4>1, <4>2, SubSeqProperties
    <3>3. Append(SubSeq(l, 1, j), e) = SubSeq(l, 1, j) \o <<e>>
      BY <2>3, <3>2, AppendIsConcat
    <3>4. Announced(r.entry) = e
      BY <2>7 DEF ReadFor
    <3>5. QED
      BY <2>4, <2>9, <3>1, <3>3, <3>4
  <2>12. Reads(z.f, d, Len(c[j + 1]), o + Len(c[j + 1]))
    <3>1. (o + p) + Len(b) = o + Len(c[j + 1])
      BY <1>3, <2>5, <2>6
    <3>2. QED
      BY <2>5, <2>7, <2>9, <3>1
  <2>13. QED
    BY <2>10, <2>11, <2>12 DEF z
\* Nothing after the last clause.
<1>13. ASSUME NEW y, At(x, y)
       PROVE  TraverseRound(y, goal) = y
  <2>1. y.id = Ids(l, n) /\ Ids(l, n) \in Nat
    BY <1>1, <1>5, <1>6, <1>13
  <2>2. y.id > goal
    BY <1>7, <2>1
  <2>3. QED
    BY <2>2 DEF TraverseRound
<1> HIDE DEF At
<1>14. 0 \in S
  <2>1. 0 \in 0 .. x
    OBVIOUS
  <2>2. QED
    BY <1>11, <2>1
<1>15. ASSUME NEW k \in Nat, k \in S PROVE k + 1 \in S
  <2>1. SUFFICES ASSUME k + 1 <= m PROVE Q(k + 1)
    OBVIOUS
  <2>2. k + 1 \in 1 .. m /\ (k + 1) - 1 = k /\ k <= m
    BY <1>3, <2>1
  <2>3. PICK j \in 0 .. x : At(j, t[k]) /\ (j = k \/ j = x)
    BY <1>15, <2>2
  <2>4. t[k + 1] = TraverseRound(t[k], goal)
    BY <1>10, <2>2
  <2>5. CASE j = x
    <3>1. t[k + 1] = t[k]
      BY <1>13, <2>3, <2>4, <2>5
    <3>2. QED
      BY <2>3, <2>5, <3>1
  <2>6. CASE j # x
    <3>1. j = k /\ j \in 0 .. x - 1 /\ j + 1 \in 0 .. x
      BY <2>3, <2>6
    <3>2. At(j + 1, t[k + 1])
      BY <1>12, <2>3, <2>4, <3>1
    <3>3. QED
      BY <3>1, <3>2
  <2>7. QED
    BY <2>5, <2>6
<1>16. \A k \in Nat : k \in S
  <2> HIDE DEF S
  <2>1. QED
    BY <1>14, <1>15, AllNumbers
<1>17. At(x, t[m])
  <2>1. PICK j \in 0 .. x : At(j, t[m]) /\ (j = m \/ j = x)
    BY <1>3, <1>16
  <2>2. m >= n
    <3>1. n \in 0 .. n
      BY <1>1
    <3>2. QED
      BY <1>8, <1>9, <3>1 DEF m
  <2>3. j = x
    BY <1>1, <1>3, <2>1, <2>2
  <2>4. QED
    BY <2>1, <2>3
<1>18. t[m].entries = UpToLastClause(l) /\ Reads(t[m].f, d, Len(c[x]), o + Len(c[x]))
  BY <1>5, <1>17 DEF At
<1>19. Traversed(f, goal) = t[m]
  BY <1>4, Zenon DEF Traversed, t, m
<1>20. QED
  BY <1>18, <1>19 DEF d, goal

-----------------------------------------------------------------------------
(***************************************************************************)
(* The invariant: what was logged is a log; the file is in mode WRITE with *)
(* the bytes of the log, or in mode READ after a save that failed and      *)
(* still holds them, or it is damaged; and a saved copy holds the log of   *)
(* the time it was saved.                                                  *)
(***************************************************************************)
FileHolds ==
    /\ IsFile(fp)
    /\ fp.mode = "WRITE" /\ ~failed => Writes(fp, BytesOf(log))
    /\ fp.mode = "READ" => failed /\ \E p, o : Reads(fp, BytesOf(log), p, o)
CopyHolds == saved.there => IsLog(saved.log) /\ saved.bytes = BytesOf(saved.log)
LogInv == IsLog(log) /\ FileHolds /\ CopyHolds

(* The bytes of a log are bytes.                                            *)
LEMMA BytesOfLog ==
  ASSUME NEW l, IsLog(l)
  PROVE  BytesOf(l) \in Bytes
<1> DEFINE n == Len(l)
<1>1. n \in 0 .. n
  <2>1. n \in Nat
    BY LenProperties DEF IsLog
  <2> HIDE DEF n
  <2>2. QED
    BY <2>1
<1>2. LogBytes(l)[n] \in Bytes
  BY <1>1, LogBytesAre
<1>3. QED
  BY <1>2, Zenon DEF BytesOf

(* The operations read a file that is not damaged from its start.           *)
LEMMA AtStartOfLog ==
  ASSUME LogInv, ~Damaged
  PROVE  Reads(AtStart(fp), BytesOf(log), 0, AtStart(fp).overall)
<1>1. fp.mode \in {"READ", "WRITE"} /\ IsFile(fp)
  BY FieldsOf DEF LogInv, FileHolds
<1>2. CASE fp.mode = "WRITE"
  <2>1. Writes(fp, BytesOf(log))
    BY <1>2, Zenon DEF LogInv, FileHolds, Damaged
  <2> DEFINE d == BytesOf(log)
  <2>2. Writes(fp, d) \/ (IsFile(fp) /\ fp.mode = "READ" /\ fp.disk = d)
    BY <2>1
  <2> HIDE DEF d
  <2>3. Reads(AtStart(fp), d, 0, AtStart(fp).overall)
    BY <2>2, AtStartReads
  <2>4. QED
    BY <2>3 DEF d
<1>3. CASE fp.mode = "READ"
  <2>1. PICK p, o : Reads(fp, BytesOf(log), p, o)
    BY <1>3 DEF LogInv, FileHolds
  <2>2. fp.disk = BytesOf(log)
    BY <2>1 DEF Reads
  <2>3. QED
    BY <1>1, <1>3, <2>2, AtStartReads
<1>4. QED
  BY <1>1, <1>2, <1>3

\* A new proof has an empty file for an empty log.
LEMMA StartsEmpty == Init => LogInv
<1>1. SUFFICES ASSUME Init PROVE LogInv
  OBVIOUS
<1>2. log = <<>> /\ fp = NewFile /\ ~saved.there
  <2>1. saved = NoCopy /\ log = <<>> /\ fp = NewFile
    BY <1>1 DEF Init
  <2>2. NoCopy.there = FALSE
    BY Zenon DEF NoCopy
  <2>3. QED
    BY <2>1, <2>2
<1>3. MaxEntries \in Nat /\ BufSize \in Nat
  BY ProofFileAssumption
<1>4. IsLog(<<>>)
  <2>1. <<>> \in Seq(Entries) /\ Len(<<>>) = 0
    BY EmptySeq
  <2>2. QED
    BY <1>3, <2>1 DEF IsLog
<1>5. BytesOf(<<>>) = <<>>
  <2>1. LogBytes(<<>>)[0] = <<>>
    <3>1. Len(<<>>) \in Nat
      BY EmptySeq
    <3>2. QED
      BY <3>1, LogSteps
  <2>2. Len(<<>>) = 0
    OBVIOUS
  <2>3. QED
    BY <2>1, <2>2, Zenon DEF BytesOf
<1>6. IsFile(fp) /\ fp.mode = "WRITE" /\ fp.off = 0 /\ fp.disk = <<>> /\ fp.buf = <<>>
  <2>1. PICK e : e = <<>>
    OBVIOUS
  <2>2. fp = [disk |-> e, off |-> 0, mode |-> "WRITE", buf |-> e, pos |-> 0, overall |-> 0]
    BY <1>2, <2>1, Zenon DEF NewFile, Opened
  <2>3. e \in Bytes /\ Len(e) = 0
    BY <2>1, NoBytes
  <2>4. fp \in Files /\ fp.off <= Len(fp.disk)
    BY <2>2, <2>3 DEF Files
  <2>5. QED
    BY <2>1, <2>2, <2>4 DEF IsFile
<1>7. Writes(fp, <<>>)
  <2>1. <<>> \o <<>> = <<>>
    BY NoBytes, ConcatEmptySeq DEF Bytes
  <2>2. Len(fp.disk) = 0 /\ Len(fp.buf) = 0
    BY <1>6, NoBytes
  <2>3. Len(fp.buf) <= BufSize /\ fp.off = Len(fp.disk)
    BY <1>3, <1>6, <2>2
  <2>4. QED
    BY <1>6, <2>1, <2>3, Zenon DEF Writes
<1>8. QED
  BY <1>2, <1>4, <1>5, <1>6, <1>7 DEF LogInv, FileHolds, CopyHolds

(* Logging an entry about the clauses there are.                            *)
LEMMA LoggedKeeps ==
  ASSUME LogInv, NEW e, IsEntry(e, IdCounter), Logged(e)
  PROVE  LogInv'
<1> DEFINE id == IdCounter
           b == EntryBytes(e, id)
<1>1. /\ Len(log) < MaxEntries /\ log' = Append(log, e) /\ fp' = Write(fp, e, id)
      /\ saved' = saved /\ failed' = failed
  BY DEF Logged
<1>2. IsLog(log) /\ id = Len(ClausesOf(log))
  BY DEF LogInv, IdCounter
<1>3. IsLog(log') /\ BytesOf(log') = BytesOf(log) \o b
  BY <1>1, <1>2, LogAppends
<1>4. id \in Nat /\ id < MaxEntries
  <2> DEFINE n == Len(log)
  <2>1. n \in Nat /\ n \in 0 .. n /\ log \in Seq(Entries)
    BY <1>2, LenProperties DEF IsLog
  <2>2. Ids(log, n) \in Nat /\ Ids(log, n) <= n
    BY <2>1, ClausesAre
  <2>3. id = Ids(log, n)
    BY <1>2, Zenon DEF Ids, ClausesOf
  <2>4. QED
    BY <1>1, <2>1, <2>2, <2>3, ProofFileAssumption
<1>5. b \in Bytes /\ Len(b) > 0
  BY <1>4, EntryBytesAre
<1>6. IsFile(fp) /\ (fp.mode = "WRITE" \/ \E d, p, o : Reads(fp, d, p, o))
  BY FieldsOf DEF LogInv, FileHolds
<1> HIDE DEF id
<1>7. /\ IsFile(fp') /\ fp'.mode = "WRITE"
      /\ \A d \in Bytes : Writes(fp, d) => Writes(fp', d \o b)
  BY <1>1, <1>5, <1>6, WriteIs
<1>8. BytesOf(log) \in Bytes
  BY <1>2, BytesOfLog
<1>9. ~failed' => Writes(fp', BytesOf(log'))
  <2>1. SUFFICES ASSUME ~failed' PROVE Writes(fp', BytesOf(log'))
    OBVIOUS
  <2>2. ~failed
    BY <1>1, <2>1, Zenon
  <2>3. Writes(fp, BytesOf(log))
    <3>1. fp.mode = "WRITE"
      BY <1>6, <2>2, FieldsOf DEF LogInv, FileHolds
    <3>2. QED
      BY <2>2, <3>1, Zenon DEF LogInv, FileHolds
  <2>4. QED
    BY <1>3, <1>7, <1>8, <2>3
<1>10. FileHolds'
  BY <1>7, <1>9, Zenon DEF FileHolds
<1>11. CopyHolds'
  BY <1>1, Zenon DEF LogInv, CopyHolds
<1>12. QED
  BY <1>3, <1>10, <1>11 DEF LogInv

(* The writes of a file that holds the log again.                           *)
LEMMA RestoredKeeps ==
  ASSUME LogInv, NEW f, NEW p, NEW o, Reads(f, BytesOf(log), p, o),
         fp' = Restored(f), UNCHANGED log
  PROVE  FileHolds'
<1>1. Writes(fp', BytesOf(log'))
  BY RestoredWrites
<1>2. IsFile(fp') /\ fp'.mode = "WRITE"
  BY <1>1 DEF Writes
<1>3. QED
  BY <1>1, <1>2 DEF FileHolds

(* save: a copy of the log, or a file left in mode READ.                    *)
LEMMA SaveKeeps ==
  ASSUME LogInv, Save
  PROVE  LogInv'
<1>1. ~Damaged /\ log' = log
  BY DEF Save
<1> DEFINE f == AtStart(fp)
           c == Copied(f)
<1>2. Reads(f, BytesOf(log), 0, f.overall)
  BY <1>1, AtStartOfLog
<1> HIDE DEF f
<1>3. IsLog(log')
  BY <1>1 DEF LogInv
<1>4. CASE /\ saved' = [there |-> TRUE, bytes |-> c.bytes, log |-> log]
           /\ fp' = Restored(c.next.f)
  <2>1. c.bytes = BytesOf(log)
    BY <1>2, CopyReads
  <2>2. PICK p, o : Reads(c.next.f, BytesOf(log), p, o)
    BY <1>2, CopyReads
  <2> HIDE DEF c
  <2>3. FileHolds'
    BY <1>1, <1>4, <2>2, RestoredKeeps
  <2>4. saved'.log = log /\ saved'.bytes = BytesOf(log)
    BY <1>4, <2>1
  <2>5. CopyHolds'
    BY <1>1, <1>3, <2>4 DEF CopyHolds
  <2>6. QED
    BY <1>3, <2>3, <2>5 DEF LogInv
<1>5. CASE fp' = f /\ failed' = TRUE /\ saved' = saved
  <2>1. Reads(fp', BytesOf(log'), 0, f.overall)
    BY <1>1, <1>2, <1>5
  <2>2. IsFile(fp') /\ fp'.mode = "READ"
    BY <2>1 DEF Reads
  <2>3. FileHolds'
    BY <1>5, <2>1, <2>2 DEF FileHolds
  <2>4. CopyHolds'
    BY <1>5, Zenon DEF LogInv, CopyHolds
  <2>5. QED
    BY <1>3, <2>3, <2>4 DEF LogInv
<1>6. QED
  BY <1>4, <1>5, Zenon DEF Save, f, c

(* traverse: the log is read and the file restored.                         *)
LEMMA TraverseKeeps ==
  ASSUME LogInv, Traverse
  PROVE  LogInv' /\ answer'.entries = UpToLastClause(log) /\ log' = log
<1> DEFINE f == AtStart(fp)
           t == Traversed(f, IdCounter - 1)
<1>1. ~Damaged /\ log' = log /\ saved' = saved /\ fp' = Restored(t.f)
      /\ answer' = [by |-> "traverse", entries |-> t.entries]
  BY Zenon DEF Traverse
<1>2. Reads(f, BytesOf(log), 0, f.overall)
  BY <1>1, AtStartOfLog
<1> HIDE DEF f
<1>3. IsLog(log)
  BY DEF LogInv
<1>4. /\ t.entries = UpToLastClause(log)
      /\ \E p, q : Reads(t.f, BytesOf(log), p, q)
  <2> DEFINE y == Traversed(f, Len(ClausesOf(log)) - 1)
  <2>1. y.entries = UpToLastClause(log) /\ \E p, q : Reads(y.f, BytesOf(log), p, q)
    BY <1>2, <1>3, TraverseReads
  <2>2. t = y
    BY Zenon DEF IdCounter
  <2> HIDE DEF t, y
  <2>3. QED
    BY <2>1, <2>2
<1> HIDE DEF t
<1>5. PICK p, o : Reads(t.f, BytesOf(log), p, o)
  BY <1>4
<1>6. FileHolds'
  BY <1>1, <1>5, RestoredKeeps
<1>7. CopyHolds'
  BY <1>1, Zenon DEF LogInv, CopyHolds
<1>8. QED
  BY <1>1, <1>3, <1>4, <1>6, <1>7 DEF LogInv

(* Every step keeps the invariant.                                          *)
LEMMA StepKeeps ==
  ASSUME LogInv, [Next]_vars
  PROVE  LogInv'
<1> DEFINE id == IdCounter
<1>1. CASE AddRoot
  <2>1. PICK lits \in Clauses : Logged(Root(lits))
    BY <1>1 DEF AddRoot
  <2>2. IsEntry(Root(lits), IdCounter)
    BY DEF IsEntry
  <2>3. QED
    BY <2>1, <2>2, LoggedKeeps
<1>2. CASE EndChain
  <2>1. PICK start \in 0 .. IdCounter - 1, n \in 1 .. 2 :
               \E steps \in StepsOf(n) : Logged(Derived(start, steps))
    BY <1>2 DEF EndChain
  <2>2. PICK steps \in StepsOf(n) : Logged(Derived(start, steps))
    BY <2>1
  <2>3. steps \in StepsBelow(IdCounter) /\ Len(steps) > 0
    <3> DEFINE T == [var : Vars, id : 0 .. IdCounter - 1]
    <3>1. steps \in [1 .. n -> T] /\ n \in Nat /\ n > 0
      BY DEF StepsOf
    <3> HIDE DEF T
    <3>2. steps \in Seq(T) /\ Len(steps) > 0
      BY <3>1
    <3>3. QED
      BY <3>2 DEF T, StepsBelow
  <2>4. IsEntry(Derived(start, steps), IdCounter)
    BY <2>3 DEF IsEntry
  <2>5. QED
    BY <2>2, <2>4, LoggedKeeps
<1>3. CASE Deleted
  <2>1. PICK i \in 0 .. IdCounter - 1 : Logged(Deletion(i))
    BY <1>3 DEF Deleted
  <2>2. IsEntry(Deletion(i), IdCounter)
    BY DEF IsEntry
  <2>3. QED
    BY <2>1, <2>2, LoggedKeeps
<1>4. CASE Save
  BY <1>4, SaveKeeps
<1>5. CASE Traverse
  BY <1>5, TraverseKeeps
<1>6. CASE Retrieve
  <2>1. saved' = NoCopy /\ log' = log /\ fp' = fp /\ failed' = failed
    BY <1>6 DEF Retrieve
  <2>2. NoCopy.there = FALSE
    BY Zenon DEF NoCopy
  <2>3. CopyHolds'
    BY <2>1, <2>2 DEF CopyHolds
  <2>4. FileHolds'
    BY <2>1, Zenon DEF LogInv, FileHolds
  <2>5. QED
    BY <2>1, <2>3, <2>4 DEF LogInv
<1>7. CASE UNCHANGED vars
  <2>1. log' = log /\ fp' = fp /\ saved' = saved /\ failed' = failed
    BY <1>7 DEF vars
  <2>2. QED
    BY <2>1, Zenon DEF LogInv, FileHolds, CopyHolds
<1>8. QED
  BY <1>1, <1>2, <1>3, <1>4, <1>5, <1>6, <1>7 DEF Next

\* In every reachable state the file holds the log.
LEMMA AlwaysLog == Spec => []LogInv
<1>1. LogInv /\ [Next]_vars => LogInv'
  BY StepKeeps
<1>2. QED
  BY StartsEmpty, <1>1, PTL DEF Spec

(* Whatever is logged, saved, traversed and read back, in any order and     *)
(* with any buffer: the file and its buffer hold the bytes of the log.      *)
THEOREM FileIsLog == Spec => []LogOnDisk
<1>1. LogInv => LogOnDisk
  <2>1. SUFFICES ASSUME LogInv, ~Damaged PROVE Content = BytesOf(log)
    BY DEF LogOnDisk
  <2>2. fp.mode \in {"READ", "WRITE"} /\ IsFile(fp)
    BY <2>1, FieldsOf DEF LogInv, FileHolds
  <2>3. CASE fp.mode = "WRITE"
    <3>1. Writes(fp, BytesOf(log))
      BY <2>1, <2>3, Zenon DEF LogInv, FileHolds, Damaged
    <3>2. fp.off = Len(fp.disk) /\ fp.disk \o fp.buf = BytesOf(log)
      BY <3>1 DEF Writes
    <3>3. Flush(fp).disk = fp.disk \o fp.buf
      BY <2>2, <3>2, FlushIs
    <3>4. QED
      BY <2>3, <3>2, <3>3 DEF Content
  <2>4. CASE fp.mode = "READ"
    <3>1. PICK p, o : Reads(fp, BytesOf(log), p, o)
      BY <2>1, <2>4 DEF LogInv, FileHolds
    <3>2. QED
      BY <2>4, <3>1 DEF Content, Reads
  <2>5. QED
    BY <2>2, <2>3, <2>4
<1>2. QED
  BY <1>1, AlwaysLog, PTL

(* Traversing the proof gives every entry up to the last clause, as it was  *)
(* logged.                                                                  *)
THEOREM TraverseGivesLog == Spec => []TraverseIsLog
<1>1. Init => TraverseIsLog
  <2>1. Init => answer = None
    BY DEF Init
  <2>2. None.by = "nobody"
    BY Zenon DEF None
  <2>3. QED
    BY <2>1, <2>2 DEF TraverseIsLog
<1>2. ASSUME LogInv, TraverseIsLog, [Next]_vars
      PROVE  TraverseIsLog'
  <2>1. None.by = "nobody"
    BY Zenon DEF None
  <2>2. CASE answer' = None
    BY <2>1, <2>2 DEF TraverseIsLog
  <2>3. CASE Traverse
    BY <2>3, TraverseKeeps, <1>2 DEF TraverseIsLog
  <2>4. CASE Retrieve
    <3>1. answer'.by = "retrieveProof"
      BY <2>4 DEF Retrieve
    <3>2. QED
      BY <3>1 DEF TraverseIsLog
  <2>5. CASE UNCHANGED vars
    BY <1>2, <2>5 DEF TraverseIsLog, vars
  <2>6. QED
    BY <1>2, <2>2, <2>3, <2>4, <2>5 DEF Next, AddRoot, EndChain, Deleted, Logged, Save
<1>3. LogInv /\ TraverseIsLog /\ [Next]_vars => TraverseIsLog'
  BY <1>2
<1>4. QED
  BY <1>1, <1>3, AlwaysLog, PTL DEF Spec

-----------------------------------------------------------------------------
(***************************************************************************)
(* The Reader.                                                             *)
(***************************************************************************)

(* Each clause among the entries has the number of those before it.         *)
LEMMA ClauseAt ==
  ASSUME NEW l \in Seq(Entries)
  PROVE  \A k \in 1 .. Len(l) : IsClause(l[k]) => ClausesOf(l)[Ids(l, k - 1) + 1] = l[k]
<1> DEFINE n == Len(l)
           c == ClausesUpTo(l)
           Kept(k) == \A j \in 1 .. k : IsClause(l[j]) =>
                         /\ c[k][Ids(l, j - 1) + 1] = l[j]
                         /\ Ids(l, j - 1) + 1 <= Ids(l, k)
           S == {k \in Nat : k <= n => Kept(k)}
<1>1. n \in Nat /\ \A k \in 1 .. n : l[k] \in Entries
  BY LenProperties, ElementOfSeq
<1>2. /\ \A k \in 0 .. n : c[k] \in Seq(Entries) /\ Ids(l, k) \in Nat
      /\ \A k \in 1 .. n : Ids(l, k) = IF IsClause(l[k]) THEN Ids(l, k - 1) + 1 ELSE Ids(l, k - 1)
  BY ClausesAre
<1>3. \A k \in 1 .. n : c[k] = IF IsClause(l[k]) THEN Append(c[k - 1], l[k]) ELSE c[k - 1]
  BY <1>1, ClausesSteps
<1>4. \A k \in 0 .. n : Len(c[k]) = Ids(l, k)
  BY DEF Ids
<1> HIDE DEF n, c, Kept
<1>5. 0 \in S
  BY DEF Kept
<1>6. ASSUME NEW k \in Nat, k \in S PROVE k + 1 \in S
  <2>1. SUFFICES ASSUME k + 1 <= n PROVE Kept(k + 1)
    OBVIOUS
  <2>2. k + 1 \in 1 .. n /\ (k + 1) - 1 = k /\ k <= n /\ k \in 0 .. n
    BY <1>1, <2>1
  <2>3. Kept(k)
    BY <1>6, <2>2
  <2> DEFINE x == c[k]
             e == l[k + 1]
             id == Ids(l, k)
  <2>4. x \in Seq(Entries) /\ Len(x) = id /\ id \in Nat /\ e \in Entries
    BY <1>1, <1>2, <1>4, <2>2
  <2>5. CASE IsClause(e)
    <3>1. c[k + 1] = Append(x, e) /\ Ids(l, k + 1) = id + 1
      BY <1>2, <1>3, <2>2, <2>5
    <3> HIDE DEF x, e, id
    <3>2. /\ \A i \in 1 .. id : Append(x, e)[i] = x[i]
          /\ Append(x, e)[id + 1] = e
      BY <2>4, AppendProperties
    <3>3. ASSUME NEW j \in 1 .. k + 1, IsClause(l[j])
          PROVE  /\ c[k + 1][Ids(l, j - 1) + 1] = l[j]
                 /\ Ids(l, j - 1) + 1 <= Ids(l, k + 1)
      <4>1. CASE j = k + 1
        <5>1. j - 1 = k /\ l[j] = e /\ Ids(l, j - 1) = id
          BY <2>2, <4>1 DEF e, id
        <5>2. QED
          BY <2>4, <3>1, <3>2, <5>1
      <4>2. CASE j # k + 1
        <5>1. j \in 1 .. k /\ j - 1 \in 0 .. n
          BY <1>1, <2>2, <4>2
        <5> DEFINE a == Ids(l, j - 1)
        <5>2. a \in Nat /\ x[a + 1] = l[j] /\ a + 1 <= id
          BY <1>2, <2>3, <3>3, <5>1 DEF Kept, x, id
        <5> HIDE DEF a
        <5>3. a + 1 \in 1 .. id
          BY <2>4, <5>2
        <5>4. Append(x, e)[a + 1] = l[j]
          BY <3>2, <5>2, <5>3
        <5>5. a + 1 <= id + 1
          BY <2>4, <5>2
        <5>6. QED
          BY <3>1, <5>4, <5>5 DEF a
      <4>3. QED
        BY <4>1, <4>2
    <3>4. QED
      BY <3>3 DEF Kept
  <2>6. CASE ~IsClause(e)
    <3>1. c[k + 1] = x /\ Ids(l, k + 1) = id
      BY <1>2, <1>3, <2>2, <2>6
    <3>2. ASSUME NEW j \in 1 .. k + 1, IsClause(l[j])
          PROVE  /\ c[k + 1][Ids(l, j - 1) + 1] = l[j]
                 /\ Ids(l, j - 1) + 1 <= Ids(l, k + 1)
      <4>1. j # k + 1
        BY <2>6, <3>2
      <4>2. j \in 1 .. k
        BY <4>1
      <4>3. QED
        BY <2>3, <3>1, <3>2, <4>2 DEF Kept
    <3>3. QED
      BY <3>2 DEF Kept
  <2>7. QED
    BY <2>5, <2>6
<1>7. \A k \in Nat : k \in S
  <2> HIDE DEF S
  <2>1. QED
    BY <1>5, <1>6, AllNumbers
<1>8. Kept(n)
  BY <1>1, <1>7
<1>9. c[n] = ClausesOf(l)
  BY Zenon DEF ClausesOf, c, n
<1>10. QED
  BY <1>8, <1>9 DEF Kept, n

\* The places noted when j entries have been read.
NotedPlaces(l, j, places) ==
    /\ places \in Seq(Nat) /\ Len(places) = Ids(l, j)
    /\ \A i \in 1 .. Len(places) : \E k \in 1 .. j :
          IsClause(l[k]) /\ Ids(l, k - 1) = i - 1 /\ places[i] = Len(LogBytes(l)[k - 1])

(* A clause read adds its place, a deletion none.                           *)
LEMMA PlaceNoted ==
  ASSUME NEW l \in Seq(Entries), NEW j \in 0 .. Len(l) - 1, NEW places, NotedPlaces(l, j, places),
         NEW r, NoNewClause(r) <=> ~IsClause(l[j + 1]), Len(LogBytes(l)[j]) \in Nat
  PROVE  NotedPlaces(l, j + 1, KeepPlace(places, Len(LogBytes(l)[j]), r))
<1> DEFINE at == Len(LogBytes(l)[j])
           id == Ids(l, j)
           new == KeepPlace(places, at, r)
<1>1. j \in Nat /\ j + 1 \in 1 .. Len(l) /\ (j + 1) - 1 = j /\ j \in 0 .. Len(l)
  BY LenProperties
<1>2. /\ id \in Nat
      /\ Ids(l, j + 1) = IF IsClause(l[j + 1]) THEN id + 1 ELSE id
  BY <1>1, ClausesAre
<1>3. /\ places \in Seq(Nat) /\ Len(places) = id
      /\ \A i \in 1 .. id : \E k \in 1 .. j :
            IsClause(l[k]) /\ Ids(l, k - 1) = i - 1 /\ places[i] = Len(LogBytes(l)[k - 1])
  BY DEF NotedPlaces
<1>4. CASE IsClause(l[j + 1])
  <2>1. new = Append(places, at) /\ Ids(l, j + 1) = id + 1
    BY <1>2, <1>4 DEF KeepPlace
  <2>2. at \in Nat
    OBVIOUS
  <2> HIDE DEF at, id, new
  <2>3. /\ new \in Seq(Nat) /\ Len(new) = id + 1 /\ new[id + 1] = at
        /\ \A i \in 1 .. id : new[i] = places[i]
    BY <1>2, <1>3, <2>1, <2>2, AppendProperties
  <2>4. ASSUME NEW i \in 1 .. id + 1
        PROVE  \E k \in 1 .. j + 1 :
                 IsClause(l[k]) /\ Ids(l, k - 1) = i - 1 /\ new[i] = Len(LogBytes(l)[k - 1])
    <3>1. CASE i = id + 1
      <4>1. i - 1 = id /\ new[i] = at /\ j + 1 \in 1 .. j + 1
        BY <1>1, <1>2, <2>3, <3>1
      <4>2. IsClause(l[j + 1]) /\ Ids(l, (j + 1) - 1) = i - 1 /\ new[i] = Len(LogBytes(l)[(j + 1) - 1])
        BY <1>1, <1>4, <4>1 DEF at, id
      <4>3. QED
        BY <4>1, <4>2
    <3>2. CASE i # id + 1
      <4>1. i \in 1 .. id
        BY <1>2, <3>2
      <4>2. PICK k \in 1 .. j :
              IsClause(l[k]) /\ Ids(l, k - 1) = i - 1 /\ places[i] = Len(LogBytes(l)[k - 1])
        BY <1>3, <4>1
      <4>3. k \in 1 .. j + 1 /\ new[i] = places[i]
        BY <1>1, <2>3, <4>1
      <4>4. QED
        BY <4>2, <4>3
    <3>3. QED
      BY <3>1, <3>2
  <2>5. NotedPlaces(l, j + 1, new)
    BY <2>1, <2>3, <2>4 DEF NotedPlaces
  <2>6. QED
    BY <2>5 DEF new, at
<1>5. CASE ~IsClause(l[j + 1])
  <2>1. new = places /\ Ids(l, j + 1) = id
    BY <1>2, <1>5 DEF KeepPlace
  <2> HIDE DEF at, id, new
  <2>2. ASSUME NEW i \in 1 .. id
        PROVE  \E k \in 1 .. j + 1 :
                 IsClause(l[k]) /\ Ids(l, k - 1) = i - 1 /\ places[i] = Len(LogBytes(l)[k - 1])
    <3>1. PICK k \in 1 .. j :
            IsClause(l[k]) /\ Ids(l, k - 1) = i - 1 /\ places[i] = Len(LogBytes(l)[k - 1])
      BY <1>3
    <3>2. k \in 1 .. j + 1
      BY <1>1
    <3>3. QED
      BY <3>1, <3>2
  <2>3. NotedPlaces(l, j + 1, new)
    BY <1>3, <2>1, <2>2 DEF NotedPlaces
  <2>4. QED
    BY <2>3 DEF new, at
<1>6. QED
  BY <1>4, <1>5

(* The first pass notes the place of every clause.                          *)
LEMMA PlacesAreNoted ==
  ASSUME NEW l, IsLog(l), NEW f, Reads(f, BytesOf(l), 0, 0)
  PROVE  /\ NotedPlaces(l, Len(l), Places(f).places)
         /\ \E p, q : Reads(Places(f).next.f, BytesOf(l), p, q)
<1> DEFINE n == Len(l)
           d == BytesOf(l)
           m == Len(d)
           c == LogBytes(l)
           t == PlacesRounds(f)
           Ahead(j, x) == \E g : x = GetUInt(g) /\ Reads(g, d, Len(c[j]), Len(c[j]))
           At(j, y) == /\ y.at = Len(c[j]) /\ NotedPlaces(l, j, y.places)
                       /\ Ahead(j, y.next)
<1>1. l \in Seq(Entries) /\ n \in Nat /\ n <= MaxEntries /\ MaxEntries \in Nat
  BY LenProperties, ProofFileAssumption DEF IsLog
<1>2. d \in Bytes /\ m \in Nat
  <2>1. d \in Bytes
    BY BytesOfLog
  <2>2. QED
    BY <2>1 DEF Bytes
<1>3. f.disk = d
  BY DEF Reads
<1>4. d = c[n]
  BY Zenon DEF BytesOf
<1>5. /\ \A k \in 0 .. n : Len(c[k]) \in Nat /\ Len(c[k]) >= k
      /\ Len(c[0]) = 0
      /\ \A k \in 1 .. n :
           LET e == EntryBytes(l[k], Ids(l, k - 1))
           IN  Len(c[k]) = Len(c[k - 1]) + Len(e) /\ Held(d, Len(c[k - 1]), e)
  BY <1>4, LogBytesAre
<1>6. /\ \A k \in 0 .. n : Ids(l, k) \in Nat /\ Ids(l, k) <= k
      /\ Ids(l, 0) = 0
  BY <1>1, ClausesAre
<1> HIDE DEF n, d, m, c
<1>7. /\ t[0] = [next |-> GetUInt(f), at |-> 0, places |-> <<>>]
      /\ \A k \in 1 .. m : t[k] = PlacesRound(t[k - 1])
  BY <1>2, <1>3, PlacesSteps DEF m
<1> HIDE DEF t, Ahead
<1>8. At(0, t[0])
  <2>1. t[0].next = GetUInt(f) /\ t[0].at = 0 /\ t[0].places = <<>>
    BY <1>7
  <2>2. Ahead(0, GetUInt(f))
    BY <1>5 DEF Ahead, d
  <2>3. NotedPlaces(l, 0, <<>>)
    <3>1. <<>> \in Seq(Nat) /\ Len(<<>>) = 0
      BY EmptySeq
    <3>2. QED
      BY <1>6, <3>1 DEF NotedPlaces
  <2>4. QED
    BY <1>5, <2>1, <2>2, <2>3
\* One entry.
<1>9. ASSUME NEW j \in 0 .. n - 1, NEW y, At(j, y)
      PROVE  At(j + 1, PlacesRound(y))
  <2> DEFINE id == Ids(l, j)
             e == l[j + 1]
             b == EntryBytes(e, id)
             p == Len(c[j])
             r == EntryRead(y.next, id)
             z == PlacesRound(y)
  <2>1. /\ j \in Nat /\ j + 1 \in 1 .. n /\ (j + 1) - 1 = j /\ j \in 0 .. n /\ j + 1 \in 0 .. n
        /\ j < MaxEntries
    BY <1>1
  <2>2. PICK g : y.next = GetUInt(g) /\ Reads(g, d, p, p)
    BY <1>9 DEF Ahead
  <2>3. y.at = p /\ NotedPlaces(l, j, y.places) /\ Len(y.places) = id
    BY <1>9 DEF NotedPlaces
  <2>4. id \in Nat /\ id < MaxEntries
    BY <1>1, <1>6, <2>1
  <2>5. IsEntry(e, id)
    <3>1. IsEntry(l[j + 1], Ids(l, (j + 1) - 1))
      BY <2>1 DEF IsLog, n
    <3>2. QED
      BY <2>1, <3>1
  <2>6. Held(d, p, b) /\ Len(c[j + 1]) = p + Len(b) /\ p \in Nat
    BY <1>5, <2>1
  <2> HIDE DEF e, id, p, z
  <2>7. /\ GetUInt(g).val # Eof
        /\ ReadFor(EntryRead(GetUInt(g), id).entry, e)
        /\ Reads(EntryRead(GetUInt(g), id).f, d, p + Len(b), p + Len(b))
    BY <2>2, <2>4, <2>5, <2>6, EntryReads
  <2>8. /\ y.next.val # Eof /\ ReadFor(r.entry, e)
        /\ Reads(r.f, d, Len(c[j + 1]), Len(c[j + 1]))
    BY <2>2, <2>6, <2>7
  <2> HIDE DEF r, b
  <2>9. z = [next |-> GetUInt(r.f), at |-> r.f.overall, places |-> KeepPlace(y.places, p, r.entry)]
    BY <2>3, <2>8, Zenon DEF PlacesRound, PlacesAfter, r, z
  <2>10. /\ z.next = GetUInt(r.f) /\ z.at = r.f.overall
         /\ z.places = KeepPlace(y.places, p, r.entry)
    BY <2>9
  <2>11. z.at = Len(c[j + 1])
    BY <2>8, <2>10 DEF Reads
  <2>12. Ahead(j + 1, z.next)
    BY <2>8, <2>10 DEF Ahead
  <2>13. NotedPlaces(l, j + 1, z.places)
    <3>1. NoNewClause(r.entry) <=> ~IsClause(l[j + 1])
      BY <2>8 DEF ReadFor, e
    <3>2. j \in 0 .. Len(l) - 1 /\ Len(LogBytes(l)[j]) \in Nat /\ p = Len(LogBytes(l)[j])
      BY <2>6 DEF p, c, n
    <3>3. NotedPlaces(l, j + 1, KeepPlace(y.places, Len(LogBytes(l)[j]), r.entry))
      BY <1>1, <2>3, <3>1, <3>2, PlaceNoted
    <3>4. QED
      BY <2>10, <3>2, <3>3
  <2>14. QED
    BY <2>11, <2>12, <2>13 DEF z
\* The end.
<1>10. ASSUME NEW y, At(n, y)
       PROVE  PlacesRound(y) = y /\ \E p, q : Reads(y.next.f, d, p, q)
  <2>1. PICK g : y.next = GetUInt(g) /\ Reads(g, d, Len(c[n]), Len(c[n]))
    BY <1>10 DEF Ahead
  <2>2. Reads(g, d, m, m) /\ m = Len(d)
    BY <1>4, <2>1 DEF m
  <2>3. GetUInt(g).val = Eof /\ Reads(GetUInt(g).f, d, m, m)
    BY <2>2, NumbersEnd
  <2>4. PlacesRound(y) = y
    BY <2>1, <2>3, Zenon DEF PlacesRound
  <2>5. QED
    BY <2>1, <2>3, <2>4
<1> DEFINE Q(k) == \E j \in 0 .. n : At(j, t[k]) /\ (j = k \/ j = n)
           S == {k \in Nat : k <= m => Q(k)}
<1> HIDE DEF At
<1>11. 0 \in S
  <2>1. 0 \in 0 .. n
    BY <1>1
  <2>2. QED
    BY <1>8, <2>1
<1>12. ASSUME NEW k \in Nat, k \in S PROVE k + 1 \in S
  <2>1. SUFFICES ASSUME k + 1 <= m PROVE Q(k + 1)
    OBVIOUS
  <2>2. k + 1 \in 1 .. m /\ (k + 1) - 1 = k /\ k <= m
    BY <1>2, <2>1
  <2>3. PICK j \in 0 .. n : At(j, t[k]) /\ (j = k \/ j = n)
    BY <1>12, <2>2
  <2>4. t[k + 1] = PlacesRound(t[k])
    BY <1>7, <2>2
  <2>5. CASE j = n
    <3>1. t[k + 1] = t[k]
      BY <1>10, <2>3, <2>4, <2>5
    <3>2. QED
      BY <2>3, <2>5, <3>1
  <2>6. CASE j # n
    <3>1. j = k /\ j \in 0 .. n - 1 /\ j + 1 \in 0 .. n
      BY <1>1, <2>3, <2>6
    <3>2. At(j + 1, t[k + 1])
      BY <1>9, <2>3, <2>4, <3>1
    <3>3. QED
      BY <3>1, <3>2
  <2>7. QED
    BY <2>5, <2>6
<1>13. \A k \in Nat : k \in S
  <2> HIDE DEF S
  <2>1. QED
    BY <1>11, <1>12, AllNumbers
<1>14. At(n, t[m])
  <2>1. PICK j \in 0 .. n : At(j, t[m]) /\ (j = m \/ j = n)
    BY <1>2, <1>13
  <2>2. m >= n
    <3>1. n \in 0 .. n
      BY <1>1
    <3>2. QED
      BY <1>4, <1>5, <3>1 DEF m
  <2>3. j = n
    BY <1>1, <1>2, <2>1, <2>2
  <2>4. QED
    BY <2>1, <2>3
<1>15. NotedPlaces(l, n, t[m].places)
  BY <1>14 DEF At
<1>16. \E p, q : Reads(t[m].next.f, d, p, q)
  BY <1>10, <1>14
<1>17. Places(f) = t[m]
  BY <1>3, Zenon DEF Places, t, m
<1>18. QED
  BY <1>15, <1>16, <1>17 DEF d, n

(* The second pass reads each clause at its place.                          *)
LEMMA RetrieveReads ==
  ASSUME NEW l, IsLog(l), NEW f, Reads(f, BytesOf(l), 0, 0)
  PROVE  Retrieved(f) = ClausesOf(l)
<1> DEFINE n == Len(l)
           d == BytesOf(l)
           p == Places(f)
           c == ClausesOf(l)
           N == Ids(l, n)
<1>1. l \in Seq(Entries) /\ n \in Nat /\ n <= MaxEntries /\ MaxEntries \in Nat
  BY LenProperties, ProofFileAssumption DEF IsLog
<1>2. c \in Seq(Entries) /\ Len(c) = N /\ N \in Nat
  <2>1. n \in 0 .. Len(l)
    BY <1>1
  <2>2. ClausesUpTo(l)[n] \in Seq(Entries) /\ Ids(l, n) \in Nat
    BY <1>1, <2>1, ClausesAre
  <2>3. c = ClausesUpTo(l)[n]
    BY Zenon DEF ClausesOf
  <2>4. Len(ClausesUpTo(l)[n]) = N
    BY Zenon DEF Ids
  <2>5. QED
    BY <2>2, <2>3, <2>4
<1>3. p.places \in Seq(Nat) /\ Len(p.places) = N
      /\ \A i \in 1 .. N : \E k \in 1 .. n :
           IsClause(l[k]) /\ Ids(l, k - 1) = i - 1 /\ p.places[i] = Len(LogBytes(l)[k - 1])
  BY PlacesAreNoted DEF NotedPlaces
<1>4. PICK u, v : Reads(p.next.f, d, u, v)
  BY PlacesAreNoted
<1> HIDE DEF p, c, N
<1> DEFINE h == p.next.f
<1>5. IsFile(h) /\ h.mode = "READ" /\ h.disk = d
  BY <1>4 DEF Reads
<1> HIDE DEF h
<1>6. ASSUME NEW i \in 1 .. N
      PROVE  EntryAt(h, p.places[i], i - 1) = c[i]
  <2>1. PICK k \in 1 .. n :
          IsClause(l[k]) /\ Ids(l, k - 1) = i - 1 /\ p.places[i] = Len(LogBytes(l)[k - 1])
    BY <1>3
  <2> DEFINE e == l[k]
             id == i - 1
             to == p.places[i]
             b == EntryBytes(e, id)
             g == Seek(h, to)
  <2>2. k - 1 \in 0 .. n /\ k \in Nat /\ k \in 1 .. Len(l)
    BY <1>1
  <2>3. id \in Nat /\ id < MaxEntries
    <3>1. Ids(l, k - 1) \in Nat /\ Ids(l, k - 1) <= k - 1
      BY <1>1, <2>2, ClausesAre
    <3>2. QED
      BY <1>1, <2>1, <3>1
  <2>4. IsEntry(e, id)
    BY <2>1, <2>2 DEF IsLog
  <2>5. to \in Nat /\ Held(d, to, b) /\ to <= Len(d)
    <3>1. LET w == EntryBytes(l[k], Ids(l, k - 1))
          IN  Held(LogBytes(l)[n], Len(LogBytes(l)[k - 1]), w)
      BY LogBytesAre
    <3>2. d = LogBytes(l)[n]
      BY Zenon DEF BytesOf
    <3>3. Held(d, to, b)
      BY <2>1, <3>1, <3>2
    <3>4. to \in Nat
      BY <1>3
    <3>5. Len(b) \in Nat
      BY <2>3, <2>4, EntryBytesAre
    <3>6. d \in Bytes
      BY BytesOfLog
    <3>7. Len(d) \in Nat
      BY <3>6 DEF Bytes
    <3> HIDE DEF to, b, d
    <3>8. to + Len(b) <= Len(d)
      BY <3>3 DEF Held
    <3>9. QED
      BY <3>3, <3>4, <3>5, <3>7, <3>8
  <2> HIDE DEF e, id, to
  <2>6. Reads(g, d, to, to)
    BY <1>5, <2>5, SeekReads
  <2> HIDE DEF g
  <2>7. ReadFor(EntryRead(GetUInt(g), id).entry, e)
    BY <2>3, <2>4, <2>5, <2>6, EntryReads
  <2>8. EntryRead(GetUInt(g), id).entry = e
    BY <2>1, <2>7 DEF ReadFor, e
  <2>9. EntryAt(h, to, id) = e
    BY <2>8, Zenon DEF EntryAt, g
  <2>10. c[i] = e
    <3>1. c[Ids(l, k - 1) + 1] = l[k]
      BY <1>1, <2>1, <2>2, ClauseAt DEF c
    <3>2. Ids(l, k - 1) + 1 = i
      BY <2>1
    <3>3. QED
      BY <3>1, <3>2 DEF e
  <2>11. QED
    BY <2>9, <2>10 DEF to, id
<1>7. Retrieved(f) = [i \in DOMAIN p.places |-> EntryAt(h, p.places[i], i - 1)]
  BY Zenon DEF Retrieved, EntriesAt, p, h
<1>8. DOMAIN p.places = 1 .. N
  BY <1>3, LenProperties
<1>9. c = [i \in 1 .. N |-> c[i]]
  BY <1>2
<1>10. [i \in 1 .. N |-> EntryAt(h, p.places[i], i - 1)] = [i \in 1 .. N |-> c[i]]
  BY <1>6
<1>11. Retrieved(f) = c
  BY <1>7, <1>8, <1>9, <1>10
<1>12. QED
  BY <1>11 DEF c

(* The reader of a saved proof gives, for every clause number, the clause   *)
(* that had it when the proof was saved.                                    *)
THEOREM RetrieveGivesLog == Spec => RetrieveIsLog
<1>1. ASSUME LogInv, Retrieve
      PROVE  answer'.entries = ClausesOf(saved.log)
  <2> DEFINE g == Opened(saved.bytes, "READ")
             f == Seek(g, 0)
  <2>1. IsLog(saved.log) /\ saved.bytes = BytesOf(saved.log)
    BY <1>1 DEF LogInv, CopyHolds, Retrieve
  <2>2. IsFile(g) /\ g.mode = "READ" /\ g.disk = saved.bytes
    <3>1. PICK e : e = <<>>
      OBVIOUS
    <3>2. e \in Bytes /\ saved.bytes \in Bytes
      BY <2>1, <3>1, NoBytes, BytesOfLog
    <3>3. Len(saved.bytes) \in Nat
      BY <3>2 DEF Bytes
    <3>4. g = [disk |-> saved.bytes, off |-> 0, mode |-> "READ", buf |-> e, pos |-> 0, overall |-> 0]
      BY <3>1, Zenon DEF Opened
    <3> HIDE DEF g
    <3>5. QED
      BY <3>2, <3>3, <3>4 DEF IsFile, Files
  <2>3. answer' = [by |-> "retrieveProof", entries |-> Retrieved(f)]
    BY <1>1, Zenon DEF Retrieve
  <2> HIDE DEF g
  <2>4. 0 \in Nat /\ 0 <= Len(g.disk)
    BY <2>2, FieldsOf
  <2>5. Reads(f, BytesOf(saved.log), 0, 0)
    BY <2>1, <2>2, <2>4, SeekReads
  <2> HIDE DEF f
  <2>6. Retrieved(f) = ClausesOf(saved.log)
    BY <2>1, <2>5, RetrieveReads
  <2>7. QED
    BY <2>3, <2>6
<1>2. LogInv => [Retrieve => answer'.entries = ClausesOf(saved.log)]_vars
  BY <1>1
<1>3. QED
  BY <1>2, AlwaysLog, PTL DEF RetrieveIsLog

=============================================================================
