------------------------------- MODULE BitVec -------------------------------
(***************************************************************************)
(* The bit vectors with unknown bits in which values of nets are handed    *)
(* out (gvBitVec.h, gvBitVec.cpp: GVBitVecX, and GVBitVecS, the one word   *)
(* form of it for AND and NOT).                                            *)
(*                                                                         *)
(* A vector is two arrays of words, _data0 and _data1, the sets `zeros'    *)
(* and `ones' of bits set in them: a bit is 0, 1 or, in neither, unknown.  *)
(* The arrays are whole words, so that there are bits beyond the size.     *)
(*                                                                         *)
(* The state is a vector x as a computation goes on, and one `run' of that *)
(* computation on known bits: the set of positions that are 1 in it.       *)
(***************************************************************************)
EXTENDS Integers, FiniteSets, Sequences, FiniteSetsExt, SequencesExt

CONSTANTS
    WordBits,    \* bits of a word: 8
    ShortBits,   \* bits of a GVBitVecS: 64
    Sizes,       \* bound: the sizes of vectors
    ShiftSizes   \* ShiftSizes[s]: the sizes of the amounts s bits are shifted by

ASSUME BitVecAssumption ==
    /\ WordBits \in Nat \ {0} /\ ShortBits \in Nat
    /\ Sizes \subseteq 1 .. ShortBits
    /\ ShortBits % WordBits = 0

VARIABLES
    x,           \* the vector
    run,         \* the positions of x that are 1 in the run on known bits
    known,       \* whether every bit that went into x was known
    padded       \* whether bits beyond the size may be set

vars == <<x, run, known, padded>>

Positions(size) == 0 .. size - 1
Words(size) == (size + WordBits - 1) \div WordBits
Room(size) == 0 .. Words(size) * WordBits - 1

-----------------------------------------------------------------------------
(***************************************************************************)
(* One bit.                                                                *)
(***************************************************************************)
At(v, i) == IF i \in v.zeros THEN "0" ELSE IF i \in v.ones THEN "1" ELSE "X"
SetValue(v, i, b) ==
    [v EXCEPT !.zeros = IF b = "0" THEN @ \cup {i} ELSE @ \ {i},
              !.ones = IF b = "1" THEN @ \cup {i} ELSE @ \ {i}]

Inv(a) == CASE a = "0" -> "1" [] a = "1" -> "0" [] OTHER -> "X"
And(a, b) == IF "0" \in {a, b} THEN "0" ELSE IF a = "1" /\ b = "1" THEN "1" ELSE "X"
Or(a, b) == IF "1" \in {a, b} THEN "1" ELSE IF a = "0" /\ b = "0" THEN "0" ELSE "X"

XorBit(a, b) == Or(And(a, Inv(b)), And(Inv(a), b))
AddBit(a, b, c) == XorBit(a, XorBit(b, c))
Carry(a, b, c) == Or(And(a, b), Or(And(b, c), And(c, a)))

\* A new vector, its bits unknown; and one of the bits Bit(0), Bit(1), ...
New(size) == [size |-> size, zeros |-> {}, ones |-> {}]
Vector(size, Bit(_)) ==
    [size |-> size, zeros |-> {i \in Positions(size) : Bit(i) = "0"},
                    ones |-> {i \in Positions(size) : Bit(i) = "1"}]
\* The vector v with its bits replaced one by one: those beyond stay.
Replaced(v, Bit(_)) ==
    [v EXCEPT !.zeros = {i \in @ : i >= v.size} \cup Vector(v.size, Bit).zeros,
              !.ones = {i \in @ : i >= v.size} \cup Vector(v.size, Bit).ones]
OneBit(b) == SetValue(New(1), 0, b)
\* Known bits, taken over from a GVBitVec or drawn at random.
Known(size, ones) == Vector(size, LAMBDA i : IF i \in ones THEN "1" ELSE "0")

(***************************************************************************)
(* Questions, answered from words or from bits.                            *)
(***************************************************************************)
AllX(v) == v.zeros = {} /\ v.ones = {}
Exist1(v) == v.ones # {}
Exist0(v) == v.zeros # {}
Value(v) == SumSet({2 ^ i : i \in v.ones})

\* first0, first1, firstX: the first position of a bit, or the size.
First(v, b) == Min({v.size} \cup {i \in Positions(v.size) : At(v, i) = b})
AllKnown(v) == First(v, "X") = v.size
DcBits(v) == Cardinality({i \in Positions(v.size) : At(v, i) = "X"})

-----------------------------------------------------------------------------
(***************************************************************************)
(* Word by word: bits beyond the size take part.                           *)
(***************************************************************************)
AndV(v, w) == [v EXCEPT !.zeros = @ \cup w.zeros, !.ones = @ \cap w.ones]
OrV(v, w) == [v EXCEPT !.zeros = @ \cap w.zeros, !.ones = @ \cup w.ones]
XorV(v, w) ==
    [v EXCEPT !.zeros = (v.zeros \cap w.zeros) \cup (v.ones \cap w.ones),
              !.ones = (v.zeros \cap w.ones) \cup (v.ones \cap w.zeros)]
NotV(v) == [v EXCEPT !.zeros = v.ones, !.ones = v.zeros]
Restrict0(v) == [v EXCEPT !.zeros = Room(v.size) \ v.ones]

Equal(v, w) == v.zeros = w.zeros /\ v.ones = w.ones

(* Slip: the sides are swapped.                                            *)
CoverSwapped(v, w) == w.zeros \subseteq v.zeros /\ w.ones \subseteq v.ones

Cover(v, w) == v.zeros \subseteq w.zeros /\ v.ones \subseteq w.ones
Intersect(v, w) == (v.zeros \cup w.zeros) \cap (v.ones \cup w.ones) = {}

\* GVBitVecS: a vector of ShortBits bits that is one word, and its AND.
Short(v) == [v EXCEPT !.size = ShortBits]
Turned(v, inv) == IF inv THEN NotV(v) ELSE v
BvAnd(v, inv1, w, inv2) == AndV(Turned(v, inv1), Turned(w, inv2))

-----------------------------------------------------------------------------
(***************************************************************************)
(* Arithmetic, bit by bit from the least significant one.                  *)
(***************************************************************************)
\* The sum bits of v and w from position `from' on, and the last carry.
AddFrom(v, w, from, carry) ==
    FoldLeft(LAMBDA acc, i :
                 [v |-> SetValue(acc.v, i, AddBit(At(v, i), At(w, i), acc.carry)),
                  carry |-> Carry(At(v, i), At(w, i), acc.carry)],
             [v |-> v, carry |-> carry], [k \in 1 .. v.size - from |-> from + k - 1])
AddV(v, w) == AddFrom(v, w, 0, "0").v
Inverted(w) == Vector(w.size, LAMBDA i : Inv(At(w, i)))
SubV(v, w) == AddFrom(v, Inverted(w), 0, "1").v

\* Row i of the product: v shifted by i, where bit i of w allows it.
Row(v, w, i) ==
    Vector(v.size, LAMBDA j : IF j < i THEN "0" ELSE And(At(v, j - i), At(w, i)))
MulV(v, w) ==
    FoldLeft(LAMBDA acc, i : AddFrom(acc, Row(v, w, i), i, "0").v,
             Replaced(v, LAMBDA j : At(Row(v, w, 0), j)), [i \in 1 .. v.size - 1 |-> i])

\* One step of bv_divided_by: r doubled, and b taken from it if it fits.
Doubled(r, bit) == Replaced(r, LAMBDA j : IF j = 0 THEN bit ELSE At(r, j - 1))
Merged(d, r) == Replaced(r, LAMBDA j : IF At(d, j) = At(r, j) THEN At(d, j) ELSE "X")
(* Slip: the remainder is that of the subtraction, whether it fits or not. *)
StepAfterAlways(acc, i, r, diff) ==
    [d |-> diff.v, q |-> IF diff.carry = "X" THEN acc.q ELSE SetValue(acc.q, i, diff.carry), r |-> diff.v]

StepAfter(acc, i, r, diff) ==
    CASE diff.carry = "1" -> [d |-> diff.v, q |-> SetValue(acc.q, i, "1"), r |-> diff.v]
      [] diff.carry = "0" -> [d |-> diff.v, q |-> SetValue(acc.q, i, "0"), r |-> r]
      [] OTHER -> [d |-> diff.v, q |-> acc.q, r |-> Merged(diff.v, r)]
\* The difference is left in the vector itself, whose bits beyond stay.
DiffInto(d, sum) == [sum EXCEPT !.v = Replaced(d, LAMBDA j : At(sum.v, j))]
DivStep(acc, i, r, w) == StepAfter(acc, i, r, DiffInto(acc.d, AddFrom(r, Inverted(w), 0, "1")))

Divided(v, w) ==
    FoldLeft(LAMBDA acc, i : DivStep(acc, i, Doubled(acc.r, At(v, i)), w),
             [d |-> v, q |-> New(v.size), r |-> Restrict0(New(v.size))],
             [k \in 1 .. v.size |-> v.size - k])
DivV(v, w) == Divided(v, w).q
ModV(v, w) == Divided(v, w).r

-----------------------------------------------------------------------------
(***************************************************************************)
(* Shifts by a vector w: first by its bits that are 1, then, for each      *)
(* unknown one, to what the shifted vector and the one left have in common.*)
(***************************************************************************)
PowersOf(w, b) == {2 ^ i : i \in {k \in Positions(w.size) : At(w, k) = b}}
Amount(w) == SumSet(PowersOf(w, "1"))
AllZero(v) == \A i \in Positions(v.size) : At(v, i) = "0"

\* The loop over unknown bits ends with the first that shifts everything out.
UnknownShifts(v, w) ==
    SelectSeq([k \in 1 .. w.size |-> 2 ^ (k - 1)],
              LAMBDA p : p \in PowersOf(w, "X") /\ \A q \in PowersOf(w, "X") : q < p => q < v.size)

MoveDown(v, n) == Replaced(v, LAMBDA i : IF i + n < v.size THEN At(v, i + n) ELSE "0")
MoveUp(v, n) == Replaced(v, LAMBDA i : IF i >= n THEN At(v, i - n) ELSE "0")

\* >>=: below size - n bits are compared; from there on a 1 becomes unknown,
\* in a loop that begins beyond the size when n is larger.
MaybeDown(v, n) ==
    Replaced(v, LAMBDA i :
        IF i + n < v.size THEN (IF At(v, i) = At(v, i + n) THEN At(v, i) ELSE "X")
        ELSE IF n <= v.size /\ At(v, i) = "1" THEN "X" ELSE At(v, i))
MaybeUp(v, n) ==
    Replaced(v, LAMBDA i :
        IF i >= n THEN (IF At(v, i) = At(v, i - n) THEN At(v, i) ELSE "X")
        ELSE IF At(v, i) = "1" THEN "X" ELSE At(v, i))

MaybeShifted(v, w, Maybe(_, _)) ==
    IF AllZero(v) THEN v ELSE FoldLeft(Maybe, v, UnknownShifts(v, w))
ShiftRight(v, w) == MaybeShifted(MoveDown(v, Amount(w)), w, MaybeDown)
ShiftLeft(v, w) == MaybeShifted(MoveUp(v, Amount(w)), w, MaybeUp)

-----------------------------------------------------------------------------
(***************************************************************************)
(* Comparisons, from the most significant bit; `so far' is "=", ">", "<"   *)
(* or the result.                                                          *)
(***************************************************************************)
EqualBit(v, w) ==
    FoldLeft(And, "1", [k \in 1 .. v.size |-> Inv(XorBit(At(v, k - 1), At(w, k - 1)))])

OpGe(a, b) == a = "1" \/ (a = "X" /\ b = "0")
Compared(sofar, a, b) ==
    CASE sofar \in {"0", "1", "X"} -> sofar
      [] sofar \notin {"0", "1", "X"} /\ a = b -> IF a = "X" THEN "X" ELSE sofar
      [] sofar = "=" /\ a # b ->
            CASE a = "1" /\ b = "0" -> "1" [] a = "0" /\ b = "1" -> "0"
              [] OTHER -> IF OpGe(a, b) THEN ">" ELSE "<"
      [] sofar = ">" /\ a # b ->
            IF a = "1" /\ b = "0" THEN "1" ELSE IF OpGe(a, b) THEN ">" ELSE "X"
      [] sofar = "<" /\ a # b ->
            IF a = "0" /\ b = "1" THEN "0" ELSE IF OpGe(a, b) THEN "X" ELSE "<"
Verdict(sofar) == IF sofar \in {"=", ">"} THEN "1" ELSE IF sofar = "<" THEN "X" ELSE sofar
GeqBit(v, w) ==
    Verdict(FoldLeft(LAMBDA sofar, i : Compared(sofar, At(v, i), At(w, i)), "=",
                  [k \in 1 .. v.size |-> v.size - k]))
\* op_bv_leq is op_bv_geq with the sides exchanged.
LeqBit(v, w) == GeqBit(w, v)

-----------------------------------------------------------------------------
(***************************************************************************)
(* Reductions, and the operations that move bits around.                   *)
(***************************************************************************)
Bits(v) == [k \in 1 .. v.size |-> At(v, k - 1)]
RedAnd(v) == OneBit(FoldLeft(And, "1", Bits(v)))
RedOr(v) == OneBit(FoldLeft(Or, "0", Bits(v)))
RedXor(v) ==
    OneBit(IF ~AllKnown(v) THEN "X"
           ELSE IF Len(SelectSeq(Bits(v), LAMBDA b : b = "1")) % 2 = 1 THEN "1" ELSE "0")

\* A range from high to low, or from low to high: then the bits are reversed,
\* unless the range is the whole vector.
Length(msb, lsb) == 1 + Max({msb, lsb}) - Min({msb, lsb})
Slice(v, msb, lsb) ==
    IF Length(msb, lsb) = v.size THEN v
    ELSE Vector(Length(msb, lsb), LAMBDA i : At(v, IF msb >= lsb THEN lsb + i ELSE lsb - i))
Concat(v, a) ==
    Vector(v.size + a.size, LAMBDA i : IF i < a.size THEN At(a, i) ELSE At(v, i - a.size))
Select(s, f, t) ==
    CASE s = "1" -> t [] s = "0" -> f
      [] OTHER -> Replaced(t, LAMBDA i : IF At(t, i) = At(f, i) THEN At(t, i) ELSE "X")

-----------------------------------------------------------------------------
(***************************************************************************)
(* A computation, and its run on known bits in integers and sets.          *)
(***************************************************************************)
Vectors(size) == {Vector(size, LAMBDA i : b[i]) : b \in [Positions(size) -> {"0", "1", "X"}]}
Runs(v) == {m \in SUBSET Positions(v.size) : m \cap v.zeros = {} /\ v.ones \cap Positions(v.size) \subseteq m}
Num(m) == SumSet({2 ^ i : i \in m})
OnesOf(n, size) == {i \in Positions(size) : (n \div 2 ^ i) % 2 = 1}
Truth(p) == IF p THEN {0} ELSE {}

Becomes(v, r, w, pad) ==
    /\ x' = v
    /\ run' = r
    /\ known' = (known /\ AllKnown(w))
    /\ padded' = pad

Init ==
    \E size \in Sizes :
        /\ x \in Vectors(size)
        /\ run \in Runs(x)
        /\ known = AllKnown(x)
        /\ padded = FALSE

Logic ==
    \E w \in Vectors(x.size) : \E m \in Runs(w) :
        \/ Becomes(AndV(x, w), run \cap m, w, padded)
        \/ Becomes(OrV(x, w), run \cup m, w, padded)
        \/ Becomes(XorV(x, w), (run \ m) \cup (m \ run), w, padded)
Not == Becomes(NotV(x), Positions(x.size) \ run, x, padded)

\* Through GVBitVecS and back: bv_and and ~ on whole words.
ShortLogic ==
    \E w \in Vectors(x.size), inv1, inv2 \in BOOLEAN : \E m \in Runs(w) :
        Becomes(Slice(BvAnd(Short(x), inv1, Short(w), inv2), x.size - 1, 0),
                {i \in Positions(x.size) : (i \in run) # inv1 /\ (i \in m) # inv2}, w,
                padded /\ x.size = ShortBits)

Arithmetic ==
    \E w \in Vectors(x.size) : \E m \in Runs(w) :
        \/ Becomes(AddV(x, w), OnesOf(Num(run) + Num(m), x.size), w, padded)
        \/ Becomes(SubV(x, w), OnesOf(2 ^ x.size + Num(run) - Num(m), x.size), w, padded)
        \/ Becomes(MulV(x, w), OnesOf(Num(run) * Num(m), x.size), w, padded)

\* Divided by 0, the quotient is all 1 and the remainder the dividend.
Division ==
    \E w \in Vectors(x.size) : \E m \in Runs(w) :
        \/ Becomes(DivV(x, w), IF m = {} THEN Positions(x.size) ELSE OnesOf(Num(run) \div Num(m), x.size), w, FALSE)
        \/ Becomes(ModV(x, w), IF m = {} THEN run ELSE OnesOf(Num(run) % Num(m), x.size), w, TRUE)

Shift ==
    \E w \in UNION {Vectors(size) : size \in ShiftSizes[x.size]} : \E m \in Runs(w) :
        \/ Becomes(ShiftRight(x, w), OnesOf(Num(run) \div 2 ^ Num(m), x.size), w, padded)
        \/ Becomes(ShiftLeft(x, w), OnesOf(Num(run) * 2 ^ Num(m), x.size), w, padded)

Compare ==
    \E w \in Vectors(x.size) : \E m \in Runs(w) :
        \/ Becomes(OneBit(EqualBit(x, w)), Truth(run = m), w, FALSE)
        \/ Becomes(OneBit(GeqBit(x, w)), Truth(Num(run) >= Num(m)), w, FALSE)
        \/ Becomes(OneBit(LeqBit(x, w)), Truth(Num(run) <= Num(m)), w, FALSE)
        \/ Becomes(OneBit(Inv(LeqBit(x, w))), Truth(Num(run) > Num(m)), w, FALSE)
        \/ Becomes(OneBit(Inv(GeqBit(x, w))), Truth(Num(run) < Num(m)), w, FALSE)

Reduce ==
    \/ Becomes(RedAnd(x), Truth(run = Positions(x.size)), x, FALSE)
    \/ Becomes(RedOr(x), Truth(run # {}), x, FALSE)
    \/ Becomes(RedXor(x), Truth(Cardinality(run) % 2 = 1), x, FALSE)

\* Ranges of the whole vector are asked for from high to low.
Rearrange ==
    \/ \E msb, lsb \in Positions(x.size) :
        /\ Length(msb, lsb) \in Sizes
        /\ Length(msb, lsb) = x.size => msb >= lsb
        /\ Becomes(Slice(x, msb, lsb),
                   {i \in Positions(Length(msb, lsb)) : (IF msb >= lsb THEN lsb + i ELSE lsb - i) \in run}, x,
                   padded /\ Length(msb, lsb) = x.size)
    \/ \E size \in Sizes : \E a \in Vectors(size) : \E m \in Runs(a) :
        /\ x.size + size \in Sizes
        /\ Becomes(Concat(x, a), m \cup {i + size : i \in run}, a, FALSE)
    \/ \E s \in {"0", "1", "X"}, t \in Vectors(x.size) : \E m \in Runs(t), m0 \in Runs(OneBit(s)) :
        /\ Becomes(Select(s, x, t), IF m0 = {0} THEN m ELSE run, Concat(t, OneBit(s)), padded /\ s = "0")

\* restrict0: what is unknown is taken as 0.  The run is one that agrees.
RestrictX == run \in Runs(Restrict0(x)) /\ Becomes(Restrict0(x), run, x, TRUE)

\* A vector begun anew: clear and resize, or random, or from known bits.
Anew ==
    \E size \in Sizes, m \in SUBSET Positions(Max(Sizes)) :
        /\ m \subseteq Positions(size)
        /\ x' \in {New(size), Known(size, m)} /\ run' = m
        /\ known' = AllKnown(x') /\ padded' = FALSE

Next ==
    Logic \/ Not \/ ShortLogic \/ Arithmetic \/ Division \/ Shift \/ Compare
    \/ Reduce \/ Rearrange \/ RestrictX \/ Anew

Spec == Init /\ [][Next]_vars

-----------------------------------------------------------------------------
(***************************************************************************)
(* What is true of the vectors.                                            *)
(***************************************************************************)
(* No operation, in any sequence of them, claims a bit that some value of  *)
(* the unknown bits contradicts: the run on known bits stays one the       *)
(* vector allows.  And no bit is given up where none is unknown:           *)
(* arithmetic, division and comparison of known vectors are exact.         *)
Sound == run \in Runs(x) /\ (known => AllKnown(x))

(* What asks word by word, operator==, bv_cover, bv_intersect, allX,       *)
(* exist0, exist1 and value, answers about the values a vector stands for, *)
(* provided that no bit beyond its size is set.                            *)
ComparesAsSets ==
    ~padded =>
        /\ \A w \in Vectors(x.size) :
               /\ Equal(x, w) <=> Runs(x) = Runs(w)
               /\ Cover(x, w) <=> Runs(w) \subseteq Runs(x)
               /\ Intersect(x, w) <=> Runs(x) \cap Runs(w) # {}
        /\ AllX(x) <=> Runs(x) = SUBSET Positions(x.size)
        /\ Exist1(x) <=> {} \notin Runs(x)
        /\ Exist0(x) <=> Positions(x.size) \notin Runs(x)
        /\ AllKnown(x) => Value(x) = Num(run)
        /\ Cardinality(Runs(x)) = 2 ^ DcBits(x)
=============================================================================
