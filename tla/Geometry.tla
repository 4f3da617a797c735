------------------------------- MODULE Geometry -------------------------------
(***************************************************************************)
(* Boxes and small arithmetic the page modules share.  A box is             *)
(* [x1, y1, x2, y2] in pixels, half open, as in BoundingBox of              *)
(* pipeline/document.py.                                                    *)
(***************************************************************************)
EXTENDS Integers, Sequences, FiniteSets, FiniteSetsExt, SequencesExt

Smaller(a, b) == IF a < b THEN a ELSE b
Larger(a, b)  == IF a < b THEN b ELSE a

(* The elements of S in the strict total order Less (SetToSortSeq would     *)
(* enumerate every sequence over S).                                        *)
Ranked(S, Less(_, _)) ==
    [i \in 1..Cardinality(S) |->
        CHOOSE x \in S : Cardinality({y \in S : Less(y, x)}) = i - 1]

(* The elements of the sequence s at the places in I, in their order.        *)
Selected(s, I) ==
    LET at == Ranked(I, LAMBDA i, j : i < j) IN [k \in DOMAIN at |-> s[at[k]]]

(* The sequence s by Less, ties as they were (SortSeq leaves their order     *)
(* open): Python's sort is stable.                                          *)
Sorted(s, Less(_, _)) ==
    LET first(i, j) == Less(s[i], s[j]) \/ (~Less(s[j], s[i]) /\ i < j)
        at == Ranked(DOMAIN s, first)
    IN  [k \in DOMAIN s |-> s[at[k]]]

(* Box and the like make these; a box need not be a valid one.              *)
BoxSet == [x1 : Int, y1 : Int, x2 : Int, y2 : Int]

Width(b)  == b.x2 - b.x1
Height(b) == b.y2 - b.y1
Area(b)   == Width(b) * Height(b)

ValidBox(b) == 0 <= b.x1 /\ b.x1 < b.x2 /\ 0 <= b.y1 /\ b.y1 < b.y2

Encloses(outer, b) ==
    outer.x1 <= b.x1 /\ outer.y1 <= b.y1 /\ b.x2 <= outer.x2 /\ b.y2 <= outer.y2

Shared(a, b) ==
    Larger(0, Smaller(a.x2, b.x2) - Larger(a.x1, b.x1))
    * Larger(0, Smaller(a.y2, b.y2) - Larger(a.y1, b.y1))

(* The midpoints are doubled: (x1 + x2) / 2 is not rounded in the code. *)
ContainsCenter(outer, b) ==
    /\ 2 * outer.x1 <= b.x1 + b.x2 /\ b.x1 + b.x2 < 2 * outer.x2
    /\ 2 * outer.y1 <= b.y1 + b.y2 /\ b.y1 + b.y2 < 2 * outer.y2

Box(x1, y1, x2, y2) == [x1 |-> x1, y1 |-> y1, x2 |-> x2, y2 |-> y2]

Meet(a, b) == Box(Larger(a.x1, b.x1), Larger(a.y1, b.y1),
                  Smaller(a.x2, b.x2), Smaller(a.y2, b.y2))

(* The smallest box around a non-empty set of boxes. *)
Hull(boxes) == Box(Min({b.x1 : b \in boxes}), Min({b.y1 : b \in boxes}),
                   Max({b.x2 : b \in boxes}), Max({b.y2 : b \in boxes}))

Padded(b, pad) == Box(b.x1 - pad, b.y1 - pad, b.x2 + pad, b.y2 + pad)

Clamp(n, low, high) == Larger(low, Smaller(n, high))

Total(numbers) ==
    LET sum[i \in 0..Len(numbers)] == IF i = 0 THEN 0 ELSE sum[i - 1] + numbers[i]
    IN  sum[Len(numbers)]

(* Python's round(a / b): half to even. *)
RoundDiv(a, b) ==
    IF 2 * (a % b) < b \/ (2 * (a % b) = b /\ (a \div b) % 2 = 0)
    THEN a \div b ELSE a \div b + 1

(* Twice the median of a sequence of integers (np.median averages the two   *)
(* in the middle).                                                          *)
TwiceMedian(s) ==
    LET sorted == Sorted(s, LAMBDA a, b : a < b)
    IN  sorted[(Len(s) + 1) \div 2] + sorted[Len(s) \div 2 + 1]

=============================================================================
