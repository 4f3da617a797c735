----------------------------- MODULE ReadingProofs -----------------------------
(***************************************************************************)
(* What finalize_detections (pipeline/detection.py) promises to the stages  *)
(* after it, for every set of detections: a collection they accept, in      *)
(* which nothing is missing; and what the sorting and grouping of the lines *)
(* of a webtoon (webtoon/ocr.py, webtoon/processor.py) makes of them.  Then *)
(* what the proofs of the other algorithms share: recursive functions step  *)
(* by step, totals, rounding, sequences in an order.  Last, what merging    *)
(* two OCR passes and stitching strips leaves of the lines.                 *)
(* Ranked, FoldLeft, FlattenSeq and the recursive functions of the model    *)
(* are defined by CHOOSE or recursion, so each is shown to be what its use  *)
(* takes for granted.                                                       *)
(***************************************************************************)
EXTENDS Detection, WebtoonText, FiniteSetTheorems, SequenceTheorems, WellFoundedInduction, TLAPS

-----------------------------------------------------------------------------
(* Induction, maxima and folds.                                             *)

(* Induction over the naturals, for a set rather than for a predicate: the  *)
(* form the provers can use.                                                *)
LEMMA SetInduction ==
    ASSUME NEW P, 0 \in P, \A n \in Nat : n \in P => n + 1 \in P
    PROVE  Nat \subseteq P
<1>1. SUFFICES ASSUME Nat \ P # {} PROVE FALSE
  OBVIOUS
<1> DEFINE R == OpToRel(<, Nat)
<1>2. IsWellFoundedOn(R, Nat)
  BY NatLessThanWellFounded
<1>3. \A x, y \in Nat : y < x => <<y, x>> \in R
  BY DEF OpToRel
<1> HIDE DEF R
<1>4. PICK x \in Nat \ P : \A y \in Nat \ P : ~ (<<y, x>> \in R)
  <2> DEFINE T == Nat \ P
  <2>1. T \subseteq Nat /\ T # {}
    BY <1>1
  <2> HIDE DEF T
  <2>2. \E x \in T : \A y \in T : ~ (<<y, x>> \in R)
    BY <1>2, <2>1, WFMin
  <2> QED
    BY <2>2 DEF T
<1>5. x # 0
  OBVIOUS
<1>6. x - 1 \in Nat
  BY <1>5
<1>7. x - 1 < x /\ (x - 1) + 1 = x
  BY <1>6
<1>8. <<x - 1, x>> \in R
  BY <1>3, <1>6, <1>7
<1>9. x - 1 \in P
  BY <1>4, <1>6, <1>8
<1> QED
  BY <1>4, <1>6, <1>7, <1>9

(* The greatest of a set of numbers up to n.                                *)
LEMMA MaxUpTo ==
    ASSUME NEW n \in Nat
    PROVE  \A S \in SUBSET (1..n) : S # {} => Max(S) \in S /\ \A x \in S : x <= Max(S)
<1> DEFINE Q(m) == \A S \in SUBSET (1..m) : S # {} => \E x \in S : \A y \in S : y <= x
           P == {m \in Nat : Q(m)}
<1>1. Q(0)
  <2>1. 1..0 = {}
    OBVIOUS
  <2> QED
    BY <2>1
<1>2. ASSUME NEW m \in Nat, Q(m) PROVE Q(m + 1)
  <2> SUFFICES ASSUME NEW S \in SUBSET (1..(m + 1)), S # {}
               PROVE  \E x \in S : \A y \in S : y <= x
    OBVIOUS
  <2>1. CASE m + 1 \in S
    BY <2>1
  <2>2. CASE m + 1 \notin S
    <3>1. S \in SUBSET (1..m)
      BY <2>2
    <3> QED
      BY <3>1, <1>2
  <2> QED
    BY <2>1, <2>2
<1>3. \A m \in Nat : Q(m)
  <2> HIDE DEF Q
  <2>1. 0 \in P
    BY <1>1
  <2>2. \A m \in Nat : m \in P => m + 1 \in P
    BY <1>2
  <2> HIDE DEF P
  <2>3. Nat \subseteq P
    BY <2>1, <2>2, SetInduction
  <2> QED
    BY <2>3 DEF P
<1>4. Q(n)
  <2> HIDE DEF Q
  <2> QED
    BY <1>3
<1> QED
  BY <1>4 DEF Max

(* What the greatest number of a set is when the range grows by one.        *)
LEMMA MaxWithNew ==
    ASSUME NEW m \in Nat, NEW s \in SUBSET (1..(m + 1)), s # {}
    PROVE  /\ Max(s) \in s /\ s \ {m + 1} \in SUBSET (1..m)
           /\ m + 1 \in s => Max(s) = m + 1
           /\ m + 1 \notin s => s \in SUBSET (1..m) /\ s \ {Max(s)} \in SUBSET (1..m)
<1>0. m + 1 \in Nat
  OBVIOUS
<1>1. Max(s) \in s /\ \A x \in s : x <= Max(s)
  BY <1>0, MaxUpTo
<1> DEFINE M == Max(s)
<1>2. M \in 1..(m + 1)
  BY <1>1
<1> HIDE DEF M
<1>3. m + 1 \in s => m + 1 <= M
  BY <1>1 DEF M
<1>4. m + 1 \in s => M = m + 1
  BY <1>2, <1>3
<1>5. s \ {m + 1} \in SUBSET (1..m)
  OBVIOUS
<1>6. m + 1 \notin s => s \in SUBSET (1..m)
  OBVIOUS
<1> QED
  BY <1>1, <1>4, <1>5, <1>6 DEF M

(* h folds the sets of numbers up to n, greatest number last, as FoldLeft   *)
(* folds a sequence: D[k] is what the k-th element does.                    *)
IsFold(h, n, A, base, D) ==
    /\ h \in [SUBSET (1..n) -> A]
    /\ h[{}] = base
    /\ \A s \in SUBSET (1..n) : s # {} => h[s] = D[Max(s)][h[s \ {Max(s)}]]

(* A fold over the numbers up to n exists when each of them maps A to A.    *)
LEMMA FoldExists ==
    ASSUME NEW n \in Nat, NEW A, NEW base \in A, NEW D \in [1..n -> [A -> A]]
    PROVE  \E h : IsFold(h, n, A, base, D)
<1> DEFINE G(m, h) == /\ h[{}] = base
                      /\ \A s \in SUBSET (1..m) : s # {} => h[s] = D[Max(s)][h[s \ {Max(s)}]]
           Q(m) == m <= n => \E h \in [SUBSET (1..m) -> A] : G(m, h)
           P == {m \in Nat : Q(m)}
<1>1. Q(0)
  <2> DEFINE h0 == [s \in SUBSET (1..0) |-> base]
  <2>1. 1..0 = {} /\ {} \in SUBSET (1..0)
    OBVIOUS
  <2>2. h0 \in [SUBSET (1..0) -> A] /\ h0[{}] = base
    BY <2>1
  <2>3. \A s \in SUBSET (1..0) : s = {}
    BY <2>1
  <2> HIDE DEF h0
  <2>4. G(0, h0)
    BY <2>2, <2>3
  <2> QED
    BY <2>2, <2>4
<1>2. ASSUME NEW m \in Nat, Q(m) PROVE Q(m + 1)
  <2> SUFFICES ASSUME m + 1 <= n PROVE \E h \in [SUBSET (1..(m + 1)) -> A] : G(m + 1, h)
    OBVIOUS
  <2>1. PICK g \in [SUBSET (1..m) -> A] : G(m, g)
    <3>1. m <= n
      OBVIOUS
    <3> HIDE DEF G
    <3> QED
      BY <1>2, <3>1
  <2> DEFINE h == [s \in SUBSET (1..(m + 1)) |->
                      IF m + 1 \in s THEN D[m + 1][g[s \ {m + 1}]] ELSE g[s]]
  <2>2. \A s \in SUBSET (1..(m + 1)) : s \ {m + 1} \in SUBSET (1..m)
    OBVIOUS
  <2>3. D[m + 1] \in [A -> A]
    OBVIOUS
  <2>4. ASSUME NEW s \in SUBSET (1..(m + 1)) PROVE h[s] \in A
    <3>1. g[s \ {m + 1}] \in A
      BY <2>2
    <3>2. CASE m + 1 \in s
      BY <3>1, <3>2, <2>3
    <3>3. CASE m + 1 \notin s
      <4>1. s \ {m + 1} = s
        BY <3>3
      <4> QED
        BY <3>1, <3>3, <4>1
    <3> QED
      BY <3>2, <3>3
  <2>5. h \in [SUBSET (1..(m + 1)) -> A]
    BY <2>4
  <2>6. \A s \in SUBSET (1..m) : s \in SUBSET (1..(m + 1)) /\ m + 1 \notin s /\ h[s] = g[s]
    OBVIOUS
  <2>7. h[{}] = base
    BY <2>1, <2>6
  <2>8. ASSUME NEW s \in SUBSET (1..(m + 1)), s # {}
        PROVE  h[s] = D[Max(s)][h[s \ {Max(s)}]]
    <3>2. CASE m + 1 \in s
      <4>1. Max(s) = m + 1
        BY <2>8, <3>2, MaxWithNew
      <4>2. h[s \ {m + 1}] = g[s \ {m + 1}]
        BY <2>2, <2>6
      <4>3. h[s] = D[m + 1][g[s \ {m + 1}]]
        BY <3>2
      <4> QED
        BY <4>1, <4>2, <4>3
    <3>3. CASE m + 1 \notin s
      <4>1. s \in SUBSET (1..m) /\ s \ {Max(s)} \in SUBSET (1..m)
        BY <2>8, <3>3, MaxWithNew
      <4>2. h[s] = g[s] /\ h[s \ {Max(s)}] = g[s \ {Max(s)}]
        BY <4>1, <2>6
      <4>3. g[s] = D[Max(s)][g[s \ {Max(s)}]]
        BY <4>1, <2>1, <2>8
      <4> QED
        BY <4>2, <4>3
    <3> QED
      BY <3>2, <3>3
  <2> HIDE DEF h
  <2>9. G(m + 1, h)
    BY <2>7, <2>8
  <2> QED
    BY <2>5, <2>9
<1>3. \A m \in Nat : Q(m)
  <2> HIDE DEF Q
  <2>1. 0 \in P
    BY <1>1
  <2>2. \A m \in Nat : m \in P => m + 1 \in P
    BY <1>2
  <2> HIDE DEF P
  <2>3. Nat \subseteq P
    BY <2>1, <2>2, SetInduction
  <2> QED
    BY <2>3 DEF P
<1>4. PICK h \in [SUBSET (1..n) -> A] : G(n, h)
  <2>1. Q(n)
    BY <1>3
  <2>2. n <= n
    OBVIOUS
  <2> HIDE DEF G
  <2> QED
    BY <2>1, <2>2
<1> QED
  BY <1>4 DEF IsFold

(* The subsets a fold passes through.                                       *)
LEMMA FoldStep ==
    /\ 1..0 = {}
    /\ \A k \in Nat \ {0} : /\ 1..k # {} /\ Max(1..k) = k
                            /\ (1..k) \ {k} = 1..(k - 1)
<1> SUFFICES ASSUME NEW k \in Nat \ {0}
             PROVE  1..k # {} /\ Max(1..k) = k /\ (1..k) \ {k} = 1..(k - 1)
  OBVIOUS
<1>1. Max(1..k) \in 1..k /\ \A x \in 1..k : x <= Max(1..k)
  <2>1. k \in 1..k
    OBVIOUS
  <2> QED
    BY <2>1, MaxUpTo
<1> DEFINE M == Max(1..k)
<1>2. M \in 1..k /\ k <= M
  BY <1>1
<1> HIDE DEF M
<1>3. M = k
  BY <1>2
<1> QED
  BY <1>3 DEF M

(* The suppression as steps: what is kept after each of the ranked          *)
(* detections.                                                              *)
LEMMA Dedup ==
    ASSUME NEW X, NEW ranked \in Seq(X)
    PROVE  LET fold == FoldLeft(LAMBDA kept, d : IF \E k \in kept : Duplicates(d, k)
                                                 THEN kept ELSE kept \cup {d}, {}, ranked) IN
           \E acc : /\ acc[0] = {} /\ fold = acc[Len(ranked)]
                    /\ \A k \in 1..Len(ranked) :
                         acc[k] = IF \E e \in acc[k - 1] : Duplicates(ranked[k], e)
                                  THEN acc[k - 1] ELSE acc[k - 1] \cup {ranked[k]}
<1> DEFINE n == Len(ranked)
           A == SUBSET X
           op(kept, d) == IF \E k \in kept : Duplicates(d, k) THEN kept ELSE kept \cup {d}
           D == [k \in 1..n |-> [a \in A |-> op(a, ranked[k])]]
           iter[s \in SUBSET (1..n)] ==
                IF s = {} THEN {} ELSE op(iter[s \ {Max(s)}], ranked[Max(s)])
<1>1. n \in Nat /\ DOMAIN ranked = 1..n
  OBVIOUS
<1>2. FoldLeft(op, {}, ranked) = iter[1..n]
  BY <1>1 DEF FoldLeft, MapThenFoldSet
<1>3. D \in [1..n -> [A -> A]]
  OBVIOUS
<1>4. PICK h : IsFold(h, n, A, {}, D)
  <2>1. {} \in A
    OBVIOUS
  <2>2. n \in Nat
    BY <1>1
  <2> HIDE DEF D, A, n
  <2> QED
    BY <1>3, <2>1, <2>2, FoldExists
<1>5. h = [s \in SUBSET (1..n) |-> IF s = {} THEN {} ELSE op(h[s \ {Max(s)}], ranked[Max(s)])]
  <2>1. ASSUME NEW s \in SUBSET (1..n), s # {}
        PROVE  D[Max(s)][h[s \ {Max(s)}]] = op(h[s \ {Max(s)}], ranked[Max(s)])
    <3>1. Max(s) \in 1..n
      BY <1>1, <2>1, MaxUpTo
    <3>2. h[s \ {Max(s)}] \in A
      BY <1>4 DEF IsFold
    <3> HIDE DEF A, op
    <3> QED
      BY <3>1, <3>2
  <2> HIDE DEF op, D
  <2> QED
    BY <1>4, <2>1 DEF IsFold
<1>6. iter = [s \in SUBSET (1..n) |-> IF s = {} THEN {} ELSE op(iter[s \ {Max(s)}], ranked[Max(s)])]
  <2> HIDE DEF op, D
  <2> QED
    BY <1>5
<1> DEFINE acc == [k \in 0..n |-> iter[1..k]]
<1>7. acc[0] = {}
  <2>1. 1..0 = {} /\ {} \in SUBSET (1..n) /\ 0 \in 0..n
    BY <1>1
  <2> HIDE DEF n, iter
  <2> QED
    BY <1>6, <2>1
<1>8. ASSUME NEW k \in 1..n PROVE acc[k] = op(acc[k - 1], ranked[k])
  <2>1. k \in 0..n /\ k - 1 \in 0..n /\ k \in Nat \ {0} /\ 1..k \in SUBSET (1..n)
    BY <1>1
  <2>2. 1..k # {} /\ Max(1..k) = k /\ (1..k) \ {k} = 1..(k - 1)
    BY <2>1, FoldStep
  <2> HIDE DEF n, iter, op
  <2>3. iter[1..k] = op(iter[1..(k - 1)], ranked[k])
    BY <1>6, <2>1, <2>2
  <2> QED
    BY <2>1, <2>3
<1>9. FoldLeft(op, {}, ranked) = acc[n]
  <2>1. n \in 0..n
    BY <1>1
  <2> HIDE DEF n, iter, op
  <2> QED
    BY <2>1, <1>2
<1> HIDE DEF acc
<1> QED
  BY <1>7, <1>8, <1>9

(* A fold as steps: what it holds after each number.                        *)
LEMMA FoldSteps ==
    ASSUME NEW n \in Nat, NEW A, NEW base, NEW D, NEW h, IsFold(h, n, A, base, D)
    PROVE  \E acc \in [0..n -> A] :
                /\ acc[0] = base /\ acc[n] = h[1..n]
                /\ \A k \in 1..n : acc[k] = D[k][acc[k - 1]]
<1> DEFINE acc == [k \in 0..n |-> h[1..k]]
<1>1. ASSUME NEW k \in 0..n PROVE 1..k \in SUBSET (1..n)
  OBVIOUS
<1>2. acc \in [0..n -> A]
  BY <1>1 DEF IsFold
<1>3. acc[0] = base /\ acc[n] = h[1..n]
  BY FoldStep DEF IsFold
<1>4. ASSUME NEW k \in 1..n PROVE acc[k] = D[k][acc[k - 1]]
  <2>1. k \in Nat \ {0} /\ k \in 0..n /\ k - 1 \in 0..n /\ 1..k \in SUBSET (1..n)
    OBVIOUS
  <2>2. 1..k # {} /\ Max(1..k) = k /\ (1..k) \ {k} = 1..(k - 1)
    BY <2>1, FoldStep
  <2>3. h[1..k] = D[k][h[1..(k - 1)]]
    BY <2>1, <2>2 DEF IsFold
  <2> QED
    BY <2>1, <2>3
<1> HIDE DEF acc
<1> QED
  BY <1>2, <1>3, <1>4

-----------------------------------------------------------------------------
(* Finite sets in a strict order.                                           *)

(* R, a set of pairs, is a strict total order of S.                         *)
StrictOrder(R, S) ==
    /\ \A x \in S : <<x, x>> \notin R
    /\ \A x, y, z \in S : <<x, y>> \in R /\ <<y, z>> \in R => <<x, z>> \in R
    /\ \A x, y \in S : x # y => <<x, y>> \in R \/ <<y, x>> \in R

(* What precedes x.                                                         *)
Below(R, S, x) == {y \in S : <<y, x>> \in R}

(* The further up an element, the more precedes it.                         *)
LEMMA BelowGrows ==
    ASSUME NEW S, IsFiniteSet(S), NEW R, StrictOrder(R, S), NEW x \in S
    PROVE  /\ Cardinality(Below(R, S, x)) \in Nat
           /\ Cardinality(Below(R, S, x)) < Cardinality(S)
           /\ \A y \in S : <<x, y>> \in R =>
                Cardinality(Below(R, S, x)) < Cardinality(Below(R, S, y))
<1>1. \A y \in S : IsFiniteSet(Below(R, S, y)) /\ Cardinality(Below(R, S, y)) \in Nat
  <2> SUFFICES ASSUME NEW y \in S
               PROVE  IsFiniteSet(Below(R, S, y)) /\ Cardinality(Below(R, S, y)) \in Nat
    OBVIOUS
  <2>1. Below(R, S, y) \in SUBSET S
    BY DEF Below
  <2>2. IsFiniteSet(Below(R, S, y))
    BY <2>1, FS_Subset
  <2> QED
    BY <2>2, FS_CardinalityType
<1>2. Cardinality(S) \in Nat
  BY FS_CardinalityType
<1>3. Cardinality(Below(R, S, x)) < Cardinality(S)
  <2>1. Below(R, S, x) \in SUBSET S
    BY DEF Below
  <2>2. x \notin Below(R, S, x)
    BY DEF Below, StrictOrder
  <2>3. Below(R, S, x) # S
    BY <2>2
  <2>4. Cardinality(Below(R, S, x)) <= Cardinality(S) /\ Cardinality(S) # Cardinality(Below(R, S, x))
    BY <2>1, <2>3, FS_Subset
  <2> QED
    BY <2>4, <1>1, <1>2
<1>4. ASSUME NEW y \in S, <<x, y>> \in R
      PROVE  Cardinality(Below(R, S, x)) < Cardinality(Below(R, S, y))
  <2>1. Below(R, S, x) \in SUBSET Below(R, S, y)
    BY <1>4 DEF Below, StrictOrder
  <2>2. x \notin Below(R, S, x) /\ x \in Below(R, S, y)
    BY <1>4 DEF Below, StrictOrder
  <2>3. Below(R, S, x) # Below(R, S, y)
    BY <2>2
  <2>4. /\ Cardinality(Below(R, S, x)) <= Cardinality(Below(R, S, y))
        /\ Cardinality(Below(R, S, y)) # Cardinality(Below(R, S, x))
    BY <1>1, <2>1, <2>3, FS_Subset
  <2> QED
    BY <2>4, <1>1
<1> QED
  BY <1>1, <1>3, <1>4

(* Every rank is taken, so the CHOOSE of Ranked has something to choose.    *)
LEMMA RankOnto ==
    ASSUME NEW S, IsFiniteSet(S), NEW R, StrictOrder(R, S)
    PROVE  \A i \in 1..Cardinality(S) : \E x \in S : Cardinality(Below(R, S, x)) = i - 1
<1> DEFINE T == 1..Cardinality(S)
           f == [x \in S |-> Cardinality(Below(R, S, x)) + 1]
<1>1. Cardinality(S) \in Nat
  BY FS_CardinalityType
<1>2. IsFiniteSet(T) /\ Cardinality(T) = Cardinality(S)
  BY <1>1, FS_Interval
<1>3. f \in [S -> T]
  <2>1. \A x \in S : Cardinality(Below(R, S, x)) + 1 \in T
    BY <1>1, BelowGrows
  <2> QED
    BY <2>1
<1>4. ASSUME NEW x \in S, NEW y \in S, f[x] = f[y] PROVE x = y
  <2>1. Cardinality(Below(R, S, x)) = Cardinality(Below(R, S, y))
    BY <1>4, BelowGrows
  <2>2. ~(<<x, y>> \in R) /\ ~(<<y, x>> \in R)
    BY <2>1, BelowGrows
  <2> QED
    BY <2>2 DEF StrictOrder
<1> HIDE DEF T
<1>5. f \in Injection(S, T)
  <2> HIDE DEF f
  <2> QED
    BY <1>3, <1>4 DEF Injection, IsInjective
<1>6. f \in Surjection(S, T)
  <2> HIDE DEF f
  <2> QED
    BY <1>2, <1>5, FS_Injection
<1>7. \A i \in T : \E x \in S : f[x] = i
  <2> HIDE DEF f
  <2> QED
    BY <1>6 DEF Surjection
<1>8. ASSUME NEW i \in T PROVE \E x \in S : Cardinality(Below(R, S, x)) = i - 1
  <2>1. PICK x \in S : Cardinality(Below(R, S, x)) + 1 = i
    BY <1>7
  <2> QED
    BY <2>1, BelowGrows
<1> QED
  BY <1>8 DEF T

(* s lists the elements of S, each once.                                    *)
Enumerates(s, S) ==
    /\ s \in Seq(S)
    /\ \A i, j \in DOMAIN s : s[i] = s[j] => i = j
    /\ \A x \in S : \E i \in DOMAIN s : s[i] = x

(* A sequence in which the i-th element has rank i - 1 lists the set in     *)
(* order.                                                                   *)
LEMMA EnumeratedByRank ==
    ASSUME NEW S, IsFiniteSet(S), NEW R, StrictOrder(R, S),
           NEW s \in [1..Cardinality(S) -> S],
           \A i \in 1..Cardinality(S) : Cardinality(Below(R, S, s[i])) = i - 1
    PROVE  /\ Enumerates(s, S) /\ Len(s) = Cardinality(S)
           /\ \A i, j \in 1..Cardinality(S) : i < j => <<s[i], s[j]>> \in R
<1>1. Cardinality(S) \in Nat
  BY FS_CardinalityType
<1>2. s \in Seq(S) /\ Len(s) = Cardinality(S) /\ DOMAIN s = 1..Cardinality(S)
  BY <1>1
<1>3. ASSUME NEW i \in 1..Cardinality(S), NEW j \in 1..Cardinality(S), s[i] = s[j]
      PROVE  i = j
  <2>1. i - 1 = j - 1
    BY <1>3
  <2> QED
    BY <2>1
<1>4. ASSUME NEW x \in S PROVE \E i \in 1..Cardinality(S) : s[i] = x
  <2> DEFINE c == Cardinality(Below(R, S, x))
  <2>1. c \in Nat /\ c < Cardinality(S)
    BY BelowGrows
  <2>2. c + 1 \in 1..Cardinality(S) /\ (c + 1) - 1 = c
    BY <1>1, <2>1
  <2>3. s[c + 1] \in S /\ Cardinality(Below(R, S, s[c + 1])) = c
    BY <2>2
  <2>4. ~(<<s[c + 1], x>> \in R) /\ ~(<<x, s[c + 1]>> \in R)
    BY <2>1, <2>3, BelowGrows
  <2>5. s[c + 1] = x
    BY <2>3, <2>4 DEF StrictOrder
  <2> QED
    BY <2>2, <2>5
<1>5. ASSUME NEW i \in 1..Cardinality(S), NEW j \in 1..Cardinality(S), i < j
      PROVE  <<s[i], s[j]>> \in R
  <2>1. s[i] \in S /\ s[j] \in S
    OBVIOUS
  <2>2. s[i] # s[j]
    BY <1>3, <1>5
  <2>3. ~(<<s[j], s[i]>> \in R)
    <3>1. Cardinality(Below(R, S, s[i])) = i - 1 /\ Cardinality(Below(R, S, s[j])) = j - 1
      OBVIOUS
    <3>2. SUFFICES ASSUME <<s[j], s[i]>> \in R PROVE FALSE
      OBVIOUS
    <3>3. Cardinality(Below(R, S, s[j])) < Cardinality(Below(R, S, s[i]))
      BY <2>1, <3>2, BelowGrows
    <3> QED
      BY <3>1, <3>3, <1>5
  <2> QED
    BY <2>1, <2>2, <2>3 DEF StrictOrder
<1> QED
  BY <1>2, <1>3, <1>4, <1>5 DEF Enumerates

(* A finite set has a least element.                                        *)
LEMMA LeastExists ==
    ASSUME NEW S, IsFiniteSet(S), S # {}, NEW R, StrictOrder(R, S)
    PROVE  \E x \in S : \A y \in S \ {x} : <<x, y>> \in R
<1>1. 1 \in 1..Cardinality(S)
  <2>1. Cardinality(S) \in Nat /\ Cardinality(S) # 0
    BY FS_CardinalityType, FS_EmptySet
  <2> QED
    BY <2>1
<1>2. PICK x \in S : Cardinality(Below(R, S, x)) = 1 - 1
  BY <1>1, RankOnto
<1>3. Below(R, S, x) = {}
  <2>1. Below(R, S, x) \in SUBSET S
    BY DEF Below
  <2>2. IsFiniteSet(Below(R, S, x))
    BY <2>1, FS_Subset
  <2> QED
    BY <1>2, <2>2, FS_EmptySet
<1>4. \A y \in S \ {x} : ~(<<y, x>> \in R)
  BY <1>3 DEF Below
<1> QED
  BY <1>4 DEF StrictOrder

(* A finite non-empty set of integers has a least number, and Min is it.    *)
LEMMA MinOfFinite ==
    ASSUME NEW S \in SUBSET Int, IsFiniteSet(S), S # {}
    PROVE  Min(S) \in S /\ \A x \in S : Min(S) <= x
<1> DEFINE R == {p \in Int \X Int : p[1] < p[2]}
<1>1. \A x, y \in Int : <<x, y>> \in R <=> x < y
  OBVIOUS
<1> HIDE DEF R
<1>2. StrictOrder(R, S)
  BY <1>1 DEF StrictOrder
<1>3. PICK x \in S : \A y \in S \ {x} : <<x, y>> \in R
  BY <1>2, LeastExists
<1>4. ASSUME NEW y \in S PROVE x <= y
  <2>1. y # x => x < y
    BY <1>1, <1>3
  <2> QED
    BY <2>1
<1> QED
  BY <1>4 DEF Min

(* It has a greatest number, and Max is it.                                 *)
LEMMA MaxOfFinite ==
    ASSUME NEW S \in SUBSET Int, IsFiniteSet(S), S # {}
    PROVE  Max(S) \in S /\ \A x \in S : x <= Max(S)
<1> DEFINE R == {p \in Int \X Int : p[1] > p[2]}
<1>1. \A x, y \in Int : <<x, y>> \in R <=> x > y
  OBVIOUS
<1> HIDE DEF R
<1>2. StrictOrder(R, S)
  BY <1>1 DEF StrictOrder
<1>3. PICK x \in S : \A y \in S \ {x} : <<x, y>> \in R
  BY <1>2, LeastExists
<1>4. ASSUME NEW y \in S PROVE y <= x
  <2>1. y # x => x > y
    BY <1>1, <1>3
  <2> QED
    BY <2>1
<1> QED
  BY <1>4 DEF Max

(* The image of a finite set is finite.                                     *)
LEMMA ImageFinite ==
    ASSUME NEW S, IsFiniteSet(S), NEW f, DOMAIN f = S
    PROVE  IsFiniteSet({f[x] : x \in S})
<1> DEFINE T == {f[x] : x \in S}
           g == [x \in S |-> f[x]]
<1>1. g \in [S -> T] /\ \A t \in T : \E x \in S : g[x] = t
  OBVIOUS
<1> HIDE DEF g, T
<1>2. g \in Surjection(S, T)
  BY <1>1 DEF Surjection
<1>3. IsFiniteSet(T)
  BY <1>2, FS_Surjection
<1> QED
  BY <1>3 DEF T

-----------------------------------------------------------------------------
(* Sequences of sequences.                                                  *)

(* What a concatenation holds, and when it repeats nothing.                 *)
LEMMA Concatenation ==
    ASSUME NEW S, NEW s \in Seq(S), NEW t \in Seq(S)
    PROVE  /\ s \o t \in Seq(S) /\ Len(s \o t) = Len(s) + Len(t)
           /\ Range(s \o t) = Range(s) \cup Range(t)
           /\ IsInjective(s) /\ IsInjective(t) /\ Range(s) \cap Range(t) = {}
                => IsInjective(s \o t)
<1> DEFINE u == s \o t
           m == Len(s)
           n == Len(t)
<1>1. m \in Nat /\ n \in Nat /\ DOMAIN s = 1..m /\ DOMAIN t = 1..n
  OBVIOUS
<1>2. u \in Seq(S) /\ Len(u) = m + n /\ DOMAIN u = 1..(m + n)
  OBVIOUS
<1>3. \A i \in 1..m : u[i] = s[i]
  OBVIOUS
<1>4. \A i \in 1..n : u[m + i] = t[i]
  OBVIOUS
<1> HIDE DEF u, m, n
<1>5. ASSUME NEW i \in 1..(m + n)
      PROVE  \/ i \in 1..m
             \/ i - m \in 1..n /\ i = m + (i - m)
  BY <1>1
<1>6. ASSUME NEW i \in 1..(m + n)
      PROVE  \/ i \in 1..m /\ u[i] = s[i]
             \/ i - m \in 1..n /\ u[i] = t[i - m]
  BY <1>3, <1>4, <1>5
<1>7. Range(u) = Range(s) \cup Range(t)
  <2>1. \A i \in 1..m : i \in 1..(m + n)
    BY <1>1
  <2>2. \A i \in 1..n : m + i \in 1..(m + n)
    BY <1>1
  <2>3. ASSUME NEW x \in Range(s) PROVE x \in Range(u)
    BY <1>1, <1>2, <1>3, <2>1 DEF Range
  <2>4. ASSUME NEW x \in Range(t) PROVE x \in Range(u)
    BY <1>1, <1>2, <1>4, <2>2 DEF Range
  <2>5. ASSUME NEW x \in Range(u) PROVE x \in Range(s) \cup Range(t)
    BY <1>1, <1>2, <1>6 DEF Range
  <2> QED
    BY <2>3, <2>4, <2>5
<1>8. ASSUME IsInjective(s), IsInjective(t), Range(s) \cap Range(t) = {}
      PROVE  IsInjective(u)
  <2> SUFFICES ASSUME NEW i \in 1..(m + n), NEW j \in 1..(m + n), u[i] = u[j]
               PROVE  i = j
    BY <1>2 DEF IsInjective
  <2>1. \A a \in 1..m : s[a] \in Range(s)
    BY <1>1 DEF Range
  <2>2. \A a \in 1..n : t[a] \in Range(t)
    BY <1>1 DEF Range
  <2>3. CASE i \in 1..m /\ j \in 1..m
    BY <2>3, <1>1, <1>3, <1>8 DEF IsInjective
  <2>4. CASE i - m \in 1..n /\ j - m \in 1..n
    <3>1. u[i] = t[i - m] /\ u[j] = t[j - m]
      BY <2>4, <1>4, <1>1
    <3>2. i - m = j - m
      BY <2>4, <3>1, <1>1, <1>8 DEF IsInjective
    <3> QED
      BY <3>2, <1>1
  <2>5. CASE i \in 1..m /\ j - m \in 1..n
    <3>1. u[i] = s[i] /\ u[j] = t[j - m]
      BY <2>5, <1>3, <1>4, <1>1
    <3> QED
      BY <3>1, <2>1, <2>2, <2>5, <1>8
  <2>6. CASE j \in 1..m /\ i - m \in 1..n
    <3>1. u[j] = s[j] /\ u[i] = t[i - m]
      BY <2>6, <1>3, <1>4, <1>1
    <3> QED
      BY <3>1, <2>1, <2>2, <2>6, <1>8
  <2> QED
    BY <2>3, <2>4, <2>5, <2>6, <1>5
<1> QED
  BY <1>2, <1>7, <1>8 DEF u, m, n

(* f[i] is the concatenation of the first i sequences of ss.                *)
IsFlattened(f, ss, m) ==
    \A i \in 1..m : f[i] = IF i = 1 THEN ss[i] ELSE f[i - 1] \o ss[i]

(* There is one for every sequence of sequences.                            *)
LEMMA FlattenExists ==
    ASSUME NEW S, NEW n \in Nat, NEW ss \in [1..n -> Seq(S)]
    PROVE  \E f \in [1..n -> Seq(S)] : IsFlattened(f, ss, n)
<1> DEFINE Q(m) == m <= n => \E f \in [1..m -> Seq(S)] : IsFlattened(f, ss, m)
           P == {m \in Nat : Q(m)}
<1>1. Q(0)
  <2> DEFINE f0 == [i \in 1..0 |-> ss[i]]
  <2>1. f0 \in [1..0 -> Seq(S)] /\ \A i \in 1..0 : FALSE
    OBVIOUS
  <2> HIDE DEF f0
  <2>2. IsFlattened(f0, ss, 0)
    BY <2>1 DEF IsFlattened
  <2> QED
    BY <2>1, <2>2
<1>2. ASSUME NEW m \in Nat, Q(m) PROVE Q(m + 1)
  <2> SUFFICES ASSUME m + 1 <= n
               PROVE  \E f \in [1..(m + 1) -> Seq(S)] : IsFlattened(f, ss, m + 1)
    OBVIOUS
  <2>1. m <= n /\ m + 1 \in 1..n
    OBVIOUS
  <2>2. PICK g \in [1..m -> Seq(S)] : IsFlattened(g, ss, m)
    BY <1>2, <2>1
  <2> DEFINE f == [i \in 1..(m + 1) |->
                      IF i = m + 1 THEN IF m = 0 THEN ss[1] ELSE g[m] \o ss[m + 1] ELSE g[i]]
  <2>3. ASSUME NEW i \in 1..(m + 1) PROVE f[i] \in Seq(S)
    <3>1. CASE i = m + 1
      <4>1. CASE m = 0
        BY <2>1, <3>1, <4>1
      <4>2. CASE m # 0
        <5>1. g[m] \in Seq(S) /\ ss[m + 1] \in Seq(S)
          BY <2>1, <4>2
        <5>2. g[m] \o ss[m + 1] \in Seq(S)
          BY <5>1
        <5> QED
          BY <3>1, <4>2, <5>2
      <4> QED
        BY <4>1, <4>2
    <3>2. CASE i # m + 1
      <4>1. i \in 1..m
        BY <3>2
      <4> QED
        BY <3>2, <4>1
    <3> QED
      BY <3>1, <3>2
  <2>4. f \in [1..(m + 1) -> Seq(S)]
    BY <2>3
  <2>5. ASSUME NEW i \in 1..(m + 1)
        PROVE  f[i] = IF i = 1 THEN ss[i] ELSE f[i - 1] \o ss[i]
    <3>1. CASE i = m + 1
      <4>1. CASE m = 0
        BY <3>1, <4>1
      <4>2. CASE m # 0
        <5>1. i - 1 = m /\ m \in 1..(m + 1) /\ m # m + 1 /\ i # 1
          BY <3>1, <4>2
        <5>2. f[i - 1] = g[m]
          BY <5>1
        <5>3. f[i] = g[m] \o ss[m + 1]
          BY <3>1, <4>2
        <5> QED
          BY <5>1, <5>2, <5>3, <3>1
      <4> QED
        BY <4>1, <4>2
    <3>2. CASE i # m + 1
      <4>1. i \in 1..m /\ f[i] = g[i]
        BY <3>2
      <4>2. g[i] = IF i = 1 THEN ss[i] ELSE g[i - 1] \o ss[i]
        BY <2>2, <4>1 DEF IsFlattened
      <4>3. i # 1 => i - 1 \in 1..m /\ i - 1 # m + 1 /\ i - 1 \in 1..(m + 1)
        BY <4>1
      <4>4. i # 1 => f[i - 1] = g[i - 1]
        BY <4>3
      <4> HIDE DEF f
      <4> QED
        BY <4>1, <4>2, <4>4
    <3> QED
      BY <3>1, <3>2
  <2> HIDE DEF f
  <2>6. IsFlattened(f, ss, m + 1)
    BY <2>5 DEF IsFlattened
  <2> QED
    BY <2>4, <2>6
<1>3. \A m \in Nat : Q(m)
  <2> HIDE DEF Q
  <2>1. 0 \in P
    BY <1>1
  <2>2. \A m \in Nat : m \in P => m + 1 \in P
    BY <1>2
  <2> HIDE DEF P
  <2>3. Nat \subseteq P
    BY <2>1, <2>2, SetInduction
  <2> QED
    BY <2>3 DEF P
<1> QED
  BY <1>3

(* FlattenSeq holds what its sequences hold, and repeats nothing when they  *)
(* are disjoint and repeat nothing.                                         *)
LEMMA Flattened ==
    ASSUME NEW S, NEW ss \in Seq(Seq(S))
    PROVE  /\ FlattenSeq(ss) \in Seq(S)
           /\ Range(FlattenSeq(ss)) = UNION {Range(ss[k]) : k \in DOMAIN ss}
           /\ (/\ \A k \in DOMAIN ss : IsInjective(ss[k])
               /\ \A k, l \in DOMAIN ss : k # l => Range(ss[k]) \cap Range(ss[l]) = {})
                => IsInjective(FlattenSeq(ss))
<1> DEFINE n == Len(ss)
           flatten[i \in 1..n] == IF i = 1 THEN ss[i] ELSE flatten[i - 1] \o ss[i]
<1>1. n \in Nat /\ DOMAIN ss = 1..n /\ ss \in [1..n -> Seq(S)]
  OBVIOUS
<1>2. CASE n = 0
  <2>1. FlattenSeq(ss) = ss
    BY <1>2 DEF FlattenSeq
  <2>2. ss = <<>>
    BY <1>2
  <2>3. ss \in Seq(S) /\ DOMAIN ss = {}
    BY <2>2
  <2> HIDE DEF n, flatten
  <2> QED
    BY <2>1, <2>3 DEF Range, IsInjective
<1>3. CASE n # 0
  <2>1. FlattenSeq(ss) = flatten[n]
    BY <1>3 DEF FlattenSeq
  <2>2. PICK f \in [1..n -> Seq(S)] : IsFlattened(f, ss, n)
    <3> HIDE DEF n, flatten
    <3> QED
      BY <1>1, FlattenExists
  <2>3. f = [i \in 1..n |-> IF i = 1 THEN ss[i] ELSE f[i - 1] \o ss[i]]
    <3> HIDE DEF n
    <3> QED
      BY <2>2 DEF IsFlattened
  <2>4. flatten = [i \in 1..n |-> IF i = 1 THEN ss[i] ELSE flatten[i - 1] \o ss[i]]
    <3> HIDE DEF n
    <3> QED
      BY <2>3
  <2> HIDE DEF flatten, n
  <2> DEFINE Parts(m) == {k \in 1..n : k <= m}
             Separate == /\ \A k \in DOMAIN ss : IsInjective(ss[k])
                      /\ \A k, l \in DOMAIN ss : k # l => Range(ss[k]) \cap Range(ss[l]) = {}
             Good(m) == /\ flatten[m] \in Seq(S)
                        /\ Range(flatten[m]) = UNION {Range(ss[k]) : k \in Parts(m)}
                        /\ Separate => IsInjective(flatten[m])
             Q(m) == m + 1 <= n => Good(m + 1)
             P == {m \in Nat : Q(m)}
  <2>5. Q(0)
    <3>1. 1 \in 1..n /\ Parts(1) = {1}
      BY <1>1, <1>3
    <3>2. flatten[1] = ss[1]
      BY <2>4, <3>1
    <3>3. ss[1] \in Seq(S)
      BY <1>1, <3>1
    <3> HIDE DEF Parts
    <3>4. UNION {Range(ss[k]) : k \in Parts(1)} = Range(ss[1])
      BY <3>1
    <3>5. Separate => IsInjective(ss[1])
      BY <1>1, <3>1
    <3> QED
      BY <3>2, <3>3, <3>4, <3>5
  <2>6. ASSUME NEW m \in Nat, Q(m) PROVE Q(m + 1)
    <3> SUFFICES ASSUME (m + 1) + 1 <= n PROVE Good((m + 1) + 1)
      OBVIOUS
    <3> DEFINE p == m + 1
               q == (m + 1) + 1
    <3>1. /\ p \in 1..n /\ q \in 1..n /\ q # 1 /\ q - 1 = p /\ p + 1 <= n
          /\ Parts(q) = Parts(p) \cup {q} /\ \A k \in Parts(p) : k \in 1..n /\ k # q
          /\ p <= n
      BY <1>1
    <3> HIDE DEF q, Parts
    <3>2. Good(p)
      <4>1. m + 1 <= n
        BY <3>1
      <4> HIDE DEF Good
      <4> QED
        BY <2>6, <4>1
    <3> HIDE DEF p
    <3>3. flatten[q] = flatten[p] \o ss[q]
      BY <2>4, <3>1
    <3>4. ss[q] \in Seq(S)
      BY <1>1, <3>1
    <3>5. /\ flatten[q] \in Seq(S)
          /\ Range(flatten[q]) = Range(flatten[p]) \cup Range(ss[q])
          /\ IsInjective(flatten[p]) /\ IsInjective(ss[q])
                /\ Range(flatten[p]) \cap Range(ss[q]) = {} => IsInjective(flatten[q])
      BY <3>2, <3>3, <3>4, Concatenation
    <3>6. UNION {Range(ss[k]) : k \in Parts(q)}
            = (UNION {Range(ss[k]) : k \in Parts(p)}) \cup Range(ss[q])
      BY <3>1
    <3>7. Separate => Range(flatten[p]) \cap Range(ss[q]) = {} /\ IsInjective(ss[q])
      BY <1>1, <3>1, <3>2
    <3>8. Good(q)
      BY <3>2, <3>5, <3>6, <3>7
    <3> QED
      BY <3>8 DEF q
  <2>7. \A m \in Nat : Q(m)
    <3> HIDE DEF Q
    <3>1. 0 \in P
      BY <2>5
    <3>2. \A m \in Nat : m \in P => m + 1 \in P
      BY <2>6
    <3> HIDE DEF P
    <3>3. Nat \subseteq P
      BY <3>1, <3>2, SetInduction
    <3> QED
      BY <3>3 DEF P
  <2>8. Good(n)
    <3>1. n - 1 \in Nat /\ (n - 1) + 1 = n /\ n <= n
      BY <1>1, <1>3
    <3>2. Q(n - 1)
      BY <2>7, <3>1
    <3> HIDE DEF Good
    <3> QED
      BY <3>1, <3>2
  <2>9. Parts(n) = DOMAIN ss
    BY <1>1
  <2> HIDE DEF Parts
  <2> QED
    BY <2>1, <2>8, <2>9
<1> QED
  BY <1>2, <1>3

-----------------------------------------------------------------------------
(* Identities.                                                              *)

(* Identities are non-empty sequences of integers.                          *)
Id == Seq(Int) \ {<<>>}

(* The lexicographic order of identities is a strict total order.           *)
LEMMA BeforeIsStrict ==
    /\ \A a \in Seq(Int) : ~Before(a, a)
    /\ \A a, b, c \in Seq(Int) : Before(a, b) /\ Before(b, c) => Before(a, c)
    /\ \A a, b \in Seq(Int) : a # b => Before(a, b) \/ Before(b, a)
<1>1. ASSUME NEW a \in Seq(Int) PROVE ~Before(a, a)
  BY DEF Before
<1>2. ASSUME NEW a \in Seq(Int), NEW b \in Seq(Int), NEW c \in Seq(Int),
             Before(a, b), Before(b, c)
      PROVE  Before(a, c)
  <2> DEFINE la == Len(a)
             lb == Len(b)
             lc == Len(c)
  <2>1. /\ la \in Nat /\ lb \in Nat /\ lc \in Nat
        /\ DOMAIN a = 1..la /\ DOMAIN b = 1..lb /\ DOMAIN c = 1..lc
        /\ \A k \in 1..la : a[k] \in Int
        /\ \A k \in 1..lb : b[k] \in Int
        /\ \A k \in 1..lc : c[k] \in Int
    OBVIOUS
  <2>2. PICK m \in 1..lb : /\ \A k \in 1..(m - 1) : k \in 1..la /\ a[k] = b[k]
                           /\ m > la \/ a[m] < b[m]
    BY <1>2, <2>1 DEF Before
  <2>3. PICK n \in 1..lc : /\ \A k \in 1..(n - 1) : k \in 1..lb /\ b[k] = c[k]
                           /\ n > lb \/ b[n] < c[n]
    BY <1>2, <2>1 DEF Before
  <2>4. SUFFICES \E l \in 1..lc : /\ \A k \in 1..(l - 1) : k \in 1..la /\ a[k] = c[k]
                                  /\ l > la \/ a[l] < c[l]
    BY <2>1 DEF Before
  <2> HIDE DEF la, lb, lc
  <2>5. CASE m < n
    <3>1. m \in 1..lc /\ m \in 1..(n - 1) /\ \A k \in 1..(m - 1) : k \in 1..(n - 1)
      BY <2>1, <2>5
    <3>2. b[m] = c[m] /\ \A k \in 1..(m - 1) : a[k] = c[k]
      BY <2>2, <2>3, <3>1
    <3> QED
      BY <2>2, <3>1, <3>2
  <2>6. CASE n <= m
    <3>1. n <= lb /\ n \in 1..lb /\ \A k \in 1..(n - 1) : k \in 1..(m - 1)
      BY <2>1, <2>6
    <3>2. b[n] < c[n]
      BY <2>1, <2>3, <3>1
    <3>3. \A k \in 1..(n - 1) : k \in 1..la /\ a[k] = c[k]
      BY <2>2, <2>3, <3>1
    <3>4. CASE n = m
      <4>1. n > la \/ (n \in 1..la /\ a[n] < b[n])
        BY <2>1, <2>2, <3>4
      <4>2. n > la \/ a[n] < c[n]
        BY <2>1, <3>1, <3>2, <4>1
      <4> QED
        BY <3>3, <4>2
    <3>5. CASE n < m
      <4>1. n \in 1..(m - 1)
        BY <2>1, <3>5
      <4>2. a[n] = b[n]
        BY <2>2, <4>1
      <4> QED
        BY <3>2, <3>3, <4>2
    <3> QED
      BY <2>6, <3>4, <3>5
  <2> QED
    BY <2>5, <2>6
<1>3. ASSUME NEW a \in Seq(Int), NEW b \in Seq(Int), a # b PROVE Before(a, b) \/ Before(b, a)
  <2> DEFINE la == Len(a)
             lb == Len(b)
             top == IF la < lb THEN lb ELSE la
             S == {k \in 1..top : ~(k \in 1..la /\ k \in 1..lb /\ a[k] = b[k])}
  <2>1. /\ la \in Nat /\ lb \in Nat
        /\ DOMAIN a = 1..la /\ DOMAIN b = 1..lb
        /\ \A k \in 1..la : a[k] \in Int
        /\ \A k \in 1..lb : b[k] \in Int
    OBVIOUS
  <2>2. S # {}
    <3>1. SUFFICES ASSUME S = {} PROVE a = b
      BY <1>3
    <3>2. \A k \in 1..top : k \in 1..la /\ k \in 1..lb /\ a[k] = b[k]
      BY <3>1
    <3> HIDE DEF S
    <3>3. la = lb
      <4> HIDE DEF la, lb
      <4>1. CASE la < lb
        <5>1. lb \in 1..top
          BY <2>1, <4>1
        <5>2. lb \in 1..la
          BY <3>2, <5>1
        <5> QED
          BY <5>2, <4>1, <2>1
      <4>2. CASE lb < la
        <5>1. la \in 1..top
          BY <2>1, <4>2
        <5>2. la \in 1..lb
          BY <3>2, <5>1
        <5> QED
          BY <5>2, <4>2, <2>1
      <4> QED
        BY <4>1, <4>2, <2>1
    <3>4. \A k \in 1..la : a[k] = b[k]
      BY <3>2, <3>3
    <3> QED
      BY <3>3, <3>4
  <2>3. top \in Nat /\ IsFiniteSet(S) /\ S \in SUBSET Int
    <3>1. top \in Nat
      BY <2>1
    <3>2. IsFiniteSet(1..top)
      BY <3>1, FS_Interval
    <3>3. S \in SUBSET (1..top)
      OBVIOUS
    <3> HIDE DEF top, S
    <3>4. IsFiniteSet(S)
      BY <3>2, <3>3, FS_Subset
    <3>5. 1..top \in SUBSET Int
      OBVIOUS
    <3> QED
      BY <3>1, <3>3, <3>4, <3>5
  <2> DEFINE n == Min(S)
  <2>4. n \in S /\ \A k \in S : n <= k
    <3> HIDE DEF S
    <3> QED
      BY <2>2, <2>3, MinOfFinite
  <2> HIDE DEF n
  <2>5. n \in 1..top /\ ~(n \in 1..la /\ n \in 1..lb /\ a[n] = b[n])
    BY <2>4
  <2>6. \A k \in 1..(n - 1) : k \in 1..la /\ k \in 1..lb /\ a[k] = b[k]
    <3>1. ASSUME NEW k \in 1..(n - 1) PROVE k \in 1..top /\ k \notin S
      BY <2>3, <2>4, <2>5
    <3> QED
      BY <3>1
  <2>7. n \in 1..la \/ n \in 1..lb
    BY <2>1, <2>5
  <2>8. CASE n \in 1..la /\ n \in 1..lb
    <3>1. a[n] < b[n] \/ b[n] < a[n]
      BY <2>1, <2>5, <2>8
    <3> HIDE DEF la, lb
    <3> QED
      BY <2>1, <2>6, <2>8, <3>1 DEF Before
  <2>9. CASE n \notin 1..la
    <3>1. n > la /\ n \in 1..lb
      BY <2>1, <2>5, <2>7, <2>9
    <3> QED
      BY <2>1, <2>6, <3>1 DEF Before
  <2>10. CASE n \notin 1..lb
    <3>1. n > lb /\ n \in 1..la
      BY <2>1, <2>5, <2>7, <2>10
    <3> QED
      BY <2>1, <2>6, <3>1 DEF Before
  <2> QED
    BY <2>8, <2>9, <2>10
<1> QED
  BY <1>1, <1>2, <1>3

(* Selected keeps the elements at the given places, each once and in order. *)
LEMMA SelectedPlaces ==
    ASSUME NEW X, NEW s \in Seq(X), NEW I \in SUBSET DOMAIN s
    PROVE  /\ Selected(s, I) \in Seq(X) /\ Len(Selected(s, I)) = Cardinality(I)
           /\ \E at \in [1..Cardinality(I) -> I] :
                /\ Enumerates(at, I)
                /\ \A j, k \in 1..Cardinality(I) : j < k => at[j] < at[k]
                /\ \A k \in 1..Cardinality(I) : Selected(s, I)[k] = s[at[k]]
<1> DEFINE R == {p \in I \X I : p[1] < p[2]}
           at == Ranked(I, LAMBDA i, j : i < j)
<1>1. IsFiniteSet(I) /\ Cardinality(I) \in Nat /\ I \in SUBSET Nat
  <2>1. IsFiniteSet(1..Len(s)) /\ DOMAIN s = 1..Len(s)
    BY FS_Interval
  <2>2. I \in SUBSET (1..Len(s))
    BY <2>1
  <2>3. IsFiniteSet(I)
    BY <2>1, <2>2, FS_Subset
  <2> QED
    BY <2>2, <2>3, FS_CardinalityType
<1>2. StrictOrder(R, I)
  BY <1>1 DEF StrictOrder
<1>3. \A x \in I : {y \in I : y < x} = Below(R, I, x)
  BY DEF Below
<1>4. /\ at = [k \in 1..Cardinality(I) |-> CHOOSE x \in I : Cardinality({y \in I : y < x}) = k - 1]
  BY DEF Ranked
<1> HIDE DEF at, R
<1>5. \A k \in 1..Cardinality(I) : at[k] \in I /\ Cardinality(Below(R, I, at[k])) = k - 1
  <2> SUFFICES ASSUME NEW k \in 1..Cardinality(I)
               PROVE  at[k] \in I /\ Cardinality(Below(R, I, at[k])) = k - 1
    OBVIOUS
  <2>1. PICK x \in I : Cardinality(Below(R, I, x)) = k - 1
    BY <1>1, <1>2, RankOnto
  <2>2. Cardinality({y \in I : y < x}) = k - 1
    BY <1>3, <2>1
  <2>3. at[k] \in I /\ Cardinality({y \in I : y < at[k]}) = k - 1
    BY <1>4, <2>2
  <2> QED
    BY <1>3, <2>3
<1>6. at \in [1..Cardinality(I) -> I]
  BY <1>4, <1>5
<1>7. Enumerates(at, I) /\ \A j, k \in 1..Cardinality(I) : j < k => at[j] < at[k]
  <2>1. /\ Enumerates(at, I)
        /\ \A j, k \in 1..Cardinality(I) : j < k => <<at[j], at[k]>> \in R
    BY <1>1, <1>2, <1>5, <1>6, EnumeratedByRank
  <2>2. \A x, y \in I : <<x, y>> \in R => x < y
    BY DEF R
  <2> QED
    BY <1>5, <2>1, <2>2
<1>8. Selected(s, I) = [k \in 1..Cardinality(I) |-> s[at[k]]]
  BY <1>6 DEF Selected, at
<1>9. \A k \in 1..Cardinality(I) : s[at[k]] \in X
  BY <1>6
<1> DEFINE n == Cardinality(I)
<1>10. n \in Nat
  BY <1>1
<1>11. /\ Selected(s, I) = [k \in 1..n |-> s[at[k]]] /\ \A k \in 1..n : s[at[k]] \in X
       /\ at \in [1..n -> I] /\ Enumerates(at, I)
       /\ \A j, k \in 1..n : j < k => at[j] < at[k]
  BY <1>6, <1>7, <1>8, <1>9
<1> HIDE DEF n
<1>12. Selected(s, I) \in Seq(X) /\ Len(Selected(s, I)) = n
  BY <1>10, <1>11
<1>13. \A k \in 1..n : Selected(s, I)[k] = s[at[k]]
  BY <1>11
<1> QED
  BY <1>11, <1>12, <1>13 DEF n

-----------------------------------------------------------------------------
(* Detections and their orders.                                             *)

(* What a detection is of.                                                  *)
Kinds == {"balloon", "text", "sfx", "panel"}

IsDetection(d) == d.id \in Id /\ d.kind \in Kinds /\ d.box \in BoxSet /\ d.score \in Int

(* A finite set of detections, each with an identity of its own: what       *)
(* finalize_detections is given.                                            *)
AreDetections(S) ==
    /\ IsFiniteSet(S)
    /\ \A d \in S : IsDetection(d)
    /\ \A d, e \in S : d.id = e.id => d = e

(* Identities break every tie.                                              *)
LEMMA DetectionsDiffer ==
    ASSUME NEW S, AreDetections(S)
    PROVE  /\ \A d \in S : ~Before(d.id, d.id)
           /\ \A d, e, f \in S : Before(d.id, e.id) /\ Before(e.id, f.id) => Before(d.id, f.id)
           /\ \A d, e \in S : d # e => Before(d.id, e.id) \/ Before(e.id, d.id)
  BY BeforeIsStrict DEF AreDetections, IsDetection, Id

(* The order of the suppression ranks every detection once.                 *)
LEMMA StrongerEnumerates ==
    ASSUME NEW S, AreDetections(S)
    PROVE  Enumerates(Ranked(S, Stronger), S)
<1> DEFINE R == {p \in S \X S : Stronger(p[1], p[2])}
           s == Ranked(S, Stronger)
<1>1. IsFiniteSet(S) /\ \A d \in S : IsDetection(d)
  BY DEF AreDetections
<1>2. StrictOrder(R, S)
  <2>1. \A d \in S : ~Stronger(d, d)
    BY <1>1, DetectionsDiffer DEF IsDetection, BoxSet, Kinds, Stronger
  <2>2. ASSUME NEW d \in S, NEW e \in S, NEW f \in S, Stronger(d, e), Stronger(e, f)
        PROVE  Stronger(d, f)
    <3>1. Before(d.id, e.id) /\ Before(e.id, f.id) => Before(d.id, f.id)
      BY DetectionsDiffer
    <3> QED
      BY <1>1, <2>2, <3>1 DEF IsDetection, BoxSet, Kinds, Stronger
  <2>3. ASSUME NEW d \in S, NEW e \in S, d # e PROVE Stronger(d, e) \/ Stronger(e, d)
    <3>1. Before(d.id, e.id) \/ Before(e.id, d.id)
      BY <2>3, DetectionsDiffer
    <3> QED
      BY <1>1, <3>1 DEF IsDetection, BoxSet, Kinds, Stronger
  <2> QED
    BY <2>1, <2>2, <2>3 DEF StrictOrder
<1>3. \A x \in S : {y \in S : Stronger(y, x)} = Below(R, S, x)
  BY DEF Below
<1>4. s = [i \in 1..Cardinality(S) |->
              CHOOSE x \in S : Cardinality({y \in S : Stronger(y, x)}) = i - 1]
  BY DEF Ranked
<1> HIDE DEF s, R
<1>5. ASSUME NEW i \in 1..Cardinality(S)
      PROVE  s[i] \in S /\ Cardinality(Below(R, S, s[i])) = i - 1
  <2>1. PICK x \in S : Cardinality(Below(R, S, x)) = i - 1
    BY <1>1, <1>2, RankOnto
  <2>2. Cardinality({y \in S : Stronger(y, x)}) = i - 1
    BY <1>3, <2>1
  <2>3. s[i] \in S /\ Cardinality({y \in S : Stronger(y, s[i])}) = i - 1
    BY <1>4, <2>2
  <2> QED
    BY <1>3, <2>3
<1>6. s \in [1..Cardinality(S) -> S]
  BY <1>4, <1>5
<1>7. Enumerates(s, S)
  BY <1>1, <1>2, <1>5, <1>6, EnumeratedByRank
<1> QED
  BY <1>7 DEF s

(* So does the order within a row.                                          *)
LEMMA RightToLeftEnumerates ==
    ASSUME NEW S, AreDetections(S)
    PROVE  Enumerates(Ranked(S, RightToLeft), S)
<1> DEFINE R == {p \in S \X S : RightToLeft(p[1], p[2])}
           s == Ranked(S, RightToLeft)
<1>1. IsFiniteSet(S) /\ \A d \in S : IsDetection(d)
  BY DEF AreDetections
<1>2. StrictOrder(R, S)
  <2>1. \A d \in S : ~RightToLeft(d, d)
    BY <1>1, DetectionsDiffer DEF IsDetection, BoxSet, Kinds, RightToLeft, KindRank
  <2>2. ASSUME NEW d \in S, NEW e \in S, NEW f \in S, RightToLeft(d, e), RightToLeft(e, f)
        PROVE  RightToLeft(d, f)
    <3>1. Before(d.id, e.id) /\ Before(e.id, f.id) => Before(d.id, f.id)
      BY DetectionsDiffer
    <3> QED
      BY <1>1, <2>2, <3>1 DEF IsDetection, BoxSet, Kinds, RightToLeft, KindRank
  <2>3. ASSUME NEW d \in S, NEW e \in S, d # e PROVE RightToLeft(d, e) \/ RightToLeft(e, d)
    <3>1. Before(d.id, e.id) \/ Before(e.id, d.id)
      BY <2>3, DetectionsDiffer
    <3> QED
      BY <1>1, <3>1 DEF IsDetection, BoxSet, Kinds, RightToLeft, KindRank
  <2> QED
    BY <2>1, <2>2, <2>3 DEF StrictOrder
<1>3. \A x \in S : {y \in S : RightToLeft(y, x)} = Below(R, S, x)
  BY DEF Below
<1>4. s = [i \in 1..Cardinality(S) |->
              CHOOSE x \in S : Cardinality({y \in S : RightToLeft(y, x)}) = i - 1]
  BY DEF Ranked
<1> HIDE DEF s, R
<1>5. ASSUME NEW i \in 1..Cardinality(S)
      PROVE  s[i] \in S /\ Cardinality(Below(R, S, s[i])) = i - 1
  <2>1. PICK x \in S : Cardinality(Below(R, S, x)) = i - 1
    BY <1>1, <1>2, RankOnto
  <2>2. Cardinality({y \in S : RightToLeft(y, x)}) = i - 1
    BY <1>3, <2>1
  <2>3. s[i] \in S /\ Cardinality({y \in S : RightToLeft(y, s[i])}) = i - 1
    BY <1>4, <2>2
  <2> QED
    BY <1>3, <2>3
<1>6. s \in [1..Cardinality(S) -> S]
  BY <1>4, <1>5
<1>7. Enumerates(s, S)
  BY <1>1, <1>2, <1>5, <1>6, EnumeratedByRank
<1> QED
  BY <1>7 DEF s

(* So does the order of a webtoon page.                                     *)
LEMMA TopToBottomEnumerates ==
    ASSUME NEW S, AreDetections(S)
    PROVE  Enumerates(Ranked(S, TopToBottom), S)
<1> DEFINE R == {p \in S \X S : TopToBottom(p[1], p[2])}
           s == Ranked(S, TopToBottom)
<1>1. IsFiniteSet(S) /\ \A d \in S : IsDetection(d)
  BY DEF AreDetections
<1>2. StrictOrder(R, S)
  <2>1. \A d \in S : ~TopToBottom(d, d)
    BY <1>1, DetectionsDiffer DEF IsDetection, BoxSet, Kinds, TopToBottom, VerticalRank
  <2>2. ASSUME NEW d \in S, NEW e \in S, NEW f \in S, TopToBottom(d, e), TopToBottom(e, f)
        PROVE  TopToBottom(d, f)
    <3>1. Before(d.id, e.id) /\ Before(e.id, f.id) => Before(d.id, f.id)
      BY DetectionsDiffer
    <3> QED
      BY <1>1, <2>2, <3>1 DEF IsDetection, BoxSet, Kinds, TopToBottom, VerticalRank
  <2>3. ASSUME NEW d \in S, NEW e \in S, d # e PROVE TopToBottom(d, e) \/ TopToBottom(e, d)
    <3>1. Before(d.id, e.id) \/ Before(e.id, d.id)
      BY <2>3, DetectionsDiffer
    <3> QED
      BY <1>1, <3>1 DEF IsDetection, BoxSet, Kinds, TopToBottom, VerticalRank
  <2> QED
    BY <2>1, <2>2, <2>3 DEF StrictOrder
<1>3. \A x \in S : {y \in S : TopToBottom(y, x)} = Below(R, S, x)
  BY DEF Below
<1>4. s = [i \in 1..Cardinality(S) |->
              CHOOSE x \in S : Cardinality({y \in S : TopToBottom(y, x)}) = i - 1]
  BY DEF Ranked
<1> HIDE DEF s, R
<1>5. ASSUME NEW i \in 1..Cardinality(S)
      PROVE  s[i] \in S /\ Cardinality(Below(R, S, s[i])) = i - 1
  <2>1. PICK x \in S : Cardinality(Below(R, S, x)) = i - 1
    BY <1>1, <1>2, RankOnto
  <2>2. Cardinality({y \in S : TopToBottom(y, x)}) = i - 1
    BY <1>3, <2>1
  <2>3. s[i] \in S /\ Cardinality({y \in S : TopToBottom(y, s[i])}) = i - 1
    BY <1>4, <2>2
  <2> QED
    BY <1>3, <2>3
<1>6. s \in [1..Cardinality(S) -> S]
  BY <1>4, <1>5
<1>7. Enumerates(s, S)
  BY <1>1, <1>2, <1>5, <1>6, EnumeratedByRank
<1> QED
  BY <1>7 DEF s

-----------------------------------------------------------------------------
(* Connected components.                                                    *)

(* h iterates D from base.                                                  *)
IsIterate(h, A, base, D) ==
    h \in [Nat -> A] /\ h[0] = base /\ \A n \in Nat : h[n + 1] = D[h[n]]

(* g is its first n steps.                                                  *)
AreSteps(g, n, A, base, D) ==
    g \in [0..n -> A] /\ g[0] = base /\ \A k \in 0..n : k # n => g[k + 1] = D[g[k]]

(* Every function can be iterated.                                          *)
LEMMA IterateExists ==
    ASSUME NEW A, NEW base \in A, NEW D \in [A -> A]
    PROVE  \E h : IsIterate(h, A, base, D)
<1> DEFINE Q(n) == \E g : AreSteps(g, n, A, base, D)
           P == {n \in Nat : Q(n)}
           Same(k) == \A m, n \in Nat : k <= m /\ k <= n =>
                        \A g, h : AreSteps(g, m, A, base, D) /\ AreSteps(h, n, A, base, D)
                                    => g[k] = h[k]
           T == {k \in Nat : Same(k)}
<1>1. Q(0)
  <2> DEFINE g == [k \in 0..0 |-> base]
  <2>1. AreSteps(g, 0, A, base, D)
    BY DEF AreSteps
  <2> QED
    BY <2>1
<1>2. ASSUME NEW n \in Nat, Q(n) PROVE Q(n + 1)
  <2>1. PICK g : AreSteps(g, n, A, base, D)
    BY <1>2
  <2> DEFINE h == [k \in 0..(n + 1) |-> IF k = n + 1 THEN D[g[n]] ELSE g[k]]
  <2>2. g \in [0..n -> A] /\ n \in 0..n /\ 0 \in 0..n /\ 0 # n + 1
    BY <2>1 DEF AreSteps
  <2>3. ASSUME NEW k \in 0..(n + 1) PROVE h[k] \in A
    <3>1. k # n + 1 => k \in 0..n
      OBVIOUS
    <3> QED
      BY <2>2, <3>1
  <2>4. ASSUME NEW k \in 0..(n + 1), k # n + 1 PROVE h[k + 1] = D[h[k]]
    <3>1. k \in 0..n /\ k + 1 \in 0..(n + 1) /\ (k + 1 = n + 1 <=> k = n)
      BY <2>4
    <3>2. h[k] = g[k]
      BY <2>4
    <3>3. CASE k = n
      BY <3>1, <3>2, <3>3
    <3>4. CASE k # n
      <4>1. g[k + 1] = D[g[k]]
        BY <2>1, <3>1, <3>4 DEF AreSteps
      <4> QED
        BY <3>1, <3>2, <3>4, <4>1
    <3> QED
      BY <3>3, <3>4
  <2>5. h[0] = base
    BY <2>1, <2>2 DEF AreSteps
  <2>6. h \in [0..(n + 1) -> A]
    BY <2>3
  <2> HIDE DEF h
  <2>7. AreSteps(h, n + 1, A, base, D)
    BY <2>4, <2>5, <2>6 DEF AreSteps
  <2> QED
    BY <2>7
<1>3. \A n \in Nat : Q(n)
  <2> HIDE DEF Q
  <2>1. 0 \in P
    BY <1>1
  <2>2. \A n \in Nat : n \in P => n + 1 \in P
    BY <1>2
  <2> HIDE DEF P
  <2>3. Nat \subseteq P
    BY <2>1, <2>2, SetInduction
  <2> QED
    BY <2>3 DEF P
<1>4. Same(0)
  BY DEF AreSteps
<1>5. ASSUME NEW k \in Nat, Same(k) PROVE Same(k + 1)
  <2> SUFFICES ASSUME NEW m \in Nat, NEW n \in Nat, k + 1 <= m, k + 1 <= n, NEW g, NEW h,
                      AreSteps(g, m, A, base, D), AreSteps(h, n, A, base, D)
               PROVE  g[k + 1] = h[k + 1]
    OBVIOUS
  <2>1. k <= m /\ k <= n /\ k \in 0..m /\ k \in 0..n /\ k # m /\ k # n
    OBVIOUS
  <2>2. g[k] = h[k]
    BY <1>5, <2>1
  <2>3. g[k + 1] = D[g[k]] /\ h[k + 1] = D[h[k]]
    BY <2>1 DEF AreSteps
  <2> QED
    BY <2>2, <2>3
<1>6. \A k \in Nat : Same(k)
  <2> HIDE DEF Same
  <2>1. 0 \in T
    BY <1>4
  <2>2. \A k \in Nat : k \in T => k + 1 \in T
    BY <1>5
  <2> HIDE DEF T
  <2>3. Nat \subseteq T
    BY <2>1, <2>2, SetInduction
  <2> QED
    BY <2>3 DEF T
<1> DEFINE G(n) == CHOOSE g : AreSteps(g, n, A, base, D)
           h == [n \in Nat |-> G(n)[n]]
<1>7. \A n \in Nat : AreSteps(G(n), n, A, base, D)
  BY <1>3
<1> HIDE DEF G, Q, P, T
<1>8. \A n \in Nat : h[n] \in A
  <2> SUFFICES ASSUME NEW n \in Nat PROVE G(n)[n] \in A
    OBVIOUS
  <2>1. n \in 0..n /\ G(n) \in [0..n -> A]
    BY <1>7 DEF AreSteps
  <2> QED
    BY <2>1
<1>9. h[0] = base
  BY <1>7 DEF AreSteps
<1>10. ASSUME NEW n \in Nat PROVE h[n + 1] = D[h[n]]
  <2>1. AreSteps(G(n), n, A, base, D) /\ AreSteps(G(n + 1), n + 1, A, base, D)
    BY <1>7
  <2>2. n \in 0..(n + 1) /\ n # n + 1 /\ n <= n /\ n <= n + 1 /\ n + 1 \in Nat
    OBVIOUS
  <2>3. G(n + 1)[n + 1] = D[G(n + 1)[n]]
    BY <2>1, <2>2 DEF AreSteps
  <2>4. G(n + 1)[n] = G(n)[n]
    BY <1>6, <2>1, <2>2
  <2> QED
    BY <2>2, <2>3, <2>4
<1>11. h \in [Nat -> A]
  BY <1>8
<1> HIDE DEF h
<1>12. IsIterate(h, A, base, D)
  BY <1>9, <1>10, <1>11 DEF IsIterate
<1> QED
  BY <1>12

(* The component of seed grows along the pairs of E until nothing is added. *)
Grows(g, S, E, seed) ==
    /\ g \in [Nat -> SUBSET S] /\ g[0] = {seed}
    /\ \A n \in Nat : g[n + 1] = {d \in S : \E m \in g[n] : d = m \/ <<d, m>> \in E}

(* Nothing in S outside of C is linked to C.                                *)
Closed(C, S, E) == \A m \in C, d \in S : <<d, m>> \in E => d \in C

(* It can always be grown.                                                  *)
LEMMA GrowthExists ==
    ASSUME NEW S, NEW E, NEW seed \in S
    PROVE  \E g : Grows(g, S, E, seed)
<1> DEFINE A == SUBSET S
           D == [a \in A |-> {d \in S : \E m \in a : d = m \/ <<d, m>> \in E}]
<1>1. {seed} \in A /\ D \in [A -> A]
  OBVIOUS
<1>2. \A a \in A : D[a] = {d \in S : \E m \in a : d = m \/ <<d, m>> \in E}
  OBVIOUS
<1>3. PICK g : IsIterate(g, A, {seed}, D)
  <2> HIDE DEF A, D
  <2> QED
    BY <1>1, IterateExists
<1>4. \A n \in Nat : g[n + 1] = D[g[n]] /\ g[n] \in A
  BY <1>3 DEF IsIterate
<1> HIDE DEF D
<1>5. g \in [Nat -> SUBSET S] /\ g[0] = {seed}
  BY <1>3 DEF IsIterate
<1> HIDE DEF A
<1>6. \A n \in Nat : g[n + 1] = {d \in S : \E m \in g[n] : d = m \/ <<d, m>> \in E}
  BY <1>2, <1>4
<1> QED
  BY <1>5, <1>6 DEF Grows

(* After as many steps as there are elements the component is complete: it  *)
(* is closed, and elements of two components never are in both.             *)
LEMMA Component ==
    ASSUME NEW S, IsFiniteSet(S), NEW E, NEW seed \in S, NEW g, Grows(g, S, E, seed)
    PROVE  LET C == g[Cardinality(S)] IN
           /\ seed \in C /\ C \in SUBSET S /\ Closed(C, S, E)
           /\ \A B \in SUBSET S : seed \in B /\ Closed(B, S, E) => C \subseteq B
<1> DEFINE n == Cardinality(S)
           Fixed(k) == g[k + 1] = g[k]
           Q(k) == Fixed(k) \/ Cardinality(g[k]) > k
           P == {k \in Nat : Q(k)}
<1>1. n \in Nat
  BY FS_CardinalityType
<1>2. \A k \in Nat : /\ g[k] \in SUBSET S /\ g[k] \subseteq g[k + 1]
                     /\ g[k + 1] = {d \in S : \E m \in g[k] : d = m \/ <<d, m>> \in E}
  BY DEF Grows
<1>3. \A k \in Nat : IsFiniteSet(g[k]) /\ Cardinality(g[k]) \in Nat /\ Cardinality(g[k]) <= n
  <2> SUFFICES ASSUME NEW k \in Nat
               PROVE  IsFiniteSet(g[k]) /\ Cardinality(g[k]) \in Nat /\ Cardinality(g[k]) <= n
    OBVIOUS
  <2>1. g[k] \in SUBSET S
    BY <1>2
  <2>2. IsFiniteSet(g[k]) /\ Cardinality(g[k]) <= Cardinality(S)
    BY <2>1, FS_Subset
  <2> QED
    BY <2>2, FS_CardinalityType
<1>4. Q(0)
  <2>1. g[0] = {seed}
    BY DEF Grows
  <2>2. Cardinality({seed}) = 1
    BY FS_Singleton
  <2> QED
    BY <2>1, <2>2
<1>5. ASSUME NEW k \in Nat, Q(k) PROVE Q(k + 1)
  <2>1. CASE Fixed(k)
    <3>0. k + 1 \in Nat
      OBVIOUS
    <3>1. g[(k + 1) + 1] = {d \in S : \E m \in g[k + 1] : d = m \/ <<d, m>> \in E}
      BY <1>2, <3>0
    <3>2. g[(k + 1) + 1] = g[k + 1]
      BY <1>2, <2>1, <3>1
    <3> QED
      BY <3>2
  <2>2. CASE ~Fixed(k)
    <3>1. Cardinality(g[k]) > k
      BY <1>5, <2>2
    <3>2. g[k] \in SUBSET g[k + 1] /\ g[k] # g[k + 1] /\ IsFiniteSet(g[k + 1])
      BY <1>2, <1>3, <2>2
    <3>3. /\ Cardinality(g[k]) <= Cardinality(g[k + 1])
          /\ Cardinality(g[k + 1]) # Cardinality(g[k])
      BY <3>2, FS_Subset
    <3>4. Cardinality(g[k]) \in Nat /\ Cardinality(g[k + 1]) \in Nat
      BY <1>3
    <3>5. Cardinality(g[k + 1]) > k + 1
      BY <3>1, <3>3, <3>4
    <3> QED
      BY <3>5
  <2> QED
    BY <2>1, <2>2
<1>6. \A k \in Nat : Q(k)
  <2> HIDE DEF Q
  <2>1. 0 \in P
    BY <1>4
  <2>2. \A k \in Nat : k \in P => k + 1 \in P
    BY <1>5
  <2> HIDE DEF P
  <2>3. Nat \subseteq P
    BY <2>1, <2>2, SetInduction
  <2> QED
    BY <2>3 DEF P
<1>7. Fixed(n)
  <2>1. Q(n) /\ ~(Cardinality(g[n]) > n)
    BY <1>1, <1>3, <1>6
  <2> QED
    BY <2>1
<1>8. Closed(g[n], S, E)
  <2>1. g[n] = {d \in S : \E m \in g[n] : d = m \/ <<d, m>> \in E}
    BY <1>1, <1>2, <1>7
  <2> HIDE DEF n
  <2> QED
    BY <2>1 DEF Closed
<1> DEFINE Within(k) == seed \in g[k] /\ \A B \in SUBSET S : seed \in B /\ Closed(B, S, E) => g[k] \subseteq B
           W == {k \in Nat : Within(k)}
<1>9. Within(0)
  BY DEF Grows
<1>10. ASSUME NEW k \in Nat, Within(k) PROVE Within(k + 1)
  <2>1. seed \in g[k] /\ g[k] \subseteq g[k + 1]
    BY <1>2, <1>10
  <2>2. ASSUME NEW B \in SUBSET S, seed \in B, Closed(B, S, E) PROVE g[k + 1] \subseteq B
    <3>1. g[k] \subseteq B
      BY <1>10, <2>2
    <3> SUFFICES ASSUME NEW d \in g[k + 1] PROVE d \in B
      OBVIOUS
    <3>2. PICK m \in g[k] : d \in S /\ (d = m \/ <<d, m>> \in E)
      BY <1>2
    <3> QED
      BY <2>2, <3>1, <3>2 DEF Closed
  <2> QED
    BY <2>1, <2>2
<1>11. \A k \in Nat : Within(k)
  <2> HIDE DEF Within
  <2>1. 0 \in W
    BY <1>9
  <2>2. \A k \in Nat : k \in W => k + 1 \in W
    BY <1>10
  <2> HIDE DEF W
  <2>3. Nat \subseteq W
    BY <2>1, <2>2, SetInduction
  <2> QED
    BY <2>3 DEF W
<1> QED
  BY <1>1, <1>2, <1>8, <1>11

-----------------------------------------------------------------------------
(* The visual rows.                                                         *)

(* The links of rows.                                                       *)
RowLinks(S) == {p \in S \X S : SameVisualRow(p[1], p[2])}

(* The rows of a set of detections.                                         *)
RowsOf(S) == {RowOf(S, d) : d \in S}

(* A row is the component of its seed.                                      *)
LEMMA RowIsComponent ==
    ASSUME NEW S, NEW seed \in S
    PROVE  \E g : Grows(g, S, RowLinks(S), seed) /\ RowOf(S, seed) = g[Cardinality(S)]
<1> DEFINE grown[n \in Nat] ==
            IF n = 0 THEN {seed}
            ELSE {d \in S : \E m \in grown[n - 1] : d = m \/ SameVisualRow(d, m)}
<1>1. PICK g : Grows(g, S, RowLinks(S), seed)
  BY GrowthExists
<1>2. g = [n \in Nat |-> IF n = 0 THEN {seed}
                         ELSE {d \in S : \E m \in g[n - 1] : d = m \/ SameVisualRow(d, m)}]
  <2>1. ASSUME NEW n \in Nat, n # 0
        PROVE  g[n] = {d \in S : \E m \in g[n - 1] : d = m \/ SameVisualRow(d, m)}
    <3>1. n - 1 \in Nat /\ (n - 1) + 1 = n
      BY <2>1
    <3>2. g[(n - 1) + 1] = {d \in S : \E m \in g[n - 1] : d = m \/ <<d, m>> \in RowLinks(S)}
      BY <1>1, <3>1 DEF Grows
    <3>3. g[n - 1] \in SUBSET S
      BY <1>1, <3>1 DEF Grows
    <3>4. \A d, m \in S : <<d, m>> \in RowLinks(S) <=> SameVisualRow(d, m)
      BY DEF RowLinks
    <3> QED
      BY <3>1, <3>2, <3>3, <3>4
  <2>2. g[0] = {seed} /\ g = [n \in Nat |-> g[n]]
    BY <1>1 DEF Grows
  <2> QED
    BY <2>1, <2>2
<1>3. grown = [n \in Nat |-> IF n = 0 THEN {seed}
                             ELSE {d \in S : \E m \in grown[n - 1] : d = m \/ SameVisualRow(d, m)}]
  BY <1>2
<1>4. RowOf(S, seed) = grown[Cardinality(S)]
  BY DEF RowOf
<1> HIDE DEF grown
<1>5. Grows(grown, S, RowLinks(S), seed)
  <2>1. grown[0] = {seed}
    BY <1>3
  <2>2. ASSUME NEW n \in Nat
        PROVE  grown[n + 1] = {d \in S : \E m \in grown[n] : d = m \/ SameVisualRow(d, m)}
    <3>1. n + 1 \in Nat /\ n + 1 # 0 /\ (n + 1) - 1 = n
      OBVIOUS
    <3> QED
      BY <1>3, <3>1
  <2>3. ASSUME NEW n \in Nat PROVE grown[n] \in SUBSET S
    <3>1. CASE n = 0
      BY <2>1, <3>1
    <3>2. CASE n # 0
      BY <1>3, <3>2
    <3> QED
      BY <3>1, <3>2
  <2>4. \A d, m \in S : <<d, m>> \in RowLinks(S) <=> SameVisualRow(d, m)
    BY DEF RowLinks
  <2>5. ASSUME NEW n \in Nat
        PROVE  grown[n + 1] = {d \in S : \E m \in grown[n] : d = m \/ <<d, m>> \in RowLinks(S)}
    BY <2>2, <2>3, <2>4
  <2>6. grown \in [Nat -> SUBSET S]
    BY <1>3, <2>3
  <2> QED
    BY <2>1, <2>5, <2>6 DEF Grows
<1> QED
  BY <1>4, <1>5

(* The rows of a page are disjoint and none is empty.                       *)
LEMMA RowsPartition ==
    ASSUME NEW S, AreDetections(S)
    PROVE  /\ \A d \in S : d \in RowOf(S, d) /\ RowOf(S, d) \in SUBSET S
           /\ \A r, s \in RowsOf(S) : r # s => r \cap s = {}
<1> DEFINE E == RowLinks(S)
<1>1. \A d \in S : /\ d \in RowOf(S, d) /\ RowOf(S, d) \in SUBSET S /\ Closed(RowOf(S, d), S, E)
                   /\ \A B \in SUBSET S : d \in B /\ Closed(B, S, E) => RowOf(S, d) \subseteq B
  <2> SUFFICES ASSUME NEW d \in S
               PROVE  /\ d \in RowOf(S, d) /\ RowOf(S, d) \in SUBSET S /\ Closed(RowOf(S, d), S, E)
                      /\ \A B \in SUBSET S : d \in B /\ Closed(B, S, E) => RowOf(S, d) \subseteq B
    OBVIOUS
  <2>1. PICK g : Grows(g, S, E, d) /\ RowOf(S, d) = g[Cardinality(S)]
    BY RowIsComponent
  <2>2. IsFiniteSet(S)
    BY DEF AreDetections
  <2> HIDE DEF E
  <2> QED
    BY <2>1, <2>2, Component
<1>2. \A d, e \in S : <<d, e>> \in E <=> <<e, d>> \in E
  <2> SUFFICES ASSUME NEW d \in S, NEW e \in S PROVE <<d, e>> \in E <=> <<e, d>> \in E
    OBVIOUS
  <2>1. d.box \in BoxSet /\ e.box \in BoxSet
    BY DEF AreDetections, IsDetection
  <2>2. SameVisualRow(d, e) <=> SameVisualRow(e, d)
    <3> DEFINE g == Larger(d.box.y1, e.box.y1) - Smaller(d.box.y2, e.box.y2)
               h == Smaller(Height(d.box), Height(e.box))
    <3>1. /\ g = Larger(e.box.y1, d.box.y1) - Smaller(e.box.y2, d.box.y2)
          /\ h = Smaller(Height(e.box), Height(d.box))
      BY <2>1 DEF BoxSet, Larger, Smaller, Height
    <3> QED
      BY <3>1 DEF SameVisualRow
  <2> QED
    BY <2>2 DEF RowLinks
<1> HIDE DEF E
<1>3. ASSUME NEW d \in S, NEW e \in RowOf(S, d) PROVE RowOf(S, d) = RowOf(S, e)
  <2>1. e \in S /\ RowOf(S, d) \in SUBSET S
    BY <1>1
  <2>2. RowOf(S, e) \subseteq RowOf(S, d)
    BY <1>1, <2>1
  <2>3. d \in RowOf(S, e)
    <3>1. SUFFICES ASSUME d \notin RowOf(S, e) PROVE FALSE
      OBVIOUS
    <3> DEFINE B == S \ RowOf(S, e)
    <3>2. d \in B /\ B \in SUBSET S
      BY <3>1
    <3>3. Closed(B, S, E)
      <4> SUFFICES ASSUME NEW m \in B, NEW x \in S, <<x, m>> \in E, x \in RowOf(S, e) PROVE FALSE
        BY DEF Closed
      <4>1. <<m, x>> \in E /\ m \in S
        BY <1>2
      <4>2. m \in RowOf(S, e)
        BY <1>1, <2>1, <4>1 DEF Closed
      <4> QED
        BY <4>2
    <3>4. RowOf(S, d) \subseteq B
      <4> HIDE DEF B
      <4> QED
        BY <1>1, <3>2, <3>3
    <3>5. e \in RowOf(S, e)
      BY <1>1, <2>1
    <3> QED
      BY <3>4, <3>5
  <2>4. RowOf(S, d) \subseteq RowOf(S, e)
    BY <1>1, <2>1, <2>3
  <2> QED
    BY <2>2, <2>4
<1>4. ASSUME NEW r \in RowsOf(S), NEW s \in RowsOf(S), r \cap s # {} PROVE r = s
  <2>1. PICK d \in S : r = RowOf(S, d)
    BY DEF RowsOf
  <2>2. PICK e \in S : s = RowOf(S, e)
    BY DEF RowsOf
  <2>3. PICK x : x \in r /\ x \in s
    BY <1>4
  <2>4. RowOf(S, d) = RowOf(S, x) /\ RowOf(S, e) = RowOf(S, x)
    BY <1>3, <2>1, <2>2, <2>3
  <2> QED
    BY <2>1, <2>2, <2>4
<1> QED
  BY <1>1, <1>4

(* Part of a set of detections is one.                                      *)
LEMMA PartOfDetections ==
    ASSUME NEW S, AreDetections(S), NEW T \in SUBSET S
    PROVE  AreDetections(T)
  BY FS_Subset DEF AreDetections

(* The least identity of a row is of one of its detections.                 *)
LEMMA LeastOfRow ==
    ASSUME NEW S, AreDetections(S), S # {}
    PROVE  \E d \in S : LeastId(S) = d.id
<1> DEFINE R == {p \in S \X S : Before(p[1].id, p[2].id)}
<1>1. \A d, e \in S : <<d, e>> \in R <=> Before(d.id, e.id)
  OBVIOUS
<1> HIDE DEF R
<1>2. StrictOrder(R, S)
  BY <1>1, DetectionsDiffer DEF StrictOrder
<1>3. PICK d \in S : \A e \in S \ {d} : <<d, e>> \in R
  BY <1>2, LeastExists DEF AreDetections
<1>4. \A e \in S \ {d} : Before(d.id, e.id)
  BY <1>1, <1>3
<1> QED
  BY <1>4 DEF LeastId

(* Where a row begins.                                                      *)
RowTop(row) == Min({d.box.y1 : d \in row})
RowFoot(row) == Min({d.box.y2 : d \in row})

(* Both are numbers, so rows can be compared.                               *)
LEMMA RowMeasures ==
    ASSUME NEW S, AreDetections(S), S # {}
    PROVE  RowTop(S) \in Int /\ RowFoot(S) \in Int
<1>1. IsFiniteSet(S) /\ \A d \in S : d.box.y1 \in Int /\ d.box.y2 \in Int
  BY DEF AreDetections, IsDetection, BoxSet
<1>2. ASSUME NEW f \in [S -> Int] PROVE Min({f[d] : d \in S}) \in Int
  <2> DEFINE T == {f[d] : d \in S}
  <2>1. IsFiniteSet(T)
    <3>1. DOMAIN f = S
      OBVIOUS
    <3> QED
      BY <1>1, <3>1, ImageFinite
  <2>2. T \in SUBSET Int /\ T # {}
    OBVIOUS
  <2> HIDE DEF T
  <2>3. Min(T) \in T
    BY <2>1, <2>2, MinOfFinite
  <2> QED
    BY <2>2, <2>3 DEF T
<1> DEFINE f1 == [d \in S |-> d.box.y1]
           f2 == [d \in S |-> d.box.y2]
<1>3. f1 \in [S -> Int] /\ f2 \in [S -> Int]
  BY <1>1
<1>4. {f1[d] : d \in S} = {d.box.y1 : d \in S} /\ {f2[d] : d \in S} = {d.box.y2 : d \in S}
  OBVIOUS
<1> HIDE DEF f1, f2
<1>5. Min({f1[d] : d \in S}) \in Int /\ Min({f2[d] : d \in S}) \in Int
  BY <1>2, <1>3
<1> QED
  BY <1>4, <1>5 DEF RowTop, RowFoot

(* The order of the rows is strict and total: the least identity breaks a   *)
(* tie.                                                                     *)
LEMMA RowOrder ==
    ASSUME NEW dets, AreDetections(dets)
    PROVE  LET S == RowsOf(dets) IN
           /\ \A r \in S : ~RowBefore(r, r)
           /\ \A r, q, t \in S : RowBefore(r, q) /\ RowBefore(q, t) => RowBefore(r, t)
           /\ \A r, q \in S : r # q => RowBefore(r, q) \/ RowBefore(q, r)
<1> DEFINE S == RowsOf(dets)
<1>1. ASSUME NEW r \in S
      PROVE  /\ RowTop(r) \in Int /\ RowFoot(r) \in Int /\ LeastId(r) \in Seq(Int)
             /\ \E d \in dets : d \in r /\ LeastId(r) = d.id
  <2>1. r \in SUBSET dets /\ r # {}
    BY RowsPartition DEF RowsOf
  <2>2. AreDetections(r)
    BY <2>1, PartOfDetections
  <2>3. PICK d \in r : LeastId(r) = d.id
    BY <2>1, <2>2, LeastOfRow
  <2>4. d.id \in Seq(Int)
    BY <2>2 DEF AreDetections, IsDetection, Id
  <2> QED
    BY <2>1, <2>2, <2>3, <2>4, RowMeasures
<1>2. ASSUME NEW r \in S, NEW q \in S, r # q PROVE LeastId(r) # LeastId(q)
  <2>1. r \cap q = {}
    BY <1>2, RowsPartition
  <2>2. PICK d \in dets : d \in r /\ LeastId(r) = d.id
    BY <1>1
  <2>3. PICK e \in dets : e \in q /\ LeastId(q) = e.id
    BY <1>1
  <2> QED
    BY <2>1, <2>2, <2>3 DEF AreDetections
<1>3. \A r, q \in S : RowBefore(r, q) <=>
        \/ RowTop(r) < RowTop(q)
        \/ RowTop(r) = RowTop(q) /\ RowFoot(r) < RowFoot(q)
        \/ RowTop(r) = RowTop(q) /\ RowFoot(r) = RowFoot(q) /\ Before(LeastId(r), LeastId(q))
  BY DEF RowBefore, RowTop, RowFoot
<1>4. \A r \in S : ~Before(LeastId(r), LeastId(r))
  BY <1>1, BeforeIsStrict
<1>5. \A r, q, t \in S : Before(LeastId(r), LeastId(q)) /\ Before(LeastId(q), LeastId(t))
                           => Before(LeastId(r), LeastId(t))
  BY <1>1, BeforeIsStrict
<1>6. \A r, q \in S : r # q => Before(LeastId(r), LeastId(q)) \/ Before(LeastId(q), LeastId(r))
  BY <1>1, <1>2, BeforeIsStrict
<1> HIDE DEF S
<1>7. \A r \in S : ~RowBefore(r, r)
  BY <1>1, <1>3, <1>4
<1>8. \A r, q, t \in S : RowBefore(r, q) /\ RowBefore(q, t) => RowBefore(r, t)
  BY <1>1, <1>3, <1>5
<1>9. \A r, q \in S : r # q => RowBefore(r, q) \/ RowBefore(q, r)
  BY <1>1, <1>3, <1>6
<1> QED
  BY <1>7, <1>8, <1>9 DEF S

(* It ranks every row once.                                                 *)
LEMMA RowBeforeEnumerates ==
    ASSUME NEW dets, AreDetections(dets)
    PROVE  Enumerates(Ranked(RowsOf(dets), RowBefore), RowsOf(dets))
<1> DEFINE S == RowsOf(dets)
           R == {p \in S \X S : RowBefore(p[1], p[2])}
           s == Ranked(S, RowBefore)
<1>0. /\ \A r \in S : ~RowBefore(r, r)
      /\ \A r, q, t \in S : RowBefore(r, q) /\ RowBefore(q, t) => RowBefore(r, t)
      /\ \A r, q \in S : r # q => RowBefore(r, q) \/ RowBefore(q, r)
  BY RowOrder
<1>1. IsFiniteSet(S)
  <2> DEFINE f == [d \in dets |-> RowOf(dets, d)]
  <2>1. IsFiniteSet({f[d] : d \in dets})
    <3>1. DOMAIN f = dets /\ IsFiniteSet(dets)
      BY DEF AreDetections
    <3> HIDE DEF f
    <3> QED
      BY <3>1, ImageFinite
  <2> QED
    BY <2>1 DEF RowsOf
<1>2. StrictOrder(R, S)
  BY <1>0 DEF StrictOrder
<1>3. \A x \in S : {y \in S : RowBefore(y, x)} = Below(R, S, x)
  BY DEF Below
<1>4. s = [i \in 1..Cardinality(S) |->
              CHOOSE x \in S : Cardinality({y \in S : RowBefore(y, x)}) = i - 1]
  BY DEF Ranked
<1> HIDE DEF s, R, S
<1>5. ASSUME NEW i \in 1..Cardinality(S)
      PROVE  s[i] \in S /\ Cardinality(Below(R, S, s[i])) = i - 1
  <2>1. PICK x \in S : Cardinality(Below(R, S, x)) = i - 1
    BY <1>1, <1>2, RankOnto
  <2>2. Cardinality({y \in S : RowBefore(y, x)}) = i - 1
    BY <1>3, <2>1
  <2>3. s[i] \in S /\ Cardinality({y \in S : RowBefore(y, s[i])}) = i - 1
    BY <1>4, <2>2
  <2> QED
    BY <1>3, <2>3
<1>6. s \in [1..Cardinality(S) -> S]
  BY <1>4, <1>5
<1>7. Enumerates(s, S)
  BY <1>1, <1>2, <1>5, <1>6, EnumeratedByRank
<1> QED
  BY <1>7 DEF s, S

(* The rows from top to bottom, each from right to left.                    *)
LEMMA VisualRowsEnumerate ==
    ASSUME NEW S, AreDetections(S)
    PROVE  Enumerates(OrderVisualRows(S), S)
<1> DEFINE n == Cardinality(RowsOf(S))
           rows == Ranked(RowsOf(S), RowBefore)
           ss == [i \in 1..n |-> Ranked(rows[i], RightToLeft)]
<1>1. OrderVisualRows(S) = FlattenSeq(ss)
  BY DEF OrderVisualRows, RowsOf
<1>2. Enumerates(rows, RowsOf(S)) /\ DOMAIN rows = 1..n
  BY RowBeforeEnumerates DEF Ranked
<1>3. n \in Nat
  <2>1. rows \in Seq(RowsOf(S))
    BY <1>2 DEF Enumerates
  <2>2. Len(rows) \in Nat /\ DOMAIN rows = 1..Len(rows)
    BY <2>1
  <2> DEFINE f == [d \in S |-> RowOf(S, d)]
  <2>3. DOMAIN f = S /\ IsFiniteSet(S)
    BY DEF AreDetections
  <2>4. {f[d] : d \in S} = RowsOf(S)
    BY DEF RowsOf
  <2> HIDE DEF f
  <2>5. IsFiniteSet(RowsOf(S))
    BY <2>3, <2>4, ImageFinite
  <2> QED
    BY <2>5, FS_CardinalityType
<1> HIDE DEF rows, n
<1>4. ASSUME NEW i \in 1..n
      PROVE  rows[i] \in RowsOf(S) /\ rows[i] \in SUBSET S /\ Enumerates(ss[i], rows[i])
  <2>1. rows[i] \in RowsOf(S)
    <3>1. rows \in Seq(RowsOf(S)) /\ i \in DOMAIN rows
      BY <1>2 DEF Enumerates
    <3> QED
      BY <3>1
  <2>2. rows[i] \in SUBSET S
    BY <2>1, RowsPartition DEF RowsOf
  <2>3. AreDetections(rows[i])
    BY <2>2, PartOfDetections
  <2> QED
    BY <2>1, <2>2, <2>3, RightToLeftEnumerates
<1>5. DOMAIN ss = 1..n
  OBVIOUS
<1> HIDE DEF ss
<1>6. ASSUME NEW i \in 1..n
      PROVE  ss[i] \in Seq(S) /\ Range(ss[i]) = rows[i] /\ IsInjective(ss[i])
  BY <1>4 DEF Enumerates, Range, IsInjective
<1>7. ss \in Seq(Seq(S))
  BY <1>3, <1>5, <1>6 DEF ss
<1>8. \A i, j \in 1..n : i # j => Range(ss[i]) \cap Range(ss[j]) = {}
  <2> SUFFICES ASSUME NEW i \in 1..n, NEW j \in 1..n, i # j
               PROVE  Range(ss[i]) \cap Range(ss[j]) = {}
    OBVIOUS
  <2>1. rows[i] # rows[j]
    BY <1>2 DEF Enumerates
  <2> QED
    BY <1>4, <1>6, <2>1, RowsPartition
<1>9. /\ FlattenSeq(ss) \in Seq(S) /\ IsInjective(FlattenSeq(ss))
      /\ Range(FlattenSeq(ss)) = UNION {Range(ss[k]) : k \in 1..n}
  BY <1>5, <1>6, <1>7, <1>8, Flattened
<1>10. ASSUME NEW d \in S PROVE d \in Range(FlattenSeq(ss))
  <2>1. RowOf(S, d) \in RowsOf(S) /\ d \in RowOf(S, d)
    BY RowsPartition DEF RowsOf
  <2>2. PICK k \in 1..n : rows[k] = RowOf(S, d)
    BY <1>2, <2>1 DEF Enumerates
  <2> QED
    BY <1>6, <1>9, <2>1, <2>2
<1> QED
  BY <1>1, <1>9, <1>10 DEF Enumerates, Range, IsInjective

-----------------------------------------------------------------------------
(* Suppression and panels.                                                  *)

(* The suppression keeps a part of the detections, and what it drops        *)
(* duplicates something it keeps.                                           *)
LEMMA SuppressionKeeps ==
    ASSUME NEW S, AreDetections(S)
    PROVE  /\ DeduplicateByClass(S) \in SUBSET S
           /\ \A d \in S : \/ d \in DeduplicateByClass(S)
                           \/ \E k \in DeduplicateByClass(S) : Duplicates(d, k)
<1> DEFINE ranked == Ranked(S, Stronger)
           n == Len(ranked)
<1>1. Enumerates(ranked, S)
  BY StrongerEnumerates
<1> HIDE DEF ranked
<1>2. ranked \in Seq(S) /\ n \in Nat /\ DOMAIN ranked = 1..n
  BY <1>1 DEF Enumerates
<1>3. PICK acc : /\ acc[0] = {} /\ DeduplicateByClass(S) = acc[n]
                 /\ \A k \in 1..n :
                        acc[k] = IF \E e \in acc[k - 1] : Duplicates(ranked[k], e)
                                 THEN acc[k - 1] ELSE acc[k - 1] \cup {ranked[k]}
  BY <1>2, Dedup DEF DeduplicateByClass, ranked
<1> HIDE DEF n
<1> DEFINE Kept(k) == k <= n => /\ acc[k] \in SUBSET S
                                /\ \A i \in 1..k : \/ ranked[i] \in acc[k]
                                                   \/ \E e \in acc[k] : Duplicates(ranked[i], e)
           P == {k \in Nat : Kept(k)}
<1>4. Kept(0)
  BY <1>3
<1>5. ASSUME NEW k \in Nat, Kept(k) PROVE Kept(k + 1)
  <2> SUFFICES ASSUME k + 1 <= n
               PROVE  /\ acc[k + 1] \in SUBSET S
                      /\ \A i \in 1..(k + 1) : \/ ranked[i] \in acc[k + 1]
                                               \/ \E e \in acc[k + 1] : Duplicates(ranked[i], e)
    OBVIOUS
  <2>1. k <= n /\ k + 1 \in 1..n /\ (k + 1) - 1 = k
    BY <1>2
  <2>2. /\ acc[k] \in SUBSET S
        /\ \A i \in 1..k : ranked[i] \in acc[k] \/ \E e \in acc[k] : Duplicates(ranked[i], e)
    BY <1>5, <2>1
  <2>3. acc[k + 1] = IF \E e \in acc[k] : Duplicates(ranked[k + 1], e)
                     THEN acc[k] ELSE acc[k] \cup {ranked[k + 1]}
    BY <1>3, <2>1
  <2>4. ranked[k + 1] \in S
    BY <1>2, <2>1
  <2>5. acc[k + 1] \in SUBSET S /\ acc[k] \subseteq acc[k + 1]
    BY <2>2, <2>3, <2>4
  <2>6. ranked[k + 1] \in acc[k + 1] \/ \E e \in acc[k + 1] : Duplicates(ranked[k + 1], e)
    BY <2>3
  <2>7. ASSUME NEW i \in 1..(k + 1)
        PROVE  ranked[i] \in acc[k + 1] \/ \E e \in acc[k + 1] : Duplicates(ranked[i], e)
    <3>1. i = k + 1 \/ i \in 1..k
      OBVIOUS
    <3> QED
      BY <2>2, <2>5, <2>6, <3>1
  <2> QED
    BY <2>5, <2>7
<1>6. \A k \in Nat : Kept(k)
  <2> HIDE DEF Kept
  <2>1. 0 \in P
    BY <1>4
  <2>2. \A k \in Nat : k \in P => k + 1 \in P
    BY <1>5
  <2> HIDE DEF P
  <2>3. Nat \subseteq P
    BY <2>1, <2>2, SetInduction
  <2> QED
    BY <2>3 DEF P
<1>7. Kept(n) /\ n <= n
  BY <1>2, <1>6
<1>8. \A d \in S : \E i \in 1..n : ranked[i] = d
  BY <1>1, <1>2 DEF Enumerates
<1> QED
  BY <1>3, <1>7, <1>8

(* A panel, or nothing.                                                     *)
LEMMA PanelChosen ==
    ASSUME NEW P, AreDetections(P), NEW d
    PROVE  PanelOf(P, d) = <<>> \/ \E p \in P : PanelOf(P, d) = p.id
<1> DEFINE S == {p \in P : ContainsCenter(p.box, d.box)}
           R == {q \in S \X S : \/ Area(q[1].box) < Area(q[2].box)
                                \/ Area(q[1].box) = Area(q[2].box) /\ Before(q[1].id, q[2].id)}
<1>1. AreDetections(S)
  BY PartOfDetections
<1>2. \A p, q \in S : <<p, q>> \in R <=> \/ Area(p.box) < Area(q.box)
                                         \/ Area(p.box) = Area(q.box) /\ Before(p.id, q.id)
  OBVIOUS
<1>3. PanelOf(P, d) = IF S = {} THEN <<>>
                      ELSE (CHOOSE p \in S : \A q \in S \ {p} :
                              Area(p.box) < Area(q.box)
                              \/ (Area(p.box) = Area(q.box) /\ Before(p.id, q.id))).id
  BY DEF PanelOf
<1>4. S \subseteq P
  OBVIOUS
<1> HIDE DEF S, R
<1>5. \A p \in S : Area(p.box) \in Int
  BY <1>1 DEF AreDetections, IsDetection, BoxSet, Area, Width, Height
<1>6. StrictOrder(R, S)
  BY <1>1, <1>2, <1>5, DetectionsDiffer DEF StrictOrder
<1>7. CASE S # {}
  <2>1. IsFiniteSet(S)
    BY <1>1 DEF AreDetections
  <2>2. PICK p \in S : \A q \in S \ {p} : <<p, q>> \in R
    BY <1>6, <1>7, <2>1, LeastExists
  <2>3. \A q \in S \ {p} : Area(p.box) < Area(q.box)
                           \/ (Area(p.box) = Area(q.box) /\ Before(p.id, q.id))
    BY <1>2, <2>2
  <2> QED
    BY <1>3, <1>4, <1>7, <2>3
<1> QED
  BY <1>3, <1>7

(* The reading order of a manga page reads everything once.                 *)
LEMMA MangaEnumerates ==
    ASSUME NEW S, AreDetections(S)
    PROVE  Enumerates(OrderManga(S), S)
<1> DEFINE panels == {d \in S : d.kind = "panel"}
           members(id) == {d \in S \ panels : PanelOf(panels, d) = id}
           inOrder == OrderVisualRows(panels)
           n == Len(inOrder)
           inner(i) == OrderVisualRows(members(inOrder[i].id))
           ss == [i \in DOMAIN inOrder |-> <<inOrder[i]>> \o inner(i)]
           outer == OrderVisualRows(members(<<>>))
<1>1. OrderManga(S) = FlattenSeq(ss) \o outer
  BY DEF OrderManga
<1>2. AreDetections(panels) /\ panels \in SUBSET S
  BY PartOfDetections
<1>3. Enumerates(inOrder, panels)
  BY <1>2, VisualRowsEnumerate
<1>4. \A id : members(id) \in SUBSET S /\ members(id) \cap panels = {}
  OBVIOUS
<1>5. \A id, other : id # other => members(id) \cap members(other) = {}
  OBVIOUS
<1>6. \A d \in S \ panels : d \in members(PanelOf(panels, d))
  OBVIOUS
<1>7. \A id : Enumerates(OrderVisualRows(members(id)), members(id))
  <2> SUFFICES ASSUME NEW id PROVE Enumerates(OrderVisualRows(members(id)), members(id))
    OBVIOUS
  <2>1. AreDetections(members(id))
    BY <1>4, PartOfDetections
  <2> HIDE DEF members
  <2> QED
    BY <2>1, VisualRowsEnumerate
<1>8. \A d \in S \ panels : \/ PanelOf(panels, d) = <<>>
                            \/ \E p \in panels : PanelOf(panels, d) = p.id
  BY <1>2, PanelChosen
<1>9. \A p, q \in panels : p.id # <<>> /\ (p.id = q.id => p = q)
  BY <1>2 DEF AreDetections, IsDetection, Id
<1> HIDE DEF inOrder, members, panels
<1>10. inOrder \in Seq(panels) /\ n \in Nat /\ DOMAIN inOrder = 1..n
  BY <1>3 DEF Enumerates
<1> HIDE DEF n
<1>11. /\ \A i \in 1..n : inOrder[i] \in panels
       /\ \A i, j \in 1..n : inOrder[i] = inOrder[j] => i = j
       /\ \A p \in panels : \E i \in 1..n : inOrder[i] = p
  BY <1>3, <1>10 DEF Enumerates
<1>12. \A id : /\ OrderVisualRows(members(id)) \in Seq(S)
               /\ Range(OrderVisualRows(members(id))) = members(id)
               /\ IsInjective(OrderVisualRows(members(id)))
  <2> SUFFICES ASSUME NEW id
               PROVE  /\ OrderVisualRows(members(id)) \in Seq(S)
                      /\ Range(OrderVisualRows(members(id))) = members(id)
                      /\ IsInjective(OrderVisualRows(members(id)))
    OBVIOUS
  <2> DEFINE s == OrderVisualRows(members(id))
             M == members(id)
  <2>1. Enumerates(s, M) /\ M \in SUBSET S
    BY <1>4, <1>7
  <2> HIDE DEF s, M
  <2>2. s \in Seq(M)
    BY <2>1 DEF Enumerates
  <2>3. s \in Seq(S)
    BY <2>1, <2>2
  <2>4. \A i \in DOMAIN s : s[i] \in M
    BY <2>2
  <2> QED
    BY <2>1, <2>3, <2>4 DEF s, M, Enumerates, Range, IsInjective
<1>13. ASSUME NEW i \in 1..n
       PROVE  /\ ss[i] \in Seq(S) /\ IsInjective(ss[i])
              /\ Range(ss[i]) = {inOrder[i]} \cup members(inOrder[i].id)
  <2> DEFINE p == inOrder[i]
             s == <<p>>
             t == OrderVisualRows(members(p.id))
  <2>1. p \in panels /\ ss[i] = s \o t
    BY <1>10, <1>11
  <2>2. t \in Seq(S) /\ Range(t) = members(p.id) /\ IsInjective(t) /\ p \notin members(p.id) /\ p \in S
    BY <1>2, <1>4, <1>12, <2>1
  <2> HIDE DEF t, p
  <2>3. s \in Seq(S) /\ Range(s) = {p} /\ IsInjective(s)
    <3>1. s \in Seq(S) /\ DOMAIN s = {1} /\ s[1] = p
      BY <2>2
    <3> HIDE DEF s
    <3> QED
      BY <3>1 DEF Range, IsInjective
  <2> HIDE DEF s
  <2>4. s \o t \in Seq(S) /\ Range(s \o t) = Range(s) \cup Range(t) /\ IsInjective(s \o t)
    BY <2>2, <2>3, Concatenation
  <2> QED
    BY <2>1, <2>2, <2>3, <2>4 DEF p
<1>14. DOMAIN ss = 1..n
  BY <1>10
<1> HIDE DEF ss
<1>15. ss \in Seq(Seq(S))
  <2>1. ss = [i \in 1..n |-> ss[i]]
    BY <1>10 DEF ss
  <2> QED
    BY <1>10, <1>13, <2>1
<1>16. ASSUME NEW i \in 1..n, NEW j \in 1..n, i # j PROVE Range(ss[i]) \cap Range(ss[j]) = {}
  <2>1. inOrder[i] \in panels /\ inOrder[j] \in panels /\ inOrder[i] # inOrder[j]
    BY <1>11, <1>16
  <2>2. inOrder[i].id # inOrder[j].id
    BY <1>9, <2>1
  <2>3. members(inOrder[i].id) \cap members(inOrder[j].id) = {}
    BY <1>5, <2>2
  <2>4. inOrder[i] \notin members(inOrder[j].id) /\ inOrder[j] \notin members(inOrder[i].id)
    BY <1>4, <2>1
  <2> QED
    BY <1>13, <2>1, <2>3, <2>4
<1> DEFINE first == FlattenSeq(ss)
<1>17. first \in Seq(S) /\ IsInjective(first) /\ Range(first) = UNION {Range(ss[k]) : k \in 1..n}
  BY <1>13, <1>14, <1>15, <1>16, Flattened
<1>18. outer \in Seq(S) /\ Range(outer) = members(<<>>) /\ IsInjective(outer)
  BY <1>12
<1> HIDE DEF first, outer
<1>19. Range(first) \cap Range(outer) = {}
  <2> SUFFICES ASSUME NEW k \in 1..n PROVE Range(ss[k]) \cap members(<<>>) = {}
    BY <1>17, <1>18
  <2>1. inOrder[k] \in panels /\ inOrder[k].id # <<>>
    BY <1>9, <1>11
  <2>2. members(inOrder[k].id) \cap members(<<>>) = {}
    BY <1>5, <2>1
  <2>3. inOrder[k] \notin members(<<>>)
    BY <1>4, <2>1
  <2> QED
    BY <1>13, <2>2, <2>3
<1>20. /\ first \o outer \in Seq(S) /\ Range(first \o outer) = Range(first) \cup Range(outer)
       /\ IsInjective(first \o outer)
  BY <1>17, <1>18, <1>19, Concatenation
<1>21. ASSUME NEW d \in S PROVE d \in Range(first) \cup Range(outer)
  <2>1. CASE d \in panels
    <3>1. PICK k \in 1..n : inOrder[k] = d
      BY <1>11, <2>1
    <3>2. d \in Range(ss[k])
      BY <1>13, <3>1
    <3> QED
      BY <1>17, <3>2
  <2>2. CASE d \notin panels
    <3>1. d \in members(PanelOf(panels, d))
      BY <1>6, <2>2
    <3>2. CASE PanelOf(panels, d) = <<>>
      BY <1>18, <3>1, <3>2
    <3>3. CASE \E p \in panels : PanelOf(panels, d) = p.id
      <4>1. PICK k \in 1..n : PanelOf(panels, d) = inOrder[k].id
        BY <1>11, <3>3
      <4>2. d \in Range(ss[k])
        BY <1>13, <3>1, <4>1
      <4> QED
        BY <1>17, <4>2
    <3> QED
      BY <1>8, <2>2, <3>2, <3>3
  <2> QED
    BY <2>1, <2>2
<1> DEFINE all == first \o outer
<1>22. all \in Seq(S) /\ IsInjective(all) /\ \A d \in S : d \in Range(all)
  BY <1>20, <1>21
<1>23. OrderManga(S) = all
  BY <1>1 DEF first
<1> HIDE DEF all
<1> QED
  BY <1>22, <1>23 DEF Enumerates, Range, IsInjective

-----------------------------------------------------------------------------
(* The collection.                                                          *)

(* A balloon that is there, for a text only.                                *)
LEMMA BalloonChosen ==
    ASSUME NEW S, AreDetections(S), NEW t, IsDetection(t)
    PROVE  \/ LinkedBalloon(S, t) = <<>>
           \/ t.kind = "text" /\ \E b \in S : b.kind = "balloon" /\ LinkedBalloon(S, t) = b.id
<1> DEFINE C == {b \in S : b.kind = "balloon" /\
                    (ContainsCenter(b.box, t.box) \/ 2 * Shared(t.box, b.box) >= Area(t.box))}
           score(b) == Shared(t.box, b.box)
                       + IF ContainsCenter(b.box, t.box) THEN Area(t.box) ELSE 0
           better(a, b) ==
             \/ score(a) > score(b)
             \/ score(a) = score(b) /\ Area(a.box) < Area(b.box)
             \/ score(a) = score(b) /\ Area(a.box) = Area(b.box) /\ Before(a.id, b.id)
           R == {q \in C \X C : better(q[1], q[2])}
<1>1. AreDetections(C) /\ C \in SUBSET S /\ \A b \in C : b.kind = "balloon"
  BY PartOfDetections
<1>2. \A a, b \in C : <<a, b>> \in R <=> better(a, b)
  OBVIOUS
<1>3. LinkedBalloon(S, t) = IF t.kind # "text" \/ C = {} THEN <<>>
                            ELSE (CHOOSE b \in C : \A c \in C \ {b} : better(b, c)).id
  BY DEF LinkedBalloon
<1> HIDE DEF C, R
<1>4. \A b \in C : Area(b.box) \in Int /\ score(b) \in Int
  <2> SUFFICES ASSUME NEW b \in C PROVE Area(b.box) \in Int /\ score(b) \in Int
    OBVIOUS
  <2>1. b.box \in BoxSet /\ t.box \in BoxSet
    BY <1>1 DEF AreDetections, IsDetection
  <2>2. Area(b.box) \in Int /\ Area(t.box) \in Int
    BY <2>1 DEF BoxSet, Area, Width, Height
  <2>3. Shared(t.box, b.box) \in Int
    BY <2>1 DEF BoxSet, Shared, Larger, Smaller
  <2> QED
    BY <2>2, <2>3
<1> HIDE DEF score
<1>5. StrictOrder(R, C)
  <2>1. \A b \in C : ~better(b, b)
    BY <1>1, <1>4, DetectionsDiffer
  <2>2. \A a, b, c \in C : better(a, b) /\ better(b, c) => better(a, c)
    <3>1. \A a, b, c \in C : Before(a.id, b.id) /\ Before(b.id, c.id) => Before(a.id, c.id)
      BY <1>1, DetectionsDiffer
    <3> QED
      BY <1>4, <3>1
  <2>3. \A a, b \in C : a # b => better(a, b) \/ better(b, a)
    <3>1. \A a, b \in C : a # b => Before(a.id, b.id) \/ Before(b.id, a.id)
      BY <1>1, DetectionsDiffer
    <3> QED
      BY <1>4, <3>1
  <2> HIDE DEF better
  <2> QED
    BY <1>2, <2>1, <2>2, <2>3 DEF StrictOrder
<1> HIDE DEF better
<1>6. CASE C # {} /\ t.kind = "text"
  <2>1. IsFiniteSet(C)
    BY <1>1 DEF AreDetections
  <2>2. PICK b \in C : \A c \in C \ {b} : <<b, c>> \in R
    BY <1>5, <1>6, <2>1, LeastExists
  <2>3. \A c \in C \ {b} : better(b, c)
    BY <1>2, <2>2
  <2> QED
    BY <1>1, <1>3, <1>6, <2>3
<1> QED
  BY <1>3, <1>6

(* What finalize_detections makes of a set of detections.                   *)
Final(sems, kept, ordered) ==
    /\ Enumerates(ordered, kept)
    /\ sems = [i \in DOMAIN ordered |->
                [id |-> ordered[i].id, kind |-> ordered[i].kind, box |-> ordered[i].box,
                 score |-> ordered[i].score, order |-> i - 1,
                 parent |-> LinkedBalloon(kept, ordered[i])]]

(* finalize_detections lists what the suppression kept, each detection      *)
(* once, in both reading orders.                                            *)
LEMMA FinalizedIs ==
    ASSUME NEW S, AreDetections(S), NEW direction
    PROVE  \E ordered : Final(Finalized(S, direction), DeduplicateByClass(S), ordered)
<1> DEFINE kept == DeduplicateByClass(S)
           ordered == IF direction = "manga" THEN OrderManga(kept) ELSE Ranked(kept, TopToBottom)
<1>1. AreDetections(kept)
  BY SuppressionKeeps, PartOfDetections
<1>2. Enumerates(ordered, kept)
  <2> HIDE DEF kept
  <2> QED
    BY <1>1, MangaEnumerates, TopToBottomEnumerates
<1>3. Finalized(S, direction) =
        [i \in DOMAIN ordered |->
            [id |-> ordered[i].id, kind |-> ordered[i].kind, box |-> ordered[i].box,
             score |-> ordered[i].score, order |-> i - 1,
             parent |-> LinkedBalloon(kept, ordered[i])]]
  BY DEF Finalized
<1> HIDE DEF ordered, kept
<1>4. Final(Finalized(S, direction), kept, ordered)
  BY <1>2, <1>3 DEF Final
<1> QED
  BY <1>4 DEF kept

(* What a collection is made of.                                            *)
SemSet == [id : Id, kind : Kinds, box : BoxSet, score : Int, order : Int, parent : Id \cup {<<>>}]

(* What the next stages rely on: identities are unique, the order is the    *)
(* place, a parent is a balloon that is there and has no parent, and        *)
(* nothing that was kept is missing.                                        *)
LEMMA FinalFacts ==
    ASSUME NEW kept, AreDetections(kept), NEW sems, NEW ordered, Final(sems, kept, ordered)
    PROVE  /\ sems \in Seq(SemSet)
           /\ \A i, j \in DOMAIN sems : sems[i].id = sems[j].id => i = j
           /\ \A i \in DOMAIN sems : /\ sems[i].order = i - 1
                                     /\ ordered[i] \in kept /\ sems[i].id = ordered[i].id
           /\ \A i \in DOMAIN sems : sems[i].parent # <<>> =>
                /\ sems[i].kind = "text"
                /\ \E j \in DOMAIN sems : /\ sems[j].id = sems[i].parent
                                          /\ sems[j].kind = "balloon" /\ sems[j].parent = <<>>
           /\ \A d \in kept : \E i \in DOMAIN sems :
                sems[i].id = d.id /\ sems[i].kind = d.kind /\ sems[i].box = d.box
<1> DEFINE n == Len(ordered)
           sem(i) == [id |-> ordered[i].id, kind |-> ordered[i].kind, box |-> ordered[i].box,
                      score |-> ordered[i].score, order |-> i - 1,
                      parent |-> LinkedBalloon(kept, ordered[i])]
<1>1. ordered \in Seq(kept) /\ n \in Nat /\ DOMAIN ordered = 1..n
  BY DEF Final, Enumerates
<1> HIDE DEF n
<1>2. sems = [i \in 1..n |-> sem(i)]
  BY <1>1 DEF Final
<1>3. /\ \A i, j \in 1..n : ordered[i] = ordered[j] => i = j
      /\ \A d \in kept : \E i \in 1..n : ordered[i] = d
      /\ \A i \in 1..n : ordered[i] \in kept
  <2>1. \A i \in DOMAIN ordered : ordered[i] \in kept
    BY <1>1
  <2> QED
    BY <1>1, <2>1 DEF Final, Enumerates
<1>4. ASSUME NEW i \in 1..n
      PROVE  /\ IsDetection(ordered[i])
             /\ \/ LinkedBalloon(kept, ordered[i]) = <<>>
                \/ /\ ordered[i].kind = "text"
                   /\ \E b \in kept : b.kind = "balloon" /\ LinkedBalloon(kept, ordered[i]) = b.id
  <2>1. IsDetection(ordered[i])
    BY <1>3 DEF AreDetections
  <2> QED
    BY <2>1, BalloonChosen
<1>5. ASSUME NEW i \in 1..n PROVE sem(i) \in SemSet
  <2>1. LinkedBalloon(kept, ordered[i]) \in Id \cup {<<>>}
    BY <1>4 DEF AreDetections, IsDetection
  <2>2. i - 1 \in Int
    OBVIOUS
  <2> QED
    BY <1>4, <2>1, <2>2 DEF IsDetection, SemSet
<1>6. /\ DOMAIN sems = 1..n
      /\ \A i \in 1..n : /\ sems[i].id = ordered[i].id /\ sems[i].kind = ordered[i].kind
                         /\ sems[i].box = ordered[i].box /\ sems[i].order = i - 1
                         /\ sems[i].parent = LinkedBalloon(kept, ordered[i])
  BY <1>2
<1>7. sems \in Seq(SemSet)
  BY <1>1, <1>2, <1>5
<1>8. \A i, j \in 1..n : sems[i].id = sems[j].id => i = j
  BY <1>3, <1>6 DEF AreDetections
<1>9. ASSUME NEW i \in 1..n, sems[i].parent # <<>>
      PROVE  /\ sems[i].kind = "text"
             /\ \E j \in 1..n : /\ sems[j].id = sems[i].parent
                                /\ sems[j].kind = "balloon" /\ sems[j].parent = <<>>
  <2>1. PICK b \in kept : b.kind = "balloon" /\ sems[i].parent = b.id
    BY <1>4, <1>6, <1>9
  <2>2. PICK j \in 1..n : ordered[j] = b
    BY <1>3
  <2>3. sems[j].kind = "balloon" /\ sems[j].id = b.id
    BY <1>6, <2>1, <2>2
  <2>4. sems[j].parent = <<>>
    BY <1>4, <1>6, <2>3
  <2> QED
    BY <1>4, <1>6, <1>9, <2>1, <2>3, <2>4
<1>10. ASSUME NEW d \in kept
       PROVE  \E i \in 1..n : sems[i].id = d.id /\ sems[i].kind = d.kind /\ sems[i].box = d.box
  BY <1>3, <1>6
<1> HIDE DEF sem
<1> QED
  BY <1>3, <1>6, <1>7, <1>8, <1>9, <1>10

(* finalize_detections hands on a collection that                           *)
(* validate_detection_collection accepts, whatever was detected.            *)
THEOREM FinalIsValid ==
    ASSUME NEW S, AreDetections(S), NEW direction
    PROVE  ValidCollection(Finalized(S, direction))
<1>1. PICK ordered : Final(Finalized(S, direction), DeduplicateByClass(S), ordered)
  BY FinalizedIs
<1>2. AreDetections(DeduplicateByClass(S))
  BY SuppressionKeeps, PartOfDetections
<1> DEFINE sems == Finalized(S, direction)
<1>3. /\ sems \in Seq(SemSet)
      /\ \A i, j \in DOMAIN sems : sems[i].id = sems[j].id => i = j
      /\ \A i \in DOMAIN sems : sems[i].order = i - 1
      /\ \A i \in DOMAIN sems : sems[i].parent # <<>> =>
                /\ sems[i].kind = "text"
                /\ \E j \in DOMAIN sems : /\ sems[j].id = sems[i].parent
                                          /\ sems[j].kind = "balloon" /\ sems[j].parent = <<>>
  BY <1>1, <1>2, FinalFacts
<1> HIDE DEF sems
<1>4. \A i, j \in DOMAIN sems : i # j => sems[i].order # sems[j].order
  <2>1. DOMAIN sems \subseteq Int
    BY <1>3
  <2> QED
    BY <1>3, <2>1
<1>5. ValidCollection(sems)
  BY <1>3, <1>4 DEF ValidCollection
<1> QED
  BY <1>5 DEF sems

(* Adapting gives every detection an identity of its own.                   *)
LEMMA AdaptedDetections ==
    ASSUME NEW raw \in Seq(RawDetection)
    PROVE  AreDetections(Adapted(raw))
<1> DEFINE kept == {i \in DOMAIN raw :
                    /\ raw[i].label \in DOMAIN KindOf
                    /\ raw[i].score >= Threshold[KindOf[raw[i].label]]}
           twins(i) == {j \in kept : raw[j].digest = raw[i].digest
                        /\ (raw[j].score > raw[i].score
                            \/ (raw[j].score = raw[i].score /\ j <= i))}
           det(i) == [id |-> <<raw[i].digest, Cardinality(twins(i))>>,
                      kind |-> KindOf[raw[i].label], box |-> raw[i].box, score |-> raw[i].score]
<1>1. Adapted(raw) = {det(i) : i \in kept}
  BY DEF Adapted
<1>2. IsFiniteSet(kept) /\ kept \in SUBSET Int
  <2>1. Len(raw) \in Nat /\ DOMAIN raw = 1..Len(raw)
    OBVIOUS
  <2>2. IsFiniteSet(1..Len(raw)) /\ kept \in SUBSET (1..Len(raw))
    BY <2>1, FS_Interval
  <2> HIDE DEF kept
  <2>3. IsFiniteSet(kept)
    BY <2>2, FS_Subset
  <2> QED
    BY <2>1, <2>2, <2>3
<1>3. \A i \in kept : /\ raw[i] \in RawDetection /\ raw[i].label \in DOMAIN KindOf
  OBVIOUS
<1>4. \A l \in DOMAIN KindOf : KindOf[l] \in Kinds
  BY DEF KindOf, Kinds
<1> HIDE DEF kept
<1>5. \A i \in kept : IsFiniteSet(twins(i)) /\ Cardinality(twins(i)) \in Nat
  <2> SUFFICES ASSUME NEW i \in kept PROVE IsFiniteSet(twins(i)) /\ Cardinality(twins(i)) \in Nat
    OBVIOUS
  <2>1. twins(i) \in SUBSET kept
    OBVIOUS
  <2>2. IsFiniteSet(twins(i))
    BY <1>2, <2>1, FS_Subset
  <2> QED
    BY <2>2, FS_CardinalityType
<1>6. ASSUME NEW i \in kept, NEW j \in kept, raw[i].digest = raw[j].digest,
             raw[i].score > raw[j].score \/ (raw[i].score = raw[j].score /\ i < j)
      PROVE  Cardinality(twins(i)) # Cardinality(twins(j))
  <2>1. raw[i].score \in Int /\ raw[j].score \in Int /\ \A k \in kept : raw[k].score \in Int
    BY <1>3 DEF RawDetection
  <2>2. i \in Int /\ j \in Int /\ \A k \in kept : k \in Int
    BY <1>2
  <2>3. twins(i) \in SUBSET twins(j)
    <3> SUFFICES ASSUME NEW k \in twins(i) PROVE k \in twins(j)
      OBVIOUS
    <3>1. k \in kept /\ raw[k].digest = raw[j].digest
      BY <1>6
    <3>2. raw[k].score > raw[i].score \/ (raw[k].score = raw[i].score /\ k <= i)
      OBVIOUS
    <3>3. raw[k].score \in Int /\ k \in Int
      BY <2>1, <2>2, <3>1
    <3>4. raw[k].score > raw[j].score \/ (raw[k].score = raw[j].score /\ k <= j)
      BY <1>6, <2>1, <2>2, <3>2, <3>3
    <3> QED
      BY <3>1, <3>4
  <2>4. j \in twins(j) /\ j \notin twins(i)
    BY <1>6, <2>1, <2>2
  <2>5. twins(i) # twins(j)
    BY <2>4
  <2> HIDE DEF twins
  <2> QED
    BY <1>5, <2>3, <2>5, FS_Subset
<1>7. ASSUME NEW i \in kept, NEW j \in kept, det(i).id = det(j).id PROVE i = j
  <2>1. raw[i].digest = raw[j].digest /\ Cardinality(twins(i)) = Cardinality(twins(j))
    <3> HIDE DEF twins
    <3> QED
      BY <1>7
  <2>2. /\ raw[i].score \in Int /\ raw[j].score \in Int /\ i \in Int /\ j \in Int
    BY <1>2, <1>3 DEF RawDetection
  <2> HIDE DEF twins, det
  <2> QED
    BY <1>6, <2>1, <2>2
<1>8. ASSUME NEW i \in kept PROVE IsDetection(det(i))
  <2>1. raw[i].digest \in Int /\ raw[i].box \in BoxSet /\ raw[i].score \in Int
    BY <1>3 DEF RawDetection
  <2>2. <<raw[i].digest, Cardinality(twins(i))>> \in Id
    <3> HIDE DEF twins
    <3> QED
      BY <1>5, <2>1 DEF Id
  <2> HIDE DEF twins
  <2> QED
    BY <1>3, <1>4, <2>1, <2>2 DEF IsDetection
<1>9. IsFiniteSet({det(i) : i \in kept})
  <2> DEFINE f == [i \in kept |-> det(i)]
  <2>1. IsFiniteSet({f[i] : i \in kept})
    <3>1. DOMAIN f = kept
      OBVIOUS
    <3> HIDE DEF f
    <3> QED
      BY <1>2, <3>1, ImageFinite
  <2> HIDE DEF det
  <2> QED
    BY <2>1
<1> HIDE DEF det
<1> QED
  BY <1>1, <1>7, <1>8, <1>9 DEF AreDetections

-----------------------------------------------------------------------------
(* What is read, and the strips of a tall page.                             *)

(* What is read: all but the panels and the texts of a balloon.             *)
LEMMA RegionsRead ==
    ASSUME NEW sems \in Seq(SemSet)
    PROVE  /\ ProcessingRegions(sems) \in Seq([sem : Id, box : BoxSet, artwork : BOOLEAN])
           /\ \A i \in DOMAIN sems : sems[i].kind # "panel" /\ sems[i].parent = <<>> =>
                \E k \in DOMAIN ProcessingRegions(sems) :
                    ProcessingRegions(sems)[k].sem = sems[i].id
<1> DEFINE I == {i \in DOMAIN sems : sems[i].kind # "panel" /\ sems[i].parent = <<>>}
           read == Selected(sems, I)
           n == Cardinality(I)
           region(k) == [sem |-> read[k].id, box |-> read[k].box, artwork |-> read[k].kind = "sfx"]
<1>1. ProcessingRegions(sems) = [k \in DOMAIN read |-> region(k)]
  BY DEF ProcessingRegions
<1>2. I \in SUBSET DOMAIN sems
  OBVIOUS
<1>3. \A i \in DOMAIN sems : sems[i].kind # "panel" /\ sems[i].parent = <<>> => i \in I
  OBVIOUS
<1> HIDE DEF I
<1>4. /\ read \in Seq(SemSet) /\ Len(read) = n
      /\ \E at \in [1..n -> I] : Enumerates(at, I) /\ \A k \in 1..n : read[k] = sems[at[k]]
  BY <1>2, SelectedPlaces
<1> HIDE DEF read
<1>5. n \in Nat /\ DOMAIN read = 1..n
  BY <1>4
<1> HIDE DEF n
<1>6. \A k \in 1..n : read[k] \in SemSet
  BY <1>4, <1>5
<1>7. \A k \in 1..n : region(k) \in [sem : Id, box : BoxSet, artwork : BOOLEAN]
  <2> SUFFICES ASSUME NEW k \in 1..n
               PROVE  region(k) \in [sem : Id, box : BoxSet, artwork : BOOLEAN]
    OBVIOUS
  <2>1. read[k].id \in Id /\ read[k].box \in BoxSet
    BY <1>6 DEF SemSet
  <2>2. (read[k].kind = "sfx") \in BOOLEAN
    OBVIOUS
  <2> QED
    BY <2>1, <2>2
<1>8. ProcessingRegions(sems) \in Seq([sem : Id, box : BoxSet, artwork : BOOLEAN])
  BY <1>1, <1>5, <1>7
<1>9. ASSUME NEW i \in I
      PROVE  \E k \in 1..n : ProcessingRegions(sems)[k].sem = sems[i].id
  <2>1. PICK at \in [1..n -> I] : Enumerates(at, I) /\ \A k \in 1..n : read[k] = sems[at[k]]
    BY <1>4
  <2>2. PICK k \in 1..n : at[k] = i
    BY <2>1 DEF Enumerates
  <2> QED
    BY <1>1, <1>5, <2>1, <2>2
<1>10. DOMAIN ProcessingRegions(sems) = 1..n
  BY <1>1, <1>5
<1> HIDE DEF region
<1> QED
  BY <1>3, <1>8, <1>9, <1>10

(* Every detection of an inference is in the reading order or duplicates    *)
(* one that is, and what is not a panel is read, itself or with its         *)
(* balloon.                                                                 *)
THEOREM NothingIsUnread ==
    ASSUME NEW S, AreDetections(S), NEW direction
    PROVE  LET sems == Finalized(S, direction)
               read == {r.sem : r \in Range(ProcessingRegions(sems))}
           IN  /\ \A d \in S : \/ Cardinality({i \in DOMAIN sems : sems[i].id = d.id}) = 1
                               \/ \E k \in Range(sems) : Duplicates(d, k)
               /\ \A d \in Range(sems) : d.kind # "panel" => d.id \in read \/ d.parent \in read
<1> DEFINE sems == Finalized(S, direction)
           kept == DeduplicateByClass(S)
           regions == ProcessingRegions(sems)
           read == {r.sem : r \in Range(regions)}
<1>1. PICK ordered : Final(sems, kept, ordered)
  BY FinalizedIs
<1>2. kept \in SUBSET S /\ AreDetections(kept)
  BY SuppressionKeeps, PartOfDetections
<1>3. \A d \in S : d \in kept \/ \E k \in kept : Duplicates(d, k)
  BY SuppressionKeeps
<1> HIDE DEF sems, kept
<1>4. /\ sems \in Seq(SemSet)
      /\ \A i, j \in DOMAIN sems : sems[i].id = sems[j].id => i = j
      /\ \A i \in DOMAIN sems : sems[i].parent # <<>> =>
                /\ sems[i].kind = "text"
                /\ \E j \in DOMAIN sems : /\ sems[j].id = sems[i].parent
                                          /\ sems[j].kind = "balloon" /\ sems[j].parent = <<>>
      /\ \A d \in kept : \E i \in DOMAIN sems :
                sems[i].id = d.id /\ sems[i].kind = d.kind /\ sems[i].box = d.box
  BY <1>1, <1>2, FinalFacts
<1>5. ASSUME NEW d \in S
      PROVE  \/ Cardinality({i \in DOMAIN sems : sems[i].id = d.id}) = 1
             \/ \E k \in Range(sems) : Duplicates(d, k)
  <2>1. CASE d \in kept
    <3>1. PICK i \in DOMAIN sems : sems[i].id = d.id
      BY <1>4, <2>1
    <3>2. {j \in DOMAIN sems : sems[j].id = d.id} = {i}
      BY <1>4, <3>1
    <3> QED
      BY <3>2, FS_Singleton
  <2>2. CASE \E k \in kept : Duplicates(d, k)
    <3>1. PICK k \in kept : Duplicates(d, k)
      BY <2>2
    <3>2. PICK i \in DOMAIN sems : sems[i].kind = k.kind /\ sems[i].box = k.box
      BY <1>4
    <3>3. Duplicates(d, sems[i])
      BY <3>1, <3>2 DEF Duplicates
    <3> QED
      BY <3>3 DEF Range
  <2> QED
    BY <1>3, <2>1, <2>2
<1>6. \A i \in DOMAIN sems : sems[i].kind # "panel" /\ sems[i].parent = <<>> =>
        sems[i].id \in read
  BY <1>4, RegionsRead DEF Range
<1> HIDE DEF read
<1>7. ASSUME NEW d \in Range(sems), d.kind # "panel" PROVE d.id \in read \/ d.parent \in read
  <2>1. PICK i \in DOMAIN sems : sems[i] = d
    BY DEF Range
  <2>2. CASE d.parent = <<>>
    BY <1>6, <1>7, <2>1, <2>2
  <2>3. CASE d.parent # <<>>
    <3>1. PICK j \in DOMAIN sems : /\ sems[j].id = d.parent
                                   /\ sems[j].kind = "balloon" /\ sems[j].parent = <<>>
      BY <1>4, <2>1, <2>3
    <3> QED
      BY <1>6, <3>1
  <2> QED
    BY <2>2, <2>3
<1> QED
  BY <1>5, <1>7 DEF read, sems

(* The strips of a page find detections with identities of their own.       *)
LEMMA StripDetections ==
    ASSUME NEW D \in SUBSET Int, IsFiniteSet(D), NEW strips \in [D -> Seq(RawDetection)]
    PROVE  AreDetections(UNION {Offset(Range(Finalized(Adapted(strips[dy]), "vertical")), dy) :
                                    dy \in DOMAIN strips})
<1> DEFINE sems(dy) == Finalized(Adapted(strips[dy]), "vertical")
           moved(dy) == Offset(Range(sems(dy)), dy)
           all == UNION {moved(dy) : dy \in D}
<1>1. ASSUME NEW dy \in D
      PROVE  /\ sems(dy) \in Seq(SemSet)
             /\ \A i, j \in DOMAIN sems(dy) : sems(dy)[i].id = sems(dy)[j].id => i = j
  <2>1. AreDetections(Adapted(strips[dy]))
    BY AdaptedDetections
  <2>2. PICK ordered : Final(sems(dy), DeduplicateByClass(Adapted(strips[dy])), ordered)
    BY <2>1, FinalizedIs
  <2>3. AreDetections(DeduplicateByClass(Adapted(strips[dy])))
    BY <2>1, SuppressionKeeps, PartOfDetections
  <2> HIDE DEF sems
  <2> QED
    BY <2>2, <2>3, FinalFacts
<1> HIDE DEF sems
<1>2. ASSUME NEW dy \in D, NEW e \in moved(dy)
      PROVE  \E i \in DOMAIN sems(dy) :
                /\ e = [sems(dy)[i] EXCEPT !.id = Append(@, dy), !.box.y1 = @ + dy,
                                           !.box.y2 = @ + dy]
                /\ e.id = Append(sems(dy)[i].id, dy) /\ IsDetection(e)
  <2>1. PICK d \in Range(sems(dy)) :
            e = [d EXCEPT !.id = Append(@, dy), !.box.y1 = @ + dy, !.box.y2 = @ + dy]
    BY DEF Offset
  <2>2. PICK i \in DOMAIN sems(dy) : d = sems(dy)[i]
    BY DEF Range
  <2>3. d \in SemSet
    BY <1>1, <2>2
  <2>4. /\ e.id = Append(d.id, dy) /\ e.kind = d.kind /\ e.score = d.score
        /\ e.box = [d.box EXCEPT !.y1 = @ + dy, !.y2 = @ + dy]
    BY <2>1, <2>3 DEF SemSet
  <2>5. Append(d.id, dy) \in Id
    BY <2>3 DEF SemSet, Id
  <2>6. e.box \in BoxSet
    <3>1. d.box \in BoxSet /\ dy \in Int
      BY <2>3 DEF SemSet
    <3> DEFINE b == d.box
    <3> HIDE DEF b
    <3>2. [b EXCEPT !.y1 = @ + dy, !.y2 = @ + dy] \in BoxSet
      <4>1. b \in BoxSet /\ b.y1 + dy \in Int /\ b.y2 + dy \in Int
        BY <3>1 DEF b, BoxSet
      <4> QED
        BY <4>1 DEF BoxSet
    <3> QED
      BY <2>4, <3>2 DEF b
  <2>7. IsDetection(e)
    BY <2>3, <2>4, <2>5, <2>6 DEF SemSet, IsDetection
  <2> QED
    BY <2>1, <2>2, <2>4, <2>7
<1>3. ASSUME NEW dy \in D PROVE IsFiniteSet(moved(dy))
  <2> DEFINE s == sems(dy)
             f == [i \in DOMAIN s |-> [s[i] EXCEPT !.id = Append(@, dy), !.box.y1 = @ + dy,
                                                   !.box.y2 = @ + dy]]
  <2>1. IsFiniteSet(DOMAIN s)
    <3>1. Len(s) \in Nat /\ DOMAIN s = 1..Len(s)
      BY <1>1
    <3> QED
      BY <3>1, FS_Interval
  <2>2. IsFiniteSet({f[i] : i \in DOMAIN s})
    <3>1. DOMAIN f = DOMAIN s
      OBVIOUS
    <3> HIDE DEF f
    <3> QED
      BY <2>1, <3>1, ImageFinite
  <2>3. moved(dy) = {f[i] : i \in DOMAIN s}
    BY DEF Offset, Range
  <2> QED
    BY <2>2, <2>3
<1> HIDE DEF moved
<1>4. IsFiniteSet(all)
  <2> DEFINE f == [dy \in D |-> moved(dy)]
             T == {f[dy] : dy \in D}
  <2>1. IsFiniteSet(T)
    <3>1. DOMAIN f = D
      OBVIOUS
    <3> HIDE DEF f
    <3> QED
      BY <3>1, ImageFinite
  <2>2. \A t \in T : IsFiniteSet(t)
    BY <1>3
  <2>3. T = {moved(dy) : dy \in D}
    OBVIOUS
  <2> HIDE DEF T
  <2>4. IsFiniteSet(UNION T)
    BY <2>1, <2>2, FS_UNION
  <2> QED
    BY <2>3, <2>4
<1>5. \A e \in all : \E dy \in D : e \in moved(dy)
  OBVIOUS
<1> HIDE DEF all
<1>6. \A e \in all : IsDetection(e)
  BY <1>2, <1>5
<1>7. ASSUME NEW d \in all, NEW e \in all, d.id = e.id PROVE d = e
  <2>1. PICK dx \in D : d \in moved(dx)
    BY <1>5
  <2>2. PICK dy \in D : e \in moved(dy)
    BY <1>5
  <2>3. PICK i \in DOMAIN sems(dx) :
            /\ d = [sems(dx)[i] EXCEPT !.id = Append(@, dx), !.box.y1 = @ + dx, !.box.y2 = @ + dx]
            /\ d.id = Append(sems(dx)[i].id, dx)
    BY <1>2, <2>1
  <2>4. PICK j \in DOMAIN sems(dy) :
            /\ e = [sems(dy)[j] EXCEPT !.id = Append(@, dy), !.box.y1 = @ + dy, !.box.y2 = @ + dy]
            /\ e.id = Append(sems(dy)[j].id, dy)
    BY <1>2, <2>2
  <2>5. sems(dx)[i].id \in Seq(Int) /\ sems(dy)[j].id \in Seq(Int)
    <3>1. sems(dx)[i] \in SemSet /\ sems(dy)[j] \in SemSet
      BY <1>1
    <3> QED
      BY <3>1 DEF SemSet, Id
  <2>7. sems(dx)[i].id = sems(dy)[j].id /\ dx = dy
    <3>1. Append(sems(dx)[i].id, dx) = Append(sems(dy)[j].id, dy) /\ dx \in Int /\ dy \in Int
      BY <1>7, <2>3, <2>4
    <3> DEFINE a == sems(dx)[i].id
               b == sems(dy)[j].id
    <3> HIDE DEF a, b
    <3>2. a \in Seq(Int) /\ b \in Seq(Int) /\ Append(a, dx) = Append(b, dy)
      BY <2>5, <3>1 DEF a, b
    <3>3. a = b /\ dx = dy
      BY <3>1, <3>2, AppendInjective
    <3> QED
      BY <3>3 DEF a, b
  <2>8. i = j
    BY <1>1, <2>7
  <2> QED
    BY <2>3, <2>4, <2>7, <2>8
<1>8. AreDetections(all)
  BY <1>4, <1>6, <1>7 DEF AreDetections
<1> QED
  BY <1>8 DEF all, moved, sems

(* The collection of a tall page is accepted too, also when two strips      *)
(* found the same relative box.                                             *)
THEOREM StripsAreAccepted ==
    ASSUME NEW D \in SUBSET Int, IsFiniteSet(D), NEW strips \in [D -> Seq(RawDetection)]
    PROVE  ValidCollection(FinalizedStrips(strips))
  BY StripDetections, FinalIsValid DEF FinalizedStrips

-----------------------------------------------------------------------------
(* Sorted sequences of lines.                                               *)

(* The places of a sequence in the order of their keys, ties in their own   *)
(* order, as Sorted takes them.                                             *)
KeyOrder(keys, n) ==
    {p \in (1..n) \X (1..n) :
        keys[p[1]] < keys[p[2]] \/ (~(keys[p[2]] < keys[p[1]]) /\ p[1] < p[2])}

(* That order is strict and total, so ranking by it lists every place once. *)
LEMMA KeyOrderIsStrict ==
    ASSUME NEW n \in Nat, NEW keys \in [1..n -> Int]
    PROVE  StrictOrder(KeyOrder(keys, n), 1..n)
<1> DEFINE first(i, j) == keys[i] < keys[j] \/ (~(keys[j] < keys[i]) /\ i < j)
<1>1. \A i \in 1..n : keys[i] \in Int /\ i \in Int
  OBVIOUS
<1>2. \A i, j \in 1..n : <<i, j>> \in KeyOrder(keys, n) <=> first(i, j)
  BY DEF KeyOrder
<1>3. \A i \in 1..n : ~first(i, i)
  BY <1>1
<1>4. ASSUME NEW i \in 1..n, NEW j \in 1..n, NEW k \in 1..n, first(i, j), first(j, k)
      PROVE  first(i, k)
  BY <1>1, <1>4
<1>5. ASSUME NEW i \in 1..n, NEW j \in 1..n, i # j PROVE first(i, j) \/ first(j, i)
  BY <1>1, <1>5
<1> HIDE DEF first
<1> QED
  BY <1>2, <1>3, <1>4, <1>5 DEF StrictOrder

(* Sorting by a key rearranges: t is s, from the least key to the greatest.  *)
Rearranged(t, s, keys, n) ==
    \E at \in [1..n -> 1..n] :
        /\ t = [k \in 1..n |-> s[at[k]]]
        /\ \A x \in 1..n : \E k \in 1..n : at[k] = x
        /\ \A j, k \in 1..n : j < k => keys[at[j]] <= keys[at[k]]

(* The lines of a bubble from the top down. *)
LEMMA LinesFromTheTop ==
    ASSUME NEW lines \in Seq(TextDetection)
    PROVE  LET n == Len(lines)
               keys == [i \in 1..n |-> lines[i].box.y1]
           IN  Rearranged(Sorted(lines, LAMBDA a, b : a.box.y1 < b.box.y1), lines, keys, n)
<1> DEFINE n == Len(lines)
           S == 1..n
           keys == [i \in S |-> lines[i].box.y1]
           first(i, j) == lines[i].box.y1 < lines[j].box.y1
                          \/ (~(lines[j].box.y1 < lines[i].box.y1) /\ i < j)
           R == KeyOrder(keys, n)
           at == Ranked(DOMAIN lines, first)
           sorted == Sorted(lines, LAMBDA a, b : a.box.y1 < b.box.y1)
<1>1. n \in Nat /\ DOMAIN lines = S /\ \A i \in S : lines[i] \in TextDetection
  <2>1. \A i \in DOMAIN lines : lines[i] \in TextDetection
    OBVIOUS
  <2> QED
    BY <2>1
<1> HIDE DEF n
<1>2. \A i \in S : lines[i].box.y1 \in Int
  BY <1>1 DEF TextDetection, BoxSet
<1>3. keys \in [S -> Int] /\ \A i \in S : keys[i] = lines[i].box.y1
  BY <1>2
<1>4. IsFiniteSet(S) /\ Cardinality(S) = n
  BY <1>1, FS_Interval
<1>5. StrictOrder(R, S)
  <2> HIDE DEF keys
  <2> QED
    BY <1>1, <1>3, KeyOrderIsStrict
<1>6. \A i, j \in S : <<i, j>> \in R <=> first(i, j)
  <2> SUFFICES ASSUME NEW i \in S, NEW j \in S PROVE <<i, j>> \in R <=> first(i, j)
    OBVIOUS
  <2>1. keys[i] = lines[i].box.y1 /\ keys[j] = lines[j].box.y1 /\ lines[i].box.y1 \in Int /\ lines[j].box.y1 \in Int
    BY <1>2, <1>3
  <2>2. /\ keys[i] < keys[j] <=> lines[i].box.y1 < lines[j].box.y1
        /\ keys[j] < keys[i] <=> lines[j].box.y1 < lines[i].box.y1
    <3> DEFINE a == lines[i].box.y1
               b == lines[j].box.y1
    <3> HIDE DEF a, b
    <3>1. a \in Int /\ b \in Int /\ keys[i] = a /\ keys[j] = b
      BY <2>1 DEF a, b
    <3> HIDE DEF keys
    <3>2. /\ keys[i] < keys[j] <=> a < b
          /\ keys[j] < keys[i] <=> b < a
      BY <3>1
    <3> QED
      BY <3>2 DEF a, b
  <2>3. <<i, j>> \in R <=> keys[i] < keys[j] \/ (~(keys[j] < keys[i]) /\ i < j)
    <3> HIDE DEF keys
    <3> QED
      BY DEF KeyOrder
  <2> HIDE DEF keys, R
  <2> QED
    BY <2>2, <2>3
<1>7. \A x \in S : {y \in S : first(y, x)} = Below(R, S, x)
  BY <1>6 DEF Below
<1>8. at = [k \in 1..Cardinality(S) |->
                CHOOSE x \in S : Cardinality({y \in S : first(y, x)}) = k - 1]
  BY <1>1 DEF Ranked
<1>9. sorted = [k \in S |-> lines[at[k]]]
  BY <1>1 DEF Sorted
<1> HIDE DEF at, R, first, keys, S, sorted
<1>10. \A i \in 1..Cardinality(S) : at[i] \in S /\ Cardinality(Below(R, S, at[i])) = i - 1
  <2> SUFFICES ASSUME NEW i \in 1..Cardinality(S)
               PROVE  at[i] \in S /\ Cardinality(Below(R, S, at[i])) = i - 1
    OBVIOUS
  <2>1. PICK x \in S : Cardinality(Below(R, S, x)) = i - 1
    BY <1>4, <1>5, RankOnto
  <2>2. Cardinality({y \in S : first(y, x)}) = i - 1
    BY <1>7, <2>1
  <2>3. at[i] \in S /\ Cardinality({y \in S : first(y, at[i])}) = i - 1
    BY <1>8, <2>2
  <2> QED
    BY <1>7, <2>3
<1>11. at \in [1..Cardinality(S) -> S]
  BY <1>8, <1>10
<1>12. /\ Enumerates(at, S) /\ Len(at) = Cardinality(S)
       /\ \A i, j \in 1..Cardinality(S) : i < j => <<at[i], at[j]>> \in R
  BY <1>4, <1>5, <1>10, <1>11, EnumeratedByRank
<1>13. at \in [S -> S] /\ DOMAIN at = S
  BY <1>4, <1>11 DEF S
<1>14. \A x \in S : \E k \in S : at[k] = x
  BY <1>12, <1>13 DEF Enumerates
<1>15. ASSUME NEW j \in S, NEW k \in S, j < k PROVE keys[at[j]] <= keys[at[k]]
  <2>1. at[j] \in S /\ at[k] \in S
    BY <1>13
  <2>2. <<at[j], at[k]>> \in R
    BY <1>4, <1>12, <1>15 DEF S
  <2>3. ~(keys[at[k]] < keys[at[j]])
    <3>1. keys[at[j]] < keys[at[k]] \/ ~(keys[at[k]] < keys[at[j]])
      BY <2>1, <2>2 DEF R, KeyOrder
    <3>2. keys[at[j]] \in Int /\ keys[at[k]] \in Int
      BY <1>3, <2>1
    <3> QED
      BY <3>1, <3>2
  <2>4. keys[at[j]] \in Int /\ keys[at[k]] \in Int
    BY <1>3, <2>1
  <2> QED
    BY <2>3, <2>4
<1>16. Rearranged(sorted, lines, keys, n)
  BY <1>9, <1>13, <1>14, <1>15 DEF Rearranged, S
<1> QED
  BY <1>16 DEF n, keys, sorted, S

(* The lines of all strips, strongest first. *)
LEMMA LinesByScore ==
    ASSUME NEW lines \in Seq(TextDetection)
    PROVE  LET n == Len(lines)
               keys == [i \in 1..n |-> -lines[i].score]
           IN  Rearranged(Sorted(lines, LAMBDA a, b : a.score > b.score), lines, keys, n)
<1> DEFINE n == Len(lines)
           S == 1..n
           keys == [i \in S |-> -lines[i].score]
           first(i, j) == lines[i].score > lines[j].score
                          \/ (~(lines[j].score > lines[i].score) /\ i < j)
           R == KeyOrder(keys, n)
           at == Ranked(DOMAIN lines, first)
           sorted == Sorted(lines, LAMBDA a, b : a.score > b.score)
<1>1. n \in Nat /\ DOMAIN lines = S /\ \A i \in S : lines[i] \in TextDetection
  <2>1. \A i \in DOMAIN lines : lines[i] \in TextDetection
    OBVIOUS
  <2> QED
    BY <2>1
<1> HIDE DEF n
<1>2. \A i \in S : lines[i].score \in Int
  BY <1>1 DEF TextDetection, BoxSet
<1>3. keys \in [S -> Int] /\ \A i \in S : keys[i] = -lines[i].score
  BY <1>2
<1>4. IsFiniteSet(S) /\ Cardinality(S) = n
  BY <1>1, FS_Interval
<1>5. StrictOrder(R, S)
  <2> HIDE DEF keys
  <2> QED
    BY <1>1, <1>3, KeyOrderIsStrict
<1>6. \A i, j \in S : <<i, j>> \in R <=> first(i, j)
  <2> SUFFICES ASSUME NEW i \in S, NEW j \in S PROVE <<i, j>> \in R <=> first(i, j)
    OBVIOUS
  <2>1. keys[i] = -lines[i].score /\ keys[j] = -lines[j].score /\ lines[i].score \in Int /\ lines[j].score \in Int
    BY <1>2, <1>3
  <2>2. /\ keys[i] < keys[j] <=> lines[i].score > lines[j].score
        /\ keys[j] < keys[i] <=> lines[j].score > lines[i].score
    <3> DEFINE a == lines[i].score
               b == lines[j].score
    <3> HIDE DEF a, b
    <3>1. a \in Int /\ b \in Int /\ keys[i] = -a /\ keys[j] = -b
      BY <2>1 DEF a, b
    <3> HIDE DEF keys
    <3>2. /\ keys[i] < keys[j] <=> a > b
          /\ keys[j] < keys[i] <=> b > a
      BY <3>1
    <3> QED
      BY <3>2 DEF a, b
  <2>3. <<i, j>> \in R <=> keys[i] < keys[j] \/ (~(keys[j] < keys[i]) /\ i < j)
    <3> HIDE DEF keys
    <3> QED
      BY DEF KeyOrder
  <2> HIDE DEF keys, R
  <2> QED
    BY <2>2, <2>3
<1>7. \A x \in S : {y \in S : first(y, x)} = Below(R, S, x)
  BY <1>6 DEF Below
<1>8. at = [k \in 1..Cardinality(S) |->
                CHOOSE x \in S : Cardinality({y \in S : first(y, x)}) = k - 1]
  BY <1>1 DEF Ranked
<1>9. sorted = [k \in S |-> lines[at[k]]]
  BY <1>1 DEF Sorted
<1> HIDE DEF at, R, first, keys, S, sorted
<1>10. \A i \in 1..Cardinality(S) : at[i] \in S /\ Cardinality(Below(R, S, at[i])) = i - 1
  <2> SUFFICES ASSUME NEW i \in 1..Cardinality(S)
               PROVE  at[i] \in S /\ Cardinality(Below(R, S, at[i])) = i - 1
    OBVIOUS
  <2>1. PICK x \in S : Cardinality(Below(R, S, x)) = i - 1
    BY <1>4, <1>5, RankOnto
  <2>2. Cardinality({y \in S : first(y, x)}) = i - 1
    BY <1>7, <2>1
  <2>3. at[i] \in S /\ Cardinality({y \in S : first(y, at[i])}) = i - 1
    BY <1>8, <2>2
  <2> QED
    BY <1>7, <2>3
<1>11. at \in [1..Cardinality(S) -> S]
  BY <1>8, <1>10
<1>12. /\ Enumerates(at, S) /\ Len(at) = Cardinality(S)
       /\ \A i, j \in 1..Cardinality(S) : i < j => <<at[i], at[j]>> \in R
  BY <1>4, <1>5, <1>10, <1>11, EnumeratedByRank
<1>13. at \in [S -> S] /\ DOMAIN at = S
  BY <1>4, <1>11 DEF S
<1>14. \A x \in S : \E k \in S : at[k] = x
  BY <1>12, <1>13 DEF Enumerates
<1>15. ASSUME NEW j \in S, NEW k \in S, j < k PROVE keys[at[j]] <= keys[at[k]]
  <2>1. at[j] \in S /\ at[k] \in S
    BY <1>13
  <2>2. <<at[j], at[k]>> \in R
    BY <1>4, <1>12, <1>15 DEF S
  <2>3. ~(keys[at[k]] < keys[at[j]])
    <3>1. keys[at[j]] < keys[at[k]] \/ ~(keys[at[k]] < keys[at[j]])
      BY <2>1, <2>2 DEF R, KeyOrder
    <3>2. keys[at[j]] \in Int /\ keys[at[k]] \in Int
      BY <1>3, <2>1
    <3> QED
      BY <3>1, <3>2
  <2>4. keys[at[j]] \in Int /\ keys[at[k]] \in Int
    BY <1>3, <2>1
  <2> QED
    BY <2>3, <2>4
<1>16. Rearranged(sorted, lines, keys, n)
  BY <1>9, <1>13, <1>14, <1>15 DEF Rearranged, S
<1> QED
  BY <1>16 DEF n, keys, sorted, S

-----------------------------------------------------------------------------
(* The groups and regions of a bubble (webtoon/processor.py).               *)

(* _detect_subgroups: the groups of the lines of a bubble are sequences of   *)
(* its lines.                                                                *)
LEMMA GroupsAreLines ==
    ASSUME NEW lines \in Seq(TextDetection)
    PROVE  Subgroups(lines) \in Seq(Seq(TextDetection))
<1> DEFINE sorted == Sorted(lines, LAMBDA a, b : a.box.y1 < b.box.y1)
           split(g, l) ==
             LET n   == Len(g)
                 gap == l.box.y1 - Max({m.box.y2 : m \in Range(g)})
                 off == n * (l.box.x1 + l.box.x2)
                        - Total([i \in DOMAIN g |-> g[i].box.x1 + g[i].box.x2])
                 far == Larger(off, -off)
             IN  (gap > 20 /\ far > 2 * 50 * n) \/ far > 2 * 100 * n
           add(groups, l) ==
             IF split(Last(groups), l) THEN Append(groups, <<l>>)
             ELSE Append(Front(groups), Append(Last(groups), l))
           rest == Tail(sorted)
           base == <<<<Head(sorted)>>>>
           n == Len(rest)
           A == Seq(Seq(TextDetection)) \ {<<>>}
           D == [k \in 1..n |-> [a \in A |-> add(a, rest[k])]]
           iter[s \in SUBSET (1..n)] ==
                IF s = {} THEN base ELSE add(iter[s \ {Max(s)}], rest[Max(s)])
<1>1. CASE Len(lines) <= 1
  <2>1. Subgroups(lines) = <<lines>>
    BY <1>1 DEF Subgroups
  <2> QED
    BY <2>1
<1>2. CASE ~(Len(lines) <= 1)
  <2>1. Subgroups(lines) = FoldLeft(add, base, rest)
    BY <1>2 DEF Subgroups
  <2>2. sorted \in Seq(TextDetection) /\ Len(sorted) = Len(lines)
    <3> DEFINE m == Len(lines)
               keys == [i \in 1..m |-> lines[i].box.y1]
    <3>1. m \in Nat /\ lines \in [1..m -> TextDetection]
      OBVIOUS
    <3>2. Rearranged(sorted, lines, keys, m)
      BY LinesFromTheTop
    <3> HIDE DEF m, keys, sorted
    <3>3. PICK at \in [1..m -> 1..m] : sorted = [k \in 1..m |-> lines[at[k]]]
      BY <3>2 DEF Rearranged
    <3>4. sorted \in [1..m -> TextDetection]
      BY <3>1, <3>3
    <3> QED
      BY <3>1, <3>4 DEF m
  <2> HIDE DEF sorted
  <2>3. Head(sorted) \in TextDetection /\ rest \in Seq(TextDetection)
    <3>1. Len(sorted) \in Nat /\ Len(sorted) > 1
      BY <1>2, <2>2
    <3>2. sorted # <<>>
      BY <3>1
    <3> QED
      BY <2>2, <3>2
  <2>4. base \in A
    BY <2>3
  <2>5. n \in Nat /\ DOMAIN rest = 1..n /\ \A k \in 1..n : rest[k] \in TextDetection
    <3>1. \A k \in DOMAIN rest : rest[k] \in TextDetection
      BY <2>3
    <3> HIDE DEF rest
    <3> QED
      BY <2>3, <3>1
  <2>6. FoldLeft(add, base, rest) = iter[1..n]
    <3> HIDE DEF rest, split
    <3> QED
      BY <2>5 DEF FoldLeft, MapThenFoldSet
  <2> HIDE DEF rest, base, n
  <2>7. ASSUME NEW a \in A, NEW l \in TextDetection PROVE add(a, l) \in A
    <3> HIDE DEF split
    <3>1. a \in Seq(Seq(TextDetection)) /\ Len(a) \in Nat /\ Len(a) # 0
      OBVIOUS
    <3>2. Last(a) \in Seq(TextDetection)
      BY <3>1 DEF Last
    <3>3. Front(a) \in Seq(Seq(TextDetection))
      BY <3>1 DEF Front
    <3>4. <<l>> \in Seq(TextDetection) /\ Append(Last(a), l) \in Seq(TextDetection)
      BY <3>2
    <3>5. ASSUME NEW b \in Seq(Seq(TextDetection)), NEW g \in Seq(TextDetection)
          PROVE  Append(b, g) \in A
      <4> DEFINE c == Append(b, g)
      <4>1. c \in Seq(Seq(TextDetection)) /\ Len(c) = Len(b) + 1 /\ Len(b) \in Nat
        BY <3>5
      <4> HIDE DEF c
      <4>2. c # <<>>
        BY <4>1
      <4> QED
        BY <4>1, <4>2 DEF c
    <3> HIDE DEF A
    <3> QED
      BY <3>1, <3>3, <3>4, <3>5
  <2>8. D \in [1..n -> [A -> A]]
    <3> HIDE DEF add, A
    <3> QED
      BY <2>5, <2>7
  <2>9. PICK h : IsFold(h, n, A, base, D)
    <3> HIDE DEF D, A
    <3> QED
      BY <2>4, <2>5, <2>8, FoldExists
  <2>10. h = [s \in SUBSET (1..n) |->
                IF s = {} THEN base ELSE add(h[s \ {Max(s)}], rest[Max(s)])]
    <3>1. ASSUME NEW s \in SUBSET (1..n), s # {}
          PROVE  D[Max(s)][h[s \ {Max(s)}]] = add(h[s \ {Max(s)}], rest[Max(s)])
      <4>1. Max(s) \in 1..n
        BY <2>5, <3>1, MaxUpTo
      <4>2. h[s \ {Max(s)}] \in A
        BY <2>9 DEF IsFold
      <4> HIDE DEF A, add
      <4> QED
        BY <4>1, <4>2
    <3> HIDE DEF add, D
    <3> QED
      BY <2>9, <3>1 DEF IsFold
  <2>11. iter = [s \in SUBSET (1..n) |->
                IF s = {} THEN base ELSE add(iter[s \ {Max(s)}], rest[Max(s)])]
    <3> HIDE DEF add
    <3> QED
      BY <2>10
  <2> HIDE DEF iter, add, D
  <2>12. iter[1..n] \in A
    <3> DEFINE Q(m) == m <= n => iter[1..m] \in A
               P == {m \in Nat : Q(m)}
    <3>1. Q(0)
      <4>1. 1..0 = {} /\ {} \in SUBSET (1..n)
        BY <2>5
      <4>2. iter[{}] = base
        BY <2>11, <4>1
      <4> QED
        BY <2>4, <4>1, <4>2
    <3>2. ASSUME NEW m \in Nat, Q(m) PROVE Q(m + 1)
      <4> SUFFICES ASSUME m + 1 <= n PROVE iter[1..(m + 1)] \in A
        OBVIOUS
      <4>1. m <= n /\ m + 1 \in 1..n /\ 1..(m + 1) \in SUBSET (1..n) /\ m + 1 \in Nat \ {0}
            /\ (m + 1) - 1 = m
        BY <2>5
      <4>2. 1..(m + 1) # {} /\ Max(1..(m + 1)) = m + 1 /\ (1..(m + 1)) \ {m + 1} = 1..m
        BY <4>1, FoldStep
      <4>3. iter[1..(m + 1)] = add(iter[1..m], rest[m + 1])
        BY <2>11, <4>1, <4>2
      <4> QED
        BY <2>5, <2>7, <3>2, <4>1, <4>3
    <3>3. \A m \in Nat : Q(m)
      <4> HIDE DEF Q
      <4>1. 0 \in P
        BY <3>1
      <4>2. \A m \in Nat : m \in P => m + 1 \in P
        BY <3>2
      <4> HIDE DEF P
      <4>3. Nat \subseteq P
        BY <4>1, <4>2, SetInduction
      <4> QED
        BY <4>3 DEF P
    <3> QED
      BY <2>5, <3>3
  <2> QED
    BY <2>1, <2>6, <2>12
<1> QED
  BY <1>1, <1>2

(* prepare_translation_regions: so are the lines of every region it makes.  *)
LEMMA RegionsHaveLines ==
    ASSUME NEW lines \in Seq(TextDetection), NEW region \in Range(PrepareRegions(lines))
    PROVE  region.lines \in Seq(TextDetection)
<1>1. CASE \/ PrepareRegions(lines) = <<Region(lines, FALSE)>>
           \/ PrepareRegions(lines) = <<Region(lines, TRUE)>>
  <2>1. ASSUME NEW r, PrepareRegions(lines) = <<r>> PROVE region = r
    <3>1. PICK i \in DOMAIN <<r>> : region = <<r>>[i]
      BY <2>1 DEF Range
    <3>2. i = 1
      BY <3>1
    <3> QED
      BY <3>1, <3>2
  <2>2. region = Region(lines, FALSE) \/ region = Region(lines, TRUE)
    BY <1>1, <2>1
  <2> QED
    BY <2>2 DEF Region
<1>2. CASE PrepareRegions(lines) = [i \in DOMAIN Subgroups(lines) |->
            Region(Subgroups(lines)[i], ValidKorean(TextOf(Subgroups(lines)[i])))]
  <2> DEFINE groups == Subgroups(lines)
  <2>1. groups \in Seq(Seq(TextDetection))
    BY GroupsAreLines
  <2> HIDE DEF groups
  <2>2. PrepareRegions(lines) = [i \in DOMAIN groups |->
            Region(groups[i], ValidKorean(TextOf(groups[i])))]
    BY <1>2 DEF groups
  <2>3. PICK i \in DOMAIN groups : region = Region(groups[i], ValidKorean(TextOf(groups[i])))
    BY <2>2 DEF Range
  <2>4. region.lines = groups[i]
    BY <2>3 DEF Region
  <2> QED
    BY <2>1, <2>3, <2>4
<1>3. CASE IsTitle(lines) \/ ~ValidKorean(TextOf(lines))
  BY <1>1, <1>3, Zenon DEF PrepareRegions
<1>4. CASE ~(IsTitle(lines) \/ ~ValidKorean(TextOf(lines))) /\ Len(Subgroups(lines)) = 1
  BY <1>1, <1>4, Zenon DEF PrepareRegions
<1>5. CASE ~(IsTitle(lines) \/ ~ValidKorean(TextOf(lines))) /\ ~(Len(Subgroups(lines)) = 1)
  <2>1. PrepareRegions(lines) = [i \in DOMAIN Subgroups(lines) |->
            Region(Subgroups(lines)[i], ValidKorean(TextOf(Subgroups(lines)[i])))]
    BY <1>5 DEF PrepareRegions
  <2> QED
    BY <1>2, <2>1
<1> QED
  BY <1>3, <1>4, <1>5

-----------------------------------------------------------------------------
(* Recursive functions of the model, step by step.                          *)

(* f holds base at 0, and at every k what D[k] makes of its value at back[k]. *)
IsCourse(f, n, A, base, back, D) ==
    /\ f \in [0..n -> A] /\ f[0] = base
    /\ \A k \in 1..n : f[k] = D[k][f[back[k]]]

(* A recursion that goes back by at least one has a solution: the recursive *)
(* functions of the model are what their definitions say.                   *)
LEMMA CourseExists ==
    ASSUME NEW n \in Nat, NEW A, NEW base \in A, NEW back \in [1..n -> Nat],
           \A k \in 1..n : back[k] < k, NEW D \in [1..n -> [A -> A]]
    PROVE  \E f : IsCourse(f, n, A, base, back, D)
<1> DEFINE Q(m) == m <= n => \E f : IsCourse(f, m, A, base, back, D)
           P == {m \in Nat : Q(m)}
<1>1. Q(0)
  <2> DEFINE f == [k \in 0..0 |-> base]
  <2>1. f \in [0..0 -> A] /\ f[0] = base /\ \A k \in 1..0 : FALSE
    OBVIOUS
  <2> HIDE DEF f
  <2>2. IsCourse(f, 0, A, base, back, D)
    BY <2>1 DEF IsCourse
  <2> QED
    BY <2>2
<1>2. ASSUME NEW m \in Nat, Q(m) PROVE Q(m + 1)
  <2> SUFFICES ASSUME m + 1 <= n PROVE \E f : IsCourse(f, m + 1, A, base, back, D)
    OBVIOUS
  <2>1. m <= n /\ m + 1 \in 1..n /\ m + 1 \in Nat
    OBVIOUS
  <2>2. PICK g : IsCourse(g, m, A, base, back, D)
    BY <1>2, <2>1
  <2>3. g \in [0..m -> A] /\ g[0] = base /\ \A k \in 1..m : g[k] = D[k][g[back[k]]]
    BY <2>2 DEF IsCourse
  <2> DEFINE f == [k \in 0..(m + 1) |-> IF k = m + 1 THEN D[m + 1][g[back[m + 1]]] ELSE g[k]]
  <2>4. back[m + 1] \in 0..m /\ D[m + 1] \in [A -> A]
    <3>1. back[m + 1] \in Nat /\ back[m + 1] < m + 1
      BY <2>1
    <3> QED
      BY <2>1, <3>1
  <2>5. ASSUME NEW k \in 0..(m + 1) PROVE f[k] \in A
    <3>1. k # m + 1 => k \in 0..m
      OBVIOUS
    <3> QED
      BY <2>3, <2>4, <3>1
  <2>6. \A k \in 0..m : k # m + 1 /\ k \in 0..(m + 1) /\ f[k] = g[k]
    OBVIOUS
  <2>7. f[m + 1] = D[m + 1][g[back[m + 1]]]
    BY <2>1
  <2>8. f \in [0..(m + 1) -> A]
    BY <2>5
  <2> HIDE DEF f
  <2>9. ASSUME NEW k \in 1..(m + 1) PROVE f[k] = D[k][f[back[k]]]
    <3>1. CASE k = m + 1
      BY <2>4, <2>6, <2>7, <3>1
    <3>2. CASE k # m + 1
      <4>1. k \in 1..m /\ k \in 0..m /\ k \in 1..n
        BY <2>1, <3>2
      <4>2. back[k] \in Nat /\ back[k] < k
        BY <4>1
      <4>3. back[k] \in 0..m
        BY <4>1, <4>2
      <4> QED
        BY <2>3, <2>6, <4>1, <4>3
    <3> QED
      BY <3>1, <3>2
  <2>10. f[0] = base
    BY <2>3, <2>6
  <2>11. IsCourse(f, m + 1, A, base, back, D)
    BY <2>8, <2>9, <2>10 DEF IsCourse
  <2> QED
    BY <2>11
<1>3. \A m \in Nat : Q(m)
  <2> HIDE DEF Q
  <2>1. 0 \in P
    BY <1>1
  <2>2. \A m \in Nat : m \in P => m + 1 \in P
    BY <1>2
  <2> HIDE DEF P
  <2>3. Nat \subseteq P
    BY <2>1, <2>2, SetInduction
  <2> QED
    BY <2>3 DEF P
<1>4. Q(n)
  <2> HIDE DEF Q
  <2> QED
    BY <1>3
<1>5. n <= n
  OBVIOUS
<1> QED
  BY <1>4, <1>5

(* The steps of a recursion over 1..n.                                      *)
AreStages(f, n, A, base, D) ==
    /\ f \in [0..n -> A] /\ f[0] = base
    /\ \A k \in 1..n : f[k] = D[k][f[k - 1]]

(* Functions applied one after the other make such stages.                  *)
LEMMA StagesExist ==
    ASSUME NEW n \in Nat, NEW A, NEW base \in A, NEW D \in [1..n -> [A -> A]]
    PROVE  \E f : AreStages(f, n, A, base, D)
<1> DEFINE back == [k \in 1..n |-> k - 1]
<1>1. back \in [1..n -> Nat] /\ \A k \in 1..n : back[k] < k /\ back[k] = k - 1
  OBVIOUS
<1> HIDE DEF back
<1>2. PICK f : IsCourse(f, n, A, base, back, D)
  BY <1>1, CourseExists
<1>3. AreStages(f, n, A, base, D)
  BY <1>1, <1>2 DEF IsCourse, AreStages
<1> QED
  BY <1>3

(* g takes these steps as long as its values stay in A. *)
TakesSteps(g, n, A, base, D) ==
    /\ DOMAIN g = 0..n /\ g[0] = base
    /\ \A k \in 1..n : g[k - 1] \in A => g[k] = D[k][g[k - 1]]

(* Steps 1..n from base, each from A to A. *)
StepsWithin(n, A, base, D) == n \in Nat /\ base \in A /\ D \in [1..n -> [A -> A]]

(* What takes these steps is f. *)
IsTheOnly(f, n, A, base, D) ==
    \A g : TakesSteps(g, n, A, base, D) => \A k \in 0..n : g[k] = f[k]

(* A recursion over 1..n is its stages.                                     *)
LEMMA StagesAreUnique ==
    ASSUME NEW n, NEW A, NEW base, NEW D, StepsWithin(n, A, base, D),
           NEW f, AreStages(f, n, A, base, D)
    PROVE  IsTheOnly(f, n, A, base, D)
<1> SUFFICES ASSUME NEW g, TakesSteps(g, n, A, base, D) PROVE \A k \in 0..n : g[k] = f[k]
  BY DEF IsTheOnly
<1> n \in Nat
  BY DEF StepsWithin
<1>1. /\ f \in [0..n -> A] /\ f[0] = base /\ \A k \in 1..n : f[k] = D[k][f[k - 1]]
      /\ g[0] = base /\ \A k \in 1..n : g[k - 1] \in A => g[k] = D[k][g[k - 1]]
  BY DEF AreStages, TakesSteps
<1> DEFINE Q(m) == m <= n => g[m] = f[m]
           P == {m \in Nat : Q(m)}
<1>2. Q(0)
  BY <1>1
<1>3. ASSUME NEW m \in Nat, Q(m) PROVE Q(m + 1)
  <2> SUFFICES ASSUME m + 1 <= n PROVE g[m + 1] = f[m + 1]
    OBVIOUS
  <2>1. m <= n /\ m + 1 \in 1..n /\ (m + 1) - 1 = m /\ m \in 0..n
    OBVIOUS
  <2>2. g[m] = f[m] /\ g[m] \in A
    BY <1>1, <1>3, <2>1
  <2>3. g[m + 1] = D[m + 1][g[m]]
    BY <1>1, <2>1, <2>2
  <2>4. f[m + 1] = D[m + 1][f[m]]
    BY <1>1, <2>1
  <2> QED
    BY <2>2, <2>3, <2>4
<1>4. \A m \in Nat : Q(m)
  <2> HIDE DEF Q
  <2>1. 0 \in P
    BY <1>2
  <2>2. \A m \in Nat : m \in P => m + 1 \in P
    BY <1>3
  <2> HIDE DEF P
  <2>3. Nat \subseteq P
    BY <2>1, <2>2, SetInduction
  <2> QED
    BY <2>3 DEF P
<1>5. ASSUME NEW k \in 0..n PROVE g[k] = f[k]
  <2>1. k \in Nat /\ k <= n
    OBVIOUS
  <2>2. Q(k)
    <3> HIDE DEF Q
    <3> QED
      BY <1>4, <2>1
  <2> QED
    BY <2>1, <2>2
<1> QED
  BY <1>5

-----------------------------------------------------------------------------
(* Totals.                                                                  *)

(* The running totals of s.                                                 *)
Running(s) == CHOOSE f : f = [i \in 0..Len(s) |-> IF i = 0 THEN 0 ELSE f[i - 1] + s[i]]

(* They add one number after the other, and the last is the total.          *)
LEMMA RunningTotals ==
    ASSUME NEW s \in Seq(Int)
    PROVE  /\ Total(s) = Running(s)[Len(s)]
           /\ Running(s) \in [0..Len(s) -> Int] /\ Running(s)[0] = 0
           /\ \A i \in 1..Len(s) : Running(s)[i] = Running(s)[i - 1] + s[i]
<1> DEFINE n == Len(s)
           D == [k \in 1..n |-> [a \in Int |-> a + s[k]]]
<1>1. n \in Nat /\ \A k \in 1..n : s[k] \in Int
  OBVIOUS
<1>2. Total(s) = Running(s)[n]
  BY DEF Total, Running
<1> HIDE DEF n
<1>3. D \in [1..n -> [Int -> Int]] /\ 0 \in Int
  BY <1>1
<1>4. \A k \in 1..n, a \in Int : D[k][a] = a + s[k]
  OBVIOUS
<1> HIDE DEF D
<1>5. PICK f : AreStages(f, n, Int, 0, D)
  BY <1>1, <1>3, StagesExist
<1>6. f \in [0..n -> Int] /\ f[0] = 0 /\ \A k \in 1..n : f[k] = D[k][f[k - 1]]
  BY <1>5 DEF AreStages
<1>7. \A k \in 1..n : k \in 0..n /\ k - 1 \in 0..n /\ k # 0
  BY <1>1
<1>8. \A k \in 0..n : k # 0 => k \in 1..n
  BY <1>1
<1>9. \A k \in 1..n : f[k] = f[k - 1] + s[k]
  BY <1>4, <1>6, <1>7
<1>10. f = [i \in 0..n |-> IF i = 0 THEN 0 ELSE f[i - 1] + s[i]]
  BY <1>6, <1>8, <1>9
<1>11. Running(s) = [i \in 0..n |-> IF i = 0 THEN 0 ELSE Running(s)[i - 1] + s[i]]
  <2>1. \E g : g = [i \in 0..n |-> IF i = 0 THEN 0 ELSE g[i - 1] + s[i]]
    BY <1>10
  <2> QED
    BY <2>1 DEF Running, n
<1> DEFINE r == Running(s)
<1> HIDE DEF r
<1>12. r = [i \in 0..n |-> IF i = 0 THEN 0 ELSE r[i - 1] + s[i]]
  BY <1>11 DEF r
<1>13. r[0] = 0 /\ \A i \in 1..n : r[i] = r[i - 1] + s[i]
  <2>1. 0 \in 0..n
    BY <1>1
  <2> QED
    BY <2>1, <1>7, <1>12
<1>14. \A i \in 0..n : r[i] \in Int
  <2> DEFINE Q(m) == m <= n => r[m] \in Int
             P == {m \in Nat : Q(m)}
  <2>1. Q(0)
    BY <1>13
  <2>2. ASSUME NEW m \in Nat, Q(m) PROVE Q(m + 1)
    <3> SUFFICES ASSUME m + 1 <= n PROVE r[m + 1] \in Int
      OBVIOUS
    <3>1. m <= n /\ m + 1 \in 1..n /\ (m + 1) - 1 = m
      BY <1>1
    <3>2. r[m + 1] = r[m] + s[m + 1]
      BY <1>13, <3>1
    <3> QED
      BY <1>1, <2>2, <3>1, <3>2
  <2>3. \A m \in Nat : Q(m)
    <3> HIDE DEF Q
    <3>1. 0 \in P
      BY <2>1
    <3>2. \A m \in Nat : m \in P => m + 1 \in P
      BY <2>2
    <3> HIDE DEF P
    <3>3. Nat \subseteq P
      BY <3>1, <3>2, SetInduction
    <3> QED
      BY <3>3 DEF P
  <2> QED
    BY <1>1, <2>3
<1>15. r \in [0..n -> Int]
  BY <1>12, <1>14
<1> QED
  BY <1>2, <1>13, <1>15 DEF r, n

(* Sequences with the same prefix have the same running totals on it.       *)
LEMMA SamePrefix ==
    ASSUME NEW s \in Seq(Int), NEW t \in Seq(Int), NEW n \in Nat, n <= Len(s), n <= Len(t),
           \A i \in 1..n : s[i] = t[i]
    PROVE  Running(s)[n] = Running(t)[n]
<1> DEFINE Q(m) == m <= n => Running(s)[m] = Running(t)[m]
           P == {m \in Nat : Q(m)}
<1>1. Q(0)
  BY RunningTotals
<1>2. ASSUME NEW m \in Nat, Q(m) PROVE Q(m + 1)
  <2> SUFFICES ASSUME m + 1 <= n PROVE Running(s)[m + 1] = Running(t)[m + 1]
    OBVIOUS
  <2>1. m <= n /\ m + 1 \in 1..n /\ m + 1 \in 1..Len(s) /\ m + 1 \in 1..Len(t) /\ (m + 1) - 1 = m
    OBVIOUS
  <2>2. Running(s)[m + 1] = Running(s)[m] + s[m + 1]
    BY <2>1, RunningTotals
  <2>3. Running(t)[m + 1] = Running(t)[m] + t[m + 1]
    BY <2>1, RunningTotals
  <2> QED
    BY <1>2, <2>1, <2>2, <2>3
<1>3. \A m \in Nat : Q(m)
  <2> HIDE DEF Q
  <2>1. 0 \in P
    BY <1>1
  <2>2. \A m \in Nat : m \in P => m + 1 \in P
    BY <1>2
  <2> HIDE DEF P
  <2>3. Nat \subseteq P
    BY <2>1, <2>2, SetInduction
  <2> QED
    BY <2>3 DEF P
<1>4. Q(n)
  <2> HIDE DEF Q
  <2> QED
    BY <1>3
<1>5. n <= n
  OBVIOUS
<1> QED
  BY <1>4, <1>5

(* The total of nothing, of a longer sequence and of two in a row.          *)
LEMMA Totals ==
    /\ Total(<<>>) = 0
    /\ \A s \in Seq(Int) : Total(s) \in Int
    /\ \A s \in Seq(Int), x \in Int : Total(Append(s, x)) = Total(s) + x
<1>1. Total(<<>>) = 0
  <2>1. <<>> \in Seq(Int) /\ Len(<<>>) = 0
    OBVIOUS
  <2> QED
    BY <2>1, RunningTotals
<1>2. ASSUME NEW s \in Seq(Int) PROVE Total(s) \in Int
  <2>1. Len(s) \in 0..Len(s)
    OBVIOUS
  <2> QED
    BY <2>1, RunningTotals
<1>3. ASSUME NEW s \in Seq(Int), NEW x \in Int PROVE Total(Append(s, x)) = Total(s) + x
  <2> DEFINE t == Append(s, x)
             n == Len(s)
  <2>1. /\ t \in Seq(Int) /\ Len(t) = n + 1 /\ t[n + 1] = x /\ n \in Nat
        /\ \A i \in 1..n : s[i] = t[i]
    OBVIOUS
  <2> HIDE DEF t
  <2>2. n + 1 \in 1..Len(t) /\ (n + 1) - 1 = n /\ n <= n /\ n <= Len(t)
    BY <2>1
  <2>3. Total(t) = Running(t)[n + 1]
    BY <2>1, RunningTotals
  <2>4. Running(t)[n + 1] = Running(t)[n] + x
    <3>1. Running(t)[n + 1] = Running(t)[(n + 1) - 1] + t[n + 1]
      BY <2>1, <2>2, RunningTotals
    <3> QED
      BY <2>1, <2>2, <3>1
  <2>5. Running(s)[n] = Running(t)[n]
    BY <2>1, <2>2, SamePrefix
  <2>6. Total(s) = Running(s)[n]
    BY RunningTotals
  <2> QED
    BY <2>3, <2>4, <2>5, <2>6 DEF t
<1> QED
  BY <1>1, <1>2, <1>3

(* The elements of two sequences in a row.                                  *)
LEMMA Joining ==
    ASSUME NEW S, NEW s \in Seq(S), NEW t \in Seq(S)
    PROVE  /\ s \o t \in Seq(S) /\ Len(s \o t) = Len(s) + Len(t)
           /\ \A i \in 1..Len(s) : (s \o t)[i] = s[i]
           /\ \A i \in 1..Len(t) : (s \o t)[Len(s) + i] = t[i]
OBVIOUS

(* The total of two sequences in one is the sum of their totals.            *)
LEMMA TotalOfBoth ==
    ASSUME NEW s \in Seq(Int), NEW t \in Seq(Int)
    PROVE  Total(s \o t) = Total(s) + Total(t)
<1> DEFINE u == s \o t
           m == Len(s)
           n == Len(t)
           Q(k) == k <= n => Running(u)[m + k] = Total(s) + Running(t)[k]
           P == {k \in Nat : Q(k)}
<1>1. /\ u \in Seq(Int) /\ Len(u) = m + n /\ m \in Nat /\ n \in Nat
      /\ \A i \in 1..m : u[i] = s[i]
      /\ \A i \in 1..n : u[m + i] = t[i] /\ t[i] \in Int
  OBVIOUS
<1> HIDE DEF u, m, n
<1>2. Q(0)
  <2>1. m <= Len(u) /\ m <= m
    BY <1>1
  <2>2. Running(u)[m] = Running(s)[m]
    <3>1. m <= Len(s)
      BY <1>1 DEF m
    <3> QED
      BY <1>1, <2>1, <3>1, SamePrefix
  <2>3. Running(s)[m] = Total(s) /\ Running(t)[0] = 0
    BY RunningTotals DEF m
  <2>4. m + 0 = m /\ Total(s) \in Int
    BY <1>1, Totals
  <2> QED
    BY <2>2, <2>3, <2>4
<1>3. ASSUME NEW k \in Nat, Q(k) PROVE Q(k + 1)
  <2> SUFFICES ASSUME k + 1 <= n PROVE Running(u)[m + (k + 1)] = Total(s) + Running(t)[k + 1]
    OBVIOUS
  <2>1. /\ k <= n /\ k + 1 \in 1..n /\ m + (k + 1) \in 1..Len(u) /\ k \in 0..n
        /\ (m + (k + 1)) - 1 = m + k /\ (k + 1) - 1 = k
    BY <1>1
  <2>2. Running(u)[m + (k + 1)] = Running(u)[m + k] + t[k + 1]
    BY <1>1, <2>1, RunningTotals
  <2>3. Running(t)[k + 1] = Running(t)[k] + t[k + 1] /\ Running(t)[k] \in Int
    BY <1>1, <2>1, RunningTotals DEF n
  <2>4. Total(s) \in Int /\ t[k + 1] \in Int
    BY <1>1, <2>1, Totals
  <2> QED
    BY <1>3, <2>1, <2>2, <2>3, <2>4
<1>4. \A k \in Nat : Q(k)
  <2> HIDE DEF Q
  <2>1. 0 \in P
    BY <1>2
  <2>2. \A k \in Nat : k \in P => k + 1 \in P
    BY <1>3
  <2> HIDE DEF P
  <2>3. Nat \subseteq P
    BY <2>1, <2>2, SetInduction
  <2> QED
    BY <2>3 DEF P
<1>5. Running(u)[m + n] = Total(s) + Running(t)[n]
  <2>1. Q(n) /\ n <= n
    <3> HIDE DEF Q
    <3>1. n <= n
      BY <1>1
    <3> QED
      BY <1>1, <1>4, <3>1
  <2> QED
    BY <2>1
<1>6. Total(u) = Running(u)[m + n]
  BY <1>1, RunningTotals
<1>7. Total(t) = Running(t)[n]
  BY RunningTotals DEF n
<1> QED
  BY <1>5, <1>6, <1>7 DEF u

-----------------------------------------------------------------------------
(* Products, quotients and rounding.                                        *)

(* A larger factor gives a larger product.                                  *)
LEMMA ProductGrows ==
    ASSUME NEW a \in Nat, NEW b \in Nat, NEW c \in Nat, a <= b
    PROVE  a * c <= b * c /\ c * a <= c * b /\ a * c \in Nat
<1>1. PICK d \in Nat : b = a + d
  <2>1. b - a \in Nat /\ b = a + (b - a)
    OBVIOUS
  <2> QED
    BY <2>1
<1>2. (a + d) * c = a * c + d * c /\ c * (a + d) = c * a + c * d
  OBVIOUS
<1>3. a * c \in Nat /\ d * c \in Nat /\ c * a \in Nat /\ c * d \in Nat
  OBVIOUS
<1> QED
  BY <1>1, <1>2, <1>3

(* The quotient of a division, and that no other number is it.              *)
LEMMA Quotient ==
    ASSUME NEW a \in Int, NEW b \in Nat \ {0}
    PROVE  /\ a \div b \in Int /\ b * (a \div b) <= a /\ a < b * (a \div b) + b
           /\ \A q \in Int : b * q <= a /\ a < b * q + b => a \div b = q
<1> DEFINE r == a \div b
<1>1. r \in Int /\ b * r <= a /\ a < b * r + b
  OBVIOUS
<1> HIDE DEF r
<1>2. ASSUME NEW q \in Int, b * q <= a, a < b * q + b PROVE r = q
  <2>1. CASE q < r
    <3>1. PICK d \in Nat : r = q + 1 + d
      <4>1. r - q - 1 \in Nat /\ r = q + 1 + (r - q - 1)
        BY <1>1, <2>1
      <4> QED
        BY <4>1
    <3>2. b * r = b * q + b + b * d /\ b * d \in Nat /\ b * q \in Int
      BY <3>1
    <3> QED
      BY <1>1, <1>2, <3>2
  <2>2. CASE r < q
    <3>1. PICK d \in Nat : q = r + 1 + d
      <4>1. q - r - 1 \in Nat /\ q = r + 1 + (q - r - 1)
        BY <1>1, <2>2
      <4> QED
        BY <4>1
    <3>2. b * q = b * r + b + b * d /\ b * d \in Nat /\ b * r \in Int
      BY <1>1, <3>1
    <3> QED
      BY <1>1, <1>2, <3>2
  <2> QED
    BY <1>1, <2>1, <2>2
<1> QED
  BY <1>1, <1>2 DEF r

(* A larger divisor gives no larger quotient.                               *)
LEMMA QuotientShrinks ==
    ASSUME NEW h \in Nat, NEW c \in Nat \ {0}, NEW d \in Nat \ {0}, c <= d
    PROVE  h \div d \in Nat /\ h \div d <= h \div c
<1> DEFINE q == h \div d
           r == h \div c
<1>1. q \in Int /\ d * q <= h /\ h < d * q + d
  BY Quotient
<1>2. r \in Int /\ c * r <= h /\ h < c * r + c
  BY Quotient
<1> HIDE DEF q, r
<1>3. q \in Nat
  <2> SUFFICES ASSUME q <= -1 PROVE FALSE
    BY <1>1
  <2>1. PICK e \in Nat : q = -1 - e
    <3>1. -1 - q \in Nat /\ q = -1 - (-1 - q)
      BY <1>1
    <3> QED
      BY <3>1
  <2>2. d * q = -d - d * e /\ d * e \in Nat
    BY <2>1
  <2> QED
    BY <1>1, <2>2
<1>4. q <= r
  <2> SUFFICES ASSUME r + 1 <= q PROVE FALSE
    BY <1>1, <1>2
  <2>1. PICK e \in Nat : q = r + 1 + e
    <3>1. q - r - 1 \in Nat /\ q = r + 1 + (q - r - 1)
      BY <1>1, <1>2
    <3> QED
      BY <3>1
  <2>2. c * q = c * r + c + c * e /\ c * e \in Nat /\ c * r \in Int
    BY <1>2, <2>1
  <2>3. c * q <= d * q /\ c * q \in Nat /\ d * q \in Nat
    BY <1>3, ProductGrows
  <2> QED
    BY <1>1, <1>2, <2>2, <2>3
<1> QED
  BY <1>3, <1>4 DEF q, r

(* What round(a / b) lies between.                                          *)
LEMMA Rounding ==
    ASSUME NEW a \in Int, NEW b \in Nat \ {0}
    PROVE  /\ RoundDiv(a, b) \in Int
           /\ \E q \in Int, r \in Nat :
                /\ a = b * q + r /\ r < b
                /\ RoundDiv(a, b) = IF 2 * r < b \/ (2 * r = b /\ q % 2 = 0) THEN q ELSE q + 1
<1> DEFINE q == a \div b
           r == a % b
<1>1. q \in Int /\ b * q <= a /\ a < b * q + b
  BY Quotient
<1>2. r \in Nat /\ r < b
  BY SMT
<1>3. a = b * q + r
  BY SMT
<1>4. RoundDiv(a, b) = IF 2 * r < b \/ (2 * r = b /\ q % 2 = 0) THEN q ELSE q + 1
  BY DEF RoundDiv
<1> HIDE DEF q, r
<1>5. RoundDiv(a, b) \in Int
  BY <1>1, <1>4
<1> QED
  BY <1>1, <1>2, <1>3, <1>4, <1>5

(* More is not rounded to less.                                             *)
LEMMA RoundingGrows ==
    ASSUME NEW a \in Int, NEW c \in Int, a <= c, NEW b \in Nat \ {0}
    PROVE  RoundDiv(a, b) <= RoundDiv(c, b)
<1>1. PICK q \in Int, r \in Nat :
            /\ a = b * q + r /\ r < b
            /\ RoundDiv(a, b) = IF 2 * r < b \/ (2 * r = b /\ q % 2 = 0) THEN q ELSE q + 1
  BY Rounding
<1>2. PICK p \in Int, s \in Nat :
            /\ c = b * p + s /\ s < b
            /\ RoundDiv(c, b) = IF 2 * s < b \/ (2 * s = b /\ p % 2 = 0) THEN p ELSE p + 1
  BY Rounding
<1>3. CASE q = p
  <2> DEFINE x == b * q
  <2>1. x \in Int /\ a = x + r /\ c = x + s
    BY <1>1, <1>2, <1>3
  <2> HIDE DEF x
  <2>2. r <= s
    BY <2>1
  <2> QED
    BY <1>1, <1>2, <1>3, <2>2
<1>4. CASE q < p
  <2>1. RoundDiv(a, b) <= q + 1 /\ p <= RoundDiv(c, b)
    BY <1>1, <1>2
  <2>2. RoundDiv(a, b) \in Int /\ RoundDiv(c, b) \in Int
    BY Rounding
  <2> QED
    BY <1>4, <2>1, <2>2
<1>5. CASE p < q
  <2>1. PICK d \in Nat : q = p + 1 + d
    <3>1. q - p - 1 \in Nat /\ q = p + 1 + (q - p - 1)
      BY <1>5
    <3> QED
      BY <3>1
  <2>2. b * q = b * p + b + b * d /\ b * d \in Nat /\ b * p \in Int
    BY <2>1
  <2> QED
    BY <1>1, <1>2, <2>2
<1> QED
  BY <1>3, <1>4, <1>5

(* A product is divided without a remainder.                                *)
LEMMA RoundingOfProduct ==
    ASSUME NEW b \in Nat \ {0}, NEW n \in Int
    PROVE  RoundDiv(n * b, b) = n
<1> DEFINE x == n * b
<1>1. x \in Int /\ x = b * n
  OBVIOUS
<1>2. b * n <= x /\ x < b * n + b
  BY <1>1
<1> HIDE DEF x
<1>3. PICK q \in Int, r \in Nat :
            /\ x = b * q + r /\ r < b
            /\ RoundDiv(x, b) = IF 2 * r < b \/ (2 * r = b /\ q % 2 = 0) THEN q ELSE q + 1
  BY <1>1, Rounding
<1>4. x \div b = n
  BY <1>1, <1>2, Quotient
<1>5. x \div b = q
  <2>1. b * q <= x /\ x < b * q + b
    BY <1>3
  <2> QED
    BY <1>1, <2>1, Quotient
<1>6. r = 0
  BY <1>1, <1>3, <1>4, <1>5
<1>7. RoundDiv(x, b) = n
  BY <1>3, <1>4, <1>5, <1>6
<1> QED
  BY <1>7 DEF x

-----------------------------------------------------------------------------
(* Sequences in an order.                                                   *)

(* Every element of s is in R to those after it.                            *)
Follows(s, R) == \A i, j \in DOMAIN s : i < j => <<s[i], s[j]>> \in R

(* Two sequences in order, the first before the second, are in order.       *)
LEMMA OneFollows ==
    ASSUME NEW S, NEW R, NEW s \in Seq(S), NEW t \in Seq(S), Follows(s, R), Follows(t, R),
           \A x \in Range(s), y \in Range(t) : <<x, y>> \in R
    PROVE  Follows(s \o t, R)
<1> DEFINE m == Len(s)
           n == Len(t)
           u == s \o t
<1>1. m \in Nat /\ n \in Nat /\ DOMAIN s = 1..m /\ DOMAIN t = 1..n
  OBVIOUS
<1>2. DOMAIN u = 1..(m + n) /\ (\A i \in 1..m : u[i] = s[i]) /\ (\A i \in 1..n : u[m + i] = t[i])
  OBVIOUS
<1> HIDE DEF m, n, u
<1>3. ASSUME NEW i \in 1..(m + n), NEW j \in 1..(m + n), i < j PROVE <<u[i], u[j]>> \in R
  <2>1. i \in Int /\ j \in Int
    BY <1>1
  <2>2. CASE j <= m
    <3>1. i \in 1..m /\ j \in 1..m /\ i <= m
      BY <1>1, <1>3, <2>1, <2>2
    <3>2. u[i] = s[i] /\ u[j] = s[j]
      BY <1>2, <2>2, <3>1
    <3> QED
      BY <1>1, <1>3, <3>1, <3>2 DEF Follows
  <2>3. CASE ~(i <= m)
    <3>1. i - m \in 1..n /\ j - m \in 1..n /\ ~(j <= m) /\ i - m < j - m
      BY <1>1, <1>3, <2>1, <2>3
    <3>2. i = m + (i - m) /\ j = m + (j - m)
      BY <1>1, <2>1
    <3>3. u[i] = t[i - m] /\ u[j] = t[j - m]
      BY <1>2, <3>1, <3>2
    <3> QED
      BY <1>1, <3>1, <3>3 DEF Follows
  <2>4. CASE i <= m /\ ~(j <= m)
    <3>1. i \in 1..m /\ j - m \in 1..n
      BY <1>1, <1>3, <2>1, <2>4
    <3>2. u[i] = s[i] /\ u[m + (j - m)] = t[j - m] /\ m + (j - m) = j
      BY <1>1, <1>2, <2>1, <3>1
    <3>3. s[i] \in Range(s) /\ t[j - m] \in Range(t)
      BY <1>1, <3>1 DEF Range
    <3> QED
      BY <3>2, <3>3
  <2> QED
    BY <2>2, <2>3, <2>4
<1> QED
  BY <1>2, <1>3 DEF Follows, u

(* A sequence of sequences in order, each before those after it, flattens   *)
(* to a sequence in order.                                                  *)
LEMMA FlattenFollows ==
    ASSUME NEW S, NEW R, NEW ss \in Seq(Seq(S)), \A k \in DOMAIN ss : Follows(ss[k], R),
           \A k, l \in DOMAIN ss : k < l =>
                \A x \in Range(ss[k]), y \in Range(ss[l]) : <<x, y>> \in R
    PROVE  Follows(FlattenSeq(ss), R)
<1> DEFINE n == Len(ss)
           flatten[i \in 1..n] == IF i = 1 THEN ss[i] ELSE flatten[i - 1] \o ss[i]
<1>1. n \in Nat /\ DOMAIN ss = 1..n /\ ss \in [1..n -> Seq(S)]
  OBVIOUS
<1>2. CASE n = 0
  <2>1. FlattenSeq(ss) = ss
    BY <1>2 DEF FlattenSeq
  <2>2. DOMAIN ss = {}
    BY <1>1, <1>2
  <2> QED
    BY <2>1, <2>2 DEF Follows
<1>3. CASE n # 0
  <2>1. FlattenSeq(ss) = flatten[n]
    BY <1>3 DEF FlattenSeq
  <2>2. PICK f \in [1..n -> Seq(S)] : IsFlattened(f, ss, n)
    <3> HIDE DEF n, flatten
    <3> QED
      BY <1>1, FlattenExists
  <2>3. f = [i \in 1..n |-> IF i = 1 THEN ss[i] ELSE f[i - 1] \o ss[i]]
    <3> HIDE DEF n
    <3> QED
      BY <2>2 DEF IsFlattened
  <2>4. flatten = [i \in 1..n |-> IF i = 1 THEN ss[i] ELSE flatten[i - 1] \o ss[i]]
    <3> HIDE DEF n
    <3> QED
      BY <2>3
  <2> HIDE DEF flatten, n
  <2> DEFINE Parts(m) == {k \in 1..n : k <= m}
             Good(m) == /\ flatten[m] \in Seq(S)
                        /\ Range(flatten[m]) = UNION {Range(ss[k]) : k \in Parts(m)}
                        /\ Follows(flatten[m], R)
             Q(m) == m + 1 <= n => Good(m + 1)
             P == {m \in Nat : Q(m)}
  <2>5. Q(0)
    <3>1. 1 \in 1..n /\ Parts(1) = {1}
      BY <1>1, <1>3
    <3>2. flatten[1] = ss[1]
      BY <2>4, <3>1
    <3>3. ss[1] \in Seq(S)
      BY <1>1, <3>1
    <3> HIDE DEF Parts
    <3>4. UNION {Range(ss[k]) : k \in Parts(1)} = Range(ss[1])
      BY <3>1
    <3>5. Follows(ss[1], R)
      BY <1>1, <3>1
    <3> QED
      BY <3>2, <3>3, <3>4, <3>5
  <2>6. ASSUME NEW m \in Nat, Q(m) PROVE Q(m + 1)
    <3> SUFFICES ASSUME (m + 1) + 1 <= n PROVE Good((m + 1) + 1)
      OBVIOUS
    <3> DEFINE p == m + 1
               q == (m + 1) + 1
    <3>1. /\ p \in 1..n /\ q \in 1..n /\ q # 1 /\ q - 1 = p /\ p + 1 <= n
          /\ Parts(q) = Parts(p) \cup {q} /\ \A k \in Parts(p) : k \in 1..n /\ k < q
          /\ p <= n
      BY <1>1
    <3> HIDE DEF q, Parts
    <3>2. Good(p)
      <4>1. m + 1 <= n
        BY <3>1
      <4> HIDE DEF Good
      <4> QED
        BY <2>6, <4>1
    <3> HIDE DEF p
    <3>3. flatten[q] = flatten[p] \o ss[q]
      BY <2>4, <3>1
    <3>4. ss[q] \in Seq(S) /\ Follows(ss[q], R)
      BY <1>1, <3>1
    <3>5. /\ flatten[q] \in Seq(S)
          /\ Range(flatten[q]) = Range(flatten[p]) \cup Range(ss[q])
      BY <3>2, <3>3, <3>4, Concatenation
    <3>6. UNION {Range(ss[k]) : k \in Parts(q)}
            = (UNION {Range(ss[k]) : k \in Parts(p)}) \cup Range(ss[q])
      BY <3>1
    <3>7. \A x \in Range(flatten[p]), y \in Range(ss[q]) : <<x, y>> \in R
      BY <1>1, <3>1, <3>2
    <3>8. Follows(flatten[q], R)
      <4> DEFINE u == flatten[p]
                 v == ss[q]
      <4>1. u \in Seq(S) /\ v \in Seq(S) /\ Follows(u, R) /\ Follows(v, R)
        BY <3>2, <3>4
      <4>2. \A x \in Range(u), y \in Range(v) : <<x, y>> \in R
        BY <3>7
      <4> HIDE DEF u, v
      <4>3. Follows(u \o v, R)
        BY <4>1, <4>2, OneFollows
      <4> QED
        BY <3>3, <4>3 DEF u, v
    <3>9. Good(q)
      BY <3>2, <3>5, <3>6, <3>8
    <3> QED
      BY <3>9 DEF q
  <2>7. \A m \in Nat : Q(m)
    <3> HIDE DEF Q
    <3>1. 0 \in P
      BY <2>5
    <3>2. \A m \in Nat : m \in P => m + 1 \in P
      BY <2>6
    <3> HIDE DEF P
    <3>3. Nat \subseteq P
      BY <3>1, <3>2, SetInduction
    <3> QED
      BY <3>3 DEF P
  <2>8. Good(n)
    <3>1. n - 1 \in Nat /\ (n - 1) + 1 = n /\ n <= n
      BY <1>1, <1>3
    <3>2. Q(n - 1)
      BY <2>7, <3>1
    <3> HIDE DEF Good
    <3> QED
      BY <3>1, <3>2
  <2> QED
    BY <2>1, <2>8
<1> QED
  BY <1>2, <1>3

(* What is selected of a sequence in order is in order.                     *)
LEMMA SelectedFollows ==
    ASSUME NEW X, NEW R, NEW s \in Seq(X), Follows(s, R), NEW I \in SUBSET DOMAIN s
    PROVE  Selected(s, I) \in Seq(X) /\ Follows(Selected(s, I), R)
<1> DEFINE n == Cardinality(I)
           u == Selected(s, I)
<1>1. PICK at \in [1..n -> I] :
            /\ \A j, k \in 1..n : j < k => at[j] < at[k]
            /\ \A k \in 1..n : u[k] = s[at[k]]
  BY SelectedPlaces
<1>2. u \in Seq(X) /\ Len(u) = n
  BY SelectedPlaces
<1> HIDE DEF u, n
<1>3. DOMAIN u = 1..n
  BY <1>2
<1>4. \A k \in 1..n : at[k] \in DOMAIN s
  OBVIOUS
<1> QED
  BY <1>1, <1>2, <1>3, <1>4 DEF Follows, u

-----------------------------------------------------------------------------
(* Merging and stitching, line by line.                                     *)

(* What _merge_detections makes of the lines it has merged and one more.    *)
MergedWith(kept, l) ==
    LET met == {i \in DOMAIN kept : Overlapping(l.box, kept[i].box)} IN
    IF met = {} THEN Append(kept, l)
    ELSE IF 2 * Area(l.box) > 3 * Area(kept[Min(met)].box)
         THEN [kept EXCEPT ![Min(met)] = l]
    ELSE kept

(* Merging is that step for every line of the second pass in turn.          *)
LEMMA MergeSteps ==
    ASSUME NEW base \in Seq(TextDetection), NEW lines \in Seq(TextDetection)
    PROVE  \E acc : /\ acc[0] = base /\ MergeLines(base, lines) = acc[Len(lines)]
                    /\ \A k \in 0..Len(lines) : acc[k] \in Seq(TextDetection)
                    /\ \A k \in 1..Len(lines) : acc[k] = MergedWith(acc[k - 1], lines[k])
<1> DEFINE add(kept, l) == MergedWith(kept, l)
           n == Len(lines)
           A == Seq(TextDetection)
           D == [k \in 1..n |-> [a \in A |-> add(a, lines[k])]]
           iter[s \in SUBSET (1..n)] ==
                IF s = {} THEN base ELSE add(iter[s \ {Max(s)}], lines[Max(s)])
<1>1. n \in Nat /\ DOMAIN lines = 1..n /\ \A k \in 1..n : lines[k] \in TextDetection
  <2>1. \A k \in DOMAIN lines : lines[k] \in TextDetection
    OBVIOUS
  <2> QED
    BY <2>1
<1>2. MergeLines(base, lines) = iter[1..n]
  BY <1>1 DEF MergeLines, MergedWith, FoldLeft, MapThenFoldSet
<1> HIDE DEF n
<1>3. ASSUME NEW a \in A, NEW l \in TextDetection PROVE add(a, l) \in A
  <2> DEFINE i == Min({i \in DOMAIN a : Overlapping(l.box, a[i].box)})
             b == [a EXCEPT ![i] = l]
  <2>1. Append(a, l) \in A
    OBVIOUS
  <2>2. b \in A
    <3> HIDE DEF i
    <3>1. Len(a) \in Nat /\ a \in [1..Len(a) -> TextDetection]
      OBVIOUS
    <3>2. b \in [1..Len(a) -> TextDetection]
      BY <3>1
    <3> QED
      BY <3>1, <3>2
  <2>3. add(a, l) = Append(a, l) \/ add(a, l) = a \/ add(a, l) = b
    BY DEF MergedWith
  <2> HIDE DEF add, b
  <2> QED
    BY <2>1, <2>2, <2>3
<1>12. base \in A
  OBVIOUS
<1> HIDE DEF add
<1>4. D \in [1..n -> [A -> A]]
  <2> HIDE DEF A
  <2> QED
    BY <1>1, <1>3
<1>5. PICK h : IsFold(h, n, A, base, D)
  <2> HIDE DEF D
  <2> QED
    BY <1>1, <1>4, <1>12, FoldExists
<1>6. h = [s \in SUBSET (1..n) |-> IF s = {} THEN base ELSE add(h[s \ {Max(s)}], lines[Max(s)])]
  <2>1. ASSUME NEW s \in SUBSET (1..n), s # {}
        PROVE  D[Max(s)][h[s \ {Max(s)}]] = add(h[s \ {Max(s)}], lines[Max(s)])
    <3>1. Max(s) \in 1..n
      BY <1>1, <2>1, MaxUpTo
    <3>2. h[s \ {Max(s)}] \in A
      BY <1>5 DEF IsFold
    <3> HIDE DEF A
    <3> QED
      BY <3>1, <3>2
  <2> HIDE DEF D
  <2> QED
    BY <1>5, <2>1 DEF IsFold
<1>7. iter = [s \in SUBSET (1..n) |->
                IF s = {} THEN base ELSE add(iter[s \ {Max(s)}], lines[Max(s)])]
  <2> HIDE DEF D
  <2> QED
    BY <1>6
<1> DEFINE acc == [k \in 0..n |-> iter[1..k]]
<1> HIDE DEF iter, D, A
<1>8. acc[0] = base
  <2>1. 1..0 = {} /\ {} \in SUBSET (1..n) /\ 0 \in 0..n
    BY <1>1
  <2> QED
    BY <1>7, <2>1
<1>9. ASSUME NEW k \in 1..n PROVE acc[k] = add(acc[k - 1], lines[k])
  <2>1. k \in 0..n /\ k - 1 \in 0..n /\ k \in Nat \ {0} /\ 1..k \in SUBSET (1..n)
    BY <1>1
  <2>2. 1..k # {} /\ Max(1..k) = k /\ (1..k) \ {k} = 1..(k - 1)
    BY <2>1, FoldStep
  <2>3. iter[1..k] = add(iter[1..(k - 1)], lines[k])
    BY <1>7, <2>1, <2>2
  <2> QED
    BY <2>1, <2>3
<1>10. MergeLines(base, lines) = acc[n]
  <2>1. n \in 0..n
    BY <1>1
  <2> QED
    BY <2>1, <1>2
<1> HIDE DEF acc
<1>11. \A k \in 0..n : acc[k] \in A
  <2> DEFINE Q(m) == m <= n => acc[m] \in A
             P == {m \in Nat : Q(m)}
  <2>1. Q(0)
    BY <1>8 DEF A
  <2>2. ASSUME NEW m \in Nat, Q(m) PROVE Q(m + 1)
    <3> SUFFICES ASSUME m + 1 <= n PROVE acc[m + 1] \in A
      OBVIOUS
    <3>1. m <= n /\ m + 1 \in 1..n /\ (m + 1) - 1 = m
      BY <1>1
    <3>2. acc[m + 1] = add(acc[m], lines[m + 1])
      BY <1>9, <3>1
    <3> QED
      BY <1>1, <1>3, <2>2, <3>1, <3>2
  <2>3. \A m \in Nat : Q(m)
    <3> HIDE DEF Q
    <3>1. 0 \in P
      BY <2>1
    <3>2. \A m \in Nat : m \in P => m + 1 \in P
      BY <2>2
    <3> HIDE DEF P
    <3>3. Nat \subseteq P
      BY <3>1, <3>2, SetInduction
    <3> QED
      BY <3>3 DEF P
  <2> QED
    BY <1>1, <2>3
<1> QED
  BY <1>8, <1>9, <1>10, <1>11 DEF n, A, add

(* What stitch_detections makes of the lines it has kept, the best first,   *)
(* and one more.                                                            *)
BestFirst(lines) == Sorted(lines, LAMBDA a, b : a.score > b.score)

KeptOnce(kept, l) ==
    IF \E k \in Range(kept) : Twice(l.box, k.box) THEN kept ELSE Append(kept, l)

(* Stitching is that step for every line, from the best to the worst.       *)
LEMMA StitchSteps ==
    ASSUME NEW given, NEW lines \in Seq(TextDetection), lines = BestFirst(given)
    PROVE  \E acc : /\ acc[0] = <<>> /\ Stitched(given) = acc[Len(lines)]
                    /\ \A k \in 0..Len(lines) : acc[k] \in Seq(TextDetection)
                    /\ \A k \in 1..Len(lines) : acc[k] = KeptOnce(acc[k - 1], lines[k])
<1> DEFINE add(kept, l) == KeptOnce(kept, l)
           n == Len(lines)
           base == <<>>
           A == Seq(TextDetection)
           D == [k \in 1..n |-> [a \in A |-> add(a, lines[k])]]
           iter[s \in SUBSET (1..n)] ==
                IF s = {} THEN base ELSE add(iter[s \ {Max(s)}], lines[Max(s)])
<1>1. n \in Nat /\ DOMAIN lines = 1..n /\ \A k \in 1..n : lines[k] \in TextDetection
  <2>1. \A k \in DOMAIN lines : lines[k] \in TextDetection
    OBVIOUS
  <2> QED
    BY <2>1
<1>2. Stitched(given) = iter[1..n]
  BY <1>1 DEF Stitched, KeptOnce, BestFirst, FoldLeft, MapThenFoldSet
<1> HIDE DEF n
<1>3. ASSUME NEW a \in A, NEW l \in TextDetection PROVE add(a, l) \in A
  BY <1>3 DEF KeptOnce
<1>12. base \in A
  OBVIOUS
<1> HIDE DEF add
<1>4. D \in [1..n -> [A -> A]]
  <2> HIDE DEF A
  <2> QED
    BY <1>1, <1>3
<1>5. PICK h : IsFold(h, n, A, base, D)
  <2> HIDE DEF D
  <2> QED
    BY <1>1, <1>4, <1>12, FoldExists
<1>6. h = [s \in SUBSET (1..n) |-> IF s = {} THEN base ELSE add(h[s \ {Max(s)}], lines[Max(s)])]
  <2>1. ASSUME NEW s \in SUBSET (1..n), s # {}
        PROVE  D[Max(s)][h[s \ {Max(s)}]] = add(h[s \ {Max(s)}], lines[Max(s)])
    <3>1. Max(s) \in 1..n
      BY <1>1, <2>1, MaxUpTo
    <3>2. h[s \ {Max(s)}] \in A
      BY <1>5 DEF IsFold
    <3> HIDE DEF A
    <3> QED
      BY <3>1, <3>2
  <2> HIDE DEF D
  <2> QED
    BY <1>5, <2>1 DEF IsFold
<1>7. iter = [s \in SUBSET (1..n) |->
                IF s = {} THEN base ELSE add(iter[s \ {Max(s)}], lines[Max(s)])]
  <2> HIDE DEF D
  <2> QED
    BY <1>6
<1> DEFINE acc == [k \in 0..n |-> iter[1..k]]
<1> HIDE DEF iter, D, A
<1>8. acc[0] = base
  <2>1. 1..0 = {} /\ {} \in SUBSET (1..n) /\ 0 \in 0..n
    BY <1>1
  <2> QED
    BY <1>7, <2>1
<1>9. ASSUME NEW k \in 1..n PROVE acc[k] = add(acc[k - 1], lines[k])
  <2>1. k \in 0..n /\ k - 1 \in 0..n /\ k \in Nat \ {0} /\ 1..k \in SUBSET (1..n)
    BY <1>1
  <2>2. 1..k # {} /\ Max(1..k) = k /\ (1..k) \ {k} = 1..(k - 1)
    BY <2>1, FoldStep
  <2>3. iter[1..k] = add(iter[1..(k - 1)], lines[k])
    BY <1>7, <2>1, <2>2
  <2> QED
    BY <2>1, <2>3
<1>10. Stitched(given) = acc[n]
  <2>1. n \in 0..n
    BY <1>1
  <2> QED
    BY <2>1, <1>2
<1> HIDE DEF acc
<1>11. \A k \in 0..n : acc[k] \in A
  <2> DEFINE Q(m) == m <= n => acc[m] \in A
             P == {m \in Nat : Q(m)}
  <2>1. Q(0)
    BY <1>8 DEF A
  <2>2. ASSUME NEW m \in Nat, Q(m) PROVE Q(m + 1)
    <3> SUFFICES ASSUME m + 1 <= n PROVE acc[m + 1] \in A
      OBVIOUS
    <3>1. m <= n /\ m + 1 \in 1..n /\ (m + 1) - 1 = m
      BY <1>1
    <3>2. acc[m + 1] = add(acc[m], lines[m + 1])
      BY <1>9, <3>1
    <3> QED
      BY <1>1, <1>3, <2>2, <3>1, <3>2
  <2>3. \A m \in Nat : Q(m)
    <3> HIDE DEF Q
    <3>1. 0 \in P
      BY <2>1
    <3>2. \A m \in Nat : m \in P => m + 1 \in P
      BY <2>2
    <3> HIDE DEF P
    <3>3. Nat \subseteq P
      BY <3>1, <3>2, SetInduction
    <3> QED
      BY <3>3 DEF P
  <2> QED
    BY <1>1, <2>3
<1> QED
  BY <1>8, <1>9, <1>10, <1>11 DEF n, A, add, base

-----------------------------------------------------------------------------
(* Merging the lines of two passes.                                         *)

(* Overlapping and doubling do not depend on the order of the boxes.        *)
LEMMA OverlapIsMutual ==
    ASSUME NEW a \in BoxSet, NEW b \in BoxSet
    PROVE  (Overlapping(a, b) <=> Overlapping(b, a)) /\ (Twice(a, b) <=> Twice(b, a))
<1>1. /\ a.x1 \in Int /\ a.y1 \in Int /\ a.x2 \in Int /\ a.y2 \in Int
      /\ b.x1 \in Int /\ b.y1 \in Int /\ b.x2 \in Int /\ b.y2 \in Int
  BY DEF BoxSet
<1>2. /\ Smaller(a.x2, b.x2) = Smaller(b.x2, a.x2) /\ Larger(a.x1, b.x1) = Larger(b.x1, a.x1)
      /\ Smaller(a.y2, b.y2) = Smaller(b.y2, a.y2) /\ Larger(a.y1, b.y1) = Larger(b.y1, a.y1)
  BY <1>1 DEF Smaller, Larger
<1>3. Shared(a, b) = Shared(b, a)
  BY <1>2 DEF Shared
<1>4. Area(a) \in Int /\ Area(b) \in Int /\ Shared(a, b) \in Int
  <2>1. /\ Smaller(a.x2, b.x2) \in Int /\ Larger(a.x1, b.x1) \in Int
        /\ Smaller(a.y2, b.y2) \in Int /\ Larger(a.y1, b.y1) \in Int
    BY <1>1 DEF Smaller, Larger
  <2>2. /\ Larger(0, Smaller(a.x2, b.x2) - Larger(a.x1, b.x1)) \in Int
        /\ Larger(0, Smaller(a.y2, b.y2) - Larger(a.y1, b.y1)) \in Int
    BY <2>1 DEF Larger
  <2>3. Shared(a, b) \in Int
    BY <2>2 DEF Shared
  <2> QED
    BY <1>1, <2>3 DEF Area, Width, Height
<1>5. Area(a) + Area(b) = Area(b) + Area(a)
  BY <1>4
<1>6. Overlapping(a, b) <=> Overlapping(b, a)
  <2>1. Area(a) + Area(b) - Shared(a, b) = Area(b) + Area(a) - Shared(b, a)
    BY <1>3, <1>4, <1>5
  <2> QED
    BY <1>3, <2>1 DEF Overlapping
<1>7. Twice(a, b) <=> Twice(b, a)
  BY <1>3, <1>5 DEF Twice
<1> QED
  BY <1>6, <1>7

(* One line of the second pass is appended when it overlaps none of the      *)
(* lines merged so far; else it takes the place of one it overlaps, or goes. *)
LEMMA OneLineMerged ==
    ASSUME NEW merged \in Seq(TextDetection), NEW l \in TextDetection, NEW next,
           next = MergedWith(merged, l)
    PROVE  \/ /\ \A i \in DOMAIN merged : ~Overlapping(l.box, merged[i].box)
              /\ next = Append(merged, l)
           \/ \E i \in DOMAIN merged : /\ Overlapping(l.box, merged[i].box)
                                       /\ next \in {[merged EXCEPT ![i] = l], merged}
<1> DEFINE met == {i \in DOMAIN merged : Overlapping(l.box, merged[i].box)}
<1>1. CASE met = {}
  BY <1>1 DEF MergedWith
<1>2. CASE met # {}
  <2>1. met \in SUBSET Int /\ IsFiniteSet(met)
    <3>1. Len(merged) \in Nat /\ DOMAIN merged = 1..Len(merged)
      OBVIOUS
    <3>2. IsFiniteSet(1..Len(merged)) /\ met \in SUBSET (1..Len(merged))
      BY <3>1, FS_Interval
    <3>3. IsFiniteSet(met)
      <4> HIDE DEF met
      <4> QED
        BY <3>2, FS_Subset
    <3> QED
      BY <3>1, <3>2, <3>3
  <2>2. Min(met) \in met
    <3> HIDE DEF met
    <3> QED
      BY <1>2, <2>1, MinOfFinite
  <2> DEFINE i == Min(met)
  <2>3. next = IF 2 * Area(l.box) > 3 * Area(merged[i].box)
               THEN [merged EXCEPT ![i] = l] ELSE merged
    BY <1>2 DEF MergedWith
  <2>4. i \in DOMAIN merged /\ Overlapping(l.box, merged[i].box)
    BY <2>2
  <2> HIDE DEF i, met
  <2>5. next \in {[merged EXCEPT ![i] = l], merged}
    BY <2>3
  <2> QED
    BY <2>4, <2>5
<1> QED
  BY <1>1, <1>2

(* What has become of the lines after k lines of the second pass.           *)
MergedSoFar(merged, first, second, k) ==
    /\ Len(merged) >= Len(first)
    /\ \A i \in 1..Len(first) :
            \/ merged[i] = first[i]
            \/ \E j \in 1..k : merged[i] = second[j]
                                /\ Overlapping(second[j].box, first[i].box)
    /\ \A i \in 1..Len(merged) : i > Len(first) => \E j \in 1..k : merged[i] = second[j]
    /\ \A j \in 1..k : \/ \E i \in 1..Len(merged) : merged[i] = second[j]
                       \/ \E i \in 1..Len(first) : Overlapping(first[i].box, second[j].box)

(* One line more keeps this true.  What the line overlaps is a line of the  *)
(* first pass: nothing of its own pass overlaps it.                         *)
LEMMA MergedGoesOn ==
    ASSUME NEW first \in Seq(TextDetection), NEW second \in Seq(TextDetection), Apart(second),
           NEW k \in Nat, k + 1 \in 1..Len(second),
           NEW merged \in Seq(TextDetection), MergedSoFar(merged, first, second, k),
           NEW next \in Seq(TextDetection),
           \/ /\ \A i \in DOMAIN merged : ~Overlapping(second[k + 1].box, merged[i].box)
              /\ next = Append(merged, second[k + 1])
           \/ \E i \in DOMAIN merged : /\ Overlapping(second[k + 1].box, merged[i].box)
                                       /\ next \in {[merged EXCEPT ![i] = second[k + 1]], merged}
    PROVE  MergedSoFar(next, first, second, k + 1)
<1> DEFINE l == second[k + 1]
           m == Len(merged)
           n == Len(first)
<1>1. /\ n \in Nat /\ m \in Nat /\ m >= n /\ DOMAIN merged = 1..m
      /\ \A i \in 1..n : \/ merged[i] = first[i]
                         \/ \E j \in 1..k : merged[i] = second[j]
                                /\ Overlapping(second[j].box, first[i].box)
      /\ \A i \in 1..m : i > n => \E j \in 1..k : merged[i] = second[j]
      /\ \A j \in 1..k : \/ \E i \in 1..m : merged[i] = second[j]
                         \/ \E i \in 1..n : Overlapping(first[i].box, second[j].box)
  BY DEF MergedSoFar
<1>2. ASSUME NEW j \in 1..k PROVE ~Overlapping(l.box, second[j].box) /\ j \in 1..(k + 1)
  <2>1. j \in DOMAIN second /\ k + 1 \in DOMAIN second /\ j # k + 1 /\ j \in 1..(k + 1)
    OBVIOUS
  <2> QED
    BY <2>1 DEF Apart
<1>3. k + 1 \in 1..(k + 1) /\ \A j \in 1..(k + 1) : j = k + 1 \/ j \in 1..k
  OBVIOUS
<1>6. n \in Nat /\ m \in Nat /\ m >= n
  BY <1>1
<1>4. CASE next = Append(merged, l)
  <2>1. Len(next) = m + 1 /\ next[m + 1] = l /\ \A i \in 1..m : next[i] = merged[i]
    BY <1>4
  <2> HIDE DEF m, n, l
  <2>2. m + 1 >= n /\ m + 1 \in 1..(m + 1) /\ \A i \in 1..m : i \in 1..(m + 1)
    BY <1>6
  <2>3. \A i \in 1..(m + 1) : i = m + 1 \/ i \in 1..m
    BY <1>6
  <2>4. \A i \in 1..n : i \in 1..m
    BY <1>6
  <2>5. ASSUME NEW i \in 1..n
        PROVE  \/ next[i] = first[i]
               \/ \E j \in 1..(k + 1) : next[i] = second[j]
                                /\ Overlapping(second[j].box, first[i].box)
    <3>1. next[i] = merged[i]
      BY <2>1, <2>4
    <3>2. CASE \E j \in 1..k : merged[i] = second[j] /\ Overlapping(second[j].box, first[i].box)
      <4>1. PICK j \in 1..k : merged[i] = second[j] /\ Overlapping(second[j].box, first[i].box)
        BY <3>2
      <4>2. j \in 1..(k + 1) /\ next[i] = second[j]
        BY <1>2, <3>1, <4>1
      <4> QED
        BY <4>1, <4>2
    <3> QED
      BY <1>1, <3>1, <3>2
  <2>6. ASSUME NEW i \in 1..(m + 1), i > n PROVE \E j \in 1..(k + 1) : next[i] = second[j]
    <3>1. CASE i = m + 1
      BY <1>3, <2>1, <3>1 DEF l
    <3>2. CASE i \in 1..m
      <4>1. PICK j \in 1..k : merged[i] = second[j]
        BY <1>1, <2>6, <3>2
      <4>2. j \in 1..(k + 1) /\ next[i] = second[j]
        BY <1>2, <2>1, <3>2, <4>1
      <4> QED
        BY <4>2
    <3> QED
      BY <2>3, <3>1, <3>2
  <2>7. ASSUME NEW j \in 1..(k + 1)
        PROVE  \/ \E i \in 1..(m + 1) : next[i] = second[j]
               \/ \E i \in 1..n : Overlapping(first[i].box, second[j].box)
    <3>1. CASE j = k + 1
      BY <2>1, <2>2, <3>1 DEF l
    <3>2. CASE j \in 1..k
      BY <1>1, <2>1, <2>2, <3>2
    <3> QED
      BY <1>3, <3>1, <3>2
  <2> QED
    BY <2>1, <2>2, <2>5, <2>6, <2>7 DEF MergedSoFar, n
<1>5. CASE \E i \in DOMAIN merged : /\ Overlapping(l.box, merged[i].box)
                                    /\ next \in {[merged EXCEPT ![i] = l], merged}
  <2>1. PICK c \in 1..m : /\ Overlapping(l.box, merged[c].box)
                          /\ next \in {[merged EXCEPT ![c] = l], merged}
    BY <1>1, <1>5
  <2> HIDE DEF m, n, l
  <2>2. \A j \in 1..k : merged[c] # second[j]
    BY <1>2, <2>1
  <2>3. c \in 1..n /\ merged[c] = first[c]
    <3>1. ~(c > n)
      BY <1>1, <2>2
    <3>2. c \in 1..n
      BY <1>1, <3>1
    <3> QED
      BY <1>1, <2>2, <3>2
  <2>4. Overlapping(l.box, first[c].box) /\ Overlapping(first[c].box, l.box)
    <3>1. l.box \in BoxSet /\ first[c].box \in BoxSet
      <4>1. l \in TextDetection /\ first[c] \in TextDetection
        BY <2>3 DEF l, n
      <4> QED
        BY <4>1 DEF TextDetection
    <3> QED
      BY <2>1, <2>3, <3>1, OverlapIsMutual
  <2>5. Len(next) = m /\ \A i \in 1..m : i # c => next[i] = merged[i]
    BY <2>1 DEF m
  <2>6. next[c] = l \/ next = merged
    BY <2>1, <1>1
  <2>7. ASSUME NEW i \in 1..n
        PROVE  \/ next[i] = first[i]
               \/ \E j \in 1..(k + 1) : next[i] = second[j]
                                /\ Overlapping(second[j].box, first[i].box)
    <3>1. i \in 1..m
      BY <1>1
    <3>2. CASE i # c
      <4>1. next[i] = merged[i]
        BY <2>5, <3>1, <3>2
      <4>2. CASE \E j \in 1..k : merged[i] = second[j] /\ Overlapping(second[j].box, first[i].box)
        <5>1. PICK j \in 1..k : merged[i] = second[j] /\ Overlapping(second[j].box, first[i].box)
          BY <4>2
        <5>2. j \in 1..(k + 1) /\ next[i] = second[j]
          BY <1>2, <4>1, <5>1
        <5> QED
          BY <5>1, <5>2
      <4> QED
        BY <1>1, <4>1, <4>2
    <3>3. CASE i = c
      BY <1>3, <2>3, <2>4, <2>6, <3>3 DEF l
    <3> QED
      BY <3>2, <3>3
  <2>8. ASSUME NEW i \in 1..m, i > n PROVE \E j \in 1..(k + 1) : next[i] = second[j]
    <3>1. i # c
      BY <1>1, <2>3, <2>8
    <3>2. PICK j \in 1..k : merged[i] = second[j]
      BY <1>1, <2>8
    <3>3. j \in 1..(k + 1) /\ next[i] = second[j]
      BY <1>2, <2>5, <3>1, <3>2
    <3> QED
      BY <3>3
  <2>9. ASSUME NEW j \in 1..(k + 1)
        PROVE  \/ \E i \in 1..m : next[i] = second[j]
               \/ \E i \in 1..n : Overlapping(first[i].box, second[j].box)
    <3>1. CASE j = k + 1
      BY <2>3, <2>4, <3>1 DEF l
    <3>2. CASE j \in 1..k
      <4>1. CASE \E i \in 1..m : merged[i] = second[j]
        <5>1. PICK i \in 1..m : merged[i] = second[j]
          BY <4>1
        <5>2. i # c
          BY <2>2, <3>2, <5>1
        <5> QED
          BY <2>5, <5>1, <5>2
      <4> QED
        BY <1>1, <3>2, <4>1
    <3> QED
      BY <1>3, <3>1, <3>2
  <2> QED
    BY <1>1, <2>5, <2>7, <2>8, <2>9 DEF MergedSoFar, n
<1> QED
  BY <1>4, <1>5

(* _merge_detections: a line of the first pass is merged or overlapped by a *)
(* merged line; a line of the second is merged or overlaps one of the first. *)
LEMMA NoLineIsLost ==
    ASSUME NEW first \in Seq(TextDetection), NEW second \in Seq(TextDetection), Apart(second)
    PROVE  /\ \A l \in Range(first) : \E m \in Range(MergeLines(first, second)) :
                    m = l \/ Overlapping(m.box, l.box)
           /\ \A l \in Range(second) :
                    \/ l \in Range(MergeLines(first, second))
                    \/ \E m \in Range(first) : m = l \/ Overlapping(m.box, l.box)
<1> DEFINE n == Len(second)
           merged == MergeLines(first, second)
<1>1. PICK acc : /\ acc[0] = first /\ MergeLines(first, second) = acc[n]
                 /\ \A k \in 0..n : acc[k] \in Seq(TextDetection)
                 /\ \A k \in 1..n : acc[k] = MergedWith(acc[k - 1], second[k])
  BY MergeSteps
<1>2. merged = acc[n]
  BY <1>1
<1>3. n \in Nat /\ \A k \in 1..n : second[k] \in TextDetection
  <2>1. \A k \in DOMAIN second : second[k] \in TextDetection
    OBVIOUS
  <2> QED
    BY <2>1
<1> DEFINE Q(k) == k <= n => MergedSoFar(acc[k], first, second, k)
           P == {k \in Nat : Q(k)}
<1>4. Q(0)
  <2>1. Len(first) \in Nat /\ 1..0 = {} /\ Len(first) >= Len(first)
    OBVIOUS
  <2>2. \A i \in 1..Len(first) : ~(i > Len(first))
    BY <2>1
  <2> QED
    BY <1>1, <2>1, <2>2 DEF MergedSoFar
<1>5. ASSUME NEW k \in Nat, Q(k) PROVE Q(k + 1)
  <2> SUFFICES ASSUME k + 1 <= n PROVE MergedSoFar(acc[k + 1], first, second, k + 1)
    OBVIOUS
  <2>1. k <= n /\ k + 1 \in 1..n /\ (k + 1) - 1 = k /\ k \in 0..n /\ k + 1 \in 0..n
    BY <1>3
  <2> DEFINE a == acc[k]
             b == acc[k + 1]
             l == second[k + 1]
  <2>2. a \in Seq(TextDetection) /\ b \in Seq(TextDetection) /\ b = MergedWith(a, l)
        /\ l \in TextDetection /\ MergedSoFar(a, first, second, k)
    BY <1>1, <1>3, <1>5, <2>1
  <2> HIDE DEF a, b, l
  <2>3. \/ /\ \A i \in DOMAIN a : ~Overlapping(l.box, a[i].box)
           /\ b = Append(a, l)
        \/ \E i \in DOMAIN a : /\ Overlapping(l.box, a[i].box)
                               /\ b \in {[a EXCEPT ![i] = l], a}
    BY <2>2, OneLineMerged
  <2>4. MergedSoFar(b, first, second, k + 1)
    BY <2>1, <2>2, <2>3, MergedGoesOn DEF l
  <2> QED
    BY <2>4 DEF b
<1>6. \A k \in Nat : Q(k)
  <2> HIDE DEF Q
  <2>1. 0 \in P
    BY <1>4
  <2>2. \A k \in Nat : k \in P => k + 1 \in P
    BY <1>5
  <2> HIDE DEF P
  <2>3. Nat \subseteq P
    BY <2>1, <2>2, SetInduction
  <2> QED
    BY <2>3 DEF P
<1>7. MergedSoFar(merged, first, second, n) /\ merged \in Seq(TextDetection)
  BY <1>1, <1>2, <1>3, <1>6
<1> HIDE DEF merged
<1>8. \A i \in 1..Len(merged) : merged[i] \in Range(merged)
  BY <1>7 DEF Range
<1>9. ASSUME NEW l \in Range(first)
      PROVE  \E m \in Range(merged) : m = l \/ Overlapping(m.box, l.box)
  <2>1. PICK i \in 1..Len(first) : l = first[i]
    BY DEF Range
  <2>2. i \in 1..Len(merged)
    <3>1. Len(merged) \in Nat /\ Len(first) \in Nat /\ Len(merged) >= Len(first)
      BY <1>7 DEF MergedSoFar
    <3> QED
      BY <3>1
  <2>3. merged[i] = l \/ Overlapping(merged[i].box, l.box)
    BY <1>7, <2>1 DEF MergedSoFar
  <2> QED
    BY <1>8, <2>2, <2>3
<1>10. ASSUME NEW l \in Range(second)
       PROVE  l \in Range(merged) \/ \E m \in Range(first) : m = l \/ Overlapping(m.box, l.box)
  <2>1. PICK j \in 1..n : l = second[j]
    BY DEF Range
  <2>2. \/ \E i \in 1..Len(merged) : merged[i] = l
        \/ \E i \in 1..Len(first) : Overlapping(first[i].box, l.box)
    BY <1>7, <2>1 DEF MergedSoFar
  <2>3. \A i \in 1..Len(first) : first[i] \in Range(first)
    BY DEF Range
  <2> QED
    BY <1>8, <2>2, <2>3
<1> QED
  BY <1>9, <1>10 DEF merged

-----------------------------------------------------------------------------
(* Stitching the lines of the strips.                                       *)

(* What has become of the k best lines while stitching.                     *)
KeptSoFar(kept, sorted, k) ==
    /\ \A i \in 1..Len(kept) : \E j \in 1..k : kept[i] = sorted[j]
    /\ \A j \in 1..k : \E i \in 1..Len(kept) :
            \/ kept[i] = sorted[j]
            \/ Twice(sorted[j].box, kept[i].box) /\ kept[i].score >= sorted[j].score
    /\ \A i, j \in 1..Len(kept) : i # j => ~Twice(kept[i].box, kept[j].box)

(* The next best line keeps this true.                                      *)
LEMMA StitchingGoesOn ==
    ASSUME NEW sorted \in Seq(TextDetection), NEW k \in Nat, k + 1 \in 1..Len(sorted),
           \A i, j \in 1..Len(sorted) : i < j => sorted[i].score >= sorted[j].score,
           NEW kept \in Seq(TextDetection), KeptSoFar(kept, sorted, k),
           NEW next, next = KeptOnce(kept, sorted[k + 1])
    PROVE  KeptSoFar(next, sorted, k + 1)
<1> DEFINE l == sorted[k + 1]
           m == Len(kept)
<1>1. /\ m \in Nat /\ DOMAIN kept = 1..m
      /\ \A i \in 1..m : kept[i] \in TextDetection
      /\ \A i \in 1..m : kept[i] \in Range(kept)
      /\ \A x \in Range(kept) : \E i \in 1..m : x = kept[i]
  <2>1. m \in Nat /\ DOMAIN kept = 1..m /\ \A i \in DOMAIN kept : kept[i] \in TextDetection
    OBVIOUS
  <2> QED
    BY <2>1 DEF Range
<1>2. /\ \A i \in 1..m : \E j \in 1..k : kept[i] = sorted[j]
      /\ \A j \in 1..k : \E i \in 1..m :
            \/ kept[i] = sorted[j]
            \/ Twice(sorted[j].box, kept[i].box) /\ kept[i].score >= sorted[j].score
      /\ \A i, j \in 1..m : i # j => ~Twice(kept[i].box, kept[j].box)
  BY DEF KeptSoFar
<1>3. /\ k + 1 \in 1..(k + 1) /\ \A j \in 1..(k + 1) : j = k + 1 \/ j \in 1..k
      /\ \A j \in 1..k : j \in 1..(k + 1) /\ j \in 1..Len(sorted) /\ j < k + 1
  OBVIOUS
<1>4. l \in TextDetection
  <2>1. k + 1 \in DOMAIN sorted
    OBVIOUS
  <2> QED
    BY <2>1
<1>5. CASE \E x \in Range(kept) : Twice(l.box, x.box)
  <2>1. next = kept
    BY <1>5 DEF KeptOnce
  <2>2. PICK c \in 1..m : Twice(l.box, kept[c].box)
    BY <1>1, <1>5
  <2>3. PICK j \in 1..k : kept[c] = sorted[j]
    BY <1>2, <2>2
  <2>4. kept[c].score >= l.score
    <3>1. j \in 1..Len(sorted) /\ j < k + 1
      BY <1>3
    <3> QED
      BY <2>3, <3>1
  <2> HIDE DEF m, l
  <2>5. ASSUME NEW i \in 1..m PROVE \E h \in 1..(k + 1) : kept[i] = sorted[h]
    <3>1. PICK h \in 1..k : kept[i] = sorted[h]
      BY <1>2
    <3> QED
      BY <1>3, <3>1
  <2>6. ASSUME NEW h \in 1..(k + 1)
        PROVE  \E i \in 1..m :
                    \/ kept[i] = sorted[h]
                    \/ Twice(sorted[h].box, kept[i].box) /\ kept[i].score >= sorted[h].score
    <3>1. CASE h = k + 1
      BY <2>2, <2>4, <3>1 DEF l
    <3>2. CASE h \in 1..k
      BY <1>2, <3>2
    <3> QED
      BY <1>3, <3>1, <3>2
  <2>7. KeptSoFar(kept, sorted, k + 1)
    <3>1. \A i \in 1..m : \E h \in 1..(k + 1) : kept[i] = sorted[h]
      BY <2>5
    <3>2. \A h \in 1..(k + 1) : \E i \in 1..m :
                \/ kept[i] = sorted[h]
                \/ Twice(sorted[h].box, kept[i].box) /\ kept[i].score >= sorted[h].score
      BY <2>6
    <3> QED
      BY <1>2, <3>1, <3>2 DEF KeptSoFar, m
  <2> QED
    BY <2>1, <2>7
<1>6. CASE \A x \in Range(kept) : ~Twice(l.box, x.box)
  <2>1. next = Append(kept, l)
    BY <1>6 DEF KeptOnce
  <2>2. Len(next) = m + 1 /\ next[m + 1] = l /\ \A i \in 1..m : next[i] = kept[i]
    BY <2>1
  <2>3. \A i \in 1..m : ~Twice(l.box, kept[i].box)
    BY <1>1, <1>6
  <2> HIDE DEF m, l
  <2>4. \A i \in 1..m : ~Twice(kept[i].box, l.box)
    <3>1. \A i \in 1..m : kept[i].box \in BoxSet
      BY <1>1 DEF TextDetection
    <3>2. l.box \in BoxSet
      BY <1>4 DEF TextDetection
    <3> QED
      BY <2>3, <3>1, <3>2, OverlapIsMutual
  <2>5. m + 1 \in 1..(m + 1) /\ \A i \in 1..(m + 1) : i = m + 1 \/ i \in 1..m
    BY <1>1
  <2>6. \A i \in 1..m : i \in 1..(m + 1)
    BY <1>1
  <2>7. ASSUME NEW i \in 1..(m + 1) PROVE \E h \in 1..(k + 1) : next[i] = sorted[h]
    <3>1. CASE i = m + 1
      BY <1>3, <2>2, <3>1 DEF l
    <3>2. CASE i \in 1..m
      <4>1. PICK h \in 1..k : kept[i] = sorted[h]
        BY <1>2, <3>2
      <4> QED
        BY <1>3, <2>2, <3>2, <4>1
    <3> QED
      BY <2>5, <3>1, <3>2
  <2>8. ASSUME NEW h \in 1..(k + 1)
        PROVE  \E i \in 1..(m + 1) :
                    \/ next[i] = sorted[h]
                    \/ Twice(sorted[h].box, next[i].box) /\ next[i].score >= sorted[h].score
    <3>1. CASE h = k + 1
      BY <2>2, <2>5, <3>1 DEF l
    <3>2. CASE h \in 1..k
      <4>1. PICK i \in 1..m :
                \/ kept[i] = sorted[h]
                \/ Twice(sorted[h].box, kept[i].box) /\ kept[i].score >= sorted[h].score
        BY <1>2, <3>2
      <4>2. i \in 1..(m + 1) /\ next[i] = kept[i]
        BY <2>2, <2>6
      <4> QED
        BY <4>1, <4>2
    <3> QED
      BY <1>3, <3>1, <3>2
  <2>9. ASSUME NEW i \in 1..(m + 1), NEW j \in 1..(m + 1), i # j
        PROVE  ~Twice(next[i].box, next[j].box)
    <3>1. CASE i = m + 1
      <4>1. j \in 1..m
        BY <2>5, <2>9, <3>1
      <4> QED
        BY <2>2, <2>3, <3>1, <4>1
    <3>2. CASE j = m + 1
      <4>1. i \in 1..m
        BY <2>5, <2>9, <3>2
      <4> QED
        BY <2>2, <2>4, <3>2, <4>1
    <3>3. CASE i \in 1..m /\ j \in 1..m
      BY <1>2, <2>2, <2>9, <3>3
    <3> QED
      BY <2>5, <3>1, <3>2, <3>3
  <2> QED
    BY <2>2, <2>7, <2>8, <2>9 DEF KeptSoFar
<1> QED
  BY <1>5, <1>6

(* Stitching keeps no two detections of one line, and of every line it      *)
(* leaves out one at least as good.                                         *)
LEMMA StitchingKeepsTheBest ==
    ASSUME NEW lines \in Seq(TextDetection)
    PROVE  LET kept == Stitched(lines) IN
           /\ \A l \in Range(lines) \ Range(kept) :
                    \E k \in Range(kept) : Twice(l.box, k.box) /\ k.score >= l.score
           /\ \A i, j \in DOMAIN kept : i # j => ~Twice(kept[i].box, kept[j].box)
<1> DEFINE n == Len(lines)
           keys == [i \in 1..n |-> -lines[i].score]
           sorted == BestFirst(lines)
<1>1. n \in Nat /\ \A i \in 1..n : lines[i] \in TextDetection
  <2>1. n \in Nat /\ DOMAIN lines = 1..n /\ \A i \in DOMAIN lines : lines[i] \in TextDetection
    OBVIOUS
  <2> QED
    BY <2>1
<1>2. Rearranged(sorted, lines, keys, n)
  BY LinesByScore DEF BestFirst
<1> HIDE DEF n, keys
<1>3. PICK at \in [1..n -> 1..n] :
          /\ sorted = [k \in 1..n |-> lines[at[k]]]
          /\ \A x \in 1..n : \E k \in 1..n : at[k] = x
          /\ \A j, k \in 1..n : j < k => keys[at[j]] <= keys[at[k]]
  BY <1>2 DEF Rearranged
<1> HIDE DEF sorted
<1>4. sorted \in Seq(TextDetection) /\ Len(sorted) = n
  <2>1. sorted \in [1..n -> TextDetection]
    BY <1>1, <1>3
  <2> QED
    BY <1>1, <2>1
<1>5. \A i, j \in 1..n : i < j => sorted[i].score >= sorted[j].score
  <2> SUFFICES ASSUME NEW i \in 1..n, NEW j \in 1..n, i < j
               PROVE  sorted[i].score >= sorted[j].score
    OBVIOUS
  <2>1. keys[at[i]] <= keys[at[j]] /\ at[i] \in 1..n /\ at[j] \in 1..n
    BY <1>3
  <2>2. keys[at[i]] = -lines[at[i]].score /\ keys[at[j]] = -lines[at[j]].score
    BY <2>1 DEF keys
  <2>3. sorted[i] = lines[at[i]] /\ sorted[j] = lines[at[j]]
    BY <1>3
  <2> DEFINE p == lines[at[i]].score
             q == lines[at[j]].score
  <2>4. p \in Int /\ q \in Int
    BY <1>1, <2>1 DEF TextDetection
  <2>5. -p <= -q
    BY <2>1, <2>2
  <2> HIDE DEF p, q
  <2>6. p >= q
    BY <2>4, <2>5
  <2> QED
    BY <2>3, <2>6 DEF p, q
<1>6. PICK acc : /\ acc[0] = <<>> /\ Stitched(lines) = acc[n]
                 /\ \A k \in 0..n : acc[k] \in Seq(TextDetection)
                 /\ \A k \in 1..n : acc[k] = KeptOnce(acc[k - 1], sorted[k])
  BY <1>4, StitchSteps DEF sorted
<1> DEFINE Q(k) == k <= n => KeptSoFar(acc[k], sorted, k)
           P == {k \in Nat : Q(k)}
<1>7. Q(0)
  <2>1. 1..0 = {} /\ Len(acc[0]) = 0
    BY <1>6
  <2> QED
    BY <2>1 DEF KeptSoFar
<1>8. ASSUME NEW k \in Nat, Q(k) PROVE Q(k + 1)
  <2> SUFFICES ASSUME k + 1 <= n PROVE KeptSoFar(acc[k + 1], sorted, k + 1)
    OBVIOUS
  <2>1. k <= n /\ k + 1 \in 1..n /\ (k + 1) - 1 = k /\ k \in 0..n
    BY <1>1
  <2>2. acc[k] \in Seq(TextDetection) /\ acc[k + 1] = KeptOnce(acc[k], sorted[k + 1])
        /\ KeptSoFar(acc[k], sorted, k)
    BY <1>6, <1>8, <2>1
  <2> QED
    BY <1>4, <1>5, <2>1, <2>2, StitchingGoesOn
<1>9. \A k \in Nat : Q(k)
  <2> HIDE DEF Q
  <2>1. 0 \in P
    BY <1>7
  <2>2. \A k \in Nat : k \in P => k + 1 \in P
    BY <1>8
  <2> HIDE DEF P
  <2>3. Nat \subseteq P
    BY <2>1, <2>2, SetInduction
  <2> QED
    BY <2>3 DEF P
<1> DEFINE kept == Stitched(lines)
<1>10. KeptSoFar(kept, sorted, n) /\ kept \in Seq(TextDetection)
  BY <1>1, <1>6, <1>9
<1> HIDE DEF kept
<1>11. DOMAIN kept = 1..Len(kept) /\ \A i \in 1..Len(kept) : kept[i] \in Range(kept)
  BY <1>10 DEF Range
<1>12. \A i, j \in DOMAIN kept : i # j => ~Twice(kept[i].box, kept[j].box)
  BY <1>10, <1>11 DEF KeptSoFar
<1>13. ASSUME NEW l \in Range(lines), l \notin Range(kept)
       PROVE  \E k \in Range(kept) : Twice(l.box, k.box) /\ k.score >= l.score
  <2>1. PICK x \in 1..n : l = lines[x]
    BY DEF Range, n
  <2>2. PICK j \in 1..n : at[j] = x
    BY <1>3
  <2>3. sorted[j] = l
    BY <1>3, <2>1, <2>2
  <2>4. PICK i \in 1..Len(kept) :
            \/ kept[i] = sorted[j]
            \/ Twice(sorted[j].box, kept[i].box) /\ kept[i].score >= sorted[j].score
    BY <1>10 DEF KeptSoFar
  <2>5. kept[i] \in Range(kept)
    BY <1>11
  <2> QED
    BY <1>13, <2>3, <2>4, <2>5
<1> QED
  BY <1>12, <1>13 DEF kept

===============================================================================
