------------------------- MODULE PageAlgorithmsProofs -------------------------
(***************************************************************************)
(* What the algorithms of a page promise, proved for every input the        *)
(* assumptions of PageAlgorithms allow: any number of detections, strips,   *)
(* lines, boxes and words, any room, any page of a book and any reading of  *)
(* its columns.  Every algorithm has a section; the theorems about the      *)
(* properties of PageAlgorithms are at the end.                             *)
(***************************************************************************)
EXTENDS PageAlgorithms, ReadingProofs

-----------------------------------------------------------------------------
(* Routing a crop and reading a page in strips.                             *)

(* However the fallback answers, route_japanese_crop leaves a trusted        *)
(* reading valid, marks valid only what some stage may translate, and        *)
(* degrades a page exactly when an answer it needed did not come.            *)
LEMMA RoutingImproves ==
    ASSUME NEW u, NEW f, NEW enabled \in BOOLEAN
    PROVE  LET routed == Routed(u, enabled, f) IN
           /\ Trusted(u) => routed.valid
           /\ routed.valid => \/ ValidJapanese(routed.text)
                              \/ Meaningful(routed.text) > 0
                              \/ Length(routed.text) >= 2
           /\ routed.engine = "manga" => routed.text = u.text
           /\ routed.degraded <=> NeedsFallback(u, enabled) /\ f.status = "transient"
<1> DEFINE routed == Routed(u, enabled, f)
<1>1. CASE ~NeedsFallback(u, enabled)
  <2>1. routed = Primary(u, <<>>, FALSE)
    BY <1>1 DEF Routed
  <2>2. /\ routed.engine = "manga" /\ routed.text = u.text /\ routed.valid = Trusted(u)
        /\ routed.degraded = FALSE
    BY <2>1 DEF Primary
  <2>3. Trusted(u) => ValidJapanese(u.text)
    BY DEF Trusted
  <2> HIDE DEF routed
  <2>4. routed.valid => ValidJapanese(routed.text)
    BY <2>2, <2>3, Zenon
  <2>5. Trusted(u) => routed.valid
    BY <2>2, Zenon
  <2> QED
    BY <1>1, <2>2, <2>4, <2>5, Zenon DEF routed
<1>2. CASE NeedsFallback(u, enabled) /\ f.status = "transient"
  <2>1. routed = Primary(u, <<>>, TRUE)
    BY <1>2 DEF Routed
  <2>2. /\ routed.engine = "manga" /\ routed.text = u.text /\ routed.valid = Trusted(u)
        /\ routed.degraded = TRUE
    BY <2>1 DEF Primary
  <2>3. Trusted(u) => ValidJapanese(u.text)
    BY DEF Trusted
  <2> HIDE DEF routed
  <2>4. routed.valid => ValidJapanese(routed.text)
    BY <2>2, <2>3, Zenon
  <2>5. Trusted(u) => routed.valid
    BY <2>2, Zenon
  <2> QED
    BY <1>2, <2>2, <2>4, <2>5, Zenon DEF routed
<1>3. CASE NeedsFallback(u, enabled) /\ f.status # "transient"
             /\ ~FallbackUsable(f.text, ChooseRoute(u))
  <2>1. routed = Primary(u, <<f.text>>, FALSE)
    BY <1>3 DEF Routed
  <2>2. /\ routed.engine = "manga" /\ routed.text = u.text /\ routed.valid = Trusted(u)
        /\ routed.degraded = FALSE
    BY <2>1 DEF Primary
  <2>3. Trusted(u) => ValidJapanese(u.text)
    BY DEF Trusted
  <2> HIDE DEF routed
  <2>4. routed.valid => ValidJapanese(routed.text)
    BY <2>2, <2>3, Zenon
  <2>5. Trusted(u) => routed.valid
    BY <2>2, Zenon
  <2> QED
    BY <1>3, <2>2, <2>4, <2>5, Zenon DEF routed
<1>4. CASE NeedsFallback(u, enabled) /\ f.status # "transient"
             /\ FallbackUsable(f.text, ChooseRoute(u))
  <2>1. routed = [engine |-> "hayai", text |-> f.text, valid |-> TRUE,
                  alternatives |-> <<u.text>>, degraded |-> FALSE]
    BY <1>4 DEF Routed
  <2>2. routed.engine = "hayai" /\ routed.text = f.text /\ routed.valid = TRUE
        /\ routed.degraded = FALSE
    BY <2>1
  <2> DEFINE route == ChooseRoute(u)
  <2> HIDE DEF route
  <2>3. FallbackUsable(f.text, route)
    BY <1>4 DEF route
  <2>4. ValidJapanese(f.text) \/ Meaningful(f.text) > 0 \/ Length(f.text) >= 2
    <3>1. CASE route \in {"multilingual", "numeric"}
      BY <2>3, <3>1 DEF FallbackUsable
    <3>2. CASE route = "punctuation"
      BY <2>3, <3>2 DEF FallbackUsable
    <3>3. CASE route = "stylized_or_sfx"
      BY <2>3, <3>3 DEF FallbackUsable
    <3>4. CASE route \notin {"multilingual", "numeric", "punctuation", "stylized_or_sfx"}
      BY <2>3, <3>4 DEF FallbackUsable
    <3> QED
      BY <3>1, <3>2, <3>3, <3>4
  <2> HIDE DEF routed
  <2> QED
    BY <1>4, <2>2, <2>4 DEF routed
<1> QED
  BY <1>1, <1>2, <1>3, <1>4

(* A balloon no higher than the overlap of two strips is whole in one of     *)
(* them, wherever it begins.                                                 *)
LEMMA StripsOverlap ==
    ASSUME NEW h \in Nat, NEW max \in Nat, NEW v \in Nat, 0 < v, v < max,
           NEW y \in 0..(h - v)
    PROVE  \E o \in StripOffsets(h, max, v) : /\ o <= y /\ y < o + max
                                              /\ o <= y + v - 1 /\ y + v - 1 < o + max
<1> DEFINE w == max - v
           N == {n \in 0..h : n = 0 \/ (n - 1) * w + max < h}
           Q(m) == m + v <= h => \E k \in N : k <= m /\ k * w <= m /\ m + v <= k * w + max
           P == {m \in Nat : Q(m)}
<1>1. w \in Nat /\ w > 0 /\ max = w + v
  OBVIOUS
<1> HIDE DEF w
<1>2. ASSUME NEW k \in Nat
      PROVE  k * w \in Nat /\ (k + 1) * w = k * w + w /\ (k + 1) - 1 = k /\ 0 * w = 0
  BY <1>1
<1>3. Q(0)
  <2>1. 0 \in N /\ 0 * w = 0
    BY <1>1
  <2> QED
    BY <2>1
<1>4. ASSUME NEW m \in Nat, Q(m) PROVE Q(m + 1)
  <2> SUFFICES ASSUME m + 1 + v <= h
               PROVE  \E k \in N : k <= m + 1 /\ k * w <= m + 1 /\ (m + 1) + v <= k * w + max
    OBVIOUS
  <2>1. PICK k \in N : k <= m /\ k * w <= m /\ m + v <= k * w + max
    BY <1>4
  <2>2. k \in Nat /\ k \in 0..h
    OBVIOUS
  <2> DEFINE o == k * w
  <2>3. o \in Nat /\ o <= m /\ m + v <= o + max /\ (k + 1) * w = o + w /\ (k + 1) - 1 = k
    BY <1>2, <2>1, <2>2
  <2>4. k <= m + 1 /\ k + 1 <= m + 1 /\ k + 1 \in 0..h
    BY <2>1, <2>2
  <2> HIDE DEF o
  <2>5. CASE m + 1 + v <= o + max
    <3>1. o <= m + 1 /\ (m + 1) + v <= o + max
      BY <2>3, <2>5
    <3> HIDE DEF N
    <3> QED
      BY <2>4, <3>1 DEF o
  <2>6. CASE ~(m + 1 + v <= o + max)
    <3>1. m + v = o + max
      BY <2>3, <2>6
    <3>2. o + max < h
      BY <3>1
    <3>3. k + 1 \in N
      <4>1. ((k + 1) - 1) * w + max < h
        BY <2>3, <3>2 DEF o
      <4> QED
        BY <2>4, <4>1
    <3>4. o + w <= m + 1 /\ (m + 1) + v <= o + w + max
      BY <2>3, <3>1, <1>1
    <3>5. (k + 1) * w <= m + 1 /\ (m + 1) + v <= (k + 1) * w + max
      BY <2>3, <3>4
    <3> HIDE DEF N
    <3> QED
      BY <2>4, <3>3, <3>5
  <2> QED
    BY <2>5, <2>6
<1>5. \A m \in Nat : Q(m)
  <2> HIDE DEF Q
  <2>1. 0 \in P
    BY <1>3
  <2>2. \A m \in Nat : m \in P => m + 1 \in P
    BY <1>4
  <2> HIDE DEF P
  <2>3. Nat \subseteq P
    BY <2>1, <2>2, SetInduction
  <2> QED
    BY <2>3 DEF P
<1>6. PICK k \in N : k * w <= y /\ y + v <= k * w + max
  <2>1. y \in Nat /\ y + v <= h
    OBVIOUS
  <2>2. Q(y)
    BY <1>5, <2>1
  <2> HIDE DEF N
  <2> QED
    BY <2>1, <2>2
<1>7. k \in Nat /\ k * w \in StripOffsets(h, max, v)
  BY DEF StripOffsets, w
<1> DEFINE o == k * w
<1>8. o \in Nat /\ o <= y /\ y + v <= o + max
  BY <1>2, <1>6, <1>7
<1> HIDE DEF o
<1>9. o <= y /\ y < o + max /\ o <= y + v - 1 /\ y + v - 1 < o + max
  BY <1>8
<1> QED
  BY <1>7, <1>9 DEF o

-----------------------------------------------------------------------------
(* Tiles of a mask (pipeline/cleanup.py _tiles).                            *)

(* Ranking the tiles lists each of a finite set of boxes once.              *)
LEMMA TilesEnumerate ==
    ASSUME NEW S \in SUBSET BoxSet, IsFiniteSet(S)
    PROVE  Enumerates(Ranked(S, TileBefore), S)
<1> DEFINE R == {p \in S \X S : TileBefore(p[1], p[2])}
           s == Ranked(S, TileBefore)
<1>1. \A a \in S : a.x1 \in Int /\ a.y1 \in Int /\ a.x2 \in Int /\ a.y2 \in Int
  BY DEF BoxSet
<1>2. StrictOrder(R, S)
  <2>1. \A a \in S : ~TileBefore(a, a)
    BY <1>1 DEF TileBefore
  <2>2. ASSUME NEW a \in S, NEW b \in S, NEW c \in S, TileBefore(a, b), TileBefore(b, c)
        PROVE  TileBefore(a, c)
    BY <1>1, <2>2 DEF TileBefore
  <2>3. ASSUME NEW a \in S, NEW b \in S, a # b PROVE TileBefore(a, b) \/ TileBefore(b, a)
    <3>1. a.x1 # b.x1 \/ a.y1 # b.y1 \/ a.x2 # b.x2 \/ a.y2 # b.y2
      BY <2>3 DEF BoxSet
    <3> QED
      BY <1>1, <3>1 DEF TileBefore
  <2> QED
    BY <2>1, <2>2, <2>3 DEF StrictOrder
<1>3. \A x \in S : {y \in S : TileBefore(y, x)} = Below(R, S, x)
  BY DEF Below
<1>4. s = [i \in 1..Cardinality(S) |->
              CHOOSE x \in S : Cardinality({y \in S : TileBefore(y, x)}) = i - 1]
  BY DEF Ranked
<1> HIDE DEF s, R
<1>5. ASSUME NEW i \in 1..Cardinality(S)
      PROVE  s[i] \in S /\ Cardinality(Below(R, S, s[i])) = i - 1
  <2>1. PICK x \in S : Cardinality(Below(R, S, x)) = i - 1
    BY <1>2, RankOnto
  <2>2. Cardinality({y \in S : TileBefore(y, x)}) = i - 1
    BY <1>3, <2>1
  <2>3. s[i] \in S /\ Cardinality({y \in S : TileBefore(y, s[i])}) = i - 1
    BY <1>4, <2>2
  <2> QED
    BY <1>3, <2>3
<1>6. s \in [1..Cardinality(S) -> S]
  BY <1>4, <1>5
<1>7. Enumerates(s, S)
  BY <1>2, <1>5, <1>6, EnumeratedByRank
<1> QED
  BY <1>7 DEF s

(* A part of the mask, as Blobs grows it from one box.                      *)
BlobOf(mask, m) ==
    LET g[n \in Nat] == IF n = 0 THEN {m}
                        ELSE {c \in mask : \E d \in g[n - 1] : Touching(c, d)}
    IN  g[Cardinality(mask)]

(* The boxes of the mask that touch. *)
Touches(mask) == {p \in mask \X mask : Touching(p[1], p[2])}

(* It holds that box, and nothing that is not masked.                       *)
LEMMA BlobHolds ==
    ASSUME NEW mask \in SUBSET BoxSet, IsFiniteSet(mask), \A b \in mask : ValidBox(b),
           NEW m \in mask
    PROVE  m \in BlobOf(mask, m) /\ BlobOf(mask, m) \in SUBSET mask
<1> DEFINE g[n \in Nat] == IF n = 0 THEN {m}
                           ELSE {c \in mask : \E d \in g[n - 1] : Touching(c, d)}
<1>1. PICK h : Grows(h, mask, Touches(mask), m)
  BY GrowthExists
<1>2. \A c, d \in mask : Touching(c, d) <=> c = d \/ <<c, d>> \in Touches(mask)
  BY DEF Touches, Touching, ValidBox, BoxSet
<1>3. h = [n \in Nat |-> IF n = 0 THEN {m}
                         ELSE {c \in mask : \E d \in h[n - 1] : Touching(c, d)}]
  <2>1. ASSUME NEW n \in Nat, n # 0
        PROVE  h[n] = {c \in mask : \E d \in h[n - 1] : Touching(c, d)}
    <3>1. n - 1 \in Nat /\ (n - 1) + 1 = n
      BY <2>1
    <3>2. h[(n - 1) + 1] = {c \in mask : \E d \in h[n - 1] : c = d \/ <<c, d>> \in Touches(mask)}
      BY <1>1, <3>1 DEF Grows
    <3>3. h[n - 1] \in SUBSET mask
      BY <1>1, <3>1 DEF Grows
    <3> QED
      BY <1>2, <3>1, <3>2, <3>3
  <2>2. h[0] = {m} /\ h = [n \in Nat |-> h[n]]
    BY <1>1 DEF Grows
  <2> QED
    BY <2>1, <2>2
<1>4. g = [n \in Nat |-> IF n = 0 THEN {m}
                         ELSE {c \in mask : \E d \in g[n - 1] : Touching(c, d)}]
  BY <1>3
<1>5. BlobOf(mask, m) = g[Cardinality(mask)]
  BY DEF BlobOf
<1> HIDE DEF g
<1>6. Grows(g, mask, Touches(mask), m)
  <2>1. g[0] = {m}
    BY <1>4
  <2>2. ASSUME NEW n \in Nat
        PROVE  g[n + 1] = {c \in mask : \E d \in g[n] : Touching(c, d)}
    <3>1. n + 1 \in Nat /\ n + 1 # 0 /\ (n + 1) - 1 = n
      OBVIOUS
    <3> QED
      BY <1>4, <3>1
  <2>3. ASSUME NEW n \in Nat PROVE g[n] \in SUBSET mask
    <3>1. CASE n = 0
      BY <2>1, <3>1
    <3>2. CASE n # 0
      BY <1>4, <3>2
    <3> QED
      BY <3>1, <3>2
  <2>4. ASSUME NEW n \in Nat
        PROVE  g[n + 1] = {c \in mask : \E d \in g[n] : c = d \/ <<c, d>> \in Touches(mask)}
    BY <1>2, <2>2, <2>3
  <2>5. g \in [Nat -> SUBSET mask]
    BY <1>4, <2>3
  <2> QED
    BY <2>1, <2>4, <2>5 DEF Grows
<1> QED
  BY <1>5, <1>6, Component

(* The hull of a finite set of boxes is a box around each of them.          *)
LEMMA HullAround ==
    ASSUME NEW S \in SUBSET BoxSet, IsFiniteSet(S), S # {}
    PROVE  Hull(S) \in BoxSet /\ \A b \in S : Encloses(Hull(S), b)
<1>1. ASSUME NEW f \in [S -> Int]
      PROVE  /\ Min({f[b] : b \in S}) \in Int /\ \A b \in S : Min({f[c] : c \in S}) <= f[b]
             /\ Max({f[b] : b \in S}) \in Int /\ \A b \in S : f[b] <= Max({f[c] : c \in S})
  <2> DEFINE T == {f[b] : b \in S}
  <2>1. IsFiniteSet(T)
    <3>1. DOMAIN f = S
      OBVIOUS
    <3> QED
      BY <3>1, ImageFinite
  <2>2. T \in SUBSET Int /\ T # {} /\ \A b \in S : f[b] \in T
    OBVIOUS
  <2> HIDE DEF T
  <2>3. /\ Min(T) \in T /\ \A x \in T : Min(T) <= x
        /\ Max(T) \in T /\ \A x \in T : x <= Max(T)
    BY <2>1, <2>2, MinOfFinite, MaxOfFinite
  <2>4. Min(T) \in Int /\ Max(T) \in Int
    BY <2>2, <2>3
  <2> QED
    BY <2>2, <2>3, <2>4 DEF T
<1> DEFINE f1 == [b \in S |-> b.x1]
           f2 == [b \in S |-> b.y1]
           f3 == [b \in S |-> b.x2]
           f4 == [b \in S |-> b.y2]
<1>2. f1 \in [S -> Int] /\ f2 \in [S -> Int] /\ f3 \in [S -> Int] /\ f4 \in [S -> Int]
  BY DEF BoxSet
<1>3. /\ {f1[b] : b \in S} = {b.x1 : b \in S} /\ {f2[b] : b \in S} = {b.y1 : b \in S}
      /\ {f3[b] : b \in S} = {b.x2 : b \in S} /\ {f4[b] : b \in S} = {b.y2 : b \in S}
      /\ \A b \in S : f1[b] = b.x1 /\ f2[b] = b.y1 /\ f3[b] = b.x2 /\ f4[b] = b.y2
  OBVIOUS
<1> HIDE DEF f1, f2, f3, f4
<1>4. Min({b.x1 : b \in S}) \in Int /\ \A b \in S : Min({c.x1 : c \in S}) <= b.x1
  BY <1>1, <1>2, <1>3
<1>5. Min({b.y1 : b \in S}) \in Int /\ \A b \in S : Min({c.y1 : c \in S}) <= b.y1
  BY <1>1, <1>2, <1>3
<1>6. Max({b.x2 : b \in S}) \in Int /\ \A b \in S : b.x2 <= Max({c.x2 : c \in S})
  BY <1>1, <1>2, <1>3
<1>7. Max({b.y2 : b \in S}) \in Int /\ \A b \in S : b.y2 <= Max({c.y2 : c \in S})
  BY <1>1, <1>2, <1>3
<1>8. Hull(S) = [x1 |-> Min({b.x1 : b \in S}), y1 |-> Min({b.y1 : b \in S}),
                 x2 |-> Max({b.x2 : b \in S}), y2 |-> Max({b.y2 : b \in S})]
  BY DEF Hull, Box
<1>9. /\ Hull(S).x1 = Min({b.x1 : b \in S}) /\ Hull(S).y1 = Min({b.y1 : b \in S})
      /\ Hull(S).x2 = Max({b.x2 : b \in S}) /\ Hull(S).y2 = Max({b.y2 : b \in S})
  BY <1>8
<1>10. Hull(S) \in BoxSet
  BY <1>4, <1>5, <1>6, <1>7, <1>8 DEF BoxSet
<1>11. ASSUME NEW b \in S PROVE Encloses(Hull(S), b)
  BY <1>4, <1>5, <1>6, <1>7, <1>9 DEF Encloses
<1> QED
  BY <1>10, <1>11

(* One tile, the padded hull h of a part within the page: it is a valid box *)
(* of the page and covers every masked box m of the part with its context.  *)
LEMMA TileAround ==
    ASSUME NEW page \in BoxSet, ValidBox(page), NEW h \in BoxSet, NEW m \in BoxSet,
           ValidBox(m), Encloses(page, m), Encloses(h, m)
    PROVE  LET t == Meet(Padded(h, ContextPad), page) IN
           /\ t \in BoxSet /\ ValidBox(t) /\ Encloses(page, t)
           /\ Encloses(t, Meet(Padded(m, ContextPad), page))
<1>1. ContextPad = 20
  BY DEF ContextPad
<1>2. /\ page.x1 \in Int /\ page.y1 \in Int /\ page.x2 \in Int /\ page.y2 \in Int
      /\ h.x1 \in Int /\ h.y1 \in Int /\ h.x2 \in Int /\ h.y2 \in Int
      /\ m.x1 \in Int /\ m.y1 \in Int /\ m.x2 \in Int /\ m.y2 \in Int
  BY DEF BoxSet
<1> DEFINE t == Meet(Padded(h, ContextPad), page)
           c == Meet(Padded(m, ContextPad), page)
<1>3. /\ t = [x1 |-> Larger(h.x1 - 20, page.x1), y1 |-> Larger(h.y1 - 20, page.y1),
              x2 |-> Smaller(h.x2 + 20, page.x2), y2 |-> Smaller(h.y2 + 20, page.y2)]
      /\ c = [x1 |-> Larger(m.x1 - 20, page.x1), y1 |-> Larger(m.y1 - 20, page.y1),
              x2 |-> Smaller(m.x2 + 20, page.x2), y2 |-> Smaller(m.y2 + 20, page.y2)]
  BY <1>1 DEF Meet, Padded, Box
<1> HIDE DEF t, c
<1>4. /\ t.x1 = Larger(h.x1 - 20, page.x1) /\ t.y1 = Larger(h.y1 - 20, page.y1)
      /\ t.x2 = Smaller(h.x2 + 20, page.x2) /\ t.y2 = Smaller(h.y2 + 20, page.y2)
      /\ c.x1 = Larger(m.x1 - 20, page.x1) /\ c.y1 = Larger(m.y1 - 20, page.y1)
      /\ c.x2 = Smaller(m.x2 + 20, page.x2) /\ c.y2 = Smaller(m.y2 + 20, page.y2)
  BY <1>3
<1>5. t \in BoxSet
  BY <1>2, <1>3 DEF BoxSet, Larger, Smaller
<1>6. /\ h.x1 <= m.x1 /\ h.y1 <= m.y1 /\ m.x2 <= h.x2 /\ m.y2 <= h.y2
      /\ page.x1 <= m.x1 /\ page.y1 <= m.y1 /\ m.x2 <= page.x2 /\ m.y2 <= page.y2
      /\ m.x1 < m.x2 /\ m.y1 < m.y2 /\ 0 <= page.x1 /\ 0 <= page.y1
  BY DEF Encloses, ValidBox
<1>7. ValidBox(t)
  BY <1>2, <1>4, <1>6 DEF ValidBox, Larger, Smaller
<1>8. Encloses(page, t)
  BY <1>2, <1>4, <1>6 DEF Encloses, Larger, Smaller
<1>9. Encloses(t, c)
  BY <1>2, <1>4, <1>6 DEF Encloses, Larger, Smaller
<1> QED
  BY <1>5, <1>7, <1>8, <1>9 DEF t, c

(* _tiles: every masked box lies with its context in a tile, no tile leaves  *)
(* the page.                                                                 *)
LEMMA TilesCover ==
    ASSUME NEW page \in BoxSet, ValidBox(page), NEW mask, IsFiniteSet(mask),
           \A b \in mask : b \in BoxSet /\ ValidBox(b) /\ Encloses(page, b)
    PROVE  LET tiles == Range(Tiles(mask, page)) IN
           /\ \A m \in mask : \E t \in tiles : Encloses(t, Meet(Padded(m, ContextPad), page))
           /\ \A t \in tiles : ValidBox(t) /\ Encloses(page, t)
<1> DEFINE tile(part) == Meet(Padded(Hull(part), ContextPad), page)
           S == {tile(part) : part \in Blobs(mask)}
           f == [m \in mask |-> tile(BlobOf(mask, m))]
<1>1. mask \in SUBSET BoxSet /\ \A b \in mask : ValidBox(b) /\ Encloses(page, b)
  OBVIOUS
<1>2. ASSUME NEW m \in mask
      PROVE  /\ f[m] \in BoxSet /\ ValidBox(f[m]) /\ Encloses(page, f[m])
             /\ Encloses(f[m], Meet(Padded(m, ContextPad), page))
  <2> DEFINE part == BlobOf(mask, m)
  <2>1. m \in part /\ part \in SUBSET mask
    BY <1>1, BlobHolds
  <2> HIDE DEF part
  <2>2. IsFiniteSet(part) /\ part # {} /\ part \in SUBSET BoxSet
    BY <1>1, <2>1, FS_Subset
  <2>3. Hull(part) \in BoxSet /\ Encloses(Hull(part), m)
    BY <2>1, <2>2, HullAround
  <2>4. /\ tile(part) \in BoxSet /\ ValidBox(tile(part)) /\ Encloses(page, tile(part))
        /\ Encloses(tile(part), Meet(Padded(m, ContextPad), page))
    <3> DEFINE h == Hull(part)
    <3> HIDE DEF h
    <3>1. h \in BoxSet /\ Encloses(h, m) /\ m \in BoxSet /\ ValidBox(m) /\ Encloses(page, m)
      BY <1>1, <2>3 DEF h
    <3>2. /\ Meet(Padded(h, ContextPad), page) \in BoxSet
          /\ ValidBox(Meet(Padded(h, ContextPad), page))
          /\ Encloses(page, Meet(Padded(h, ContextPad), page))
          /\ Encloses(Meet(Padded(h, ContextPad), page), Meet(Padded(m, ContextPad), page))
      BY <3>1, TileAround
    <3> QED
      BY <3>2 DEF h
  <2> QED
    BY <2>4 DEF part
<1>3. S = {f[m] : m \in mask}
  <2>1. Blobs(mask) = {BlobOf(mask, m) : m \in mask}
    BY DEF Blobs, BlobOf
  <2> HIDE DEF tile
  <2> QED
    BY <2>1
<1>4. IsFiniteSet(S)
  <2>1. DOMAIN f = mask
    OBVIOUS
  <2> HIDE DEF f, S
  <2> QED
    BY <1>3, <2>1, ImageFinite
<1>5. Tiles(mask, page) = Ranked(S, TileBefore)
  BY DEF Tiles
<1> HIDE DEF f, S
<1>6. S \in SUBSET BoxSet
  BY <1>2, <1>3
<1>7. Enumerates(Tiles(mask, page), S)
  BY <1>4, <1>5, <1>6, TilesEnumerate
<1> DEFINE tiles == Range(Tiles(mask, page))
<1>8. tiles = S
  <2> DEFINE s == Tiles(mask, page)
  <2> HIDE DEF s
  <2>1. Enumerates(s, S)
    BY <1>7 DEF s
  <2>2. \A i \in DOMAIN s : s[i] \in S
    BY <2>1 DEF Enumerates
  <2>3. Range(s) = S
    BY <2>1, <2>2 DEF Enumerates, Range
  <2> QED
    BY <2>3 DEF s
<1> HIDE DEF tiles
<1>9. \A t \in tiles : \E m \in mask : t = f[m]
  BY <1>3, <1>8
<1>10. \A m \in mask : f[m] \in tiles
  BY <1>3, <1>8
<1>11. \A m \in mask : \E t \in tiles : Encloses(t, Meet(Padded(m, ContextPad), page))
  BY <1>2, <1>10
<1>12. \A t \in tiles : ValidBox(t) /\ Encloses(page, t)
  BY <1>2, <1>9
<1> QED
  BY <1>11, <1>12 DEF tiles

-----------------------------------------------------------------------------
(* Where a region is drawn.                                                 *)

(* The box document_render_geometry keeps for a region is a valid box inside *)
(* the bubble, whatever box its lines and its mask make.                     *)
LEMMA PlacedInside ==
    ASSUME NEW lines \in Seq(TextDetection), NEW page \in BoxSet, NEW bubble,
           bubble.box \in BoxSet, ValidBox(bubble.box), bubble.mask \in Seq(BoxSet)
    PROVE  LET placed == RenderBox(lines, bubble, page) IN
           ValidBox(placed) /\ Encloses(bubble.box, placed)
<1>1. TextBox(lines, page) \in BoxSet
  <2>1. CASE lines = <<>>
    BY <2>1 DEF TextBox
  <2>2. CASE lines # <<>>
    <3> DEFINE S == {lines[i].box : i \in DOMAIN lines}
               f == [i \in DOMAIN lines |-> lines[i].box]
               h == Hull(S)
    <3>1. IsFiniteSet(S)
      <4>1. IsFiniteSet(DOMAIN lines)
        <5>1. Len(lines) \in Nat /\ DOMAIN lines = 1..Len(lines)
          OBVIOUS
        <5> QED
          BY <5>1, FS_Interval
      <4>2. DOMAIN f = DOMAIN lines /\ S = {f[i] : i \in DOMAIN lines}
        OBVIOUS
      <4> HIDE DEF f, S
      <4> QED
        BY <4>1, <4>2, ImageFinite
    <3>2. \A i \in DOMAIN lines : lines[i] \in TextDetection
      OBVIOUS
    <3>3. S \in SUBSET BoxSet /\ S # {}
      <4>1. 1 \in DOMAIN lines
        BY <2>2
      <4> QED
        BY <3>2, <4>1 DEF TextDetection
    <3> HIDE DEF S
    <3>4. h \in BoxSet
      BY <3>1, <3>3, HullAround
    <3>5. TextBox(lines, page) = Meet(Box(h.x1 - 14, h.y1 - 10, h.x2 + 14, h.y2 + 10), page)
      BY <2>2 DEF TextBox, Boxes, S
    <3> HIDE DEF h
    <3>6. /\ h.x1 - 14 \in Int /\ h.y1 - 10 \in Int /\ h.x2 + 14 \in Int /\ h.y2 + 10 \in Int
          /\ page.x1 \in Int /\ page.y1 \in Int /\ page.x2 \in Int /\ page.y2 \in Int
      <4>1. /\ h.x1 \in Int /\ h.y1 \in Int /\ h.x2 \in Int /\ h.y2 \in Int
            /\ page.x1 \in Int /\ page.y1 \in Int /\ page.x2 \in Int /\ page.y2 \in Int
        BY <3>4 DEF BoxSet
      <4>2. \A z \in Int : z - 14 \in Int /\ z - 10 \in Int /\ z + 14 \in Int /\ z + 10 \in Int
        OBVIOUS
      <4> QED
        BY <4>1, <4>2
    <3> DEFINE w == Box(h.x1 - 14, h.y1 - 10, h.x2 + 14, h.y2 + 10)
    <3>7. /\ w.x1 = h.x1 - 14 /\ w.y1 = h.y1 - 10 /\ w.x2 = h.x2 + 14 /\ w.y2 = h.y2 + 10
      BY DEF Box
    <3> HIDE DEF w
    <3>8. /\ Larger(w.x1, page.x1) \in Int /\ Larger(w.y1, page.y1) \in Int
          /\ Smaller(w.x2, page.x2) \in Int /\ Smaller(w.y2, page.y2) \in Int
      BY <3>6, <3>7 DEF Larger, Smaller
    <3>9. Meet(w, page) \in BoxSet
      BY <3>8 DEF Meet, Box, BoxSet
    <3> QED
      BY <3>5, <3>9 DEF w
  <2> QED
    BY <2>1, <2>2
<1> DEFINE text == TextBox(lines, page)
           e == ExpandRenderBox(text, bubble)
           b == bubble.box
           c == Meet(e, b)
<1> HIDE DEF text
<1>2. e \in BoxSet
  <2> DEFINE reference == IF bubble.mask = <<>> THEN bubble.box ELSE bubble.mask[1]
             hidden == bubble.mask # <<>> /\ ~ValidBox(Meet(Box(reference.x1, text.y1, reference.x2,
                                                                text.y2), reference))
             inset  == IF bubble.boundary THEN 8 ELSE 0
             target == Smaller((85 * Width(reference)) \div 100, (13 * Width(text)) \div 10)
             middle == (text.x1 + text.x2) \div 2
  <2>1. reference \in BoxSet
    <3>1. bubble.mask # <<>> => 1 \in DOMAIN bubble.mask
      OBVIOUS
    <3> QED
      BY <3>1
  <2>2. e = IF hidden \/ 10 * Width(reference) < 12 * Width(text) THEN text
            ELSE Box(Larger(reference.x1 + inset, middle - target \div 2), text.y1,
                     Smaller(reference.x2 - inset, middle + target \div 2), text.y2)
    BY DEF ExpandRenderBox
  <2>3. text \in BoxSet
    BY <1>1 DEF text
  <2>4. inset \in Int
    OBVIOUS
  <2> HIDE DEF reference, hidden, inset
  <2>5. target \in Int /\ middle \in Int
    <3>0. Width(reference) \in Int /\ Width(text) \in Int
      BY <2>1, <2>3 DEF Width, BoxSet
    <3>1. (85 * Width(reference)) \div 100 \in Int /\ (13 * Width(text)) \div 10 \in Int
      <4> DEFINE u == Width(reference)
                 w == Width(text)
      <4> HIDE DEF u, w
      <4>1. u \in Int /\ w \in Int
        BY <3>0 DEF u, w
      <4>2. (85 * u) \div 100 \in Int /\ (13 * w) \div 10 \in Int
        BY <4>1
      <4> QED
        BY <4>2 DEF u, w
    <3>2. middle \in Int
      BY <2>3 DEF BoxSet
    <3> QED
      BY <3>1, <3>2 DEF Smaller
  <2> HIDE DEF target, middle
  <2>6. /\ Larger(reference.x1 + inset, middle - target \div 2) \in Int
        /\ Smaller(reference.x2 - inset, middle + target \div 2) \in Int
    <3>1. target \div 2 \in Int
      BY <2>5
    <3>2. reference.x1 \in Int /\ reference.x2 \in Int
      BY <2>1 DEF BoxSet
    <3> QED
      BY <2>4, <2>5, <3>1, <3>2 DEF Larger, Smaller
  <2>7. text.y1 \in Int /\ text.y2 \in Int
    BY <2>3 DEF BoxSet
  <2> QED
    BY <2>2, <2>3, <2>6, <2>7 DEF Box, BoxSet
<1> HIDE DEF e
<1>3. /\ c.x1 = Larger(e.x1, b.x1) /\ c.y1 = Larger(e.y1, b.y1)
      /\ c.x2 = Smaller(e.x2, b.x2) /\ c.y2 = Smaller(e.y2, b.y2)
  BY DEF Meet, Box
<1>4. /\ e.x1 \in Int /\ e.y1 \in Int /\ e.x2 \in Int /\ e.y2 \in Int
      /\ b.x1 \in Int /\ b.y1 \in Int /\ b.x2 \in Int /\ b.y2 \in Int
  BY <1>2 DEF BoxSet
<1>5. RenderBox(lines, bubble, page) =
        IF Width(c) <= 0 \/ Height(c) <= 0 THEN b ELSE c
  BY DEF RenderBox, e, text
<1>6. ValidBox(b)
  OBVIOUS
<1> HIDE DEF b, c
<1>7. Encloses(b, b)
  BY <1>4 DEF Encloses
<1>8. ASSUME ~(Width(c) <= 0 \/ Height(c) <= 0)
      PROVE  ValidBox(c) /\ Encloses(b, c)
  <2>1. c.x1 \in Int /\ c.y1 \in Int /\ c.x2 \in Int /\ c.y2 \in Int
    BY <1>3, <1>4 DEF Larger, Smaller
  <2>2. c.x1 < c.x2 /\ c.y1 < c.y2
    BY <1>8, <2>1 DEF Width, Height
  <2>3. b.x1 <= c.x1 /\ b.y1 <= c.y1 /\ c.x2 <= b.x2 /\ c.y2 <= b.y2
    BY <1>3, <1>4 DEF Larger, Smaller
  <2>4. 0 <= b.x1 /\ 0 <= b.y1
    BY <1>6 DEF ValidBox
  <2>5. 0 <= c.x1 /\ 0 <= c.y1
    BY <1>4, <2>1, <2>3, <2>4
  <2> QED
    BY <2>2, <2>3, <2>5 DEF ValidBox, Encloses
<1>9. /\ ValidBox(RenderBox(lines, bubble, page))
      /\ Encloses(b, RenderBox(lines, bubble, page))
  <2>1. CASE Width(c) <= 0 \/ Height(c) <= 0
    BY <1>5, <1>6, <1>7, <2>1
  <2>2. CASE ~(Width(c) <= 0 \/ Height(c) <= 0)
    BY <1>5, <1>8, <2>2
  <2> QED
    BY <2>1, <2>2
<1> QED
  BY <1>9 DEF b

(* So is every box it keeps of the source lines.                            *)
LEMMA SourceInside ==
    ASSUME NEW lines \in Seq(TextDetection), NEW bubble,
           bubble.box \in BoxSet, ValidBox(bubble.box)
    PROVE  \A b \in Range(SourceBoxes(lines, bubble)) : ValidBox(b) /\ Encloses(bubble.box, b)
<1> DEFINE inside(i) == Meet(lines[i].box, bubble.box)
           kept == {i \in DOMAIN lines : Width(inside(i)) > 0 /\ Height(inside(i)) > 0}
           all == [i \in DOMAIN lines |-> inside(i)]
           source == Selected(all, kept)
<1>1. SourceBoxes(lines, bubble) = source
  BY DEF SourceBoxes
<1>2. \A i \in DOMAIN lines : lines[i].box \in BoxSet
  <2>1. \A i \in DOMAIN lines : lines[i] \in TextDetection
    OBVIOUS
  <2> QED
    BY <2>1 DEF TextDetection
<1>3. ASSUME NEW i \in DOMAIN lines
      PROVE  /\ inside(i) \in BoxSet
             /\ i \in kept => ValidBox(inside(i)) /\ Encloses(bubble.box, inside(i))
  <2> DEFINE a == lines[i].box
             b == bubble.box
             c == Meet(a, b)
  <2>1. /\ c.x1 = Larger(a.x1, b.x1) /\ c.y1 = Larger(a.y1, b.y1)
        /\ c.x2 = Smaller(a.x2, b.x2) /\ c.y2 = Smaller(a.y2, b.y2)
    BY DEF Meet, Box
  <2>2. /\ a.x1 \in Int /\ a.y1 \in Int /\ a.x2 \in Int /\ a.y2 \in Int
        /\ b.x1 \in Int /\ b.y1 \in Int /\ b.x2 \in Int /\ b.y2 \in Int
    BY <1>2 DEF BoxSet
  <2>3. c \in BoxSet
    <3> HIDE DEF a, b
    <3>1. /\ Larger(a.x1, b.x1) \in Int /\ Larger(a.y1, b.y1) \in Int
          /\ Smaller(a.x2, b.x2) \in Int /\ Smaller(a.y2, b.y2) \in Int
      BY <2>2 DEF Larger, Smaller
    <3> QED
      BY <3>1 DEF Meet, Box, BoxSet
  <2>4. ValidBox(b)
    OBVIOUS
  <2>5. i \in kept => Width(c) > 0 /\ Height(c) > 0
    OBVIOUS
  <2> HIDE DEF a, b, c
  <2>6. ASSUME Width(c) > 0, Height(c) > 0 PROVE ValidBox(c) /\ Encloses(b, c)
    <3>1. /\ c.x1 \in Int /\ c.y1 \in Int /\ c.x2 \in Int /\ c.y2 \in Int
          /\ c.x1 >= b.x1 /\ c.y1 >= b.y1 /\ c.x2 <= b.x2 /\ c.y2 <= b.y2
      BY <2>1, <2>2 DEF Larger, Smaller
    <3>2. c.x2 - c.x1 > 0 /\ c.y2 - c.y1 > 0
      BY <2>6 DEF Width, Height
    <3>3. 0 <= b.x1 /\ 0 <= b.y1
      BY <2>4 DEF ValidBox
    <3>4. 0 <= c.x1 /\ c.x1 < c.x2 /\ 0 <= c.y1 /\ c.y1 < c.y2
      <4>1. c.x1 < c.x2
        BY <3>1, <3>2
      <4>2. c.y1 < c.y2
        BY <3>1, <3>2
      <4>3. 0 <= c.x1
        BY <2>2, <3>1, <3>3
      <4>4. 0 <= c.y1
        BY <2>2, <3>1, <3>3
      <4> QED
        BY <4>1, <4>2, <4>3, <4>4
    <3>5. b.x1 <= c.x1 /\ b.y1 <= c.y1
      BY <2>2, <3>1
    <3> QED
      BY <3>1, <3>4, <3>5 DEF ValidBox, Encloses
  <2>7. i \in kept => ValidBox(c) /\ Encloses(b, c)
    BY <2>5, <2>6
  <2> QED
    BY <2>3, <2>7 DEF a, b, c
<1>4. kept \in SUBSET DOMAIN lines
  OBVIOUS
<1>5. all \in Seq(BoxSet) /\ DOMAIN all = DOMAIN lines
  <2> DEFINE n == Len(lines)
  <2>1. n \in Nat /\ DOMAIN lines = 1..n
    OBVIOUS
  <2> HIDE DEF n
  <2>2. \A i \in 1..n : inside(i) \in BoxSet
    BY <1>3, <2>1
  <2> HIDE DEF inside
  <2> QED
    BY <2>1, <2>2
<1>6. \A i \in DOMAIN lines : all[i] = inside(i)
  OBVIOUS
<1> HIDE DEF inside, kept, all
<1>7. /\ source \in Seq(BoxSet) /\ Len(source) = Cardinality(kept)
      /\ \E at \in [1..Cardinality(kept) -> kept] :
            \A k \in 1..Cardinality(kept) : source[k] = all[at[k]]
  BY <1>4, <1>5, SelectedPlaces
<1> HIDE DEF source
<1>8. PICK at \in [1..Cardinality(kept) -> kept] :
            \A k \in 1..Cardinality(kept) : source[k] = all[at[k]]
  BY <1>7
<1>9. DOMAIN source = 1..Cardinality(kept)
  BY <1>7
<1>10. ASSUME NEW b \in Range(source) PROVE ValidBox(b) /\ Encloses(bubble.box, b)
  <2>1. PICK k \in 1..Cardinality(kept) : b = source[k]
    BY <1>9 DEF Range
  <2>2. at[k] \in kept /\ at[k] \in DOMAIN lines
    BY <1>4, <1>8
  <2>3. b = inside(at[k])
    BY <1>6, <1>8, <2>1, <2>2
  <2> QED
    BY <1>3, <2>2, <2>3
<1> QED
  BY <1>1, <1>10

-----------------------------------------------------------------------------
(* Lines.                                                                   *)

LineSet == [shown : Nat, letters : Nat]

(* The letters of each line, and of all. *)
LettersOf(lines) == [i \in DOMAIN lines |-> lines[i].letters]
Carried(lines) == Total(LettersOf(lines))

(* The letters of lines are numbers, a number for every line.               *)
LEMMA LettersAreNumbers ==
    ASSUME NEW lines \in Seq(LineSet)
    PROVE  /\ LettersOf(lines) \in Seq(Int) /\ Len(LettersOf(lines)) = Len(lines)
           /\ \A i \in 1..Len(lines) : LettersOf(lines)[i] = lines[i].letters
<1> DEFINE R == LineSet
<1>1. \A x \in R : x.letters \in Int
  BY DEF LineSet
<1> HIDE DEF R
<1>2. lines \in Seq(R)
  BY DEF R
<1>3. \A i \in 1..Len(lines) : lines[i] \in R
  BY <1>2
<1>4. DOMAIN lines = 1..Len(lines) /\ Len(lines) \in Nat
  BY <1>2
<1>5. LettersOf(lines) = [i \in 1..Len(lines) |-> lines[i].letters]
  BY <1>4 DEF LettersOf
<1> QED
  BY <1>1, <1>3, <1>4, <1>5

(* What is carried by no line, by one, and by lines after lines.            *)
LEMMA LettersCarried ==
    /\ Carried(<<>>) = 0
    /\ \A s \in Seq(LineSet) : Carried(s) \in Int
    /\ \A s, t \in Seq(LineSet) : Carried(s \o t) = Carried(s) + Carried(t)
    /\ \A x \in LineSet : <<x>> \in Seq(LineSet) /\ Carried(<<x>>) = x.letters
    /\ \A s \in Seq(LineSet), x \in LineSet : Carried(Append(s, x)) = Carried(s) + x.letters
<1>0. \A x \in LineSet : x.letters \in Int
  BY DEF LineSet
<1> DEFINE R == LineSet
<1> HIDE DEF R
<1>1. Carried(<<>>) = 0
  <2>1. LettersOf(<<>>) = <<>>
    BY DEF LettersOf
  <2> QED
    BY <2>1, Totals DEF Carried
<1>2. \A s \in Seq(LineSet) : Carried(s) \in Int
  BY LettersAreNumbers, Totals DEF Carried
<1>3. ASSUME NEW s \in Seq(R), NEW t \in Seq(R) PROVE Carried(s \o t) = Carried(s) + Carried(t)
  <2>1. LettersOf(s \o t) = LettersOf(s) \o LettersOf(t)
    <3> DEFINE u == s \o t
               m == Len(s)
               n == Len(t)
    <3>1. /\ u \in Seq(R) /\ Len(u) = m + n /\ m \in Nat /\ n \in Nat
          /\ \A i \in 1..m : u[i] = s[i]
          /\ \A i \in 1..n : u[m + i] = t[i]
      OBVIOUS
    <3>2. /\ LettersOf(s) \in Seq(Int) /\ Len(LettersOf(s)) = m
          /\ \A i \in 1..m : LettersOf(s)[i] = s[i].letters
      BY LettersAreNumbers DEF R
    <3>3. /\ LettersOf(t) \in Seq(Int) /\ Len(LettersOf(t)) = n
          /\ \A i \in 1..n : LettersOf(t)[i] = t[i].letters
      BY LettersAreNumbers DEF R
    <3> HIDE DEF u, m, n
    <3>4. /\ LettersOf(u) \in Seq(Int) /\ Len(LettersOf(u)) = m + n
          /\ \A i \in 1..(m + n) : LettersOf(u)[i] = u[i].letters
      BY <3>1, LettersAreNumbers DEF R
    <3> DEFINE a == LettersOf(s)
               b == LettersOf(t)
               c == LettersOf(u)
    <3>5. /\ a \in Seq(Int) /\ Len(a) = m /\ b \in Seq(Int) /\ Len(b) = n
          /\ c \in Seq(Int) /\ Len(c) = m + n
          /\ \A i \in 1..m : a[i] = s[i].letters
          /\ \A i \in 1..n : b[i] = t[i].letters
          /\ \A i \in 1..(m + n) : c[i] = u[i].letters
      BY <3>2, <3>3, <3>4
    <3> HIDE DEF a, b, c
    <3>6. /\ a \o b \in Seq(Int) /\ Len(a \o b) = m + n
          /\ \A i \in 1..m : (a \o b)[i] = a[i]
          /\ \A i \in 1..n : (a \o b)[m + i] = b[i]
      <4>1. a \in Seq(Int) /\ b \in Seq(Int)
        BY <3>5
      <4>2. /\ a \o b \in Seq(Int) /\ Len(a \o b) = Len(a) + Len(b)
            /\ \A i \in 1..Len(a) : (a \o b)[i] = a[i]
            /\ \A i \in 1..Len(b) : (a \o b)[Len(a) + i] = b[i]
        BY <4>1, Joining
      <4>3. Len(a) = m /\ Len(b) = n
        BY <3>5
      <4> QED
        BY <4>2, <4>3
    <3>7. ASSUME NEW i \in 1..(m + n) PROVE c[i] = (a \o b)[i]
      <4>1. CASE i <= m
        <5>1. i \in 1..m
          BY <4>1, <3>1
        <5>2. (a \o b)[i] = a[i]
          BY <5>1, <3>6
        <5> QED
          BY <5>1, <5>2, <3>1, <3>5
      <4>2. CASE i > m
        <5>1. i - m \in 1..n /\ m + (i - m) = i
          BY <4>2, <3>1
        <5>2. (a \o b)[i] = b[i - m]
          BY <5>1, <3>6
        <5>3. u[i] = t[i - m]
          BY <5>1, <3>1
        <5> QED
          BY <5>1, <5>2, <5>3, <3>5
      <4>3. i <= m \/ i > m
        BY <3>1
      <4> QED
        BY <4>1, <4>2, <4>3
    <3>8. c = a \o b
      BY <3>5, <3>6, <3>7, SeqEqual
    <3> QED
      BY <3>8 DEF a, b, c, u
  <2>2. LettersOf(s) \in Seq(Int) /\ LettersOf(t) \in Seq(Int)
    BY LettersAreNumbers DEF R
  <2>3. Total(LettersOf(s) \o LettersOf(t)) = Total(LettersOf(s)) + Total(LettersOf(t))
    BY <2>2, TotalOfBoth
  <2> QED
    BY <2>1, <2>3 DEF Carried
<1>4. ASSUME NEW x \in R PROVE <<x>> \in Seq(R) /\ Carried(<<x>>) = x.letters
  <2>1. <<x>> \in Seq(R) /\ x.letters \in Int
    BY <1>0 DEF R
  <2>2. LettersOf(<<x>>) = Append(<<>>, x.letters)
    BY DEF LettersOf
  <2>3. <<>> \in Seq(Int)
    OBVIOUS
  <2>4. Total(Append(<<>>, x.letters)) = Total(<<>>) + x.letters
    BY <2>1, <2>3, Totals
  <2>5. Total(<<>>) = 0
    BY Totals
  <2> QED
    BY <2>1, <2>2, <2>4, <2>5 DEF Carried
<1>5. ASSUME NEW s \in Seq(R), NEW x \in R PROVE Carried(Append(s, x)) = Carried(s) + x.letters
  <2>1. Append(s, x) = s \o <<x>>
    OBVIOUS
  <2> QED
    BY <1>3, <1>4, <2>1
<1> QED
  BY <1>1, <1>2, <1>3, <1>4, <1>5 DEF R

-----------------------------------------------------------------------------
(* The parts of a word that is broken.                                      *)

(* A line of x characters is no wider than width.                           *)
LineHolds(x, size, width) == Advance(x, size) <= width

(* The prefixes of a word of n letters that fit with their hyphen, how many *)
(* letters the first fragment takes, and the fragment.                      *)
FittingPrefixes(n, size, width) ==
    {k \in 1..n : Advance(k + (IF k < n THEN 1 ELSE 0), size) <= width}

Taken(n, size, width) ==
    IF FittingPrefixes(n, size, width) = {} THEN 1 ELSE Max(FittingPrefixes(n, size, width))

Opening(n, size, width) ==
    IF FittingPrefixes(n, size, width) = {} THEN Line(1, 1)
    ELSE Line(Taken(n, size, width) + (IF Taken(n, size, width) < n THEN 1 ELSE 0),
              Taken(n, size, width))

(* The first part of a word that is broken takes at least one letter, and    *)
(* all of them when the word fits a line.                                    *)
LEMMA OpeningTakes ==
    ASSUME NEW n \in Nat \ {0}, NEW size \in Int, NEW width \in Int
    PROVE  /\ Taken(n, size, width) \in 1..n
           /\ Opening(n, size, width) \in LineSet
           /\ Opening(n, size, width).letters = Taken(n, size, width)
           /\ Opening(n, size, width).shown >= 1
           /\ Taken(n, size, width) = n => Opening(n, size, width).shown = n
           /\ LineHolds(n, size, width) => Taken(n, size, width) = n
           /\ ~LineHolds(n, size, width) /\ n > 1 =>
                /\ Taken(n, size, width) <= n - 1
                /\ Taken(n, size, width) = 1 \/ LineHolds(Taken(n, size, width) + 1, size, width)
                /\ \A k \in 1..(n - 1) : LineHolds(k + 1, size, width) => k <= Taken(n, size, width)
<1> DEFINE P == FittingPrefixes(n, size, width)
           t == Taken(n, size, width)
<1>1. P \in SUBSET (1..n)
  BY DEF FittingPrefixes
<1>2. P # {} => Max(P) \in P /\ \A x \in P : x <= Max(P)
  <2> HIDE DEF P
  <2> QED
    BY <1>1, MaxUpTo
<1>3. t = IF P = {} THEN 1 ELSE Max(P)
  BY DEF Taken
<1>4. \A k \in 1..n : k \in P <=> IF k < n THEN LineHolds(k + 1, size, width) ELSE LineHolds(k, size, width)
  <2> SUFFICES ASSUME NEW k \in 1..n
               PROVE  k \in P <=> IF k < n THEN LineHolds(k + 1, size, width)
                                           ELSE LineHolds(k, size, width)
    OBVIOUS
  <2>1. k \in P <=> Advance(k + (IF k < n THEN 1 ELSE 0), size) <= width
    BY DEF FittingPrefixes
  <2>2. CASE k < n
    BY <2>1, <2>2 DEF LineHolds
  <2>3. CASE ~(k < n)
    <3>1. k + (IF k < n THEN 1 ELSE 0) = k
      BY <2>3
    <3> QED
      BY <2>1, <2>3, <3>1 DEF LineHolds
  <2> QED
    BY <2>2, <2>3
<1>5. Opening(n, size, width) = IF P = {} THEN Line(1, 1) ELSE Line(t + (IF t < n THEN 1 ELSE 0), t)
  BY DEF Opening
<1> HIDE DEF P, t
<1>6. t \in 1..n
  BY <1>1, <1>2, <1>3
<1>7. /\ Opening(n, size, width) \in LineSet /\ Opening(n, size, width).letters = t
      /\ Opening(n, size, width).shown >= 1
      /\ t = n => Opening(n, size, width).shown = n
  <2>1. CASE P = {}
    <3>1. Opening(n, size, width) = [shown |-> 1, letters |-> 1] /\ t = 1
      BY <1>3, <1>5, <2>1 DEF Line
    <3> QED
      BY <3>1 DEF LineSet
  <2>2. CASE P # {} /\ t < n
    <3>1. Opening(n, size, width) = [shown |-> t + 1, letters |-> t]
      BY <1>5, <2>2 DEF Line
    <3> QED
      BY <3>1, <1>6, <2>2 DEF LineSet
  <2>3. CASE P # {} /\ ~(t < n)
    <3>0. t = n /\ t + 0 = t
      BY <1>6, <2>3
    <3>1. Opening(n, size, width) = [shown |-> t, letters |-> t]
      BY <1>5, <2>3, <3>0 DEF Line
    <3> QED
      BY <3>0, <3>1, <1>6 DEF LineSet
  <2> QED
    BY <2>1, <2>2, <2>3
<1>8. LineHolds(n, size, width) => t = n
  <2> SUFFICES ASSUME LineHolds(n, size, width) PROVE t = n
    OBVIOUS
  <2>1. n \in 1..n /\ ~(n < n)
    OBVIOUS
  <2>2. n \in P
    BY <2>1, <1>4
  <2>3. t = Max(P) /\ n <= Max(P)
    BY <1>2, <1>3, <2>2
  <2> QED
    BY <1>6, <2>3
<1>9. ASSUME ~LineHolds(n, size, width), n > 1
      PROVE  /\ t <= n - 1 /\ (t = 1 \/ LineHolds(t + 1, size, width))
             /\ \A k \in 1..(n - 1) : LineHolds(k + 1, size, width) => k <= t
  <2>1. n \notin P
    BY <1>4, <1>9
  <2>2. t \in P \/ (P = {} /\ t = 1)
    BY <1>2, <1>3
  <2>3. t <= n - 1
    BY <1>6, <1>9, <2>1, <2>2
  <2>4. t = 1 \/ LineHolds(t + 1, size, width)
    BY <1>4, <1>6, <2>2, <2>3
  <2>5. ASSUME NEW k \in 1..(n - 1), LineHolds(k + 1, size, width) PROVE k <= t
    <3>1. k \in 1..n /\ k < n
      OBVIOUS
    <3>2. k \in P
      BY <1>4, <2>5, <3>1
    <3> QED
      BY <1>2, <1>3, <3>2
  <2> QED
    BY <2>3, <2>4, <2>5
<1> QED
  BY <1>6, <1>7, <1>8, <1>9 DEF t

(* f[n] are the fragments of n letters: the opening and those of the rest.  *)
IsParts(f, word, size, width) ==
    /\ f \in [0..word -> Seq(LineSet)] /\ f[0] = <<>>
    /\ \A n \in 1..word : f[n] = <<Opening(n, size, width)>> \o f[n - Taken(n, size, width)]

(* _break_long_word as parts: what is left of every remainder of the word.   *)
LEMMA FragmentsUnfold ==
    ASSUME NEW word \in Nat, NEW size \in Int, NEW width \in Int
    PROVE  \E f : IsParts(f, word, size, width) /\ Fragments(word, size, width) = f[word]
<1> DEFINE body(g, n) ==
                IF n = 0 THEN <<>>
                ELSE LET hyphen(k) == IF k < n THEN 1 ELSE 0
                         fits == {k \in 1..n : Advance(k + hyphen(k), size) <= width}
                     IN  IF fits = {} THEN <<Line(1, 1)>> \o g[n - 1]
                         ELSE <<Line(Max(fits) + hyphen(Max(fits)), Max(fits))>>
                              \o g[n - Max(fits)]
           parts[n \in 0..word] == body(parts, n)
           A == Seq(LineSet)
           back == [n \in 1..word |-> n - Taken(n, size, width)]
           D == [n \in 1..word |-> [a \in A |-> <<Opening(n, size, width)>> \o a]]
<1>1. Fragments(word, size, width) = parts[word]
  BY DEF Fragments
<1>2. ASSUME NEW g, NEW n \in 1..word
      PROVE  body(g, n) = <<Opening(n, size, width)>> \o g[n - Taken(n, size, width)]
  <2>1. n # 0
    OBVIOUS
  <2> QED
    BY <2>1 DEF Opening, Taken, FittingPrefixes
<1>3. \A g : body(g, 0) = <<>>
  OBVIOUS
<1> HIDE DEF body
<1>4. \A n \in 1..word : Taken(n, size, width) \in 1..n /\ Opening(n, size, width) \in LineSet
  <2>1. \A n \in 1..word : n \in Nat \ {0}
    OBVIOUS
  <2> QED
    BY <2>1, OpeningTakes
<1>5. back \in [1..word -> Nat] /\ \A n \in 1..word : back[n] < n
  BY <1>4
<1>6. D \in [1..word -> [A -> A]] /\ <<>> \in A
  <2> DEFINE R == LineSet
  <2> HIDE DEF R
  <2>1. \A n \in 1..word, a \in Seq(R) : <<Opening(n, size, width)>> \o a \in Seq(R)
    BY <1>4 DEF R
  <2> QED
    BY <2>1 DEF R
<1>7. \A n \in 1..word : /\ back[n] = n - Taken(n, size, width)
                         /\ \A a \in A : D[n][a] = <<Opening(n, size, width)>> \o a
  OBVIOUS
<1> HIDE DEF back, D, A
<1>8. PICK f : IsCourse(f, word, A, <<>>, back, D)
  BY <1>5, <1>6, CourseExists
<1>9. ASSUME NEW n \in 1..word
      PROVE  f[n] = <<Opening(n, size, width)>> \o f[n - Taken(n, size, width)]
  <2>1. back[n] \in 0..word
    BY <1>5
  <2>2. f[back[n]] \in A
    BY <1>8, <2>1 DEF IsCourse
  <2>3. f[n] = D[n][f[back[n]]]
    BY <1>8 DEF IsCourse
  <2> QED
    BY <1>7, <2>2, <2>3
<1>10. f \in [0..word -> A] /\ f[0] = <<>>
  BY <1>8 DEF IsCourse
<1>11. f = [n \in 0..word |-> body(f, n)]
  <2>1. \A n \in 0..word : n # 0 => n \in 1..word
    OBVIOUS
  <2>2. \A n \in 0..word : f[n] = body(f, n)
    BY <1>2, <1>3, <1>9, <1>10, <2>1
  <2> QED
    BY <1>10, <2>2
<1>12. parts = [n \in 0..word |-> body(parts, n)]
  BY <1>11
<1> HIDE DEF parts
<1>13. parts[0] = <<>>
  BY <1>3, <1>12
<1>14. ASSUME NEW n \in 1..word
       PROVE  parts[n] = <<Opening(n, size, width)>> \o parts[n - Taken(n, size, width)]
  <2>1. n \in 0..word
    OBVIOUS
  <2>2. parts[n] = body(parts, n)
    BY <1>12, <2>1
  <2>3. body(parts, n) = <<Opening(n, size, width)>> \o parts[n - Taken(n, size, width)]
    BY <1>2
  <2> QED
    BY <2>2, <2>3
<1>15. \A n \in 0..word : parts[n] \in A
  <2> DEFINE Q(m) == \A n \in 0..word : n <= m => parts[n] \in A
             P == {m \in Nat : Q(m)}
  <2>1. Q(0)
    BY <1>6, <1>13
  <2>2. ASSUME NEW m \in Nat, Q(m) PROVE Q(m + 1)
    <3> SUFFICES ASSUME NEW n \in 0..word, n <= m + 1 PROVE parts[n] \in A
      OBVIOUS
    <3>1. CASE n <= m
      BY <2>2, <3>1
    <3>2. CASE ~(n <= m)
      <4>1. n \in 1..word
        BY <3>2
      <4>2. Taken(n, size, width) \in 1..n
        BY <1>4, <4>1
      <4>3. n - Taken(n, size, width) \in 0..word /\ n - Taken(n, size, width) <= m
        BY <4>1, <4>2
      <4>4. parts[n - Taken(n, size, width)] \in A
        BY <2>2, <4>3
      <4>5. D[n] \in [A -> A]
        BY <1>6, <4>1
      <4>6. D[n][parts[n - Taken(n, size, width)]] \in A
        BY <4>4, <4>5
      <4>7. D[n][parts[n - Taken(n, size, width)]] = parts[n]
        BY <1>7, <1>14, <4>1, <4>4
      <4> QED
        BY <4>6, <4>7
    <3> QED
      BY <3>1, <3>2
  <2>3. \A m \in Nat : Q(m)
    <3> HIDE DEF Q
    <3>1. 0 \in P
      BY <2>1
    <3>2. \A m \in Nat : m \in P => m + 1 \in P
      BY <2>2
    <3> HIDE DEF P
    <3>3. Nat \subseteq P
      BY <3>1, <3>2, SetInduction
    <3> QED
      BY <3>3 DEF P
  <2>4. Q(word)
    <3> HIDE DEF Q
    <3> QED
      BY <2>3
  <2> QED
    BY <2>4
<1>16. parts \in [0..word -> A]
  BY <1>12, <1>15
<1>17. IsParts(parts, word, size, width)
  BY <1>13, <1>14, <1>16 DEF A, IsParts
<1> QED
  BY <1>1, <1>17

(* A line that holds something holds less, and more in a smaller font.      *)
LEMMA HoldsLess ==
    ASSUME NEW size \in Nat, NEW width \in Int
    PROVE  /\ \A x, y \in Nat : x <= y /\ LineHolds(y, size, width) => LineHolds(x, size, width)
           /\ \A x, s \in Nat : s <= size /\ LineHolds(x, size, width) => LineHolds(x, s, width)
<1>1. \A m, n \in Nat : m <= n => m \div 2 <= n \div 2
  OBVIOUS
<1>2. ASSUME NEW x \in Nat, NEW y \in Nat, x <= y, LineHolds(y, size, width)
      PROVE  LineHolds(x, size, width)
  <2>1. x * size <= y * size /\ x * size \in Nat /\ y * size \in Nat
    BY <1>2, ProductGrows
  <2>2. Advance(x, size) <= Advance(y, size) /\ Advance(x, size) \in Nat /\ Advance(y, size) \in Nat
    BY <1>1, <2>1 DEF Advance
  <2> QED
    BY <1>2, <2>2 DEF LineHolds
<1>3. ASSUME NEW x \in Nat, NEW s \in Nat, s <= size, LineHolds(x, size, width)
      PROVE  LineHolds(x, s, width)
  <2>1. x * s <= x * size /\ x * s \in Nat /\ x * size \in Nat
    BY <1>3, ProductGrows
  <2>2. Advance(x, s) <= Advance(x, size) /\ Advance(x, s) \in Nat /\ Advance(x, size) \in Nat
    BY <1>1, <2>1 DEF Advance
  <2> QED
    BY <1>3, <2>2 DEF LineHolds
<1> QED
  BY <1>2, <1>3

(* How far lines reach: how many there are, then how full the last one is.  *)
Foot(lines) == lines[Len(lines)].shown

NoFurther(p, q) == Len(p) < Len(q) \/ (Len(p) = Len(q) /\ Foot(p) <= Foot(q))

(* The lines x and then p: their last line is that of p.                    *)
LEMMA LineBefore ==
    ASSUME NEW x \in LineSet, NEW p \in Seq(LineSet)
    PROVE  /\ <<x>> \o p \in Seq(LineSet) /\ Len(<<x>> \o p) = Len(p) + 1
           /\ Len(p) >= 1 => Foot(<<x>> \o p) = Foot(p)
           /\ p = <<>> => Foot(<<x>> \o p) = x.shown
<1> DEFINE R == LineSet
<1>1. x \in R /\ p \in Seq(R)
  OBVIOUS
<1> HIDE DEF R
<1>2. <<x>> \in Seq(R) /\ Len(<<x>>) = 1 /\ <<x>>[1] = x /\ 1 \in 1..Len(<<x>>) /\ Len(p) \in Nat
  BY <1>1
<1> DEFINE u == <<x>> \o p
<1>3. /\ u \in Seq(R) /\ Len(u) = 1 + Len(p) /\ u[1] = x
      /\ \A i \in 1..Len(p) : u[1 + i] = p[i]
  <2>1. /\ u \in Seq(R) /\ Len(u) = Len(<<x>>) + Len(p)
        /\ \A i \in 1..Len(<<x>>) : u[i] = <<x>>[i]
        /\ \A i \in 1..Len(p) : u[Len(<<x>>) + i] = p[i]
    BY <1>1, <1>2, Joining
  <2> HIDE DEF u
  <2> QED
    BY <1>2, <2>1
<1> HIDE DEF u
<1>4. Len(p) >= 1 => u[Len(u)] = p[Len(p)]
  BY <1>2, <1>3
<1>5. p = <<>> => Len(u) = 1
  BY <1>2, <1>3
<1> QED
  BY <1>2, <1>3, <1>4, <1>5 DEF Foot, u, R

(* With a line before it, neither reaches further than it did.               *)
LEMMA OneMoreLine ==
    ASSUME NEW x \in LineSet, NEW p \in Seq(LineSet), Len(p) >= 1,
           NEW y \in LineSet, NEW q \in Seq(LineSet), Len(q) >= 1, NoFurther(p, q)
    PROVE  NoFurther(<<x>> \o p, <<y>> \o q)
<1>1. Len(<<x>> \o p) = Len(p) + 1 /\ Foot(<<x>> \o p) = Foot(p)
  BY LineBefore
<1>2. Len(<<y>> \o q) = Len(q) + 1 /\ Foot(<<y>> \o q) = Foot(q)
  BY LineBefore
<1>3. Len(p) \in Nat /\ Len(q) \in Nat
  OBVIOUS
<1>4. CASE Len(p) < Len(q)
  <2>1. Len(p) + 1 < Len(q) + 1
    BY <1>3, <1>4
  <2> QED
    BY <1>1, <1>2, <2>1 DEF NoFurther
<1>5. CASE Len(p) = Len(q) /\ Foot(p) <= Foot(q)
  BY <1>1, <1>2, <1>5 DEF NoFurther
<1> QED
  BY <1>4, <1>5 DEF NoFurther

(* Breaking a word loses no letter of it, and no fragment is empty.         *)
LEMMA PartsKeep ==
    ASSUME NEW word \in Nat, NEW size \in Int, NEW width \in Int,
           NEW f, IsParts(f, word, size, width), NEW p \in 1..word
    PROVE  /\ f[p] \in Seq(LineSet) /\ Len(f[p]) >= 1 /\ Carried(f[p]) = p /\ Foot(f[p]) >= 1
           /\ LineHolds(p, size, width) => Len(f[p]) = 1 /\ Foot(f[p]) = p
<1>1. /\ f \in [0..word -> Seq(LineSet)] /\ f[0] = <<>>
      /\ \A n \in 1..word : f[n] = <<Opening(n, size, width)>> \o f[n - Taken(n, size, width)]
  BY DEF IsParts
<1> DEFINE Good(n) == Len(f[n]) >= 1 /\ Carried(f[n]) = n /\ Foot(f[n]) >= 1
           Q(m) == \A n \in 1..word : n <= m => Good(n)
           P == {m \in Nat : Q(m)}
<1>2. ASSUME NEW n \in 1..word
      PROVE  /\ Taken(n, size, width) \in 1..n /\ Opening(n, size, width) \in LineSet
             /\ Opening(n, size, width).letters = Taken(n, size, width)
             /\ Opening(n, size, width).shown >= 1
             /\ Taken(n, size, width) = n => Opening(n, size, width).shown = n
             /\ LineHolds(n, size, width) => Taken(n, size, width) = n
  <2>1. n \in Nat \ {0}
    OBVIOUS
  <2> QED
    BY <2>1, OpeningTakes
<1>3. Q(0)
  OBVIOUS
<1>4. ASSUME NEW m \in Nat, Q(m) PROVE Q(m + 1)
  <2> SUFFICES ASSUME NEW n \in 1..word, n = m + 1 PROVE Good(n)
    BY <1>4
  <2> DEFINE t == Taken(n, size, width)
             x == Opening(n, size, width)
             k == n - t
             r == f[k]
  <2>1. t \in 1..n /\ x \in LineSet /\ x.letters = t /\ x.shown >= 1
    BY <1>2
  <2>2. f[n] = <<x>> \o r
    BY <1>1
  <2>3. k \in 0..word /\ k <= m /\ k + t = n
    BY <2>1
  <2>4. r \in Seq(LineSet)
    BY <1>1, <2>3
  <2>5. CASE k = 0
    <3>1. r = <<>> /\ t = n
      <4> HIDE DEF t, k
      <4>1. t = n
        BY <2>1, <2>3, <2>5
      <4> QED
        BY <1>1, <2>5, <4>1
    <3> HIDE DEF t, x, r, k
    <3>2. Len(r) = 0
      BY <3>1
    <3>3. Len(f[n]) = 1 /\ Foot(f[n]) = x.shown
      <4>1. Len(<<x>> \o r) = Len(r) + 1 /\ Foot(<<x>> \o r) = x.shown
        BY <2>1, <2>4, <3>1, LineBefore
      <4> QED
        BY <2>2, <3>2, <4>1
    <3>4. Carried(f[n]) = x.letters + 0
      BY <2>1, <2>2, <2>4, <3>1, LettersCarried
    <3> QED
      BY <2>1, <3>1, <3>3, <3>4
  <2>6. CASE k # 0
    <3>0. k \in 1..word /\ k <= m
      <4> HIDE DEF k
      <4> QED
        BY <2>3, <2>6
    <3>2. Good(k)
      <4> HIDE DEF Good, k
      <4> QED
        BY <1>4, <3>0
    <3>3. Len(r) >= 1 /\ Carried(r) = k /\ Foot(r) >= 1
      BY <3>2
    <3>4. Len(r) \in Nat
      BY <2>4
    <3> HIDE DEF t, x, r, k
    <3>5. Len(f[n]) = Len(r) + 1 /\ Foot(f[n]) = Foot(r)
      BY <2>1, <2>2, <2>4, <3>3, LineBefore
    <3>6. <<x>> \in Seq(LineSet) /\ Carried(<<x>>) = x.letters
      BY <2>1, LettersCarried
    <3>7. Carried(f[n]) = x.letters + Carried(r)
      BY <2>2, <2>4, <3>6, LettersCarried
    <3> QED
      BY <2>1, <2>3, <3>3, <3>4, <3>5, <3>7
  <2> QED
    BY <2>5, <2>6
<1>5. \A m \in Nat : Q(m)
  <2> HIDE DEF Q
  <2>1. 0 \in P
    BY <1>3
  <2>2. \A m \in Nat : m \in P => m + 1 \in P
    BY <1>4
  <2> HIDE DEF P
  <2>3. Nat \subseteq P
    BY <2>1, <2>2, SetInduction
  <2> QED
    BY <2>3 DEF P
<1>6. Good(p)
  <2>1. Q(p) /\ p \in 1..p
    BY <1>5
  <2> HIDE DEF Good
  <2> QED
    BY <2>1
<1>7. f[p] \in Seq(LineSet)
  BY <1>1
<1>8. ASSUME LineHolds(p, size, width) PROVE Len(f[p]) = 1 /\ Foot(f[p]) = p
  <2> DEFINE x == Opening(p, size, width)
  <2>1. p \in 1..word
    OBVIOUS
  <2>2. Taken(p, size, width) = p /\ x \in LineSet /\ x.shown = p
    BY <1>2, <1>8, <2>1
  <2>3. f[p] = <<x>> \o <<>>
    <3>1. p - p = 0
      OBVIOUS
    <3> QED
      BY <1>1, <2>1, <2>2, <3>1
  <2> HIDE DEF x
  <2>4. <<>> \in Seq(LineSet) /\ Len(<<>>) = 0
    OBVIOUS
  <2>5. Len(<<x>> \o <<>>) = Len(<<>>) + 1 /\ Foot(<<x>> \o <<>>) = x.shown
    BY <2>2, <2>4, LineBefore
  <2> QED
    BY <2>2, <2>3, <2>4, <2>5
<1> HIDE DEF Q, P
<1> QED
  BY <1>6, <1>7, <1>8

(* The parts of a word hold its letters, and a word that fits is one part.   *)
LEMMA FragmentsKeep ==
    ASSUME NEW word \in Nat \ {0}, NEW size \in Int, NEW width \in Int
    PROVE  LET p == Fragments(word, size, width) IN
           /\ p \in Seq(LineSet) /\ Len(p) >= 1 /\ Carried(p) = word /\ Foot(p) >= 1
           /\ LineHolds(word, size, width) => Len(p) = 1 /\ Foot(p) = word
<1>1. PICK f : IsParts(f, word, size, width) /\ Fragments(word, size, width) = f[word]
  BY FragmentsUnfold
<1>2. word \in 1..word /\ word \in Nat
  OBVIOUS
<1> QED
  BY <1>1, <1>2, PartsKeep

(* No word needs more fragments in a smaller font, nor a fuller last one.   *)
LEMMA PartsShrink ==
    ASSUME NEW word \in Nat, NEW small \in Nat, NEW large \in Nat, small <= large,
           NEW width \in Int,
           NEW f, IsParts(f, word, small, width), NEW g, IsParts(g, word, large, width)
    PROVE  \A n \in 1..word : NoFurther(f[n], g[n])
<1> DEFINE Q(m) == \A p \in 1..word : p <= m => \A n \in 1..p : NoFurther(f[n], g[p])
           P == {m \in Nat : Q(m)}
<1>1. Q(0)
  OBVIOUS
<1>2. ASSUME NEW m \in Nat, Q(m) PROVE Q(m + 1)
  <2> SUFFICES ASSUME NEW p \in 1..word, p = m + 1, NEW n \in 1..p PROVE NoFurther(f[n], g[p])
    BY <1>2
  <2>0. /\ n \in 1..word /\ n \in Nat \ {0} /\ p \in Nat \ {0} /\ n <= p
        /\ small \in Int /\ large \in Int
    OBVIOUS
  <2>1. /\ f[n] \in Seq(LineSet) /\ Len(f[n]) >= 1 /\ Foot(f[n]) >= 1
        /\ LineHolds(n, small, width) => Len(f[n]) = 1 /\ Foot(f[n]) = n
    BY <2>0, PartsKeep
  <2>2. /\ g[p] \in Seq(LineSet) /\ Len(g[p]) >= 1 /\ Foot(g[p]) >= 1
        /\ LineHolds(p, large, width) => Len(g[p]) = 1 /\ Foot(g[p]) = p
    BY PartsKeep
  <2> DEFINE t == Taken(n, small, width)
             u == Taken(p, large, width)
  <2>3. /\ t \in 1..n /\ Opening(n, small, width) \in LineSet
        /\ t = n => Opening(n, small, width).shown = n
        /\ ~LineHolds(n, small, width) /\ n > 1 =>
                /\ t <= n - 1
                /\ \A k \in 1..(n - 1) : LineHolds(k + 1, small, width) => k <= t
    <3> HIDE DEF t
    <3> QED
      BY <2>0, OpeningTakes DEF t
  <2>4. /\ u \in 1..p /\ Opening(p, large, width) \in LineSet
        /\ u = p => Opening(p, large, width).shown = p
        /\ ~LineHolds(p, large, width) /\ p > 1 =>
                /\ u <= p - 1
                /\ u = 1 \/ LineHolds(u + 1, large, width)
    <3> HIDE DEF u
    <3> QED
      BY <2>0, OpeningTakes DEF u
  <2>5. f[n] = <<Opening(n, small, width)>> \o f[n - t] /\ f[0] = <<>>
        /\ g[p] = <<Opening(p, large, width)>> \o g[p - u] /\ g[0] = <<>>
    BY <2>0 DEF IsParts
  <2> HIDE DEF t, u
  <2>6. CASE t = n
    <3>1. Len(f[n]) = 1 /\ Foot(f[n]) = n
      <4>1. n - t = 0 /\ <<>> \in Seq(LineSet) /\ Len(<<>>) = 0
        BY <2>0, <2>6
      <4>2. Len(<<Opening(n, small, width)>> \o <<>>) = Len(<<>>) + 1
            /\ Foot(<<Opening(n, small, width)>> \o <<>>) = Opening(n, small, width).shown
        BY <2>3, <4>1, LineBefore
      <4>3. f[n] = <<Opening(n, small, width)>> \o <<>>
        BY <2>5, <4>1
      <4> QED
        BY <2>3, <2>6, <4>1, <4>2, <4>3
    <3>2. CASE u = p
      <4>1. p - u = 0 /\ <<>> \in Seq(LineSet) /\ Len(<<>>) = 0
        BY <2>0, <3>2
      <4>2. Len(<<Opening(p, large, width)>> \o <<>>) = Len(<<>>) + 1
            /\ Foot(<<Opening(p, large, width)>> \o <<>>) = Opening(p, large, width).shown
        BY <2>4, <4>1, LineBefore
      <4>4. g[p] = <<Opening(p, large, width)>> \o <<>>
        BY <2>5, <4>1
      <4>3. Len(g[p]) = 1 /\ Foot(g[p]) = p
        BY <2>4, <3>2, <4>1, <4>2, <4>4
      <4> QED
        BY <2>0, <3>1, <4>3 DEF NoFurther
    <3>3. CASE u # p
      <4>1. p - u \in 1..word
        BY <2>0, <2>4, <3>3
      <4>2. g[p - u] \in Seq(LineSet) /\ Len(g[p - u]) >= 1
        BY <4>1, PartsKeep
      <4>3. Len(<<Opening(p, large, width)>> \o g[p - u]) = Len(g[p - u]) + 1
        BY <2>4, <4>2, LineBefore
      <4>4. Len(g[p - u]) \in Nat
        BY <4>2
      <4>5. Len(g[p]) > 1
        BY <2>5, <4>2, <4>3, <4>4
      <4> QED
        BY <3>1, <4>5 DEF NoFurther
    <3> QED
      BY <3>2, <3>3
  <2>7. CASE t # n
    <3>1. n > 1 /\ ~LineHolds(n, small, width)
      <4>1. LineHolds(n, small, width) => Taken(n, small, width) = n
        BY <2>0, OpeningTakes
      <4>2. LineHolds(n, small, width) => t = n
        BY <4>1 DEF t
      <4> QED
        BY <2>0, <2>3, <2>7, <4>2
    <3>2. ~LineHolds(n, large, width)
      BY <2>0, <3>1, HoldsLess
    <3>3. ~LineHolds(p, large, width) /\ p > 1
      BY <2>0, <3>1, <3>2, HoldsLess
    <3>4. u <= p - 1 /\ (u = 1 \/ LineHolds(u + 1, large, width)) /\ t <= n - 1
      BY <2>3, <2>4, <3>1, <3>3
    <3>5. u <= t
      <4>1. CASE u = 1
        BY <2>3, <4>1
      <4>2. CASE u # 1
        <5>1. LineHolds(u + 1, large, width) /\ u + 1 \in Nat
          BY <2>4, <3>4, <4>2
        <5>2. u + 1 < n
          <6>1. ~(n <= u + 1)
            BY <2>0, <3>2, <5>1, HoldsLess
          <6> QED
            BY <2>0, <5>1, <6>1
        <5>3. u \in 1..(n - 1)
          BY <2>0, <2>4, <5>2
        <5>4. LineHolds(u + 1, small, width)
          BY <5>1, HoldsLess
        <5> QED
          BY <2>3, <3>1, <5>3, <5>4
      <4> QED
        BY <4>1, <4>2
    <3> DEFINE a == n - t
               b == p - u
    <3>6. a \in 1..b /\ b \in 1..word /\ b <= m /\ a \in 1..word
      BY <2>0, <2>3, <2>4, <3>4, <3>5
    <3>7. f[n] = <<Opening(n, small, width)>> \o f[a] /\ g[p] = <<Opening(p, large, width)>> \o g[b]
      BY <2>5
    <3> HIDE DEF a, b
    <3>8. NoFurther(f[a], g[b])
      BY <1>2, <3>6
    <3>9. f[a] \in Seq(LineSet) /\ Len(f[a]) >= 1
      BY <3>6, PartsKeep
    <3>10. g[b] \in Seq(LineSet) /\ Len(g[b]) >= 1
      BY <3>6, PartsKeep
    <3>11. NoFurther(<<Opening(n, small, width)>> \o f[a], <<Opening(p, large, width)>> \o g[b])
      BY <2>3, <2>4, <3>8, <3>9, <3>10, OneMoreLine
    <3> QED
      BY <3>7, <3>11
  <2> QED
    BY <2>6, <2>7
<1>3. \A m \in Nat : Q(m)
  <2> HIDE DEF Q
  <2>1. 0 \in P
    BY <1>1
  <2>2. \A m \in Nat : m \in P => m + 1 \in P
    BY <1>2
  <2> HIDE DEF P
  <2>3. Nat \subseteq P
    BY <2>1, <2>2, SetInduction
  <2> QED
    BY <2>3 DEF P
<1>4. ASSUME NEW n \in 1..word PROVE NoFurther(f[n], g[n])
  <2>1. n \in 1..n /\ n \in Nat /\ n <= n
    OBVIOUS
  <2>2. Q(n)
    <3> HIDE DEF Q
    <3> QED
      BY <1>3, <2>1
  <2> QED
    BY <2>1, <2>2
<1> QED
  BY <1>4

(* In a smaller font the parts of a word reach no further.                  *)
LEMMA FragmentsShrink ==
    ASSUME NEW word \in Nat \ {0}, NEW small \in Nat, NEW large \in Nat, small <= large,
           NEW width \in Int
    PROVE  NoFurther(Fragments(word, small, width), Fragments(word, large, width))
<1>3. word \in 1..word /\ word \in Nat /\ small \in Int /\ large \in Int
  OBVIOUS
<1>1. PICK f : IsParts(f, word, small, width) /\ Fragments(word, small, width) = f[word]
  BY <1>3, FragmentsUnfold
<1>2. PICK g : IsParts(g, word, large, width) /\ Fragments(word, large, width) = g[word]
  BY <1>3, FragmentsUnfold
<1>4. \A n \in 1..word : NoFurther(f[n], g[n])
  BY <1>1, <1>2, <1>3, PartsShrink
<1> QED
  BY <1>1, <1>2, <1>3, <1>4

(* The last line of a sequence of lines and those before it.                *)
LEMMA FrontAndLast ==
    ASSUME NEW p \in Seq(LineSet), Len(p) >= 1
    PROVE  /\ Front(p) \in Seq(LineSet) /\ Last(p) \in LineSet
           /\ Len(Front(p)) = Len(p) - 1 /\ Last(p).shown = Foot(p)
           /\ Append(Front(p), Last(p)) = p
<1> DEFINE R == LineSet
<1>1. p \in Seq(R)
  OBVIOUS
<1> HIDE DEF R
<1>2. Len(p) \in Nat /\ \A i \in 1..Len(p) : p[i] \in R
  BY <1>1
<1> DEFINE u == SubSeq(p, 1, Len(p) - 1)
           x == p[Len(p)]
<1>3. u \in Seq(R) /\ Len(u) = Len(p) - 1 /\ \A i \in 1..(Len(p) - 1) : u[i] = p[i]
  <2> DEFINE n == Len(p) - 1
  <2>1. n \in Nat /\ n <= Len(p) /\ \A i \in 1..n : i \in 1..Len(p) /\ p[i] \in R
    BY <1>2
  <2> HIDE DEF n
  <2>2. SubSeq(p, 1, n) = [i \in 1..n |-> p[i]]
    BY <1>1, <2>1
  <2>3. SubSeq(p, 1, n) \in Seq(R) /\ Len(SubSeq(p, 1, n)) = n
    BY <2>1, <2>2
  <2>4. \A i \in 1..n : SubSeq(p, 1, n)[i] = p[i]
    BY <2>2
  <2> QED
    BY <2>3, <2>4 DEF n
<1>4. x \in R /\ x = p[Len(p)]
  BY <1>2
<1>5. Front(p) = u /\ Last(p) = x /\ x.shown = Foot(p)
  BY DEF Front, Last, Foot
<1> HIDE DEF u, x
<1>6. /\ Append(u, x) \in Seq(R) /\ Len(Append(u, x)) = Len(u) + 1
      /\ \A i \in 1..Len(u) : Append(u, x)[i] = u[i]
      /\ Append(u, x)[Len(u) + 1] = x
  BY <1>3, <1>4
<1>7. ASSUME NEW i \in 1..Len(p) PROVE Append(u, x)[i] = p[i]
  <2>1. i \in 1..(Len(p) - 1) \/ i = Len(p)
    BY <1>2
  <2>2. Len(p) = Len(u) + 1 /\ 1..Len(u) = 1..(Len(p) - 1)
    BY <1>2, <1>3
  <2> QED
    BY <1>3, <1>4, <1>6, <2>1, <2>2
<1>8. Len(Append(u, x)) = Len(p)
  BY <1>2, <1>3, <1>6
<1>9. Append(u, x) = p
  BY <1>1, <1>6, <1>7, <1>8, SeqEqual
<1> QED
  BY <1>3, <1>4, <1>5, <1>9 DEF R

-----------------------------------------------------------------------------
(* Wrapping: the lines that are done, and the one that is being filled.     *)
WrapSet == [lines : Seq(LineSet), line : LineSet]

Unwrapped == [lines |-> <<>>, line |-> NoLine]

(* All the lines of a state; what a word is on lines of its own; and the    *)
(* step of _word_wrap.                                                      *)
Completed(s) == IF s.line = NoLine THEN s.lines ELSE Append(s.lines, s.line)

Pieces(word, size, width) ==
    IF Advance(word, size) > width THEN Fragments(word, size, width) ELSE <<Line(word, word)>>

Added(s, word, size, width) ==
    IF Advance(Joined(s.line, word).shown, size) <= width
    THEN [s EXCEPT !.line = Joined(s.line, word)]
    ELSE [lines |-> Completed(s) \o Front(Pieces(word, size, width)),
          line  |-> Last(Pieces(word, size, width))]

(* The pieces of a word carry it, reach as far as its fragments, and no     *)
(* further in a smaller font.                                               *)
LEMMA PiecesKeep ==
    ASSUME NEW word \in Nat \ {0}, NEW size \in Int, NEW width \in Int
    PROVE  LET p == Pieces(word, size, width)
               q == Fragments(word, size, width) IN
           /\ p \in Seq(LineSet) /\ Len(p) >= 1 /\ Carried(p) = word /\ Foot(p) >= 1
           /\ Len(p) = Len(q) /\ Foot(p) = Foot(q)
           /\ LineHolds(word, size, width) => Len(p) = 1 /\ Foot(p) = word
<1> DEFINE p == Pieces(word, size, width)
           q == Fragments(word, size, width)
<1>1. /\ q \in Seq(LineSet) /\ Len(q) >= 1 /\ Carried(q) = word /\ Foot(q) >= 1
      /\ LineHolds(word, size, width) => Len(q) = 1 /\ Foot(q) = word
  BY FragmentsKeep
<1>2. Advance(word, size) \in Int
  BY DEF Advance
<1>3. LineHolds(word, size, width) <=> ~(Advance(word, size) > width)
  BY <1>2 DEF LineHolds
<1>4. p = IF LineHolds(word, size, width) THEN <<Line(word, word)>> ELSE q
  BY <1>3 DEF Pieces
<1> HIDE DEF p, q
<1>5. CASE ~LineHolds(word, size, width)
  BY <1>1, <1>4, <1>5 DEF p, q
<1>6. CASE LineHolds(word, size, width)
  <2> DEFINE x == Line(word, word)
  <2>1. x \in LineSet /\ x.shown = word /\ x.letters = word
    BY DEF Line, LineSet
  <2> HIDE DEF x
  <2>2. p = <<x>>
    BY <1>4, <1>6 DEF x
  <2>3. <<x>> \in Seq(LineSet) /\ Carried(<<x>>) = word
    BY <2>1, LettersCarried
  <2>4. Len(<<x>>) = 1 /\ Foot(<<x>>) = word
    BY <2>1 DEF Foot
  <2> QED
    BY <1>1, <1>6, <2>2, <2>3, <2>4 DEF p, q
<1> QED
  BY <1>5, <1>6

(* What a word adds to the lines: nothing is lost, and either the last line *)
(* grows by it or its pieces follow.                                        *)
LEMMA AddedKeeps ==
    ASSUME NEW s \in WrapSet, NEW word \in Nat \ {0}, NEW size \in Int, NEW width \in Int
    PROVE  LET t == Added(s, word, size, width)
               p == Pieces(word, size, width)
               x == Joined(s.line, word).shown IN
           /\ t \in WrapSet /\ t.line.shown >= 1
           /\ x = s.line.shown + word + (IF s.line.shown = 0 THEN 0 ELSE 1)
           /\ Completed(s) \in Seq(LineSet) /\ Completed(t) \in Seq(LineSet)
           /\ s.line.shown >= 1 => Len(Completed(s)) >= 1 /\ Foot(Completed(s)) = s.line.shown
           /\ (s.line = NoLine \/ s.line.shown >= 1) =>
                Carried(Completed(t)) = Carried(Completed(s)) + word
           /\ LineHolds(x, size, width) => /\ Len(Completed(t)) = Len(s.lines) + 1
                                           /\ Foot(Completed(t)) = x
           /\ ~LineHolds(x, size, width) => /\ Len(Completed(t)) = Len(Completed(s)) + Len(p)
                                            /\ Foot(Completed(t)) = Foot(p)
<1> DEFINE t == Added(s, word, size, width)
           p == Pieces(word, size, width)
           j == Joined(s.line, word)
           d == Completed(s)
           R == LineSet
<1>1. s.lines \in Seq(R) /\ s.line \in R /\ s = [lines |-> s.lines, line |-> s.line]
  BY DEF WrapSet
<1>2. s.line.shown \in Nat /\ s.line.letters \in Nat
  BY <1>1 DEF LineSet
<1>3. /\ j \in R /\ j.letters = s.line.letters + word
      /\ j.shown = s.line.shown + word + (IF s.line.shown = 0 THEN 0 ELSE 1) /\ j.shown >= 1
  BY <1>2 DEF Joined, Line, LineSet
<1>4. NoLine \in R /\ NoLine.shown = 0 /\ NoLine.letters = 0
  BY DEF NoLine, Line, LineSet
<1>5. /\ p \in Seq(R) /\ Len(p) >= 1 /\ Carried(p) = word /\ Foot(p) >= 1
  BY PiecesKeep
<1>6. t = IF LineHolds(j.shown, size, width) THEN [s EXCEPT !.line = j]
          ELSE [lines |-> d \o Front(p), line |-> Last(p)]
  BY DEF Added, LineHolds
<1>7. d = IF s.line = NoLine THEN s.lines ELSE Append(s.lines, s.line)
  BY DEF Completed
<1> HIDE DEF t, p, j, d
<1>8. /\ Front(p) \in Seq(R) /\ Last(p) \in R /\ Len(Front(p)) = Len(p) - 1
      /\ Last(p).shown = Foot(p) /\ Append(Front(p), Last(p)) = p
  BY <1>5, FrontAndLast
<1>9. \A y \in WrapSet : y.line.shown >= 1 => Completed(y) = Append(y.lines, y.line)
  BY <1>4 DEF Completed
<1> HIDE DEF R
<1>10. \A u \in Seq(R), y \in R : /\ Append(u, y) \in Seq(R) /\ Len(Append(u, y)) = Len(u) + 1
                                  /\ Foot(Append(u, y)) = y.shown
  <2> SUFFICES ASSUME NEW u \in Seq(R), NEW y \in R
               PROVE  /\ Append(u, y) \in Seq(R) /\ Len(Append(u, y)) = Len(u) + 1
                      /\ Foot(Append(u, y)) = y.shown
    OBVIOUS
  <2>1. /\ Append(u, y) \in Seq(R) /\ Len(Append(u, y)) = Len(u) + 1
        /\ Append(u, y)[Len(u) + 1] = y
    OBVIOUS
  <2> QED
    BY <2>1 DEF Foot
<1>11. d \in Seq(R)
  BY <1>1, <1>7, <1>10
<1>12. s.line.shown >= 1 => Len(d) >= 1 /\ Foot(d) = s.line.shown
  <2> SUFFICES ASSUME s.line.shown >= 1 PROVE Len(d) >= 1 /\ Foot(d) = s.line.shown
    OBVIOUS
  <2>1. d = Append(s.lines, s.line)
    BY <1>4, <1>7
  <2>2. Len(s.lines) \in Nat
    BY <1>1
  <2>3. Len(d) = Len(s.lines) + 1 /\ Foot(d) = s.line.shown
    BY <1>1, <1>10, <2>1
  <2> QED
    BY <2>2, <2>3
<1>13. (s.line = NoLine \/ s.line.shown >= 1) => Carried(d) = Carried(s.lines) + s.line.letters
  <2>1. Carried(s.lines) \in Int
    BY <1>1, LettersCarried DEF R
  <2>2. CASE s.line = NoLine
    BY <1>4, <1>7, <2>1, <2>2
  <2>3. CASE s.line # NoLine
    BY <1>1, <1>7, <2>3, LettersCarried DEF R
  <2> QED
    BY <2>2, <2>3
<1>14. CASE LineHolds(j.shown, size, width)
  <2>1. t = [lines |-> s.lines, line |-> j]
    BY <1>1, <1>6, <1>14
  <2>2. t \in WrapSet /\ t.line = j /\ t.lines = s.lines
    BY <1>1, <1>3, <2>1 DEF WrapSet, R
  <2>3. Completed(t) = Append(s.lines, j)
    BY <1>3, <1>9, <2>2
  <2>4. Len(Completed(t)) = Len(s.lines) + 1 /\ Foot(Completed(t)) = j.shown
    BY <1>1, <1>3, <1>10, <2>3
  <2>5. Carried(Completed(t)) = Carried(s.lines) + j.letters
    BY <1>1, <1>3, <2>3, LettersCarried DEF R
  <2>6. Carried(s.lines) \in Int
    BY <1>1, LettersCarried DEF R
  <2>7. Completed(t) \in Seq(R)
    BY <1>1, <1>3, <1>10, <2>3
  <2>8. (s.line = NoLine \/ s.line.shown >= 1) => Carried(Completed(t)) = Carried(d) + word
    BY <1>2, <1>3, <1>13, <2>5, <2>6
  <2> QED
    BY <1>3, <1>11, <1>12, <1>14, <2>2, <2>4, <2>7, <2>8 DEF t, p, j, d, R
<1>15. CASE ~LineHolds(j.shown, size, width)
  <2>1. t = [lines |-> d \o Front(p), line |-> Last(p)]
    BY <1>6, <1>15
  <2>2. d \o Front(p) \in Seq(R) /\ Len(d \o Front(p)) = Len(d) + Len(Front(p))
    BY <1>8, <1>11, Joining
  <2>3. t \in WrapSet /\ t.line = Last(p) /\ t.lines = d \o Front(p)
    BY <1>8, <2>1, <2>2 DEF WrapSet, R
  <2>4. t.line.shown >= 1
    BY <1>5, <1>8, <2>3
  <2>5. Completed(t) = Append(d \o Front(p), Last(p))
    BY <1>9, <2>3, <2>4
  <2>6. Len(Completed(t)) = Len(d) + Len(p) /\ Foot(Completed(t)) = Foot(p)
    <3>1. /\ Len(Completed(t)) = Len(d \o Front(p)) + 1
          /\ Foot(Completed(t)) = Last(p).shown
      BY <1>8, <1>10, <2>2, <2>5
    <3>2. Len(d) \in Nat /\ Len(p) \in Nat
      BY <1>5, <1>11
    <3> QED
      BY <1>8, <2>2, <3>1, <3>2
  <2>7. Carried(Completed(t)) = Carried(d) + word
    <3>1. Carried(Completed(t)) = Carried(d \o Front(p)) + Last(p).letters
      BY <1>8, <2>2, <2>5, LettersCarried DEF R
    <3>2. Carried(d \o Front(p)) = Carried(d) + Carried(Front(p))
      BY <1>8, <1>11, LettersCarried DEF R
    <3>3. Carried(p) = Carried(Front(p)) + Last(p).letters
      BY <1>8, LettersCarried DEF R
    <3>4. Carried(d) \in Int /\ Carried(Front(p)) \in Int
      BY <1>8, <1>11, LettersCarried DEF R
    <3>5. Last(p).letters \in Int
      BY <1>8 DEF R, LineSet
    <3> QED
      BY <1>5, <3>1, <3>2, <3>3, <3>4, <3>5
  <2>8. Completed(t) \in Seq(R)
    BY <1>8, <1>10, <2>2, <2>5
  <2> QED
    BY <1>3, <1>11, <1>12, <1>15, <2>3, <2>4, <2>6, <2>7, <2>8 DEF t, p, j, d, R
<1> QED
  BY <1>14, <1>15

(* The states of wrapping words.                                            *)
IsWrap(f, words, size, width) ==
    /\ f \in [0..Len(words) -> WrapSet] /\ f[0] = Unwrapped
    /\ \A k \in 1..Len(words) : f[k] = Added(f[k - 1], words[k], size, width)

(* _word_wrap is its steps.                                                 *)
LEMMA WrapUnfold ==
    ASSUME NEW words \in Seq(Nat \ {0}), NEW size \in Int, NEW width \in Int
    PROVE  \E f : /\ IsWrap(f, words, size, width)
                  /\ WordWrap(words, size, width) = Completed(f[Len(words)])
<1> DEFINE n == Len(words)
           add(s, word) ==
                IF Advance(Joined(s.line, word).shown, size) <= width
                THEN [s EXCEPT !.line = Joined(s.line, word)]
                ELSE LET done  == IF s.line = NoLine THEN s.lines ELSE Append(s.lines, s.line)
                         parts == IF Advance(word, size) > width THEN Fragments(word, size, width)
                                                                 ELSE <<Line(word, word)>>
                     IN  [lines |-> done \o Front(parts), line |-> Last(parts)]
           body(g, i) == IF i = 0 THEN [lines |-> <<>>, line |-> NoLine]
                         ELSE add(g[i - 1], words[i])
           after[i \in 0..Len(words)] == body(after, i)
           A == WrapSet
           D == [k \in 1..n |-> [s \in A |-> Added(s, words[k], size, width)]]
<1>1. WordWrap(words, size, width) = Completed(after[Len(words)])
  BY DEF WordWrap, Completed
<1>2. \A g : \A k \in 1..n : body(g, k) = Added(g[k - 1], words[k], size, width)
  <2> SUFFICES ASSUME NEW g, NEW k \in 1..n
               PROVE  body(g, k) = Added(g[k - 1], words[k], size, width)
    OBVIOUS
  <2>1. k # 0
    OBVIOUS
  <2>2. body(g, k) = add(g[k - 1], words[k])
    BY <2>1
  <2> DEFINE s == g[k - 1]
             w == words[k]
  <2> HIDE DEF s, w, body
  <2>3. add(s, w) = Added(s, w, size, width)
    BY DEF Added, Pieces, Completed
  <2> QED
    BY <2>2, <2>3 DEF s, w
<1>3. \A g : body(g, 0) = Unwrapped
  BY DEF Unwrapped
<1> HIDE DEF body
<1>4. n \in Nat /\ \A k \in 1..n : words[k] \in Nat \ {0}
  OBVIOUS
<1>5. D \in [1..n -> [A -> A]]
  BY <1>4, AddedKeeps
<1>6. Unwrapped \in A
  <2> DEFINE R == LineSet
  <2>1. NoLine \in R
    BY DEF NoLine, Line, LineSet
  <2> HIDE DEF R
  <2>2. <<>> \in Seq(R)
    OBVIOUS
  <2> QED
    BY <2>1, <2>2 DEF Unwrapped, WrapSet, R
<1>7. \A k \in 1..n, s \in A : D[k][s] = Added(s, words[k], size, width)
  OBVIOUS
<1>8. after = CHOOSE g : g = [i \in 0..n |-> body(g, i)]
  OBVIOUS
<1> HIDE DEF D, A, n, after
<1>9. PICK f : AreStages(f, n, A, Unwrapped, D)
  BY <1>4, <1>5, <1>6, StagesExist
<1>10. f \in [0..n -> A] /\ f[0] = Unwrapped /\ \A k \in 1..n : f[k] = D[k][f[k - 1]]
  BY <1>9 DEF AreStages
<1>11. \A k \in 1..n : k - 1 \in 0..n /\ k \in 0..n
  BY <1>4
<1>12. \A k \in 1..n : f[k] = Added(f[k - 1], words[k], size, width)
  BY <1>7, <1>10, <1>11
<1>13. f = [i \in 0..n |-> body(f, i)]
  <2>1. \A i \in 0..n : i = 0 \/ i \in 1..n
    BY <1>4
  <2>2. \A i \in 0..n : f[i] = body(f, i)
    BY <1>2, <1>3, <1>10, <1>12, <2>1
  <2> QED
    BY <1>10, <2>2
<1>14. after = [i \in 0..n |-> body(after, i)]
  BY <1>8, <1>13
<1>15. DOMAIN after = 0..n /\ after[0] = Unwrapped
  <2>1. 0 \in 0..n
    BY <1>4
  <2> QED
    BY <1>3, <1>14, <2>1
<1>16. \A k \in 1..n : after[k - 1] \in A => after[k] = D[k][after[k - 1]]
  <2>1. \A i \in 0..n : after[i] = body(after, i)
    BY <1>14
  <2>2. ASSUME NEW k \in 1..n, after[k - 1] \in A PROVE after[k] = D[k][after[k - 1]]
    <3>1. after[k] = body(after, k)
      BY <1>11, <2>1
    <3>2. body(after, k) = Added(after[k - 1], words[k], size, width)
      BY <1>2
    <3>3. D[k][after[k - 1]] = Added(after[k - 1], words[k], size, width)
      BY <1>7, <2>2
    <3> QED
      BY <3>1, <3>2, <3>3
  <2> QED
    BY <2>2
<1>17. \A k \in 0..n : after[k] = f[k]
  <2>1. TakesSteps(after, n, A, Unwrapped, D)
    BY <1>15, <1>16 DEF TakesSteps
  <2>2. AreStages(f, n, A, Unwrapped, D)
    BY <1>9
  <2>3. StepsWithin(n, A, Unwrapped, D)
    BY <1>4, <1>5, <1>6 DEF StepsWithin
  <2>4. IsTheOnly(f, n, A, Unwrapped, D)
    BY <2>2, <2>3, StagesAreUnique
  <2> QED
    BY <2>1, <2>4 DEF IsTheOnly
<1>18. IsWrap(f, words, size, width)
  BY <1>10, <1>12 DEF IsWrap, n, A
<1>19. WordWrap(words, size, width) = Completed(f[n])
  <2>1. n \in 0..n
    BY <1>4
  <2> QED
    BY <1>1, <1>17, <2>1 DEF n
<1> QED
  BY <1>18, <1>19 DEF n

(* The lines of a text carry its letters and have none that is empty.       *)
LEMMA WrapKeeps ==
    ASSUME NEW words \in Seq(Nat \ {0}), NEW size \in Int, NEW width \in Int
    PROVE  /\ WordWrap(words, size, width) \in Seq(LineSet)
           /\ Carried(WordWrap(words, size, width)) = Total(words)
<1>1. PICK f : /\ IsWrap(f, words, size, width)
               /\ WordWrap(words, size, width) = Completed(f[Len(words)])
  BY WrapUnfold
<1> DEFINE n == Len(words)
           r == Running(words)
<1>2. n \in Nat /\ (\A k \in 1..n : words[k] \in Nat \ {0}) /\ words \in Seq(Int)
  OBVIOUS
<1>3. /\ f \in [0..n -> WrapSet] /\ f[0] = Unwrapped
      /\ \A k \in 1..n : f[k] = Added(f[k - 1], words[k], size, width)
  BY <1>1 DEF IsWrap
<1>4. /\ Total(words) = r[n] /\ r[0] = 0
      /\ \A k \in 1..n : r[k] = r[k - 1] + words[k]
  BY <1>2, RunningTotals
<1> HIDE DEF n, r
<1> DEFINE Good(k) == /\ f[k].line = NoLine \/ f[k].line.shown >= 1
                      /\ Completed(f[k]) \in Seq(LineSet)
                      /\ Carried(Completed(f[k])) = r[k]
           Q(m) == m <= n => Good(m)
           P == {m \in Nat : Q(m)}
<1>5. Q(0)
  <2>1. Unwrapped.line = NoLine /\ Completed(Unwrapped) = <<>>
    BY DEF Unwrapped, Completed
  <2>2. Carried(<<>>) = 0
    BY LettersCarried
  <2>3. <<>> \in Seq(LineSet)
    OBVIOUS
  <2> QED
    BY <1>3, <1>4, <2>1, <2>2, <2>3
<1>6. ASSUME NEW m \in Nat, Q(m) PROVE Q(m + 1)
  <2> SUFFICES ASSUME m + 1 <= n PROVE Good(m + 1)
    OBVIOUS
  <2> DEFINE s == f[m]
             w == words[m + 1]
             t == Added(s, w, size, width)
  <2>1. m <= n /\ m + 1 \in 1..n /\ (m + 1) - 1 = m /\ m \in 0..n
    BY <1>2
  <2>2. Good(m)
    BY <1>6, <2>1
  <2>3. f[m + 1] = t /\ r[m + 1] = r[m] + w
    BY <1>3, <1>4, <2>1
  <2>4. s \in WrapSet /\ w \in Nat \ {0}
    BY <1>2, <1>3, <2>1
  <2>5. /\ s.line = NoLine \/ s.line.shown >= 1
        /\ Carried(Completed(s)) = r[m]
    BY <2>2
  <2> HIDE DEF s, w
  <2>6. /\ t.line.shown >= 1 /\ Completed(t) \in Seq(LineSet)
        /\ (s.line = NoLine \/ s.line.shown >= 1) =>
                Carried(Completed(t)) = Carried(Completed(s)) + w
    BY <2>4, AddedKeeps
  <2> HIDE DEF t
  <2> QED
    BY <2>3, <2>5, <2>6
<1>7. \A m \in Nat : Q(m)
  <2> HIDE DEF Q
  <2>1. 0 \in P
    BY <1>5
  <2>2. \A m \in Nat : m \in P => m + 1 \in P
    BY <1>6
  <2> HIDE DEF P
  <2>3. Nat \subseteq P
    BY <2>1, <2>2, SetInduction
  <2> QED
    BY <2>3 DEF P
<1>8. Good(n)
  <2>1. Q(n) /\ n <= n
    <3> HIDE DEF Q
    <3>1. n <= n
      BY <1>2
    <3> QED
      BY <1>2, <1>7, <3>1
  <2> HIDE DEF Good
  <2> QED
    BY <2>1
<1> QED
  BY <1>1, <1>4, <1>8 DEF n

(* One more word, in a smaller and in a larger font.                        *)
LEMMA AddedShrinks ==
    ASSUME NEW s \in WrapSet, NEW t \in WrapSet, NEW word \in Nat \ {0},
           NEW small \in Nat, NEW large \in Nat, small <= large, NEW width \in Int,
           \/ s = Unwrapped /\ t = Unwrapped
           \/ /\ s.line.shown >= 1 /\ t.line.shown >= 1
              /\ NoFurther(Completed(s), Completed(t))
    PROVE  NoFurther(Completed(Added(s, word, small, width)),
                     Completed(Added(t, word, large, width)))
<1> DEFINE u == Added(s, word, small, width)
           v == Added(t, word, large, width)
           p == Pieces(word, small, width)
           q == Pieces(word, large, width)
           x == Joined(s.line, word).shown
           y == Joined(t.line, word).shown
<1>1. small \in Int /\ large \in Int
  OBVIOUS
<1>2. /\ x = s.line.shown + word + (IF s.line.shown = 0 THEN 0 ELSE 1)
      /\ Completed(s) \in Seq(LineSet) /\ Completed(u) \in Seq(LineSet)
      /\ s.line.shown >= 1 => Len(Completed(s)) >= 1 /\ Foot(Completed(s)) = s.line.shown
      /\ LineHolds(x, small, width) => /\ Len(Completed(u)) = Len(s.lines) + 1
                                       /\ Foot(Completed(u)) = x
      /\ ~LineHolds(x, small, width) => /\ Len(Completed(u)) = Len(Completed(s)) + Len(p)
                                        /\ Foot(Completed(u)) = Foot(p)
  BY <1>1, AddedKeeps
<1>3. /\ y = t.line.shown + word + (IF t.line.shown = 0 THEN 0 ELSE 1)
      /\ Completed(t) \in Seq(LineSet) /\ Completed(v) \in Seq(LineSet)
      /\ t.line.shown >= 1 => Len(Completed(t)) >= 1 /\ Foot(Completed(t)) = t.line.shown
      /\ LineHolds(y, large, width) => /\ Len(Completed(v)) = Len(t.lines) + 1
                                       /\ Foot(Completed(v)) = y
      /\ ~LineHolds(y, large, width) => /\ Len(Completed(v)) = Len(Completed(t)) + Len(q)
                                        /\ Foot(Completed(v)) = Foot(q)
  BY <1>1, AddedKeeps
<1>4. /\ p \in Seq(LineSet) /\ Len(p) >= 1 /\ Foot(p) >= 1
      /\ Len(p) = Len(Fragments(word, small, width)) /\ Foot(p) = Foot(Fragments(word, small, width))
      /\ LineHolds(word, small, width) => Len(p) = 1 /\ Foot(p) = word
  BY <1>1, PiecesKeep
<1>5. /\ q \in Seq(LineSet) /\ Len(q) >= 1 /\ Foot(q) >= 1
      /\ Len(q) = Len(Fragments(word, large, width)) /\ Foot(q) = Foot(Fragments(word, large, width))
      /\ LineHolds(word, large, width) => Len(q) = 1 /\ Foot(q) = word
  BY <1>1, PiecesKeep
<1>6. NoFurther(p, q)
  <2>1. NoFurther(Fragments(word, small, width), Fragments(word, large, width))
    BY FragmentsShrink
  <2> QED
    BY <1>4, <1>5, <2>1 DEF NoFurther
<1>7. s.lines \in Seq(LineSet) /\ t.lines \in Seq(LineSet) /\ s.line \in LineSet /\ t.line \in LineSet
  BY DEF WrapSet
<1>8. s.line.shown \in Nat /\ t.line.shown \in Nat
  BY <1>7 DEF LineSet
<1>9. Len(p) \in Nat /\ Len(q) \in Nat /\ Len(s.lines) \in Nat /\ Len(t.lines) \in Nat
  BY <1>4, <1>5, <1>7
<1>10. Len(Completed(s)) \in Nat /\ Len(Completed(t)) \in Nat
  BY <1>2, <1>3
<1>11. /\ \A a, b \in Nat : a <= b /\ LineHolds(b, large, width) => LineHolds(a, large, width)
       /\ \A a \in Nat : LineHolds(a, large, width) => LineHolds(a, small, width)
  BY HoldsLess
<1>12. Foot(p) \in Nat /\ Foot(q) \in Nat
  <2> DEFINE R == LineSet
  <2>0. \A z \in R : z.shown \in Nat
    BY DEF LineSet
  <2> HIDE DEF R
  <2>1. \A z \in Seq(R) : Len(z) >= 1 => z[Len(z)] \in R
    OBVIOUS
  <2> HIDE DEF p, q
  <2> QED
    BY <1>4, <1>5, <2>0, <2>1 DEF Foot, R
<1>13. CASE s = Unwrapped /\ t = Unwrapped
  <2>1. /\ s.line.shown = 0 /\ t.line.shown = 0 /\ s.lines = <<>> /\ t.lines = <<>>
        /\ Completed(s) = <<>> /\ Completed(t) = <<>>
    BY <1>13 DEF Unwrapped, NoLine, Line, Completed
  <2>2. x = word /\ y = word
    BY <1>2, <1>3, <2>1
  <2>3. Len(s.lines) = 0 /\ Len(t.lines) = 0 /\ Len(Completed(s)) = 0 /\ Len(Completed(t)) = 0
    BY <2>1
  <2> HIDE DEF u, v, p, q, x, y
  <2>4. Len(Completed(u)) = Len(p) /\ Foot(Completed(u)) = Foot(p)
    BY <1>2, <1>4, <1>9, <2>2, <2>3
  <2>5. Len(Completed(v)) = Len(q) /\ Foot(Completed(v)) = Foot(q)
    BY <1>3, <1>5, <1>9, <2>2, <2>3
  <2>6. NoFurther(Completed(u), Completed(v))
    BY <1>6, <2>4, <2>5 DEF NoFurther
  <2> QED
    BY <2>6 DEF u, v
<1>14. CASE /\ s.line.shown >= 1 /\ t.line.shown >= 1
            /\ NoFurther(Completed(s), Completed(t))
  <2> DEFINE m == Len(Completed(s))
             n == Len(Completed(t))
             a == s.line.shown
             b == t.line.shown
  <2>1. m < n \/ (m = n /\ a <= b)
    BY <1>2, <1>3, <1>14 DEF NoFurther
  <2>2. x = a + word + 1 /\ y = b + word + 1 /\ a >= 1 /\ b >= 1 /\ a \in Nat /\ b \in Nat
    BY <1>2, <1>3, <1>8, <1>14
  <2>3. Len(s.lines) + 1 = m /\ Len(t.lines) + 1 = n /\ m \in Nat /\ n \in Nat
    <3>1. s.line # NoLine /\ t.line # NoLine
      BY <1>14 DEF NoLine, Line
    <3> DEFINE R == LineSet
    <3> HIDE DEF R
    <3>2. \A z \in Seq(R), e \in R : Len(Append(z, e)) = Len(z) + 1
      OBVIOUS
    <3> QED
      BY <1>7, <1>10, <3>1, <3>2 DEF Completed, R
  <2> HIDE DEF u, v, p, q, x, y, m, n, a, b
  <2>4. CASE LineHolds(y, large, width)
    <3>1. Len(Completed(v)) = n /\ Foot(Completed(v)) = y
      BY <1>3, <2>3, <2>4
    <3>2. CASE LineHolds(x, small, width)
      <4>1. Len(Completed(u)) = m /\ Foot(Completed(u)) = x
        BY <1>2, <2>3, <3>2
      <4>2. m < n \/ (m = n /\ x <= y)
        BY <2>1, <2>2
      <4> QED
        BY <3>1, <4>1, <4>2 DEF NoFurther, u, v
    <3>3. CASE ~LineHolds(x, small, width)
      <4>1. x \in Nat /\ y \in Nat /\ word <= y /\ (a <= b => x <= y)
        BY <2>2
      <4>2. ~(x <= y)
        BY <1>11, <2>4, <3>3, <4>1
      <4>3. m < n
        BY <2>1, <4>1, <4>2
      <4>4. LineHolds(word, small, width)
        BY <1>11, <2>4, <4>1
      <4>5. Len(p) = 1 /\ Foot(p) = word
        BY <1>4, <4>4
      <4>6. Len(Completed(u)) = m + 1 /\ Foot(Completed(u)) = word
        BY <1>2, <3>3, <4>5 DEF m
      <4>7. m + 1 < n \/ (m + 1 = n /\ word <= y)
        BY <2>3, <4>1, <4>3
      <4> QED
        BY <3>1, <4>6, <4>7 DEF NoFurther, u, v
    <3> QED
      BY <3>2, <3>3
  <2>5. CASE ~LineHolds(y, large, width)
    <3>1. Len(Completed(v)) = n + Len(q) /\ Foot(Completed(v)) = Foot(q)
      BY <1>3, <2>5 DEF n
    <3>2. CASE LineHolds(x, small, width)
      <4>1. Len(Completed(u)) = m
        BY <1>2, <2>3, <3>2
      <4>2. m < n + Len(q)
        BY <1>5, <1>9, <2>1, <2>3
      <4> QED
        BY <3>1, <4>1, <4>2 DEF NoFurther, u, v
    <3>3. CASE ~LineHolds(x, small, width)
      <4>1. Len(Completed(u)) = m + Len(p) /\ Foot(Completed(u)) = Foot(p)
        BY <1>2, <3>3 DEF m
      <4>2. Len(p) < Len(q) \/ (Len(p) = Len(q) /\ Foot(p) <= Foot(q))
        BY <1>6 DEF NoFurther
      <4>3. \/ m + Len(p) < n + Len(q)
            \/ m + Len(p) = n + Len(q) /\ Foot(p) <= Foot(q)
        BY <1>9, <1>12, <2>1, <2>3, <4>2
      <4> QED
        BY <3>1, <4>1, <4>3 DEF NoFurther, u, v
    <3> QED
      BY <3>2, <3>3
  <2> QED
    BY <2>4, <2>5
<1> QED
  BY <1>13, <1>14

(* No text has more lines in a smaller font.                                *)
LEMMA WrapShrinks ==
    ASSUME NEW words \in Seq(Nat \ {0}), NEW small \in Nat, NEW large \in Nat, small <= large,
           NEW width \in Int
    PROVE  Len(WordWrap(words, small, width)) <= Len(WordWrap(words, large, width))
<1>0. small \in Int /\ large \in Int
  OBVIOUS
<1>1. PICK f : /\ IsWrap(f, words, small, width)
               /\ WordWrap(words, small, width) = Completed(f[Len(words)])
  BY <1>0, WrapUnfold
<1>2. PICK g : /\ IsWrap(g, words, large, width)
               /\ WordWrap(words, large, width) = Completed(g[Len(words)])
  BY <1>0, WrapUnfold
<1> DEFINE n == Len(words)
<1>3. n \in Nat /\ \A k \in 1..n : words[k] \in Nat \ {0}
  OBVIOUS
<1>4. /\ f \in [0..n -> WrapSet] /\ f[0] = Unwrapped
      /\ \A k \in 1..n : f[k] = Added(f[k - 1], words[k], small, width)
  BY <1>1 DEF IsWrap
<1>5. /\ g \in [0..n -> WrapSet] /\ g[0] = Unwrapped
      /\ \A k \in 1..n : g[k] = Added(g[k - 1], words[k], large, width)
  BY <1>2 DEF IsWrap
<1> HIDE DEF n
<1> DEFINE Near(s, t) == \/ s = Unwrapped /\ t = Unwrapped
                         \/ /\ s.line.shown >= 1 /\ t.line.shown >= 1
                            /\ NoFurther(Completed(s), Completed(t))
           Q(m) == m <= n => Near(f[m], g[m])
           P == {m \in Nat : Q(m)}
<1>6. Q(0)
  BY <1>4, <1>5
<1>7. ASSUME NEW m \in Nat, Q(m) PROVE Q(m + 1)
  <2> SUFFICES ASSUME m + 1 <= n PROVE Near(f[m + 1], g[m + 1])
    OBVIOUS
  <2> DEFINE s == f[m]
             t == g[m]
             w == words[m + 1]
  <2>1. m <= n /\ m + 1 \in 1..n /\ (m + 1) - 1 = m /\ m \in 0..n
    BY <1>3
  <2>2. Near(s, t)
    BY <1>7, <2>1
  <2>3. f[m + 1] = Added(s, w, small, width) /\ g[m + 1] = Added(t, w, large, width)
    BY <1>4, <1>5, <2>1
  <2>4. s \in WrapSet /\ t \in WrapSet /\ w \in Nat \ {0}
    BY <1>3, <1>4, <1>5, <2>1
  <2> HIDE DEF s, w, t
  <2>5. NoFurther(Completed(Added(s, w, small, width)), Completed(Added(t, w, large, width)))
    BY <2>2, <2>4, AddedShrinks
  <2>6. Added(s, w, small, width).line.shown >= 1
    BY <1>0, <2>4, AddedKeeps
  <2>7. Added(t, w, large, width).line.shown >= 1
    BY <1>0, <2>4, AddedKeeps
  <2> QED
    BY <2>3, <2>5, <2>6, <2>7
<1>8. \A m \in Nat : Q(m)
  <2> HIDE DEF Q
  <2>1. 0 \in P
    BY <1>6
  <2>2. \A m \in Nat : m \in P => m + 1 \in P
    BY <1>7
  <2> HIDE DEF P
  <2>3. Nat \subseteq P
    BY <2>1, <2>2, SetInduction
  <2> QED
    BY <2>3 DEF P
<1>9. Near(f[n], g[n])
  <2>1. Q(n) /\ n <= n
    <3> HIDE DEF Q
    <3>1. n <= n
      BY <1>3
    <3> QED
      BY <1>3, <1>8, <3>1
  <2> HIDE DEF Near
  <2> QED
    BY <2>1
<1>10. Completed(f[n]) \in Seq(LineSet) /\ Completed(g[n]) \in Seq(LineSet)
  BY <1>0, <1>1, <1>2, WrapKeeps DEF n
<1>11. Len(Completed(f[n])) \in Nat /\ Len(Completed(g[n])) \in Nat
  BY <1>10
<1>12. Len(Completed(f[n])) <= Len(Completed(g[n]))
  BY <1>9, <1>11 DEF NoFurther
<1> QED
  BY <1>1, <1>2, <1>12 DEF n

(* What fits in a font fits in a smaller one.                               *)
LEMMA FittingShrinks ==
    ASSUME NEW words \in Seq(Nat \ {0}), NEW room, room.w \in Int, room.h \in Int,
           NEW small \in Nat, NEW large \in Nat, small <= large,
           HorizontalFits(words, room, large)
    PROVE  HorizontalFits(words, room, small)
<1> DEFINE a == Len(WordWrap(words, small, room.w))
           b == Len(WordWrap(words, large, room.w))
           c == LineHeight(small)
           d == LineHeight(large)
<1>1. a <= b
  BY WrapShrinks
<1>2. a \in Nat /\ b \in Nat
  <2>1. WordWrap(words, small, room.w) \in Seq(LineSet)
    <3>1. small \in Int
      OBVIOUS
    <3> QED
      BY <3>1, WrapKeeps
  <2>2. WordWrap(words, large, room.w) \in Seq(LineSet)
    <3>1. large \in Int
      OBVIOUS
    <3> QED
      BY <3>1, WrapKeeps
  <2> QED
    BY <2>1, <2>2
<1>3. c \in Nat /\ d \in Nat /\ c <= d
  BY DEF LineHeight
<1>4. b * d <= room.h /\ words # <<>>
  BY DEF HorizontalFits
<1> HIDE DEF a, b, c, d
<1>5. a * c <= b * c /\ a * c \in Nat
  BY <1>1, <1>2, <1>3, ProductGrows
<1>6. b * c <= b * d /\ b * c \in Nat
  BY <1>2, <1>3, ProductGrows
<1>7. b * d \in Nat
  BY <1>2, <1>3
<1>8. a * c <= room.h
  BY <1>4, <1>5, <1>6, <1>7
<1> QED
  BY <1>4, <1>8 DEF HorizontalFits, a, c

-----------------------------------------------------------------------------
(* The search for a font size.                                              *)

(* The states of the binary search; how many sizes it may still have to     *)
(* choose from after each halving.                                          *)
SearchSet == [lo : Int, hi : Int, best : Int]

SearchStep(fits, s) ==
    LET mid == (s.lo + s.hi) \div 2 IN
    IF fits[mid] THEN [lo |-> mid + 1, hi |-> s.hi, best |-> mid]
                 ELSE [s EXCEPT !.hi = mid - 1]

IsSearch(f, fits, low, high) ==
    /\ f \in [0..15 -> SearchSet] /\ f[0] = [lo |-> low, hi |-> high, best |-> low]
    /\ \A k \in 1..15 : f[k] = SearchStep(fits, f[k - 1])

SizesLeft == [k \in 0..15 |-> <<32767, 16383, 8191, 4095, 2047, 1023, 511, 255, 127, 63, 31, 15, 7,
                              3, 1, 0>>[k + 1]]

(* _largest_fitting_size as halvings: fifteen of them.                       *)
LEMMA SearchUnfold ==
    ASSUME NEW fits, NEW low \in Int, NEW high \in Int
    PROVE  \E f : IsSearch(f, fits, low, high) /\ Largest(fits, low, high) = f[15].best
<1> DEFINE body(g, n) ==
                IF n = 0 THEN [lo |-> low, hi |-> high, best |-> low]
                ELSE LET s == g[n - 1]  mid == (s.lo + s.hi) \div 2 IN
                     IF fits[mid] THEN [lo |-> mid + 1, hi |-> s.hi, best |-> mid]
                                  ELSE [s EXCEPT !.hi = mid - 1]
           search[n \in 0..15] == body(search, n)
           A == SearchSet
           n == 15
           base == [lo |-> low, hi |-> high, best |-> low]
           D == [k \in 1..n |-> [s \in A |-> SearchStep(fits, s)]]
<1>1. Largest(fits, low, high) = search[15].best
  BY DEF Largest
<1>2. \A g : \A k \in 1..n : body(g, k) = SearchStep(fits, g[k - 1])
  <2> SUFFICES ASSUME NEW g, NEW k \in 1..n PROVE body(g, k) = SearchStep(fits, g[k - 1])
    OBVIOUS
  <2>1. k # 0
    OBVIOUS
  <2> QED
    BY <2>1 DEF SearchStep
<1>3. \A g : body(g, 0) = base
  OBVIOUS
<1> HIDE DEF body
<1>4. n \in Nat /\ n = 15
  OBVIOUS
<1>5. \A s \in A : SearchStep(fits, s) \in A
  BY DEF SearchStep, SearchSet
<1>6. D \in [1..n -> [A -> A]]
  BY <1>5
<1>7. base \in A
  BY DEF SearchSet
<1>8. \A k \in 1..n, s \in A : D[k][s] = SearchStep(fits, s)
  OBVIOUS
<1>9. search = CHOOSE g : g = [i \in 0..n |-> body(g, i)]
  OBVIOUS
<1> HIDE DEF D, A, n, search, base
<1>10. PICK f : AreStages(f, n, A, base, D)
  BY <1>4, <1>6, <1>7, StagesExist
<1>11. f \in [0..n -> A] /\ f[0] = base /\ \A k \in 1..n : f[k] = D[k][f[k - 1]]
  BY <1>10 DEF AreStages
<1>12. \A k \in 1..n : k - 1 \in 0..n /\ k \in 0..n
  BY <1>4
<1>13. \A k \in 1..n : f[k] = SearchStep(fits, f[k - 1])
  BY <1>8, <1>11, <1>12
<1>14. f = [i \in 0..n |-> body(f, i)]
  <2>1. \A i \in 0..n : i = 0 \/ i \in 1..n
    BY <1>4
  <2>2. \A i \in 0..n : f[i] = body(f, i)
    BY <1>2, <1>3, <1>11, <1>13, <2>1
  <2> QED
    BY <1>11, <2>2
<1>15. search = [i \in 0..n |-> body(search, i)]
  BY <1>9, <1>14
<1>16. TakesSteps(search, n, A, base, D)
  <2>1. \A i \in 0..n : search[i] = body(search, i)
    BY <1>15
  <2>2. ASSUME NEW k \in 1..n, search[k - 1] \in A PROVE search[k] = D[k][search[k - 1]]
    <3>1. search[k] = body(search, k)
      BY <1>12, <2>1
    <3>2. body(search, k) = SearchStep(fits, search[k - 1])
      BY <1>2
    <3>3. D[k][search[k - 1]] = SearchStep(fits, search[k - 1])
      BY <1>8, <2>2
    <3> QED
      BY <3>1, <3>2, <3>3
  <2>3. 0 \in 0..n
    BY <1>4
  <2>4. DOMAIN search = 0..n /\ search[0] = base
    BY <1>3, <1>15, <2>1, <2>3
  <2> QED
    BY <2>2, <2>4 DEF TakesSteps
<1>17. \A k \in 0..n : search[k] = f[k]
  <2>1. StepsWithin(n, A, base, D)
    BY <1>4, <1>6, <1>7 DEF StepsWithin
  <2>2. AreStages(f, n, A, base, D)
    BY <1>10
  <2>3. IsTheOnly(f, n, A, base, D)
    BY <2>1, <2>2, StagesAreUnique
  <2> QED
    BY <1>16, <2>3 DEF IsTheOnly
<1>18. IsSearch(f, fits, low, high)
  BY <1>4, <1>11, <1>13 DEF IsSearch, A, base
<1>19. 15 \in 0..n
  BY <1>4
<1> QED
  BY <1>1, <1>17, <1>18, <1>19

(* Where less fits whenever more does, the search finds the largest that    *)
(* fits of low..high, or is below them all.                                 *)
LEMMA LargestFinds ==
    ASSUME NEW fits, NEW low \in Nat, low >= 2, NEW high \in Nat, high <= low + 32766,
           \A s, t \in Nat : s <= t /\ fits[t] => fits[s]
    PROVE  LET best == Largest(fits, low, high) IN
           /\ best \in Nat
           /\ \/ fits[best] /\ \A s \in (best + 1)..high : ~fits[s]
              \/ best = low /\ \A s \in low..high : ~fits[s]
<1>0. low \in Int /\ high \in Int
  OBVIOUS
<1>1. PICK f : IsSearch(f, fits, low, high) /\ Largest(fits, low, high) = f[15].best
  BY <1>0, SearchUnfold
<1> DEFINE b == IF high < low - 2 THEN high ELSE low - 2
<1>2. b \in Nat /\ b <= high /\ b <= low - 2
  OBVIOUS
<1>3. /\ f \in [0..15 -> SearchSet] /\ f[0] = [lo |-> low, hi |-> high, best |-> low]
      /\ \A k \in 1..15 : f[k] = SearchStep(fits, f[k - 1])
  BY <1>1 DEF IsSearch
<1>4. /\ SizesLeft[0] = 32767 /\ SizesLeft[15] = 0
      /\ \A k \in 0..14 : SizesLeft[k] \in Int /\ SizesLeft[k + 1] = SizesLeft[k] \div 2
  <2>1. \A k \in 0..15 : SizesLeft[k] =
            <<32767, 16383, 8191, 4095, 2047, 1023, 511, 255, 127, 63, 31, 15, 7, 3, 1, 0>>[k + 1]
    BY DEF SizesLeft
  <2>2. /\ SizesLeft[0] = 32767 /\ SizesLeft[1] = 16383 /\ SizesLeft[2] = 8191 /\ SizesLeft[3] = 4095
        /\ SizesLeft[4] = 2047 /\ SizesLeft[5] = 1023 /\ SizesLeft[6] = 511 /\ SizesLeft[7] = 255
        /\ SizesLeft[8] = 127 /\ SizesLeft[9] = 63 /\ SizesLeft[10] = 31 /\ SizesLeft[11] = 15
        /\ SizesLeft[12] = 7 /\ SizesLeft[13] = 3 /\ SizesLeft[14] = 1 /\ SizesLeft[15] = 0
    BY <2>1
  <2>3. \A k \in 0..14 : k \in {0, 1, 2, 3, 4, 5, 6, 7, 8, 9, 10, 11, 12, 13, 14}
    OBVIOUS
  <2> QED
    BY <2>2, <2>3
<1> HIDE DEF b
<1> DEFINE Good(s, left) ==
                /\ s.lo >= b + 1 /\ s.hi >= b /\ s.hi - s.lo + 1 <= left
                /\ (s.lo = low /\ s.best = low) \/ (s.best = s.lo - 1 /\ fits[s.best])
                /\ \A x \in (s.hi + 1)..high : ~fits[x]
           Q(m) == m <= 15 => Good(f[m], SizesLeft[m])
           P == {m \in Nat : Q(m)}
<1>5. Q(0)
  <2>1. f[0].lo = low /\ f[0].hi = high /\ f[0].best = low
    BY <1>3
  <2>2. low >= b + 1 /\ high >= b /\ high - low + 1 <= 32767
    BY <1>2
  <2>3. \A x \in (high + 1)..high : FALSE
    OBVIOUS
  <2> QED
    BY <1>4, <2>1, <2>2, <2>3
<1>6. ASSUME NEW m \in Nat, Q(m) PROVE Q(m + 1)
  <2> SUFFICES ASSUME m + 1 <= 15 PROVE Good(f[m + 1], SizesLeft[m + 1])
    OBVIOUS
  <2> DEFINE s == f[m]
             mid == (s.lo + s.hi) \div 2
             c == SizesLeft[m]
  <2>1. m <= 15 /\ m \in 0..14 /\ m \in 0..15 /\ m + 1 \in 1..15 /\ (m + 1) - 1 = m
    OBVIOUS
  <2>2. Good(s, c)
    BY <1>6, <2>1
  <2>3. f[m + 1] = SearchStep(fits, s)
    BY <1>3, <2>1
  <2>4. s \in SearchSet
    BY <1>3, <2>1
  <2>5. s.lo \in Int /\ s.hi \in Int /\ s.best \in Int
    BY <2>4 DEF SearchSet
  <2>6. c \in Int /\ SizesLeft[m + 1] = c \div 2
    BY <1>4, <2>1
  <2> HIDE DEF s, c
  <2>7. mid \in Int /\ s.lo + s.hi - 1 <= 2 * mid /\ 2 * mid <= s.lo + s.hi
    BY <2>5
  <2>8. \A d \in Int : d <= c => d \div 2 <= c \div 2
    BY <2>6
  <2>9. f[m + 1] = IF fits[mid] THEN [lo |-> mid + 1, hi |-> s.hi, best |-> mid]
                   ELSE [s EXCEPT !.hi = mid - 1]
    BY <2>3 DEF SearchStep
  <2> HIDE DEF mid
  <2>10. s.lo >= b + 1 /\ s.hi >= b /\ s.hi - s.lo + 1 <= c
    BY <2>2
  <2>11. mid >= b /\ mid \in Nat
    BY <1>2, <2>5, <2>7, <2>10
  <2> DEFINE d == s.hi - s.lo + 1
  <2>12. d \in Int /\ d \div 2 <= c \div 2
    BY <2>5, <2>8, <2>10
  <2>13. s.hi - mid <= d \div 2 /\ mid - s.lo <= d \div 2
    BY <2>5, <2>7
  <2>14. CASE fits[mid]
    <3>1. f[m + 1].lo = mid + 1 /\ f[m + 1].hi = s.hi /\ f[m + 1].best = mid
      BY <2>9, <2>14
    <3>2. s.hi - (mid + 1) + 1 <= c \div 2
      BY <2>5, <2>6, <2>7, <2>12, <2>13
    <3>3. mid + 1 >= b + 1 /\ (mid + 1) - 1 = mid
      BY <1>2, <2>7, <2>11
    <3>4. \A x \in (s.hi + 1)..high : ~fits[x]
      BY <2>2
    <3> QED
      BY <2>6, <2>10, <2>14, <3>1, <3>2, <3>3, <3>4
  <2>15. CASE ~fits[mid]
    <3>1. f[m + 1].lo = s.lo /\ f[m + 1].hi = mid - 1 /\ f[m + 1].best = s.best
      BY <2>4, <2>9, <2>15 DEF SearchSet
    <3>2. (mid - 1) - s.lo + 1 <= c \div 2
      BY <2>5, <2>6, <2>7, <2>12, <2>13
    <3>3. mid - 1 >= b
      <4>1. CASE s.lo = low /\ s.best = low
        BY <1>2, <2>5, <2>7, <2>10, <4>1
      <4>2. CASE s.best = s.lo - 1 /\ fits[s.best]
        <5>1. s.best \in Nat
          BY <1>2, <2>5, <2>10, <4>2
        <5>2. ~(mid <= s.best)
          BY <2>11, <2>15, <4>2, <5>1
        <5> QED
          BY <1>2, <2>5, <2>7, <2>10, <4>2, <5>2
      <4> QED
        BY <2>2, <4>1, <4>2
    <3>4. ASSUME NEW x \in ((mid - 1) + 1)..high PROVE ~fits[x]
      <4>1. x \in Nat /\ mid <= x
        BY <2>11
      <4> QED
        BY <2>11, <2>15, <4>1
    <3>5. (s.lo = low /\ s.best = low) \/ (s.best = s.lo - 1 /\ fits[s.best])
      BY <2>2
    <3> QED
      BY <2>6, <2>10, <3>1, <3>2, <3>3, <3>4, <3>5
  <2> QED
    BY <2>14, <2>15
<1>7. \A m \in Nat : Q(m)
  <2> HIDE DEF Q
  <2>1. 0 \in P
    BY <1>5
  <2>2. \A m \in Nat : m \in P => m + 1 \in P
    BY <1>6
  <2> HIDE DEF P
  <2>3. Nat \subseteq P
    BY <2>1, <2>2, SetInduction
  <2> QED
    BY <2>3 DEF P
<1>8. Good(f[15], 0)
  <2>1. Q(15) /\ 15 <= 15
    <3> HIDE DEF Q
    <3>1. 15 \in Nat
      OBVIOUS
    <3> QED
      BY <1>7, <3>1
  <2> HIDE DEF Good
  <2> QED
    BY <1>4, <2>1
<1> DEFINE t == f[15]
<1>9. t.lo \in Int /\ t.hi \in Int /\ t.best \in Int
  <2>1. 15 \in 0..15
    OBVIOUS
  <2>2. t \in SearchSet
    BY <1>3, <2>1
  <2> QED
    BY <2>2 DEF SearchSet
<1> HIDE DEF t
<1>10. /\ t.lo >= b + 1 /\ t.hi >= b /\ t.hi - t.lo + 1 <= 0
       /\ (t.lo = low /\ t.best = low) \/ (t.best = t.lo - 1 /\ fits[t.best])
       /\ \A x \in (t.hi + 1)..high : ~fits[x]
  BY <1>8 DEF t
<1>11. CASE t.lo = low /\ t.best = low
  <2>1. ASSUME NEW x \in low..high PROVE ~fits[x]
    <3>1. x \in (t.hi + 1)..high
      BY <1>9, <1>10, <1>11
    <3> QED
      BY <1>10, <3>1
  <2> QED
    BY <1>1, <1>11, <2>1 DEF t
<1>12. CASE t.best = t.lo - 1 /\ fits[t.best]
  <2>1. ASSUME NEW x \in (t.best + 1)..high PROVE ~fits[x]
    <3>1. x \in (t.hi + 1)..high
      BY <1>9, <1>10, <1>12
    <3> QED
      BY <1>10, <3>1
  <2>2. t.best \in Nat
    BY <1>2, <1>9, <1>10, <1>12
  <2> QED
    BY <1>1, <1>12, <2>1, <2>2 DEF t
<1> QED
  BY <1>10, <1>11, <1>12

(* A least element is the minimum.                                          *)
LEMMA MinIs ==
    ASSUME NEW S \in SUBSET Int, NEW x \in S, \A y \in S : x <= y
    PROVE  Min(S) = x
<1>1. \A y \in S : y \in Int
  OBVIOUS
<1>2. \E z \in S : \A y \in S : z <= y
  OBVIOUS
<1> DEFINE z == Min(S)
<1>3. z \in S /\ \A y \in S : z <= y
  BY <1>2 DEF Min
<1> HIDE DEF z
<1>4. z \in Int /\ x \in Int /\ z <= x /\ x <= z
  BY <1>1, <1>3
<1>5. z = x
  BY <1>4
<1> QED
  BY <1>5 DEF z

(* A total of naturals is one.                                              *)
LEMMA TotalIsNatural ==
    ASSUME NEW s \in Seq(Nat)
    PROVE  Total(s) \in Nat
<1> DEFINE n == Len(s)
           r == Running(s)
           Q(m) == m <= n => r[m] \in Nat
           P == {m \in Nat : Q(m)}
<1>1. s \in Seq(Int) /\ n \in Nat /\ \A k \in 1..n : s[k] \in Nat
  OBVIOUS
<1>2. /\ Total(s) = r[n] /\ r[0] = 0
      /\ \A i \in 1..n : r[i] = r[i - 1] + s[i]
  BY <1>1, RunningTotals
<1> HIDE DEF n, r
<1>3. Q(0)
  BY <1>2
<1>4. ASSUME NEW m \in Nat, Q(m) PROVE Q(m + 1)
  <2> SUFFICES ASSUME m + 1 <= n PROVE r[m + 1] \in Nat
    OBVIOUS
  <2>1. m <= n /\ m + 1 \in 1..n /\ (m + 1) - 1 = m
    BY <1>1
  <2>2. r[m + 1] = r[m] + s[m + 1] /\ s[m + 1] \in Nat
    BY <1>1, <1>2, <2>1
  <2> QED
    BY <1>4, <2>1, <2>2
<1>5. \A m \in Nat : Q(m)
  <2> HIDE DEF Q
  <2>1. 0 \in P
    BY <1>3
  <2>2. \A m \in Nat : m \in P => m + 1 \in P
    BY <1>4
  <2> HIDE DEF P
  <2>3. Nat \subseteq P
    BY <2>1, <2>2, SetInduction
  <2> QED
    BY <2>3 DEF P
<1>6. Q(n) /\ n <= n
  <2> HIDE DEF Q
  <2>1. n <= n
    BY <1>1
  <2> QED
    BY <1>1, <1>5, <2>1
<1> QED
  BY <1>2, <1>6

-----------------------------------------------------------------------------
(* English.                                                                 *)

(* The largest size the search for a text may choose. *)
LargestAllowed(room, target) ==
    Smaller(IF target = 0 THEN room.h ELSE Smaller(target, room.h), MaxFont)

(* The size of an English text is the largest that fits.                    *)
LEMMA EnglishSize ==
    ASSUME NEW words \in Seq(Nat \ {0}), NEW room, room.w \in Int, room.h \in Nat,
           NEW target \in Nat
    PROVE  LET size == HorizontalSize(words, room, target) IN
           /\ size \in Nat
           /\ \/ /\ HorizontalFits(words, room, size)
                 /\ \A s \in (size + 1)..LargestAllowed(room, target) : ~HorizontalFits(words, room, s)
              \/ /\ size = MinFont
                 /\ \A s \in MinFont..LargestAllowed(room, target) : ~HorizontalFits(words, room, s)
<1> DEFINE fits == [size \in Int |-> HorizontalFits(words, room, size)]
           high == LargestAllowed(room, target)
           best == Largest(fits, 10, high)
<1>1. HorizontalSize(words, room, target) = best
  BY DEF HorizontalSize, LargestAllowed, MinFont
<1>2. high \in Nat /\ high <= 60
  BY DEF LargestAllowed, Smaller, MaxFont
<1>3. \A s \in Int : fits[s] = HorizontalFits(words, room, s)
  OBVIOUS
<1> HIDE DEF fits, high
<1>4. ASSUME NEW s \in Nat, NEW t \in Nat, s <= t, fits[t] PROVE fits[s]
  <2>1. HorizontalFits(words, room, t) /\ room.h \in Int
    BY <1>3, <1>4
  <2>2. HorizontalFits(words, room, s)
    BY <1>4, <2>1, FittingShrinks
  <2> QED
    BY <1>3, <2>2
<1>5. /\ best \in Nat
      /\ \/ fits[best] /\ \A s \in (best + 1)..high : ~fits[s]
         \/ best = 10 /\ \A s \in 10..high : ~fits[s]
  <2>1. 10 \in Nat /\ 10 >= 2 /\ high <= 10 + 32766
    BY <1>2
  <2>2. \A s, t \in Nat : s <= t /\ fits[t] => fits[s]
    BY <1>4
  <2> QED
    BY <1>2, <2>1, <2>2, LargestFinds
<1> HIDE DEF best
<1>6. (\A s \in (best + 1)..high : s \in Int) /\ (\A s \in 10..high : s \in Int) /\ best \in Int
  BY <1>2, <1>5
<1> QED
  BY <1>1, <1>3, <1>5, <1>6 DEF high, MinFont

(* The size of a stack is a natural number.                                 *)
LEMMA StackSize ==
    ASSUME NEW letters \in Nat, NEW room, room.w \in Nat, room.h \in Nat
    PROVE  VerticalSize(letters, room) \in Nat
<1> DEFINE fits == [size \in Int |-> VerticalFits(letters, room, size)]
           high == Min({MaxFont, room.w, room.h})
           best == Largest(fits, 10, high)
<1>1. VerticalSize(letters, room) = best
  BY DEF VerticalSize, MinFont
<1>2. high \in Nat /\ high <= 60
  <2> DEFINE S == {MaxFont, room.w, room.h}
  <2>1. S \in SUBSET Int /\ \A y \in S : y \in Nat
    BY DEF MaxFont
  <2>2. \E x \in S : \A y \in S : x <= y
    BY <2>1
  <2>3. 60 \in S
    BY DEF MaxFont
  <2> HIDE DEF S
  <2>4. Min(S) \in S /\ \A y \in S : Min(S) <= y
    BY <2>2 DEF Min
  <2> QED
    BY <2>1, <2>3, <2>4 DEF S
<1>3. \A s \in Int : fits[s] = VerticalFits(letters, room, s)
  OBVIOUS
<1> HIDE DEF fits, high
<1>4. ASSUME NEW s \in Nat, NEW t \in Nat, s <= t, fits[t] PROVE fits[s]
  <2>1. VerticalFits(letters, room, t)
    BY <1>3, <1>4
  <2> DEFINE c == (11 * s) \div 10
             d == (11 * t) \div 10
  <2>2. c \in Nat /\ d \in Nat /\ c <= d
    BY <1>4
  <2>3. letters * d <= room.h /\ t <= room.w
    BY <2>1 DEF VerticalFits
  <2> HIDE DEF c, d
  <2>4. letters * c <= letters * d
    BY <2>2, ProductGrows
  <2>5. letters * c \in Nat /\ letters * d \in Nat
    BY <2>2
  <2>6. letters * c <= room.h /\ s <= room.w
    BY <1>4, <2>3, <2>4, <2>5
  <2>7. VerticalFits(letters, room, s)
    BY <2>6 DEF VerticalFits, c
  <2> QED
    BY <1>3, <2>7
<1>5. best \in Nat
  <2>1. 10 \in Nat /\ 10 >= 2 /\ high <= 10 + 32766
    BY <1>2
  <2>2. \A s, t \in Nat : s <= t /\ fits[t] => fits[s]
    BY <1>4
  <2> QED
    BY <1>2, <2>1, <2>2, LargestFinds
<1> QED
  BY <1>1, <1>5

(* A stack that fits shows all its letters.                                 *)
LEMMA StackShows ==
    ASSUME NEW words \in Seq(Nat \ {0}), NEW b \in BoxSet, ~TooSmall(Inner(b)),
           RenderStacked(words, b).status = "fit"
    PROVE  RenderStacked(words, b).shown = Total(words)
<1> DEFINE room == Inner(b)
           n == Total(words)
           size == VerticalSize(n, room)
           cell == (11 * size) \div 10
           top == b.y1 + Margin + Larger(0, (room.h - n * cell) \div 2)
           seen == {k \in 1..n : k = 1 \/ top + k * cell <= b.y2 - Margin}
<1>1. RenderStacked(words, b) = [size |-> size, lines |-> n, status |-> Fit(n * cell <= room.h),
                                 shown |-> Cardinality(seen)]
  BY DEF RenderStacked
<1>2. b.x1 \in Int /\ b.x2 \in Int /\ b.y1 \in Int /\ b.y2 \in Int
  BY DEF BoxSet
<1>3. /\ room.w = b.x2 - b.x1 - 4 /\ room.h = b.y2 - b.y1 - 4
      /\ room.w \in Nat /\ room.h \in Nat
  BY <1>2 DEF Inner, Width, Height, Margin, TooSmall
<1>4. n \in Nat
  <2>1. words \in Seq(Nat)
    OBVIOUS
  <2> QED
    BY <2>1, TotalIsNatural
<1>5. size \in Nat
  <2> HIDE DEF room, n
  <2> QED
    BY <1>3, <1>4, StackSize
<1>6. n * cell <= room.h
  BY <1>1 DEF Fit
<1>7. top = b.y1 + 2 + Larger(0, (room.h - n * cell) \div 2)
  BY DEF Margin
<1> HIDE DEF room, n, size
<1>8. cell \in Nat
  BY <1>5
<1> HIDE DEF cell, top
<1>9. n * cell \in Nat
  BY <1>4, <1>8
<1>10. top + n * cell <= b.y2 - 2 /\ top \in Int
  <2> DEFINE p == n * cell
             q == room.h - p
             r == Larger(0, q \div 2)
  <2>1. p \in Nat /\ p <= room.h /\ top = b.y1 + 2 + r
    BY <1>6, <1>7, <1>9
  <2> HIDE DEF p
  <2>2. q \in Nat
    BY <1>3, <2>1
  <2>3. q \div 2 \in Nat /\ q \div 2 <= q
    <3> HIDE DEF q
    <3> QED
      BY <2>2
  <2>4. r \in Nat /\ r <= q
    <3> HIDE DEF q
    <3> QED
      BY <2>2, <2>3 DEF Larger
  <2> DEFINE h == room.h
             y == b.y1
             z == b.y2
  <2>5. /\ q = h - p /\ h = z - y - 4 /\ top = y + 2 + r
        /\ r \in Int /\ r <= q /\ p \in Int /\ y \in Int /\ z \in Int
    BY <1>2, <1>3, <2>1, <2>4
  <2>6. top + p <= z - 2 /\ top \in Int
    <3> HIDE DEF p, q, r, h, y, z
    <3> QED
      BY <2>5
  <2> QED
    BY <2>6 DEF p
<1>11. ASSUME NEW k \in 1..n PROVE top + k * cell <= b.y2 - Margin
  <2>1. k * cell <= n * cell /\ k * cell \in Nat
    BY <1>4, <1>8, ProductGrows
  <2> QED
    BY <1>2, <1>9, <1>10, <2>1 DEF Margin
<1>12. seen = 1..n
  BY <1>11
<1> HIDE DEF seen
<1>13. Cardinality(seen) = n
  BY <1>4, <1>12, FS_Interval
<1> QED
  BY <1>1, <1>13 DEF n

(* The safe box of a mask has whole coordinates.                            *)
LEMMA SafeBoxIsBox ==
    ASSUME NEW b \in BoxSet, NEW m \in BoxSet
    PROVE  MaskSafeBox(b, m, FALSE) \in BoxSet
<1> DEFINE pad(n) == Larger(6, Larger(1, n) \div 3)
           u == Box(Larger(Smaller(b.x1, m.x1), b.x1 - pad(Width(b))),
                    Larger(Smaller(b.y1, m.y1), b.y1 - pad(Height(b))),
                    Smaller(Larger(b.x2, m.x2), b.x2 + pad(Width(b))),
                    Smaller(Larger(b.y2, m.y2), b.y2 + pad(Height(b))))
           seen == Meet(u, m)
           inset == Larger(2, (Height(seen) * 15) \div 100)
           top == seen.y1 + inset
           foot == seen.y2 - 1 - inset
<1>1. /\ b.x1 \in Int /\ b.x2 \in Int /\ b.y1 \in Int /\ b.y2 \in Int
      /\ m.x1 \in Int /\ m.x2 \in Int /\ m.y1 \in Int /\ m.y2 \in Int
  BY DEF BoxSet
<1>2. \A x, y \in Int : Larger(x, y) \in Int /\ Smaller(x, y) \in Int
  BY DEF Larger, Smaller
<1>3. pad(Width(b)) \in Int /\ pad(Height(b)) \in Int
  <2>1. \A n \in Int : Larger(1, n) \in Int /\ Larger(1, n) \div 3 \in Int
    BY <1>2
  <2>2. Width(b) \in Int /\ Height(b) \in Int
    BY <1>1 DEF Width, Height
  <2>3. \A n \in Int : Larger(6, Larger(1, n) \div 3) \in Int
    <3> SUFFICES ASSUME NEW n \in Int PROVE Larger(6, Larger(1, n) \div 3) \in Int
      OBVIOUS
    <3>1. Larger(1, n) \div 3 \in Int /\ 6 \in Int
      BY <2>1
    <3> HIDE DEF pad
    <3> QED
      BY <1>2, <3>1
  <2> QED
    BY <2>2, <2>3
<1>4. MaskSafeBox(b, m, FALSE) \in {b, Box(seen.x1, top, seen.x2, foot + 1)}
  BY DEF MaskSafeBox
<1> HIDE DEF pad
<1>5. u.x1 \in Int /\ u.x2 \in Int /\ u.y1 \in Int /\ u.y2 \in Int
  <2> DEFINE p == pad(Width(b))
             q == pad(Height(b))
  <2>1. p \in Int /\ q \in Int
    BY <1>3
  <2>2. u = Box(Larger(Smaller(b.x1, m.x1), b.x1 - p), Larger(Smaller(b.y1, m.y1), b.y1 - q),
                Smaller(Larger(b.x2, m.x2), b.x2 + p), Smaller(Larger(b.y2, m.y2), b.y2 + q))
    OBVIOUS
  <2> HIDE DEF p, q, u
  <2>3. b.x1 - p \in Int /\ b.y1 - q \in Int /\ b.x2 + p \in Int /\ b.y2 + q \in Int
    BY <1>1, <2>1
  <2>4. /\ Larger(Smaller(b.x1, m.x1), b.x1 - p) \in Int
        /\ Larger(Smaller(b.y1, m.y1), b.y1 - q) \in Int
        /\ Smaller(Larger(b.x2, m.x2), b.x2 + p) \in Int
        /\ Smaller(Larger(b.y2, m.y2), b.y2 + q) \in Int
    BY <1>1, <1>2, <2>3
  <2> QED
    BY <2>2, <2>4 DEF Box
<1> HIDE DEF u
<1>6. seen.x1 \in Int /\ seen.x2 \in Int /\ seen.y1 \in Int /\ seen.y2 \in Int
  BY <1>1, <1>2, <1>5 DEF Meet, Box
<1> HIDE DEF seen
<1>7. inset \in Int
  <2>1. Height(seen) \in Int
    BY <1>6 DEF Height
  <2>2. (Height(seen) * 15) \div 100 \in Int
    BY <2>1
  <2> QED
    BY <1>2, <2>2
<1> HIDE DEF inset
<1>8. Box(seen.x1, top, seen.x2, foot + 1) \in BoxSet
  BY <1>6, <1>7 DEF Box, BoxSet
<1> QED
  BY <1>4, <1>8

(* An English text that is reported to fit is drawn with all its letters.   *)
LEMMA EnglishShows ==
    ASSUME NEW words \in Seq(Nat \ {0}), NEW stacked \in BOOLEAN, NEW b \in BoxSet,
           NEW safe \in BoxSet, ~TooSmall(Inner(safe)), NEW target \in Nat,
           RenderEnglish(words, stacked, b, safe, target).status = "fit"
    PROVE  RenderEnglish(words, stacked, b, safe, target).shown = Total(words)
<1> DEFINE size == HorizontalSize(words, Inner(safe), target)
           lines == WordWrap(words, size, Inner(safe).w)
           drawn == RenderEnglish(words, stacked, b, safe, target)
<1>1. drawn = IF TooSmall(Inner(b)) \/ words = <<>> THEN Nothing
              ELSE IF stacked THEN RenderStacked(words, b)
              ELSE [size |-> size, lines |-> Len(lines),
                    status |-> Fit(Len(lines) * LineHeight(size) <= Inner(safe).h),
                    shown |-> IF TooSmall(Inner(safe)) THEN 0 ELSE Carried(lines)]
  BY DEF RenderEnglish, Carried, LettersOf
<1>2. Nothing.status # "fit"
  BY DEF Nothing
<1>3. CASE TooSmall(Inner(b)) \/ words = <<>>
  BY <1>1, <1>2, <1>3
<1>4. CASE ~(TooSmall(Inner(b)) \/ words = <<>>) /\ stacked
  <2>1. drawn = RenderStacked(words, b)
    BY <1>1, <1>4
  <2>2. RenderStacked(words, b).shown = Total(words)
    <3>1. RenderStacked(words, b).status = "fit"
      BY <2>1
    <3> QED
      BY <1>4, <3>1, StackShows
  <2> QED
    BY <2>1, <2>2
<1>5. CASE ~(TooSmall(Inner(b)) \/ words = <<>>) /\ ~stacked
  <2>1. drawn.shown = Carried(lines)
    BY <1>1, <1>5
  <2>2. Inner(safe).w \in Int /\ Inner(safe).h \in Nat
    BY DEF Inner, Width, Height, Margin, TooSmall, BoxSet
  <2>3. size \in Int
    <3>1. size \in Nat
      BY <2>2, EnglishSize
    <3> QED
      BY <3>1
  <2>4. Carried(lines) = Total(words)
    <3> HIDE DEF size
    <3> QED
      BY <2>2, <2>3, WrapKeeps
  <2> QED
    BY <2>1, <2>4
<1> QED
  BY <1>3, <1>4, <1>5

(* Selecting every place changes nothing.                                   *)
LEMMA SelectedAll ==
    ASSUME NEW X, NEW s \in Seq(X)
    PROVE  Selected(s, DOMAIN s) = s
<1> DEFINE n == Len(s)
           I == 1..n
           at == Ranked(I, LAMBDA i, j : i < j)
<1>1. n \in Nat /\ DOMAIN s = I
  OBVIOUS
<1>2. IsFiniteSet(I) /\ Cardinality(I) = n
  BY <1>1, FS_Interval
<1>3. at = [k \in 1..Cardinality(I) |-> CHOOSE x \in I : Cardinality({y \in I : y < x}) = k - 1]
  BY DEF Ranked
<1> HIDE DEF at
<1>4. ASSUME NEW x \in I PROVE Cardinality({y \in I : y < x}) = x - 1
  <2>1. {y \in I : y < x} = 1..(x - 1)
    BY <1>1
  <2>2. x - 1 \in Nat
    OBVIOUS
  <2>3. Cardinality(1..(x - 1)) = x - 1
    BY <2>2, FS_Interval
  <2> QED
    BY <2>1, <2>3
<1> HIDE DEF n
<1>5. ASSUME NEW k \in I PROVE at[k] = k
  <2>1. at[k] = CHOOSE x \in I : Cardinality({y \in I : y < x}) = k - 1
    BY <1>2, <1>3
  <2>2. Cardinality({y \in I : y < k}) = k - 1
    BY <1>4
  <2>3. at[k] \in I /\ Cardinality({y \in I : y < at[k]}) = k - 1
    BY <2>1, <2>2
  <2>4. at[k] - 1 = k - 1 /\ at[k] \in Int /\ k \in Int
    BY <1>1, <1>4, <2>3
  <2> QED
    BY <2>4
<1>6. DOMAIN at = I
  BY <1>2, <1>3
<1>7. Selected(s, I) = [k \in I |-> s[at[k]]]
  BY <1>6 DEF Selected, at
<1>8. Selected(s, I) = [k \in I |-> s[k]]
  BY <1>5, <1>7
<1>9. s = [k \in I |-> s[k]]
  BY <1>1
<1> QED
  BY <1>1, <1>8, <1>9

-----------------------------------------------------------------------------
(* Webtoon dialogue: the steps of its wrapping, and what they keep.         *)
Appended(s, word, size, width) ==
    IF s.line = NoLine \/ Advance(Joined(s.line, word).shown, size) <= width
    THEN [s EXCEPT !.line = Joined(s.line, word)]
    ELSE [lines |-> Append(s.lines, s.line), line |-> Line(word, word)]

(* A word appended is on the lines or on the one that is being filled.      *)
LEMMA AppendedKeeps ==
    ASSUME NEW s \in WrapSet, NEW word \in Nat, NEW size, NEW width
    PROVE  LET t == Appended(s, word, size, width) IN
           /\ t \in WrapSet
           /\ Carried(t.lines) + t.line.letters = Carried(s.lines) + s.line.letters + word
<1> DEFINE R == LineSet
           t == Appended(s, word, size, width)
           j == Joined(s.line, word)
           l == Line(word, word)
<1>1. s.lines \in Seq(R) /\ s.line \in R /\ s = [lines |-> s.lines, line |-> s.line]
  BY DEF WrapSet
<1>2. s.line.shown \in Nat /\ s.line.letters \in Nat
  BY <1>1 DEF LineSet
<1>3. j \in R /\ j.letters = s.line.letters + word /\ l \in R /\ l.letters = word
  BY <1>2 DEF Joined, Line, LineSet
<1>4. t \in {[s EXCEPT !.line = j], [lines |-> Append(s.lines, s.line), line |-> l]}
  BY DEF Appended
<1>5. Carried(s.lines) \in Int /\ Carried(Append(s.lines, s.line)) = Carried(s.lines) + s.line.letters
  BY <1>1, LettersCarried
<1> HIDE DEF t, j, l, R
<1>6. Append(s.lines, s.line) \in Seq(R)
  BY <1>1
<1>7. CASE t = [s EXCEPT !.line = j]
  <2>1. t = [lines |-> s.lines, line |-> j]
    BY <1>1, <1>7
  <2>2. t \in WrapSet
    BY <1>1, <1>3, <2>1 DEF WrapSet, R
  <2>3. Carried(t.lines) + t.line.letters = Carried(s.lines) + s.line.letters + word
    BY <1>2, <1>3, <1>5, <2>1
  <2> QED
    BY <2>2, <2>3 DEF t
<1>8. CASE t = [lines |-> Append(s.lines, s.line), line |-> l]
  <2>2. t \in WrapSet
    BY <1>3, <1>6, <1>8 DEF WrapSet, R
  <2>3. Carried(t.lines) + t.line.letters = Carried(s.lines) + s.line.letters + word
    BY <1>2, <1>3, <1>5, <1>8
  <2> QED
    BY <2>2, <2>3 DEF t
<1> QED
  BY <1>4, <1>7, <1>8

(* f[k] is what is wrapped after the first k words.                          *)
IsPlainWrap(f, words, size, width) ==
    /\ f \in [0..Len(words) -> WrapSet] /\ f[0] = Unwrapped
    /\ \A k \in 1..Len(words) : f[k] = Appended(f[k - 1], words[k], size, width)

(* The wrapping of dialogue as steps, one for each word.                     *)
LEMMA PlainWrapUnfold ==
    ASSUME NEW words \in Seq(Nat), NEW size, NEW width
    PROVE  \E f : /\ IsPlainWrap(f, words, size, width)
                  /\ WrapWords(words, size, width) =
                        IF words = <<>> THEN <<>>
                        ELSE Append(f[Len(words)].lines, f[Len(words)].line)
<1> DEFINE n == Len(words)
           add(s, word) ==
                IF s.line = NoLine \/ Advance(Joined(s.line, word).shown, size) <= width
                THEN [s EXCEPT !.line = Joined(s.line, word)]
                ELSE [lines |-> Append(s.lines, s.line), line |-> Line(word, word)]
           body(g, i) == IF i = 0 THEN [lines |-> <<>>, line |-> NoLine]
                         ELSE add(g[i - 1], words[i])
           after[i \in 0..Len(words)] == body(after, i)
           A == WrapSet
           D == [k \in 1..n |-> [s \in A |-> Appended(s, words[k], size, width)]]
<1>1. WrapWords(words, size, width) =
        IF words = <<>> THEN <<>> ELSE Append(after[Len(words)].lines, after[Len(words)].line)
  BY DEF WrapWords
<1>2. \A g : \A k \in 1..n : body(g, k) = Appended(g[k - 1], words[k], size, width)
  <2> SUFFICES ASSUME NEW g, NEW k \in 1..n
               PROVE  body(g, k) = Appended(g[k - 1], words[k], size, width)
    OBVIOUS
  <2>1. k # 0
    OBVIOUS
  <2>2. body(g, k) = add(g[k - 1], words[k])
    BY <2>1
  <2> DEFINE s == g[k - 1]
             w == words[k]
  <2> HIDE DEF s, w, body
  <2>3. add(s, w) = Appended(s, w, size, width)
    BY DEF Appended
  <2> QED
    BY <2>2, <2>3 DEF s, w
<1>3. \A g : body(g, 0) = Unwrapped
  BY DEF Unwrapped
<1> HIDE DEF body
<1>4. n \in Nat /\ \A k \in 1..n : words[k] \in Nat
  OBVIOUS
<1>5. D \in [1..n -> [A -> A]]
  BY <1>4, AppendedKeeps
<1>6. Unwrapped \in A
  <2> DEFINE R == LineSet
  <2>1. NoLine \in R
    BY DEF NoLine, Line, LineSet
  <2> HIDE DEF R
  <2>2. <<>> \in Seq(R)
    OBVIOUS
  <2> QED
    BY <2>1, <2>2 DEF Unwrapped, WrapSet, R
<1>7. \A k \in 1..n, s \in A : D[k][s] = Appended(s, words[k], size, width)
  OBVIOUS
<1>8. after = CHOOSE g : g = [i \in 0..n |-> body(g, i)]
  OBVIOUS
<1> HIDE DEF D, A, n, after
<1>9. PICK f : AreStages(f, n, A, Unwrapped, D)
  BY <1>4, <1>5, <1>6, StagesExist
<1>10. f \in [0..n -> A] /\ f[0] = Unwrapped /\ \A k \in 1..n : f[k] = D[k][f[k - 1]]
  BY <1>9 DEF AreStages
<1>11. \A k \in 1..n : k - 1 \in 0..n /\ k \in 0..n
  BY <1>4
<1>12. \A k \in 1..n : f[k] = Appended(f[k - 1], words[k], size, width)
  BY <1>7, <1>10, <1>11
<1>13. f = [i \in 0..n |-> body(f, i)]
  <2>1. \A i \in 0..n : i = 0 \/ i \in 1..n
    BY <1>4
  <2>2. \A i \in 0..n : f[i] = body(f, i)
    BY <1>2, <1>3, <1>10, <1>12, <2>1
  <2> QED
    BY <1>10, <2>2
<1>14. after = [i \in 0..n |-> body(after, i)]
  BY <1>8, <1>13
<1>15. TakesSteps(after, n, A, Unwrapped, D)
  <2>1. \A i \in 0..n : after[i] = body(after, i)
    BY <1>14
  <2>2. ASSUME NEW k \in 1..n, after[k - 1] \in A PROVE after[k] = D[k][after[k - 1]]
    <3>1. after[k] = body(after, k)
      BY <1>11, <2>1
    <3>2. body(after, k) = Appended(after[k - 1], words[k], size, width)
      BY <1>2
    <3>3. D[k][after[k - 1]] = Appended(after[k - 1], words[k], size, width)
      BY <1>7, <2>2
    <3> QED
      BY <3>1, <3>2, <3>3
  <2>3. 0 \in 0..n
    BY <1>4
  <2>4. DOMAIN after = 0..n /\ after[0] = Unwrapped
    BY <1>3, <1>14, <2>1, <2>3
  <2> QED
    BY <2>2, <2>4 DEF TakesSteps
<1>16. \A k \in 0..n : after[k] = f[k]
  <2>1. AreStages(f, n, A, Unwrapped, D)
    BY <1>9
  <2>2. StepsWithin(n, A, Unwrapped, D)
    BY <1>4, <1>5, <1>6 DEF StepsWithin
  <2>3. IsTheOnly(f, n, A, Unwrapped, D)
    BY <2>1, <2>2, StagesAreUnique
  <2> QED
    BY <1>15, <2>3 DEF IsTheOnly
<1>17. IsPlainWrap(f, words, size, width)
  BY <1>10, <1>12 DEF IsPlainWrap, n, A
<1>18. after[n] = f[n]
  <2>1. n \in 0..n
    BY <1>4
  <2> QED
    BY <1>16, <2>1
<1> QED
  BY <1>1, <1>17, <1>18 DEF n

(* The lines of a dialogue carry its letters.                               *)
LEMMA PlainWrapKeeps ==
    ASSUME NEW words \in Seq(Nat), NEW size, NEW width
    PROVE  /\ WrapWords(words, size, width) \in Seq(LineSet)
           /\ Carried(WrapWords(words, size, width)) = Total(words)
<1>1. PICK f : /\ IsPlainWrap(f, words, size, width)
               /\ WrapWords(words, size, width) =
                        IF words = <<>> THEN <<>>
                        ELSE Append(f[Len(words)].lines, f[Len(words)].line)
  BY PlainWrapUnfold
<1> DEFINE n == Len(words)
           r == Running(words)
<1>2. n \in Nat /\ (\A k \in 1..n : words[k] \in Nat) /\ words \in Seq(Int)
  OBVIOUS
<1>3. /\ f \in [0..n -> WrapSet] /\ f[0] = Unwrapped
      /\ \A k \in 1..n : f[k] = Appended(f[k - 1], words[k], size, width)
  BY <1>1 DEF IsPlainWrap
<1>4. /\ Total(words) = r[n] /\ r[0] = 0
      /\ \A k \in 1..n : r[k] = r[k - 1] + words[k]
  BY <1>2, RunningTotals
<1> HIDE DEF n, r
<1> DEFINE Good(k) == Carried(f[k].lines) + f[k].line.letters = r[k]
           Q(m) == m <= n => Good(m)
           P == {m \in Nat : Q(m)}
<1>5. Q(0)
  <2>1. Unwrapped.line.letters = 0 /\ Unwrapped.lines = <<>>
    BY DEF Unwrapped, NoLine, Line
  <2>2. Carried(<<>>) = 0
    BY LettersCarried
  <2> QED
    BY <1>3, <1>4, <2>1, <2>2
<1>6. ASSUME NEW m \in Nat, Q(m) PROVE Q(m + 1)
  <2> SUFFICES ASSUME m + 1 <= n PROVE Good(m + 1)
    OBVIOUS
  <2> DEFINE s == f[m]
             w == words[m + 1]
             t == Appended(s, w, size, width)
  <2>1. m <= n /\ m + 1 \in 1..n /\ (m + 1) - 1 = m /\ m \in 0..n
    BY <1>2
  <2>2. Good(m)
    BY <1>6, <2>1
  <2>3. f[m + 1] = t /\ r[m + 1] = r[m] + w
    BY <1>3, <1>4, <2>1
  <2>4. s \in WrapSet /\ w \in Nat
    BY <1>2, <1>3, <2>1
  <2>5. Carried(s.lines) + s.line.letters = r[m]
    BY <2>2
  <2> HIDE DEF s, w
  <2>6. Carried(t.lines) + t.line.letters = Carried(s.lines) + s.line.letters + w
    BY <2>4, AppendedKeeps
  <2> HIDE DEF t
  <2> QED
    BY <2>3, <2>5, <2>6
<1>7. \A m \in Nat : Q(m)
  <2> HIDE DEF Q
  <2>1. 0 \in P
    BY <1>5
  <2>2. \A m \in Nat : m \in P => m + 1 \in P
    BY <1>6
  <2> HIDE DEF P
  <2>3. Nat \subseteq P
    BY <2>1, <2>2, SetInduction
  <2> QED
    BY <2>3 DEF P
<1>8. Good(n)
  <2>1. Q(n) /\ n <= n
    <3> HIDE DEF Q
    <3>1. n <= n
      BY <1>2
    <3> QED
      BY <1>2, <1>7, <3>1
  <2> HIDE DEF Good
  <2> QED
    BY <2>1
<1>9. CASE words = <<>>
  <2>1. <<>> \in Seq(LineSet) /\ n = 0
    BY <1>9 DEF n
  <2>2. Carried(<<>>) = 0
    BY LettersCarried
  <2> QED
    BY <1>1, <1>4, <1>9, <2>1, <2>2
<1>10. CASE words # <<>>
  <2> DEFINE R == LineSet
             u == f[n].lines
             x == f[n].line
  <2>1. WrapWords(words, size, width) = Append(u, x)
    BY <1>1, <1>10 DEF n
  <2>2. u \in Seq(R) /\ x \in R
    <3>1. n \in 0..n
      BY <1>2
    <3>2. f[n] \in WrapSet
      BY <1>3, <3>1
    <3> QED
      BY <3>2 DEF WrapSet
  <2>3. Carried(Append(u, x)) = Carried(u) + x.letters
    BY <2>2, LettersCarried
  <2>4. Append(u, x) \in Seq(R)
    <3> HIDE DEF u, x, R
    <3> QED
      BY <2>2
  <2> QED
    BY <1>4, <1>8, <2>1, <2>3, <2>4
<1> QED
  BY <1>9, <1>10

(* A dialogue that is reported to fit is drawn with all its letters.        *)
LEMMA DialogueShows ==
    ASSUME NEW words \in Seq(Nat), NEW b \in BoxSet, RenderDialogue(words, b).status = "fit"
    PROVE  RenderDialogue(words, b).shown = Total(words)
<1> DEFINE w == Width(b) - 2 * Larger(10, (5 * Width(b)) \div 100)
           h == Height(b) - 2 * Larger(10, (5 * Height(b)) \div 100)
           sizes == {s \in 8..Clamp((7 * h) \div 10, 10, 36) :
                        BlockFits(WrapWords(words, s, w), s, w, h)}
           size  == IF sizes = {} THEN 8 ELSE Max(sizes)
           lines == WrapWords(words, size, w)
           cut   == sizes = {} /\ BlockHeight(lines, size) > h /\ Len(lines) > 1
           kept  == IF cut THEN SubSeq(lines, 1, Smaller(Len(lines),
                                            Larger(1, h \div (size + Spacing(size)))))
                     ELSE lines
           total == BlockHeight(kept, size)
           top   == Smaller(b.y1 + Larger(0, (Height(b) - total) \div 2), b.y2 - 2 - total)
           places == {i \in DOMAIN kept : top + i * size + (i - 1) * Spacing(size) <= b.y2 - 2}
           drawn == Selected(kept, places)
           all   == [size |-> size, lines |-> Len(kept),
                     status |-> IF cut THEN "ellipsized" ELSE Fit(sizes # {}),
                     shown |-> Carried(drawn)]
<1>1. RenderDialogue(words, b) = IF Width(b) < 10 \/ Height(b) < 10 \/ words = <<>>
                                 THEN [Nothing EXCEPT !.size = 8] ELSE all
  BY DEF RenderDialogue, Carried, LettersOf
<1> HIDE DEF all
<1>2. [Nothing EXCEPT !.size = 8].status = "overflow"
  BY DEF Nothing
<1>3. RenderDialogue(words, b) = all /\ all.status = "fit"
  BY <1>1, <1>2
<1>4. sizes # {} /\ ~cut
  <2> HIDE DEF sizes, size, lines, cut, kept, drawn
  <2>1. (IF cut THEN "ellipsized" ELSE Fit(sizes # {})) = "fit"
    BY <1>3 DEF all
  <2> QED
    BY <2>1 DEF Fit
<1>5. all.shown = Carried(drawn)
  BY DEF all
<1>6. b.y1 \in Int /\ b.y2 \in Int /\ b.x1 \in Int /\ b.x2 \in Int
  BY DEF BoxSet
<1>7. sizes \in SUBSET (1..36)
  <2>1. Clamp((7 * h) \div 10, 10, 36) <= 36
    <3> HIDE DEF h
    <3>1. h \in Int
      <4>1. Height(b) \in Int
        BY <1>6 DEF Height
      <4>2. Larger(10, (5 * Height(b)) \div 100) \in Int
        BY <4>1 DEF Larger
      <4> QED
        BY <4>1, <4>2 DEF h
    <3>2. (7 * h) \div 10 \in Int
      BY <3>1
    <3> QED
      BY <3>2 DEF Clamp, Larger, Smaller
  <2>2. Clamp((7 * h) \div 10, 10, 36) \in Int
    <3> HIDE DEF h
    <3>1. h \in Int
      <4>1. Height(b) \in Int
        BY <1>6 DEF Height
      <4>2. Larger(10, (5 * Height(b)) \div 100) \in Int
        BY <4>1 DEF Larger
      <4> QED
        BY <4>1, <4>2 DEF h
    <3>2. (7 * h) \div 10 \in Int
      BY <3>1
    <3> QED
      BY <3>2 DEF Clamp, Larger, Smaller
  <2> DEFINE c == Clamp((7 * h) \div 10, 10, 36)
  <2> HIDE DEF c
  <2>3. \A s \in 8..c : s \in 1..36
    BY <2>1, <2>2 DEF c
  <2> QED
    BY <2>3 DEF c
<1>8. size \in 1..36
  <2> HIDE DEF sizes
  <2>1. 36 \in Nat /\ Max(sizes) \in sizes
    BY <1>4, <1>7, MaxUpTo
  <2> QED
    BY <1>4, <1>7, <2>1
<1>9. kept = lines /\ lines \in Seq(LineSet) /\ Carried(lines) = Total(words)
  <2> HIDE DEF cut, size, w
  <2> QED
    BY <1>4, PlainWrapKeeps
<1> HIDE DEF sizes, size, lines, cut, kept
<1> DEFINE n == Len(kept)
           g == Spacing(size)
<1>10. n \in Nat /\ DOMAIN kept = 1..n /\ g \in Nat /\ size \in Nat
  <2>1. kept \in Seq(LineSet)
    BY <1>9
  <2>2. g \in Nat
    BY <1>8 DEF Spacing, Larger
  <2>3. DOMAIN kept = 1..n /\ n \in Nat
    <3> DEFINE R == LineSet
    <3> HIDE DEF R
    <3> QED
      BY <2>1 DEF R
  <2> QED
    BY <1>8, <2>2, <2>3
<1>11. total = n * size + g * (n - 1)
  BY DEF BlockHeight
<1> HIDE DEF n, g
<1>12. n * size \in Nat /\ g * (n - 1) \in Int
  <2>1. n - 1 \in Int
    BY <1>10
  <2> QED
    BY <1>10, <2>1
<1>13. total \in Int
  BY <1>11, <1>12
<1> HIDE DEF total
<1>14. top <= b.y2 - 2 - total /\ top \in Int
  <2> DEFINE x == b.y1 + Larger(0, (Height(b) - total) \div 2)
             y == b.y2 - 2 - total
  <2>1. x \in Int
    <3>1. Height(b) - total \in Int
      BY <1>6, <1>13 DEF Height
    <3>2. (Height(b) - total) \div 2 \in Int
      BY <3>1
    <3>3. Larger(0, (Height(b) - total) \div 2) \in Int
      BY <3>2 DEF Larger
    <3> QED
      BY <1>6, <3>3
  <2>2. y \in Int /\ top = Smaller(x, y)
    BY <1>6, <1>13
  <2> HIDE DEF x, y, top
  <2>3. top <= y /\ top \in Int
    BY <2>1, <2>2 DEF Smaller
  <2> QED
    BY <2>3 DEF y
<1> HIDE DEF top
<1>15. ASSUME NEW i \in 1..n PROVE top + i * size + (i - 1) * g <= b.y2 - 2
  <2>1. i \in Nat /\ i - 1 \in Nat /\ n - 1 \in Nat /\ i <= n /\ i - 1 <= n - 1
    BY <1>10
  <2>2. i * size <= n * size /\ i * size \in Nat
    BY <1>10, <2>1, ProductGrows
  <2>3. (i - 1) * g <= (n - 1) * g /\ (i - 1) * g \in Nat /\ (n - 1) * g \in Nat
    BY <1>10, <2>1, ProductGrows
  <2>4. (n - 1) * g = g * (n - 1)
    BY <1>10, <2>1
  <2> DEFINE a == i * size
             c == (i - 1) * g
             d == n * size
             e == (n - 1) * g
  <2>5. a <= d /\ c <= e /\ total = d + e /\ a \in Nat /\ c \in Nat /\ d \in Nat /\ e \in Nat
    BY <1>11, <1>12, <2>2, <2>3, <2>4
  <2> HIDE DEF a, c, d, e
  <2>6. top + a + c <= b.y2 - 2
    BY <1>6, <1>14, <2>5
  <2> QED
    BY <2>6 DEF a, c
<1>16. places = DOMAIN kept
  BY <1>10, <1>15 DEF g
<1>17. drawn = kept
  <2> HIDE DEF places
  <2>1. kept \in Seq(LineSet)
    BY <1>9
  <2>2. Selected(kept, DOMAIN kept) = kept
    BY <2>1, SelectedAll
  <2> QED
    BY <1>16, <2>2
<1> HIDE DEF drawn
<1> QED
  BY <1>3, <1>5, <1>9, <1>17

-----------------------------------------------------------------------------
(* Furigana.                                                                *)

(* Longer columns make no more columns.                                     *)
LEMMA ColumnsShrink ==
    ASSUME NEW n \in Nat, NEW p \in Nat \ {0}, NEW q \in Nat \ {0}, q <= p
    PROVE  ColumnsFor(n, p) \in Nat /\ ColumnsFor(n, p) <= ColumnsFor(n, q)
<1> DEFINE k == (n + p - 1) \div p
           m == (n + q - 1) \div q
<1>1. n + p - 1 \in Int /\ n + q - 1 \in Int
  OBVIOUS
<1>2. k \in Int /\ p * k <= n + p - 1 /\ n + p - 1 < p * k + p
  BY <1>1, Quotient
<1>3. m \in Int /\ q * m <= n + q - 1 /\ n + q - 1 < q * m + q
  BY <1>1, Quotient
<1>4. ColumnsFor(n, p) = k /\ ColumnsFor(n, q) = m
  BY DEF ColumnsFor
<1>5. n + p - 1 \in Nat /\ n + q - 1 \in Nat
  OBVIOUS
<1>6. k \in Nat
  BY <1>5, QuotientShrinks
<1>7. m \in Nat
  BY <1>5, QuotientShrinks
<1> HIDE DEF k, m
<1>8. k <= m
  <2> SUFFICES ASSUME m + 1 <= k PROVE FALSE
    BY <1>2, <1>3
  <2>1. q * m <= p * m /\ q * m \in Nat /\ p * m \in Nat
    BY <1>7, ProductGrows
  <2>2. PICK d \in Nat : k = m + 1 + d
    <3>1. k - m - 1 \in Nat /\ k = m + 1 + (k - m - 1)
      BY <1>2, <1>3
    <3> QED
      BY <3>1
  <2>3. p * k = p * m + p + p * d /\ p * d \in Nat
    BY <1>7, <2>2
  <2> QED
    BY <1>2, <1>3, <2>1, <2>3
<1> QED
  BY <1>4, <1>6, <1>8

(* Furigana that fit in a size fit in a smaller one.                        *)
LEMMA FuriganaShrinks ==
    ASSUME NEW chars, Len(chars) \in Nat, NEW room, room.w \in Int, room.h \in Nat,
           NEW small \in Nat, NEW large \in Nat, small <= large, ColumnsFit(chars, room, large)
    PROVE  ColumnsFit(chars, room, small)
<1> DEFINE n == Len(chars)
           a == IF Annotated(chars) THEN KanaSize(small) + 2 ELSE 0
           b == IF Annotated(chars) THEN KanaSize(large) + 2 ELSE 0
           c == CellHeight(small)
           d == CellHeight(large)
           p == Larger(1, room.h \div c)
           q == Larger(1, room.h \div d)
           k == ColumnsFor(n, p)
           m == ColumnsFor(n, q)
<1>1. KanaSize(small) \in Nat /\ KanaSize(large) \in Nat /\ KanaSize(small) <= KanaSize(large)
  BY DEF KanaSize, Larger, MinFont
<1>2. a \in Nat /\ b \in Nat /\ a <= b
  BY <1>1
<1>3. c \in Nat \ {0} /\ d \in Nat \ {0} /\ c <= d
  BY DEF CellHeight, Larger
<1>4. ColumnsFit(chars, room, large) <=> m * (large + b) <= room.w
  BY DEF ColumnsFit
<1>5. ColumnsFit(chars, room, small) <=> k * (small + a) <= room.w
  BY DEF ColumnsFit
<1> HIDE DEF a, b, c, d
<1>6. room.h \div d \in Nat /\ room.h \div d <= room.h \div c
  BY <1>3, QuotientShrinks
<1>7. room.h \div c \in Nat
  BY <1>3, QuotientShrinks
<1> DEFINE x == room.h \div c
           y == room.h \div d
<1> HIDE DEF x, y
<1>8. p \in Nat \ {0} /\ q \in Nat \ {0} /\ q <= p
  <2>1. x \in Nat /\ y \in Nat /\ y <= x /\ p = Larger(1, x) /\ q = Larger(1, y)
    BY <1>6, <1>7 DEF x, y
  <2> HIDE DEF p, q
  <2> QED
    BY <2>1 DEF Larger
<1> HIDE DEF p, q, n
<1>9. k \in Nat /\ k <= m
  BY <1>8, ColumnsShrink DEF n
<1>10. m \in Nat
  <2>1. q <= q
    BY <1>8
  <2> QED
    BY <1>8, <2>1, ColumnsShrink DEF n
<1> HIDE DEF k, m
<1>11. small + a <= large + b /\ small + a \in Nat /\ large + b \in Nat
  BY <1>2
<1> DEFINE e == small + a
           f == large + b
<1>12. e <= f /\ e \in Nat /\ f \in Nat
  BY <1>11
<1>13. m * f <= room.w
  BY <1>4
<1> HIDE DEF e, f
<1>14. k * e <= m * e /\ k * e \in Nat
  BY <1>9, <1>10, <1>12, ProductGrows
<1>15. m * e <= m * f /\ m * e \in Nat /\ m * f \in Nat
  <2>1. m * f \in Nat
    BY <1>10, <1>12
  <2> QED
    BY <1>10, <1>12, <2>1, ProductGrows
<1>16. k * e <= room.w
  BY <1>13, <1>14, <1>15
<1> QED
  BY <1>5, <1>16 DEF e

(* The size of furigana is the largest that fits.                           *)
LEMMA FuriganaSizeFound ==
    ASSUME NEW chars, Len(chars) \in Nat, NEW room, room.w \in Int, room.h \in Nat
    PROVE  LET size == ColumnSize(chars, room)
               high == Smaller(MaxFont, room.h \div 2) IN
           /\ size \in Nat
           /\ \/ ColumnsFit(chars, room, size) /\ \A s \in (size + 1)..high : ~ColumnsFit(chars, room, s)
              \/ size = MinFont /\ \A s \in MinFont..high : ~ColumnsFit(chars, room, s)
<1> DEFINE fits == [size \in Int |-> ColumnsFit(chars, room, size)]
           high == Smaller(MaxFont, room.h \div 2)
           best == Largest(fits, 10, high)
<1>1. ColumnSize(chars, room) = best
  BY DEF ColumnSize, MinFont
<1>2. high \in Nat /\ high <= 60
  BY DEF Smaller, MaxFont
<1>3. \A s \in Int : fits[s] = ColumnsFit(chars, room, s)
  OBVIOUS
<1> HIDE DEF fits, high
<1>4. ASSUME NEW s \in Nat, NEW t \in Nat, s <= t, fits[t] PROVE fits[s]
  <2>1. ColumnsFit(chars, room, t)
    BY <1>3, <1>4
  <2>2. ColumnsFit(chars, room, s)
    BY <1>4, <2>1, FuriganaShrinks
  <2> QED
    BY <1>3, <2>2
<1>5. /\ best \in Nat
      /\ \/ fits[best] /\ \A s \in (best + 1)..high : ~fits[s]
         \/ best = 10 /\ \A s \in 10..high : ~fits[s]
  <2>1. 10 \in Nat /\ 10 >= 2 /\ high <= 10 + 32766
    BY <1>2
  <2>2. \A s, t \in Nat : s <= t /\ fits[t] => fits[s]
    BY <1>4
  <2> QED
    BY <1>2, <2>1, <2>2, LargestFinds
<1> HIDE DEF best
<1>6. (\A s \in (best + 1)..high : s \in Int) /\ (\A s \in 10..high : s \in Int) /\ best \in Int
  BY <1>2, <1>5
<1> QED
  BY <1>1, <1>3, <1>5, <1>6 DEF high, MinFont

(* The characters of segments are a finite number.                          *)
LEMMA CharactersAreMany ==
    ASSUME NEW segments \in Seq([chars : Nat \ {0}, kana : Nat])
    PROVE  Len(Characters(segments)) \in Nat
<1> DEFINE T == [chars : Nat \ {0}, kana : Nat]
           part(s) == [i \in 1..segments[s].chars |->
                        [kana |-> KanaOf(segments[s], i), first |-> i = 1, of |-> segments[s].chars]]
           parts == [s \in DOMAIN segments |-> part(s)]
           S == UNION {{part(s)[i] : i \in 1..segments[s].chars} : s \in DOMAIN segments}
<1>1. Characters(segments) = FlattenSeq(parts)
  BY DEF Characters
<1>2. DOMAIN segments = 1..Len(segments) /\ Len(segments) \in Nat
  <2> HIDE DEF T
  <2>1. segments \in Seq(T)
    BY DEF T
  <2> QED
    BY <2>1
<1>3. ASSUME NEW s \in DOMAIN segments PROVE part(s) \in Seq(S)
  <2>1. segments[s].chars \in Nat
    <3> HIDE DEF T
    <3>1. segments \in Seq(T)
      BY DEF T
    <3>2. segments[s] \in T
      BY <3>1
    <3> QED
      BY <3>2 DEF T
  <2> DEFINE n == segments[s].chars
             p == part(s)
  <2>2. p = [i \in 1..n |-> p[i]]
    OBVIOUS
  <2>3. \A i \in 1..n : p[i] \in S
    OBVIOUS
  <2> HIDE DEF n, p, S
  <2>4. n \in Nat
    BY <2>1 DEF n
  <2>5. p \in [1..n -> S]
    BY <2>2, <2>3
  <2>6. p \in Seq(S)
    BY <2>4, <2>5
  <2> QED
    BY <2>6 DEF p
<1> HIDE DEF S, part
<1>4. parts \in Seq(Seq(S))
  <2> DEFINE U == Seq(S)
             n == Len(segments)
  <2>1. parts = [s \in 1..n |-> part(s)] /\ n \in Nat
    BY <1>2
  <2>2. \A s \in 1..n : part(s) \in U
    BY <1>2, <1>3
  <2> HIDE DEF U, n, parts
  <2>3. parts \in Seq(U)
    BY <2>1, <2>2
  <2> QED
    BY <2>3 DEF U
<1> HIDE DEF parts
<1>5. FlattenSeq(parts) \in Seq(S)
  BY <1>4, Flattened
<1>6. Len(FlattenSeq(parts)) \in Nat
  BY <1>5
<1> QED
  BY <1>1, <1>6

(* The numbers of a sequence remain numbers when it is sorted.              *)
LEMMA NumbersSorted ==
    ASSUME NEW s \in Seq(Int), NEW k \in 1..Len(s)
    PROVE  Sorted(s, LAMBDA a, b : a < b)[k] \in Int
<1> DEFINE n == Len(s)
           S == 1..n
           first(i, j) == s[i] < s[j] \/ (~(s[j] < s[i]) /\ i < j)
           R == KeyOrder(s, n)
           at == Ranked(DOMAIN s, first)
           sorted == Sorted(s, LAMBDA a, b : a < b)
<1>1. n \in Nat /\ DOMAIN s = S /\ s \in [S -> Int] /\ k \in 1..n
  OBVIOUS
<1> HIDE DEF n
<1>2. IsFiniteSet(S) /\ Cardinality(S) = n
  BY <1>1, FS_Interval
<1>3. StrictOrder(R, S)
  <2> HIDE DEF n
  <2> QED
    BY <1>1, KeyOrderIsStrict
<1>4. \A i, j \in S : <<i, j>> \in R <=> first(i, j)
  BY DEF KeyOrder
<1>5. \A x \in S : {y \in S : first(y, x)} = Below(R, S, x)
  BY <1>4 DEF Below
<1>6. at = [i \in 1..Cardinality(S) |->
                CHOOSE x \in S : Cardinality({y \in S : first(y, x)}) = i - 1]
  BY <1>1 DEF Ranked
<1>7. sorted = [i \in S |-> s[at[i]]]
  BY <1>1 DEF Sorted
<1>8. k \in 1..Cardinality(S)
  BY <1>1, <1>2
<1> HIDE DEF at, R, first, S, sorted
<1>9. at[k] \in S
  <2>1. PICK x \in S : Cardinality(Below(R, S, x)) = k - 1
    BY <1>2, <1>3, <1>8, RankOnto
  <2>2. Cardinality({y \in S : first(y, x)}) = k - 1
    BY <1>5, <2>1
  <2> QED
    BY <1>6, <1>8, <2>2
<1>10. k \in S
  BY <1>2, <1>8 DEF S
<1> QED
  BY <1>1, <1>7, <1>9, <1>10 DEF sorted

(* The median of numbers is a number.                                       *)
LEMMA MedianIsNumber ==
    ASSUME NEW s \in Seq(Int), Len(s) >= 1
    PROVE  TwiceMedian(s) \in Int
<1> DEFINE sorted == Sorted(s, LAMBDA a, b : a < b)
           n == Len(s)
<1>1. n \in Nat /\ n >= 1
  OBVIOUS
<1>2. \A k \in 1..n : sorted[k] \in Int
  BY NumbersSorted
<1>3. TwiceMedian(s) = sorted[(n + 1) \div 2] + sorted[n \div 2 + 1]
  BY DEF TwiceMedian
<1> HIDE DEF n, sorted
<1>4. (n + 1) \div 2 \in 1..n /\ n \div 2 + 1 \in 1..n
  BY <1>1
<1>5. sorted[(n + 1) \div 2] \in Int /\ sorted[n \div 2 + 1] \in Int
  BY <1>2, <1>4
<1> QED
  BY <1>3, <1>5

(* The limits of a page are numbers.                                        *)
LEMMA LimitsAreNumbers ==
    ASSUME NEW sizes \in Seq(Nat)
    PROVE  PageLimits(sizes).cap \in Int /\ PageLimits(sizes).floor \in Int
<1> DEFINE I == {i \in DOMAIN sizes : sizes[i] > 0}
           known == Selected(sizes, I)
           median == TwiceMedian(known) \div 2
<1>1. known \in Seq(Nat)
  <2>1. I \in SUBSET DOMAIN sizes
    OBVIOUS
  <2> HIDE DEF I
  <2> QED
    BY <2>1, SelectedPlaces
<1>2. PageLimits(sizes) =
        IF Len(known) < 3 THEN [cap |-> 0, outlier |-> 0, floor |-> 0]
        ELSE [cap |-> Larger(MinFont, Smaller(RoundDiv(120 * median, 100), median + 5)),
              outlier |-> Larger(MinFont, Larger(RoundDiv(155 * median, 100), median + 10)),
              floor |-> Larger(MinFont, Larger(RoundDiv(88 * median, 100), median - 4))]
  BY DEF PageLimits
<1> HIDE DEF known
<1>3. CASE Len(known) < 3
  BY <1>2, <1>3
<1>4. CASE ~(Len(known) < 3)
  <2>1. known \in Seq(Int) /\ Len(known) >= 1
    BY <1>1, <1>4
  <2>2. TwiceMedian(known) \in Int
    BY <2>1, MedianIsNumber
  <2>3. median \in Int
    BY <2>2
  <2> HIDE DEF median
  <2>4. \A x \in Int : RoundDiv(x, 100) \in Int
    BY DEF RoundDiv
  <2>5. RoundDiv(120 * median, 100) \in Int /\ RoundDiv(88 * median, 100) \in Int
    BY <2>3, <2>4
  <2>6. \A x, y \in Int : Larger(x, y) \in Int /\ Smaller(x, y) \in Int
    BY DEF Larger, Smaller
  <2>7. Smaller(RoundDiv(120 * median, 100), median + 5) \in Int
        /\ Larger(RoundDiv(88 * median, 100), median - 4) \in Int
    <3>1. median + 5 \in Int /\ median - 4 \in Int
      BY <2>3
    <3> QED
      BY <2>5, <2>6, <3>1
  <2> DEFINE c == Larger(MinFont, Smaller(RoundDiv(120 * median, 100), median + 5))
             o == Larger(MinFont, Larger(RoundDiv(155 * median, 100), median + 10))
             f == Larger(MinFont, Larger(RoundDiv(88 * median, 100), median - 4))
  <2>8. c \in Int /\ f \in Int
    <3> DEFINE u == Smaller(RoundDiv(120 * median, 100), median + 5)
               v == Larger(RoundDiv(88 * median, 100), median - 4)
    <3>1. u \in Int /\ v \in Int /\ 10 \in Int
      BY <2>7
    <3>2. c = Larger(10, u) /\ f = Larger(10, v)
      BY DEF MinFont
    <3> HIDE DEF c, f, u, v
    <3> QED
      BY <2>6, <3>1, <3>2
  <2>9. PageLimits(sizes) = [cap |-> c, outlier |-> o, floor |-> f]
    BY <1>2, <1>4
  <2> HIDE DEF c, o, f
  <2> QED
    BY <2>8, <2>9
<1> QED
  BY <1>3, <1>4

(* Neither the page nor the source glyphs push furigana past the size that  *)
(* fits, or the smallest font.                                              *)
LEMMA LimitsOnlyShrink ==
    ASSUME NEW size \in Nat, NEW source \in Int, NEW sizes \in Seq(Nat), NEW count \in Int
    PROVE  FuriganaSize(size, 0, source, PageLimits(sizes), count) <= Larger(size, MinFont)
<1> DEFINE limits == PageLimits(sizes)
           x == CapToScale(size, source)
           y == CapToPage(x, source, limits)
           z == FloorToPage(y, size, source, limits, count)
           top == Larger(size, 10)
<1>1. limits.cap \in Int /\ limits.floor \in Int
  BY LimitsAreNumbers
<1>2. FuriganaSize(size, 0, source, limits, count) = z
  BY DEF FuriganaSize
<1> HIDE DEF limits
<1>3. top \in Int /\ size <= top /\ 10 <= top
  BY DEF Larger
<1>4. x \in Int /\ x <= top
  <2> DEFINE m == Min({size, RoundDiv(115 * source, 100), source + 4})
  <2>1. x \in {size, Larger(10, m)}
    BY DEF CapToScale, MinFont
  <2>2. m \in Int /\ m <= size
    <3> DEFINE r == RoundDiv(115 * source, 100)
               S == {size, r, source + 4}
    <3>1. r \in Int
      <4>1. \A a \in Int : RoundDiv(a, 100) \in Int
        BY DEF RoundDiv
      <4> QED
        BY <4>1
    <3> HIDE DEF r
    <3>2. S \in SUBSET Int
      BY <3>1
    <3>3. \E a \in S : \A b \in S : a <= b
      BY <3>1
    <3>4. Min(S) \in S /\ \A b \in S : Min(S) <= b
      <4> HIDE DEF S
      <4> QED
        BY <3>3 DEF Min
    <3>5. size \in S
      OBVIOUS
    <3>6. Min(S) \in Int /\ Min(S) <= size
      <4> HIDE DEF S
      <4> QED
        BY <3>2, <3>4, <3>5
    <3> QED
      BY <3>6 DEF r
  <2> HIDE DEF x, m, top
  <2>3. Larger(10, m) \in Int /\ Larger(10, m) <= top
    BY <1>3, <2>2 DEF Larger
  <2> QED
    BY <1>3, <2>1, <2>3
<1> HIDE DEF x, top
<1>5. y \in Int /\ y <= top
  <2>1. y \in {x, Larger(10, Smaller(x, limits.cap))}
    BY DEF CapToPage, MinFont
  <2> HIDE DEF y
  <2>2. Larger(10, Smaller(x, limits.cap)) \in Int /\ Larger(10, Smaller(x, limits.cap)) <= top
    BY <1>1, <1>3, <1>4 DEF Larger, Smaller
  <2> QED
    BY <1>4, <2>1, <2>2
<1> HIDE DEF y
<1>6. z <= top
  <2> DEFINE w == Larger(10, Larger(y, Smaller(size, limits.floor)))
  <2>1. z \in {y, w}
    BY DEF FloorToPage, MinFont
  <2> HIDE DEF z
  <2>2. w <= top
    BY <1>1, <1>3, <1>5 DEF Larger, Smaller
  <2> HIDE DEF w
  <2> QED
    BY <1>5, <2>1, <2>2
<1> QED
  BY <1>2, <1>6 DEF top, limits, MinFont

-----------------------------------------------------------------------------
(* The bound of the search.                                                 *)

(* The three bounds of the search for a font size have a least one.          *)
LEMMA BoundOfSearch ==
    ASSUME NEW room, room.h \in Nat, NEW target \in Nat
    PROVE  Min({MaxFont, room.h, IF target = 0 THEN MaxFont ELSE target}) = LargestAllowed(room, target)
<1> DEFINE h == room.h
           S == {60, h, IF target = 0 THEN 60 ELSE target}
           x == IF target = 0 THEN IF 60 < h THEN 60 ELSE h
                ELSE IF target < h THEN IF target < 60 THEN target ELSE 60
                ELSE IF h < 60 THEN h ELSE 60
<1>1. h \in Nat
  OBVIOUS
<1>2. Min({MaxFont, room.h, IF target = 0 THEN MaxFont ELSE target}) = Min(S)
  BY DEF MaxFont
<1> HIDE DEF h
<1>3. S \in SUBSET Int /\ x \in S /\ \A y \in S : x <= y
  BY <1>1
<1>4. LargestAllowed(room, target) = x
  BY <1>1 DEF LargestAllowed, Smaller, MaxFont, h
<1> HIDE DEF S, x
<1>5. Min(S) = x
  BY <1>3, MinIs
<1> QED
  BY <1>2, <1>4, <1>5

-----------------------------------------------------------------------------
(* Runs of ink.                                                             *)

(* Finitely many runs, none empty, with more than a gap between any two.    *)
AreRuns(S, gap) ==
    /\ IsFiniteSet(S)
    /\ \A r \in S : r.from \in Int /\ r.to \in Int /\ r.from < r.to
    /\ \A r, q \in S : r # q => r.to + gap <= q.from \/ q.to + gap <= r.from

(* The stretches of finitely many positions are such runs, and begin and    *)
(* end at one.                                                              *)
LEMMA StretchesApart ==
    ASSUME NEW P \in SUBSET Int, IsFiniteSet(P), NEW reach \in Nat
    PROVE  /\ AreRuns(Stretches(P, reach), reach)
           /\ \A r \in Stretches(P, reach) : r.from \in P /\ r.to - 1 \in P
<1> DEFINE starts == {p \in P : \A q \in P : q < p => p - q > reach}
           ends == {p \in P : \A q \in P : q > p => q - p > reach}
           After(s) == {e \in ends : e >= s}
           run == [s \in starts |-> [from |-> s, to |-> Min(After(s)) + 1]]
           S == {run[s] : s \in starts}
<1>1. Stretches(P, reach) = S
  BY DEF Stretches
<1>2. IsFiniteSet(starts)
  <2>1. starts \in SUBSET P
    OBVIOUS
  <2> QED
    BY <2>1, FS_Subset
<1>3. IsFiniteSet(S)
  <2>1. DOMAIN run = starts
    OBVIOUS
  <2> HIDE DEF run, starts
  <2> QED
    BY <1>2, <2>1, ImageFinite
<1>4. ASSUME NEW T \in SUBSET P, T # {} PROVE Max(T) \in T /\ \A x \in T : x <= Max(T)
  <2>1. IsFiniteSet(T) /\ T \in SUBSET Int
    BY FS_Subset
  <2> QED
    BY <1>4, <2>1, MaxOfFinite
<1>5. ASSUME NEW s \in starts
      PROVE  /\ Min(After(s)) \in ends /\ Min(After(s)) >= s /\ Min(After(s)) \in Int
             /\ \A e \in ends : e >= s => Min(After(s)) <= e
  <2>1. s \in P /\ P # {}
    OBVIOUS
  <2>2. Max(P) \in P /\ \A x \in P : x <= Max(P)
    BY <1>4, <2>1
  <2>3. Max(P) \in ends
    <3>1. ASSUME NEW q \in P, q > Max(P) PROVE q - Max(P) > reach
      <4>1. q <= Max(P) /\ q \in Int /\ Max(P) \in Int
        BY <2>2
      <4> QED
        BY <3>1, <4>1
    <3> QED
      BY <2>2, <3>1
  <2>4. After(s) # {} /\ After(s) \in SUBSET P
    BY <2>1, <2>2, <2>3
  <2>5. IsFiniteSet(After(s)) /\ After(s) \in SUBSET Int
    BY <2>4, FS_Subset
  <2> DEFINE T == After(s)
  <2> HIDE DEF ends
  <2>6. Min(T) \in T /\ \A x \in T : Min(T) <= x
    <3> HIDE DEF T
    <3> QED
      BY <2>4, <2>5, MinOfFinite DEF T
  <2>7. \A e \in ends : e >= s => e \in T
    OBVIOUS
  <2>8. Min(T) \in Int
    BY <2>5, <2>6
  <2> QED
    BY <2>6, <2>7, <2>8
<1> HIDE DEF After
<1>6. ASSUME NEW s \in starts, NEW t \in starts, s < t PROVE Min(After(s)) + 1 + reach <= t
  <2> DEFINE T == {p \in P : p < t}
  <2>1. T \in SUBSET P /\ s \in T
    BY <1>6
  <2>2. T # {}
    BY <2>1
  <2>3. Max(T) \in T /\ \A x \in T : x <= Max(T)
    BY <1>4, <2>1, <2>2
  <2> DEFINE m == Max(T)
  <2>4. m \in P /\ m < t /\ s <= m
    BY <2>1, <2>3
  <2>5. t - m > reach
    BY <2>4
  <2>6. ASSUME NEW q \in P, q > m PROVE q - m > reach
    <3>1. ~(q < t)
      <4>1. SUFFICES ASSUME q < t PROVE FALSE
        OBVIOUS
      <4>2. q \in T
        BY <4>1
      <4>3. q <= m
        BY <2>3, <4>2
      <4> HIDE DEF T, m
      <4> QED
        BY <2>4, <2>6, <4>3
    <3> HIDE DEF m, starts
    <3>2. t \in Int /\ q \in Int /\ m \in Int
      BY <2>4 DEF starts
    <3> QED
      BY <2>5, <3>1, <3>2
  <2>7. m \in ends
    BY <2>4, <2>6
  <2>8. Min(After(s)) <= m /\ Min(After(s)) \in Int
    BY <1>5, <2>4, <2>7
  <2>9. t \in Int /\ m \in Int
    BY <2>4
  <2> HIDE DEF m
  <2> QED
    BY <2>5, <2>8, <2>9
<1>7. ASSUME NEW r \in S
      PROVE  \E s \in starts : r = run[s] /\ r.from = s /\ r.to = Min(After(s)) + 1
  OBVIOUS
<1>8. ASSUME NEW r \in S
      PROVE  r.from \in Int /\ r.to \in Int /\ r.from < r.to /\ r.from \in P /\ r.to - 1 \in P
  <2>1. PICK s \in starts : r.from = s /\ r.to = Min(After(s)) + 1
    BY <1>7
  <2>2. Min(After(s)) \in ends /\ Min(After(s)) >= s /\ Min(After(s)) \in Int
    BY <1>5
  <2>3. s \in P /\ s \in Int /\ Min(After(s)) \in P
    BY <2>2
  <2> HIDE DEF starts, ends
  <2>4. r.to - 1 = Min(After(s))
    BY <2>1, <2>2
  <2> QED
    BY <2>1, <2>2, <2>3, <2>4
<1>9. ASSUME NEW r \in S, NEW q \in S, r # q
      PROVE  r.to + reach <= q.from \/ q.to + reach <= r.from
  <2>1. PICK s \in starts : r = run[s] /\ r.from = s /\ r.to = Min(After(s)) + 1
    BY <1>7
  <2>2. PICK t \in starts : q = run[t] /\ q.from = t /\ q.to = Min(After(t)) + 1
    BY <1>7
  <2>3. s # t /\ s \in Int /\ t \in Int
    BY <1>9, <2>1, <2>2
  <2>4. CASE s < t
    BY <1>6, <2>1, <2>2, <2>4
  <2>5. CASE t < s
    BY <1>6, <2>1, <2>2, <2>5
  <2> QED
    BY <2>3, <2>4, <2>5
<1> HIDE DEF S
<1>10. AreRuns(S, reach)
  BY <1>3, <1>8, <1>9 DEF AreRuns
<1> QED
  BY <1>1, <1>8, <1>10

(* A subset of runs are runs.                                               *)
LEMMA FewerRuns ==
    ASSUME NEW S, NEW gap \in Nat, AreRuns(S, gap), NEW T \in SUBSET S
    PROVE  AreRuns(T, gap)
<1>1. IsFiniteSet(T)
  BY FS_Subset DEF AreRuns
<1> QED
  BY <1>1 DEF AreRuns

(* In order, every run ends before the next one begins.                     *)
LEMMA InOrderEnumerates ==
    ASSUME NEW S, NEW gap \in Nat, AreRuns(S, gap)
    PROVE  /\ Enumerates(InOrder(S), S)
           /\ \A i, j \in DOMAIN InOrder(S) : i < j => InOrder(S)[i].to + gap <= InOrder(S)[j].from
<1> DEFINE R == {p \in S \X S : p[1].from < p[2].from}
           s == InOrder(S)
<1>1. IsFiniteSet(S) /\ Cardinality(S) \in Nat
  BY FS_CardinalityType DEF AreRuns
<1>2. \A x, y \in S : <<x, y>> \in R <=> x.from < y.from
  OBVIOUS
<1>3. \A x \in S : {y \in S : y.from < x.from} = Below(R, S, x)
  BY DEF Below
<1>4. s = [i \in 1..Cardinality(S) |->
              CHOOSE x \in S : Cardinality({y \in S : y.from < x.from}) = i - 1]
  BY DEF InOrder, Ranked
<1> HIDE DEF s, R
<1>5. \A r, q \in S : r # q => r.to + gap <= q.from \/ q.to + gap <= r.from
  BY DEF AreRuns
<1>6. \A r \in S : r.from \in Int /\ r.to \in Int /\ r.from < r.to
  BY DEF AreRuns
<1>7. StrictOrder(R, S)
  <2>1. ASSUME NEW x \in S, NEW y \in S, x # y PROVE x.from < y.from \/ y.from < x.from
    <3>1. x.to + gap <= y.from \/ y.to + gap <= x.from
      BY <1>5, <2>1
    <3>2. x.from \in Int /\ x.to \in Int /\ x.from < x.to /\ y.from \in Int /\ y.to \in Int /\ y.from < y.to
      BY <1>6
    <3> QED
      BY <3>1, <3>2
  <2>2. \A x \in S : ~(x.from < x.from)
    BY <1>6
  <2>3. \A x, y, z \in S : x.from < y.from /\ y.from < z.from => x.from < z.from
    BY <1>6
  <2> QED
    BY <1>2, <2>1, <2>2, <2>3 DEF StrictOrder
<1>8. ASSUME NEW i \in 1..Cardinality(S)
      PROVE  s[i] \in S /\ Cardinality(Below(R, S, s[i])) = i - 1
  <2>1. PICK x \in S : Cardinality(Below(R, S, x)) = i - 1
    BY <1>1, <1>7, RankOnto
  <2>2. Cardinality({y \in S : y.from < x.from}) = i - 1
    BY <1>3, <2>1
  <2>3. s[i] \in S /\ Cardinality({y \in S : y.from < s[i].from}) = i - 1
    BY <1>4, <2>2
  <2> QED
    BY <1>3, <2>3
<1>9. s \in [1..Cardinality(S) -> S]
  BY <1>4, <1>8
<1>10. /\ Enumerates(s, S) /\ Len(s) = Cardinality(S)
       /\ \A i, j \in 1..Cardinality(S) : i < j => <<s[i], s[j]>> \in R
  BY <1>1, <1>7, <1>8, <1>9, EnumeratedByRank
<1>11. DOMAIN s = 1..Cardinality(S)
  BY <1>9
<1>12. ASSUME NEW i \in DOMAIN s, NEW j \in DOMAIN s, i < j PROVE s[i].to + gap <= s[j].from
  <2> DEFINE x == s[i]
             y == s[j]
  <2>1. x \in S /\ y \in S
    BY <1>8, <1>11
  <2>2. <<x, y>> \in R
    BY <1>10, <1>11, <1>12
  <2> HIDE DEF x, y
  <2>3. x.from < y.from
    BY <1>2, <2>1, <2>2
  <2>4. x # y
    <3>1. y.from \in Int
      BY <1>6, <2>1
    <3> QED
      BY <2>3, <3>1
  <2>5. x.to + gap <= y.from \/ y.to + gap <= x.from
    BY <1>5, <2>1, <2>4
  <2>6. x.from \in Int /\ x.to \in Int /\ x.from < x.to /\ y.from \in Int /\ y.to \in Int /\ y.from < y.to
    BY <1>6, <2>1
  <2>7. x.to + gap <= y.from
    BY <2>3, <2>5, <2>6
  <2> QED
    BY <2>7 DEF x, y
<1> QED
  BY <1>10, <1>12 DEF s

-----------------------------------------------------------------------------
(* The slices of a column.                                                  *)

Slice == [y0 : Int, y1 : Int]

(* One slice ends before another begins.                                    *)
SliceOrder == {p \in Slice \X Slice : p[1].y1 <= p[2].y0}

(* The slices of a run cover it, stay within it and follow each other.      *)
LEMMA SlicesOfRun ==
    ASSUME NEW run, run.from \in Int, run.to \in Int, run.from < run.to, NEW pitch \in Int
    PROVE  /\ RunChunks(run, pitch) \in Seq(Slice) /\ Follows(RunChunks(run, pitch), SliceOrder)
           /\ \A c \in Range(RunChunks(run, pitch)) :
                run.from <= c.y0 /\ c.y0 <= c.y1 /\ c.y1 <= run.to
           /\ \A y \in run.from..(run.to - 1) :
                \E c \in Range(RunChunks(run, pitch)) : c.y0 <= y /\ y < c.y1
<1> DEFINE from == run.from
           to == run.to
           span == run.to - run.from
           count == Larger(1, RoundDiv(span, Larger(1, pitch * GlyphsPerChunk)))
           slices == RunChunks(run, pitch)
           cut(i) == from + RoundDiv(i * span, count)
<1>1. slices = [i \in 1..count |->
                    [y0 |-> run.from + RoundDiv((i - 1) * span, count),
                     y1 |-> IF i = count THEN run.to ELSE run.from + RoundDiv(i * span, count)]]
  BY DEF RunChunks
<1>2. from \in Int /\ to \in Int /\ span \in Nat \ {0} /\ to = from + span
  OBVIOUS
<1> HIDE DEF from, to, span, slices
<1>3. count \in Nat \ {0}
  <2> DEFINE d == Larger(1, pitch * GlyphsPerChunk)
  <2>1. d \in Nat \ {0}
    BY DEF Larger, GlyphsPerChunk
  <2> HIDE DEF d
  <2>2. RoundDiv(span, d) \in Int
    BY <1>2, <2>1, Rounding
  <2> DEFINE r == RoundDiv(span, d)
  <2>3. count = Larger(1, r)
    BY DEF d
  <2> HIDE DEF r, count
  <2> QED
    BY <2>2, <2>3 DEF Larger, r
<1> HIDE DEF count
<1>4. ASSUME NEW i \in Int, NEW j \in Int, i <= j
      PROVE  cut(i) \in Int /\ cut(i) <= cut(j)
  <2> DEFINE x == i * span
             y == j * span
  <2>1. x \in Int /\ y \in Int /\ x <= y
    <3>1. PICK d \in Nat : j = i + d
      <4>1. j - i \in Nat /\ j = i + (j - i)
        BY <1>4
      <4> QED
        BY <4>1
    <3>2. j * span = i * span + d * span /\ d * span \in Nat /\ i * span \in Int
      BY <1>2, <3>1
    <3> QED
      BY <3>2
  <2> HIDE DEF x, y
  <2>2. RoundDiv(x, count) <= RoundDiv(y, count) /\ RoundDiv(x, count) \in Int
        /\ RoundDiv(y, count) \in Int
    BY <1>3, <2>1, RoundingGrows, Rounding
  <2>3. cut(i) = from + RoundDiv(x, count) /\ cut(j) = from + RoundDiv(y, count)
    BY DEF x, y
  <2> HIDE DEF cut
  <2> QED
    BY <1>2, <2>2, <2>3
<1>5. cut(0) = from
  <2>1. RoundDiv(0 * count, count) = 0
    BY <1>3, RoundingOfProduct
  <2>2. 0 * span = 0 /\ 0 * count = 0
    BY <1>2, <1>3
  <2> QED
    BY <1>2, <2>1, <2>2
<1>6. cut(count) = to
  <2>1. RoundDiv(span * count, count) = span
    BY <1>2, <1>3, RoundingOfProduct
  <2>2. span * count = count * span
    BY <1>2, <1>3
  <2> QED
    BY <1>2, <2>1, <2>2
<1>7. slices = [i \in 1..count |-> [y0 |-> cut(i - 1), y1 |-> cut(i)]]
  <2>1. \A i \in 1..count : (IF i = count THEN run.to ELSE run.from + RoundDiv(i * span, count)) = cut(i)
    BY <1>6 DEF from, to
  <2>2. \A i \in 1..count : run.from + RoundDiv((i - 1) * span, count) = cut(i - 1)
    BY DEF from
  <2> HIDE DEF cut
  <2> QED
    BY <1>1, <2>1, <2>2
<1> HIDE DEF cut
<1>8. ASSUME NEW i \in 1..count
      PROVE  /\ slices[i] \in Slice /\ slices[i].y0 = cut(i - 1) /\ slices[i].y1 = cut(i)
             /\ cut(i - 1) \in Int /\ cut(i) \in Int /\ cut(i - 1) <= cut(i)
             /\ from <= cut(i - 1) /\ cut(i) <= to
  <2>1. i \in Int /\ i - 1 \in Int /\ i - 1 <= i /\ 0 <= i - 1 /\ i <= count /\ 0 \in Int /\ count \in Int
        /\ i <= i
    BY <1>3
  <2>2. cut(i - 1) \in Int /\ cut(i - 1) <= cut(i) /\ cut(i) \in Int
    BY <1>4, <2>1
  <2>3. cut(0) <= cut(i - 1) /\ cut(i) <= cut(count)
    BY <1>4, <2>1
  <2>4. slices[i] = [y0 |-> cut(i - 1), y1 |-> cut(i)]
    BY <1>7
  <2> QED
    BY <1>5, <1>6, <2>2, <2>3, <2>4 DEF Slice
<1>9. DOMAIN slices = 1..count
  BY <1>7
<1>10. slices \in Seq(Slice)
  <2>1. slices \in [1..count -> Slice]
    BY <1>7, <1>8, <1>9
  <2> QED
    BY <1>3, <2>1
<1>11. Follows(slices, SliceOrder)
  <2>1. ASSUME NEW i \in 1..count, NEW j \in 1..count, i < j
        PROVE  <<slices[i], slices[j]>> \in SliceOrder
    <3>1. i \in Int /\ j - 1 \in Int /\ i <= j - 1
      BY <1>3, <2>1
    <3>2. cut(i) <= cut(j - 1)
      BY <1>4, <3>1
    <3>3. slices[i] \in Slice /\ slices[j] \in Slice /\ slices[i].y1 <= slices[j].y0
      BY <1>8, <3>2
    <3> QED
      BY <3>3 DEF SliceOrder
  <2> QED
    BY <1>9, <2>1 DEF Follows
<1>12. \A c \in Range(slices) : from <= c.y0 /\ c.y0 <= c.y1 /\ c.y1 <= to
  BY <1>8, <1>9 DEF Range
<1>13. ASSUME NEW y \in from..(to - 1) PROVE \E c \in Range(slices) : c.y0 <= y /\ y < c.y1
  <2> DEFINE T == {i \in 1..count : y < cut(i)}
  <2>1. T \in SUBSET Int /\ IsFiniteSet(T)
    <3>1. IsFiniteSet(1..count)
      BY <1>3, FS_Interval
    <3>2. T \in SUBSET (1..count)
      OBVIOUS
    <3>3. IsFiniteSet(T)
      BY <3>1, <3>2, FS_Subset
    <3> QED
      BY <3>2, <3>3
  <2>2. count \in T
    <3>1. count \in 1..count /\ y < to
      BY <1>2, <1>3
    <3> QED
      BY <1>6, <3>1
  <2>3. Min(T) \in T /\ \A i \in T : Min(T) <= i
    <3> HIDE DEF T
    <3> QED
      BY <2>1, <2>2, MinOfFinite
  <2>4. PICK i \in T : \A j \in T : i <= j
    BY <2>3
  <2>5. i \in 1..count /\ y < cut(i)
    OBVIOUS
  <2>6. cut(i - 1) <= y
    <3>1. CASE i = 1
      BY <1>2, <1>5, <3>1
    <3>2. CASE i # 1
      <4>1. i - 1 \in 1..count /\ ~(i <= i - 1)
        BY <1>3, <2>5, <3>2
      <4>2. i - 1 \notin T
        BY <2>4, <4>1
      <4>3. ~(y < cut(i - 1)) /\ cut(i - 1) \in Int /\ y \in Int
        BY <1>2, <1>8, <2>5, <4>1, <4>2
      <4> QED
        BY <4>3
    <3> QED
      BY <3>1, <3>2
  <2>7. slices[i] \in Range(slices) /\ slices[i].y0 = cut(i - 1) /\ slices[i].y1 = cut(i)
    BY <1>8, <1>9, <2>5 DEF Range
  <2> QED
    BY <2>5, <2>6, <2>7
<1> QED
  BY <1>10, <1>11, <1>12, <1>13 DEF slices, from, to

(* The slices of runs that lie apart cover these, cut none and do not       *)
(* overlap.                                                                 *)
LEMMA SlicesOfColumn ==
    ASSUME NEW column, NEW gap \in Nat, NEW S, AreRuns(S, gap), Enumerates(column.runs, S),
           \A i, j \in DOMAIN column.runs : i < j => column.runs[i].to + gap <= column.runs[j].from,
           Width(column.box) \in Int
    PROVE  LET chunks == ColumnChunks(column)
               rows(c) == c.y0..(c.y1 - 1)
           IN  /\ UNION {rows(chunks[i]) : i \in DOMAIN chunks}
                    = UNION {r.from..(r.to - 1) : r \in Range(column.runs)}
               /\ \A i, j \in DOMAIN chunks : i < j => chunks[i].y1 <= chunks[j].y0
<1> DEFINE runs == column.runs
           pitch == Width(column.box)
           n == Len(runs)
           ss == [k \in DOMAIN runs |-> RunChunks(runs[k], pitch)]
           chunks == ColumnChunks(column)
<1>1. chunks = FlattenSeq(ss)
  BY DEF ColumnChunks
<1>2. pitch \in Int /\ n \in Nat /\ DOMAIN runs = 1..n /\ runs \in [1..n -> S]
  BY DEF Enumerates
<1>3. \A i, j \in 1..n : i < j => runs[i].to + gap <= runs[j].from
  BY <1>2
<1> HIDE DEF runs, pitch, n, chunks
<1>4. ASSUME NEW k \in 1..n
      PROVE  runs[k].from \in Int /\ runs[k].to \in Int /\ runs[k].from < runs[k].to
  BY <1>2 DEF AreRuns
<1>5. DOMAIN ss = 1..n /\ \A k \in 1..n : ss[k] = RunChunks(runs[k], pitch)
  BY <1>2
<1> HIDE DEF ss
<1>6. ASSUME NEW k \in 1..n
      PROVE  /\ ss[k] \in Seq(Slice) /\ Follows(ss[k], SliceOrder)
             /\ \A c \in Range(ss[k]) :
                    runs[k].from <= c.y0 /\ c.y0 <= c.y1 /\ c.y1 <= runs[k].to
             /\ \A y \in runs[k].from..(runs[k].to - 1) :
                    \E c \in Range(ss[k]) : c.y0 <= y /\ y < c.y1
  BY <1>2, <1>4, <1>5, SlicesOfRun
<1>7. ss \in Seq(Seq(Slice))
  <2> DEFINE U == Seq(Slice)
  <2>1. \A k \in 1..n : ss[k] \in U
    BY <1>6
  <2> HIDE DEF U
  <2>2. ss = [k \in 1..n |-> ss[k]]
    BY <1>5 DEF ss
  <2>3. ss \in [1..n -> U]
    BY <2>1, <2>2
  <2>4. ss \in Seq(U)
    BY <1>2, <2>3
  <2> QED
    BY <2>4 DEF U
<1>8. /\ chunks \in Seq(Slice)
      /\ Range(chunks) = UNION {Range(ss[k]) : k \in 1..n}
  BY <1>1, <1>5, <1>7, Flattened
<1>9. ASSUME NEW k \in 1..n, NEW c \in Range(ss[k])
      PROVE  c \in Slice /\ c.y0 \in Int /\ c.y1 \in Int
  <2>1. c \in Slice
    BY <1>6 DEF Range
  <2> QED
    BY <2>1 DEF Slice
<1>10. ASSUME NEW k \in 1..n, NEW l \in 1..n, k < l, NEW a \in Range(ss[k]), NEW b \in Range(ss[l])
       PROVE  <<a, b>> \in SliceOrder
  <2>1. a.y1 <= runs[k].to /\ runs[l].from <= b.y0 /\ runs[k].to + gap <= runs[l].from
    BY <1>3, <1>6, <1>10
  <2>2. a \in Slice /\ b \in Slice /\ a.y1 \in Int /\ b.y0 \in Int
        /\ runs[k].to \in Int /\ runs[l].from \in Int
    BY <1>4, <1>9
  <2>3. a.y1 <= b.y0
    BY <2>1, <2>2
  <2> QED
    BY <2>2, <2>3 DEF SliceOrder
<1>11. Follows(chunks, SliceOrder)
  <2>1. \A k \in DOMAIN ss : Follows(ss[k], SliceOrder)
    BY <1>5, <1>6
  <2>2. \A k, l \in DOMAIN ss : k < l =>
            \A x \in Range(ss[k]), y \in Range(ss[l]) : <<x, y>> \in SliceOrder
    BY <1>5, <1>10
  <2> QED
    BY <1>1, <1>7, <2>1, <2>2, FlattenFollows
<1>12. \A i, j \in DOMAIN chunks : i < j => chunks[i].y1 <= chunks[j].y0
  BY <1>11 DEF Follows, SliceOrder
<1> DEFINE rows(c) == c.y0..(c.y1 - 1)
<1>13. ASSUME NEW y \in UNION {rows(chunks[i]) : i \in DOMAIN chunks}
       PROVE  y \in UNION {r.from..(r.to - 1) : r \in Range(runs)}
  <2>1. PICK i \in DOMAIN chunks : y \in rows(chunks[i])
    OBVIOUS
  <2> DEFINE c == chunks[i]
  <2>2. c \in Range(chunks) /\ y \in c.y0..(c.y1 - 1)
    BY <2>1 DEF Range
  <2> HIDE DEF c
  <2>3. PICK k \in 1..n : c \in Range(ss[k])
    BY <1>8, <2>2
  <2> DEFINE r == runs[k]
  <2>4. r.from <= c.y0 /\ c.y1 <= r.to /\ c.y0 \in Int /\ c.y1 \in Int
        /\ r.from \in Int /\ r.to \in Int
    BY <1>4, <1>6, <1>9, <2>3
  <2>5. r \in Range(runs)
    BY <1>2 DEF Range
  <2> HIDE DEF r
  <2>6. y \in r.from..(r.to - 1)
    BY <2>2, <2>4
  <2> QED
    BY <2>5, <2>6
<1>14. ASSUME NEW y \in UNION {r.from..(r.to - 1) : r \in Range(runs)}
       PROVE  y \in UNION {rows(chunks[i]) : i \in DOMAIN chunks}
  <2>1. PICK k \in 1..n : y \in runs[k].from..(runs[k].to - 1)
    BY <1>2 DEF Range
  <2>2. PICK c \in Range(ss[k]) : c.y0 <= y /\ y < c.y1
    BY <1>6, <2>1
  <2>3. c.y0 \in Int /\ c.y1 \in Int /\ y \in Int
    BY <1>4, <1>9, <2>1
  <2>4. y \in rows(c)
    BY <2>2, <2>3
  <2>5. c \in Range(chunks)
    BY <1>8
  <2>6. PICK i \in DOMAIN chunks : chunks[i] = c
    BY <2>5 DEF Range
  <2> QED
    BY <2>4, <2>6
<1>15. UNION {rows(chunks[i]) : i \in DOMAIN chunks}
        = UNION {r.from..(r.to - 1) : r \in Range(runs)}
  BY <1>13, <1>14
<1> QED
  BY <1>12, <1>15 DEF chunks, runs

-----------------------------------------------------------------------------
(* The columns of a book page.                                              *)

(* A page whose ink lies on it.                                             *)
IsBookPage(p) ==
    /\ p.width \in Nat /\ p.height \in Nat
    /\ p.ink \in [0..(p.width - 1) -> SUBSET (0..(p.height - 1))]

(* The parts of Columns: the densely inked pixel columns, the runs of these *)
(* that are tall, and those of them that are columns of text.               *)
Dense(page) ==
    LET height == Extent(Rows(page, 0, page.width)) IN
    {x \in 0..(page.width - 1) : Cardinality(page.ink[x]) > Larger(3, Larger(height, 1) \div 50)}

TallRuns(page) ==
    {r \in InkRuns(Dense(page)) :
        100 * Extent(Rows(page, r.from, r.to)) >= 35 * Extent(Rows(page, 0, page.width))}

BodyPlaces(page, tall) ==
    LET median == TwiceMedian([i \in DOMAIN tall |-> tall[i].to - tall[i].from]) IN
    {i \in DOMAIN tall : /\ 70 * median <= 200 * (tall[i].to - tall[i].from)
                         /\ 200 * (tall[i].to - tall[i].from) <= 145 * median
                         /\ ColumnRuns(page, tall[i].from, tall[i].to) # {}}

Body(page) == Selected(InOrder(TallRuns(page)), BodyPlaces(page, InOrder(TallRuns(page))))

(* One run ends, with a gap, before the other begins.                       *)
RunOrder(S, gap) == {p \in S \X S : p[1].to + gap <= p[2].from}

(* The columns found are runs of pixel columns, from left to right and      *)
(* apart, in each of which something is written.                            *)
LEMMA BodyFollows ==
    ASSUME NEW page, IsBookPage(page)
    PROVE  /\ Body(page) \in Seq(TallRuns(page))
           /\ Follows(Body(page), RunOrder(TallRuns(page), 2))
           /\ \A r \in TallRuns(page) : /\ r.from \in 0..(page.width - 1)
                                        /\ r.to - 1 \in 0..(page.width - 1)
                                        /\ r.to \in Int /\ r.from < r.to
           /\ \A i \in DOMAIN Body(page) : ColumnRuns(page, Body(page)[i].from, Body(page)[i].to) # {}
<1> DEFINE S == TallRuns(page)
           tall == InOrder(S)
           I == BodyPlaces(page, tall)
           P == Dense(page)
<1>1. P \in SUBSET Int /\ IsFiniteSet(P) /\ P \in SUBSET (0..(page.width - 1))
  <2>1. P \in SUBSET (0..(page.width - 1))
    BY DEF Dense
  <2>2. IsFiniteSet(0..(page.width - 1))
    <3>1. page.width - 1 \in Int /\ 0 \in Int
      BY DEF IsBookPage
    <3> QED
      BY <3>1, FS_Interval
  <2> HIDE DEF P
  <2>3. IsFiniteSet(P)
    BY <2>1, <2>2, FS_Subset
  <2> QED
    BY <2>1, <2>3
<1>2. S \in SUBSET Stretches(P, 2)
  BY DEF TallRuns, InkRuns
<1> HIDE DEF P
<1>3. /\ AreRuns(Stretches(P, 2), 2)
      /\ \A r \in Stretches(P, 2) : r.from \in P /\ r.to - 1 \in P
  BY <1>1, StretchesApart
<1>4. AreRuns(S, 2)
  <2>1. 2 \in Nat
    OBVIOUS
  <2> HIDE DEF S
  <2> QED
    BY <1>2, <1>3, <2>1, FewerRuns
<1>5. \A r \in S : /\ r.from \in 0..(page.width - 1) /\ r.to - 1 \in 0..(page.width - 1)
                   /\ r.to \in Int /\ r.from < r.to
  <2> HIDE DEF S
  <2> QED
    BY <1>1, <1>2, <1>3, <1>4 DEF AreRuns
<1>6. /\ Enumerates(tall, S)
      /\ \A i, j \in DOMAIN tall : i < j => tall[i].to + 2 <= tall[j].from
  <2>1. 2 \in Nat
    OBVIOUS
  <2> HIDE DEF S
  <2> QED
    BY <1>4, <2>1, InOrderEnumerates
<1>7. tall \in Seq(S) /\ Follows(tall, RunOrder(S, 2))
  <2>1. tall \in Seq(S)
    BY <1>6 DEF Enumerates
  <2>2. \A i \in DOMAIN tall : tall[i] \in S
    <3> HIDE DEF tall, S
    <3> QED
      BY <2>1
  <2> QED
    BY <1>6, <2>1, <2>2 DEF Follows, RunOrder
<1>8. I \in SUBSET DOMAIN tall
  BY DEF BodyPlaces
<1>9. Body(page) = Selected(tall, I)
  BY DEF Body
<1>10. \A i \in I : ColumnRuns(page, tall[i].from, tall[i].to) # {}
  BY DEF BodyPlaces
<1> HIDE DEF S, tall, I
<1>11. Body(page) \in Seq(S) /\ Follows(Body(page), RunOrder(S, 2))
  BY <1>7, <1>8, <1>9, SelectedFollows
<1>12. ASSUME NEW i \in DOMAIN Body(page)
       PROVE  ColumnRuns(page, Body(page)[i].from, Body(page)[i].to) # {}
  <2> DEFINE n == Cardinality(I)
             u == Selected(tall, I)
  <2>1. PICK at \in [1..n -> I] : \A k \in 1..n : u[k] = tall[at[k]]
    BY <1>7, <1>8, SelectedPlaces
  <2>2. u \in Seq(S) /\ Len(u) = n
    BY <1>7, <1>8, SelectedPlaces
  <2>3. i \in 1..n
    <3> HIDE DEF u, n
    <3>1. DOMAIN u = 1..n
      BY <2>2
    <3> QED
      BY <1>9, <3>1 DEF u
  <2>4. at[i] \in I /\ Body(page)[i] = tall[at[i]]
    BY <1>9, <2>1, <2>3
  <2> QED
    BY <1>10, <2>4
<1> QED
  BY <1>5, <1>11, <1>12 DEF S

(* The glyph runs of a column are runs.                                     *)
LEMMA RunsOfColumn ==
    ASSUME NEW page, IsBookPage(page), NEW x1 \in 0..(page.width - 1), NEW x2 \in Int,
           x2 - 1 \in 0..(page.width - 1), x1 < x2
    PROVE  AreRuns(ColumnRuns(page, x1, x2), 1)
<1> DEFINE P == Rows(page, x1, x2)
           reach == 1 + Larger(2, x2 - x1)
           S == Stretches(P, reach)
<1>1. page.width \in Nat /\ page.height \in Nat
      /\ page.ink \in [0..(page.width - 1) -> SUBSET (0..(page.height - 1))]
  BY DEF IsBookPage
<1>2. P \in SUBSET (0..(page.height - 1))
  <2>1. \A x \in x1..(x2 - 1) : x \in 0..(page.width - 1)
    BY <1>1
  <2> QED
    BY <1>1, <2>1 DEF Rows
<1>3. IsFiniteSet(P) /\ P \in SUBSET Int
  <2>1. IsFiniteSet(0..(page.height - 1))
    BY <1>1, FS_Interval
  <2> HIDE DEF P
  <2>2. IsFiniteSet(P)
    BY <1>2, <2>1, FS_Subset
  <2> QED
    BY <1>2, <2>2
<1>4. reach \in Nat /\ reach >= 1
  BY DEF Larger
<1>5. ColumnRuns(page, x1, x2) \in SUBSET S
  BY DEF ColumnRuns
<1> HIDE DEF P, reach
<1>6. AreRuns(S, reach)
  BY <1>3, <1>4, StretchesApart
<1> DEFINE T == ColumnRuns(page, x1, x2)
<1> HIDE DEF S, T
<1>7. AreRuns(T, reach)
  BY <1>4, <1>5, <1>6, FewerRuns DEF T
<1>8. AreRuns(T, 1)
  <2>1. \A r \in T : r.from \in Int /\ r.to \in Int /\ r.from < r.to
    BY <1>7 DEF AreRuns
  <2>2. ASSUME NEW r \in T, NEW q \in T, r # q PROVE r.to + 1 <= q.from \/ q.to + 1 <= r.from
    <3>1. r.to + reach <= q.from \/ q.to + reach <= r.from
      BY <1>7, <2>2 DEF AreRuns
    <3>2. r.from \in Int /\ r.to \in Int /\ q.from \in Int /\ q.to \in Int
      BY <2>1
    <3> QED
      BY <1>4, <3>1, <3>2
  <2> QED
    BY <1>7, <2>1, <2>2 DEF AreRuns
<1> QED
  BY <1>8 DEF T

(* What Columns makes of the body.                                          *)
LEMMA ColumnsAre ==
    ASSUME NEW page, IsBookPage(page)
    PROVE  /\ DOMAIN Columns(page) = 1..Len(Body(page)) /\ Len(Body(page)) \in Nat
           /\ \A i \in DOMAIN Columns(page) :
                LET c == Columns(page)[i]
                    b == Body(page)[i]
                IN  /\ c.box.x1 = b.from /\ c.box.x2 = b.to
                    /\ c.runs = InOrder(ColumnRuns(page, b.from, b.to))
                    /\ b.from \in 0..(page.width - 1) /\ b.to - 1 \in 0..(page.width - 1)
                    /\ b.to \in Int /\ b.from < b.to
           /\ \A i, j \in DOMAIN Columns(page) :
                i < j => Columns(page)[i].box.x2 + 2 <= Columns(page)[j].box.x1
<1> DEFINE body == Body(page)
           S == TallRuns(page)
           column == [i \in DOMAIN body |->
                        LET runs == InOrder(ColumnRuns(page, body[i].from, body[i].to)) IN
                        [box  |-> Box(body[i].from, runs[1].from, body[i].to, runs[Len(runs)].to),
                         runs |-> runs]]
<1>1. Columns(page) = column
  BY DEF Columns, Body, BodyPlaces, TallRuns, Dense
<1>2. /\ body \in Seq(S) /\ Follows(body, RunOrder(S, 2))
      /\ \A r \in S : /\ r.from \in 0..(page.width - 1) /\ r.to - 1 \in 0..(page.width - 1)
                      /\ r.to \in Int /\ r.from < r.to
  BY BodyFollows
<1> HIDE DEF S
<1>3. DOMAIN body = 1..Len(body) /\ Len(body) \in Nat /\ \A i \in DOMAIN body : body[i] \in S
  <2> HIDE DEF body
  <2> QED
    BY <1>2
<1>4. \A i \in DOMAIN body :
        /\ column[i].box.x1 = body[i].from /\ column[i].box.x2 = body[i].to
        /\ column[i].runs = InOrder(ColumnRuns(page, body[i].from, body[i].to))
  <2> HIDE DEF body
  <2> QED
    BY DEF Box
<1>5. DOMAIN column = DOMAIN body
  OBVIOUS
<1> HIDE DEF column, body
<1>6. \A i, j \in DOMAIN body : i < j => body[i].to + 2 <= body[j].from
  BY <1>2, <1>3 DEF Follows, RunOrder
<1>7. \A i, j \in DOMAIN column : i < j => column[i].box.x2 + 2 <= column[j].box.x1
  BY <1>4, <1>5, <1>6
<1> QED
  BY <1>1, <1>2, <1>3, <1>4, <1>5, <1>7 DEF body

-----------------------------------------------------------------------------
(* Gutters.                                                                 *)

(* A reading in a gutter keeps clear of the column it belongs to, of every  *)
(* other one and of the edge of the page.                                   *)
LEMMA RubyInTheGutter ==
    ASSUME NEW page, IsBookPage(page), NEW i \in DOMAIN Columns(page), NEW ruby,
           NEW b \in RubyBoxes(page, Columns(page), i, ruby)
    PROVE  /\ \A c \in Range(Columns(page)) : b.x2 <= c.box.x1 \/ c.box.x2 < b.x1
           /\ b.x2 <= page.width
<1> DEFINE columns == Columns(page)
           gutter == GutterRightOf(page, columns, i)
           room == gutter.to - gutter.from - GutterGap
           size == Larger(FuriganaMin, Smaller((45 * Width(columns[i].box)) \div 100, room))
           right == {c.box.x1 : c \in {d \in Range(columns) : d.box.x1 > columns[i].box.x2}}
           w == page.width
           x == columns[i].box.x2
<1>1. /\ \A j \in DOMAIN columns : /\ columns[j].box.x1 \in Int /\ columns[j].box.x2 \in Int
                                   /\ columns[j].box.x1 < columns[j].box.x2
                                   /\ columns[j].box.x1 \in 0..(w - 1)
                                   /\ columns[j].box.x2 - 1 \in 0..(w - 1)
      /\ \A k, j \in DOMAIN columns : k < j => columns[k].box.x2 + 2 <= columns[j].box.x1
      /\ DOMAIN columns \in SUBSET Int
  <2>1. page.width - 1 \in Int
    BY DEF IsBookPage
  <2>2. \A n \in 0..(page.width - 1) : n \in Int
    BY <2>1
  <2>3. DOMAIN columns = 1..Len(Body(page)) /\ Len(Body(page)) \in Nat
    BY ColumnsAre
  <2>4. DOMAIN columns \in SUBSET Int
    BY <2>3
  <2> QED
    BY <2>2, <2>4, ColumnsAre
<1>2. w \in Nat /\ x \in Int /\ x <= w
  <2>1. w \in Nat
    BY DEF IsBookPage
  <2>2. x \in Int /\ x - 1 \in 0..(w - 1)
    BY <1>1
  <2> HIDE DEF w, x
  <2> QED
    BY <2>1, <2>2
<1> DEFINE top(r) == (r.y0 + r.y1) \div 2 - (r.kana * size) \div 2
           left == gutter.from + GutterGap
           place(r) == Box(left, top(r), left + size, top(r) + r.kana * size)
<1>3. (\E r \in Range(ruby) : b = place(r)) /\ ~(room < 7)
  <2>1. RubyBoxes(page, columns, i, ruby)
            = IF room < FuriganaMin THEN {}
              ELSE {c \in {place(r) : r \in Range(ruby)} : ~Occupied(page, c)}
    BY DEF RubyBoxes
  <2> DEFINE boxes == {place(r) : r \in Range(ruby)}
  <2>2. b \in RubyBoxes(page, columns, i, ruby)
    OBVIOUS
  <2> HIDE DEF room, columns
  <2>3. ~(room < FuriganaMin) /\ b \in boxes
    <3> HIDE DEF boxes
    <3>1. RubyBoxes(page, columns, i, ruby)
            = IF room < FuriganaMin THEN {} ELSE {c \in boxes : ~Occupied(page, c)}
      BY <2>1 DEF boxes
    <3> QED
      BY <2>2, <3>1
  <2>4. \E r \in Range(ruby) : b = place(r)
    <3> HIDE DEF place
    <3> QED
      BY <2>3
  <2> QED
    BY <2>3, <2>4 DEF FuriganaMin
<1>4. b.x1 = x + 2 /\ b.x2 = x + 2 + size
  <2>1. gutter.from = x
    BY DEF GutterRightOf
  <2>2. left = x + 2
    BY <2>1 DEF GutterGap
  <2> HIDE DEF left, size, top, x
  <2>3. b.x1 = left /\ b.x2 = left + size
    BY <1>3 DEF Box
  <2> QED
    BY <2>2, <2>3
<1> HIDE DEF place
<1>5. gutter.from = x /\ gutter.to = IF right = {} THEN w ELSE Min(right)
  BY DEF GutterRightOf
<1>6. gutter.to \in Int /\ gutter.to <= w /\ \A n \in right : gutter.to <= n
  <2>1. right \in SUBSET (0..(w - 1))
    BY <1>1 DEF Range
  <2>2. IsFiniteSet(0..(w - 1))
    <3>1. w - 1 \in Int /\ 0 \in Int
      BY <1>2
    <3> HIDE DEF w
    <3> QED
      BY <3>1, FS_Interval
  <2> HIDE DEF right, w
  <2>3. IsFiniteSet(right)
    BY <2>1, <2>2, FS_Subset
  <2>4. CASE right = {}
    BY <1>2, <1>5, <2>4
  <2>5. CASE right # {}
    <3>1. right \in SUBSET Int
      BY <2>1
    <3>2. Min(right) \in right /\ \A n \in right : Min(right) <= n
      BY <2>3, <2>5, <3>1, MinOfFinite
    <3> DEFINE m == Min(right)
    <3>3. m \in 0..(w - 1)
      BY <2>1, <3>2
    <3> HIDE DEF m, x
    <3>4. m \in Int /\ m <= w
      BY <1>2, <3>3
    <3>5. Min(right) \in Int /\ Min(right) <= w
      BY <3>4 DEF m
    <3> QED
      BY <1>5, <2>5, <3>2, <3>5
  <2> QED
    BY <2>4, <2>5
<1>7. x + 2 + size <= gutter.to /\ size \in Int /\ size >= 7
  <2> DEFINE t == gutter.to
             v == (45 * Width(columns[i].box)) \div 100
  <2>1. room = t - x - 2 /\ t \in Int
    BY <1>5, <1>6 DEF GutterGap
  <2>2. v \in Int
    <3>1. Width(columns[i].box) \in Int
      BY <1>1 DEF Width
    <3> QED
      BY <3>1
  <2>3. size = Larger(7, Smaller(v, room))
    BY DEF FuriganaMin
  <2> HIDE DEF v, room, size, t
  <2>4. room \in Int /\ room >= 7
    BY <1>2, <1>3, <2>1
  <2>5. size \in Int /\ size <= room /\ size >= 7
    BY <2>2, <2>3, <2>4 DEF Larger, Smaller
  <2>6. x + 2 + size <= t
    BY <1>2, <2>1, <2>4, <2>5
  <2> QED
    BY <2>5, <2>6 DEF t
<1>8. ASSUME NEW j \in DOMAIN columns
      PROVE  b.x2 <= columns[j].box.x1 \/ columns[j].box.x2 < b.x1
  <2> DEFINE l == columns[j].box.x1
             r == columns[j].box.x2
  <2>1. i \in Int /\ j \in Int /\ l \in Int /\ r \in Int /\ l < r
    BY <1>1
  <2>2. columns[i].box.x1 \in Int /\ columns[i].box.x1 < x
    BY <1>1
  <2>3. CASE j < i
    <3>1. r + 2 <= columns[i].box.x1
      BY <1>1, <2>3
    <3> HIDE DEF r, l, x, size
    <3>2. r < x + 2
      BY <1>2, <2>1, <2>2, <3>1
    <3> QED
      BY <1>4, <3>2 DEF r
  <2>4. CASE j = i
    <3>1. r = x
      BY <2>4
    <3> HIDE DEF l, size
    <3>2. r < x + 2
      BY <1>2, <3>1
    <3> QED
      BY <1>4, <3>2 DEF r
  <2>5. CASE i < j
    <3>1. x + 2 <= l
      BY <1>1, <2>5
    <3> HIDE DEF l
    <3>2. l > x
      BY <1>2, <2>1, <3>1
    <3>3. l \in right
      <4>1. columns[j] \in Range(columns)
        BY DEF Range
      <4> QED
        BY <3>2, <4>1 DEF l
    <3> HIDE DEF right, x, size, gutter
    <3>4. gutter.to <= l
      BY <1>6, <3>3
    <3>5. x + 2 + size <= l
      BY <1>2, <1>6, <1>7, <2>1, <3>4
    <3> QED
      BY <1>4, <3>5 DEF l
  <2> QED
    BY <2>1, <2>3, <2>4, <2>5
<1>9. b.x2 <= w
  <2> HIDE DEF w, x, size, gutter
  <2> QED
    BY <1>2, <1>4, <1>6, <1>7
<1> QED
  BY <1>8, <1>9 DEF Range

-----------------------------------------------------------------------------
(* Readings and their words.                                                *)

(* What one segment adds to the readings.                                   *)
Attached(text, spans, done, s) ==
    LET p == Find(text, s.text, done.cursor)
        last == p + Len(s.text) - 1
    IN  IF s.text = <<>> \/ p = 0 THEN done
        ELSE [cursor |-> last,
              ruby |-> IF s.furigana = 0 THEN done.ruby
                       ELSE Append(done.ruby, [kana |-> s.furigana,
                                y0 |-> spans[p].y0, y1 |-> spans[last].y1])]

(* The readings of segments.                                                *)
Kana(spans) ==
    [kana : Nat, y0 : {spans[p].y0 : p \in Int}, y1 : {spans[p].y1 : p \in Int}]

Readings(spans) == [cursor : Int, ruby : Seq(Kana(spans))]

(* A search answers a place or 0.                                           *)
LEMMA FindIsPlace ==
    ASSUME NEW text \in Seq(Nat), NEW surface \in Seq(Nat), NEW cursor \in Int
    PROVE  Find(text, surface, cursor) \in Int
<1> DEFINE I == (cursor + 1)..(Len(text) - Len(surface) + 1)
           found == {p \in I : SubSeq(text, p, p + Len(surface) - 1) = surface}
<1>1. cursor + 1 \in Int /\ Len(text) - Len(surface) + 1 \in Int
  OBVIOUS
<1>2. IsFiniteSet(I)
  BY <1>1, FS_Interval
<1>3. Find(text, surface, cursor) = IF found = {} THEN 0 ELSE Min(found)
  BY DEF Find
<1>4. found \in SUBSET I
  OBVIOUS
<1>5. \A p \in I : p \in Int
  BY <1>1
<1> HIDE DEF found, I
<1>6. found \in SUBSET Int /\ IsFiniteSet(found)
  BY <1>2, <1>4, <1>5, FS_Subset
<1>7. CASE found = {}
  BY <1>3, <1>7
<1>8. CASE found # {}
  <2>1. Min(found) \in found
    BY <1>6, <1>8, MinOfFinite
  <2>2. Min(found) \in Int
    BY <1>6, <2>1
  <2> QED
    BY <1>3, <1>8, <2>2
<1> QED
  BY <1>7, <1>8

(* A segment leaves readings.                                               *)
LEMMA AttachedAreReadings ==
    ASSUME NEW text \in Seq(Nat), NEW spans, NEW done \in Readings(spans), NEW s,
           s.text \in Seq(Nat), s.furigana \in Nat
    PROVE  Attached(text, spans, done, s) \in Readings(spans)
<1> DEFINE p == Find(text, s.text, done.cursor)
           last == p + Len(s.text) - 1
           new == [kana |-> s.furigana, y0 |-> spans[p].y0, y1 |-> spans[last].y1]
           ruby == IF s.furigana = 0 THEN done.ruby ELSE Append(done.ruby, new)
<1>1. done.cursor \in Int /\ done.ruby \in Seq(Kana(spans))
  BY DEF Readings
<1>2. p \in Int
  BY <1>1, FindIsPlace
<1>3. last \in Int
  <2> HIDE DEF p
  <2> QED
    BY <1>2
<1>4. Attached(text, spans, done, s)
        = IF s.text = <<>> \/ p = 0 THEN done ELSE [cursor |-> last, ruby |-> ruby]
  BY DEF Attached
<1> HIDE DEF p, last
<1>5. new \in Kana(spans)
  <2> DEFINE k == s.furigana
  <2>1. k \in Nat /\ p \in Int /\ last \in Int
    BY <1>2, <1>3
  <2> DEFINE y0 == spans[p].y0
             y1 == spans[last].y1
  <2>2. y0 \in {spans[q].y0 : q \in Int} /\ y1 \in {spans[q].y1 : q \in Int}
    BY <2>1
  <2> HIDE DEF k, y0, y1
  <2>4. [kana |-> k, y0 |-> y0, y1 |-> y1] \in Kana(spans)
    BY <2>1, <2>2 DEF Kana
  <2> QED
    BY <2>4 DEF k, y0, y1
<1> HIDE DEF new
<1>6. ruby \in Seq(Kana(spans))
  <2> DEFINE K == Kana(spans)
  <2> HIDE DEF K
  <2>1. done.ruby \in Seq(K) /\ new \in K
    BY <1>1, <1>5 DEF K
  <2>2. Append(done.ruby, new) \in Seq(K)
    BY <2>1
  <2> QED
    BY <2>1, <2>2 DEF K
<1> HIDE DEF ruby
<1>7. [cursor |-> last, ruby |-> ruby] \in Readings(spans)
  BY <1>3, <1>6 DEF Readings
<1> QED
  BY <1>4, <1>7

(* n segments, each a text and a number of kana.                            *)
AreSegments(segments, n) ==
    /\ DOMAIN segments = 1..n /\ Len(segments) = n
    /\ \A k \in 1..n : segments[k].text \in Seq(Nat) /\ segments[k].furigana \in Nat

(* acc[k] is what is attached after the first k of n segments.              *)
AreAttached(acc, text, spans, n, segments) ==
    /\ acc[0] = [cursor |-> 0, ruby |-> <<>>]
    /\ \A k \in 1..n : acc[k] = Attached(text, spans, acc[k - 1], segments[k])

(* RubyFor as steps: what is attached after each segment.                   *)
LEMMA RubySteps ==
    ASSUME NEW text \in Seq(Nat), NEW spans, NEW n \in Nat, NEW segments,
           AreSegments(segments, n)
    PROVE  \E acc : /\ AreAttached(acc, text, spans, n, segments)
                    /\ RubyFor(text, spans, segments) = acc[n].ruby
<1> DEFINE A == Readings(spans)
           base == [cursor |-> 0, ruby |-> <<>>]
           op(done, s) == LET p == Find(text, s.text, done.cursor)
                              last == p + Len(s.text) - 1 IN
                          IF s.text = <<>> \/ p = 0 THEN done
                          ELSE [cursor |-> last,
                                ruby |-> IF s.furigana = 0 THEN done.ruby
                                         ELSE Append(done.ruby, [kana |-> s.furigana,
                                                  y0 |-> spans[p].y0, y1 |-> spans[last].y1])]
           D == [k \in 1..n |-> [a \in A |-> op(a, segments[k])]]
           iter[s \in SUBSET (1..n)] ==
                IF s = {} THEN base ELSE op(iter[s \ {Max(s)}], segments[Max(s)])
<1>1. /\ DOMAIN segments = 1..n /\ Len(segments) = n
      /\ \A k \in 1..n : segments[k].text \in Seq(Nat) /\ segments[k].furigana \in Nat
  BY DEF AreSegments
<1>2. \A a, s : op(a, s) = Attached(text, spans, a, s)
  BY DEF Attached
<1>3. FoldLeft(op, base, segments) = iter[1..n]
  BY <1>1 DEF FoldLeft, MapThenFoldSet
<1>4. RubyFor(text, spans, segments) = FoldLeft(op, base, segments).ruby
  BY DEF RubyFor
<1> HIDE DEF op
<1>5. D \in [1..n -> [A -> A]]
  <2>1. ASSUME NEW k \in 1..n, NEW a \in A PROVE op(a, segments[k]) \in A
    BY <1>1, <1>2, AttachedAreReadings
  <2> HIDE DEF A
  <2> QED
    BY <2>1
<1>6. base \in A
  BY DEF Readings
<1>7. PICK h : IsFold(h, n, A, base, D)
  <2> HIDE DEF D, A, base
  <2> QED
    BY <1>5, <1>6, FoldExists
<1>8. h = [s \in SUBSET (1..n) |-> IF s = {} THEN base ELSE op(h[s \ {Max(s)}], segments[Max(s)])]
  <2>1. ASSUME NEW s \in SUBSET (1..n), s # {}
        PROVE  D[Max(s)][h[s \ {Max(s)}]] = op(h[s \ {Max(s)}], segments[Max(s)])
    <3>1. Max(s) \in 1..n
      BY <2>1, MaxUpTo
    <3>2. h[s \ {Max(s)}] \in A
      BY <1>7 DEF IsFold
    <3> HIDE DEF A
    <3> QED
      BY <3>1, <3>2
  <2> HIDE DEF D, A, base
  <2> QED
    BY <1>7, <2>1 DEF IsFold
<1>9. iter = [s \in SUBSET (1..n) |-> IF s = {} THEN base ELSE op(iter[s \ {Max(s)}], segments[Max(s)])]
  <2> HIDE DEF D, A, base
  <2> QED
    BY <1>8
<1> DEFINE acc == [k \in 0..n |-> iter[1..k]]
<1>10. acc[0] = base
  <2>1. 1..0 = {} /\ {} \in SUBSET (1..n) /\ 0 \in 0..n
    OBVIOUS
  <2> HIDE DEF iter, base
  <2> QED
    BY <1>9, <2>1
<1>11. ASSUME NEW k \in 1..n PROVE acc[k] = op(acc[k - 1], segments[k])
  <2>1. k \in 0..n /\ k - 1 \in 0..n /\ k \in Nat \ {0} /\ 1..k \in SUBSET (1..n)
    OBVIOUS
  <2>2. 1..k # {} /\ Max(1..k) = k /\ (1..k) \ {k} = 1..(k - 1)
    BY <2>1, FoldStep
  <2> HIDE DEF iter, base
  <2>3. iter[1..k] = op(iter[1..(k - 1)], segments[k])
    BY <1>9, <2>1, <2>2
  <2> QED
    BY <2>1, <2>3
<1>12. RubyFor(text, spans, segments) = acc[n].ruby
  <2>1. n \in 0..n
    OBVIOUS
  <2>2. FoldLeft(op, base, segments) = acc[n]
    <3> HIDE DEF iter, base
    <3> QED
      BY <2>1, <1>3
  <2> QED
    BY <1>4, <2>2
<1> HIDE DEF acc
<1>13. acc[0] = [cursor |-> 0, ruby |-> <<>>]
  BY <1>10
<1>14. \A k \in 1..n : acc[k] = Attached(text, spans, acc[k - 1], segments[k])
  BY <1>2, <1>11
<1>15. AreAttached(acc, text, spans, n, segments)
  BY <1>13, <1>14 DEF AreAttached
<1> QED
  BY <1>12, <1>15

(* Where the words of a text end and where the one that ends at e may       *)
(* begin: the parts of WordsOf.                                             *)
WordEnds(text, cut) ==
    {i \in DOMAIN text : text[i] # 0 /\ (i = Len(text) \/ text[i + 1] = 0 \/ i \in cut)}

WordStarts(text, ends, e) == {i \in 1..e : i = 1 \/ text[i - 1] = 0 \/ i - 1 \in ends} \ {0}

WordEnd(ends, k) == CHOOSE e \in ends : Cardinality({f \in ends : f <= e}) = k

(* The ends of finitely many words in their order.                          *)
LEMMA EndsInOrder ==
    ASSUME NEW ends \in SUBSET Int, IsFiniteSet(ends)
    PROVE  /\ Cardinality(ends) \in Nat
           /\ \A k \in 1..Cardinality(ends) : WordEnd(ends, k) \in ends
           /\ \A j, k \in 1..Cardinality(ends) : j < k => WordEnd(ends, j) < WordEnd(ends, k)
           /\ \A x \in ends : \E k \in 1..Cardinality(ends) : WordEnd(ends, k) = x
<1> DEFINE n == Cardinality(ends)
           R == {p \in ends \X ends : p[1] < p[2]}
           at == [k \in 1..n |-> WordEnd(ends, k)]
<1>1. n \in Nat
  BY FS_CardinalityType
<1>2. \A x, y \in ends : <<x, y>> \in R <=> x < y
  OBVIOUS
<1> HIDE DEF R
<1>3. StrictOrder(R, ends)
  BY <1>2 DEF StrictOrder
<1>4. ASSUME NEW x \in ends
      PROVE  /\ Cardinality({f \in ends : f <= x}) = Cardinality(Below(R, ends, x)) + 1
             /\ Cardinality(Below(R, ends, x)) \in Nat
  <2> DEFINE B == Below(R, ends, x)
  <2>1. {f \in ends : f <= x} = B \cup {x} /\ x \notin B /\ B \in SUBSET ends
    <3>1. \A f \in ends : f \in B <=> f < x
      BY <1>2 DEF Below
    <3>2. B \in SUBSET ends
      BY DEF Below
    <3>3. \A f \in ends : f <= x <=> f < x \/ f = x
      OBVIOUS
    <3> HIDE DEF B
    <3>4. x \notin B
      BY <3>1
    <3> QED
      BY <3>1, <3>2, <3>3, <3>4
  <2> HIDE DEF B
  <2>2. IsFiniteSet(B)
    BY <2>1, FS_Subset
  <2>3. Cardinality(B \cup {x}) = Cardinality(B) + 1
    BY <2>1, <2>2, FS_AddElement
  <2>4. Cardinality(B) \in Nat
    BY <2>2, FS_CardinalityType
  <2> QED
    BY <2>1, <2>3, <2>4 DEF B
<1>5. ASSUME NEW k \in 1..n
      PROVE  at[k] \in ends /\ Cardinality(Below(R, ends, at[k])) = k - 1
  <2>1. PICK x \in ends : Cardinality(Below(R, ends, x)) = k - 1
    BY <1>3, RankOnto
  <2>2. Cardinality({f \in ends : f <= x}) = k
    BY <1>1, <1>4, <2>1
  <2>3. at[k] \in ends /\ Cardinality({f \in ends : f <= at[k]}) = k
    BY <2>2 DEF WordEnd
  <2> HIDE DEF at
  <2>4. k = Cardinality(Below(R, ends, at[k])) + 1 /\ Cardinality(Below(R, ends, at[k])) \in Nat
    BY <1>4, <2>3
  <2> QED
    BY <2>3, <2>4
<1>6. at \in [1..n -> ends] /\ DOMAIN at = 1..n
  BY <1>5
<1>7. \A k \in 1..n : at[k] = WordEnd(ends, k)
  OBVIOUS
<1> HIDE DEF at
<1>8. /\ Enumerates(at, ends)
      /\ \A j, k \in 1..n : j < k => <<at[j], at[k]>> \in R
  BY <1>3, <1>5, <1>6, EnumeratedByRank
<1>9. \A j, k \in 1..n : j < k => at[j] < at[k]
  BY <1>2, <1>5, <1>8
<1>10. \A x \in ends : \E k \in 1..n : at[k] = x
  BY <1>6, <1>8 DEF Enumerates
<1> QED
  BY <1>1, <1>5, <1>7, <1>9, <1>10

(* Where the words of a text lie: each begins with a character, after the   *)
(* one before it, and between the two is white space only.                  *)
AreWords(words, n, text) ==
    /\ DOMAIN words = 1..n
    /\ \A k \in 1..n :
        LET before == IF k = 1 THEN 0 ELSE words[k - 1].to IN
        /\ words[k].from \in 1..Len(text) /\ words[k].to \in 1..Len(text)
        /\ words[k].from <= words[k].to
        /\ before < words[k].from /\ text[words[k].from] # 0
        /\ \A p \in (before + 1)..(words[k].from - 1) : text[p] = 0

(* WordsOf finds such words.                                                *)
LEMMA WordsAreFound ==
    ASSUME NEW text \in Seq(Nat), NEW cut
    PROVE  \E n \in Nat : AreWords(WordsOf(text, cut), n, text)
<1> DEFINE N == Len(text)
           ends == WordEnds(text, cut)
           n == Cardinality(ends)
           e(k) == WordEnd(ends, k)
           starts(k) == WordStarts(text, ends, e(k))
           start(k) == Max(starts(k))
           words == WordsOf(text, cut)
<1>1. N \in Nat /\ DOMAIN text = 1..N
  OBVIOUS
<1>2. words = [k \in 1..n |-> [from |-> start(k), to |-> e(k)]]
  BY DEF WordsOf, WordEnds, WordEnd, WordStarts
<1>3. ends \in SUBSET (1..N) /\ \A x \in ends : text[x] # 0
  BY <1>1 DEF WordEnds
<1>4. ASSUME NEW x \in 1..N, text[x] # 0, text[x + 1] = 0 PROVE x \in ends
  BY <1>1, <1>4 DEF WordEnds
<1> HIDE DEF ends, words, N
<1>5. IsFiniteSet(ends) /\ ends \in SUBSET Int
  <2>1. IsFiniteSet(1..N)
    BY <1>1, FS_Interval
  <2>2. IsFiniteSet(ends)
    BY <1>3, <2>1, FS_Subset
  <2> QED
    BY <1>1, <1>3, <2>2
<1>6. /\ n \in Nat /\ \A k \in 1..n : e(k) \in ends
      /\ \A j, k \in 1..n : j < k => e(j) < e(k)
      /\ \A x \in ends : \E k \in 1..n : e(k) = x
  BY <1>5, EndsInOrder
<1> HIDE DEF n, e
<1> DEFINE before(k) == IF k = 1 THEN 0 ELSE e(k - 1)
<1>7. ASSUME NEW k \in 1..n
      PROVE  /\ before(k) \in 0..N /\ before(k) < e(k) /\ e(k) \in 1..N
             /\ before(k) = 0 \/ before(k) \in ends
             /\ \A x \in ends : x <= before(k) \/ e(k) <= x
  <2>1. e(k) \in ends /\ e(k) \in 1..N
    BY <1>3, <1>6
  <2>2. CASE k = 1
    <3>1. ASSUME NEW x \in ends PROVE e(1) <= x
      <4>1. PICK j \in 1..n : e(j) = x
        BY <1>6
      <4>2. e(j) \in 1..N /\ e(1) \in 1..N
        BY <1>3, <1>6, <2>2
      <4>3. 1 < j => e(1) < e(j)
        BY <1>6, <2>2
      <4>4. j = 1 \/ 1 < j
        BY <1>6
      <4> QED
        BY <1>1, <4>1, <4>2, <4>3, <4>4
    <3>2. before(k) = 0
      BY <2>2
    <3> QED
      BY <1>1, <2>1, <2>2, <3>1, <3>2
  <2>3. CASE k # 1
    <3>1. k - 1 \in 1..n /\ k - 1 < k
      BY <1>6, <2>3
    <3>2. before(k) = e(k - 1)
      BY <2>3
    <3>3. e(k - 1) \in ends /\ e(k - 1) \in 1..N /\ e(k - 1) < e(k)
      BY <1>3, <1>6, <3>1
    <3>4. ASSUME NEW x \in ends PROVE x <= e(k - 1) \/ e(k) <= x
      <4>1. PICK j \in 1..n : e(j) = x
        BY <1>6
      <4>2. e(j) \in 1..N
        BY <1>3, <1>6
      <4>3. j < k - 1 \/ j = k - 1 \/ j = k \/ k < j
        BY <1>6, <3>1
      <4>4. (j < k - 1 => e(j) < e(k - 1)) /\ (k < j => e(k) < e(j))
        BY <1>6, <3>1
      <4> QED
        BY <1>1, <2>1, <3>3, <4>1, <4>2, <4>3, <4>4
    <3> HIDE DEF before
    <3>5. before(k) \in 0..N /\ before(k) < e(k)
      BY <1>1, <3>2, <3>3
    <3> QED
      BY <2>1, <3>2, <3>3, <3>4, <3>5
  <2> QED
    BY <2>2, <2>3
<1> HIDE DEF before
<1>8. ASSUME NEW k \in 1..n
      PROVE  /\ start(k) \in 1..N /\ start(k) <= e(k) /\ before(k) < start(k)
             /\ text[start(k)] # 0
             /\ \A p \in (before(k) + 1)..(start(k) - 1) : text[p] = 0
  <2> DEFINE b == before(k)
             f == e(k)
             T == starts(k)
             s == Max(T)
  <2>1. /\ b \in 0..N /\ b < f /\ f \in 1..N /\ (b = 0 \/ b \in ends)
        /\ \A x \in ends : x <= b \/ f <= x
    BY <1>7
  <2>2. \A i : i \in T <=> i \in 1..f /\ (i = 1 \/ text[i - 1] = 0 \/ i - 1 \in ends)
    BY <1>1, <2>1 DEF WordStarts
  <2>3. start(k) = s
    OBVIOUS
  <2> HIDE DEF T, b, f
  <2>4. b + 1 \in T
    <3>1. b + 1 \in 1..f /\ (b + 1) - 1 = b
      BY <1>1, <2>1
    <3>2. b = 0 => b + 1 = 1
      OBVIOUS
    <3> QED
      BY <2>1, <2>2, <3>1, <3>2
  <2>5. s \in T /\ \A i \in T : i <= s
    <3>1. T \in SUBSET (1..f)
      BY <2>2
    <3>2. IsFiniteSet(1..f)
      BY <1>1, <2>1, FS_Interval
    <3>3. IsFiniteSet(T)
      BY <3>1, <3>2, FS_Subset
    <3>4. T \in SUBSET Int
      BY <1>1, <2>1, <3>1
    <3> QED
      BY <2>4, <3>3, <3>4, MaxOfFinite
  <2> HIDE DEF s
  <2>6. s \in 1..f /\ s <= f /\ b < s /\ s \in 1..N /\ f \in Int /\ b \in Int
    <3>1. s \in 1..f /\ b + 1 <= s
      BY <2>2, <2>4, <2>5
    <3> QED
      BY <1>1, <2>1, <3>1
  <2>7. text[s] # 0
    <3> SUFFICES ASSUME text[s] = 0 PROVE FALSE
      OBVIOUS
    <3>1. f \in ends
      BY <1>6 DEF f
    <3>2. s # f
      BY <1>3, <3>1
    <3>3. s + 1 \in 1..f /\ (s + 1) - 1 = s /\ ~(s + 1 <= s)
      BY <2>6, <3>2
    <3>4. s + 1 \in T
      BY <2>2, <3>3
    <3> QED
      BY <2>5, <3>3, <3>4
  <2>8. ASSUME NEW p \in (b + 1)..(s - 1) PROVE text[p] = 0
    <3> DEFINE U == {q \in (b + 1)..(s - 1) : text[q] # 0}
    <3> SUFFICES ASSUME U # {} PROVE FALSE
      OBVIOUS
    <3>1. U \in SUBSET ((b + 1)..(s - 1)) /\ b + 1 \in Int /\ s - 1 \in Int
      BY <2>6
    <3>2. IsFiniteSet((b + 1)..(s - 1))
      BY <3>1, FS_Interval
    <3> DEFINE q == Max(U)
    <3>3. q \in U /\ \A x \in U : x <= q
      <4>1. U \in SUBSET Int
        BY <3>1
      <4> HIDE DEF U
      <4>2. IsFiniteSet(U)
        BY <3>1, <3>2, FS_Subset
      <4> QED
        BY <4>1, <4>2, MaxOfFinite
    <3>4. q \in (b + 1)..(s - 1) /\ text[q] # 0
      BY <3>3
    <3> HIDE DEF q
    <3>5. q \in Int /\ b < q /\ q < s /\ q \in 1..N /\ q < f
      BY <1>1, <2>1, <2>6, <3>4
    <3>6. CASE q + 1 = s
      <4>1. s # 1 /\ s - 1 = q
        BY <1>1, <3>5, <3>6
      <4>2. text[q] = 0 \/ q \in ends
        BY <2>2, <2>5, <4>1
      <4>3. q \in ends
        BY <3>4, <4>2
      <4>4. q <= b \/ f <= q
        BY <2>1, <4>3
      <4> QED
        BY <2>6, <3>5, <4>4
    <3>7. CASE q + 1 # s
      <4>1. q + 1 \in (b + 1)..(s - 1) /\ ~(q + 1 <= q)
        BY <2>6, <3>5, <3>7
      <4>2. text[q + 1] = 0
        <5>1. q + 1 \notin U
          BY <3>3, <4>1
        <5> QED
          BY <4>1, <5>1
      <4>3. q \in ends
        BY <1>4, <3>4, <3>5, <4>2
      <4>4. q <= b \/ f <= q
        BY <2>1, <4>3
      <4> QED
        BY <2>6, <3>5, <4>4
    <3> QED
      BY <3>6, <3>7
  <2> QED
    BY <2>3, <2>6, <2>7, <2>8 DEF b, f
<1> HIDE DEF start
<1>9. DOMAIN words = 1..n /\ \A k \in 1..n : words[k].from = start(k) /\ words[k].to = e(k)
  BY <1>2
<1>10. ASSUME NEW k \in 1..n
       PROVE  LET prior == IF k = 1 THEN 0 ELSE words[k - 1].to IN
              /\ words[k].from \in 1..N /\ words[k].to \in 1..N
              /\ words[k].from <= words[k].to
              /\ prior < words[k].from /\ text[words[k].from] # 0
              /\ \A p \in (prior + 1)..(words[k].from - 1) : text[p] = 0
  <2>1. (IF k = 1 THEN 0 ELSE words[k - 1].to) = before(k)
    <3>1. k # 1 => k - 1 \in 1..n
      BY <1>6
    <3> QED
      BY <1>9, <3>1 DEF before
  <2>2. words[k].from = start(k) /\ words[k].to = e(k) /\ e(k) \in 1..N
    BY <1>7, <1>9
  <2> QED
    BY <1>8, <2>1, <2>2
<1>11. AreWords(words, n, text)
  BY <1>9, <1>10 DEF AreWords, N
<1> QED
  BY <1>6, <1>11 DEF words

(* A word is found where it stands: only white space comes before it.       *)
LEMMA WordIsFound ==
    ASSUME NEW text \in Seq(Nat), NEW from \in 1..Len(text), NEW to \in 1..Len(text), from <= to,
           NEW cursor \in Nat, cursor < from, text[from] # 0,
           \A p \in (cursor + 1)..(from - 1) : text[p] = 0
    PROVE  /\ Find(text, SubSeq(text, from, to), cursor) = from
           /\ SubSeq(text, from, to) \in Seq(Nat) /\ Len(SubSeq(text, from, to)) = to - from + 1
<1> DEFINE n == Len(text)
           word == SubSeq(text, from, to)
           found == {p \in (cursor + 1)..(n - Len(word) + 1) :
                        SubSeq(text, p, p + Len(word) - 1) = word}
<1>1. n \in Nat /\ from \in Int /\ to \in Int
  OBVIOUS
<1>2. ASSUME NEW p \in 1..n, NEW q \in 1..n, p <= q
      PROVE  /\ SubSeq(text, p, q) \in Seq(Nat) /\ Len(SubSeq(text, p, q)) = q - p + 1
             /\ SubSeq(text, p, q)[1] = text[p]
  BY <1>2
<1>3. word \in Seq(Nat) /\ Len(word) = to - from + 1 /\ word[1] = text[from]
  BY <1>2
<1>4. Find(text, word, cursor) = IF found = {} THEN 0 ELSE Min(found)
  BY DEF Find
<1> HIDE DEF word, n
<1>5. from \in found
  <2>1. from \in (cursor + 1)..(n - Len(word) + 1) /\ from + Len(word) - 1 = to
    BY <1>1, <1>3 DEF n
  <2> QED
    BY <2>1 DEF word
<1>6. ASSUME NEW p \in found PROVE p \in Int /\ from <= p
  <2>1. p \in (cursor + 1)..(n - Len(word) + 1) /\ SubSeq(text, p, p + Len(word) - 1) = word
    OBVIOUS
  <2> HIDE DEF found
  <2>2. p \in Int /\ p \in 1..n /\ p + Len(word) - 1 \in 1..n /\ p <= p + Len(word) - 1
    BY <1>1, <1>3, <2>1 DEF n
  <2>3. text[p] = text[from]
    BY <1>2, <1>3, <2>1, <2>2
  <2>4. ~(p < from)
    <3>1. p < from => p \in (cursor + 1)..(from - 1)
      BY <1>1, <2>1, <2>2
    <3> QED
      BY <2>3, <3>1
  <2> QED
    BY <1>1, <2>2, <2>4
<1> HIDE DEF found
<1>7. found \in SUBSET Int /\ from \in found /\ \A p \in found : from <= p
  BY <1>5, <1>6
<1>8. Min(found) = from
  BY <1>7, MinIs
<1>9. found # {}
  BY <1>5
<1> QED
  BY <1>3, <1>4, <1>8, <1>9 DEF word

(* The words as segments, each with its number for a reading, and the       *)
(* readings over them.                                                      *)
SegmentsOf(text, words) ==
    [k \in DOMAIN words |-> [text |-> SubSeq(text, words[k].from, words[k].to), furigana |-> k]]

ReadingsOver(spans, words) ==
    [k \in DOMAIN words |->
        [kana |-> k, y0 |-> spans[words[k].from].y0, y1 |-> spans[words[k].to].y1]]

(* What is drawn of a text is the reading of every word, over the word.     *)
LEMMA RubyIsOverWords ==
    ASSUME NEW text \in Seq(Nat), NEW spans, NEW n \in Nat, NEW words, AreWords(words, n, text)
    PROVE  RubyFor(text, spans, SegmentsOf(text, words)) = ReadingsOver(spans, words)
<1> DEFINE N == Len(text)
           segments == SegmentsOf(text, words)
           over(k) == [kana |-> k, y0 |-> spans[words[k].from].y0, y1 |-> spans[words[k].to].y1]
           before(k) == IF k = 1 THEN 0 ELSE words[k - 1].to
<1>1. N \in Nat /\ DOMAIN words = 1..n
  BY DEF AreWords
<1>2. ASSUME NEW k \in 1..n
      PROVE  /\ words[k].from \in 1..N /\ words[k].to \in 1..N /\ words[k].from <= words[k].to
             /\ before(k) < words[k].from /\ text[words[k].from] # 0
             /\ \A p \in (before(k) + 1)..(words[k].from - 1) : text[p] = 0
  BY DEF AreWords
<1>3. ASSUME NEW k \in 1..n PROVE before(k) \in Nat
  <2>1. CASE k = 1
    BY <2>1
  <2>2. CASE k # 1
    <3>1. k - 1 \in 1..n
      BY <2>2
    <3>2. words[k - 1].to \in 1..N
      BY <1>2, <3>1
    <3> QED
      BY <1>1, <2>2, <3>2
  <2> QED
    BY <2>1, <2>2
<1>4. DOMAIN segments = 1..n /\ \A k \in 1..n :
            /\ segments[k].text = SubSeq(text, words[k].from, words[k].to)
            /\ segments[k].furigana = k
  BY <1>1 DEF SegmentsOf
<1>5. Len(segments) = n
  <2>1. segments = [k \in 1..n |-> segments[k]]
    BY <1>1 DEF SegmentsOf
  <2> HIDE DEF segments
  <2> QED
    BY <2>1
<1> HIDE DEF segments, before, over, N
<1>6. ASSUME NEW k \in 1..n
      PROVE  /\ Find(text, segments[k].text, before(k)) = words[k].from
             /\ segments[k].text \in Seq(Nat) /\ segments[k].furigana \in Nat
             /\ Len(segments[k].text) = words[k].to - words[k].from + 1
  <2> DEFINE from == words[k].from
             to == words[k].to
             b == before(k)
  <2>1. /\ from \in 1..Len(text) /\ to \in 1..Len(text) /\ from <= to /\ b \in Nat /\ b < from
        /\ text[from] # 0 /\ \A p \in (b + 1)..(from - 1) : text[p] = 0
    BY <1>2, <1>3 DEF N
  <2> HIDE DEF from, to, b
  <2>2. /\ Find(text, SubSeq(text, from, to), b) = from
        /\ SubSeq(text, from, to) \in Seq(Nat) /\ Len(SubSeq(text, from, to)) = to - from + 1
    BY <2>1, WordIsFound
  <2>3. segments[k].text = SubSeq(text, from, to) /\ segments[k].furigana = k /\ k \in Nat
    BY <1>4 DEF from, to
  <2> QED
    BY <2>2, <2>3 DEF from, to, b
<1>7. PICK acc : /\ AreAttached(acc, text, spans, n, segments)
                 /\ RubyFor(text, spans, segments) = acc[n].ruby
  <2>1. AreSegments(segments, n)
    BY <1>4, <1>5, <1>6 DEF AreSegments
  <2> QED
    BY <2>1, RubySteps
<1>8. /\ acc[0] = [cursor |-> 0, ruby |-> <<>>]
       /\ \A k \in 1..n : acc[k] = Attached(text, spans, acc[k - 1], segments[k])
  BY <1>7 DEF AreAttached
<1> DEFINE Q(m) == m <= n => acc[m] = [cursor |-> IF m = 0 THEN 0 ELSE words[m].to,
                                       ruby |-> [k \in 1..m |-> over(k)]]
           P == {m \in Nat : Q(m)}
<1>9. Q(0)
  <2>1. <<>> = [k \in 1..0 |-> over(k)]
    OBVIOUS
  <2> QED
    BY <1>8, <2>1
<1>10. ASSUME NEW m \in Nat, Q(m) PROVE Q(m + 1)
  <2> SUFFICES ASSUME m + 1 <= n
               PROVE  acc[m + 1] = [cursor |-> IF m + 1 = 0 THEN 0 ELSE words[m + 1].to,
                                    ruby |-> [k \in 1..(m + 1) |-> over(k)]]
    OBVIOUS
  <2> DEFINE j == m + 1
             done == acc[m]
             s == segments[j]
             ruby == [k \in 1..m |-> over(k)]
             last == words[j].from + Len(s.text) - 1
  <2>1. j \in 1..n /\ j - 1 = m /\ m <= n /\ j # 0
    OBVIOUS
  <2>2. done.cursor = before(j) /\ done.ruby = ruby
    <3>1. done = [cursor |-> IF m = 0 THEN 0 ELSE words[m].to, ruby |-> ruby]
      BY <1>10, <2>1
    <3>2. before(j) = IF m = 0 THEN 0 ELSE words[m].to
      <4>1. j = 1 <=> m = 0
        OBVIOUS
      <4> QED
        BY <2>1, <4>1 DEF before
    <3> HIDE DEF done, ruby, j
    <3> QED
      BY <3>1, <3>2
  <2>3. acc[j] = Attached(text, spans, done, s)
    <3>1. acc[j] = Attached(text, spans, acc[j - 1], segments[j])
      BY <1>8, <2>1
    <3> QED
      BY <2>1, <3>1
  <2> HIDE DEF j, done
  <2>4. /\ Find(text, s.text, done.cursor) = words[j].from
        /\ s.text # <<>> /\ words[j].from # 0 /\ last = words[j].to
        /\ s.furigana = j /\ j # 0
    <3> DEFINE from == words[j].from
               to == words[j].to
               t == s.text
    <3>1. from \in 1..N /\ to \in 1..N /\ from <= to
      BY <1>2, <2>1
    <3>2. Len(t) = to - from + 1 /\ Find(text, t, before(j)) = from
      BY <1>6, <2>1
    <3>3. s.furigana = j
      BY <1>4, <2>1
    <3> HIDE DEF from, to, t
    <3>4. from # 0 /\ from + Len(t) - 1 = to /\ Len(t) # 0
      BY <1>1, <3>1, <3>2
    <3>5. t # <<>>
      BY <3>4
    <3> QED
      BY <2>1, <2>2, <3>2, <3>3, <3>4, <3>5 DEF from, to, t
  <2>5. acc[j] = [cursor |-> words[j].to, ruby |-> Append(ruby, over(j))]
    <3> DEFINE p == Find(text, s.text, done.cursor)
               l == p + Len(s.text) - 1
    <3>1. Attached(text, spans, done, s)
            = IF s.text = <<>> \/ p = 0 THEN done
              ELSE [cursor |-> l,
                    ruby |-> IF s.furigana = 0 THEN done.ruby
                             ELSE Append(done.ruby, [kana |-> s.furigana,
                                      y0 |-> spans[p].y0, y1 |-> spans[l].y1])]
      BY DEF Attached
    <3>2. p = words[j].from /\ l = words[j].to
      BY <2>4
    <3> HIDE DEF p, l, s, ruby
    <3>3. Attached(text, spans, done, s)
            = [cursor |-> l, ruby |-> Append(ruby, [kana |-> j, y0 |-> spans[p].y0, y1 |-> spans[l].y1])]
      BY <2>2, <2>4, <3>1, <3>2
    <3>4. over(j) = [kana |-> j, y0 |-> spans[p].y0, y1 |-> spans[l].y1]
      BY <3>2 DEF over
    <3> QED
      BY <2>3, <3>2, <3>3, <3>4
  <2>6. Append(ruby, over(j)) = [k \in 1..j |-> over(k)]
    <3> DEFINE V == {over(k) : k \in 1..j}
               next == [k \in 1..j |-> over(k)]
    <3>1. j = m + 1 /\ m \in Nat
      BY DEF j
    <3>2. ruby \in Seq(V) /\ Len(ruby) = m
      <4>1. \A k \in 1..m : over(k) \in V
        BY <3>1
      <4> HIDE DEF V
      <4>2. ruby \in [1..m -> V]
        BY <4>1
      <4> HIDE DEF ruby
      <4> QED
        BY <4>2
    <3>3. \A k \in 1..m : ruby[k] = over(k)
      OBVIOUS
    <3>4. next = [k \in 1..(m + 1) |-> IF k = m + 1 THEN over(j) ELSE ruby[k]]
      <4>1. \A k \in 1..(m + 1) : over(k) = IF k = m + 1 THEN over(j) ELSE ruby[k]
        <5>1. \A k \in 1..(m + 1) : k = m + 1 \/ k \in 1..m
          OBVIOUS
        <5> HIDE DEF ruby
        <5> QED
          BY <3>1, <3>3, <5>1
      <4> HIDE DEF ruby
      <4> QED
        BY <3>1, <4>1
    <3> DEFINE x == over(j)
               u == Append(ruby, x)
    <3> HIDE DEF ruby, V, next, x
    <3>5. DOMAIN u = 1..(m + 1) /\ u[m + 1] = x /\ \A k \in 1..m : u[k] = ruby[k]
      BY <3>2
    <3>6. u = [k \in 1..(m + 1) |-> u[k]]
      <4> DEFINE W == V \cup {x}
      <4>1. ruby \in Seq(W) /\ x \in W
        BY <3>2
      <4> HIDE DEF W
      <4>2. u \in Seq(W) /\ Len(u) = m + 1
        BY <3>2, <4>1
      <4> HIDE DEF u
      <4>3. u \in [1..(m + 1) -> W]
        BY <4>2
      <4> QED
        BY <4>3
    <3> HIDE DEF u
    <3>7. \A k \in 1..(m + 1) : u[k] = IF k = m + 1 THEN x ELSE ruby[k]
      <4>1. \A k \in 1..(m + 1) : k = m + 1 \/ (k \in 1..m /\ k # m + 1)
        OBVIOUS
      <4> QED
        BY <3>5, <4>1
    <3>8. next = [k \in 1..(m + 1) |-> IF k = m + 1 THEN x ELSE ruby[k]]
      BY <3>4 DEF x
    <3>9. u = next
      BY <3>6, <3>7, <3>8
    <3> QED
      BY <3>9 DEF u, x, next
  <2> QED
    BY <2>1, <2>5, <2>6 DEF j
<1>11. \A m \in Nat : Q(m)
  <2> HIDE DEF Q
  <2>1. 0 \in P
    BY <1>9
  <2>2. \A m \in Nat : m \in P => m + 1 \in P
    BY <1>10
  <2> HIDE DEF P
  <2>3. Nat \subseteq P
    BY <2>1, <2>2, SetInduction
  <2> QED
    BY <2>3 DEF P
<1>12. acc[n].ruby = [k \in 1..n |-> over(k)]
  <2>1. n <= n
    OBVIOUS
  <2>2. acc[n] = [cursor |-> IF n = 0 THEN 0 ELSE words[n].to, ruby |-> [k \in 1..n |-> over(k)]]
    BY <1>11, <2>1
  <2> DEFINE all == [k \in 1..n |-> over(k)]
  <2> HIDE DEF all
  <2>3. acc[n] = [cursor |-> IF n = 0 THEN 0 ELSE words[n].to, ruby |-> all]
    BY <2>2 DEF all
  <2> QED
    BY <2>3 DEF all
<1>13. RubyFor(text, spans, segments) = [k \in 1..n |-> over(k)]
  BY <1>7, <1>12
<1> QED
  BY <1>1, <1>13 DEF segments, over, ReadingsOver

-----------------------------------------------------------------------------
(* The properties of the runs.                                              *)

(* The sample is nothing yet or one of the inputs.                          *)
InputInv ==
    /\ sample.of = "page" => sample.raw \in Inferences
    /\ sample.of = "tall" => sample.page \in TallPages
    /\ sample.of = "crop" => sample.enabled \in BOOLEAN
    /\ sample.of = "passes" => \E p \in LinePairs : sample.first = p[1] /\ sample.second = p[2]
    /\ sample.of = "bubble" => sample.bubble \in Bubbles /\ sample.lines \in BubbleLines
    /\ sample.of = "mask" => sample.mask \in Masks
    /\ sample.of = "english" => /\ sample.words \in WordLists /\ sample.room \in Rooms
                                /\ sample.target \in {0, 14, 24} /\ sample.masked \in BOOLEAN
    /\ sample.of = "furigana" => /\ sample.segments \in FuriganaTexts /\ sample.room \in Rooms
                                 /\ sample.source \in {10, 24, 60} /\ sample.sizes \in SourceSizes
    /\ sample.of = "book" => sample.page \in BookPages
    /\ sample.of = "ruby" => sample.chunks \in ColumnReadings

(* Every action takes its input from its set, and none changes it after.    *)
LEMMA InputsAreTaken == Spec => []InputInv
<1>1. Init => InputInv
  BY DEF Init, InputInv
<1>2. InputInv /\ [Next]_sample => InputInv'
  <2> SUFFICES ASSUME InputInv, [Next]_sample PROVE InputInv'
    OBVIOUS
  <2>1. CASE FinalizePage
    BY <2>1 DEF FinalizePage, Take, InputInv
  <2>2. CASE FinalizeTallPage
    BY <2>2 DEF FinalizeTallPage, Take, InputInv
  <2>3. CASE RouteCrop
    BY <2>3 DEF RouteCrop, Take, InputInv
  <2>4. CASE MergePasses
    BY <2>4 DEF MergePasses, Take, InputInv
  <2>5. CASE PlaceRegions
    BY <2>5 DEF PlaceRegions, Take, InputInv
  <2>6. CASE TileMask
    BY <2>6 DEF TileMask, Take, InputInv
  <2>7. CASE FitEnglish
    BY <2>7 DEF FitEnglish, Take, InputInv
  <2>8. CASE FitFurigana
    BY <2>8 DEF FitFurigana, Take, InputInv
  <2>9. CASE ReadBookPage
    BY <2>9 DEF ReadBookPage, Take, InputInv
  <2>10. CASE AttachRuby
    BY <2>10 DEF AttachRuby, Take, InputInv
  <2>11. CASE UNCHANGED sample
    BY <2>11 DEF InputInv
  <2> QED
    BY <2>1, <2>2, <2>3, <2>4, <2>5, <2>6, <2>7, <2>8, <2>9, <2>10, <2>11 DEF Next
<1> QED
  BY <1>1, <1>2, PTL DEF Spec

(* finalize_detections never hands validate_detection_collection a          *)
(* collection it refuses, neither for a page nor for a page read in strips. *)
THEOREM CollectionAlwaysAccepted == Spec => []CollectionIsAccepted
<1>1. InputInv => CollectionIsAccepted
  <2> SUFFICES ASSUME InputInv PROVE CollectionIsAccepted
    OBVIOUS
  <2>1. ASSUME sample.of = "page"
        PROVE  ValidCollection(Finalized(Adapted(sample.raw), sample.direction))
    <3>1. sample.raw \in Seq(RawDetection)
      BY <2>1, InferencesAssumption DEF InputInv
    <3>2. AreDetections(Adapted(sample.raw))
      BY <3>1, AdaptedDetections
    <3> QED
      BY <3>2, FinalIsValid
  <2>2. ASSUME sample.of = "tall"
        PROVE  ValidCollection(FinalizedStrips(sample.page.strips))
    <3> DEFINE strips == sample.page.strips
    <3>1. /\ DOMAIN strips \in SUBSET Int /\ IsFiniteSet(DOMAIN strips)
          /\ strips \in [DOMAIN strips -> Seq(RawDetection)]
      BY <2>2, TallPagesAssumption DEF InputInv
    <3> HIDE DEF strips
    <3>2. ValidCollection(FinalizedStrips(strips))
      BY <3>1, StripsAreAccepted
    <3> QED
      BY <3>2 DEF strips
  <2> QED
    BY <2>1, <2>2 DEF CollectionIsAccepted
<1> QED
  BY <1>1, InputsAreTaken, PTL

(* No detection of a page is lost on the way to the reader.                 *)
THEOREM EveryDetectionAlwaysRead == Spec => []EveryDetectionIsRead
<1>1. InputInv => EveryDetectionIsRead
  <2> SUFFICES ASSUME InputInv PROVE EveryDetectionIsRead
    OBVIOUS
  <2>1. ASSUME sample.of = "tall",
               NEW y \in 0..(sample.page.height - sample.page.overlap)
        PROVE  \E o \in StripOffsets(sample.page.height, sample.page.max, sample.page.overlap) :
                    /\ o <= y /\ y < o + sample.page.max
                    /\ o <= y + sample.page.overlap - 1
                    /\ y + sample.page.overlap - 1 < o + sample.page.max
    <3>1. /\ sample.page.height \in Nat /\ sample.page.max \in Nat /\ sample.page.overlap \in Nat
          /\ 0 < sample.page.overlap /\ sample.page.overlap < sample.page.max
      BY <2>1, TallPagesAssumption DEF InputInv
    <3> QED
      BY <3>1, StripsOverlap
  <2>2. ASSUME sample.of = "page"
        PROVE  LET found == Adapted(sample.raw)
                   sems  == Finalized(found, sample.direction)
                   read  == {r.sem : r \in Range(ProcessingRegions(sems))}
               IN  /\ \A d \in found : \/ Cardinality({i \in DOMAIN sems : sems[i].id = d.id}) = 1
                                       \/ \E k \in Range(sems) : Duplicates(d, k)
                   /\ \A d \in Range(sems) : d.kind # "panel" => d.id \in read \/ d.parent \in read
    <3>1. sample.raw \in Seq(RawDetection)
      BY <2>2, InferencesAssumption DEF InputInv
    <3>2. AreDetections(Adapted(sample.raw))
      BY <3>1, AdaptedDetections
    <3> QED
      BY <3>2, NothingIsUnread
  <2> QED
    BY <2>1, <2>2 DEF EveryDetectionIsRead
<1> QED
  BY <1>1, InputsAreTaken, PTL

(* route_japanese_crop never turns a trusted reading into an invalid one.   *)
THEOREM FallbackAlwaysImproves == Spec => []FallbackOnlyImproves
<1>1. InputInv => FallbackOnlyImproves
  BY RoutingImproves DEF InputInv, FallbackOnlyImproves
<1> QED
  BY <1>1, InputsAreTaken, PTL

(* Whatever is masked, the tiles cover it and stay on the page.             *)
THEOREM TilesAlwaysCover == Spec => []TilesCoverTheMask
<1>1. InputInv => TilesCoverTheMask
  <2> SUFFICES ASSUME InputInv, sample.of = "mask" PROVE TilesCoverTheMask
    BY DEF TilesCoverTheMask
  <2> DEFINE m == sample.mask
  <2>1. /\ IsFiniteSet(m)
        /\ \A b \in m : b \in BoxSet /\ ValidBox(b) /\ Encloses(PageBox, b)
    BY MasksAssumption DEF InputInv
  <2> QED
    BY <2>1, PageAssumption, TilesCover DEF TilesCoverTheMask
<1> QED
  BY <1>1, InputsAreTaken, PTL

(* Whatever lines are read in a bubble, its regions and their source boxes  *)
(* lie inside of it.                                                        *)
THEOREM RegionAlwaysFits == Spec => []RegionFitsItsBubble
<1>1. InputInv => RegionFitsItsBubble
  <2> SUFFICES ASSUME InputInv, sample.of = "bubble",
                      NEW region \in Range(PrepareRegions(sample.lines))
               PROVE  LET placed == RenderBox(region.lines, sample.bubble, PageBox)
                          source == SourceBoxes(region.lines, sample.bubble)
                      IN  /\ ValidBox(placed) /\ Encloses(sample.bubble.box, placed)
                          /\ \A b \in Range(source) :
                                ValidBox(b) /\ Encloses(sample.bubble.box, b)
    BY DEF RegionFitsItsBubble
  <2>1. /\ sample.bubble.box \in BoxSet /\ ValidBox(sample.bubble.box)
        /\ sample.bubble.mask \in Seq(BoxSet) /\ sample.lines \in Seq(TextDetection)
    BY BubblesAssumption DEF InputInv
  <2>2. region.lines \in Seq(TextDetection)
    BY <2>1, RegionsHaveLines
  <2>3. /\ ValidBox(RenderBox(region.lines, sample.bubble, PageBox))
        /\ Encloses(sample.bubble.box, RenderBox(region.lines, sample.bubble, PageBox))
    BY <2>1, <2>2, PageAssumption, PlacedInside
  <2>4. \A b \in Range(SourceBoxes(region.lines, sample.bubble)) :
            ValidBox(b) /\ Encloses(sample.bubble.box, b)
    BY <2>1, <2>2, SourceInside
  <2> QED
    BY <2>3, <2>4
<1> QED
  BY <1>1, InputsAreTaken, PTL

(* Neither merging the passes of EasyOCR nor stitching the strips of a page *)
(* loses a line.                                                            *)
THEOREM LinesAlwaysSurvive == Spec => []LinesSurviveMerging
<1>1. InputInv => LinesSurviveMerging
  <2> SUFFICES ASSUME InputInv, sample.of = "passes" PROVE LinesSurviveMerging
    BY DEF LinesSurviveMerging
  <2> DEFINE first == sample.first
             second == sample.second
             merged == Range(MergeLines(first, second))
             stitched == Stitched(first \o second)
  <2>1. first \in Seq(TextDetection) /\ second \in Seq(TextDetection) /\ Apart(second)
    BY LinePairsAssumption DEF InputInv
  <2> HIDE DEF first, second
  <2>2. /\ \A l \in Range(first) : \E m \in merged : m = l \/ Overlapping(m.box, l.box)
        /\ \A l \in Range(second) :
                l \in merged \/ \E m \in Range(first) : m = l \/ Overlapping(m.box, l.box)
    BY <2>1, NoLineIsLost
  <2>3. first \o second \in Seq(TextDetection)
    BY <2>1, Concatenation
  <2>4. /\ \A l \in Range(first \o second) \ Range(stitched) :
                \E k \in Range(stitched) : Twice(l.box, k.box) /\ k.score >= l.score
        /\ \A i, j \in DOMAIN stitched : i # j => ~Twice(stitched[i].box, stitched[j].box)
    BY <2>3, StitchingKeepsTheBest
  <2> QED
    BY <2>2, <2>4 DEF LinesSurviveMerging, first, second
<1> QED
  BY <1>1, InputsAreTaken, PTL

(* The font size chosen for English or for furigana is the largest that     *)
(* fits, or the smallest there is.                                          *)
THEOREM SizeAlwaysLargest == Spec => []SizeIsLargestThatFits
<1>1. ASSUME NEW b \in BoxSet, ~TooSmall(Inner(b))
      PROVE  Inner(b).w \in Int /\ Inner(b).h \in Nat
  <2> DEFINE w == Inner(b).w
             h == Inner(b).h
  <2>1. b.x1 \in Int /\ b.x2 \in Int /\ b.y1 \in Int /\ b.y2 \in Int
    BY DEF BoxSet
  <2>2. w \in Int /\ h \in Int
    BY <2>1 DEF Inner, Width, Height, Margin
  <2>3. h >= 10
    <3>1. ~(h < 10)
      BY <1>1 DEF TooSmall
    <3> HIDE DEF h
    <3> QED
      BY <2>2, <3>1
  <2> HIDE DEF w, h
  <2>4. w \in Int /\ h \in Nat
    BY <2>2, <2>3
  <2> QED
    BY <2>4 DEF w, h
<1>2. ASSUME InputInv, sample.of = "english", ~TooSmall(Inner(sample.room))
      PROVE  LET room == Inner(sample.room)
                 high == Min({MaxFont, room.h, IF sample.target = 0 THEN MaxFont ELSE sample.target})
                 fits(s) == HorizontalFits(sample.words, room, s)
             IN  BestSize(HorizontalSize(sample.words, room, sample.target), fits, high)
  <2> DEFINE room == Inner(sample.room)
             words == sample.words
             target == sample.target
             fits(s) == HorizontalFits(words, room, s)
             size == HorizontalSize(words, room, target)
             high == Min({MaxFont, room.h, IF target = 0 THEN MaxFont ELSE target})
  <2>1. sample.room \in BoxSet /\ words \in Seq(Nat \ {0}) /\ target \in Nat
    BY <1>2, WordListsAssumption, RoomsAssumption DEF InputInv
  <2>2. room.w \in Int /\ room.h \in Nat
    BY <1>1, <1>2, <2>1
  <2> HIDE DEF words, target, room
  <2>3. high = LargestAllowed(room, target)
    BY <2>1, <2>2, BoundOfSearch
  <2>4. \/ /\ HorizontalFits(words, room, size)
           /\ \A s \in (size + 1)..LargestAllowed(room, target) : ~HorizontalFits(words, room, s)
        \/ /\ size = MinFont
           /\ \A s \in MinFont..LargestAllowed(room, target) : ~HorizontalFits(words, room, s)
    BY <2>1, <2>2, EnglishSize
  <2> HIDE DEF size, high
  <2>5. BestSize(size, fits, high)
    BY <2>3, <2>4 DEF BestSize
  <2> QED
    BY <2>5 DEF words, target, room, size, high
<1>3. ASSUME InputInv, sample.of = "furigana", ~TooSmall(Inner(sample.room))
      PROVE  LET room  == Inner(sample.room)
                 chars == Characters(sample.segments)
                 fits(s) == ColumnsFit(chars, room, s)
                 size == ColumnSize(chars, room)
             IN  /\ BestSize(size, fits, Smaller(MaxFont, room.h \div 2))
                 /\ \A count \in {1, 6} :
                        FuriganaSize(size, 0, sample.source, PageLimits(sample.sizes), count)
                            <= Larger(size, MinFont)
  <2> DEFINE room == Inner(sample.room)
             chars == Characters(sample.segments)
             fits(s) == ColumnsFit(chars, room, s)
             size == ColumnSize(chars, room)
             high == Smaller(MaxFont, room.h \div 2)
             source == sample.source
             sizes == sample.sizes
  <2>1. /\ sample.room \in BoxSet /\ sample.segments \in Seq([chars : Nat \ {0}, kana : Nat])
        /\ source \in {10, 24, 60} /\ sizes \in Seq(Nat)
    BY <1>3, FuriganaAssumption, RoomsAssumption DEF InputInv
  <2>2. room.w \in Int /\ room.h \in Nat
    BY <1>1, <1>3, <2>1
  <2>3. Len(chars) \in Nat
    BY <2>1, CharactersAreMany
  <2> HIDE DEF chars, room, source, sizes
  <2>4. /\ size \in Nat
        /\ \/ ColumnsFit(chars, room, size) /\ \A s \in (size + 1)..high : ~ColumnsFit(chars, room, s)
           \/ size = MinFont /\ \A s \in MinFont..high : ~ColumnsFit(chars, room, s)
    BY <2>2, <2>3, FuriganaSizeFound
  <2> HIDE DEF size, high
  <2>5. BestSize(size, fits, high)
    BY <2>4 DEF BestSize
  <2>6. ASSUME NEW count \in {1, 6}
        PROVE  FuriganaSize(size, 0, source, PageLimits(sizes), count) <= Larger(size, MinFont)
    <3>1. size \in Nat /\ source \in Int /\ sizes \in Seq(Nat) /\ count \in Int
      BY <2>1, <2>4
    <3> QED
      BY <3>1, LimitsOnlyShrink
  <2> QED
    BY <2>5, <2>6 DEF chars, room, size, high, source, sizes
<1>4. InputInv => SizeIsLargestThatFits
  BY <1>2, <1>3 DEF SizeIsLargestThatFits
<1> QED
  BY <1>4, InputsAreTaken, PTL

(* What a rendering records as fitting, it has drawn in full.                *)
THEOREM FitAlwaysShows == Spec => []FitShowsEveryLetter
<1>1. ASSUME InputInv, sample.of = "english"
      PROVE  /\ sample.words \in Seq(Nat \ {0}) /\ sample.words \in Seq(Nat) /\ sample.room \in BoxSet
             /\ sample.target \in Nat /\ SafeBox \in BoxSet
  <2>1. /\ sample.room \in BoxSet /\ sample.words \in Seq(Nat \ {0}) /\ sample.target \in Nat
    BY <1>1, WordListsAssumption, RoomsAssumption DEF InputInv
  <2>2. SafeBox \in BoxSet
    <3>1. MaskSafeBox(sample.room, sample.room, FALSE) \in BoxSet
      BY <2>1, SafeBoxIsBox
    <3> QED
      BY <2>1, <3>1 DEF SafeBox
  <2> DEFINE words == sample.words
  <2>3. words \in Seq(Nat \ {0}) => words \in Seq(Nat)
    <3> HIDE DEF words
    <3> QED
      OBVIOUS
  <2> QED
    BY <2>1, <2>2, <2>3
<1>2. ASSUME InputInv, sample.of = "english", ~TooSmall(Inner(SafeBox)), NEW stacked \in BOOLEAN,
             RenderEnglish(sample.words, stacked, sample.room, SafeBox, sample.target).status = "fit"
      PROVE  RenderEnglish(sample.words, stacked, sample.room, SafeBox, sample.target).shown
                = Total(sample.words)
  <2> DEFINE words == sample.words
             room == sample.room
             target == sample.target
             safe == SafeBox
  <2>1. words \in Seq(Nat \ {0}) /\ room \in BoxSet /\ target \in Nat /\ safe \in BoxSet
    BY <1>1, <1>2
  <2>2. ~TooSmall(Inner(safe)) /\ RenderEnglish(words, stacked, room, safe, target).status = "fit"
    BY <1>2
  <2> HIDE DEF words, room, target, safe
  <2>3. RenderEnglish(words, stacked, room, safe, target).shown = Total(words)
    BY <2>1, <2>2, EnglishShows
  <2> QED
    BY <2>3 DEF words, room, target, safe
<1>3. ASSUME InputInv, sample.of = "english",
             RenderDialogue(sample.words, sample.room).status = "fit"
      PROVE  RenderDialogue(sample.words, sample.room).shown = Total(sample.words)
  BY <1>1, <1>3, DialogueShows
<1>4. InputInv => FitShowsEveryLetter
  BY <1>2, <1>3 DEF FitShowsEveryLetter
<1> QED
  BY <1>4, InputsAreTaken, PTL

(* However a page is inked, the slices OCR reads are its glyph runs, no     *)
(* glyph in two and none in no slice.                                       *)
THEOREM ChunksAlwaysTile == Spec => []ChunksTileTheColumn
<1>1. ASSUME InputInv, sample.of = "book", NEW column \in Range(Columns(sample.page))
      PROVE  LET chunks == ColumnChunks(column)
                 rows(c) == c.y0..(c.y1 - 1)
             IN  /\ UNION {rows(chunks[i]) : i \in DOMAIN chunks}
                        = UNION {r.from..(r.to - 1) : r \in Range(column.runs)}
                 /\ \A i, j \in DOMAIN chunks : i < j => chunks[i].y1 <= chunks[j].y0
  <2> DEFINE page == sample.page
  <2>1. IsBookPage(page)
    BY <1>1, BookPagesAssumption DEF InputInv, IsBookPage
  <2>2. PICK i \in DOMAIN Columns(page) : column = Columns(page)[i]
    BY DEF Range
  <2> HIDE DEF page
  <2> DEFINE b == Body(page)[i]
  <2>3. /\ column.box.x1 = b.from /\ column.box.x2 = b.to
        /\ column.runs = InOrder(ColumnRuns(page, b.from, b.to))
        /\ b.from \in 0..(page.width - 1) /\ b.to - 1 \in 0..(page.width - 1)
        /\ b.to \in Int /\ b.from < b.to
    BY <2>1, <2>2, ColumnsAre
  <2> HIDE DEF b
  <2> DEFINE S == ColumnRuns(page, b.from, b.to)
  <2>4. AreRuns(S, 1)
    BY <2>1, <2>3, RunsOfColumn
  <2> HIDE DEF S
  <2>5. 1 \in Nat /\ column.runs = InOrder(S)
    BY <2>3 DEF S
  <2>6. /\ Enumerates(column.runs, S)
        /\ \A k, l \in DOMAIN column.runs :
                k < l => column.runs[k].to + 1 <= column.runs[l].from
    BY <2>4, <2>5, InOrderEnumerates
  <2>7. Width(column.box) \in Int
    <3>1. b.from \in Int
      BY <2>3
    <3> QED
      BY <2>3, <3>1 DEF Width
  <2> QED
    BY <2>4, <2>5, <2>6, <2>7, SlicesOfColumn
<1>2. InputInv => ChunksTileTheColumn
  BY <1>1 DEF ChunksTileTheColumn
<1> QED
  BY <1>2, InputsAreTaken, PTL

(* Readings are drawn beside their own words, and clear of every column.    *)
THEOREM RubyAlwaysBeside == Spec => []RubyBesideItsText
<1>1. ASSUME InputInv, sample.of = "ruby"
      PROVE  LET text  == ColumnText(sample.chunks)
                 spans == CharacterSpans(sample.chunks)
                 words == WordsOf(text, sample.cut)
                 ruby  == RubyFor(text, spans, [k \in DOMAIN words |->
                            [text |-> SubSeq(text, words[k].from, words[k].to), furigana |-> k]])
             IN  ruby = [k \in DOMAIN words |->
                            [kana |-> k, y0 |-> spans[words[k].from].y0, y1 |-> spans[words[k].to].y1]]
  <2> DEFINE chunks == sample.chunks
             C == [y0 : Int, y1 : Int, text : Seq(Nat)]
             T == Seq(Nat)
             texts == [k \in DOMAIN chunks |-> chunks[k].text]
             text == ColumnText(chunks)
             spans == CharacterSpans(chunks)
             words == WordsOf(text, sample.cut)
  <2>1. chunks \in Seq(C)
    BY <1>1, ColumnReadingsAssumption DEF InputInv
  <2>2. \A c \in C : c.text \in T
    OBVIOUS
  <2> HIDE DEF chunks, C
  <2>3. texts \in Seq(T)
    <3> HIDE DEF T
    <3>1. Len(chunks) \in Nat /\ DOMAIN chunks = 1..Len(chunks) /\ \A k \in DOMAIN chunks : chunks[k] \in C
      BY <2>1
    <3>2. \A k \in 1..Len(chunks) : chunks[k].text \in T
      BY <2>2, <3>1
    <3> DEFINE m == Len(chunks)
    <3>3. texts = [k \in 1..m |-> chunks[k].text]
      BY <3>1
    <3> HIDE DEF texts, m
    <3>4. texts \in [1..m -> T] /\ m \in Nat
      BY <3>1, <3>2, <3>3 DEF m
    <3> QED
      BY <3>4
  <2>4. text = FlattenSeq(texts)
    BY DEF ColumnText
  <2> HIDE DEF texts, text
  <2>5. text \in Seq(Nat)
    BY <2>3, <2>4, Flattened
  <2>6. PICK n \in Nat : AreWords(words, n, text)
    BY <2>5, WordsAreFound
  <2> HIDE DEF words, spans
  <2>7. RubyFor(text, spans, SegmentsOf(text, words)) = ReadingsOver(spans, words)
    BY <2>5, <2>6, RubyIsOverWords
  <2> QED
    BY <2>7 DEF text, spans, words, chunks, SegmentsOf, ReadingsOver
<1>2. ASSUME InputInv, sample.of = "book", NEW i \in DOMAIN Columns(sample.page), NEW ruby,
             NEW b \in RubyBoxes(sample.page, Columns(sample.page), i, ruby)
      PROVE  /\ \A c \in Range(Columns(sample.page)) : b.x2 <= c.box.x1 \/ c.box.x2 < b.x1
             /\ b.x2 <= sample.page.width
  <2>1. IsBookPage(sample.page)
    BY <1>2, BookPagesAssumption DEF InputInv, IsBookPage
  <2> QED
    BY <2>1, RubyInTheGutter
<1>3. InputInv => RubyBesideItsText
  BY <1>1, <1>2 DEF RubyBesideItsText
<1> QED
  BY <1>3, InputsAreTaken, PTL

===============================================================================
