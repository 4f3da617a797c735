---------------------------- MODULE PageJobProofs ----------------------------
(***************************************************************************)
(* Proofs about PageJob, for every set of pages, whatever the detector       *)
(* found, the readers read and the provider answers, and any number of       *)
(* edits.  First the translation on its own (PageTranslation), for every     *)
(* chunk size and number of attempts, with its theorems; then the plans and  *)
(* the document (PageDocument): identities, orders and parents agree.  Then  *)
(* the units and the request, the inductive invariant JobInv, one lemma for  *)
(* each step, and last the refinement of PageContract and the theorems.      *)
(***************************************************************************)
EXTENDS PageJob, ReadingProofs

-----------------------------------------------------------------------------
(* Sequences of distinct items, and sequences of such batches.             *)

ItemsOf(t) == UNION {Range(t[k]) : k \in DOMAIN t}

Tidy(t) ==
    /\ \A k \in DOMAIN t : t[k] # <<>> /\ Distinct(t[k])
    /\ \A k, l \in DOMAIN t : k # l => Range(t[k]) \cap Range(t[l]) = {}

(* A cut falls between the items.                                          *)
LEMMA Cut ==
    ASSUME NEW s \in Seq(Items), Distinct(s), NEW n \in 0..Len(s)
    PROVE  LET a == SubSeq(s, 1, n)
               b == SubSeq(s, n + 1, Len(s)) IN
           /\ a \in Seq(Items) /\ b \in Seq(Items)
           /\ Len(a) = n /\ Len(b) = Len(s) - n
           /\ Range(s) = Range(a) \cup Range(b) /\ Range(a) \cap Range(b) = {}
           /\ Distinct(a) /\ Distinct(b)
<1> DEFINE a == SubSeq(s, 1, n)
           b == SubSeq(s, n + 1, Len(s))
<1>1. /\ a \in Seq(Items) /\ Len(a) = n /\ DOMAIN a = 1..n
      /\ \A i \in 1..n : a[i] = s[i]
  OBVIOUS
<1>2. /\ b \in Seq(Items) /\ Len(b) = Len(s) - n /\ DOMAIN b = 1..(Len(s) - n)
      /\ \A i \in 1..(Len(s) - n) : b[i] = s[n + i]
  OBVIOUS
<1> HIDE DEF a, b
<1>3. DOMAIN s = 1..Len(s)
  OBVIOUS
<1>4. ASSUME NEW i \in DOMAIN s, NEW j \in DOMAIN s, i # j PROVE s[i] # s[j]
  BY <1>4 DEF Distinct
<1>5. Distinct(a) /\ Distinct(b) /\ Range(a) \cap Range(b) = {}
  <2>1. Distinct(a)
    BY <1>1, <1>3, <1>4 DEF Distinct
  <2>2. ASSUME NEW i \in 1..(Len(s) - n), NEW j \in 1..(Len(s) - n), i # j
        PROVE  b[i] # b[j]
    <3>1. n + i \in DOMAIN s /\ n + j \in DOMAIN s /\ n + i # n + j
      BY <2>2, <1>3
    <3> QED
      BY <3>1, <1>2, <1>4
  <2>3. ASSUME NEW i \in 1..n, NEW j \in 1..(Len(s) - n) PROVE a[i] # b[j]
    <3>1. i \in DOMAIN s /\ n + j \in DOMAIN s /\ i # n + j
      BY <1>3
    <3> QED
      BY <3>1, <1>1, <1>2, <1>4
  <2>4. Distinct(b)
    BY <2>2, <1>2 DEF Distinct
  <2>5. Range(a) \cap Range(b) = {}
    BY <2>3, <1>1, <1>2 DEF Range
  <2> QED
    BY <2>1, <2>4, <2>5
<1>6. Range(a) \subseteq Range(s) /\ Range(b) \subseteq Range(s)
  <2>1. \A i \in 1..n : i \in DOMAIN s
    BY <1>3
  <2>2. \A i \in 1..(Len(s) - n) : n + i \in DOMAIN s
    BY <1>3
  <2>3. Range(a) \subseteq Range(s)
    BY <2>1, <1>1 DEF Range
  <2>4. Range(b) \subseteq Range(s)
    BY <2>2, <1>2 DEF Range
  <2> QED
    BY <2>3, <2>4
<1>7. ASSUME NEW i \in DOMAIN s PROVE s[i] \in Range(a) \cup Range(b)
  <2>1. CASE i <= n
    BY <2>1, <1>1, <1>3 DEF Range
  <2>2. CASE i > n
    <3>1. i - n \in 1..(Len(s) - n) /\ n + (i - n) = i
      BY <2>2, <1>3
    <3>2. b[i - n] = s[i]
      BY <3>1, <1>2
    <3> QED
      BY <3>1, <3>2, <1>2 DEF Range
  <2> QED
    BY <2>1, <2>2, <1>3
<1>8. Range(s) \subseteq Range(a) \cup Range(b)
  BY <1>7 DEF Range
<1> QED
  BY <1>1, <1>2, <1>5, <1>6, <1>8 DEF a, b

(* The first item and the others.                                          *)
LEMMA FirstItem ==
    ASSUME NEW s \in Seq(Items), s # <<>>, Distinct(s)
    PROVE  /\ Tail(s) \in Seq(Items) /\ Distinct(Tail(s)) /\ Head(s) \in Items
           /\ Range(s) = {Head(s)} \cup Range(Tail(s)) /\ Head(s) \notin Range(Tail(s))
<1>1. DOMAIN s = 1..Len(s) /\ Len(s) \in Nat /\ Len(s) > 0 /\ Head(s) = s[1]
  OBVIOUS
<1>2. /\ Tail(s) \in Seq(Items) /\ DOMAIN Tail(s) = 1..(Len(s) - 1)
      /\ \A i \in 1..(Len(s) - 1) : Tail(s)[i] = s[i + 1]
  OBVIOUS
<1>3. Distinct(Tail(s))
  BY <1>1, <1>2 DEF Distinct
<1>4. Head(s) \notin Range(Tail(s))
  BY <1>1, <1>2 DEF Distinct, Range
<1>5. {Head(s)} \cup Range(Tail(s)) \subseteq Range(s)
  BY <1>1, <1>2 DEF Range
<1>6. ASSUME NEW i \in DOMAIN s PROVE s[i] \in {Head(s)} \cup Range(Tail(s))
  <2>1. CASE i = 1
    BY <2>1, <1>1
  <2>2. CASE i # 1
    <3>1. i - 1 \in 1..(Len(s) - 1) /\ (i - 1) + 1 = i
      BY <2>2, <1>1
    <3>2. Tail(s)[i - 1] = s[i]
      BY <3>1, <1>2
    <3> QED
      BY <3>1, <3>2, <1>2 DEF Range
  <2> QED
    BY <2>1, <2>2
<1>7. Range(s) \subseteq {Head(s)} \cup Range(Tail(s))
  BY <1>6 DEF Range
<1> QED
  BY <1>1, <1>2, <1>3, <1>4, <1>5, <1>7

(* What an answer leaves of a batch.                                       *)
LEMMA PartOfBatch ==
    ASSUME NEW s \in Seq(Items), Distinct(s), NEW m \in Parts(s)
    PROVE  m \in Seq(Items) /\ Range(m) \subseteq Range(s) /\ Distinct(m)
<1>1. PICK n \in 0..Len(s) : \E at \in [1..n -> DOMAIN s] :
          /\ \A i, j \in 1..n : i < j => at[i] < at[j]
          /\ m = [i \in 1..n |-> s[at[i]]]
  BY DEF Parts
<1>2. PICK at \in [1..n -> DOMAIN s] :
          /\ \A i, j \in 1..n : i < j => at[i] < at[j]
          /\ m = [i \in 1..n |-> s[at[i]]]
  BY <1>1
<1>3. DOMAIN s = 1..Len(s) /\ \A i \in DOMAIN s : s[i] \in Items
  OBVIOUS
<1>4. m \in Seq(Items)
  BY <1>2, <1>3
<1>5. Range(m) \subseteq Range(s)
  BY <1>2 DEF Range
<1>6. ASSUME NEW i \in 1..n, NEW j \in 1..n, i # j PROVE m[i] # m[j]
  <2>1. at[i] # at[j] /\ at[i] \in DOMAIN s /\ at[j] \in DOMAIN s
    BY <1>2, <1>3, <1>6
  <2> QED
    BY <2>1, <1>2 DEF Distinct
<1>7. Distinct(m)
  BY <1>2, <1>6 DEF Distinct
<1> QED
  BY <1>4, <1>5, <1>7

(* Taking the next batch from the stack, and putting one on it.            *)
LEMMA PopBatch ==
    ASSUME NEW t \in Seq(Seq(Items)), t # <<>>, Tidy(t)
    PROVE  /\ Head(t) \in Seq(Items) /\ Head(t) # <<>> /\ Distinct(Head(t))
           /\ Tail(t) \in Seq(Seq(Items)) /\ Tidy(Tail(t))
           /\ ItemsOf(t) = Range(Head(t)) \cup ItemsOf(Tail(t))
           /\ Range(Head(t)) \cap ItemsOf(Tail(t)) = {}
<1>1. DOMAIN t = 1..Len(t) /\ Len(t) \in Nat /\ Len(t) > 0 /\ Head(t) = t[1]
  OBVIOUS
<1>2. /\ Tail(t) \in Seq(Seq(Items)) /\ DOMAIN Tail(t) = 1..(Len(t) - 1)
      /\ \A k \in 1..(Len(t) - 1) : Tail(t)[k] = t[k + 1]
  OBVIOUS
<1>3. Head(t) \in Seq(Items) /\ Head(t) # <<>> /\ Distinct(Head(t))
  BY <1>1 DEF Tidy
<1>4. ASSUME NEW k \in DOMAIN t, NEW l \in DOMAIN t, k # l
      PROVE  Range(t[k]) \cap Range(t[l]) = {}
  BY <1>4 DEF Tidy
<1>5. Tidy(Tail(t)) /\ Range(Head(t)) \cap ItemsOf(Tail(t)) = {}
  <2>1. ASSUME NEW k \in 1..(Len(t) - 1)
        PROVE  /\ Tail(t)[k] # <<>> /\ Distinct(Tail(t)[k])
               /\ Range(Head(t)) \cap Range(Tail(t)[k]) = {}
    <3>1. k + 1 \in DOMAIN t /\ 1 \in DOMAIN t /\ k + 1 # 1
      BY <1>1
    <3> QED
      BY <3>1, <1>1, <1>2, <1>4 DEF Tidy
  <2>2. ASSUME NEW k \in 1..(Len(t) - 1), NEW l \in 1..(Len(t) - 1), k # l
        PROVE  Range(Tail(t)[k]) \cap Range(Tail(t)[l]) = {}
    <3>1. k + 1 \in DOMAIN t /\ l + 1 \in DOMAIN t /\ k + 1 # l + 1
      BY <2>2, <1>1
    <3> QED
      BY <3>1, <1>2, <1>4
  <2>3. Tidy(Tail(t))
    BY <2>1, <2>2, <1>2 DEF Tidy
  <2>4. Range(Head(t)) \cap ItemsOf(Tail(t)) = {}
    BY <2>1, <1>2 DEF ItemsOf
  <2> QED
    BY <2>3, <2>4
<1>6. Range(Head(t)) \cup ItemsOf(Tail(t)) \subseteq ItemsOf(t)
  BY <1>1, <1>2 DEF ItemsOf
<1>7. ASSUME NEW k \in DOMAIN t PROVE Range(t[k]) \subseteq Range(Head(t)) \cup ItemsOf(Tail(t))
  <2>1. CASE k = 1
    BY <2>1, <1>1
  <2>2. CASE k # 1
    <3>1. k - 1 \in 1..(Len(t) - 1) /\ (k - 1) + 1 = k
      BY <2>2, <1>1
    <3>2. Tail(t)[k - 1] = t[k]
      BY <3>1, <1>2
    <3> QED
      BY <3>1, <3>2, <1>2 DEF ItemsOf
  <2> QED
    BY <2>1, <2>2
<1>8. ItemsOf(t) \subseteq Range(Head(t)) \cup ItemsOf(Tail(t))
  BY <1>7 DEF ItemsOf
<1> QED
  BY <1>2, <1>3, <1>5, <1>6, <1>8

LEMMA PushBatch ==
    ASSUME NEW t \in Seq(Seq(Items)), Tidy(t),
           NEW b \in Seq(Items), b # <<>>, Distinct(b), Range(b) \cap ItemsOf(t) = {}
    PROVE  /\ <<b>> \o t \in Seq(Seq(Items)) /\ Tidy(<<b>> \o t)
           /\ ItemsOf(<<b>> \o t) = Range(b) \cup ItemsOf(t)
<1> DEFINE u == <<b>> \o t
<1>1. /\ u \in Seq(Seq(Items)) /\ DOMAIN u = 1..(Len(t) + 1) /\ Len(t) \in Nat /\ u[1] = b
      /\ \A k \in 1..Len(t) : u[k + 1] = t[k]
      /\ DOMAIN t = 1..Len(t)
  OBVIOUS
<1> HIDE DEF u
<1>2. ASSUME NEW k \in DOMAIN u PROVE k = 1 \/ (k - 1 \in DOMAIN t /\ u[k] = t[k - 1])
  <2>1. CASE k # 1
    <3>1. k - 1 \in 1..Len(t) /\ (k - 1) + 1 = k
      BY <2>1, <1>1
    <3> QED
      BY <3>1, <1>1
  <2> QED
    BY <2>1
<1>3. ASSUME NEW k \in DOMAIN t PROVE Range(b) \cap Range(t[k]) = {}
  BY DEF ItemsOf
<1>4. \A k \in DOMAIN u : u[k] # <<>> /\ Distinct(u[k])
  BY <1>1, <1>2 DEF Tidy
<1>5. ASSUME NEW k \in DOMAIN u, NEW l \in DOMAIN u, k # l
      PROVE  Range(u[k]) \cap Range(u[l]) = {}
  <2>1. CASE k = 1
    <3>1. l - 1 \in DOMAIN t /\ u[l] = t[l - 1]
      BY <2>1, <1>2, <1>5
    <3> QED
      BY <2>1, <3>1, <1>1, <1>3
  <2>2. CASE l = 1
    <3>1. k - 1 \in DOMAIN t /\ u[k] = t[k - 1]
      BY <2>2, <1>2, <1>5
    <3> QED
      BY <2>2, <3>1, <1>1, <1>3
  <2>3. CASE k # 1 /\ l # 1
    <3>1. /\ k - 1 \in DOMAIN t /\ u[k] = t[k - 1]
          /\ l - 1 \in DOMAIN t /\ u[l] = t[l - 1] /\ k - 1 # l - 1
      BY <2>3, <1>1, <1>2, <1>5
    <3> QED
      BY <3>1 DEF Tidy
  <2> QED
    BY <2>1, <2>2, <2>3
<1>6. Tidy(u)
  BY <1>4, <1>5 DEF Tidy
<1>7. ItemsOf(u) \subseteq Range(b) \cup ItemsOf(t)
  <2>1. ASSUME NEW k \in DOMAIN u PROVE Range(u[k]) \subseteq Range(b) \cup ItemsOf(t)
    <3>1. CASE k = 1
      BY <3>1, <1>1
    <3>2. CASE k # 1
      <4>1. k - 1 \in DOMAIN t /\ u[k] = t[k - 1]
        BY <3>2, <1>2
      <4> QED
        BY <4>1 DEF ItemsOf
    <3> QED
      BY <3>1, <3>2
  <2>2. ASSUME NEW x \in ItemsOf(u) PROVE \E k \in DOMAIN u : x \in Range(u[k])
    BY DEF ItemsOf
  <2> QED
    BY <2>1, <2>2
<1>8. Range(b) \cup ItemsOf(t) \subseteq ItemsOf(u)
  <2>1. Range(b) \subseteq ItemsOf(u)
    BY <1>1 DEF ItemsOf
  <2>2. ASSUME NEW k \in DOMAIN t PROVE Range(t[k]) \subseteq ItemsOf(u)
    <3>1. k + 1 \in DOMAIN u /\ u[k + 1] = t[k]
      BY <1>1
    <3> QED
      BY <3>1 DEF ItemsOf
  <2> QED
    BY <2>1, <2>2 DEF ItemsOf
<1> QED
  BY <1>1, <1>6, <1>7, <1>8 DEF u

LEMMA NoBatches == Tidy(<<>>) /\ ItemsOf(<<>>) = {} /\ Range(<<>>) = {} /\ Distinct(<<>>)
BY DEF Tidy, ItemsOf, Range, Distinct

-----------------------------------------------------------------------------
(* The inductive invariant.                                                *)

(* Before the batches nothing is translated, and at the end nothing waits. *)
Phases ==
    /\ asking = "idle" => request = <<>>
    /\ asking \in {"idle", "verify"} =>
           rest = request /\ todo = <<>> /\ singles = <<>> /\ translated = {}
    /\ asking = "done" => rest = <<>> /\ todo = <<>> /\ singles = <<>>

Inv == TranslationTypeOK /\ EveryItemOnce /\ Phases

(* EveryItemOnce in the terms of the lemmas above.                         *)
Accounted(done, alone, batches, later) ==
    /\ Range(request) = done \cup Range(alone) \cup ItemsOf(batches) \cup Range(later)
    /\ done \cap (Range(alone) \cup ItemsOf(batches) \cup Range(later)) = {}
    /\ Range(alone) \cap (ItemsOf(batches) \cup Range(later)) = {}
    /\ ItemsOf(batches) \cap Range(later) = {}
    /\ Distinct(alone) /\ Distinct(later) /\ Tidy(batches)

LEMMA Account == EveryItemOnce <=> Accounted(translated, singles, todo, rest)
BY DEF EveryItemOnce, Accounted, ItemsOf, Batched, Tidy

LEMMA AccountNext ==
    ASSUME request' = request
    PROVE  EveryItemOnce' <=> Accounted(translated', singles', todo', rest')
BY DEF EveryItemOnce, Accounted, ItemsOf, Batched, Tidy

LEMMA InitInv == TranslationInit => Inv
<1> SUFFICES ASSUME TranslationInit PROVE Inv
  OBVIOUS
<1>1. TranslationTypeOK
  BY TranslationAssumption DEF TranslationInit, TranslationTypeOK
<1>2. Accounted(translated, singles, todo, rest)
  BY NoBatches DEF TranslationInit, Accounted
<1> QED
  BY <1>1, <1>2, Account DEF TranslationInit, Inv, Phases

LEMMA SubmitInv ==
    ASSUME Inv, NEW items \in Seq(Items), Submit(items) PROVE Inv'
<1>1. TranslationTypeOK'
  BY DEF Submit, Inv, TranslationTypeOK
<1>2. /\ request' = items /\ rest' = items /\ todo' = <<>> /\ singles' = <<>>
      /\ translated' = {} /\ Distinct(items)
  BY DEF Submit, Inv, Phases
<1>3. EveryItemOnce'
  BY <1>2, NoBatches DEF EveryItemOnce, Batched, Tidy, ItemsOf
<1>4. Phases'
  BY <1>2 DEF Submit, Phases
<1> QED
  BY <1>1, <1>3, <1>4 DEF Inv

(* Steps that only move on.                                                *)
LEMMA MoveInv ==
    ASSUME Inv, Verify \/ Finish \/ Break \/ UNCHANGED translation PROVE Inv'
<1>1. UNCHANGED <<request, rest, todo, singles, attempts, translated>>
  BY DEF Verify, Finish, Break, translation
<1>2. TranslationTypeOK'
  BY <1>1 DEF Inv, TranslationTypeOK, Verify, Finish, Break, translation
<1>3. EveryItemOnce'
  BY <1>1 DEF Inv, EveryItemOnce, Batched
<1>4. Phases'
  BY <1>1 DEF Inv, Phases, Verify, Finish, Break, translation, Asking
<1> QED
  BY <1>2, <1>3, <1>4 DEF Inv

LEMMA NextChunkInv == ASSUME Inv, NextChunk PROVE Inv'
<1> DEFINE n == IF Len(rest) < MaxItems THEN Len(rest) ELSE MaxItems
           chunk == SubSeq(rest, 1, n)
           later == SubSeq(rest, n + 1, Len(rest))
<1>1. rest \in Seq(Items) /\ Distinct(rest) /\ rest # <<>> /\ n \in 1..Len(rest)
  BY TranslationAssumption DEF Inv, TranslationTypeOK, EveryItemOnce, NextChunk
<1>2. /\ todo' = <<chunk>> /\ rest' = later /\ attempts' = 0 /\ todo = <<>> /\ singles = <<>>
      /\ UNCHANGED <<asking, request, singles, translated>> /\ asking = "batches"
  BY DEF NextChunk
<1> HIDE DEF n
<1>8. n \in 0..Len(rest) /\ chunk = SubSeq(rest, 1, n) /\ later = SubSeq(rest, n + 1, Len(rest))
  BY <1>1
<1> HIDE DEF chunk, later
<1>3. /\ chunk \in Seq(Items) /\ later \in Seq(Items) /\ Len(chunk) = n
      /\ Range(rest) = Range(chunk) \cup Range(later) /\ Range(chunk) \cap Range(later) = {}
      /\ Distinct(chunk) /\ Distinct(later)
  BY <1>1, <1>8, Cut DEF chunk, later
<1>4. chunk # <<>>
  BY <1>1, <1>3
<1>5. Tidy(<<chunk>>) /\ ItemsOf(<<chunk>>) = Range(chunk) /\ <<chunk>> \in Seq(Seq(Items))
  BY <1>3, <1>4 DEF Tidy, ItemsOf
<1>6. Accounted(translated', singles', todo', rest')
  BY <1>2, <1>3, <1>5, Account, NoBatches DEF Inv, Accounted
<1>7. TranslationTypeOK'
  BY <1>2, <1>3, <1>5, TranslationAssumption DEF Inv, TranslationTypeOK
<1> QED
  BY <1>2, <1>6, <1>7, AccountNext DEF Inv, Phases

(* What is known of the batch that is asked for.                           *)
LEMMA NextBatch ==
    ASSUME Inv, Asking
    PROVE  /\ asking = "batches" /\ singles = <<>>
           /\ Head(todo) \in Seq(Items) /\ Head(todo) # <<>> /\ Distinct(Head(todo))
           /\ Tail(todo) \in Seq(Seq(Items)) /\ Tidy(Tail(todo))
           /\ Range(Head(todo)) \cap ItemsOf(Tail(todo)) = {}
           /\ Range(request) = translated \cup Range(Head(todo)) \cup ItemsOf(Tail(todo))
                                  \cup Range(rest)
           /\ translated \cap (Range(Head(todo)) \cup ItemsOf(Tail(todo)) \cup Range(rest)) = {}
           /\ (Range(Head(todo)) \cup ItemsOf(Tail(todo))) \cap Range(rest) = {}
           /\ Distinct(rest)
<1>1. asking = "batches" /\ singles = <<>> /\ todo # <<>> /\ todo \in Seq(Seq(Items))
  BY DEF Asking, Inv, TranslationTypeOK
<1>2. Accounted(translated, singles, todo, rest)
  BY Account DEF Inv
<1>3. /\ Head(todo) \in Seq(Items) /\ Head(todo) # <<>> /\ Distinct(Head(todo))
      /\ Tail(todo) \in Seq(Seq(Items)) /\ Tidy(Tail(todo))
      /\ ItemsOf(todo) = Range(Head(todo)) \cup ItemsOf(Tail(todo))
      /\ Range(Head(todo)) \cap ItemsOf(Tail(todo)) = {}
  BY <1>1, <1>2, PopBatch DEF Accounted
<1> QED
  BY <1>1, <1>2, <1>3, NoBatches DEF Accounted

LEMMA AnswerInv == ASSUME Inv, Answer PROVE Inv'
<1>1. PICK missing \in Parts(Head(todo)) :
          /\ translated' = Without(missing)
          /\ todo' = IF missing = <<>> THEN Tail(todo) ELSE <<missing>> \o Tail(todo)
  BY DEF Answer
<1>2. /\ Asking /\ attempts < MaxAttempts /\ attempts' = attempts + 1
      /\ UNCHANGED <<asking, request, rest, singles>>
  BY DEF Answer
<1>3. missing \in Seq(Items) /\ Range(missing) \subseteq Range(Head(todo)) /\ Distinct(missing)
  BY <1>1, <1>2, NextBatch, PartOfBatch
<1>4. /\ todo' \in Seq(Seq(Items)) /\ Tidy(todo')
      /\ ItemsOf(todo') = Range(missing) \cup ItemsOf(Tail(todo))
  <2>1. CASE missing = <<>>
    BY <2>1, <1>1, <1>2, NextBatch, NoBatches
  <2>2. CASE missing # <<>>
    <3>1. Range(missing) \cap ItemsOf(Tail(todo)) = {}
      BY <1>2, <1>3, NextBatch
    <3> QED
      BY <2>2, <3>1, <1>1, <1>2, <1>3, NextBatch, PushBatch
  <2> QED
    BY <2>1, <2>2
<1>5. translated' = translated \cup (Range(Head(todo)) \ Range(missing))
  BY <1>1 DEF Without
<1>6. Accounted(translated', singles', todo', rest')
  BY <1>2, <1>3, <1>4, <1>5, NextBatch, NoBatches DEF Accounted
<1>7. translated' \subseteq Items
  BY <1>2, <1>5, NextBatch DEF Inv, TranslationTypeOK, Range
<1>8. TranslationTypeOK'
  BY <1>2, <1>4, <1>7, TranslationAssumption DEF Inv, TranslationTypeOK
<1>9. Phases'
  BY <1>2, NextBatch DEF Phases
<1> QED
  BY <1>2, <1>6, <1>8, <1>9, AccountNext DEF Inv

LEMMA RefuseInv == ASSUME Inv, Refuse PROVE Inv'
<1> DEFINE batch  == Head(todo)
           middle == Len(batch) \div 2
           left   == SubSeq(batch, 1, middle)
           right  == SubSeq(batch, middle + 1, Len(batch))
<1>1. /\ Asking /\ attempts < MaxAttempts /\ attempts' = attempts + 1
      /\ UNCHANGED <<asking, request, rest, translated>>
  BY DEF Refuse
<1>2. asking' = "batches" /\ attempts' \in 0..MaxAttempts
  BY <1>1, NextBatch, TranslationAssumption DEF Inv, TranslationTypeOK
<1>3. CASE Len(batch) = 1
  <2>1. singles' = batch /\ todo' = Tail(todo)
    BY <1>3 DEF Refuse
  <2>2. Accounted(translated', singles', todo', rest')
    BY <2>1, <1>1, NextBatch DEF Accounted
  <2>3. TranslationTypeOK'
    BY <2>1, <1>1, <1>2, NextBatch DEF Inv, TranslationTypeOK
  <2> QED
    BY <2>2, <2>3, <1>1, <1>2, AccountNext DEF Inv, Phases
<1>4. CASE Len(batch) # 1
  <2>1. todo' = <<left>> \o (<<right>> \o Tail(todo)) /\ UNCHANGED singles
    BY <1>4 DEF Refuse
  <2>2. batch \in Seq(Items) /\ Distinct(batch) /\ middle \in 1..(Len(batch) - 1)
    <3>1. batch \in Seq(Items) /\ Distinct(batch) /\ batch # <<>>
      BY <1>1, NextBatch
    <3>2. Len(batch) \in Nat /\ Len(batch) # 0
      BY <3>1
    <3>3. ASSUME NEW len \in Nat, len # 0, len # 1 PROVE len \div 2 \in 1..(len - 1)
      BY <3>3
    <3> QED
      BY <3>1, <3>2, <3>3, <1>4
  <2> HIDE DEF middle, batch
  <2>12. /\ left = SubSeq(batch, 1, middle) /\ right = SubSeq(batch, middle + 1, Len(batch))
         /\ middle \in 0..Len(batch)
    BY <2>2
  <2> HIDE DEF left, right
  <2>3. /\ left \in Seq(Items) /\ right \in Seq(Items)
        /\ Len(left) = middle /\ Len(right) = Len(batch) - middle
        /\ Range(batch) = Range(left) \cup Range(right) /\ Range(left) \cap Range(right) = {}
        /\ Distinct(left) /\ Distinct(right)
    BY <2>2, <2>12, Cut DEF left, right
  <2>4. left # <<>> /\ right # <<>>
    BY <2>2, <2>3
  <2>6. Range(batch) \cap ItemsOf(Tail(todo)) = {}
    BY <1>1, NextBatch DEF batch
  <2>7. /\ <<right>> \o Tail(todo) \in Seq(Seq(Items)) /\ Tidy(<<right>> \o Tail(todo))
        /\ ItemsOf(<<right>> \o Tail(todo)) = Range(right) \cup ItemsOf(Tail(todo))
    BY <2>3, <2>4, <2>6, <1>1, NextBatch, PushBatch
  <2>8. Range(left) \cap ItemsOf(<<right>> \o Tail(todo)) = {}
    BY <2>3, <2>6, <2>7
  <2>9. /\ todo' \in Seq(Seq(Items)) /\ Tidy(todo')
        /\ ItemsOf(todo') = Range(batch) \cup ItemsOf(Tail(todo))
    <3> DEFINE u == <<right>> \o Tail(todo)
    <3>1. u \in Seq(Seq(Items)) /\ Tidy(u) /\ Range(left) \cap ItemsOf(u) = {} /\ todo' = <<left>> \o u
      BY <2>1, <2>7, <2>8
    <3>2. ItemsOf(u) = Range(right) \cup ItemsOf(Tail(todo))
      BY <2>7
    <3> HIDE DEF u
    <3> QED
      BY <3>1, <3>2, <2>3, <2>4, PushBatch
  <2>10. Accounted(translated', singles', todo', rest')
    BY <2>1, <2>9, <1>1, NextBatch, NoBatches DEF Accounted, batch
  <2>11. TranslationTypeOK'
    BY <2>1, <2>9, <1>1, <1>2 DEF Inv, TranslationTypeOK
  <2> QED
    BY <2>10, <2>11, <1>1, <1>2, AccountNext DEF Inv, Phases
<1> QED
  BY <1>3, <1>4

LEMMA ExhaustedInv == ASSUME Inv, Exhausted PROVE Inv'
<1>1. /\ Asking /\ singles' = Head(todo) /\ todo' = Tail(todo)
      /\ UNCHANGED <<asking, request, rest, attempts, translated>>
  BY DEF Exhausted
<1>2. Accounted(translated', singles', todo', rest')
  BY <1>1, NextBatch DEF Accounted
<1>3. TranslationTypeOK'
  BY <1>1, NextBatch DEF Inv, TranslationTypeOK
<1>4. Phases'
  BY <1>1, NextBatch DEF Phases
<1> QED
  BY <1>1, <1>2, <1>3, <1>4, AccountNext DEF Inv

LEMMA TranslateSingleInv == ASSUME Inv, TranslateSingle PROVE Inv'
<1>1. /\ asking = "batches" /\ singles # <<>> /\ translated' = translated \cup {Head(singles)}
      /\ singles' = Tail(singles) /\ UNCHANGED <<asking, request, rest, todo, attempts>>
  BY DEF TranslateSingle
<1>2. Accounted(translated, singles, todo, rest) /\ singles \in Seq(Items)
  BY Account DEF Inv, TranslationTypeOK
<1>3. /\ Tail(singles) \in Seq(Items) /\ Distinct(Tail(singles)) /\ Head(singles) \in Items
      /\ Range(singles) = {Head(singles)} \cup Range(Tail(singles))
      /\ Head(singles) \notin Range(Tail(singles))
  BY <1>1, <1>2, FirstItem DEF Accounted
<1>4. Accounted(translated', singles', todo', rest')
  BY <1>1, <1>2, <1>3 DEF Accounted
<1>5. TranslationTypeOK'
  BY <1>1, <1>3 DEF Inv, TranslationTypeOK
<1> QED
  BY <1>1, <1>4, <1>5, AccountNext DEF Inv, Phases

LEMMA StepInv == Inv /\ [TranslationNext]_translation => Inv'
<1> SUFFICES ASSUME Inv, [TranslationNext]_translation PROVE Inv'
  OBVIOUS
<1>1. CASE \E items \in Seq(Items) : Submit(items)
  BY <1>1, SubmitInv
<1>2. CASE Verify \/ Finish \/ Break \/ UNCHANGED translation
  BY <1>2, MoveInv
<1>3. CASE NextChunk
  BY <1>3, NextChunkInv
<1>4. CASE Answer
  BY <1>4, AnswerInv
<1>5. CASE Refuse
  BY <1>5, RefuseInv
<1>6. CASE Exhausted
  BY <1>6, ExhaustedInv
<1>7. CASE TranslateSingle
  BY <1>7, TranslateSingleInv
<1> QED
  BY <1>1, <1>2, <1>3, <1>4, <1>5, <1>6, <1>7 DEF TranslationNext, Recover

LEMMA Invariance == TranslationSpec => []Inv
BY InitInv, StepInv, PTL DEF TranslationSpec

-----------------------------------------------------------------------------
(* Every variable keeps its type; in particular no chunk asks for more     *)
(* batches than MAX_BATCH_ATTEMPTS (translate_with_recovery).              *)
THEOREM TypeCorrect == TranslationSpec => []TranslationTypeOK
<1>1. Inv => TranslationTypeOK
  BY DEF Inv
<1> QED
  BY <1>1, Invariance, PTL

(* Every item of a page of any length is in exactly one place, whatever    *)
(* the provider answers and however the batches are split: nothing is lost *)
(* and nothing is asked for twice (resolve, fallback).                     *)
THEOREM NothingIsLost == TranslationSpec => []EveryItemOnce
<1>1. Inv => EveryItemOnce
  BY DEF Inv
<1> QED
  BY <1>1, Invariance, PTL

(* A page that ends in translations has one for every item (the join at    *)
(* the end of translate_with_recovery finds every identity).               *)
THEOREM DoneHasEveryItem == TranslationSpec => []DoneIsComplete
<1>1. Inv => DoneIsComplete
  <2> SUFFICES ASSUME Inv, asking = "done" PROVE translated = Range(request)
    BY DEF DoneIsComplete
  <2>1. rest = <<>> /\ todo = <<>> /\ singles = <<>>
    BY DEF Inv, Phases
  <2>2. Accounted(translated, singles, todo, rest)
    BY Account DEF Inv
  <2> QED
    BY <2>1, <2>2, NoBatches DEF Accounted
<1> QED
  BY <1>1, Invariance, PTL

-----------------------------------------------------------------------------
(* Identities and orders of the regions.                                    *)

(* What the kind of a region can be, and what a plan is.                    *)
PlanKinds == Kinds \cup {"artwork_text", "bubble"}

PlanIds == [kind : PlanKinds, box : BoxSet, of : Seq(Int), copy : Nat]

PlanSet == [id : PlanIds, order : Int, kind : PlanKinds, sem : Seq(SemSet)]

(* The ps of a sequence without a detection, and those that have the      *)
(* identity of a geometry.                                                  *)
Extras(ps) == {i \in DOMAIN ps : ps[i].sem = <<>>}

IdsOf(ps) == {ps[i].id : i \in DOMAIN ps}

Twins(ids, kind, box) == {t \in ids : t.kind = kind /\ t.box = box /\ t.of = <<>>}

LEMMA FiniteParts ==
    ASSUME NEW ps \in Seq(PlanSet)
    PROVE  /\ IsFiniteSet(Extras(ps)) /\ Cardinality(Extras(ps)) \in Nat
           /\ IsFiniteSet(IdsOf(ps))
           /\ \A k, b : /\ IsFiniteSet(Twins(IdsOf(ps), k, b))
                        /\ Cardinality(Twins(IdsOf(ps), k, b)) \in Nat
<1>1. IsFiniteSet(DOMAIN ps)
  <2>1. DOMAIN ps = 1..Len(ps) /\ Len(ps) \in Nat
    OBVIOUS
  <2> QED
    BY <2>1, FS_Interval
<1>2. IsFiniteSet(Extras(ps)) /\ Cardinality(Extras(ps)) \in Nat
  <2>1. Extras(ps) \in SUBSET DOMAIN ps
    BY DEF Extras
  <2> QED
    BY <1>1, <2>1, FS_Subset, FS_CardinalityType
<1>3. IsFiniteSet(IdsOf(ps))
  <2> DEFINE f == [i \in DOMAIN ps |-> ps[i].id]
  <2>1. DOMAIN f = DOMAIN ps /\ IdsOf(ps) = {f[i] : i \in DOMAIN ps}
    BY DEF IdsOf
  <2> HIDE DEF f
  <2> QED
    BY <1>1, <2>1, ImageFinite
<1>4. ASSUME NEW k, NEW b
      PROVE  /\ IsFiniteSet(Twins(IdsOf(ps), k, b))
             /\ Cardinality(Twins(IdsOf(ps), k, b)) \in Nat
  <2>1. Twins(IdsOf(ps), k, b) \in SUBSET IdsOf(ps)
    BY DEF Twins
  <2> QED
    BY <1>3, <2>1, FS_Subset, FS_CardinalityType
<1> QED
  BY <1>2, <1>3, <1>4

(* The first order behind the detections is an integer above all of theirs. *)
LEMMA ExtrasComeLast ==
    ASSUME NEW found \in Seq(SemSet)
    PROVE  FirstExtra(found) \in Int /\ \A i \in DOMAIN found : found[i].order < FirstExtra(found)
<1> DEFINE f == [i \in DOMAIN found |-> found[i].order]
           T == {f[i] : i \in DOMAIN found}
           S == {-1} \cup T
<1>1. DOMAIN found = 1..Len(found) /\ Len(found) \in Nat
      /\ \A i \in DOMAIN found : found[i] \in SemSet
  OBVIOUS
<1>2. \A i \in DOMAIN found : found[i].order \in Int /\ f[i] = found[i].order
  BY <1>1 DEF SemSet
<1>3. IsFiniteSet(T)
  <2>1. IsFiniteSet(DOMAIN found) /\ DOMAIN f = DOMAIN found
    BY <1>1, FS_Interval
  <2> HIDE DEF f
  <2> QED
    BY <2>1, ImageFinite
<1>4. IsFiniteSet(S)
  <2> HIDE DEF T
  <2>1. IsFiniteSet({-1})
    BY FS_Singleton
  <2> QED
    BY <1>3, <2>1, FS_Union
<1>5. S \in SUBSET Int /\ S # {}
  BY <1>2
<1>6. FirstExtra(found) = Max(S) + 1
  <2>1. {found[i].order : i \in DOMAIN found} = T
    OBVIOUS
  <2> QED
    BY <2>1 DEF FirstExtra
<1>7. \A i \in DOMAIN found : found[i].order \in S
  OBVIOUS
<1> HIDE DEF S
<1>8. Max(S) \in S /\ \A x \in S : x <= Max(S)
  BY <1>4, <1>5, MaxOfFinite
<1> DEFINE m == Max(S)
<1>9. m \in Int
  BY <1>5, <1>8
<1>10. FirstExtra(found) = m + 1 /\ \A i \in DOMAIN found : found[i].order <= m
  BY <1>6, <1>7, <1>8
<1> HIDE DEF m
<1>11. \A i \in DOMAIN found : found[i].order < m + 1
  BY <1>2, <1>9, <1>10
<1> QED
  BY <1>9, <1>10, <1>11

(* Planning a unit gives it a plan.                                         *)
LEMMA PlannedTyped ==
    ASSUME NEW found \in Seq(SemSet), NEW ps \in Seq(PlanSet), NEW kind \in PlanKinds,
           NEW sem \in Seq(SemSet), NEW box \in BoxSet
    PROVE  /\ Planned(ps, kind, sem, box, found) \in PlanSet
           /\ Append(ps, Planned(ps, kind, sem, box, found)) \in Seq(PlanSet)
<1> DEFINE p == Planned(ps, kind, sem, box, found)
<1>1. CASE sem # <<>>
  <2>1. sem[1] \in SemSet
    <3>1. 1 \in DOMAIN sem
      BY <1>1
    <3> QED
      BY <3>1
  <2>2. p = [id |-> SemanticId(sem[1]), order |-> sem[1].order, kind |-> kind, sem |-> sem]
    BY <1>1 DEF Planned
  <2>3. sem[1].kind \in PlanKinds /\ sem[1].box \in BoxSet /\ sem[1].id \in Seq(Int)
        /\ sem[1].order \in Int
    BY <2>1 DEF SemSet, Id, PlanKinds
  <2>4. SemanticId(sem[1]) \in PlanIds
    BY <2>3 DEF SemanticId, PlanIds
  <2> QED
    BY <2>2, <2>3, <2>4 DEF PlanSet
<1>2. CASE sem = <<>>
  <2> DEFINE twins == Twins(IdsOf(ps), kind, box)
             n == Cardinality(twins)
             e == Cardinality(Extras(ps))
  <2>1. n \in Nat /\ e \in Nat /\ FirstExtra(found) \in Int
    BY FiniteParts, ExtrasComeLast
  <2>2. p = [id |-> NextRegionId(IdsOf(ps), kind, box), kind |-> kind, sem |-> <<>>,
             order |-> FirstExtra(found) + e]
    BY <1>2 DEF Planned, IdsOf, Extras
  <2>3. NextRegionId(IdsOf(ps), kind, box) =
            [kind |-> kind, box |-> box, of |-> <<>>, copy |-> 1 + n]
    BY DEF NextRegionId, Twins
  <2> HIDE DEF n, e
  <2>4. 1 + n \in Nat /\ FirstExtra(found) + e \in Int /\ <<>> \in Seq(Int) /\ <<>> \in Seq(SemSet)
    BY <2>1
  <2>5. NextRegionId(IdsOf(ps), kind, box) \in PlanIds
    BY <2>3, <2>4 DEF PlanIds
  <2> QED
    BY <2>2, <2>4, <2>5 DEF PlanSet
<1>3. p \in PlanSet
  BY <1>1, <1>2
<1>4. Append(ps, p) \in Seq(PlanSet)
  <2> HIDE DEF p
  <2> QED
    BY <1>3
<1> QED
  BY <1>3, <1>4

(* The detections of a page that a job plans with: identities and orders of  *)
(* their own.                                                               *)
Numbered(found) ==
    /\ found \in Seq(SemSet)
    /\ \A i, j \in DOMAIN found : i # j => /\ found[i].id # found[j].id
                                          /\ found[i].order # found[j].order

(* A unit takes no detection, or one that no plan has taken.                 *)
Takes(ps, sem, found) ==
    \/ sem = <<>>
    \/ \E m \in DOMAIN found : sem = <<found[m]>> /\ found[m].id \notin Represented(ps)

(* What makes plans agree: those with a detection have its identity and      *)
(* order, the others number their twins and come behind all detections.      *)
TakesOne(p, found) ==
    \E m \in DOMAIN found : /\ p.sem = <<found[m]>> /\ p.id = SemanticId(found[m])
                            /\ p.order = found[m].order

ComesLast(p, ps, found) ==
    /\ p.id.of = <<>> /\ FirstExtra(found) <= p.order
    /\ p.order < FirstExtra(found) + Cardinality(Extras(ps))

TwinsCounted(ps) ==
    \A k, b : \A t \in Twins(IdsOf(ps), k, b) : t.copy <= Cardinality(Twins(IdsOf(ps), k, b))

Apiece(ps) ==
    \A i, j \in DOMAIN ps : i # j => ps[i].id # ps[j].id /\ ps[i].order # ps[j].order

Agree(ps, found) ==
    /\ ps \in Seq(PlanSet)
    /\ \A i \in DOMAIN ps : ps[i].sem # <<>> => TakesOne(ps[i], found)
    /\ \A i \in DOMAIN ps : ps[i].sem = <<>> => ComesLast(ps[i], ps, found)
    /\ TwinsCounted(ps)
    /\ Apiece(ps)

(* One more element.                                                        *)
LEMMA StageAppended ==
    ASSUME NEW S, NEW ps \in Seq(S), NEW p \in S
    PROVE  /\ Append(ps, p) \in Seq(S) /\ Len(Append(ps, p)) = Len(ps) + 1
           /\ DOMAIN Append(ps, p) = DOMAIN ps \cup {Len(ps) + 1}
           /\ Len(ps) + 1 \notin DOMAIN ps
           /\ Append(ps, p)[Len(ps) + 1] = p
           /\ \A i \in DOMAIN ps : Append(ps, p)[i] = ps[i]
OBVIOUS

(* A plan for a free detection agrees with the plans before it.              *)
LEMMA DetectionPlanned ==
    ASSUME NEW found, Numbered(found), NEW ps, Agree(ps, found), NEW kind \in PlanKinds,
           NEW box \in BoxSet, NEW m \in DOMAIN found, found[m].id \notin Represented(ps)
    PROVE  Agree(Append(ps, Planned(ps, kind, <<found[m]>>, box, found)), found)
<1> DEFINE sem == <<found[m]>>
           p == Planned(ps, kind, sem, box, found)
           qs == Append(ps, p)
           n == Len(ps) + 1
<1>1. found[m] \in SemSet /\ sem \in Seq(SemSet) /\ sem # <<>> /\ sem[1] = found[m]
  BY DEF Numbered
<1>2. p = [id |-> SemanticId(found[m]), order |-> found[m].order, kind |-> kind, sem |-> sem]
  BY <1>1 DEF Planned
<1>3. p \in PlanSet /\ ps \in Seq(PlanSet) /\ found \in Seq(SemSet)
  BY <1>1, PlannedTyped DEF Agree, Numbered
<1>4. p.id = SemanticId(found[m]) /\ p.order = found[m].order /\ p.sem = sem
  BY <1>2
<1>5. p.id.of = found[m].id /\ found[m].id # <<>> /\ p.id.of # <<>>
  BY <1>1, <1>4 DEF SemanticId, SemSet, Id
<1> HIDE DEF p
<1>6. /\ qs \in Seq(PlanSet) /\ DOMAIN qs = DOMAIN ps \cup {n} /\ n \notin DOMAIN ps
      /\ qs[n] = p /\ \A i \in DOMAIN ps : qs[i] = ps[i]
  BY <1>3, StageAppended
<1> HIDE DEF qs, n, sem
<1>7. \A i \in DOMAIN qs : qs[i].sem # <<>> => TakesOne(qs[i], found)
  <2>1. TakesOne(p, found)
    BY <1>4 DEF TakesOne, sem
  <2> QED
    BY <1>6, <2>1 DEF Agree
<1>8. Extras(qs) = Extras(ps)
  BY <1>1, <1>4, <1>6 DEF Extras
<1>9. \A i \in DOMAIN qs : qs[i].sem = <<>> => ComesLast(qs[i], qs, found)
  BY <1>1, <1>4, <1>6, <1>8 DEF Agree, ComesLast
<1>10. \A k, b : Twins(IdsOf(qs), k, b) = Twins(IdsOf(ps), k, b)
  <2>1. IdsOf(qs) = IdsOf(ps) \cup {p.id}
    BY <1>6 DEF IdsOf
  <2> QED
    BY <1>5, <2>1 DEF Twins
<1>11. TwinsCounted(qs)
  BY <1>10 DEF Agree, TwinsCounted
<1>12. ASSUME NEW i \in DOMAIN ps PROVE ps[i].id # p.id /\ ps[i].order # p.order
  <2>1. CASE ps[i].sem # <<>>
    <3>1. PICK k \in DOMAIN found : /\ ps[i].sem = <<found[k]>> /\ ps[i].id = SemanticId(found[k])
                                    /\ ps[i].order = found[k].order
      BY <2>1 DEF Agree, TakesOne
    <3>2. found[k].id \in Represented(ps)
      <4>1. ps[i].sem[1] = found[k]
        BY <3>1
      <4> QED
        BY <2>1, <4>1 DEF Represented
    <3>3. k # m
      BY <3>2
    <3>4. found[k].id # found[m].id /\ found[k].order # found[m].order
      BY <3>3 DEF Numbered
    <3>5. ps[i].id.of = found[k].id
      BY <3>1 DEF SemanticId
    <3> QED
      BY <1>4, <1>5, <3>1, <3>4, <3>5
  <2>2. CASE ps[i].sem = <<>>
    <3>1. ps[i].id.of = <<>> /\ FirstExtra(found) <= ps[i].order
      BY <2>2 DEF Agree, ComesLast
    <3>2. FirstExtra(found) \in Int /\ found[m].order < FirstExtra(found)
      BY <1>3, ExtrasComeLast
    <3>3. ps[i].order \in Int /\ found[m].order \in Int
      <4>1. ps[i] \in PlanSet
        BY <1>3
      <4> QED
        BY <1>1, <4>1 DEF PlanSet, SemSet
    <3> QED
      BY <1>4, <1>5, <3>1, <3>2, <3>3
  <2> QED
    BY <2>1, <2>2
<1>13. Apiece(qs)
  <2>1. Apiece(ps)
    BY DEF Agree
  <2>2. ASSUME NEW i \in DOMAIN qs, NEW j \in DOMAIN qs, i # j
        PROVE  qs[i].id # qs[j].id /\ qs[i].order # qs[j].order
    <3>1. CASE i = n
      BY <1>6, <1>12, <2>2, <3>1
    <3>2. CASE j = n
      BY <1>6, <1>12, <2>2, <3>2
    <3>3. CASE i # n /\ j # n
      BY <1>6, <2>1, <2>2, <3>3 DEF Apiece
    <3> QED
      BY <3>1, <3>2, <3>3
  <2> QED
    BY <2>2 DEF Apiece
<1>14. Agree(qs, found)
  BY <1>6, <1>7, <1>9, <1>11, <1>13 DEF Agree
<1> QED
  BY <1>14 DEF qs, p, sem

(* A plan without a detection agrees with the plans before it.               *)
LEMMA ExtraPlanned ==
    ASSUME NEW found, Numbered(found), NEW ps, Agree(ps, found), NEW kind \in PlanKinds,
           NEW box \in BoxSet
    PROVE  Agree(Append(ps, Planned(ps, kind, <<>>, box, found)), found)
<1> DEFINE p == Planned(ps, kind, <<>>, box, found)
           qs == Append(ps, p)
           n == Len(ps) + 1
           first == FirstExtra(found)
           e == Cardinality(Extras(ps))
           t == Cardinality(Twins(IdsOf(ps), kind, box))
<1>1. found \in Seq(SemSet) /\ <<>> \in Seq(SemSet) /\ ps \in Seq(PlanSet)
  BY DEF Numbered, Agree
<1>2. p \in PlanSet
  BY <1>1, PlannedTyped
<1>3. p = [id |-> NextRegionId(IdsOf(ps), kind, box), kind |-> kind, sem |-> <<>>,
           order |-> first + e]
  BY DEF Planned, IdsOf, Extras
<1>4. /\ p.id = [kind |-> kind, box |-> box, of |-> <<>>, copy |-> 1 + t]
      /\ p.order = first + e /\ p.sem = <<>>
  <2>1. p.id = NextRegionId(IdsOf(ps), kind, box) /\ p.order = first + e /\ p.sem = <<>>
    BY <1>3
  <2> QED
    BY <2>1 DEF NextRegionId, Twins
<1>5. /\ IsFiniteSet(Extras(ps)) /\ e \in Nat /\ t \in Nat /\ first \in Int
      /\ \A k, b : /\ IsFiniteSet(Twins(IdsOf(ps), k, b))
                   /\ Cardinality(Twins(IdsOf(ps), k, b)) \in Nat
  BY <1>1, FiniteParts, ExtrasComeLast
<1> HIDE DEF p
<1>6. /\ qs \in Seq(PlanSet) /\ DOMAIN qs = DOMAIN ps \cup {n} /\ n \notin DOMAIN ps
      /\ qs[n] = p /\ \A i \in DOMAIN ps : qs[i] = ps[i]
  BY <1>1, <1>2, StageAppended
<1> HIDE DEF qs, n, first, e, t
<1>7. \A i \in DOMAIN qs : qs[i].sem # <<>> => TakesOne(qs[i], found)
  BY <1>4, <1>6 DEF Agree
<1>8. Cardinality(Extras(qs)) = e + 1
  <2>1. Extras(qs) = Extras(ps) \cup {n} /\ n \notin Extras(ps)
    BY <1>4, <1>6 DEF Extras
  <2> QED
    BY <1>5, <2>1, FS_AddElement DEF e
<1>9. ASSUME NEW i \in DOMAIN ps, ps[i].sem = <<>>
      PROVE  /\ ps[i].id.of = <<>> /\ first <= ps[i].order /\ ps[i].order < first + e
             /\ ps[i].order \in Int
  <2>1. ps[i] \in PlanSet
    BY <1>1
  <2>2. ps[i].order \in Int
    BY <2>1 DEF PlanSet
  <2> QED
    BY <1>9, <2>2 DEF Agree, ComesLast, first, e
<1>10. ASSUME NEW i \in DOMAIN qs, qs[i].sem = <<>> PROVE ComesLast(qs[i], qs, found)
  <2>1. CASE i = n
    <3>1. p.id.of = <<>> /\ first <= p.order /\ p.order < first + (e + 1)
      BY <1>4, <1>5
    <3> QED
      BY <1>6, <1>8, <2>1, <3>1 DEF ComesLast, first
  <2>2. CASE i # n
    <3>1. i \in DOMAIN ps /\ qs[i] = ps[i] /\ ps[i].sem = <<>>
      BY <1>6, <1>10, <2>2
    <3>2. /\ ps[i].id.of = <<>> /\ first <= ps[i].order /\ ps[i].order < first + e
          /\ ps[i].order \in Int
      BY <1>9, <3>1
    <3>3. ps[i].order < first + (e + 1)
      BY <1>5, <3>2
    <3> QED
      BY <1>8, <3>1, <3>2, <3>3 DEF ComesLast, first
  <2> QED
    BY <2>1, <2>2
<1>11. IdsOf(qs) = IdsOf(ps) \cup {p.id}
  BY <1>6 DEF IdsOf
<1>12. p.id \notin IdsOf(ps)
  <2>1. SUFFICES ASSUME p.id \in IdsOf(ps) PROVE FALSE
    OBVIOUS
  <2>2. p.id \in Twins(IdsOf(ps), kind, box)
    BY <1>4, <2>1 DEF Twins
  <2>3. p.id.copy <= t
    BY <2>2 DEF Agree, TwinsCounted, t
  <2> QED
    BY <1>4, <1>5, <2>3
<1>13. ASSUME NEW k, NEW b, NEW u \in Twins(IdsOf(qs), k, b)
       PROVE  u.copy <= Cardinality(Twins(IdsOf(qs), k, b))
  <2>1. CASE k = kind /\ b = box
    <3>1. /\ Twins(IdsOf(qs), k, b) = Twins(IdsOf(ps), kind, box) \cup {p.id}
          /\ p.id \notin Twins(IdsOf(ps), kind, box)
      BY <1>4, <1>11, <1>12, <2>1 DEF Twins
    <3>2. Cardinality(Twins(IdsOf(qs), k, b)) = t + 1
      BY <1>5, <3>1, FS_AddElement DEF t
    <3>3. CASE u = p.id
      BY <1>4, <1>5, <3>2, <3>3
    <3>4. CASE u \in Twins(IdsOf(ps), kind, box)
      <4>1. u.copy <= t
        BY <3>4 DEF Agree, TwinsCounted, t
      <4>2. u.copy \in Nat
        <5>1. PICK i \in DOMAIN ps : u = ps[i].id
          BY <3>4 DEF Twins, IdsOf
        <5>2. ps[i] \in PlanSet
          BY <1>1
        <5> QED
          BY <5>1, <5>2 DEF PlanSet, PlanIds
      <4> QED
        BY <1>5, <3>2, <4>1, <4>2
    <3> QED
      BY <1>13, <3>1, <3>3, <3>4
  <2>2. CASE ~(k = kind /\ b = box)
    <3>1. Twins(IdsOf(qs), k, b) = Twins(IdsOf(ps), k, b)
      BY <1>4, <1>11, <2>2 DEF Twins
    <3> QED
      BY <1>13, <3>1 DEF Agree, TwinsCounted
  <2> QED
    BY <2>1, <2>2
<1>14. ASSUME NEW i \in DOMAIN ps PROVE ps[i].id # p.id /\ ps[i].order # p.order
  <2>1. ps[i].id # p.id
    BY <1>12 DEF IdsOf
  <2>2. CASE ps[i].sem # <<>>
    <3>1. PICK m \in DOMAIN found : ps[i].order = found[m].order
      BY <2>2 DEF Agree, TakesOne
    <3>2. found[m] \in SemSet
      BY <1>1
    <3>3. found[m].order \in Int
      BY <3>2 DEF SemSet
    <3>4. found[m].order < first
      BY <1>1, ExtrasComeLast DEF first
    <3> QED
      BY <1>4, <1>5, <2>1, <3>1, <3>3, <3>4
  <2>3. CASE ps[i].sem = <<>>
    <3>1. ps[i].order < first + e /\ ps[i].order \in Int
      BY <1>9, <2>3
    <3> QED
      BY <1>4, <1>5, <2>1, <3>1
  <2> QED
    BY <2>2, <2>3
<1>15. Apiece(qs)
  <2>1. Apiece(ps)
    BY DEF Agree
  <2>2. ASSUME NEW i \in DOMAIN qs, NEW j \in DOMAIN qs, i # j
        PROVE  qs[i].id # qs[j].id /\ qs[i].order # qs[j].order
    <3>1. CASE i = n
      BY <1>6, <1>14, <2>2, <3>1
    <3>2. CASE j = n
      BY <1>6, <1>14, <2>2, <3>2
    <3>3. CASE i # n /\ j # n
      BY <1>6, <2>1, <2>2, <3>3 DEF Apiece
    <3> QED
      BY <3>1, <3>2, <3>3
  <2> QED
    BY <2>2 DEF Apiece
<1>16. TwinsCounted(qs)
  BY <1>13 DEF TwinsCounted
<1>17. Agree(qs, found)
  BY <1>6, <1>7, <1>10, <1>15, <1>16 DEF Agree
<1> QED
  BY <1>17 DEF qs, p

(* No plans agree.                                                          *)
LEMMA NoPlans == ASSUME NEW found PROVE Agree(<<>>, found) /\ Represented(<<>>) = {}
<1>1. <<>> \in Seq(PlanSet) /\ DOMAIN <<>> = {}
  OBVIOUS
<1>2. IdsOf(<<>>) = {}
  BY <1>1 DEF IdsOf
<1>3. TwinsCounted(<<>>)
  BY <1>2 DEF TwinsCounted, Twins
<1> QED
  BY <1>1, <1>3 DEF Agree, Apiece, Represented

-----------------------------------------------------------------------------
(* The folds of the plans.                                                   *)

(* What computes like a fold is the fold.                                   *)
LEMMA FoldIs ==
    ASSUME NEW n \in Nat, NEW A, NEW base \in A, NEW D, NEW f,
           f = [s \in SUBSET (1..n) |-> f[s]], f[{}] = base,
           \A s \in SUBSET (1..n) : s # {} /\ f[s \ {Max(s)}] \in A =>
                f[s] = D[Max(s)][f[s \ {Max(s)}]] /\ f[s] \in A
    PROVE  IsFold(f, n, A, base, D)
<1> DEFINE Q(m) == m <= n => \A s \in SUBSET (1..m) : f[s] \in A
           P == {m \in Nat : Q(m)}
<1>1. Q(0)
  <2>1. \A s \in SUBSET (1..0) : s = {}
    BY FoldStep
  <2> QED
    BY <2>1
<1>2. ASSUME NEW m \in Nat, Q(m) PROVE Q(m + 1)
  <2> SUFFICES ASSUME m + 1 <= n, NEW s \in SUBSET (1..(m + 1)) PROVE f[s] \in A
    OBVIOUS
  <2>1. m <= n /\ s \in SUBSET (1..n)
    OBVIOUS
  <2>2. CASE s = {}
    BY <2>2
  <2>3. CASE s # {}
    <3>1. /\ Max(s) \in s /\ s \ {m + 1} \in SUBSET (1..m)
          /\ m + 1 \in s => Max(s) = m + 1
          /\ m + 1 \notin s => s \in SUBSET (1..m) /\ s \ {Max(s)} \in SUBSET (1..m)
      BY <2>3, MaxWithNew
    <3>2. s \ {Max(s)} \in SUBSET (1..m)
      BY <3>1
    <3>3. f[s \ {Max(s)}] \in A
      BY <1>2, <2>1, <3>2
    <3> QED
      BY <2>1, <2>3, <3>3
  <2> QED
    BY <2>2, <2>3
<1>3. \A m \in Nat : Q(m)
  <2> HIDE DEF Q
  <2>1. 0 \in P
    BY <1>1
  <2>2. \A m \in Nat : m \in P => m + 1 \in P
    BY <1>2
  <2> HIDE DEF P
  <2>3. Nat \subseteq P
    BY <2>1, <2>2, SetInduction
  <2> QED
    BY <2>3 DEF P
<1>4. \A s \in SUBSET (1..n) : f[s] \in A
  <2>1. Q(n)
    BY <1>3
  <2>2. n <= n
    OBVIOUS
  <2> QED
    BY <2>1, <2>2
<1>5. f \in [SUBSET (1..n) -> A]
  BY <1>4
<1>6. \A s \in SUBSET (1..n) : s \ {Max(s)} \in SUBSET (1..n)
  OBVIOUS
<1>7. ASSUME NEW s \in SUBSET (1..n), s # {} PROVE f[s] = D[Max(s)][f[s \ {Max(s)}]]
  <2>1. f[s \ {Max(s)}] \in A
    BY <1>4, <1>6
  <2> QED
    BY <1>7, <2>1
<1>8. \A s \in SUBSET (1..n) : s # {} => f[s] = D[Max(s)][f[s \ {Max(s)}]]
  BY <1>7
<1> QED
  BY <1>5, <1>8 DEF IsFold

(* The parts of a unit that its plan depends on.                             *)
IsUnit(u) ==
    /\ u.box \in BoxSet /\ u.sem \in Seq(SemSet)
    /\ u.artwork \in BOOLEAN /\ u.sfx \in BOOLEAN

LEMMA FirstDetection ==
    ASSUME NEW u, IsUnit(u), u.sem # <<>>
    PROVE  u.sem[1] \in SemSet /\ u.sem[1].kind \in PlanKinds
<1>1. 1 \in DOMAIN u.sem
  BY DEF IsUnit
<1>2. u.sem[1] \in SemSet
  BY <1>1 DEF IsUnit
<1> QED
  BY <1>2 DEF SemSet, PlanKinds

LEMMA MangaPlanTyped ==
    ASSUME NEW found \in Seq(SemSet), NEW ps \in Seq(PlanSet), NEW u, IsUnit(u)
    PROVE  MangaPlan(ps, u, found) \in PlanSet
<1> DEFINE kind == IF u.artwork THEN "artwork_text"
                   ELSE IF u.sem = <<>> THEN "bubble" ELSE u.sem[1].kind
<1>1. kind \in PlanKinds
  <2>1. CASE u.sem = <<>>
    BY <2>1 DEF PlanKinds
  <2>2. CASE u.sem # <<>>
    BY <2>2, FirstDetection DEF PlanKinds
  <2> QED
    BY <2>1, <2>2
<1>2. MangaPlan(ps, u, found) = Planned(ps, kind, u.sem, u.box, found)
  BY DEF MangaPlan
<1> HIDE DEF kind
<1> QED
  BY <1>1, <1>2, PlannedTyped DEF IsUnit

(* A sound effect takes a detection that is free, or none.                   *)
LEMMA SfxTakes ==
    ASSUME NEW found \in Seq(SemSet), NEW ps, NEW u
    PROVE  Takes(ps, MatchedSfx(u, ps, found), found)
<1> DEFINE free == {i \in DOMAIN found : /\ found[i].kind = "sfx"
                                         /\ found[i].id \notin Represented(ps)
                                         /\ ContainsCenter(found[i].box, u.box)}
<1>1. CASE free = {}
  BY <1>1 DEF MatchedSfx, Takes
<1>2. CASE free # {}
  <2>1. free \in SUBSET DOMAIN found /\ DOMAIN found = 1..Len(found) /\ Len(found) \in Nat
    OBVIOUS
  <2>2. free \in SUBSET Int /\ IsFiniteSet(free)
    <3>1. IsFiniteSet(1..Len(found))
      BY <2>1, FS_Interval
    <3> HIDE DEF free
    <3> QED
      BY <2>1, <3>1, FS_Subset
  <2>3. Min(free) \in free
    <3> HIDE DEF free
    <3> QED
      BY <1>2, <2>2, MinOfFinite
  <2>4. MatchedSfx(u, ps, found) = <<found[Min(free)]>>
    BY <1>2 DEF MatchedSfx
  <2> QED
    BY <2>3, <2>4 DEF Takes
<1> QED
  BY <1>1, <1>2

LEMMA TakenTyped ==
    ASSUME NEW found \in Seq(SemSet), NEW ps, NEW sem, Takes(ps, sem, found)
    PROVE  sem \in Seq(SemSet)
<1>1. \A m \in DOMAIN found : found[m] \in SemSet
  OBVIOUS
<1>2. CASE sem = <<>>
  BY <1>2
<1>3. CASE sem # <<>>
  <2>1. PICK m \in DOMAIN found : sem = <<found[m]>>
    BY <1>3 DEF Takes
  <2>2. found[m] \in SemSet
    BY <1>1
  <2> QED
    BY <2>1, <2>2
<1> QED
  BY <1>2, <1>3

LEMMA WebtoonPlanTyped ==
    ASSUME NEW found \in Seq(SemSet), NEW ps \in Seq(PlanSet), NEW u, IsUnit(u)
    PROVE  WebtoonPlan(ps, u, found) \in PlanSet
<1>1. u.box \in BoxSet /\ u.sem \in Seq(SemSet) /\ <<>> \in Seq(SemSet)
  BY DEF IsUnit
<1>2. "sfx" \in PlanKinds /\ "bubble" \in PlanKinds
  BY DEF PlanKinds, Kinds
<1>3. MatchedSfx(u, ps, found) \in Seq(SemSet)
  BY SfxTakes, TakenTyped
<1>4. u.sem # <<>> => u.sem[1].kind \in PlanKinds
  BY FirstDetection
<1>5. /\ Planned(ps, "sfx", MatchedSfx(u, ps, found), u.box, found) \in PlanSet
      /\ Planned(ps, "bubble", <<>>, u.box, found) \in PlanSet
      /\ u.sem # <<>> => Planned(ps, u.sem[1].kind, u.sem, u.box, found) \in PlanSet
  BY <1>1, <1>2, <1>3, <1>4, PlannedTyped
<1> DEFINE first == u.sem # <<>> /\ u.sem[1].id \notin Represented(ps)
           sfx == Planned(ps, "sfx", MatchedSfx(u, ps, found), u.box, found)
           own == Planned(ps, u.sem[1].kind, u.sem, u.box, found)
           extra == Planned(ps, "bubble", <<>>, u.box, found)
<1>6. WebtoonPlan(ps, u, found) = IF u.sfx THEN sfx ELSE IF first THEN own ELSE extra
  BY DEF WebtoonPlan
<1>7. first => u.sem # <<>>
  OBVIOUS
<1> HIDE DEF first, sfx, own, extra
<1>8. sfx \in PlanSet /\ extra \in PlanSet /\ (first => own \in PlanSet)
  BY <1>5, <1>7 DEF sfx, own, extra
<1>9. CASE u.sfx
  BY <1>6, <1>8, <1>9
<1>10. CASE ~u.sfx /\ first
  BY <1>6, <1>8, <1>10
<1>11. CASE ~u.sfx /\ ~first
  BY <1>6, <1>8, <1>11
<1> QED
  BY <1>9, <1>10, <1>11

(* The plans of a manga page as steps: one more plan for each unit.    *)
LEMMA MangaSteps ==
    ASSUME NEW found \in Seq(SemSet), NEW U, \A u \in U : IsUnit(u), NEW texts \in Seq(U)
    PROVE  \E acc \in [0..Len(texts) -> Seq(PlanSet)] :
                /\ acc[0] = <<>> /\ PlanManga(texts, found) = acc[Len(texts)]
                /\ \A k \in 1..Len(texts) :
                     acc[k] = Append(acc[k - 1], MangaPlan(acc[k - 1], texts[k], found))
<1> DEFINE n == Len(texts)
           A == Seq(PlanSet)
           op(ps, u) == Append(ps, MangaPlan(ps, u, found))
           D == [k \in 1..n |-> [a \in A |-> op(a, texts[k])]]
           iter[s \in SUBSET (1..n)] ==
                IF s = {} THEN <<>> ELSE op(iter[s \ {Max(s)}], texts[Max(s)])
<1>1. n \in Nat /\ DOMAIN texts = 1..n /\ <<>> \in A
  OBVIOUS
<1>2. ASSUME NEW k \in 1..n PROVE IsUnit(texts[k])
  <2>1. texts[k] \in U
    OBVIOUS
  <2> QED
    BY <2>1
<1>3. FoldLeft(op, <<>>, texts) = iter[1..n]
  BY <1>1 DEF FoldLeft, MapThenFoldSet
<1>4. PlanManga(texts, found) = FoldLeft(op, <<>>, texts)
  BY DEF PlanManga
<1>5. PlanManga(texts, found) = iter[1..n]
  <2> HIDE DEF iter
  <2> QED
    BY <1>3, <1>4
<1> HIDE DEF n
<1>6. ASSUME NEW k \in 1..n, NEW a \in A PROVE op(a, texts[k]) \in A
  <2> DEFINE p == MangaPlan(a, texts[k], found)
  <2>1. p \in PlanSet
    BY <1>2, MangaPlanTyped
  <2>2. op(a, texts[k]) = Append(a, p)
    OBVIOUS
  <2> HIDE DEF p, op
  <2> QED
    BY <2>1, <2>2
<1>7. D \in [1..n -> [A -> A]]
  <2> HIDE DEF op, A
  <2> QED
    BY <1>6
<1>8. PICK h : IsFold(h, n, A, <<>>, D)
  <2> HIDE DEF D, A
  <2> QED
    BY <1>1, <1>7, FoldExists
<1>9. ASSUME NEW k \in 1..n, NEW a \in A PROVE D[k][a] = op(a, texts[k])
  <2> HIDE DEF A, op
  <2> QED
    OBVIOUS
<1> HIDE DEF D
<1>10. h = [s \in SUBSET (1..n) |-> IF s = {} THEN <<>> ELSE op(h[s \ {Max(s)}], texts[Max(s)])]
  <2>1. ASSUME NEW s \in SUBSET (1..n), s # {}
        PROVE  h[s] = op(h[s \ {Max(s)}], texts[Max(s)])
    <3>1. Max(s) \in 1..n
      BY <1>1, <2>1, MaxUpTo
    <3>2. h[s \ {Max(s)}] \in A
      BY <1>8 DEF IsFold
    <3>3. h[s] = D[Max(s)][h[s \ {Max(s)}]]
      BY <1>8, <2>1 DEF IsFold
    <3> HIDE DEF A, op
    <3> QED
      BY <1>9, <3>1, <3>2, <3>3
  <2> HIDE DEF op, A
  <2> QED
    BY <1>8, <2>1 DEF IsFold
<1>11. iter = [s \in SUBSET (1..n) |->
                IF s = {} THEN <<>> ELSE op(iter[s \ {Max(s)}], texts[Max(s)])]
  <2> HIDE DEF op
  <2> QED
    BY <1>10
<1> HIDE DEF iter
<1>12. IsFold(iter, n, A, <<>>, D)
  <2>1. iter = [s \in SUBSET (1..n) |-> iter[s]] /\ iter[{}] = <<>>
    <3> HIDE DEF op
    <3> QED
      BY <1>11
  <2>2. ASSUME NEW s \in SUBSET (1..n), s # {}, iter[s \ {Max(s)}] \in A
        PROVE  iter[s] = D[Max(s)][iter[s \ {Max(s)}]] /\ iter[s] \in A
    <3>1. Max(s) \in 1..n
      BY <1>1, <2>2, MaxUpTo
    <3>2. iter[s] = op(iter[s \ {Max(s)}], texts[Max(s)])
      <4> HIDE DEF op
      <4> QED
        BY <1>11, <2>2
    <3> HIDE DEF A, op
    <3> QED
      BY <1>6, <1>9, <2>2, <3>1, <3>2
  <2> HIDE DEF A, op
  <2> QED
    BY <1>1, <2>1, <2>2, FoldIs
<1>13. PICK acc \in [0..n -> A] : /\ acc[0] = <<>> /\ acc[n] = iter[1..n]
                                  /\ \A k \in 1..n : acc[k] = D[k][acc[k - 1]]
  <2> HIDE DEF A, op
  <2>1. n \in Nat /\ IsFold(iter, n, A, <<>>, D)
    BY <1>1, <1>12
  <2> QED
    BY <2>1, FoldSteps
<1>14. ASSUME NEW k \in 1..n PROVE acc[k] = op(acc[k - 1], texts[k])
  <2>1. k - 1 \in 0..n
    BY <1>1
  <2>2. acc[k - 1] \in A
    BY <1>13, <2>1
  <2> HIDE DEF A, op
  <2> QED
    BY <1>9, <1>13, <2>2
<1> QED
  BY <1>5, <1>13, <1>14 DEF n

(* The plans of a webtoon page as steps: one more plan for each unit.  *)
LEMMA WebtoonSteps ==
    ASSUME NEW found \in Seq(SemSet), NEW U, \A u \in U : IsUnit(u), NEW texts \in Seq(U)
    PROVE  \E acc \in [0..Len(texts) -> Seq(PlanSet)] :
                /\ acc[0] = <<>> /\ PlanWebtoon(texts, found) = acc[Len(texts)]
                /\ \A k \in 1..Len(texts) :
                     acc[k] = Append(acc[k - 1], WebtoonPlan(acc[k - 1], texts[k], found))
<1> DEFINE n == Len(texts)
           A == Seq(PlanSet)
           op(ps, u) == Append(ps, WebtoonPlan(ps, u, found))
           D == [k \in 1..n |-> [a \in A |-> op(a, texts[k])]]
           iter[s \in SUBSET (1..n)] ==
                IF s = {} THEN <<>> ELSE op(iter[s \ {Max(s)}], texts[Max(s)])
<1>1. n \in Nat /\ DOMAIN texts = 1..n /\ <<>> \in A
  OBVIOUS
<1>2. ASSUME NEW k \in 1..n PROVE IsUnit(texts[k])
  <2>1. texts[k] \in U
    OBVIOUS
  <2> QED
    BY <2>1
<1>3. FoldLeft(op, <<>>, texts) = iter[1..n]
  BY <1>1 DEF FoldLeft, MapThenFoldSet
<1>4. PlanWebtoon(texts, found) = FoldLeft(op, <<>>, texts)
  BY DEF PlanWebtoon
<1>5. PlanWebtoon(texts, found) = iter[1..n]
  <2> HIDE DEF iter
  <2> QED
    BY <1>3, <1>4
<1> HIDE DEF n
<1>6. ASSUME NEW k \in 1..n, NEW a \in A PROVE op(a, texts[k]) \in A
  <2> DEFINE p == WebtoonPlan(a, texts[k], found)
  <2>1. p \in PlanSet
    BY <1>2, WebtoonPlanTyped
  <2>2. op(a, texts[k]) = Append(a, p)
    OBVIOUS
  <2> HIDE DEF p, op
  <2> QED
    BY <2>1, <2>2
<1>7. D \in [1..n -> [A -> A]]
  <2> HIDE DEF op, A
  <2> QED
    BY <1>6
<1>8. PICK h : IsFold(h, n, A, <<>>, D)
  <2> HIDE DEF D, A
  <2> QED
    BY <1>1, <1>7, FoldExists
<1>9. ASSUME NEW k \in 1..n, NEW a \in A PROVE D[k][a] = op(a, texts[k])
  <2> HIDE DEF A, op
  <2> QED
    OBVIOUS
<1> HIDE DEF D
<1>10. h = [s \in SUBSET (1..n) |-> IF s = {} THEN <<>> ELSE op(h[s \ {Max(s)}], texts[Max(s)])]
  <2>1. ASSUME NEW s \in SUBSET (1..n), s # {}
        PROVE  h[s] = op(h[s \ {Max(s)}], texts[Max(s)])
    <3>1. Max(s) \in 1..n
      BY <1>1, <2>1, MaxUpTo
    <3>2. h[s \ {Max(s)}] \in A
      BY <1>8 DEF IsFold
    <3>3. h[s] = D[Max(s)][h[s \ {Max(s)}]]
      BY <1>8, <2>1 DEF IsFold
    <3> HIDE DEF A, op
    <3> QED
      BY <1>9, <3>1, <3>2, <3>3
  <2> HIDE DEF op, A
  <2> QED
    BY <1>8, <2>1 DEF IsFold
<1>11. iter = [s \in SUBSET (1..n) |->
                IF s = {} THEN <<>> ELSE op(iter[s \ {Max(s)}], texts[Max(s)])]
  <2> HIDE DEF op
  <2> QED
    BY <1>10
<1> HIDE DEF iter
<1>12. IsFold(iter, n, A, <<>>, D)
  <2>1. iter = [s \in SUBSET (1..n) |-> iter[s]] /\ iter[{}] = <<>>
    <3> HIDE DEF op
    <3> QED
      BY <1>11
  <2>2. ASSUME NEW s \in SUBSET (1..n), s # {}, iter[s \ {Max(s)}] \in A
        PROVE  iter[s] = D[Max(s)][iter[s \ {Max(s)}]] /\ iter[s] \in A
    <3>1. Max(s) \in 1..n
      BY <1>1, <2>2, MaxUpTo
    <3>2. iter[s] = op(iter[s \ {Max(s)}], texts[Max(s)])
      <4> HIDE DEF op
      <4> QED
        BY <1>11, <2>2
    <3> HIDE DEF A, op
    <3> QED
      BY <1>6, <1>9, <2>2, <3>1, <3>2
  <2> HIDE DEF A, op
  <2> QED
    BY <1>1, <2>1, <2>2, FoldIs
<1>13. PICK acc \in [0..n -> A] : /\ acc[0] = <<>> /\ acc[n] = iter[1..n]
                                  /\ \A k \in 1..n : acc[k] = D[k][acc[k - 1]]
  <2> HIDE DEF A, op
  <2>1. n \in Nat /\ IsFold(iter, n, A, <<>>, D)
    BY <1>1, <1>12
  <2> QED
    BY <2>1, FoldSteps
<1>14. ASSUME NEW k \in 1..n PROVE acc[k] = op(acc[k - 1], texts[k])
  <2>1. k - 1 \in 0..n
    BY <1>1
  <2>2. acc[k - 1] \in A
    BY <1>13, <2>1
  <2> HIDE DEF A, op
  <2> QED
    BY <1>9, <1>13, <2>2
<1> QED
  BY <1>5, <1>13, <1>14 DEF n

-----------------------------------------------------------------------------
(* The plans of a page.                                                      *)

(* A unit names a detection of the page, or none.                            *)
Names(u, found) == u.sem = <<>> \/ \E m \in DOMAIN found : u.sem = <<found[m]>>

(* One step of each pipeline keeps its plans in agreement.                   *)
LEMMA MangaPlanAgrees ==
    ASSUME NEW found, Numbered(found), NEW ps, Agree(ps, found), NEW u, IsUnit(u),
           Takes(ps, u.sem, found)
    PROVE  /\ Agree(Append(ps, MangaPlan(ps, u, found)), found)
           /\ MangaPlan(ps, u, found).sem = u.sem
<1> DEFINE kind == IF u.artwork THEN "artwork_text"
                   ELSE IF u.sem = <<>> THEN "bubble" ELSE u.sem[1].kind
<1>1. kind \in PlanKinds
  <2>1. CASE u.sem = <<>>
    BY <2>1 DEF PlanKinds
  <2>2. CASE u.sem # <<>>
    BY <2>2, FirstDetection DEF PlanKinds
  <2> QED
    BY <2>1, <2>2
<1>2. MangaPlan(ps, u, found) = Planned(ps, kind, u.sem, u.box, found)
  BY DEF MangaPlan
<1>3. u.box \in BoxSet
  BY DEF IsUnit
<1> HIDE DEF kind
<1>4. Planned(ps, kind, u.sem, u.box, found).sem = u.sem
  BY DEF Planned
<1>5. CASE u.sem = <<>>
  BY <1>1, <1>2, <1>3, <1>4, <1>5, ExtraPlanned
<1>6. CASE u.sem # <<>>
  <2>1. PICK m \in DOMAIN found : u.sem = <<found[m]>> /\ found[m].id \notin Represented(ps)
    BY <1>6 DEF Takes
  <2> QED
    BY <1>1, <1>2, <1>3, <1>4, <2>1, DetectionPlanned
<1> QED
  BY <1>5, <1>6

LEMMA WebtoonPlanAgrees ==
    ASSUME NEW found, Numbered(found), NEW ps, Agree(ps, found), NEW u, IsUnit(u),
           Names(u, found)
    PROVE  Agree(Append(ps, WebtoonPlan(ps, u, found)), found)
<1>1. u.box \in BoxSet /\ "sfx" \in PlanKinds /\ "bubble" \in PlanKinds
  BY DEF IsUnit, PlanKinds, Kinds
<1> DEFINE sem == MatchedSfx(u, ps, found)
           first == u.sem # <<>> /\ u.sem[1].id \notin Represented(ps)
<1>2. Takes(ps, sem, found)
  BY SfxTakes DEF Numbered
<1>3. CASE u.sfx
  <2>1. WebtoonPlan(ps, u, found) = Planned(ps, "sfx", sem, u.box, found)
    BY <1>3 DEF WebtoonPlan
  <2> HIDE DEF sem
  <2>2. CASE sem = <<>>
    BY <1>1, <2>1, <2>2, ExtraPlanned
  <2>3. CASE sem # <<>>
    <3>1. PICK m \in DOMAIN found : sem = <<found[m]>> /\ found[m].id \notin Represented(ps)
      BY <1>2, <2>3 DEF Takes
    <3> QED
      BY <1>1, <2>1, <3>1, DetectionPlanned
  <2> QED
    BY <2>2, <2>3
<1>4. CASE ~u.sfx /\ first
  <2>1. PICK m \in DOMAIN found : u.sem = <<found[m]>>
    BY <1>4 DEF Names
  <2>2. u.sem[1] = found[m]
    BY <2>1
  <2>3. found[m].id \notin Represented(ps) /\ u.sem[1].kind \in PlanKinds
    BY <1>4, <2>2, FirstDetection
  <2>4. WebtoonPlan(ps, u, found) = Planned(ps, u.sem[1].kind, u.sem, u.box, found)
    BY <1>4 DEF WebtoonPlan
  <2> QED
    BY <1>1, <2>1, <2>3, <2>4, DetectionPlanned
<1>5. CASE ~u.sfx /\ ~first
  <2>1. WebtoonPlan(ps, u, found) = Planned(ps, "bubble", <<>>, u.box, found)
    BY <1>5 DEF WebtoonPlan
  <2> QED
    BY <1>1, <2>1, ExtraPlanned
<1> QED
  BY <1>3, <1>4, <1>5

(* The regions of a webtoon page have identities and orders of their own,     *)
(* however many of them lie in one bubble and whatever detections the sound   *)
(* effects fall into.                                                        *)
LEMMA WebtoonPlansAgree ==
    ASSUME NEW found, Numbered(found), NEW U, \A u \in U : IsUnit(u) /\ Names(u, found),
           NEW texts \in Seq(U)
    PROVE  Agree(PlanWebtoon(texts, found), found) /\ Len(PlanWebtoon(texts, found)) = Len(texts)
<1> DEFINE n == Len(texts)
<1>1. n \in Nat /\ \A k \in 1..n : texts[k] \in U
  <2>1. \A k \in DOMAIN texts : texts[k] \in U
    OBVIOUS
  <2> QED
    BY <2>1
<1>2. PICK acc \in [0..n -> Seq(PlanSet)] :
        /\ acc[0] = <<>> /\ PlanWebtoon(texts, found) = acc[n]
        /\ \A k \in 1..n : acc[k] = Append(acc[k - 1], WebtoonPlan(acc[k - 1], texts[k], found))
  BY WebtoonSteps DEF Numbered
<1> HIDE DEF n
<1> DEFINE Q(m) == m <= n => Agree(acc[m], found) /\ Len(acc[m]) = m
           P == {m \in Nat : Q(m)}
<1>3. Q(0)
  BY <1>2, NoPlans
<1>4. ASSUME NEW m \in Nat, Q(m) PROVE Q(m + 1)
  <2> SUFFICES ASSUME m + 1 <= n PROVE Agree(acc[m + 1], found) /\ Len(acc[m + 1]) = m + 1
    OBVIOUS
  <2>1. m + 1 \in 1..n /\ m <= n /\ (m + 1) - 1 = m /\ m \in 0..n
    BY <1>1
  <2>2. Agree(acc[m], found) /\ Len(acc[m]) = m
    BY <1>4, <2>1
  <2>3. acc[m + 1] = Append(acc[m], WebtoonPlan(acc[m], texts[m + 1], found))
    BY <1>2, <2>1
  <2>4. texts[m + 1] \in U
    BY <1>1, <2>1
  <2>5. IsUnit(texts[m + 1]) /\ Names(texts[m + 1], found)
    BY <2>4
  <2>6. Agree(acc[m + 1], found)
    BY <2>2, <2>3, <2>5, WebtoonPlanAgrees
  <2>7. acc[m] \in Seq(PlanSet) /\ WebtoonPlan(acc[m], texts[m + 1], found) \in PlanSet
    BY <2>2, <2>5, WebtoonPlanTyped DEF Agree, Numbered
  <2>8. Len(acc[m + 1]) = m + 1
    BY <2>2, <2>3, <2>7, StageAppended
  <2> QED
    BY <2>6, <2>8
<1>5. \A m \in Nat : Q(m)
  <2> HIDE DEF Q
  <2>1. 0 \in P
    BY <1>3
  <2>2. \A m \in Nat : m \in P => m + 1 \in P
    BY <1>4
  <2> HIDE DEF P
  <2>3. Nat \subseteq P
    BY <2>1, <2>2, SetInduction
  <2> QED
    BY <2>3 DEF P
<1>6. Q(n) /\ n <= n
  BY <1>1, <1>5
<1> QED
  BY <1>2, <1>6 DEF n

(* So have those of a manga page, whose units are different detections.      *)
LEMMA MangaPlansAgree ==
    ASSUME NEW found, Numbered(found), NEW U, \A u \in U : IsUnit(u) /\ Names(u, found),
           NEW texts \in Seq(U),
           \A i, j \in DOMAIN texts : i # j /\ texts[i].sem # <<>> => texts[i].sem # texts[j].sem
    PROVE  Agree(PlanManga(texts, found), found) /\ Len(PlanManga(texts, found)) = Len(texts)
<1> DEFINE n == Len(texts)
<1>1. n \in Nat /\ DOMAIN texts = 1..n /\ \A k \in 1..n : texts[k] \in U
  <2>1. \A k \in DOMAIN texts : texts[k] \in U
    OBVIOUS
  <2> QED
    BY <2>1
<1>2. PICK acc \in [0..n -> Seq(PlanSet)] :
        /\ acc[0] = <<>> /\ PlanManga(texts, found) = acc[n]
        /\ \A k \in 1..n : acc[k] = Append(acc[k - 1], MangaPlan(acc[k - 1], texts[k], found))
  BY MangaSteps DEF Numbered
<1> HIDE DEF n
<1> DEFINE Q(m) == m <= n => /\ Agree(acc[m], found) /\ Len(acc[m]) = m
                             /\ \A i \in 1..m : acc[m][i].sem = texts[i].sem
           P == {m \in Nat : Q(m)}
<1>3. Q(0)
  <2>1. 1..0 = {}
    BY FoldStep
  <2> QED
    BY <1>2, <2>1, NoPlans
<1>4. ASSUME NEW m \in Nat, Q(m) PROVE Q(m + 1)
  <2> SUFFICES ASSUME m + 1 <= n
               PROVE  /\ Agree(acc[m + 1], found) /\ Len(acc[m + 1]) = m + 1
                      /\ \A i \in 1..(m + 1) : acc[m + 1][i].sem = texts[i].sem
    OBVIOUS
  <2>1. m + 1 \in 1..n /\ m <= n /\ (m + 1) - 1 = m /\ m \in 0..n
    BY <1>1
  <2>2. Agree(acc[m], found) /\ Len(acc[m]) = m /\ \A i \in 1..m : acc[m][i].sem = texts[i].sem
    BY <1>4, <2>1
  <2> DEFINE u == texts[m + 1]
             p == MangaPlan(acc[m], u, found)
  <2>3. acc[m + 1] = Append(acc[m], p)
    BY <1>2, <2>1
  <2>4. u \in U
    BY <1>1, <2>1
  <2>5. IsUnit(u) /\ Names(u, found)
    BY <2>4
  <2>6. Takes(acc[m], u.sem, found)
    <3>1. CASE u.sem = <<>>
      BY <3>1 DEF Takes
    <3>2. CASE u.sem # <<>>
      <4>1. PICK d \in DOMAIN found : u.sem = <<found[d]>>
        BY <2>5, <3>2 DEF Names
      <4>2. found[d].id \notin Represented(acc[m])
        <5>1. SUFFICES ASSUME found[d].id \in Represented(acc[m]) PROVE FALSE
          OBVIOUS
        <5>2. PICK i \in DOMAIN acc[m] : acc[m][i].sem # <<>> /\ acc[m][i].sem[1].id = found[d].id
          BY <5>1 DEF Represented
        <5>3. i \in 1..m
          <6>1. acc[m] \in Seq(PlanSet)
            BY <2>2 DEF Agree
          <6> QED
            BY <2>2, <5>2, <6>1
        <5>4. texts[i].sem # <<>> /\ texts[i].sem[1].id = found[d].id
          BY <2>2, <5>2, <5>3
        <5>5. i \in DOMAIN texts /\ m + 1 \in DOMAIN texts /\ i # m + 1 /\ texts[i] \in U
          BY <1>1, <2>1, <5>3
        <5>6. PICK e \in DOMAIN found : texts[i].sem = <<found[e]>>
          BY <5>4, <5>5 DEF Names
        <5>7. found[e].id = found[d].id
          BY <5>4, <5>6
        <5>8. e = d
          BY <5>7 DEF Numbered
        <5>9. texts[i].sem = texts[m + 1].sem
          BY <4>1, <5>6, <5>8
        <5> QED
          BY <5>4, <5>5, <5>9
      <4> QED
        BY <4>1, <4>2 DEF Takes
    <3> QED
      BY <3>1, <3>2
  <2>7. Agree(acc[m + 1], found) /\ p.sem = u.sem
    BY <2>2, <2>3, <2>5, <2>6, MangaPlanAgrees
  <2>8. acc[m] \in Seq(PlanSet) /\ p \in PlanSet
    BY <2>2, <2>5, MangaPlanTyped DEF Agree, Numbered
  <2> HIDE DEF p
  <2>9. /\ Len(acc[m + 1]) = m + 1 /\ acc[m + 1][m + 1] = p
        /\ \A i \in DOMAIN acc[m] : acc[m + 1][i] = acc[m][i]
    BY <2>2, <2>3, <2>8, StageAppended
  <2>10. ASSUME NEW i \in 1..(m + 1) PROVE acc[m + 1][i].sem = texts[i].sem
    <3>1. CASE i = m + 1
      BY <2>7, <2>9, <3>1
    <3>2. CASE i # m + 1
      <4>1. i \in 1..m
        BY <3>2
      <4>2. i \in DOMAIN acc[m]
        BY <2>2, <2>8, <4>1
      <4> QED
        BY <2>2, <2>9, <4>1, <4>2
    <3> QED
      BY <3>1, <3>2
  <2> QED
    BY <2>7, <2>9, <2>10
<1>5. \A m \in Nat : Q(m)
  <2> HIDE DEF Q
  <2>1. 0 \in P
    BY <1>3
  <2>2. \A m \in Nat : m \in P => m + 1 \in P
    BY <1>4
  <2> HIDE DEF P
  <2>3. Nat \subseteq P
    BY <2>1, <2>2, SetInduction
  <2> QED
    BY <2>3 DEF P
<1>6. Q(n) /\ n <= n
  BY <1>1, <1>5
<1> QED
  BY <1>2, <1>6 DEF n

-----------------------------------------------------------------------------
(* The regions of the document.                                              *)

(* A parent is a detection of the page that has none itself.                 *)
ParentsKnown(found) ==
    \A i \in DOMAIN found : found[i].parent # <<>> =>
        \E j \in DOMAIN found : found[j].id = found[i].parent /\ found[j].parent = <<>>

(* The identities of the detections that may be parents.                     *)
Roots(found) == {SemanticId(found[j]) : j \in {i \in DOMAIN found : found[i].parent = <<>>}}

LEMMA ParentIsRoot ==
    ASSUME NEW found, Numbered(found), ParentsKnown(found), NEW sem,
           sem = <<>> \/ \E m \in DOMAIN found : sem = <<found[m]>>
    PROVE  ParentOf(sem, found) = NoText \/ ParentOf(sem, found) \in Roots(found)
<1>1. CASE sem = <<>>
  BY <1>1 DEF ParentOf
<1>2. CASE sem # <<>>
  <2>1. PICK m \in DOMAIN found : sem = <<found[m]>>
    BY <1>2
  <2>2. sem[1] = found[m]
    BY <2>1
  <2>3. CASE found[m].parent = <<>>
    BY <2>2, <2>3 DEF ParentOf
  <2>4. CASE found[m].parent # <<>>
    <3> DEFINE i == CHOOSE i \in DOMAIN found : found[i].id = found[m].parent
    <3>1. PICK j \in DOMAIN found : found[j].id = found[m].parent /\ found[j].parent = <<>>
      BY <2>4 DEF ParentsKnown
    <3>2. i \in DOMAIN found /\ found[i].id = found[m].parent
      BY <3>1
    <3>3. i = j
      BY <3>1, <3>2 DEF Numbered
    <3>4. ParentOf(sem, found) = SemanticId(found[i])
      BY <1>2, <2>2, <2>4 DEF ParentOf
    <3> HIDE DEF i
    <3> QED
      BY <3>1, <3>3, <3>4 DEF Roots
  <2> QED
    BY <2>3, <2>4
<1> QED
  BY <1>1, <1>2

(* Detections with one identity are one.                                     *)
LEMMA SameIdentity ==
    ASSUME NEW found, Numbered(found), NEW i \in DOMAIN found, NEW j \in DOMAIN found,
           SemanticId(found[i]) = SemanticId(found[j])
    PROVE  i = j
<1>1. SemanticId(found[i]).of = found[i].id /\ SemanticId(found[j]).of = found[j].id
  BY DEF SemanticId
<1> QED
  BY <1>1 DEF Numbered

LEMMA JoinedAll ==
    ASSUME NEW S, NEW s \in Seq(S), NEW t \in Seq(S)
    PROVE  /\ Len(s) \in Nat /\ Len(t) \in Nat /\ Len(s \o t) = Len(s) + Len(t)
           /\ DOMAIN (s \o t) = 1..(Len(s) + Len(t))
           /\ \A i \in 1..Len(s) : (s \o t)[i] = s[i]
           /\ \A i \in (Len(s) + 1)..(Len(s) + Len(t)) :
                i - Len(s) \in 1..Len(t) /\ (s \o t)[i] = t[i - Len(s)]
OBVIOUS

(* A region has the fields its texts depend on, and here it shows none.      *)
HasTexts(r) == {"id", "order", "text", "translation", "manual"} \subseteq DOMAIN r

WithoutText(r) == HasTexts(r) /\ r.translation = NoText /\ r.manual = NoText

(* The regions after the plans are the detections no plan took, each once.    *)
LEMMA UnprocessedAre ==
    ASSUME NEW found, Numbered(found), NEW ps, NEW maskOf
    PROVE  LET left == UnprocessedRegions(ps, found, maskOf) IN
           \E S, at : /\ left \in Seq(S) /\ at \in [1..Len(left) -> DOMAIN found]
                      /\ \A i, j \in 1..Len(left) : at[i] = at[j] => i = j
                      /\ \A m \in DOMAIN found : found[m].id \notin Represented(ps) =>
                            \E i \in 1..Len(left) : at[i] = m
                      /\ \A i \in 1..Len(left) :
                            /\ found[at[i]].id \notin Represented(ps)
                            /\ left[i].id = SemanticId(found[at[i]])
                            /\ left[i].order = found[at[i]].order
                            /\ left[i].parent = ParentOf(<<found[at[i]]>>, found)
                            /\ WithoutText(left[i])
<1> DEFINE I == {i \in DOMAIN found : found[i].id \notin Represented(ps)}
           chosen == Selected(found, I)
           left == UnprocessedRegions(ps, found, maskOf)
           n == Cardinality(I)
           region(i) ==
             [id |-> SemanticId(chosen[i]), kind |-> chosen[i].kind, box |-> chosen[i].box,
              order |-> chosen[i].order, parent |-> ParentOf(<<chosen[i]>>, found),
              text |-> NoText, valid |-> FALSE, translation |-> NoText,
              masks |-> maskOf[chosen[i]], cleanup |-> {}, render |-> <<>>, manual |-> NoText]
<1>1. left = [i \in DOMAIN chosen |-> region(i)]
  BY DEF UnprocessedRegions
<1>2. I \in SUBSET DOMAIN found /\ found \in Seq(SemSet)
      /\ \A m \in DOMAIN found : m \in I <=> found[m].id \notin Represented(ps)
  BY DEF Numbered
<1> HIDE DEF I, region, left
<1>3. /\ chosen \in Seq(SemSet) /\ Len(chosen) = n
      /\ \E at \in [1..n -> I] : Enumerates(at, I) /\ \A k \in 1..n : chosen[k] = found[at[k]]
  <2>1. found \in Seq(SemSet) /\ I \in SUBSET DOMAIN found
    BY <1>2
  <2> HIDE DEF n, chosen
  <2>2. /\ Selected(found, I) \in Seq(SemSet) /\ Len(Selected(found, I)) = Cardinality(I)
        /\ \E at \in [1..Cardinality(I) -> I] :
              Enumerates(at, I) /\ \A k \in 1..Cardinality(I) : Selected(found, I)[k] = found[at[k]]
    BY <2>1, SelectedPlaces
  <2> QED
    BY <2>2 DEF n, chosen
<1> HIDE DEF chosen
<1>4. n \in Nat /\ DOMAIN chosen = 1..n
  BY <1>3
<1> HIDE DEF n
<1>5. PICK at \in [1..n -> I] : Enumerates(at, I) /\ \A k \in 1..n : chosen[k] = found[at[k]]
  BY <1>3
<1> DEFINE S == {region(i) : i \in 1..n}
<1>6. left = [i \in 1..n |-> region(i)] /\ \A i \in 1..n : region(i) \in S
  BY <1>1, <1>4 DEF S
<1>7. \A i \in 1..n : /\ region(i).id = SemanticId(chosen[i])
                      /\ region(i).order = chosen[i].order
                      /\ region(i).parent = ParentOf(<<chosen[i]>>, found)
                      /\ WithoutText(region(i))
  BY DEF region, WithoutText, HasTexts
<1> HIDE DEF S
<1>8. left \in Seq(S) /\ Len(left) = n /\ \A i \in 1..n : left[i] = region(i)
  BY <1>4, <1>6
<1>9. at \in [1..n -> DOMAIN found] /\ \A i \in 1..n : at[i] \in I
  BY <1>2, <1>5
<1>10. \A i, j \in 1..n : at[i] = at[j] => i = j
  BY <1>5 DEF Enumerates
<1>11. \A m \in I : \E i \in 1..n : at[i] = m
  BY <1>5 DEF Enumerates
<1>12. \A i \in 1..n : /\ found[at[i]].id \notin Represented(ps)
                       /\ left[i].id = SemanticId(found[at[i]])
                       /\ left[i].order = found[at[i]].order
                       /\ left[i].parent = ParentOf(<<found[at[i]]>>, found)
                       /\ WithoutText(left[i])
  BY <1>2, <1>5, <1>7, <1>8, <1>9
<1> QED
  BY <1>2, <1>8, <1>9, <1>10, <1>11, <1>12 DEF left

(* Parents that have none themselves make no cycle.                          *)
LEMMA ChainsEnd ==
    ASSUME NEW S, NEW doc \in Seq(S), NEW R,
           \A i \in DOMAIN doc : doc[i].parent # NoText => doc[i].parent \in R,
           \A i \in DOMAIN doc : doc[i].id \in R => doc[i].parent = NoText,
           ParentsExist(doc)
    PROVE  Acyclic(doc)
<1> DEFINE all == {doc[i].id : i \in DOMAIN doc}
           above(ids) == {doc[i].parent : i \in {j \in DOMAIN doc : doc[j].id \in ids}} \ {NoText}
           A == SUBSET (all \cup {doc[i].parent : i \in DOMAIN doc})
           D == [a \in A |-> above(a)]
           reached[n \in Nat] == IF n = 0 THEN all ELSE above(reached[n - 1])
<1>1. Acyclic(doc) <=> reached[Len(doc)] = {}
  BY DEF Acyclic
<1>2. all \in A /\ (\A a \in A : above(a) \in A) /\ \A a \in A : D[a] = above(a)
  OBVIOUS
<1>3. D \in [A -> A]
  BY <1>2
<1> HIDE DEF A, D, all
<1>4. PICK h : IsIterate(h, A, all, D)
  BY <1>2, <1>3, IterateExists
<1> HIDE DEF above
<1>5. h = [n \in Nat |-> IF n = 0 THEN all ELSE above(h[n - 1])]
  <2>1. ASSUME NEW n \in Nat, n # 0 PROVE h[n] = above(h[n - 1])
    <3>1. n - 1 \in Nat /\ (n - 1) + 1 = n
      BY <2>1
    <3>2. h[(n - 1) + 1] = D[h[n - 1]] /\ h[n - 1] \in A
      BY <1>4, <3>1 DEF IsIterate
    <3> QED
      BY <1>2, <3>1, <3>2
  <2>2. h[0] = all /\ h = [n \in Nat |-> h[n]]
    BY <1>4 DEF IsIterate
  <2> QED
    BY <2>1, <2>2
<1>6. reached = [n \in Nat |-> IF n = 0 THEN all ELSE above(reached[n - 1])]
  BY <1>5
<1> HIDE DEF reached
<1>7. reached[0] = all
  BY <1>6
<1>8. ASSUME NEW n \in Nat PROVE reached[n + 1] = above(reached[n])
  <2>1. n + 1 \in Nat /\ n + 1 # 0 /\ (n + 1) - 1 = n
    OBVIOUS
  <2> QED
    BY <1>6, <2>1
<1>9. \A ids : above(ids) \subseteq R
  BY DEF above
<1>10. reached[1] = above(all)
  <2>1. reached[0 + 1] = above(reached[0]) /\ 0 + 1 = 1
    BY <1>8
  <2> QED
    BY <1>7, <2>1
<1>11. \A ids \in SUBSET R : above(ids) = {}
  BY DEF above
<1> DEFINE Q(n) == reached[n + 2] = {}
           P == {n \in Nat : Q(n)}
<1>12. Q(0)
  <2>1. reached[1 + 1] = above(reached[1]) /\ 1 + 1 = 0 + 2
    BY <1>8
  <2> QED
    BY <1>9, <1>10, <1>11, <2>1
<1>13. ASSUME NEW n \in Nat, Q(n) PROVE Q(n + 1)
  <2>1. n + 2 \in Nat /\ (n + 2) + 1 = (n + 1) + 2
    OBVIOUS
  <2>2. reached[(n + 2) + 1] = above(reached[n + 2])
    BY <1>8, <2>1
  <2> QED
    BY <1>11, <1>13, <2>1, <2>2
<1>14. \A n \in Nat : Q(n)
  <2> HIDE DEF Q
  <2>1. P \in SUBSET Nat /\ 0 \in P /\ \A n \in P : n + 1 \in P
    BY <1>12, <1>13
  <2>2. P = Nat
    BY <2>1, SetInduction
  <2> QED
    BY <2>2
<1> DEFINE n == Len(doc)
<1>15. n \in Nat /\ DOMAIN doc = 1..n
  OBVIOUS
<1> HIDE DEF n
<1>16. reached[n] = {}
  <2>1. CASE n = 0
    <3>1. 1..0 = {}
      OBVIOUS
    <3> QED
      BY <1>7, <1>15, <2>1, <3>1 DEF all
  <2>2. CASE n = 1
    <3>1. DOMAIN doc = {1}
      BY <1>15, <2>2
    <3>2. doc[1].parent = NoText
      <4>1. SUFFICES ASSUME doc[1].parent # NoText PROVE FALSE
        OBVIOUS
      <4>2. PICK j \in DOMAIN doc : doc[j].id = doc[1].parent
        BY <3>1, <4>1 DEF ParentsExist
      <4>3. j = 1 /\ doc[1].parent \in R
        BY <3>1, <4>1
      <4> QED
        BY <3>1, <4>1, <4>2, <4>3
    <3>3. above(all) = {}
      BY <3>1, <3>2 DEF above
    <3> QED
      BY <1>10, <2>2, <3>3
  <2>3. CASE n # 0 /\ n # 1
    <3>1. n - 2 \in Nat /\ (n - 2) + 2 = n
      BY <1>15, <2>3
    <3>2. Q(n - 2)
      BY <1>14, <3>1
    <3> QED
      BY <3>1, <3>2
  <2> QED
    BY <2>1, <2>2, <2>3
<1> QED
  BY <1>1, <1>16 DEF n

(* What a region of a document comes from: a detection, or a plan without one. *)
FromDetection(r, m, found) ==
    /\ r.id = SemanticId(found[m]) /\ r.order = found[m].order
    /\ r.parent = ParentOf(<<found[m]>>, found)

Behind(r, found) == r.id.of = <<>> /\ r.parent = NoText /\ FirstExtra(found) <= r.order

(* The region of a plan that agrees.                                         *)
LEMMA PlanIsRegion ==
    ASSUME NEW found, NEW ps, Agree(ps, found), NEW i \in DOMAIN ps, NEW r,
           r.id = ps[i].id, r.order = ps[i].order, r.parent = ParentOf(ps[i].sem, found)
    PROVE  \/ Behind(r, found)
           \/ \E m \in DOMAIN found : FromDetection(r, m, found) /\ found[m].id \in Represented(ps)
<1>1. CASE ps[i].sem = <<>>
  <2>1. ComesLast(ps[i], ps, found)
    BY <1>1 DEF Agree
  <2> QED
    BY <1>1, <2>1 DEF ComesLast, Behind, ParentOf
<1>2. CASE ps[i].sem # <<>>
  <2>1. TakesOne(ps[i], found)
    BY <1>2 DEF Agree
  <2>2. PICK m \in DOMAIN found : /\ ps[i].sem = <<found[m]>> /\ ps[i].id = SemanticId(found[m])
                                  /\ ps[i].order = found[m].order
    BY <2>1 DEF TakesOne
  <2>3. ps[i].sem[1] = found[m]
    BY <2>2
  <2>4. found[m].id \in Represented(ps)
    BY <1>2, <2>3 DEF Represented
  <2>5. FromDetection(r, m, found)
    BY <2>2 DEF FromDetection
  <2> QED
    BY <2>4, <2>5
<1> QED
  BY <1>1, <1>2

(* Regions of two detections differ, and so do those of a detection and of a  *)
(* plan without one.                                                         *)
LEMMA RegionsApart ==
    ASSUME NEW found, Numbered(found), NEW r, NEW s, NEW m \in DOMAIN found,
           FromDetection(s, m, found), r.order \in Int,
           \/ Behind(r, found)
           \/ \E k \in DOMAIN found : FromDetection(r, k, found) /\ k # m
    PROVE  r.id # s.id /\ r.order # s.order
<1>1. found[m] \in SemSet /\ found \in Seq(SemSet)
  BY DEF Numbered
<1>2. s.id.of = found[m].id /\ found[m].id # <<>> /\ found[m].order \in Int
      /\ s.order = found[m].order
  BY <1>1 DEF FromDetection, SemanticId, SemSet, Id
<1>3. CASE Behind(r, found)
  <2>1. FirstExtra(found) \in Int /\ found[m].order < FirstExtra(found)
    BY <1>1, ExtrasComeLast
  <2>2. r.id.of = <<>> /\ FirstExtra(found) <= r.order
    BY <1>3 DEF Behind
  <2> QED
    BY <1>2, <2>1, <2>2
<1>4. CASE \E k \in DOMAIN found : FromDetection(r, k, found) /\ k # m
  <2>1. PICK k \in DOMAIN found : FromDetection(r, k, found) /\ k # m
    BY <1>4
  <2>2. r.id.of = found[k].id /\ r.order = found[k].order
    BY <2>1 DEF FromDetection, SemanticId
  <2>3. found[k].id # found[m].id /\ found[k].order # found[m].order
    BY <2>1 DEF Numbered
  <2> QED
    BY <1>2, <2>2, <2>3
<1> QED
  BY <1>3, <1>4

(* A document whose regions come from plans that agree, and after them from   *)
(* the detections nothing took, passes the checks between regions.            *)
LEMMA DocumentAgrees ==
    ASSUME NEW found, Numbered(found), ParentsKnown(found), NEW ps, Agree(ps, found), NEW maskOf,
           NEW T, NEW own \in Seq(T), Len(own) = Len(ps),
           \A i \in DOMAIN own : /\ own[i].id = ps[i].id /\ own[i].order = ps[i].order
                                 /\ own[i].parent = ParentOf(ps[i].sem, found)
    PROVE  LET doc == own \o UnprocessedRegions(ps, found, maskOf) IN
           OwnIdentities(doc) /\ ParentsExist(doc) /\ Acyclic(doc)
<1> DEFINE left == UnprocessedRegions(ps, found, maskOf)
           doc == own \o left
<1>1. PICK S, at : /\ left \in Seq(S) /\ at \in [1..Len(left) -> DOMAIN found]
                   /\ \A i, j \in 1..Len(left) : at[i] = at[j] => i = j
                   /\ \A m \in DOMAIN found : found[m].id \notin Represented(ps) =>
                         \E i \in 1..Len(left) : at[i] = m
                   /\ \A i \in 1..Len(left) :
                         /\ found[at[i]].id \notin Represented(ps)
                         /\ left[i].id = SemanticId(found[at[i]])
                         /\ left[i].order = found[at[i]].order
                         /\ left[i].parent = ParentOf(<<found[at[i]]>>, found)
                         /\ WithoutText(left[i])
  BY UnprocessedAre
<1> HIDE DEF left
<1> DEFINE U == S \cup T
           a == Len(own)
           b == Len(left)
<1>2. own \in Seq(U) /\ left \in Seq(U)
  BY <1>1
<1>3. doc \in Seq(U)
  BY <1>2
<1> HIDE DEF U
<1>4. /\ a \in Nat /\ b \in Nat /\ Len(doc) = a + b /\ DOMAIN doc = 1..(a + b)
      /\ \A i \in 1..a : doc[i] = own[i]
      /\ \A i \in (a + 1)..(a + b) : i - a \in 1..b /\ doc[i] = left[i - a]
  BY <1>2, JoinedAll
<1> HIDE DEF doc
<1>5. DOMAIN own = 1..a /\ DOMAIN ps = 1..a
  <2>1. ps \in Seq(PlanSet)
    BY DEF Agree
  <2> QED
    BY <2>1
<1>6. /\ \A i \in DOMAIN ps : ps[i] \in PlanSet
      /\ \A m \in DOMAIN found : found[m] \in SemSet /\ found[m].order \in Int
  <2>1. ps \in Seq(PlanSet) /\ found \in Seq(SemSet)
    BY DEF Agree, Numbered
  <2>2. \A m \in DOMAIN found : found[m] \in SemSet
    BY <2>1
  <2> QED
    BY <2>1, <2>2 DEF SemSet
<1> DEFINE from(i) == at[i - a]
<1> HIDE DEF a, b
<1>7. ASSUME NEW i \in 1..a
      PROVE  /\ i \in DOMAIN ps /\ doc[i].id = ps[i].id /\ doc[i].order = ps[i].order
             /\ doc[i].order \in Int
             /\ \/ Behind(doc[i], found)
                \/ \E m \in DOMAIN found : /\ FromDetection(doc[i], m, found)
                                          /\ found[m].id \in Represented(ps)
  <2>1. ps[i] \in PlanSet
    BY <1>5, <1>6
  <2>2. i \in DOMAIN ps /\ i \in DOMAIN own /\ doc[i] = own[i]
    BY <1>4, <1>5
  <2>3. doc[i].id = ps[i].id /\ doc[i].order = ps[i].order
        /\ doc[i].parent = ParentOf(ps[i].sem, found)
    BY <2>2
  <2>4. doc[i].order \in Int
    BY <2>1, <2>3 DEF PlanSet
  <2> QED
    BY <2>2, <2>3, <2>4, PlanIsRegion
<1>8. ASSUME NEW i \in (a + 1)..(a + b)
      PROVE  /\ i - a \in 1..b /\ from(i) \in DOMAIN found /\ doc[i].order \in Int
             /\ FromDetection(doc[i], from(i), found)
             /\ found[from(i)].id \notin Represented(ps)
  <2>1. i - a \in 1..b /\ doc[i] = left[i - a]
    BY <1>4
  <2>2. from(i) \in DOMAIN found
    BY <1>1, <2>1 DEF b
  <2>3. /\ doc[i].id = SemanticId(found[from(i)]) /\ doc[i].order = found[from(i)].order
        /\ doc[i].parent = ParentOf(<<found[from(i)]>>, found)
        /\ found[from(i)].id \notin Represented(ps)
    BY <1>1, <2>1 DEF b
  <2>4. found[from(i)].order \in Int
    BY <1>6, <2>2
  <2> QED
    BY <2>1, <2>2, <2>3, <2>4 DEF FromDetection
<1>9. \A i, j \in (a + 1)..(a + b) : i # j => from(i) # from(j)
  <2> SUFFICES ASSUME NEW i \in (a + 1)..(a + b), NEW j \in (a + 1)..(a + b), from(i) = from(j)
               PROVE  i = j
    OBVIOUS
  <2>1. i - a \in 1..b /\ j - a \in 1..b
    BY <1>8
  <2>2. i - a = j - a
    BY <1>1, <2>1 DEF b
  <2> QED
    BY <1>4, <2>2
<1> HIDE DEF from
<1>10. DOMAIN doc = 1..a \cup (a + 1)..(a + b)
  BY <1>4
<1>11. ASSUME NEW i \in 1..a, NEW j \in (a + 1)..(a + b)
       PROVE  doc[i].id # doc[j].id /\ doc[i].order # doc[j].order
  <2>1. CASE Behind(doc[i], found)
    BY <1>7, <1>8, <2>1, RegionsApart
  <2>2. CASE ~Behind(doc[i], found)
    <3>1. PICK m \in DOMAIN found : /\ FromDetection(doc[i], m, found)
                                    /\ found[m].id \in Represented(ps)
      BY <1>7, <2>2
    <3>2. m # from(j)
      BY <1>8, <3>1
    <3> QED
      BY <1>7, <1>8, <3>1, <3>2, RegionsApart
  <2> QED
    BY <2>1, <2>2
<1>12. OwnIdentities(doc)
  <2> SUFFICES ASSUME NEW i \in DOMAIN doc, NEW j \in DOMAIN doc, i # j
               PROVE  doc[i].id # doc[j].id /\ doc[i].order # doc[j].order
    BY DEF OwnIdentities
  <2>1. CASE i \in 1..a /\ j \in 1..a
    <3>1. ps[i].id # ps[j].id /\ ps[i].order # ps[j].order
      BY <1>7, <2>1 DEF Agree, Apiece
    <3> QED
      BY <1>7, <2>1, <3>1
  <2>2. CASE i \in 1..a /\ j \in (a + 1)..(a + b)
    BY <1>11, <2>2
  <2>3. CASE i \in (a + 1)..(a + b) /\ j \in 1..a
    BY <1>11, <2>3
  <2>4. CASE i \in (a + 1)..(a + b) /\ j \in (a + 1)..(a + b)
    <3>1. from(i) # from(j)
      BY <1>9, <2>4
    <3> QED
      BY <1>8, <2>4, <3>1, RegionsApart
  <2> QED
    BY <1>10, <2>1, <2>2, <2>3, <2>4
<1>13. ASSUME NEW i \in DOMAIN doc
       PROVE  Behind(doc[i], found) \/ \E m \in DOMAIN found : FromDetection(doc[i], m, found)
  BY <1>7, <1>8, <1>10
<1>14. ASSUME NEW i \in DOMAIN doc, doc[i].parent # NoText PROVE doc[i].parent \in Roots(found)
  <2>1. PICK m \in DOMAIN found : FromDetection(doc[i], m, found)
    BY <1>13, <1>14 DEF Behind
  <2>2. doc[i].parent = ParentOf(<<found[m]>>, found)
    BY <2>1 DEF FromDetection
  <2> QED
    BY <1>14, <2>2, ParentIsRoot
<1>15. ASSUME NEW j \in DOMAIN found
       PROVE  \E i \in DOMAIN doc : doc[i].id = SemanticId(found[j])
  <2>1. CASE found[j].id \in Represented(ps)
    <3>1. PICK i \in DOMAIN ps : ps[i].sem # <<>> /\ ps[i].sem[1].id = found[j].id
      BY <2>1 DEF Represented
    <3>2. TakesOne(ps[i], found)
      BY <3>1 DEF Agree
    <3>3. PICK m \in DOMAIN found : ps[i].sem = <<found[m]>> /\ ps[i].id = SemanticId(found[m])
      BY <3>2 DEF TakesOne
    <3>4. ps[i].sem[1] = found[m]
      BY <3>3
    <3>5. m = j
      BY <3>1, <3>4 DEF Numbered
    <3>6. i \in DOMAIN doc /\ doc[i].id = ps[i].id
      BY <1>5, <1>7, <1>10
    <3> QED
      BY <3>3, <3>5, <3>6
  <2>2. CASE found[j].id \notin Represented(ps)
    <3>1. PICK k \in 1..b : at[k] = j
      BY <1>1, <2>2 DEF b
    <3>2. k + a \in (a + 1)..(a + b) /\ (k + a) - a = k
      BY <1>4, <3>1
    <3>3. from(k + a) = j
      BY <3>1, <3>2 DEF from
    <3>4. FromDetection(doc[k + a], j, found)
      BY <1>8, <3>2, <3>3
    <3> QED
      BY <1>10, <3>2, <3>4 DEF FromDetection
  <2> QED
    BY <2>1, <2>2
<1>16. ParentsExist(doc)
  BY <1>14, <1>15 DEF ParentsExist, Roots
<1>17. ASSUME NEW i \in DOMAIN doc, doc[i].id \in Roots(found) PROVE doc[i].parent = NoText
  <2>1. PICK j \in DOMAIN found : doc[i].id = SemanticId(found[j]) /\ found[j].parent = <<>>
    BY <1>17 DEF Roots
  <2>2. doc[i].id.of = found[j].id /\ found[j].id # <<>>
    <3>1. found[j] \in SemSet
      BY DEF Numbered
    <3> QED
      BY <2>1, <3>1 DEF SemanticId, SemSet, Id
  <2>3. PICK m \in DOMAIN found : Behind(doc[i], found) \/ FromDetection(doc[i], m, found)
    BY <1>13, <2>1
  <2>4. FromDetection(doc[i], m, found)
    BY <2>2, <2>3 DEF Behind
  <2>5. m = j
    BY <2>1, <2>4, SameIdentity DEF FromDetection
  <2>6. ParentOf(<<found[m]>>, found) = NoText
    BY <2>1, <2>5 DEF ParentOf
  <2> QED
    BY <2>4, <2>6 DEF FromDetection
<1>18. Acyclic(doc)
  BY <1>3, <1>14, <1>16, <1>17, ChainsEnd
<1> QED
  BY <1>12, <1>16, <1>18 DEF doc, left

-----------------------------------------------------------------------------
(* Reading.                                                                  *)

(* finalize_detections numbers what a page is planned with.                  *)
LEMMA DetectionsNumbered ==
    ASSUME NEW raw \in Seq(RawDetection), NEW direction
    PROVE  /\ Numbered(Finalized(Adapted(raw), direction))
           /\ ParentsKnown(Finalized(Adapted(raw), direction))
<1> DEFINE S == Adapted(raw)
           found == Finalized(S, direction)
<1>1. AreDetections(S)
  BY AdaptedDetections
<1> HIDE DEF S
<1>2. PICK ordered : Final(found, DeduplicateByClass(S), ordered)
  BY <1>1, FinalizedIs
<1>3. AreDetections(DeduplicateByClass(S))
  BY <1>1, SuppressionKeeps, PartOfDetections
<1> HIDE DEF found
<1>4. /\ found \in Seq(SemSet)
      /\ \A i, j \in DOMAIN found : found[i].id = found[j].id => i = j
      /\ \A i \in DOMAIN found : found[i].order = i - 1
      /\ \A i \in DOMAIN found : found[i].parent # <<>> =>
                \E j \in DOMAIN found : found[j].id = found[i].parent /\ found[j].parent = <<>>
  BY <1>2, <1>3, FinalFacts
<1>5. \A i, j \in DOMAIN found : i # j => found[i].order # found[j].order
  <2>1. DOMAIN found \subseteq Int
    BY <1>4
  <2> QED
    BY <1>4, <2>1
<1>6. Numbered(found) /\ ParentsKnown(found)
  BY <1>4, <1>5 DEF Numbered, ParentsKnown
<1> QED
  BY <1>6 DEF found, S

(* A region of the page is of one detection, or of none.                     *)
LEMMA SemFound ==
    ASSUME Numbered(sems), NEW region
    PROVE  /\ SemOf(region) \in Seq(SemSet)
           /\ \/ SemOf(region) = <<>>
              \/ \E m \in DOMAIN sems : SemOf(region) = <<sems[m]>> /\ sems[m].id = region.sem
<1> DEFINE I == {i \in DOMAIN sems : sems[i].id = region.sem}
           found == Selected(sems, I)
           n == Cardinality(I)
<1>1. SemOf(region) = found
  BY DEF SemOf
<1>2. sems \in Seq(SemSet) /\ I \in SUBSET DOMAIN sems
      /\ \A m \in DOMAIN sems : m \in I <=> sems[m].id = region.sem
  BY DEF Numbered
<1>3. \A i, j \in I : i = j
  BY DEF Numbered
<1> HIDE DEF I
<1>4. /\ found \in Seq(SemSet) /\ Len(found) = n
      /\ \E at \in [1..n -> I] : Enumerates(at, I) /\ \A k \in 1..n : found[k] = sems[at[k]]
  <2> HIDE DEF n, found
  <2>1. /\ Selected(sems, I) \in Seq(SemSet) /\ Len(Selected(sems, I)) = Cardinality(I)
        /\ \E at \in [1..Cardinality(I) -> I] :
              Enumerates(at, I) /\ \A k \in 1..Cardinality(I) : Selected(sems, I)[k] = sems[at[k]]
    BY <1>2, SelectedPlaces
  <2> QED
    BY <2>1 DEF n, found
<1>5. PICK at \in [1..n -> I] : Enumerates(at, I) /\ \A k \in 1..n : found[k] = sems[at[k]]
  BY <1>4
<1> HIDE DEF found
<1>6. CASE I = {}
  <2>1. n = 0
    BY <1>6, FS_EmptySet
  <2> HIDE DEF n
  <2> QED
    BY <1>1, <1>4, <2>1
<1>7. CASE I # {}
  <2>1. PICK m : m \in I
    BY <1>7
  <2>2. I = {m}
    BY <1>3, <2>1
  <2>3. n = 1
    BY <2>2, FS_Singleton
  <2> HIDE DEF n
  <2>4. at[1] = m /\ found[1] = sems[m]
    <3>1. 1 \in 1..n
      BY <2>3
    <3>2. at[1] \in I
      BY <1>5, <3>1
    <3> QED
      BY <1>5, <2>2, <3>1, <3>2
  <2>5. found = <<sems[m]>>
    BY <1>4, <2>3, <2>4
  <2> QED
    BY <1>1, <1>2, <1>4, <2>1, <2>5
<1> QED
  BY <1>6, <1>7

(* No two regions that are read are of one detection.                        *)
LEMMA RegionsDiffer ==
    ASSUME NEW found, Numbered(found)
    PROVE  /\ ProcessingRegions(found) \in Seq([sem : Id, box : BoxSet, artwork : BOOLEAN])
           /\ \A k, l \in DOMAIN ProcessingRegions(found) :
                ProcessingRegions(found)[k].sem = ProcessingRegions(found)[l].sem => k = l
<1> DEFINE I == {i \in DOMAIN found : found[i].kind # "panel" /\ found[i].parent = <<>>}
           read == Selected(found, I)
           n == Cardinality(I)
           regions == ProcessingRegions(found)
<1>1. regions = [k \in DOMAIN read |->
            [sem |-> read[k].id, box |-> read[k].box, artwork |-> read[k].kind = "sfx"]]
  BY DEF ProcessingRegions
<1>2. found \in Seq(SemSet) /\ I \in SUBSET DOMAIN found
  BY DEF Numbered
<1>3. regions \in Seq([sem : Id, box : BoxSet, artwork : BOOLEAN])
  <2> HIDE DEF regions
  <2>1. ProcessingRegions(found) \in Seq([sem : Id, box : BoxSet, artwork : BOOLEAN])
    BY <1>2, RegionsRead
  <2> QED
    BY <2>1 DEF regions
<1> HIDE DEF I, regions
<1>4. /\ read \in Seq(SemSet) /\ Len(read) = n
      /\ \E at \in [1..n -> I] : Enumerates(at, I) /\ \A k \in 1..n : read[k] = found[at[k]]
  <2> HIDE DEF n, read
  <2>1. /\ Selected(found, I) \in Seq(SemSet) /\ Len(Selected(found, I)) = Cardinality(I)
        /\ \E at \in [1..Cardinality(I) -> I] :
              Enumerates(at, I) /\ \A k \in 1..Cardinality(I) : Selected(found, I)[k] = found[at[k]]
    BY <1>2, SelectedPlaces
  <2> QED
    BY <2>1 DEF n, read
<1>5. PICK at \in [1..n -> I] : Enumerates(at, I) /\ \A k \in 1..n : read[k] = found[at[k]]
  BY <1>4
<1> HIDE DEF read
<1>6. DOMAIN read = 1..n
  BY <1>4
<1> HIDE DEF n
<1>7. \A k \in 1..n : regions[k].sem = found[at[k]].id /\ at[k] \in DOMAIN found
  BY <1>1, <1>2, <1>5, <1>6
<1>8. DOMAIN regions = 1..n
  BY <1>1, <1>6
<1>9. ASSUME NEW k \in 1..n, NEW l \in 1..n, regions[k].sem = regions[l].sem PROVE k = l
  <2>1. at[k] = at[l]
    BY <1>7, <1>9 DEF Numbered
  <2> QED
    BY <1>5, <2>1 DEF Enumerates
<1> QED
  BY <1>3, <1>8, <1>9 DEF regions

(* What a unit takes from its region.                                        *)
LEMMA UnitRead ==
    ASSUME Numbered(sems), NEW region, NEW u, u.sem = SemOf(region), u.box \in BoxSet,
           u.artwork \in BOOLEAN, u.sfx \in BOOLEAN
    PROVE  IsUnit(u) /\ Names(u, sems)
BY SemFound DEF IsUnit, Names

(* The regions of a bubble are a sequence.                                   *)
LEMMA PreparedSequence ==
    ASSUME NEW lines \in Seq(TextDetection)
    PROVE  \E n \in Nat : DOMAIN PrepareRegions(lines) = 1..n
<1>1. CASE \E r : PrepareRegions(lines) = <<r>>
  <2>1. DOMAIN PrepareRegions(lines) = 1..1 /\ 1 \in Nat
    BY <1>1
  <2> QED
    BY <2>1
<1>2. CASE IsTitle(lines) \/ ~ValidKorean(TextOf(lines))
  BY <1>1, <1>2, Zenon DEF PrepareRegions
<1>3. CASE ~(IsTitle(lines) \/ ~ValidKorean(TextOf(lines))) /\ Len(Subgroups(lines)) = 1
  BY <1>1, <1>3, Zenon DEF PrepareRegions
<1>4. CASE ~(IsTitle(lines) \/ ~ValidKorean(TextOf(lines))) /\ ~(Len(Subgroups(lines)) = 1)
  <2> DEFINE groups == Subgroups(lines)
  <2>1. PrepareRegions(lines) = [i \in DOMAIN groups |->
            Region(groups[i], ValidKorean(TextOf(groups[i])))]
    BY <1>4 DEF PrepareRegions
  <2>2. groups \in Seq(Seq(TextDetection))
    BY GroupsAreLines
  <2> HIDE DEF groups
  <2>3. DOMAIN PrepareRegions(lines) = 1..Len(groups) /\ Len(groups) \in Nat
    BY <2>1, <2>2
  <2> QED
    BY <2>3
<1> QED
  BY <1>2, <1>3, <1>4

(* A function on 1..n is a sequence of its values.                           *)
LEMMA SequenceOf ==
    ASSUME NEW n \in Nat, NEW f, f = [i \in 1..n |-> f[i]], NEW U, \A i \in 1..n : f[i] \in U
    PROVE  f \in Seq(U) /\ Len(f) = n
OBVIOUS

LEMMA SequenceOfRange ==
    ASSUME NEW S, NEW s \in Seq(S)
    PROVE  s \in Seq(Range(s)) /\ \A u \in Range(s) : \E i \in DOMAIN s : u = s[i]
<1> DEFINE n == Len(s)
<1>1. n \in Nat /\ DOMAIN s = 1..n /\ s = [i \in 1..n |-> s[i]]
  OBVIOUS
<1> HIDE DEF n
<1>2. \A i \in 1..n : s[i] \in Range(s)
  BY <1>1 DEF Range
<1>3. s \in Seq(Range(s))
  BY <1>1, <1>2
<1> QED
  BY <1>3 DEF Range

(* The units of a webtoon page.                                              *)
LEMMA WebtoonUnitsRead ==
    ASSUME page \in Pages, ~IsManga, page.pipeline # "book_furigana", Numbered(sems),
           sems = Finalized(Adapted(page.raw), "vertical")
    PROVE  /\ WebtoonUnits \in Seq(Range(WebtoonUnits))
           /\ \A u \in Range(WebtoonUnits) : IsUnit(u) /\ Names(u, sems)
<1> DEFINE regions == ProcessingRegions(sems)
           n == Len(regions)
           texts(i) == PrepareRegions(page.lines[i])
           bubble(i) ==
            IF regions[i].artwork THEN <<>>
            ELSE [k \in DOMAIN texts(i) |->
                    Unit(i, regions[i], regions[i].box, texts(i)[k].lines, <<"text", i, k>>,
                         texts(i)[k].valid, FALSE, FALSE)]
           sfx(i) ==
            IF ~regions[i].artwork THEN <<>>
            ELSE [k \in DOMAIN page.lines[i] |->
                    Unit(i, [regions[i] EXCEPT !.sem = <<>>], page.lines[i][k].box,
                         <<page.lines[i][k]>>, <<"text", i, k>>,
                         IsHangul(page.lines[i][k].text), FALSE, TRUE)]
           bubbles == [i \in DOMAIN regions |-> bubble(i)]
           effects == [i \in DOMAIN regions |-> sfx(i)]
           U == (UNION {Range(bubble(i)) : i \in 1..n}) \cup (UNION {Range(sfx(i)) : i \in 1..n})
<1>1. /\ regions \in Seq([sem : Id, box : BoxSet, artwork : BOOLEAN])
      /\ page.lines \in Seq(Seq(TextDetection)) /\ DOMAIN regions = DOMAIN page.lines
  BY RegionsDiffer, PagesAssumption DEF IsManga
<1>2. WebtoonUnits = FlattenSeq(bubbles) \o FlattenSeq(effects)
  BY DEF WebtoonUnits
<1> HIDE DEF regions
<1>3. n \in Nat /\ DOMAIN regions = 1..n
  BY <1>1
<1> HIDE DEF n
<1>4. ASSUME NEW i \in 1..n
      PROVE  /\ regions[i] \in [sem : Id, box : BoxSet, artwork : BOOLEAN]
             /\ page.lines[i] \in Seq(TextDetection)
  <2>1. regions[i] \in [sem : Id, box : BoxSet, artwork : BOOLEAN]
    <3>1. i \in DOMAIN regions
      BY <1>3
    <3> DEFINE R == [sem : Id, box : BoxSet, artwork : BOOLEAN]
    <3>2. regions \in Seq(R)
      BY <1>1
    <3> HIDE DEF R
    <3>3. regions[i] \in R
      BY <3>1, <3>2
    <3> QED
      BY <3>3 DEF R
  <2>2. i \in DOMAIN page.lines
    BY <1>1, <1>3
  <2> QED
    BY <1>1, <2>1, <2>2
<1>5. ASSUME NEW i \in 1..n
      PROVE  /\ bubble(i) \in Seq(Range(bubble(i)))
             /\ \A u \in Range(bubble(i)) : IsUnit(u) /\ Names(u, sems)
  <2>1. CASE regions[i].artwork
    <3>1. bubble(i) = <<>>
      BY <2>1
    <3> HIDE DEF bubble
    <3> QED
      BY <3>1 DEF Range
  <2>2. CASE ~regions[i].artwork
    <3> DEFINE unit(k) == Unit(i, regions[i], regions[i].box, texts(i)[k].lines,
                               <<"text", i, k>>, texts(i)[k].valid, FALSE, FALSE)
    <3>1. PICK m \in Nat : DOMAIN texts(i) = 1..m
      BY <1>4, PreparedSequence
    <3>2. bubble(i) = [k \in 1..m |-> unit(k)]
      BY <2>2, <3>1
    <3>3. regions[i].artwork \in BOOLEAN /\ regions[i].box \in BoxSet /\ FALSE \in BOOLEAN
      BY <1>4
    <3> HIDE DEF bubble, texts
    <3>4. ASSUME NEW k \in 1..m PROVE IsUnit(unit(k)) /\ Names(unit(k), sems)
      <4>1. /\ unit(k).sem = SemOf(regions[i]) /\ unit(k).box = regions[i].box
            /\ unit(k).artwork = regions[i].artwork /\ unit(k).sfx = FALSE
        BY DEF Unit
      <4> HIDE DEF unit
      <4> QED
        BY <3>3, <4>1, UnitRead
    <3> HIDE DEF unit
    <3> DEFINE s == bubble(i)
    <3>5. /\ DOMAIN s = 1..m /\ s = [k \in 1..m |-> s[k]]
          /\ \A k \in 1..m : s[k] = unit(k)
      BY <3>2
    <3> HIDE DEF s
    <3>6. \A k \in 1..m : s[k] \in Range(s)
      BY <3>5 DEF Range
    <3>7. s \in Seq(Range(s))
      BY <3>5, <3>6, SequenceOf
    <3>8. \A u \in Range(s) : IsUnit(u) /\ Names(u, sems)
      BY <3>4, <3>5 DEF Range
    <3> QED
      BY <3>7, <3>8 DEF s
  <2> QED
    BY <2>1, <2>2
<1>6. ASSUME NEW i \in 1..n
      PROVE  /\ sfx(i) \in Seq(Range(sfx(i)))
             /\ \A u \in Range(sfx(i)) : IsUnit(u) /\ Names(u, sems)
  <2>1. CASE ~regions[i].artwork
    <3>1. sfx(i) = <<>>
      BY <2>1
    <3> HIDE DEF sfx
    <3> QED
      BY <3>1 DEF Range
  <2>2. CASE regions[i].artwork
    <3> DEFINE lines == page.lines[i]
               alone == [regions[i] EXCEPT !.sem = <<>>]
               unit(k) == Unit(i, alone, lines[k].box, <<lines[k]>>, <<"text", i, k>>,
                               IsHangul(lines[k].text), FALSE, TRUE)
    <3>1. lines \in Seq(TextDetection)
      BY <1>4
    <3>2. sfx(i) = [k \in DOMAIN lines |-> unit(k)]
      BY <2>2
    <3>3. alone.artwork \in BOOLEAN /\ TRUE \in BOOLEAN
      <4>1. regions[i] \in [sem : Id, box : BoxSet, artwork : BOOLEAN]
        BY <1>4
      <4> QED
        BY <4>1
    <3> HIDE DEF sfx, lines, alone
    <3>4. PICK m \in Nat : DOMAIN lines = 1..m
      BY <3>1
    <3>5. ASSUME NEW k \in 1..m PROVE IsUnit(unit(k)) /\ Names(unit(k), sems)
      <4>1. lines[k] \in TextDetection
        BY <3>1, <3>4
      <4>2. lines[k].box \in BoxSet
        BY <4>1 DEF TextDetection
      <4>3. /\ unit(k).sem = SemOf(alone) /\ unit(k).box = lines[k].box
            /\ unit(k).artwork = alone.artwork /\ unit(k).sfx = TRUE
        BY DEF Unit
      <4> HIDE DEF unit
      <4> QED
        BY <3>3, <4>2, <4>3, UnitRead
    <3> HIDE DEF unit
    <3> DEFINE s == sfx(i)
    <3>6. /\ DOMAIN s = 1..m /\ s = [k \in 1..m |-> s[k]]
          /\ \A k \in 1..m : s[k] = unit(k)
      BY <3>2, <3>4
    <3> HIDE DEF s
    <3>7. \A k \in 1..m : s[k] \in Range(s)
      BY <3>6 DEF Range
    <3>8. s \in Seq(Range(s))
      BY <3>6, <3>7, SequenceOf
    <3>9. \A u \in Range(s) : IsUnit(u) /\ Names(u, sems)
      BY <3>5, <3>6 DEF Range
    <3> QED
      BY <3>8, <3>9 DEF s
  <2> QED
    BY <2>1, <2>2
<1> HIDE DEF bubble, sfx
<1>7. \A i \in 1..n : bubble(i) \in Seq(U) /\ sfx(i) \in Seq(U)
  BY <1>5, <1>6
<1>8. \A u \in U : IsUnit(u) /\ Names(u, sems)
  BY <1>5, <1>6
<1> HIDE DEF U
<1>9. bubbles \in Seq(Seq(U)) /\ effects \in Seq(Seq(U))
  BY <1>3, <1>7
<1> HIDE DEF bubbles, effects
<1>10. WebtoonUnits \in Seq(U)
  BY <1>2, <1>9, Flattened, Concatenation
<1> DEFINE all == WebtoonUnits
<1>11. all \in Seq(U)
  BY <1>10
<1> HIDE DEF all
<1>12. all \in Seq(Range(all)) /\ \A u \in Range(all) : u \in U
  <2>1. \A i \in DOMAIN all : all[i] \in U
    BY <1>11
  <2> QED
    BY <1>11, <2>1, SequenceOfRange
<1> QED
  BY <1>8, <1>12 DEF all

-----------------------------------------------------------------------------
(* The translation request.                                                  *)

(* The units that are asked for all have a plan.                             *)
LEMMA EligiblePlanned ==
    ASSUME NEW S, units \in Seq(S), Agree(plans, sems), Len(plans) = Len(units)
    PROVE  /\ Eligible \in SUBSET DOMAIN plans /\ IsFiniteSet(Eligible)
           /\ DOMAIN units = DOMAIN plans
           /\ \A i \in DOMAIN plans : plans[i].id \in PlanIds /\ plans[i].order \in Int
<1>1. /\ DOMAIN units = 1..Len(units) /\ DOMAIN plans = 1..Len(plans) /\ Len(units) \in Nat
      /\ \A i \in DOMAIN plans : plans[i] \in PlanSet
  BY DEF Agree
<1>2. Eligible \in SUBSET DOMAIN plans
  BY <1>1 DEF Eligible
<1>3. IsFiniteSet(Eligible)
  <2>1. IsFiniteSet(1..Len(units)) /\ DOMAIN plans = 1..Len(units)
    BY <1>1, FS_Interval
  <2> QED
    BY <1>2, <2>1, FS_Subset
<1>4. ASSUME NEW i \in DOMAIN plans PROVE plans[i].id \in PlanIds /\ plans[i].order \in Int
  <2>1. plans[i] \in PlanSet
    BY <1>1
  <2> QED
    BY <2>1 DEF PlanSet
<1> QED
  BY <1>1, <1>2, <1>3, <1>4

(* The request names every item once.                                        *)
LEMMA RequestNamesEach ==
    ASSUME NEW S, units \in Seq(S), Agree(plans, sems), Len(plans) = Len(units)
    PROVE  /\ RequestItems \in Seq(PlanIds) /\ Distinct(RequestItems)
           /\ Eligible # {} => RequestItems # <<>>
<1> DEFINE E == Eligible
           n == Cardinality(E)
           R == {p \in E \X E : plans[p[1]].order < plans[p[2]].order}
           asked == Ranked(E, LAMBDA i, j : plans[i].order < plans[j].order)
<1>1. /\ E \in SUBSET DOMAIN plans /\ IsFiniteSet(E)
      /\ \A i \in DOMAIN plans : plans[i].id \in PlanIds /\ plans[i].order \in Int
  BY EligiblePlanned
<1>2. RequestItems = [k \in DOMAIN asked |-> plans[asked[k]].id]
  BY DEF RequestItems
<1>3. asked = [k \in 1..n |->
            CHOOSE x \in E : Cardinality({y \in E : plans[y].order < plans[x].order}) = k - 1]
  BY DEF Ranked
<1> HIDE DEF asked, E
<1>4. StrictOrder(R, E)
  <2>1. \A i, j \in E : i # j => plans[i].order # plans[j].order
    BY <1>1 DEF Agree, Apiece
  <2>2. \A i \in E : plans[i].order \in Int
    BY <1>1
  <2> QED
    BY <2>1, <2>2 DEF StrictOrder
<1>5. \A x \in E : {y \in E : plans[y].order < plans[x].order} = Below(R, E, x)
  BY DEF Below
<1> HIDE DEF R
<1>6. ASSUME NEW k \in 1..n
      PROVE  asked[k] \in E /\ Cardinality(Below(R, E, asked[k])) = k - 1
  <2>1. PICK x \in E : Cardinality(Below(R, E, x)) = k - 1
    BY <1>1, <1>4, RankOnto
  <2>2. Cardinality({y \in E : plans[y].order < plans[x].order}) = k - 1
    BY <1>5, <2>1
  <2>3. /\ asked[k] \in E
        /\ Cardinality({y \in E : plans[y].order < plans[asked[k]].order}) = k - 1
    BY <1>3, <2>2
  <2> QED
    BY <1>5, <2>3
<1>7. asked \in [1..n -> E]
  BY <1>3, <1>6
<1>8. Enumerates(asked, E)
  BY <1>1, <1>4, <1>6, <1>7, EnumeratedByRank
<1>9. n \in Nat /\ (E # {} => n # 0)
  BY <1>1, FS_CardinalityType, FS_EmptySet
<1> HIDE DEF n
<1>10. RequestItems = [k \in 1..n |-> plans[asked[k]].id]
  BY <1>2, <1>7
<1>11. \A k \in 1..n : plans[asked[k]].id \in PlanIds
  BY <1>1, <1>7
<1>12. RequestItems \in Seq(PlanIds) /\ Len(RequestItems) = n /\ DOMAIN RequestItems = 1..n
  BY <1>9, <1>10, <1>11
<1>13. Distinct(RequestItems)
  <2> SUFFICES ASSUME NEW k \in 1..n, NEW l \in 1..n, k # l
               PROVE  RequestItems[k] # RequestItems[l]
    BY <1>12 DEF Distinct
  <2>1. asked[k] # asked[l] /\ asked[k] \in DOMAIN plans /\ asked[l] \in DOMAIN plans
    BY <1>1, <1>7, <1>8 DEF Enumerates
  <2> QED
    BY <1>10, <2>1 DEF Agree, Apiece
<1>14. E # {} => RequestItems # <<>>
  BY <1>9, <1>12
<1> QED
  BY <1>12, <1>13, <1>14 DEF E

(* The answer to an identity is joined to the unit that was asked with it.   *)
LEMMA JoinedToItsUnit ==
    ASSUME NEW S, units \in Seq(S), Agree(plans, sems), Len(plans) = Len(units),
           NEW i \in Eligible
    PROVE  AskedText(plans[i].id) = units[i].text
<1> DEFINE j == CHOOSE j \in Eligible : plans[j].id = plans[i].id
<1>1. j \in Eligible /\ plans[j].id = plans[i].id
  OBVIOUS
<1>2. AskedText(plans[i].id) = units[j].text
  BY DEF AskedText
<1> HIDE DEF j
<1>3. j = i
  BY <1>1, EligiblePlanned DEF Agree, Apiece
<1> QED
  BY <1>2, <1>3

-----------------------------------------------------------------------------
(* The inductive invariant.                                                  *)

Direction == IF IsManga THEN "manga" ELSE "vertical"

AreUnits(texts, found) ==
    /\ texts \in Seq(Range(texts))
    /\ \A i \in DOMAIN texts : IsUnit(texts[i]) /\ Names(texts[i], found)

(* The units of a manga page are read one region after the other.            *)
OfRegions(texts, found) ==
    \A i \in DOMAIN texts :
        /\ i \in DOMAIN ProcessingRegions(found)
        /\ texts[i].sem # <<>> => texts[i].sem[1].id = ProcessingRegions(found)[i].sem

ReadInv ==
    /\ page \in Pages
    /\ Numbered(sems) /\ ParentsKnown(sems) /\ AreUnits(units, sems)
    /\ stage = "detect" => units = <<>>
    /\ stage = "ocr" => /\ page.pipeline # "book_furigana"
                        /\ sems = Finalized(Adapted(page.raw), Direction)
                        /\ IsManga => OfRegions(units, sems)
                        /\ ~IsManga => units = <<>>

(* A text that is there is the transformation of its own unit's.             *)
OwnTexts(results, texts) ==
    \A i \in DOMAIN results :
        i \in DOMAIN texts /\ results[i] \in {NoText, Transformed(texts[i].text)}

PlanInv ==
    /\ Agree(plans, sems)
    /\ stage \in {"detect", "ocr"} => plans = <<>> /\ transformed = <<>> /\ outcomes = <<>>
    /\ stage \in {"transform", "translating", "cleanup", "build"} =>
         Len(plans) = Len(units) /\ DOMAIN transformed = DOMAIN units
    /\ OwnTexts(transformed, units)

(* A region shows the transformation of its own text, or the reader's.       *)
Sound(r) ==
    /\ HasTexts(r) /\ r.translation \in {NoText, Transformed(r.text)}
    /\ r.manual \in {NoText, <<"manual">>}

SoundDocument(regions) ==
    OwnIdentities(regions) /\ \A i \in DOMAIN regions : Sound(regions[i])

DrawnOf(items, regions) == \A item \in items : \E i \in DOMAIN regions : regions[i].id = item.id

DocumentInv ==
    /\ stage \notin {"completed", "rerender"} => image = {}
    /\ stage \in {"render", "completed", "rerender"} => SoundDocument(document)
    /\ stage = "render" => \A i \in DOMAIN document : document[i].manual = NoText
    /\ DrawnOf(image, document)

JobInv == PageJobTypeOK /\ ReadInv /\ PlanInv /\ DocumentInv /\ Inv

-----------------------------------------------------------------------------
(* What most steps keep.                                                     *)

LEMMA ReadKept ==
    ASSUME ReadInv, UNCHANGED <<page, sems, units>>, stage' \notin {"detect", "ocr"}
    PROVE  ReadInv'
BY DEF ReadInv

LEMMA PlanKept ==
    ASSUME PlanInv, UNCHANGED <<sems, units, plans, transformed>>, stage' \notin {"detect", "ocr"},
           stage' \in {"transform", "translating", "cleanup", "build"} =>
                stage \in {"transform", "translating", "cleanup", "build"}
    PROVE  PlanInv'
BY DEF PlanInv

(* New results for the same units.                                           *)
LEMMA ResultsKept ==
    ASSUME PlanInv, UNCHANGED <<sems, units, plans>>,
           stage \in {"transform", "translating", "cleanup", "build"},
           stage' \in {"transform", "translating", "cleanup", "build"},
           DOMAIN transformed' = DOMAIN units, OwnTexts(transformed', units)
    PROVE  PlanInv'
BY DEF PlanInv

LEMMA NothingDrawn ==
    ASSUME DocumentInv, UNCHANGED <<document, image>>,
           stage \notin {"completed", "rerender"},
           stage' \notin {"completed", "rerender", "render"}
    PROVE  DocumentInv'
BY DEF DocumentInv, DrawnOf

LEMMA TranslationKept == ASSUME Inv, UNCHANGED translation PROVE Inv' /\ TranslationTypeOK'
<1>1. Inv'
  BY MoveInv
<1> QED
  BY <1>1 DEF Inv

(* A function over the units has their number.                               *)
LEMMA AsManyAs ==
    ASSUME NEW found, NEW texts, AreUnits(texts, found), NEW f,
           f = [i \in DOMAIN texts |-> f[i]]
    PROVE  Len(f) = Len(texts) /\ DOMAIN f = DOMAIN texts
<1> DEFINE n == Len(texts)
<1>1. n \in Nat /\ DOMAIN texts = 1..n
  BY DEF AreUnits
<1> HIDE DEF n
<1> QED
  BY <1>1 DEF n

LEMMA FailsInv ==
    ASSUME JobInv, stage \notin {"completed", "rerender", "failed"},
           NEW reason \in {"backend", "refused", "not prose"}, Fails(reason)
    PROVE  JobInv'
<1>1. /\ stage' = "failed" /\ why' = reason /\ UNCHANGED translation
      /\ UNCHANGED <<page, sems, units, plans, transformed, outcomes, document, changed, image,
                     cacheable, edits>>
  BY DEF Fails, translation
<1>2. ReadInv' /\ PlanInv' /\ DocumentInv'
  BY <1>1, ReadKept, PlanKept, NothingDrawn DEF JobInv
<1>3. Inv' /\ TranslationTypeOK'
  BY <1>1, TranslationKept DEF JobInv
<1>4. PageJobTypeOK'
  BY <1>1, <1>3 DEF JobInv, PageJobTypeOK
<1> QED
  BY <1>2, <1>3, <1>4 DEF JobInv

LEMMA BackendFailsInv == ASSUME JobInv, BackendFails PROVE JobInv'
BY FailsInv DEF BackendFails

LEMMA TranslationFailsInv == ASSUME JobInv, TranslationFails PROVE JobInv'
BY FailsInv DEF TranslationFails

LEMMA StartInv == ASSUME PageJobInit PROVE JobInv
<1>1. Inv
  BY InitInv DEF PageJobInit
<1>2. PageJobTypeOK
  <2>1. TranslationTypeOK
    BY <1>1 DEF Inv
  <2>2. 0 \in 0..MaxEdits /\ Len(<<>>) = 0
    BY PageJobAssumption
  <2> QED
    BY <2>1, <2>2 DEF PageJobInit, PageJobTypeOK
<1>3. ReadInv
  BY DEF PageJobInit, ReadInv, Numbered, ParentsKnown, AreUnits
<1>4. PlanInv
  BY NoPlans DEF PageJobInit, PlanInv, OwnTexts
<1>5. DocumentInv
  BY DEF PageJobInit, DocumentInv, DrawnOf
<1> QED
  BY <1>1, <1>2, <1>3, <1>4, <1>5 DEF JobInv

-----------------------------------------------------------------------------
(* The steps up to the plans.                                                *)

LEMMA DetectInv == ASSUME JobInv, Detect PROVE JobInv'
<1>1. /\ stage = "detect" /\ stage' = "ocr" /\ page.pipeline # "book_furigana"
      /\ sems' = Finalized(Adapted(page.raw), Direction)
      /\ UNCHANGED <<page, why, edits, units, plans, transformed, outcomes, document, changed,
                     image, cacheable>>
      /\ UNCHANGED translation
  BY DEF Detect, Goes, Direction
<1>2. page \in Pages /\ units = <<>> /\ plans = <<>> /\ transformed = <<>> /\ outcomes = <<>>
  BY <1>1 DEF JobInv, ReadInv, PlanInv
<1>3. Numbered(sems') /\ ParentsKnown(sems')
  BY <1>1, <1>2, DetectionsNumbered, PagesAssumption
<1>4. ReadInv'
  <2>1. AreUnits(<<>>, sems') /\ OfRegions(<<>>, sems')
    BY DEF AreUnits, OfRegions
  <2>2. Direction' = Direction /\ (IsManga' <=> IsManga)
    BY <1>1 DEF Direction, IsManga
  <2> QED
    BY <1>1, <1>2, <1>3, <2>1, <2>2 DEF ReadInv
<1>5. PlanInv'
  BY <1>1, <1>2, NoPlans DEF PlanInv, OwnTexts
<1>6. DocumentInv'
  BY <1>1, NothingDrawn DEF JobInv
<1>7. Inv' /\ TranslationTypeOK'
  BY <1>1, TranslationKept DEF JobInv
<1>8. PageJobTypeOK'
  BY <1>1, <1>7 DEF JobInv, PageJobTypeOK
<1> QED
  BY <1>4, <1>5, <1>6, <1>7, <1>8 DEF JobInv

LEMMA OcrMangaInv == ASSUME JobInv, OcrManga PROVE JobInv'
<1> DEFINE regions == ProcessingRegions(sems)
           n == Len(units) + 1
<1>1. PICK valid, degraded \in BOOLEAN :
        units' = Append(units, Unit(n, regions[n], regions[n].box, <<>>, <<"text", n>>,
                                    valid, degraded, FALSE))
  BY DEF OcrManga
<1> DEFINE u == Unit(n, regions[n], regions[n].box, <<>>, <<"text", n>>, valid, degraded, FALSE)
<1>2. /\ stage = "ocr" /\ stage' = "ocr" /\ IsManga /\ n <= Len(regions)
      /\ UNCHANGED <<page, why, edits, sems, plans, transformed, outcomes, document, changed,
                     image, cacheable>>
      /\ UNCHANGED translation
  BY DEF OcrManga, Goes
<1>3. u.sem = SemOf(regions[n]) /\ u.box = regions[n].box /\ u.artwork = regions[n].artwork
      /\ u.sfx = FALSE
  BY DEF Unit
<1>4. units' = Append(units, u)
  BY <1>1
<1> HIDE DEF u
<1>5. Numbered(sems) /\ AreUnits(units, sems) /\ OfRegions(units, sems)
  BY <1>2 DEF JobInv, ReadInv
<1>6. n \in DOMAIN regions /\ regions[n].box \in BoxSet /\ regions[n].artwork \in BOOLEAN
  <2> DEFINE R == [sem : Id, box : BoxSet, artwork : BOOLEAN]
  <2>1. regions \in Seq(R)
    BY <1>5, RegionsDiffer
  <2>2. Len(units) \in Nat
    BY <1>5 DEF AreUnits
  <2> HIDE DEF R, regions
  <2>3. n \in DOMAIN regions
    BY <1>2, <2>1, <2>2
  <2>4. regions[n] \in R
    BY <2>1, <2>3
  <2> QED
    BY <2>3, <2>4 DEF R
<1>7. IsUnit(u) /\ Names(u, sems)
  BY <1>3, <1>5, <1>6, UnitRead
<1>8. u.sem # <<>> => u.sem[1].id = regions[n].sem
  <2> SUFFICES ASSUME u.sem # <<>> PROVE u.sem[1].id = regions[n].sem
    OBVIOUS
  <2>1. PICK m \in DOMAIN sems : u.sem = <<sems[m]>> /\ sems[m].id = regions[n].sem
    BY <1>3, <1>5, SemFound
  <2>2. u.sem[1] = sems[m]
    BY <2>1
  <2> QED
    BY <2>1, <2>2
<1> DEFINE U == Range(units) \cup {u}
<1>9. units \in Seq(U) /\ u \in U
  BY <1>5 DEF AreUnits
<1> HIDE DEF U, regions
<1>10. /\ units' \in Seq(U) /\ DOMAIN units' = DOMAIN units \cup {n} /\ units'[n] = u
       /\ \A i \in DOMAIN units : units'[i] = units[i]
  BY <1>4, <1>9, StageAppended
<1> HIDE DEF n
<1>11. AreUnits(units', sems)
  <2>1. units' \in Seq(Range(units'))
    BY <1>10, SequenceOfRange
  <2> QED
    BY <1>5, <1>7, <1>10, <2>1 DEF AreUnits
<1>12. OfRegions(units', sems)
  BY <1>5, <1>6, <1>8, <1>10 DEF OfRegions, regions
<1>13. ReadInv'
  <2>1. Direction' = Direction /\ (IsManga' <=> IsManga)
    BY <1>2 DEF Direction, IsManga
  <2> QED
    BY <1>2, <1>11, <1>12, <2>1 DEF JobInv, ReadInv
<1>14. plans = <<>> /\ transformed = <<>> /\ outcomes = <<>>
  BY <1>2 DEF JobInv, PlanInv
<1>15. PlanInv'
  BY <1>2, <1>14 DEF JobInv, PlanInv, OwnTexts
<1>16. DocumentInv'
  BY <1>2, NothingDrawn DEF JobInv
<1>17. Inv' /\ TranslationTypeOK'
  BY <1>2, TranslationKept DEF JobInv
<1>18. PageJobTypeOK'
  BY <1>2, <1>14, <1>17 DEF JobInv, PageJobTypeOK
<1> QED
  BY <1>13, <1>15, <1>16, <1>17, <1>18 DEF JobInv

LEMMA PlanStepInv == ASSUME JobInv, Plan PROVE JobInv'
<1>1. /\ stage = "ocr" /\ stage' = "transform"
      /\ UNCHANGED <<page, why, edits, sems, outcomes, document, changed, image, cacheable>>
      /\ UNCHANGED translation
  BY DEF Plan, Goes
<1>2. /\ units' = IF IsManga THEN units ELSE WebtoonUnits
      /\ plans' = IF IsManga THEN PlanManga(units', sems) ELSE PlanWebtoon(units', sems)
      /\ transformed' = [i \in DOMAIN units' |-> NoText]
  BY DEF Plan
<1>3. /\ page \in Pages /\ Numbered(sems) /\ AreUnits(units, sems)
      /\ page.pipeline # "book_furigana" /\ sems = Finalized(Adapted(page.raw), Direction)
      /\ IsManga => OfRegions(units, sems)
  BY <1>1 DEF JobInv, ReadInv
<1> DEFINE texts == units'
           ps == plans'
<1>4. /\ texts \in Seq(Range(texts))
      /\ \A u \in Range(texts) : IsUnit(u) /\ Names(u, sems)
      /\ \A i \in DOMAIN texts : texts[i] \in Range(texts)
  <2>1. CASE IsManga
    <3>1. texts = units
      BY <1>2, <2>1
    <3> HIDE DEF texts
    <3>2. \A u \in Range(units) : \E i \in DOMAIN units : u = units[i]
      BY DEF Range
    <3>3. \A i \in DOMAIN units : units[i] \in Range(units)
      BY DEF Range
    <3> QED
      BY <1>3, <3>1, <3>2, <3>3 DEF AreUnits
  <2>2. CASE ~IsManga
    <3>1. texts = WebtoonUnits /\ sems = Finalized(Adapted(page.raw), "vertical")
      BY <1>2, <1>3, <2>2 DEF Direction
    <3>2. /\ WebtoonUnits \in Seq(Range(WebtoonUnits))
          /\ \A u \in Range(WebtoonUnits) : IsUnit(u) /\ Names(u, sems)
      BY <1>3, <2>2, <3>1, WebtoonUnitsRead
    <3> HIDE DEF texts
    <3>3. \A i \in DOMAIN texts : texts[i] \in Range(texts)
      BY DEF Range
    <3> QED
      BY <3>1, <3>2, <3>3
  <2> QED
    BY <2>1, <2>2
<1>5. Agree(ps, sems) /\ Len(ps) = Len(texts)
  <2>1. CASE IsManga
    <3>1. texts = units /\ ps = PlanManga(texts, sems)
      BY <1>2, <2>1
    <3> HIDE DEF ps, texts
    <3>2. ASSUME NEW i \in DOMAIN texts, NEW j \in DOMAIN texts, i # j, texts[i].sem # <<>>
          PROVE  texts[i].sem # texts[j].sem
      <4> SUFFICES ASSUME texts[i].sem = texts[j].sem PROVE FALSE
        OBVIOUS
      <4>1. /\ i \in DOMAIN ProcessingRegions(sems) /\ j \in DOMAIN ProcessingRegions(sems)
            /\ texts[i].sem[1].id = ProcessingRegions(sems)[i].sem
            /\ texts[j].sem[1].id = ProcessingRegions(sems)[j].sem
        BY <1>3, <2>1, <3>1, <3>2 DEF OfRegions
      <4> QED
        BY <1>3, <3>2, <4>1, RegionsDiffer
    <3> QED
      BY <1>3, <1>4, <3>1, <3>2, MangaPlansAgree
  <2>2. CASE ~IsManga
    <3>1. ps = PlanWebtoon(texts, sems)
      BY <1>2, <2>2
    <3> HIDE DEF ps, texts
    <3> QED
      BY <1>3, <1>4, <3>1, WebtoonPlansAgree
  <2> QED
    BY <2>1, <2>2
<1>6. AreUnits(units', sems)
  BY <1>4 DEF AreUnits
<1>7. ReadInv'
  BY <1>1, <1>6 DEF JobInv, ReadInv
<1>8. DOMAIN transformed' = DOMAIN units' /\ Len(transformed') = Len(units')
  BY <1>2, <1>6, AsManyAs
<1>9. PlanInv'
  <2>1. OwnTexts(transformed', units')
    BY <1>2 DEF OwnTexts
  <2> QED
    BY <1>1, <1>5, <1>8, <2>1 DEF PlanInv
<1>10. outcomes = <<>>
  BY <1>1 DEF JobInv, PlanInv
<1>11. DocumentInv'
  BY <1>1, NothingDrawn DEF JobInv
<1>12. Inv' /\ TranslationTypeOK'
  BY <1>1, TranslationKept DEF JobInv
<1>13. PageJobTypeOK'
  BY <1>1, <1>5, <1>8, <1>10, <1>12 DEF JobInv, PageJobTypeOK
<1> QED
  BY <1>7, <1>9, <1>11, <1>12, <1>13 DEF JobInv

-----------------------------------------------------------------------------
(* The steps of the transformation.                                          *)

LEMMA PlanIdsAre == PlanIds \subseteq RegionIds
<1>1. PlanKinds \subseteq RegionKinds
  BY DEF PlanKinds, Kinds, RegionKinds
<1>2. ASSUME NEW id \in PlanIds PROVE id \in RegionIds
  <2>1. /\ id = [kind |-> id.kind, box |-> id.box, of |-> id.of, copy |-> id.copy]
        /\ id.kind \in PlanKinds /\ id.box \in BoxSet /\ id.of \in Seq(Int) /\ id.copy \in Nat
    BY <1>2 DEF PlanIds
  <2>2. id.kind \in RegionKinds
    BY <1>1, <2>1
  <2> QED
    BY <2>1, <2>2 DEF RegionIds
<1> QED
  BY <1>2

(* What is known while the units have their plans.                           *)
LEMMA WhilePlanned ==
    ASSUME JobInv, stage \in {"transform", "translating", "cleanup", "build"}
    PROVE  /\ Numbered(sems) /\ ParentsKnown(sems) /\ AreUnits(units, sems)
           /\ units \in Seq(Range(units)) /\ Agree(plans, sems) /\ Len(plans) = Len(units)
           /\ DOMAIN transformed = DOMAIN units /\ OwnTexts(transformed, units)
BY DEF JobInv, ReadInv, PlanInv, AreUnits

(* A step that writes the results for the units.                             *)
LEMMA ResultsInv ==
    ASSUME JobInv, stage \in {"transform", "translating"}, stage' = "cleanup",
           UNCHANGED <<page, why, edits, sems, units, plans, outcomes, document, changed, image,
                       cacheable>>,
           UNCHANGED translation,
           transformed' = [i \in DOMAIN units |-> transformed'[i]],
           \A i \in DOMAIN units : transformed'[i] \in {NoText, Transformed(units[i].text)}
    PROVE  JobInv'
<1>1. DOMAIN transformed' = DOMAIN units /\ Len(transformed') = Len(units)
  BY WhilePlanned, AsManyAs
<1>2. OwnTexts(transformed', units)
  BY <1>1 DEF OwnTexts
<1>3. ReadInv' /\ PlanInv' /\ DocumentInv'
  BY <1>1, <1>2, ReadKept, ResultsKept, NothingDrawn DEF JobInv
<1>4. Inv' /\ TranslationTypeOK'
  BY TranslationKept DEF JobInv
<1>5. PageJobTypeOK'
  BY <1>1, <1>4 DEF JobInv, PageJobTypeOK
<1> QED
  BY <1>3, <1>4, <1>5 DEF JobInv

LEMMA AnnotateInv == ASSUME JobInv, Annotate PROVE JobInv'
<1>1. /\ stage = "transform" /\ stage' = "cleanup"
      /\ UNCHANGED <<page, why, edits, sems, units, plans, outcomes, document, changed, image,
                     cacheable>>
      /\ UNCHANGED translation
  BY DEF Annotate, Goes
<1>2. PICK kanji \in SUBSET Eligible :
        transformed' = [i \in DOMAIN units |->
                            IF i \in kanji THEN Transformed(units[i].text) ELSE NoText]
  BY DEF Annotate
<1> QED
  BY <1>1, <1>2, ResultsInv

LEMMA JoinInv == ASSUME JobInv, Join PROVE JobInv'
<1>1. /\ stage = "translating" /\ stage' = "cleanup"
      /\ UNCHANGED <<page, why, edits, sems, units, plans, outcomes, document, changed, image,
                     cacheable>>
      /\ UNCHANGED translation
  BY DEF Join, Goes
<1>2. transformed' = [i \in DOMAIN units |->
        IF i \in Eligible THEN Transformed(AskedText(plans[i].id)) ELSE NoText]
  BY DEF Join, JoinTexts
<1>3. \A i \in Eligible : AskedText(plans[i].id) = units[i].text
  BY <1>1, WhilePlanned, JoinedToItsUnit
<1> QED
  BY <1>1, <1>2, <1>3, ResultsInv

LEMMA NothingToTranslateInv == ASSUME JobInv, NothingToTranslate PROVE JobInv'
<1>1. /\ stage = "transform" /\ stage' = "cleanup"
      /\ UNCHANGED <<page, why, edits, sems, units, plans, transformed, outcomes, document,
                     changed, image, cacheable>>
      /\ UNCHANGED translation
  BY DEF NothingToTranslate, Goes
<1>2. ReadInv' /\ PlanInv' /\ DocumentInv'
  BY <1>1, ReadKept, PlanKept, NothingDrawn DEF JobInv
<1>3. Inv' /\ TranslationTypeOK'
  BY <1>1, TranslationKept DEF JobInv
<1>4. PageJobTypeOK'
  BY <1>1, <1>3 DEF JobInv, PageJobTypeOK
<1> QED
  BY <1>2, <1>3, <1>4 DEF JobInv

LEMMA RequestInv ==
    ASSUME RegionIds \subseteq Items, JobInv, Request PROVE JobInv'
<1>1. CASE Fails("refused")
  BY <1>1, FailsInv DEF Request
<1>2. CASE ~Fails("refused")
  <2>1. /\ stage = "transform" /\ stage' = "translating" /\ Submit(RequestItems)
        /\ UNCHANGED <<page, why, edits, sems, units, plans, transformed, outcomes, document,
                       changed, image, cacheable>>
    BY <1>2 DEF Request, Goes
  <2>2. RequestItems \in Seq(Items)
    <3>1. RequestItems \in Seq(PlanIds)
      BY <2>1, WhilePlanned, RequestNamesEach
    <3>2. PlanIds \subseteq Items
      BY PlanIdsAre
    <3> DEFINE items == RequestItems
               n == Len(items)
    <3>3. n \in Nat /\ items = [i \in 1..n |-> items[i]] /\ \A i \in 1..n : items[i] \in PlanIds
      BY <3>1
    <3> HIDE DEF n, items
    <3>4. items \in Seq(Items)
      BY <3>2, <3>3
    <3> QED
      BY <3>4 DEF items
  <2>3. Inv'
    <3> DEFINE items == RequestItems
    <3>1. items \in Seq(Items) /\ Submit(items)
      BY <2>1, <2>2
    <3> HIDE DEF items
    <3> QED
      BY <3>1, SubmitInv DEF JobInv
  <2>4. ReadInv' /\ PlanInv' /\ DocumentInv'
    BY <2>1, ReadKept, PlanKept, NothingDrawn DEF JobInv
  <2>5. PageJobTypeOK'
    BY <2>1, <2>3 DEF Inv, JobInv, PageJobTypeOK
  <2> QED
    BY <2>3, <2>4, <2>5 DEF JobInv
<1> QED
  BY <1>1, <1>2

LEMMA TranslateInv == ASSUME JobInv, Translate PROVE JobInv'
<1>1. stage = "translating" /\ Recover /\ UNCHANGED job
  BY DEF Translate
<1>2. /\ UNCHANGED <<page, stage, why, sems, units, plans, transformed, outcomes, document>>
      /\ UNCHANGED <<changed, image, cacheable, edits>>
  BY <1>1 DEF job
<1>3. Inv' /\ TranslationTypeOK'
  <2>1. Inv'
    BY <1>1, StepInv DEF JobInv, TranslationNext
  <2> QED
    BY <2>1 DEF Inv
<1>4. ReadInv' /\ PlanInv' /\ DocumentInv'
  BY <1>1, <1>2, ReadKept, PlanKept, NothingDrawn DEF JobInv
<1>5. PageJobTypeOK'
  BY <1>2, <1>3 DEF JobInv, PageJobTypeOK
<1> QED
  BY <1>3, <1>4, <1>5 DEF JobInv

LEMMA CleanPageInv == ASSUME JobInv, CleanPage PROVE JobInv'
<1>1. /\ stage = "cleanup" /\ stage' = "build"
      /\ UNCHANGED <<page, why, edits, sems, units, plans, transformed, document, image,
                     cacheable>>
      /\ UNCHANGED translation
  BY DEF CleanPage, Goes
<1>2. \E f : outcomes' = [i \in DOMAIN units |-> CleanUnit(i, f[units[i].region])]
  BY DEF CleanPage
<1>3. Len(outcomes') = Len(units)
  BY <1>1, <1>2, WhilePlanned, AsManyAs
<1>4. ReadInv' /\ PlanInv' /\ DocumentInv'
  BY <1>1, ReadKept, PlanKept, NothingDrawn DEF JobInv
<1>5. Inv' /\ TranslationTypeOK'
  BY <1>1, TranslationKept DEF JobInv
<1>6. PageJobTypeOK'
  BY <1>1, <1>3, <1>5 DEF JobInv, PageJobTypeOK
<1> QED
  BY <1>4, <1>5, <1>6 DEF JobInv

-----------------------------------------------------------------------------
(* The document.                                                             *)

(* The document a job builds passes the checks between its regions, and no    *)
(* region shows another's text.                                              *)
LEMMA BuiltAgrees ==
    ASSUME JobInv, stage = "build"
    PROVE  /\ OwnIdentities(Built) /\ ParentsExist(Built) /\ Acyclic(Built)
           /\ \A i \in DOMAIN Built : Sound(Built[i]) /\ Built[i].manual = NoText
<1> DEFINE own == [i \in DOMAIN units |-> RegionOf(i)]
           maskOf == [s \in Range(sems) |-> MaskOf(s)]
           more == UnprocessedRegions(plans, sems, maskOf)
           T == {RegionOf(i) : i \in DOMAIN units}
           n == Len(units)
<1>1. /\ Numbered(sems) /\ ParentsKnown(sems) /\ AreUnits(units, sems)
      /\ units \in Seq(Range(units)) /\ Agree(plans, sems) /\ Len(plans) = Len(units)
      /\ DOMAIN transformed = DOMAIN units /\ OwnTexts(transformed, units)
  BY WhilePlanned
<1>2. Built = own \o more
  BY DEF Built
<1>3. \A i \in DOMAIN units :
        /\ RegionOf(i).id = plans[i].id /\ RegionOf(i).order = plans[i].order
        /\ RegionOf(i).parent = ParentOf(plans[i].sem, sems)
        /\ RegionOf(i).text = units[i].text /\ RegionOf(i).translation = transformed[i]
        /\ RegionOf(i).manual = NoText /\ HasTexts(RegionOf(i))
  BY DEF RegionOf, HasTexts
<1>4. \A i \in DOMAIN units : transformed[i] \in {NoText, Transformed(units[i].text)}
  BY <1>1 DEF OwnTexts
<1> HIDE DEF maskOf, more
<1>5. n \in Nat /\ DOMAIN units = 1..n
  BY <1>1
<1>6. own \in Seq(T) /\ Len(own) = n /\ DOMAIN own = 1..n /\ \A i \in 1..n : own[i] = RegionOf(i)
  BY <1>5
<1> HIDE DEF own, n
<1>7. ASSUME NEW i \in DOMAIN own
      PROVE  /\ own[i].id = plans[i].id /\ own[i].order = plans[i].order
             /\ own[i].parent = ParentOf(plans[i].sem, sems)
             /\ Sound(own[i]) /\ own[i].manual = NoText
  BY <1>3, <1>4, <1>5, <1>6 DEF Sound
<1>8. OwnIdentities(own \o more) /\ ParentsExist(own \o more) /\ Acyclic(own \o more)
  <2>1. Len(own) = Len(plans)
    BY <1>1, <1>6 DEF n
  <2> HIDE DEF T
  <2> QED
    BY <1>1, <1>6, <1>7, <2>1, DocumentAgrees DEF more
<1>9. PICK S : more \in Seq(S) /\ \A i \in 1..Len(more) : WithoutText(more[i])
  BY <1>1, UnprocessedAre DEF more
<1> DEFINE U == S \cup T
<1>10. own \in Seq(U) /\ more \in Seq(U)
  BY <1>6, <1>9
<1> HIDE DEF U, T
<1>11. ASSUME NEW i \in DOMAIN (own \o more)
       PROVE  Sound((own \o more)[i]) /\ (own \o more)[i].manual = NoText
  <2>1. CASE i \in 1..Len(own)
    BY <1>6, <1>7, <1>10, <2>1, JoinedAll
  <2>2. CASE i \notin 1..Len(own)
    <3>1. i \in (Len(own) + 1)..(Len(own) + Len(more))
      BY <1>10, <1>11, <2>2, JoinedAll
    <3>2. i - Len(own) \in 1..Len(more) /\ (own \o more)[i] = more[i - Len(own)]
      BY <1>10, <3>1, JoinedAll
    <3> QED
      BY <1>9, <3>2 DEF WithoutText, Sound
  <2> QED
    BY <2>1, <2>2
<1> QED
  BY <1>2, <1>8, <1>11

(* What is drawn are regions of the document, with the texts they show.      *)
LEMMA DrawnFromDocument ==
    ASSUME NEW regions
    PROVE  /\ DrawnOf(DrawnItems(regions), regions)
           /\ \A item \in DrawnItems(regions) : \E i \in DOMAIN regions :
                /\ item.id = regions[i].id /\ item.text = ShownText(regions[i])
                /\ ShownText(regions[i]) # NoText
           /\ \A i \in DOMAIN regions : ShownText(regions[i]) # NoText =>
                \E item \in DrawnItems(regions) :
                    item.id = regions[i].id /\ item.text = ShownText(regions[i])
<1>1. \A r : DrawnItem(r, regions).id = r.id /\ DrawnItem(r, regions).text = ShownText(r)
  BY DEF DrawnItem
<1>2. DrawnItems(regions) = {DrawnItem(regions[i], regions) :
            i \in {j \in DOMAIN regions : ShownText(regions[j]) # NoText}}
  BY DEF DrawnItems
<1> QED
  BY <1>1, <1>2 DEF DrawnOf

LEMMA BuildInv == ASSUME JobInv, Build PROVE JobInv'
<1>1. CASE Fails("refused")
  <2>1. stage = "build"
    BY DEF Build
  <2> QED
    BY <1>1, <2>1, FailsInv
<1>2. CASE ~Fails("refused")
  <2>1. /\ stage = "build" /\ stage' = "render" /\ document' = Built
        /\ UNCHANGED <<page, why, edits, sems, units, plans, transformed, outcomes, changed,
                       image, cacheable>>
        /\ UNCHANGED translation
    BY <1>2 DEF Build, Goes
  <2>2. ReadInv' /\ PlanInv'
    BY <2>1, ReadKept, PlanKept DEF JobInv
  <2>3. DocumentInv'
    <3>1. image = {}
      BY <2>1 DEF JobInv, DocumentInv
    <3>2. SoundDocument(document') /\ \A i \in DOMAIN document' : document'[i].manual = NoText
      BY <2>1, BuiltAgrees DEF SoundDocument
    <3> QED
      BY <2>1, <3>1, <3>2 DEF DocumentInv, DrawnOf
  <2>4. Inv' /\ TranslationTypeOK'
    BY <2>1, TranslationKept DEF JobInv
  <2>5. PageJobTypeOK'
    BY <2>1, <2>4 DEF JobInv, PageJobTypeOK
  <2> QED
    BY <2>2, <2>3, <2>4, <2>5 DEF JobInv
<1> QED
  BY <1>1, <1>2

LEMMA RenderInv == ASSUME JobInv, Render PROVE JobInv'
<1>1. CASE Fails("refused")
  <2>1. stage = "render"
    BY DEF Render
  <2> QED
    BY <1>1, <2>1, FailsInv
<1>2. CASE ~Fails("refused")
  <2>1. /\ stage = "render" /\ stage' = "completed" /\ image' = DrawnItems(document)
        /\ UNCHANGED <<page, why, edits, sems, units, plans, transformed, outcomes, document,
                       changed>>
        /\ UNCHANGED translation /\ cacheable' = ~Degraded
    BY <1>2 DEF Render, Goes
  <2>2. ReadInv' /\ PlanInv'
    BY <2>1, ReadKept, PlanKept DEF JobInv
  <2>3. DocumentInv'
    <3>1. SoundDocument(document)
      BY <2>1 DEF JobInv, DocumentInv
    <3> QED
      BY <2>1, <3>1, DrawnFromDocument DEF DocumentInv
  <2>4. Inv' /\ TranslationTypeOK'
    BY <2>1, TranslationKept DEF JobInv
  <2>5. PageJobTypeOK'
    BY <2>1, <2>4 DEF JobInv, PageJobTypeOK
  <2> QED
    BY <2>2, <2>3, <2>4, <2>5 DEF JobInv
<1> QED
  BY <1>1, <1>2

LEMMA RerenderInv == ASSUME JobInv, Rerender PROVE JobInv'
<1>1. /\ stage = "rerender" /\ stage' = "completed"
      /\ UNCHANGED <<page, why, edits, sems, units, plans, transformed, outcomes, document,
                     changed, cacheable>>
      /\ UNCHANGED translation
      /\ image' = DrawnItems(document) \/ image' = image
  BY DEF Rerender, Goes
<1>2. ReadInv' /\ PlanInv'
  BY <1>1, ReadKept, PlanKept DEF JobInv
<1>3. DocumentInv'
  <2>1. SoundDocument(document) /\ DrawnOf(image, document)
    BY <1>1 DEF JobInv, DocumentInv
  <2> QED
    BY <1>1, <2>1, DrawnFromDocument DEF DocumentInv
<1>4. Inv' /\ TranslationTypeOK'
  BY <1>1, TranslationKept DEF JobInv
<1>5. PageJobTypeOK'
  BY <1>1, <1>4 DEF JobInv, PageJobTypeOK
<1> QED
  BY <1>2, <1>3, <1>4, <1>5 DEF JobInv

(* A book is delivered by the step that reads it.                            *)
LEMMA BookDelivered ==
    ASSUME ProcessBook, stage' # "failed"
    PROVE  /\ stage = "detect" /\ stage' = "completed" /\ image' = DrawnItems(document')
           /\ cacheable' = TRUE
           /\ UNCHANGED <<page, why, edits, sems, units, plans, transformed, outcomes, changed>>
           /\ UNCHANGED translation
           /\ SoundDocument(document') /\ \A i \in DOMAIN document' : document'[i].manual = NoText
<1> DEFINE columns == Columns(page.book)
           region(i) ==
                [id |-> NextRegionId({}, "text_column", columns[i].box), kind |-> "text_column",
                 box |-> columns[i].box, order |-> i - 1, parent |-> NoText,
                 text |-> <<"text", i>>, valid |-> TRUE,
                 translation |-> Transformed(<<"text", i>>), masks |-> {}, cleanup |-> {},
                 render |-> <<[box |-> columns[i].box, sources |-> <<>>]>>, manual |-> NoText]
           built == [i \in DOMAIN columns |-> region(i)]
<1>1. /\ stage = "detect" /\ page.pipeline = "book_furigana"
      /\ IF ~IsProse(columns) THEN Fails("not prose")
         ELSE IF ~ValidDocument(built, page.box) THEN Fails("refused")
         ELSE /\ document' = built /\ image' = DrawnItems(built) /\ cacheable' = TRUE
              /\ Goes("completed")
              /\ UNCHANGED <<sems, units, plans, transformed, outcomes, changed, translation>>
  BY DEF ProcessBook
<1>2. \A i \in DOMAIN columns :
        /\ region(i).text = <<"text", i>> /\ region(i).translation = Transformed(<<"text", i>>)
        /\ region(i).manual = NoText /\ HasTexts(region(i))
  BY DEF HasTexts
<1> HIDE DEF region
<1>3. \A i \in DOMAIN built : Sound(built[i]) /\ built[i].manual = NoText
  BY <1>2 DEF Sound
<1> HIDE DEF built, columns
<1>4. ~Fails("not prose") /\ ~Fails("refused")
  BY DEF Fails
<1>5. /\ ValidDocument(built, page.box) /\ document' = built /\ image' = DrawnItems(built)
      /\ cacheable' = TRUE /\ Goes("completed")
      /\ UNCHANGED <<sems, units, plans, transformed, outcomes, changed, translation>>
  BY <1>1, <1>4
<1>6. SoundDocument(built)
  BY <1>3, <1>5 DEF SoundDocument, ValidDocument
<1> QED
  BY <1>1, <1>3, <1>5, <1>6 DEF Goes

LEMMA ProcessBookInv == ASSUME JobInv, ProcessBook PROVE JobInv'
<1>1. CASE stage' = "failed"
  <2>1. stage = "detect" /\ (Fails("not prose") \/ Fails("refused"))
    BY <1>1 DEF ProcessBook, Goes
  <2> QED
    BY <2>1, FailsInv
<1>2. CASE stage' # "failed"
  <2>1. /\ stage = "detect" /\ stage' = "completed" /\ image' = DrawnItems(document')
        /\ cacheable' = TRUE
        /\ UNCHANGED <<page, why, edits, sems, units, plans, transformed, outcomes, changed>>
        /\ UNCHANGED translation /\ SoundDocument(document')
    BY <1>2, BookDelivered
  <2>2. ReadInv' /\ PlanInv'
    BY <2>1, ReadKept, PlanKept DEF JobInv
  <2>3. DocumentInv'
    BY <2>1, DrawnFromDocument DEF DocumentInv
  <2>4. Inv' /\ TranslationTypeOK'
    BY <2>1, TranslationKept DEF JobInv
  <2>5. PageJobTypeOK'
    BY <2>1, <2>4 DEF JobInv, PageJobTypeOK
  <2> QED
    BY <2>2, <2>3, <2>4, <2>5 DEF JobInv
<1> QED
  BY <1>1, <1>2

(* An edit changes what one region shows.                                    *)
Revised(regions, i, text) == [regions EXCEPT ![i].manual = text]

LEMMA RegionRevised ==
    ASSUME NEW regions, SoundDocument(regions), NEW i \in DOMAIN regions,
           NEW text \in {NoText, <<"manual">>}
    PROVE  LET revised == Revised(regions, i, text) IN
           /\ DOMAIN revised = DOMAIN regions /\ SoundDocument(revised)
           /\ \A j \in DOMAIN regions :
                /\ revised[j].id = regions[j].id /\ revised[j].text = regions[j].text
                /\ revised[j].translation = regions[j].translation
                /\ j # i => revised[j] = regions[j]
           /\ revised[i].manual = text
<1> DEFINE revised == Revised(regions, i, text)
           r == regions[i]
           s == [r EXCEPT !.manual = text]
<1>1. {"id", "order", "text", "translation", "manual"} \subseteq DOMAIN r
      /\ r.translation \in {NoText, Transformed(r.text)}
  BY DEF SoundDocument, Sound, HasTexts
<1>2. /\ DOMAIN revised = DOMAIN regions /\ revised[i] = s
      /\ \A j \in DOMAIN regions : j # i => revised[j] = regions[j]
  BY DEF Revised
<1> HIDE DEF revised, r
<1>3. /\ DOMAIN s = DOMAIN r /\ s.id = r.id /\ s.order = r.order /\ s.text = r.text
      /\ s.translation = r.translation /\ s.manual = text
  BY <1>1
<1> HIDE DEF s
<1>4. Sound(s)
  BY <1>1, <1>3 DEF Sound, HasTexts
<1>5. \A j \in DOMAIN regions :
        /\ revised[j].id = regions[j].id /\ revised[j].text = regions[j].text
        /\ revised[j].translation = regions[j].translation
        /\ revised[j].order = regions[j].order
  BY <1>2, <1>3 DEF r
<1>6. OwnIdentities(revised)
  BY <1>2, <1>5 DEF SoundDocument, OwnIdentities
<1>7. \A j \in DOMAIN revised : Sound(revised[j])
  BY <1>2, <1>4 DEF SoundDocument
<1> QED
  BY <1>2, <1>3, <1>5, <1>6, <1>7 DEF SoundDocument, revised

LEMMA EditInv == ASSUME JobInv, Edit PROVE JobInv'
<1>1. /\ stage = "completed" /\ edits < MaxEdits /\ edits' = edits + 1 /\ stage' = "rerender"
      /\ UNCHANGED <<page, why, sems, units, plans, transformed, outcomes, changed, image,
                     cacheable>>
      /\ UNCHANGED translation
  BY DEF Edit, Editable
<1>2. PICK i \in DOMAIN document, text \in {NoText, <<"manual">>} :
        document' = [document EXCEPT ![i].manual = text]
  BY DEF Edit
<1>3. SoundDocument(document) /\ DrawnOf(image, document)
  BY <1>1 DEF JobInv, DocumentInv
<1>4. document' = Revised(document, i, text)
  BY <1>2 DEF Revised
<1>5. /\ DOMAIN document' = DOMAIN document /\ SoundDocument(document')
      /\ \A j \in DOMAIN document : document'[j].id = document[j].id
  BY <1>3, <1>4, RegionRevised
<1>6. ReadInv' /\ PlanInv'
  BY <1>1, ReadKept, PlanKept DEF JobInv
<1>7. DocumentInv'
  BY <1>1, <1>3, <1>5 DEF DocumentInv, DrawnOf
<1>8. Inv' /\ TranslationTypeOK'
  BY <1>1, TranslationKept DEF JobInv
<1>9. PageJobTypeOK'
  <2>1. edits \in 0..MaxEdits
    BY DEF JobInv, PageJobTypeOK
  <2>2. edits' \in 0..MaxEdits
    BY <1>1, <2>1, PageJobAssumption
  <2> QED
    BY <1>1, <1>8, <2>2 DEF JobInv, PageJobTypeOK
<1> QED
  BY <1>6, <1>7, <1>8, <1>9 DEF JobInv

LEMMA StutterInv == ASSUME JobInv, UNCHANGED vars PROVE JobInv'
<1>1. /\ UNCHANGED <<page, stage, why, sems, units, plans, transformed, outcomes, document>>
      /\ UNCHANGED <<changed, image, cacheable, edits>> /\ UNCHANGED translation
  BY DEF vars, job
<1>2. Inv' /\ TranslationTypeOK'
  BY <1>1, TranslationKept DEF JobInv
<1>3. Direction' = Direction /\ (IsManga' <=> IsManga)
  BY <1>1 DEF Direction, IsManga
<1>4. ReadInv'
  BY <1>1, <1>3 DEF JobInv, ReadInv
<1>5. PlanInv' /\ DocumentInv'
  BY <1>1 DEF JobInv, PlanInv, DocumentInv
<1>6. PageJobTypeOK'
  BY <1>1, <1>2 DEF JobInv, PageJobTypeOK
<1> QED
  BY <1>2, <1>4, <1>5, <1>6 DEF JobInv

LEMMA JobStepInv ==
    ASSUME RegionIds \subseteq Items, JobInv, [PageJobNext]_vars PROVE JobInv'
<1>1. CASE Detect
  BY <1>1, DetectInv
<1>2. CASE OcrManga
  BY <1>2, OcrMangaInv
<1>3. CASE Plan
  BY <1>3, PlanStepInv
<1>4. CASE Annotate
  BY <1>4, AnnotateInv
<1>5. CASE Request
  BY <1>5, RequestInv
<1>6. CASE NothingToTranslate
  BY <1>6, NothingToTranslateInv
<1>7. CASE Translate
  BY <1>7, TranslateInv
<1>8. CASE Join
  BY <1>8, JoinInv
<1>9. CASE TranslationFails
  BY <1>9, TranslationFailsInv
<1>10. CASE CleanPage
  BY <1>10, CleanPageInv
<1>11. CASE Build
  BY <1>11, BuildInv
<1>12. CASE Render
  BY <1>12, RenderInv
<1>13. CASE ProcessBook
  BY <1>13, ProcessBookInv
<1>14. CASE Rerender
  BY <1>14, RerenderInv
<1>15. CASE BackendFails
  BY <1>15, BackendFailsInv
<1>16. CASE Edit
  BY <1>16, EditInv
<1>17. CASE UNCHANGED vars
  BY <1>17, StutterInv
<1> QED
  BY <1>1, <1>2, <1>3, <1>4, <1>5, <1>6, <1>7, <1>8, <1>9, <1>10, <1>11, <1>12, <1>13, <1>14,
     <1>15, <1>16, <1>17 DEF PageJobNext, JobStep

LEMMA JobInvariance == ASSUME RegionIds \subseteq Items PROVE Spec => []JobInv
<1>1. PageJobInit => JobInv
  BY StartInv
<1>2. JobInv /\ [PageJobNext]_vars => JobInv'
  BY JobStepInv
<1> QED
  BY <1>1, <1>2, PTL DEF Spec

-----------------------------------------------------------------------------
(* The promise.                                                              *)

EntryOf(r) == Entry(r, ShownText(r))

Entries(regions) ==
    {EntryOf(regions[i]) : i \in {j \in DOMAIN regions : ShownText(regions[j]) # NoText}}

Named(id, regions) == CHOOSE r \in Range(regions) : r.id = id

ShownOf(items, regions) == {Entry(Named(item.id, regions), item.text) : item \in items}

LEMMA PromiseTerms ==
    /\ Wanted = IF Status # "completed" THEN {} ELSE Entries(document)
    /\ Shown = ShownOf(image, document)
<1>1. {EntryOf(r) : r \in {s \in Range(document) : ShownText(s) # NoText}} = Entries(document)
  BY DEF Entries, Range
<1> QED
  BY <1>1 DEF Wanted, Shown, ShownOf, Named, EntryOf

LEMMA EntryFields ==
    ASSUME NEW r, NEW text
    PROVE  /\ Entry(r, text).id = r.id /\ Entry(r, text).source = r.text
           /\ Entry(r, text).text = text /\ Entry(r, text).edited = (text = <<"manual">>)
BY DEF Entry

LEMMA NotManual == \A x : Transformed(x) # <<"manual">>
<1>1. \A x : Len(Transformed(x)) = 2 /\ Len(<<"manual">>) = 1
  BY DEF Transformed
<1> QED
  BY <1>1

(* What a region shows is its own.                                           *)
LEMMA OwnText ==
    ASSUME NEW r, Sound(r), ShownText(r) # NoText
    PROVE  /\ r.manual = NoText => ShownText(r) = Transformed(r.text)
           /\ r.manual # NoText => ShownText(r) = <<"manual">>
BY DEF Sound, ShownText

LEMMA FaithfulEntries ==
    ASSUME NEW regions, SoundDocument(regions)
    PROVE  /\ Contract!Faithful(Entries(regions))
           /\ (\A i \in DOMAIN regions : regions[i].manual = NoText) =>
                \A e \in Entries(regions) : e.edited = FALSE
<1>1. ASSUME NEW e \in Entries(regions)
      PROVE  \E i \in DOMAIN regions : e = EntryOf(regions[i]) /\ ShownText(regions[i]) # NoText
  BY DEF Entries
<1>2. \A i \in DOMAIN regions : Sound(regions[i])
  BY DEF SoundDocument
<1>3. \A r : /\ EntryOf(r).id = r.id /\ EntryOf(r).source = r.text
             /\ EntryOf(r).text = ShownText(r)
             /\ EntryOf(r).edited = (ShownText(r) = <<"manual">>)
  BY EntryFields DEF EntryOf
<1>4. ASSUME NEW e \in Entries(regions), NEW f \in Entries(regions), e.id = f.id PROVE e = f
  <2>1. PICK i \in DOMAIN regions : e = EntryOf(regions[i])
    BY <1>1
  <2>2. PICK j \in DOMAIN regions : f = EntryOf(regions[j])
    BY <1>1
  <2>3. regions[i].id = regions[j].id
    BY <1>3, <1>4, <2>1, <2>2
  <2>4. i = j
    BY <2>3 DEF SoundDocument, OwnIdentities
  <2> QED
    BY <2>1, <2>2, <2>4
<1>5. ASSUME NEW e \in Entries(regions)
      PROVE  e.edited = TRUE \/ e.text = Transformed(e.source)
  <2>1. PICK i \in DOMAIN regions : e = EntryOf(regions[i]) /\ ShownText(regions[i]) # NoText
    BY <1>1
  <2>2. CASE regions[i].manual = NoText
    BY <1>2, <1>3, <2>1, <2>2, OwnText
  <2>3. CASE regions[i].manual # NoText
    <3>1. ShownText(regions[i]) = <<"manual">>
      BY <1>2, <2>1, <2>3, OwnText
    <3> QED
      BY <1>3, <2>1, <3>1
  <2> QED
    BY <2>2, <2>3
<1>6. ASSUME \A i \in DOMAIN regions : regions[i].manual = NoText, NEW e \in Entries(regions)
      PROVE  e.edited = FALSE
  <2>1. PICK i \in DOMAIN regions : e = EntryOf(regions[i]) /\ ShownText(regions[i]) # NoText
    BY <1>1
  <2>2. ShownText(regions[i]) = Transformed(regions[i].text)
    BY <1>2, <1>6, <2>1, OwnText
  <2>3. ShownText(regions[i]) # <<"manual">>
    BY <2>2, NotManual
  <2> QED
    BY <1>3, <2>1, <2>3
<1>7. Contract!Faithful(Entries(regions))
  <2>1. \A x : Contract!Transformed(x) = Transformed(x)
    BY DEF Contract!Transformed, Transformed
  <2> HIDE DEF Entries
  <2> QED
    BY <1>4, <1>5, <2>1 DEF Contract!Faithful, Contract!OneTextEach
<1> QED
  BY <1>6, <1>7

(* An identity names one region.                                             *)
LEMMA NamedIs ==
    ASSUME NEW regions, OwnIdentities(regions), NEW i \in DOMAIN regions
    PROVE  Named(regions[i].id, regions) = regions[i]
<1>1. regions[i] \in Range(regions)
  BY DEF Range
<1>2. ASSUME NEW r \in Range(regions), r.id = regions[i].id PROVE r = regions[i]
  <2>1. PICK j \in DOMAIN regions : r = regions[j]
    BY <1>2 DEF Range
  <2> QED
    BY <1>2, <2>1 DEF OwnIdentities
<1>3. Named(regions[i].id, regions) \in Range(regions)
      /\ Named(regions[i].id, regions).id = regions[i].id
  BY <1>1 DEF Named
<1> QED
  BY <1>2, <1>3

(* A page drawn from its document shows what the document says.              *)
LEMMA ShowsDocument ==
    ASSUME NEW regions, SoundDocument(regions)
    PROVE  ShownOf(DrawnItems(regions), regions) = Entries(regions)
<1>1. \A i \in DOMAIN regions : Named(regions[i].id, regions) = regions[i]
  BY NamedIs DEF SoundDocument
<1>2. ASSUME NEW item \in DrawnItems(regions)
      PROVE  Entry(Named(item.id, regions), item.text) \in Entries(regions)
  <2>1. PICK i \in DOMAIN regions : /\ item.id = regions[i].id
                                    /\ item.text = ShownText(regions[i])
                                    /\ ShownText(regions[i]) # NoText
    BY DrawnFromDocument
  <2>2. Entry(Named(item.id, regions), item.text) = EntryOf(regions[i])
    BY <1>1, <2>1 DEF EntryOf
  <2> QED
    BY <2>1, <2>2 DEF Entries
<1>3. ASSUME NEW e \in Entries(regions)
      PROVE  e \in ShownOf(DrawnItems(regions), regions)
  <2>1. PICK i \in DOMAIN regions : e = EntryOf(regions[i]) /\ ShownText(regions[i]) # NoText
    BY DEF Entries
  <2>2. PICK item \in DrawnItems(regions) :
            item.id = regions[i].id /\ item.text = ShownText(regions[i])
    BY <2>1, DrawnFromDocument
  <2>3. e = Entry(Named(item.id, regions), item.text)
    BY <1>1, <2>1, <2>2 DEF EntryOf
  <2> QED
    BY <2>3 DEF ShownOf
<1>4. ASSUME NEW e \in ShownOf(DrawnItems(regions), regions) PROVE e \in Entries(regions)
  BY <1>2, <1>4 DEF ShownOf
<1> QED
  BY <1>3, <1>4

(* An edit of the document changes nothing of what the image shows.          *)
LEMMA ShowsTheSame ==
    ASSUME NEW items, NEW regions, NEW others, OwnIdentities(regions), OwnIdentities(others),
           DrawnOf(items, regions), DOMAIN others = DOMAIN regions,
           \A j \in DOMAIN regions : /\ others[j].id = regions[j].id
                                     /\ others[j].text = regions[j].text
    PROVE  ShownOf(items, others) = ShownOf(items, regions)
<1>1. ASSUME NEW item \in items
      PROVE  Entry(Named(item.id, others), item.text) = Entry(Named(item.id, regions), item.text)
  <2>1. PICK i \in DOMAIN regions : regions[i].id = item.id
    BY DEF DrawnOf
  <2>2. Named(item.id, regions) = regions[i] /\ Named(item.id, others) = others[i]
    BY <2>1, NamedIs
  <2> QED
    BY <2>1, <2>2 DEF Entry
<1> QED
  BY <1>1 DEF ShownOf

-----------------------------------------------------------------------------
(* The steps of a job keep the promise.                                      *)

StatusOf(s) ==
    IF s \in {"completed", "rerender"} THEN "completed"
    ELSE IF s = "failed" THEN "failed" ELSE "running"

WantedOf(s, regions) == IF StatusOf(s) # "completed" THEN {} ELSE Entries(regions)

LEMMA PromiseTermsAfter ==
    /\ Status' = StatusOf(stage') /\ Wanted' = WantedOf(stage', document')
    /\ Shown' = ShownOf(image', document')
<1>1. {EntryOf(r) : r \in {s \in Range(document') : ShownText(s) # NoText}} = Entries(document')
  BY DEF Entries, Range
<1> QED
  BY <1>1 DEF Status, StatusOf, Wanted, WantedOf, Shown, ShownOf, Named, EntryOf

LEMMA PromiseTermsBefore ==
    /\ Status = StatusOf(stage) /\ Wanted = WantedOf(stage, document)
    /\ Shown = ShownOf(image, document)
BY PromiseTerms DEF Status, StatusOf, WantedOf

PromiseKeptByStep ==
    \/ Contract!Deliver \/ Contract!GiveUp \/ Contract!Revise \/ Contract!Redraw
    \/ UNCHANGED Contract!contract

Working == {"detect", "ocr", "transform", "translating", "cleanup", "build", "render"}

(* A step of the work shows nothing.                                         *)
LEMMA WorkShowsNothing ==
    ASSUME JobInv, JobInv', stage \in Working, stage' \in Working
    PROVE  PromiseKeptByStep
<1>1. image = {} /\ image' = {}
  BY DEF Working, JobInv, DocumentInv
<1>2. StatusOf(stage) = "running" /\ StatusOf(stage') = "running"
  BY DEF Working, StatusOf
<1>3. ShownOf(image, document) = {} /\ ShownOf(image', document') = {}
  BY <1>1 DEF ShownOf
<1>4. Status' = Status /\ Wanted' = Wanted /\ Shown' = Shown
  BY <1>2, <1>3, PromiseTermsBefore, PromiseTermsAfter DEF WantedOf
<1> QED
  BY <1>4 DEF PromiseKeptByStep, Contract!contract

(* A failed job shows nothing either.                                        *)
LEMMA FailureShowsNothing ==
    ASSUME JobInv, NEW reason, Fails(reason), stage \in Working PROVE PromiseKeptByStep
<1>1. image = {} /\ image' = {} /\ stage' = "failed"
  BY DEF Working, JobInv, DocumentInv, Fails
<1>2. StatusOf(stage) = "running" /\ StatusOf(stage') = "failed"
  BY <1>1 DEF Working, StatusOf
<1>3. ShownOf(image, document) = {} /\ ShownOf(image', document') = {}
  BY <1>1 DEF ShownOf
<1>4. /\ Status = "running" /\ Status' = "failed" /\ Wanted' = Wanted /\ Shown' = Shown
  BY <1>2, <1>3, PromiseTermsBefore, PromiseTermsAfter DEF WantedOf
<1> QED
  BY <1>4 DEF PromiseKeptByStep, Contract!GiveUp

(* The first image shows the document.                                       *)
LEMMA DeliveryShowsDocument ==
    ASSUME JobInv, JobInv', stage \in Working, stage' = "completed",
           image' = DrawnItems(document'),
           \A i \in DOMAIN document' : document'[i].manual = NoText
    PROVE  PromiseKeptByStep
<1>1. SoundDocument(document')
  BY DEF JobInv, DocumentInv
<1>2. Status = "running" /\ Status' = "completed" /\ Wanted' = Entries(document')
  BY PromiseTermsBefore, PromiseTermsAfter DEF Working, StatusOf, WantedOf
<1>3. Shown' = Wanted'
  BY <1>1, <1>2, ShowsDocument, PromiseTermsAfter
<1>4. Contract!Faithful(Entries(document')) /\ \A e \in Entries(document') : e.edited = FALSE
  BY <1>1, FaithfulEntries
<1>5. Contract!Faithful(Wanted') /\ \A e \in Wanted' : ~e.edited
  BY <1>2, <1>4
<1> QED
  BY <1>2, <1>3, <1>5 DEF PromiseKeptByStep, Contract!Deliver

LEMMA RenderKeepsPromise ==
    ASSUME JobInv, JobInv', Render PROVE PromiseKeptByStep
<1>1. stage = "render" /\ stage \in Working
  BY DEF Render, Working
<1>2. CASE Fails("refused")
  BY <1>1, <1>2, FailureShowsNothing
<1>3. CASE ~Fails("refused")
  <2>1. stage' = "completed" /\ image' = DrawnItems(document) /\ document' = document
    BY <1>3 DEF Render, Goes
  <2>2. \A i \in DOMAIN document : document[i].manual = NoText
    BY <1>1 DEF JobInv, DocumentInv
  <2> QED
    BY <1>1, <2>1, <2>2, DeliveryShowsDocument
<1> QED
  BY <1>2, <1>3

LEMMA BookKeepsPromise ==
    ASSUME JobInv, JobInv', ProcessBook PROVE PromiseKeptByStep
<1>1. stage \in Working
  BY DEF ProcessBook, Working
<1>2. CASE stage' = "failed"
  <2>1. Fails("not prose") \/ Fails("refused")
    BY <1>2 DEF ProcessBook, Goes
  <2> QED
    BY <1>1, <2>1, FailureShowsNothing
<1>3. CASE stage' # "failed"
  BY <1>1, <1>3, BookDelivered, DeliveryShowsDocument
<1> QED
  BY <1>2, <1>3

LEMMA RerenderKeepsPromise ==
    ASSUME JobInv, JobInv', Rerender PROVE PromiseKeptByStep
<1>1. /\ stage = "rerender" /\ stage' = "completed" /\ document' = document
      /\ image' = DrawnItems(document) \/ image' = image
  BY DEF Rerender, Goes
<1>2. SoundDocument(document)
  BY <1>1 DEF JobInv, DocumentInv
<1>3. /\ Status = "completed" /\ Status' = "completed"
      /\ Wanted = Entries(document) /\ Wanted' = Entries(document)
  BY <1>1, PromiseTermsBefore, PromiseTermsAfter DEF StatusOf, WantedOf
<1>4. Shown' = Wanted \/ Shown' = Shown
  <2>1. Shown' = ShownOf(image', document)
    BY <1>1, PromiseTermsAfter
  <2>2. CASE image' = DrawnItems(document)
    BY <1>2, <1>3, <2>1, <2>2, ShowsDocument
  <2>3. CASE image' = image
    BY <2>1, <2>3, PromiseTermsBefore
  <2> QED
    BY <1>1, <2>2, <2>3
<1> QED
  BY <1>3, <1>4 DEF PromiseKeptByStep, Contract!Redraw, Contract!contract

(* An edit changes one region of the document.                               *)
LEMMA OthersKept ==
    ASSUME NEW regions, NEW others, NEW i \in DOMAIN regions, DOMAIN others = DOMAIN regions,
           OwnIdentities(regions), others[i].id = regions[i].id,
           \A j \in DOMAIN regions : j # i => others[j] = regions[j],
           NEW e, e.id # regions[i].id
    PROVE  e \in Entries(regions) <=> e \in Entries(others)
<1>1. \A r : EntryOf(r).id = r.id
  BY EntryFields DEF EntryOf
<1>2. ASSUME e \in Entries(regions) PROVE e \in Entries(others)
  <2>1. PICK j \in DOMAIN regions : e = EntryOf(regions[j]) /\ ShownText(regions[j]) # NoText
    BY <1>2 DEF Entries
  <2>2. j # i
    BY <1>1, <2>1
  <2> QED
    BY <2>1, <2>2 DEF Entries
<1>3. ASSUME e \in Entries(others) PROVE e \in Entries(regions)
  <2>1. PICK j \in DOMAIN others : e = EntryOf(others[j]) /\ ShownText(others[j]) # NoText
    BY <1>3 DEF Entries
  <2>2. j # i
    BY <1>1, <2>1
  <2> QED
    BY <2>1, <2>2 DEF Entries
<1> QED
  BY <1>2, <1>3

LEMMA EditKeepsPromise ==
    ASSUME JobInv, JobInv', Edit PROVE PromiseKeptByStep
<1>1. stage = "completed" /\ stage' = "rerender" /\ image' = image
  BY DEF Edit, Editable
<1>2. PICK i \in DOMAIN document, text \in {NoText, <<"manual">>} :
        text # document[i].manual /\ document' = [document EXCEPT ![i].manual = text]
  BY DEF Edit
<1>3. SoundDocument(document) /\ SoundDocument(document') /\ DrawnOf(image, document)
  BY <1>1 DEF JobInv, DocumentInv
<1>4. document' = Revised(document, i, text)
  BY <1>2 DEF Revised
<1>5. /\ DOMAIN document' = DOMAIN document
      /\ \A j \in DOMAIN document :
            /\ document'[j].id = document[j].id /\ document'[j].text = document[j].text
            /\ j # i => document'[j] = document[j]
      /\ document'[i].manual = text
  BY <1>3, <1>4, RegionRevised
<1>6. /\ Status = "completed" /\ Status' = "completed"
      /\ Wanted = Entries(document) /\ Wanted' = Entries(document')
  BY <1>1, PromiseTermsBefore, PromiseTermsAfter DEF StatusOf, WantedOf
<1>7. Shown' = Shown
  <2>1. OwnIdentities(document) /\ OwnIdentities(document')
    BY <1>3 DEF SoundDocument
  <2>2. ShownOf(image, document') = ShownOf(image, document)
    BY <1>3, <1>5, <2>1, ShowsTheSame
  <2> QED
    BY <1>1, <2>2, PromiseTermsBefore, PromiseTermsAfter
<1>8. Contract!Faithful(Wanted')
  BY <1>3, <1>6, FaithfulEntries
<1>9. document[i].id \in {e.id : e \in Wanted \cup Wanted'}
  <2>1. \A r : EntryOf(r).id = r.id
    BY EntryFields DEF EntryOf
  <2>2. <<"manual">> # NoText
    BY DEF NoText
  <2>3. CASE text = NoText
    <3>1. ShownText(document[i]) # NoText
      BY <1>2, <2>3 DEF ShownText
    <3>2. EntryOf(document[i]) \in Wanted
      BY <1>6, <3>1 DEF Entries
    <3> QED
      BY <2>1, <3>2
  <2>4. CASE text # NoText
    <3>1. ShownText(document'[i]) # NoText
      BY <1>5, <2>4 DEF ShownText
    <3>2. EntryOf(document'[i]) \in Wanted'
      BY <1>5, <1>6, <3>1 DEF Entries
    <3>3. EntryOf(document'[i]).id = document[i].id
      BY <1>5, <2>1
    <3> QED
      BY <3>2, <3>3
  <2> QED
    BY <2>3, <2>4
<1>10. {e \in Wanted : e.id # document[i].id} = {e \in Wanted' : e.id # document[i].id}
  <2>1. \A e : e.id # document[i].id => (e \in Wanted <=> e \in Wanted')
    BY <1>3, <1>5, <1>6, OthersKept DEF SoundDocument
  <2> QED
    BY <2>1
<1>11. Contract!Revise
  BY <1>6, <1>7, <1>8, <1>9, <1>10 DEF Contract!Revise
<1> QED
  BY <1>11 DEF PromiseKeptByStep

LEMMA StepKeepsPromise ==
    ASSUME JobInv, JobInv', [PageJobNext]_vars PROVE PromiseKeptByStep
<1>1. ASSUME Detect \/ OcrManga \/ Plan \/ Annotate \/ NothingToTranslate \/ Translate \/ Join
             \/ CleanPage
      PROVE  stage \in Working /\ stage' \in Working
  BY <1>1 DEF Detect, OcrManga, Plan, Annotate, NothingToTranslate, Translate, Join, CleanPage,
              Goes, Working, job
<1>2. CASE Detect \/ OcrManga \/ Plan \/ Annotate \/ NothingToTranslate \/ Translate \/ Join
           \/ CleanPage
  BY <1>1, <1>2, WorkShowsNothing
<1>3. CASE Request \/ Build
  <2>1. stage \in Working /\ (Fails("refused") \/ stage' \in Working)
    BY <1>3 DEF Request, Build, Goes, Working
  <2> QED
    BY <2>1, WorkShowsNothing, FailureShowsNothing
<1>4. CASE TranslationFails \/ BackendFails
  <2>1. stage \in Working /\ Fails("backend")
    BY <1>4 DEF TranslationFails, BackendFails, Working
  <2> QED
    BY <2>1, FailureShowsNothing
<1>5. CASE Render
  BY <1>5, RenderKeepsPromise
<1>6. CASE ProcessBook
  BY <1>6, BookKeepsPromise
<1>7. CASE Rerender
  BY <1>7, RerenderKeepsPromise
<1>8. CASE Edit
  BY <1>8, EditKeepsPromise
<1>9. CASE UNCHANGED vars
  <2>1. UNCHANGED <<stage, document, image>>
    BY <1>9 DEF vars, job
  <2>2. UNCHANGED <<Status, Wanted, Shown>>
    BY <2>1, PromiseTermsBefore, PromiseTermsAfter
  <2> QED
    BY <2>2 DEF PromiseKeptByStep, Contract!contract
<1> QED
  BY <1>2, <1>3, <1>4, <1>5, <1>6, <1>7, <1>8, <1>9 DEF PageJobNext, JobStep

LEMMA StartPromises == PageJobInit => Contract!PromiseInit
<1> SUFFICES ASSUME PageJobInit PROVE Contract!PromiseInit
  OBVIOUS
<1>1. stage = "detect" /\ image = {}
  BY DEF PageJobInit
<1>2. Status = "running" /\ Wanted = {} /\ Shown = {}
  BY <1>1, PromiseTermsBefore DEF StatusOf, WantedOf, ShownOf
<1> QED
  BY <1>2 DEF Contract!PromiseInit

-----------------------------------------------------------------------------
(* Theorems.                                                                 *)

(* Every variable keeps its type: the plans, the texts and the cleanup       *)
(* outcomes of a job are none or one for each unit (process_job).            *)
THEOREM JobTypeCorrect == ASSUME RegionIds \subseteq Items PROVE Spec => []PageJobTypeOK
<1>1. JobInv => PageJobTypeOK
  BY DEF JobInv
<1> QED
  BY <1>1, JobInvariance, PTL

(* Whatever was read, the identities and reading orders of the translation   *)
(* request and of the document are used once, parents are in the document    *)
(* and chains of parents end (make_region_id, _ReadingOrderAllocator,        *)
(* _append_unprocessed_semantic_regions, PageDocument).                      *)
THEOREM IdentitiesAlwaysAgree == ASSUME RegionIds \subseteq Items PROVE Spec => []IdentitiesAgree
<1>1. JobInv => IdentitiesAgree
  <2> SUFFICES ASSUME JobInv PROVE IdentitiesAgree
    OBVIOUS
  <2>1. ASSUME stage = "transform"
        PROVE  /\ \A i, j \in Eligible : i # j => plans[i].order # plans[j].order
               /\ Distinct(RequestItems)
    <3>1. Agree(plans, sems) /\ Eligible \subseteq DOMAIN plans
      BY <2>1, WhilePlanned, EligiblePlanned
    <3>2. \A i, j \in DOMAIN plans : i # j => plans[i].order # plans[j].order
      BY <3>1 DEF Agree, Apiece
    <3>3. Distinct(RequestItems)
      BY <2>1, WhilePlanned, RequestNamesEach
    <3> QED
      BY <3>1, <3>2, <3>3
  <2> QED
    BY <2>1, BuiltAgrees DEF IdentitiesAgree
<1> QED
  BY <1>1, JobInvariance, PTL

(* The items of a page are in one place each while the job translates them,  *)
(* under the identities its own plan gave them (translate_with_recovery).    *)
THEOREM JobLosesNothing == ASSUME RegionIds \subseteq Items PROVE Spec => []EveryItemOnce
<1>1. JobInv => EveryItemOnce
  BY DEF JobInv, Inv
<1> QED
  BY <1>1, JobInvariance, PTL

(* When the job joins the answers there is one for every item.               *)
THEOREM JobHasEveryItem == ASSUME RegionIds \subseteq Items PROVE Spec => []DoneIsComplete
<1>1. JobInv => DoneIsComplete
  <2> SUFFICES ASSUME Inv, asking = "done" PROVE translated = Range(request)
    BY DEF JobInv, DoneIsComplete
  <2>1. rest = <<>> /\ todo = <<>> /\ singles = <<>>
    BY DEF Inv, Phases
  <2>2. Accounted(translated, singles, todo, rest)
    BY Account DEF Inv
  <2> QED
    BY <2>1, <2>2, NoBatches DEF Accounted
<1> QED
  BY <1>1, JobInvariance, PTL

(* PageJob implements PageContract: a page shows for each region the          *)
(* transformation of its own text or what the reader wrote, an edit changes  *)
(* one region, a redrawn page shows its document, and a failed job shows     *)
(* nothing, whatever the detector found and the provider answered            *)
(* (process_job, _rerender_from_metadata).                                   *)
THEOREM PromiseKept == ASSUME RegionIds \subseteq Items PROVE Spec => KeepsPromise
<1>1. PageJobInit => Contract!PromiseInit
  BY StartPromises
<1>2. JobInv /\ JobInv' /\ [PageJobNext]_vars =>
        [\/ Contract!Deliver \/ Contract!GiveUp
         \/ Contract!Revise \/ Contract!Redraw]_(Contract!contract)
  BY StepKeepsPromise DEF PromiseKeptByStep
<1> QED
  BY <1>1, <1>2, JobInvariance, PTL DEF Spec, KeepsPromise, Contract!Promise

=============================================================================
