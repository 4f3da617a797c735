------------------------- MODULE WorkerStreamsProofs -------------------------
(***************************************************************************)
(* Proofs about WorkerStreams, for every set of jobs and workers, any      *)
(* number of pages, and every burst, claim count and number of faults.     *)
(***************************************************************************)
EXTENDS WorkerStreams, TLAPS

WorkerStates(n) ==
    [pc: Steps \cup {"idle", "second", "batch"}, at: 0..n,
     claimed: BOOLEAN, batch: SUBSET (1..n), streak: 0..Burst,
     outcome: Outcomes, skipped: BOOLEAN]

Statuses == {"new", "pending", "idle", "acked", "gone"}

(* An entry from which job j can still be read or claimed.                 *)
Waits(i, j) ==
    /\ i \in DOMAIN log /\ log[i].job = j
    /\ log[i].status \in {"new", "pending", "idle"}

Settled(j) == j \in trimmed \/ result[j] # "none"

(* What a worker that holds an entry has done and knows: TypeOK and the    *)
(* properties are inductive only with it.                                  *)
Sound(q) ==
    /\ q.pc \in Steps => q.at \in DOMAIN log
    /\ q.pc = "batch" => q.batch # {}
    /\ q.pc \in {"meta", "image", "doc", "publish"} => q.outcome # "none"
    /\ q.pc \in {"image", "doc", "publish", "ack"} => result[log[q.at].job] # "none"
    /\ q.pc \in {"doc", "publish"} /\ q.outcome = "completed" => log[q.at].job \in images
    /\ q.pc = "publish" /\ q.outcome = "completed" => log[q.at].job \in docs
    /\ q.pc = "deferAdd" /\ ~expired => log[q.at].page < newest
    /\ q.pc = "deferAck" =>
           \/ Settled(log[q.at].job)
           \/ \E k \in DOMAIN log : k > q.at /\ Waits(k, log[q.at].job)

Pages ==
    /\ marker <= newest
    /\ ~expired => marker = newest
    /\ \A i \in DOMAIN log : log[i].page <= newest

TrimmedEntries ==
    \A i \in DOMAIN log : log[i].empty \/ log[i].status = "gone" => log[i].job \in trimmed

Inv ==
    /\ TypeOK
    /\ \A w \in Workers : Sound(worker[w])
    /\ Pages /\ TrimmedEntries /\ JobNeverLost /\ NotifiedIsComplete

-----------------------------------------------------------------------------
LEMMA EntryFields ==
    ASSUME TypeOK, NEW i \in DOMAIN log
    PROVE  /\ i \in 1..Len(log) /\ Len(log) \in Nat
           /\ log[i] \in Entries /\ log[i].job \in Jobs /\ log[i].page \in Int
<1>1. i \in 1..Len(log) /\ Len(log) \in Nat /\ log[i] \in Entries
  BY DEF TypeOK
<1> QED
  BY <1>1 DEF Entries

LEMMA WorkerFields ==
    ASSUME TypeOK, NEW w \in Workers
    PROVE  worker[w] \in WorkerStates(Len(log)) /\ Len(log) \in Nat
<1>1. worker \in [Workers -> WorkerStates(Len(log))]
  BY DEF TypeOK, WorkerStates
<1>2. Len(log) \in Nat
  BY DEF TypeOK
<1> QED
  BY <1>1, <1>2

(* An entry keeps its place, its job and its page for ever; what else may  *)
(* happen to it leaves it readable, or its job is settled or has a later   *)
(* entry.                                                                  *)
LogKeeps ==
    \A i \in DOMAIN log : i \in DOMAIN log' /\ log'[i].job = log[i].job /\ log'[i].page = log[i].page

WaitsOn ==
    \A j \in Jobs : \A i \in DOMAIN log : Waits(i, j) =>
        Settled(j)' \/ \E k \in DOMAIN log' : k >= i /\ Waits(k, j)'

Grows ==
    /\ \A j \in Jobs : result[j] # "none" => result'[j] # "none"
    /\ images \subseteq images' /\ docs \subseteq docs'
    /\ trimmed \subseteq trimmed'
    /\ newest <= newest' /\ (expired => expired')

LEMMA StaysSettled == ASSUME Grows, NEW j \in Jobs, Settled(j) PROVE Settled(j)'
BY DEF Grows, Settled

LEMMA StaysSound ==
    ASSUME TypeOK, TypeOK', LogKeeps, WaitsOn, Grows, NEW n \in Nat, NEW q \in WorkerStates(n), Sound(q)
    PROVE  Sound(q)'
<1>1. CASE q.pc \in Steps
  <2>1. q.at \in DOMAIN log /\ q.at \in DOMAIN log' /\ log'[q.at].job = log[q.at].job
        /\ log'[q.at].page = log[q.at].page
    BY <1>1 DEF Sound, LogKeeps
  <2>2. log[q.at] \in Entries /\ log[q.at].job \in Jobs /\ log[q.at].page \in Int
    BY <2>1, EntryFields
  <2>3. newest \in Int /\ newest' \in Int
    BY DEF TypeOK
  <2>4. /\ q.pc \in {"image", "doc", "publish", "ack"} => result'[log'[q.at].job] # "none"
        /\ q.pc \in {"doc", "publish"} /\ q.outcome = "completed" => log'[q.at].job \in images'
        /\ q.pc = "publish" /\ q.outcome = "completed" => log'[q.at].job \in docs'
    BY <2>1, <2>2 DEF Sound, Grows
  <2>5. q.pc = "deferAdd" /\ ~expired' => log'[q.at].page < newest'
    BY <2>1, <2>2, <2>3 DEF Sound, Grows
  <2>6. ASSUME q.pc = "deferAck", NEW j \in Jobs, j = log[q.at].job
        PROVE  Settled(j)' \/ \E k \in DOMAIN log' : k > q.at /\ Waits(k, j)'
    <3>1. CASE Settled(j)
      BY <3>1, StaysSettled
    <3>2. CASE \E k \in DOMAIN log : k > q.at /\ Waits(k, j)
      <4>1. PICK k \in DOMAIN log : k > q.at /\ Waits(k, j)
        BY <3>2
      <4>2. Settled(j)' \/ \E l \in DOMAIN log' : l >= k /\ Waits(l, j)'
        BY <4>1 DEF WaitsOn
      <4>3. k \in Int /\ q.at \in Int /\ \A l \in DOMAIN log' : l \in Int
        BY <2>1 DEF TypeOK
      <4>4. \A l \in DOMAIN log' : l >= k => l > q.at
        BY <4>1, <4>3
      <4> QED
        BY <4>2, <4>4
    <3> QED
      BY <3>1, <3>2, <2>6 DEF Sound
  <2> QED
    BY <2>1, <2>2, <2>4, <2>5, <2>6, <1>1 DEF Sound
<1>2. CASE q.pc \notin Steps
  BY <1>2 DEF Sound, Steps
<1> QED
  BY <1>1, <1>2

Appears == \A j \in Jobs : Submitted(j)' => Submitted(j) \/ \E i \in DOMAIN log' : Waits(i, j)'

LEMMA StillNotLost ==
    ASSUME Inv, WaitsOn, Grows, Appears PROVE JobNeverLost'
<1>1. ASSUME NEW j \in Jobs, Submitted(j)', j \notin trimmed', result'[j] = "none"
      PROVE  \E i \in DOMAIN log' : Waits(i, j)'
  <2>1. CASE \E i \in DOMAIN log' : Waits(i, j)'
    BY <2>1
  <2>2. CASE Submitted(j)
    <3>1. PICK i \in DOMAIN log : Waits(i, j)
      BY <2>2, <1>1 DEF Inv, JobNeverLost, Waits, Grows
    <3> QED
      BY <3>1, <1>1 DEF WaitsOn, Settled
  <2> QED
    BY <2>1, <2>2, <1>1 DEF Appears
<1> QED
  BY <1>1 DEF JobNeverLost, Waits

LEMMA OneWorkerMoves ==
    ASSUME Inv, TypeOK', LogKeeps, WaitsOn, Grows, Appears,
           Pages', TrimmedEntries', NotifiedIsComplete',
           NEW w \in Workers, Sound(worker[w])',
           \A v \in Workers : v # w => worker'[v] = worker[v]
    PROVE  Inv'
<1>1. ASSUME NEW v \in Workers PROVE Sound(worker[v])'
  <2>1. CASE v = w
    BY <2>1
  <2>2. CASE v # w
    <3>1. PICK q : q = worker[v] /\ q = worker'[v]
      BY <2>2
    <3>2. q \in WorkerStates(Len(log)) /\ Len(log) \in Nat /\ Sound(q)
      BY <3>1, WorkerFields DEF Inv
    <3>3. Sound(q)'
      BY <3>2, StaysSound DEF Inv
    <3> QED
      BY <3>1, <3>3
  <2> QED
    BY <2>1, <2>2
<1> QED
  BY <1>1, StillNotLost DEF Inv

LEMMA NoWorkerMoves ==
    ASSUME Inv, TypeOK', LogKeeps, WaitsOn, Grows, Appears,
           Pages', TrimmedEntries', NotifiedIsComplete', worker' = worker
    PROVE  Inv'
<1>1. CASE Workers = {}
  BY <1>1, StillNotLost DEF Inv
<1>2. CASE Workers # {}
  <2>1. PICK w \in Workers : TRUE
    BY <1>2
  <2>2. PICK q : q = worker[w] /\ q = worker'[w]
    OBVIOUS
  <2>3. q \in WorkerStates(Len(log)) /\ Len(log) \in Nat /\ Sound(q)
    BY <2>2, WorkerFields DEF Inv
  <2>4. Sound(q)'
    BY <2>3, StaysSound DEF Inv
  <2> QED
    BY <2>2, <2>4, OneWorkerMoves
<1> QED
  BY <1>1, <1>2

-----------------------------------------------------------------------------
(* What the steps do to the log.                                           *)

(* Entries change only their status, and none is dropped.                  *)
Relabels ==
    /\ log' \in Seq(Entries) /\ Len(log') = Len(log) /\ DOMAIN log' = DOMAIN log
    /\ \A i \in DOMAIN log :
          /\ log'[i].job = log[i].job /\ log'[i].page = log[i].page
          /\ log'[i].empty = log[i].empty
          /\ log'[i].status = "gone" => log[i].status = "gone"

LEMMA SameLog == ASSUME TypeOK, log' = log PROVE Relabels
BY DEF TypeOK, Relabels

LEMMA MarkEntries ==
    ASSUME TypeOK, NEW S, NEW status \in Statuses \ {"gone"}, SetStatus(S, status)
    PROVE  /\ Relabels
           /\ \A i \in DOMAIN log :
                 log'[i].status = IF i \in S THEN status ELSE log[i].status
<1>1. ASSUME NEW i \in DOMAIN log
      PROVE  /\ log'[i] \in Entries
             /\ log'[i].job = log[i].job /\ log'[i].page = log[i].page
             /\ log'[i].empty = log[i].empty
             /\ log'[i].status = IF i \in S THEN status ELSE log[i].status
  <2>1. log[i] \in Entries
    BY EntryFields
  <2>2. CASE i \in S
    <3>1. log'[i] = [log[i] EXCEPT !.status = status]
      BY <2>2 DEF SetStatus
    <3> QED
      BY <2>1, <2>2, <3>1 DEF Entries, Statuses
  <2>3. CASE i \notin S
    BY <2>1, <2>3 DEF SetStatus
  <2> QED
    BY <2>2, <2>3
<1>2. log' = [i \in DOMAIN log |-> log'[i]] /\ DOMAIN log = 1..Len(log) /\ Len(log) \in Nat
  BY DEF SetStatus, TypeOK
<1>3. log' \in Seq(Entries) /\ Len(log') = Len(log) /\ DOMAIN log' = DOMAIN log
  BY <1>1, <1>2
<1> QED
  BY <1>1, <1>3 DEF Relabels

(* What is marked as pending or idle can still be claimed.                 *)
LEMMA StillWaits ==
    ASSUME TypeOK, NEW S, NEW status \in {"pending", "idle"}, SetStatus(S, status)
    PROVE  Relabels /\ WaitsOn
<1>1. /\ Relabels
      /\ \A i \in DOMAIN log : log'[i].status = IF i \in S THEN status ELSE log[i].status
  BY MarkEntries DEF Statuses
<1>2. ASSUME NEW j \in Jobs, NEW i \in DOMAIN log, Waits(i, j)
      PROVE  i \in DOMAIN log' /\ i >= i /\ Waits(i, j)'
  <2>1. i \in Int
    BY EntryFields
  <2> QED
    BY <1>1, <1>2, <2>1 DEF Relabels, Waits
<1> QED
  BY <1>1, <1>2 DEF WaitsOn

LEMMA SameWaits == ASSUME TypeOK, log' = log PROVE WaitsOn
<1>1. ASSUME NEW j \in Jobs, NEW i \in DOMAIN log, Waits(i, j)
      PROVE  i \in DOMAIN log' /\ i >= i /\ Waits(i, j)'
  <2>1. i \in Int
    BY EntryFields
  <2> QED
    BY <1>1, <2>1 DEF Waits
<1> QED
  BY <1>1 DEF WaitsOn

LEMMA AddEntry ==
    ASSUME TypeOK, NEW e \in Entries, log' = Append(log, e)
    PROVE  /\ log' \in Seq(Entries) /\ Len(log') = Len(log) + 1 /\ Len(log) \in Nat
           /\ DOMAIN log' = DOMAIN log \cup {Len(log) + 1} /\ DOMAIN log = 1..Len(log)
           /\ \A i \in DOMAIN log : log'[i] = log[i]
           /\ log'[Len(log) + 1] = e
           /\ LogKeeps /\ WaitsOn
<1>1. /\ log' \in Seq(Entries) /\ Len(log') = Len(log) + 1 /\ Len(log) \in Nat
      /\ DOMAIN log = 1..Len(log) /\ DOMAIN log' = 1..(Len(log) + 1)
      /\ \A i \in 1..Len(log) : log'[i] = log[i]
      /\ log'[Len(log) + 1] = e
  BY DEF TypeOK
<1>2. DOMAIN log' = DOMAIN log \cup {Len(log) + 1}
  BY <1>1
<1>3. ASSUME NEW j \in Jobs, NEW i \in DOMAIN log, Waits(i, j)
      PROVE  i \in DOMAIN log' /\ i >= i /\ Waits(i, j)'
  BY <1>1, <1>2, <1>3 DEF Waits
<1>4. WaitsOn
  BY <1>3 DEF WaitsOn
<1>5. LogKeeps
  BY <1>1, <1>2 DEF LogKeeps
<1> QED
  BY <1>1, <1>2, <1>4, <1>5

(* A worker gets a new state.                                              *)
Rewrites(w) ==
    /\ DOMAIN worker' = Workers
    /\ \A v \in Workers : v # w => worker'[v] = worker[v]
    /\ worker'[w] \in WorkerStates(Len(log'))

LEMMA WorkerMoves ==
    ASSUME TypeOK, NEW w \in Workers, Rewrites(w), worker' = [v \in Workers |-> worker'[v]],
           Len(log') \in Nat, Len(log) <= Len(log')
    PROVE  worker' \in [Workers -> WorkerStates(Len(log'))]
<1>1. ASSUME NEW v \in Workers PROVE worker'[v] \in WorkerStates(Len(log'))
  <2>1. CASE v # w
    <3>1. worker[v] \in WorkerStates(Len(log)) /\ Len(log) \in Nat
      BY WorkerFields
    <3>2. worker[v] \in WorkerStates(Len(log'))
      BY <3>1 DEF WorkerStates
    <3> QED
      BY <2>1, <3>2 DEF Rewrites
  <2> QED
    BY <2>1 DEF Rewrites
<1> QED
  BY <1>1

(* The step of a worker that adds no entry and drops none.                 *)
LEMMA StepOfWorker ==
    ASSUME Inv, Relabels, WaitsOn, NEW w \in Workers, Rewrites(w),
           worker' = [v \in Workers |-> worker'[v]],
           UNCHANGED <<marker, newest, expired, trimmed>>,
           faults' \in Nat, passed' \in [Workers -> Nat],
           result' \in [Jobs -> Outcomes], images' \subseteq Jobs, docs' \subseteq Jobs,
           notified' \subseteq Jobs, Grows, NotifiedIsComplete', Sound(worker[w])'
    PROVE  Inv'
<1>1. TypeOK /\ Pages /\ TrimmedEntries
  BY DEF Inv
<1>2. Len(log') = Len(log) /\ Len(log) \in Nat
  BY <1>1 DEF Relabels, TypeOK
<1>3. worker' \in [Workers -> WorkerStates(Len(log'))]
  BY <1>1, <1>2, WorkerMoves
<1>4. TypeOK'
  BY <1>1, <1>3 DEF TypeOK, Relabels, WorkerStates
<1>5. LogKeeps
  BY DEF Relabels, LogKeeps
<1>6. Pages' /\ TrimmedEntries'
  BY <1>1 DEF Pages, TrimmedEntries, Relabels
<1>7. Appears
  BY DEF Appears, Submitted, Relabels
<1>8. \A v \in Workers : v # w => worker'[v] = worker[v]
  BY DEF Rewrites
<1> QED
  BY <1>4, <1>5, <1>6, <1>7, <1>8, OneWorkerMoves

-----------------------------------------------------------------------------
(* One lemma for each action.                                              *)

LEMMA InitInv == Init => Inv
<1> SUFFICES ASSUME Init PROVE Inv
  OBVIOUS
<1>1. log = <<>> /\ Len(log) = 0 /\ DOMAIN log = {}
  BY DEF Init
<1>2. Resting({}, 0) \in WorkerStates(0)
  BY WorkerStreamsAssumption DEF Resting, WorkerStates, Outcomes
<1>3. worker \in [Workers -> WorkerStates(0)] /\ \A w \in Workers : worker[w] = Resting({}, 0)
  BY <1>2 DEF Init
<1>4. TypeOK
  <2>1. log \in Seq(Entries) /\ worker \in [Workers -> WorkerStates(Len(log))]
    BY <1>1, <1>3
  <2>2. result \in [Jobs -> Outcomes] /\ passed \in [Workers -> Nat]
    BY DEF Init, Outcomes
  <2>3. /\ marker \in 0..MaxPage /\ newest \in 0..MaxPage /\ images \subseteq Jobs
        /\ docs \subseteq Jobs /\ notified \subseteq Jobs /\ trimmed \subseteq Jobs
        /\ faults \in Nat
    <3>1. /\ marker = 0 /\ newest = 0 /\ images = {} /\ docs = {} /\ notified = {}
          /\ trimmed = {} /\ faults = 0
      BY DEF Init
    <3> QED
      BY <3>1, WorkerStreamsAssumption
  <2>4. expired \in BOOLEAN
    BY DEF Init
  <2> QED
    BY <2>1, <2>2, <2>3, <2>4 DEF TypeOK, WorkerStates
<1>5. \A w \in Workers : Sound(worker[w])
  BY <1>3 DEF Sound, Resting, Steps
<1>6. Pages /\ TrimmedEntries /\ JobNeverLost /\ NotifiedIsComplete
  BY <1>1 DEF Init, Pages, TrimmedEntries, JobNeverLost, NotifiedIsComplete, Submitted
<1> QED
  BY <1>4, <1>5, <1>6 DEF Inv

(* The marker follows the newest page until it expires.                    *)
LEMMA AnnounceMarks ==
    ASSUME Inv, NEW p \in 0..MaxPage, Announce(p), expired' = expired
    PROVE  /\ marker' \in 0..MaxPage /\ newest' \in 0..MaxPage
           /\ newest <= newest' /\ p <= newest' /\ marker' <= newest'
           /\ ~expired' => marker' = newest'
<1>1. marker \in 0..MaxPage /\ newest \in 0..MaxPage /\ marker <= newest
      /\ (~expired => marker = newest)
  BY DEF Inv, TypeOK, Pages
<1> QED
  BY <1>1, WorkerStreamsAssumption DEF Announce, MarkerAfter

LEMMA SubmitInv ==
    ASSUME Inv, NEW j \in Jobs, NEW s \in Streams, NEW p \in 0..MaxPage, Submit(j, s, p)
    PROVE  Inv'
<1> DEFINE e == Entry(s, j, p)
<1>1. e \in Entries /\ e.job = j /\ e.page = p /\ ~e.empty /\ e.status = "new"
  BY DEF Entry, Entries
<1> HIDE DEF e
<1>2. /\ log' = Append(log, e) /\ Announce(p)
      /\ UNCHANGED <<worker, result, images, docs, notified, faults, expired, trimmed, passed>>
  BY DEF Submit, stored, e
<1>3. TypeOK /\ Pages /\ TrimmedEntries /\ NotifiedIsComplete
  BY DEF Inv
<1>4. /\ log' \in Seq(Entries) /\ Len(log') = Len(log) + 1 /\ Len(log) \in Nat
      /\ DOMAIN log' = DOMAIN log \cup {Len(log) + 1}
      /\ \A i \in DOMAIN log : log'[i] = log[i]
      /\ log'[Len(log) + 1] = e /\ LogKeeps /\ WaitsOn
  BY <1>1, <1>2, <1>3, AddEntry
<1>5. /\ marker' \in 0..MaxPage /\ newest' \in 0..MaxPage
      /\ newest <= newest' /\ p <= newest' /\ marker' <= newest'
      /\ ~expired' => marker' = newest'
  BY <1>2, AnnounceMarks
<1>6. worker' \in [Workers -> WorkerStates(Len(log'))]
  <2>1. ASSUME NEW w \in Workers PROVE worker[w] \in WorkerStates(Len(log'))
    BY <1>3, <1>4, WorkerFields DEF WorkerStates
  <2> QED
    BY <2>1, <1>2, <1>3 DEF TypeOK
<1>7. TypeOK'
  BY <1>2, <1>3, <1>4, <1>5, <1>6 DEF TypeOK, WorkerStates
<1>8. Grows
  BY <1>2, <1>5 DEF Grows
<1>9. Pages'
  <2>1. \A i \in DOMAIN log : log[i].page <= newest'
    BY <1>3, <1>5, EntryFields DEF Pages, TypeOK
  <2> QED
    BY <2>1, <1>1, <1>4, <1>5 DEF Pages
<1>10. TrimmedEntries'
  BY <1>1, <1>2, <1>3, <1>4 DEF TrimmedEntries
<1>11. Appears
  <2>0. PICK n : n = Len(log) + 1
    OBVIOUS
  <2>1. n \in DOMAIN log' /\ Waits(n, j)'
    BY <2>0, <1>1, <1>4 DEF Waits
  <2>2. ASSUME NEW k \in Jobs, Submitted(k)', k # j PROVE Submitted(k)
    BY <2>2, <1>1, <1>4 DEF Submitted
  <2> QED
    BY <2>1, <2>2, <1>4 DEF Appears
<1>12. NotifiedIsComplete'
  BY <1>2, <1>3 DEF NotifiedIsComplete
<1> QED
  BY <1>2, <1>4, <1>7, <1>8, <1>9, <1>10, <1>11, <1>12, NoWorkerMoves

(* Steps that leave the log and the workers alone.                         *)
LEMMA QuietStep ==
    ASSUME Inv, Relabels, WaitsOn, worker' = worker,
           marker' \in 0..MaxPage, newest' \in 0..MaxPage, newest <= newest',
           marker' <= newest', ~expired' => marker' = newest',
           expired' \in BOOLEAN, expired => expired',
           UNCHANGED <<result, images, docs, notified, trimmed, passed>>, faults' \in Nat
    PROVE  Inv'
<1>1. TypeOK /\ Pages /\ TrimmedEntries /\ NotifiedIsComplete
  BY DEF Inv
<1>2. worker' \in [Workers -> WorkerStates(Len(log'))]
  <2>1. ASSUME NEW w \in Workers PROVE worker[w] \in WorkerStates(Len(log'))
    BY <1>1, WorkerFields DEF Relabels
  <2> QED
    BY <2>1, <1>1 DEF TypeOK
<1>3. TypeOK'
  BY <1>1, <1>2 DEF TypeOK, WorkerStates, Relabels
<1>4. Grows
  BY DEF Grows
<1>5. Pages'
  <2>1. \A i \in DOMAIN log : log[i].page <= newest'
    BY <1>1, EntryFields DEF Pages, TypeOK
  <2> QED
    BY <2>1 DEF Pages, Relabels
<1>6. TrimmedEntries'
  BY <1>1 DEF TrimmedEntries, Relabels
<1>7. Appears /\ LogKeeps
  BY DEF Appears, Submitted, LogKeeps, Relabels
<1>8. NotifiedIsComplete'
  BY <1>1 DEF NotifiedIsComplete
<1> QED
  BY <1>3, <1>4, <1>5, <1>6, <1>7, <1>8, NoWorkerMoves

LEMMA ViewCachedPageInv ==
    ASSUME Inv, NEW p \in 0..MaxPage, ViewCachedPage(p) PROVE Inv'
<1>1. /\ Announce(p)
      /\ UNCHANGED <<log, worker, result, images, docs, notified, faults, expired, trimmed, passed>>
  BY DEF ViewCachedPage, stored
<1>2. TypeOK
  BY DEF Inv
<1>3. faults' \in Nat /\ expired' \in BOOLEAN
  BY <1>1, <1>2 DEF TypeOK
<1> QED
  BY <1>1, <1>2, <1>3, AnnounceMarks, SameLog, SameWaits, QuietStep

LEMMA MarkerExpiresInv == ASSUME Inv, MarkerExpires PROVE Inv'
<1>1. /\ marker' = 0 /\ expired' = TRUE /\ faults' = faults + 1
      /\ UNCHANGED <<log, worker, result, images, docs, notified, newest, trimmed, passed>>
  BY DEF MarkerExpires, OneFault, stored
<1>2. TypeOK
  BY DEF Inv
<1>3. marker' \in 0..MaxPage /\ newest' \in 0..MaxPage /\ newest <= newest' /\ marker' <= newest'
      /\ faults' \in Nat
  BY <1>1, <1>2, WorkerStreamsAssumption DEF TypeOK
<1> QED
  BY <1>1, <1>2, <1>3, SameLog, SameWaits, QuietStep

LEMMA GrowIdleInv == ASSUME Inv, NEW i \in DOMAIN log, GrowIdle(i) PROVE Inv'
<1>1. /\ SetStatus({i}, "idle")
      /\ UNCHANGED <<marker, worker, result, images, docs, notified, faults, newest, expired,
                     trimmed, passed>>
  BY DEF GrowIdle, stored, history
<1>2. TypeOK /\ Pages
  BY DEF Inv
<1>3. marker' \in 0..MaxPage /\ newest' \in 0..MaxPage /\ newest <= newest' /\ marker' <= newest'
      /\ faults' \in Nat /\ (~expired' => marker' = newest') /\ expired' \in BOOLEAN
  BY <1>1, <1>2, WorkerStreamsAssumption DEF TypeOK, Pages
<1>4. Relabels /\ WaitsOn
  BY <1>1, <1>2, StillWaits
<1> QED
  BY <1>1, <1>3, <1>4, QuietStep

LEMMA TrimInv == ASSUME Inv, NEW i \in DOMAIN log, Trim(i) PROVE Inv'
<1>1. /\ log' = [log EXCEPT ![i].empty = TRUE,
                            ![i].status = IF @ = "new" THEN "gone" ELSE @]
      /\ trimmed' = trimmed \cup {log[i].job} /\ faults' = faults + 1
      /\ UNCHANGED <<marker, worker, result, images, docs, notified, newest, expired, passed>>
  BY DEF Trim, OneFault, stored
<1>2. TypeOK /\ Pages /\ TrimmedEntries /\ NotifiedIsComplete
  BY DEF Inv
<1>3. /\ i \in 1..Len(log) /\ Len(log) \in Nat /\ log[i] \in Entries /\ log[i].job \in Jobs
      /\ DOMAIN log = 1..Len(log)
  BY <1>2, EntryFields DEF TypeOK
<1>4. \A k \in DOMAIN log : k # i => log'[k] = log[k]
  BY <1>1
<1>5. log'[i] \in Entries /\ log'[i].job = log[i].job /\ log'[i].page = log[i].page
  BY <1>1, <1>3 DEF Entries
<1>6. DOMAIN log' = DOMAIN log
  BY <1>1
<1>7. log' \in Seq(Entries) /\ Len(log') = Len(log)
  <2>1. ASSUME NEW k \in 1..Len(log) PROVE log'[k] \in Entries
    BY <1>2, <1>3, <1>4, <1>5, EntryFields
  <2>2. log' = [k \in 1..Len(log) |-> log'[k]]
    BY <1>1, <1>3
  <2> QED
    BY <2>1, <2>2, <1>3
<1>8. LogKeeps
  BY <1>4, <1>5, <1>6 DEF LogKeeps
<1>9. Grows
  BY <1>1, <1>2 DEF Grows, TypeOK
<1>10. WaitsOn
  <2>1. ASSUME NEW j \in Jobs, NEW k \in DOMAIN log, Waits(k, j)
        PROVE  Settled(j)' \/ \E l \in DOMAIN log' : l >= k /\ Waits(l, j)'
    <3>1. CASE k = i
      BY <3>1, <2>1, <1>1 DEF Waits, Settled
    <3>2. CASE k # i
      BY <3>2, <2>1, <1>2, <1>4, <1>6, EntryFields DEF Waits
    <3> QED
      BY <3>1, <3>2
  <2> QED
    BY <2>1 DEF WaitsOn
<1>11. worker' \in [Workers -> WorkerStates(Len(log'))]
  <2>1. ASSUME NEW w \in Workers PROVE worker[w] \in WorkerStates(Len(log'))
    BY <1>2, <1>7, WorkerFields
  <2> QED
    BY <2>1, <1>1, <1>2 DEF TypeOK
<1>12. TypeOK'
  BY <1>1, <1>2, <1>3, <1>7, <1>11 DEF TypeOK, WorkerStates
<1>13. Pages' /\ NotifiedIsComplete'
  BY <1>1, <1>2, <1>4, <1>5, <1>6 DEF Pages, NotifiedIsComplete
<1>14. TrimmedEntries'
  BY <1>1, <1>2, <1>4, <1>5, <1>6 DEF TrimmedEntries
<1>15. Appears
  BY <1>4, <1>5, <1>6 DEF Appears, Submitted
<1> QED
  BY <1>1, <1>8, <1>9, <1>10, <1>12, <1>13, <1>14, <1>15, NoWorkerMoves

(* A worker that only moves on: nothing but its own state changes.         *)
LEMMA MovesOn ==
    ASSUME Inv, log' = log, NEW w \in Workers, Rewrites(w),
           worker' = [v \in Workers |-> worker'[v]],
           UNCHANGED <<marker, result, images, docs, notified, newest, expired, trimmed>>,
           faults' \in Nat, passed' \in [Workers -> Nat], Sound(worker[w])'
    PROVE  Inv'
<1>1. TypeOK /\ NotifiedIsComplete
  BY DEF Inv
<1>2. /\ result' \in [Jobs -> Outcomes] /\ images' \subseteq Jobs /\ docs' \subseteq Jobs
      /\ notified' \subseteq Jobs /\ newest <= newest'
  BY <1>1 DEF TypeOK
<1>3. Grows /\ NotifiedIsComplete'
  BY <1>1, <1>2 DEF Grows, NotifiedIsComplete
<1> QED
  BY <1>1, <1>2, <1>3, SameLog, SameWaits, StepOfWorker

(* A worker that takes entries: what it marks can still be claimed.        *)
LEMMA Takes ==
    ASSUME Inv, NEW S, NEW status \in {"pending", "idle"}, SetStatus(S, status),
           NEW w \in Workers, Rewrites(w), worker' = [v \in Workers |-> worker'[v]],
           UNCHANGED <<marker, result, images, docs, notified, faults, newest, expired, trimmed>>,
           passed' \in [Workers -> Nat], Sound(worker[w])'
    PROVE  Inv'
<1>1. TypeOK /\ NotifiedIsComplete
  BY DEF Inv
<1>2. /\ result' \in [Jobs -> Outcomes] /\ images' \subseteq Jobs /\ docs' \subseteq Jobs
      /\ notified' \subseteq Jobs /\ newest <= newest' /\ faults' \in Nat
  BY <1>1 DEF TypeOK
<1>3. Grows /\ NotifiedIsComplete'
  BY <1>1, <1>2 DEF Grows, NotifiedIsComplete
<1>4. Relabels /\ WaitsOn
  BY <1>1, StillWaits
<1> QED
  BY <1>1, <1>2, <1>3, <1>4, StepOfWorker

LEMMA ReadInv ==
    ASSUME Inv, NEW w \in Workers, NEW s \in Streams, Read(w, s),
           UNCHANGED <<marker, result, images, docs, notified, faults, newest, expired, trimmed>>,
           passed' \in [Workers -> Nat]
    PROVE  Inv'
<1>1. PICK i \in With(s, {"new"}) :
          /\ SetStatus({i}, "pending")
          /\ worker' = [worker EXCEPT ![w].pc = "got", ![w].at = i, ![w].claimed = FALSE]
  BY DEF Read
<1>2. TypeOK /\ i \in DOMAIN log
  BY DEF Inv, With
<1>3. Relabels
  BY <1>1, <1>2, StillWaits
<1>4. i \in 1..Len(log) /\ Len(log) \in Nat /\ Len(log') = Len(log) /\ i \in DOMAIN log'
  BY <1>2, <1>3, EntryFields DEF Relabels
<1>5. worker[w] \in WorkerStates(Len(log)) /\ DOMAIN worker = Workers
  BY <1>2, WorkerFields DEF TypeOK
<1>6. Rewrites(w) /\ worker'[w].pc = "got" /\ worker'[w].at = i
  <2>1. "got" \in Steps /\ i \in 0..Len(log')
    BY <1>4 DEF Steps
  <2>2. [worker[w] EXCEPT !.pc = "got", !.at = i, !.claimed = FALSE] \in WorkerStates(Len(log'))
    BY <1>4, <1>5, <2>1 DEF WorkerStates
  <2>3. worker'[w] = [worker[w] EXCEPT !.pc = "got", !.at = i, !.claimed = FALSE]
    BY <1>1, <1>5
  <2>4. worker'[w].pc = "got" /\ worker'[w].at = i
    BY <2>3, <1>5 DEF WorkerStates
  <2> QED
    BY <1>1, <1>5, <2>2, <2>3, <2>4 DEF Rewrites
<1>7. worker' = [v \in Workers |-> worker'[v]]
  BY <1>1, <1>5
<1>8. Sound(worker[w])'
  BY <1>4, <1>6 DEF Sound
<1> QED
  BY <1>1, <1>6, <1>7, <1>8, Takes

LEMMA PollFirstInv == ASSUME Inv, NEW w \in Workers, PollFirst(w) PROVE Inv'
<1>1. UNCHANGED <<marker, result, images, docs, notified, faults, newest, expired, trimmed>>
  BY DEF PollFirst, stored
<1>2. TypeOK /\ passed' \in [Workers -> Nat]
  BY DEF Inv, TypeOK, PollFirst
<1>3. CASE Read(w, Preferred(w))
  <2>1. Preferred(w) \in Streams
    BY DEF Preferred, Streams
  <2> QED
    BY <1>1, <1>2, <1>3, <2>1, ReadInv
<1>4. CASE worker' = [worker EXCEPT ![w].pc = "second"] /\ UNCHANGED log
  <2>1. worker[w] \in WorkerStates(Len(log)) /\ DOMAIN worker = Workers /\ faults' \in Nat
    BY <1>1, <1>2, WorkerFields DEF TypeOK
  <2>2. Rewrites(w) /\ worker'[w].pc = "second"
    BY <1>4, <2>1 DEF Rewrites, WorkerStates
  <2>3. worker' = [v \in Workers |-> worker'[v]]
    BY <1>4, <2>1
  <2>4. Sound(worker[w])'
    BY <2>2 DEF Sound, Steps
  <2> QED
    BY <1>1, <1>2, <1>4, <2>1, <2>2, <2>3, <2>4, MovesOn
<1> QED
  BY <1>3, <1>4 DEF PollFirst

LEMMA PollSecondInv == ASSUME Inv, NEW w \in Workers, PollSecond(w) PROVE Inv'
<1>1. UNCHANGED <<marker, result, images, docs, notified, faults, newest, expired, trimmed, passed>>
  BY DEF PollSecond, stored, history
<1>2. TypeOK /\ passed' \in [Workers -> Nat]
  BY <1>1 DEF Inv, TypeOK
<1>3. CASE Read(w, Other(Preferred(w)))
  <2>1. Other(Preferred(w)) \in Streams
    BY DEF Other, Streams
  <2> QED
    BY <1>1, <1>2, <1>3, <2>1, ReadInv
<1>4. CASE worker' = [worker EXCEPT ![w].pc = "idle"] /\ UNCHANGED log
  <2>1. worker[w] \in WorkerStates(Len(log)) /\ DOMAIN worker = Workers /\ faults' \in Nat
    BY <1>1, <1>2, WorkerFields DEF TypeOK
  <2>2. Rewrites(w) /\ worker'[w].pc = "idle"
    BY <1>4, <2>1 DEF Rewrites, WorkerStates
  <2>3. worker' = [v \in Workers |-> worker'[v]]
    BY <1>4, <2>1
  <2>4. Sound(worker[w])'
    BY <2>2 DEF Sound, Steps
  <2> QED
    BY <1>1, <1>2, <1>4, <2>1, <2>2, <2>3, <2>4, MovesOn
<1> QED
  BY <1>3, <1>4 DEF PollSecond

LEMMA ClaimPendingInv ==
    ASSUME Inv, NEW w \in Workers, NEW s \in Streams, ClaimPending(w, s) PROVE Inv'
<1>1. /\ SetStatus(Claimable(s), "pending") /\ Claimable(s) # {}
      /\ worker' = [worker EXCEPT ![w].pc = "batch", ![w].batch = Claimable(s)]
      /\ UNCHANGED <<marker, result, images, docs, notified, faults, newest, expired, trimmed, passed>>
  BY DEF ClaimPending, stored, history
<1>2. TypeOK /\ passed' \in [Workers -> Nat]
  BY <1>1 DEF Inv, TypeOK
<1>3. Relabels
  BY <1>1, <1>2, StillWaits
<1>4. Claimable(s) \subseteq DOMAIN log
  BY DEF Claimable, With
<1>5. Len(log') = Len(log) /\ DOMAIN log = 1..Len(log)
  BY <1>2, <1>3 DEF Relabels, TypeOK
<1>6. worker[w] \in WorkerStates(Len(log)) /\ DOMAIN worker = Workers
  BY <1>2, WorkerFields DEF TypeOK
<1> DEFINE S == Claimable(s)
<1> HIDE DEF S
<1>7. S \subseteq 1..Len(log) /\ S # {}
      /\ worker' = [worker EXCEPT ![w].pc = "batch", ![w].batch = S]
  BY <1>1, <1>4, <1>5 DEF S
<1>8. Rewrites(w) /\ worker'[w].pc = "batch" /\ worker'[w].batch = S
  BY <1>5, <1>6, <1>7 DEF Rewrites, WorkerStates
<1>9. worker' = [v \in Workers |-> worker'[v]]
  BY <1>1, <1>6
<1>10. Sound(worker[w])'
  BY <1>7, <1>8 DEF Sound, Steps
<1> QED
  BY <1>1, <1>2, <1>8, <1>9, <1>10, Takes

LEMMA NextClaimedInv == ASSUME Inv, NEW w \in Workers, NextClaimed(w) PROVE Inv'
<1>1. PICK i \in worker[w].batch :
        LET rest == worker[w].batch \ {i} IN
           IF log[i].empty
           THEN /\ SetStatus({i}, "acked")
                /\ worker' = [worker EXCEPT ![w].batch = rest,
                                ![w].pc = IF rest = {} THEN "idle" ELSE "batch"]
           ELSE /\ worker' = [worker EXCEPT ![w].batch = rest, ![w].pc = "got",
                                ![w].at = i, ![w].claimed = TRUE]
                /\ UNCHANGED log
  BY DEF NextClaimed
<1>2. UNCHANGED <<marker, result, images, docs, notified, faults, newest, expired, trimmed, passed>>
  BY DEF NextClaimed, stored, history
<1>3. TypeOK /\ NotifiedIsComplete /\ TrimmedEntries
  BY DEF Inv
<1>4. /\ passed' \in [Workers -> Nat] /\ faults' \in Nat /\ result' \in [Jobs -> Outcomes]
      /\ images' \subseteq Jobs /\ docs' \subseteq Jobs /\ notified' \subseteq Jobs
      /\ newest <= newest'
  BY <1>2, <1>3 DEF TypeOK
<1>5. Grows /\ NotifiedIsComplete'
  BY <1>2, <1>3, <1>4 DEF Grows, NotifiedIsComplete
<1>6. worker[w] \in WorkerStates(Len(log)) /\ DOMAIN worker = Workers
  BY <1>3, WorkerFields DEF TypeOK
<1>7. i \in 1..Len(log) /\ i \in DOMAIN log /\ Len(log) \in Nat
  BY <1>3, <1>6 DEF WorkerStates, TypeOK
<1> DEFINE rest == worker[w].batch \ {i}
<1>8. rest \subseteq 1..Len(log)
  BY <1>6 DEF WorkerStates
<1> HIDE DEF rest
<1>9. CASE log[i].empty
  <2>1. /\ SetStatus({i}, "acked")
        /\ worker' = [worker EXCEPT ![w].batch = rest,
                                    ![w].pc = IF rest = {} THEN "idle" ELSE "batch"]
    BY <1>1, <1>9 DEF rest
  <2>2. /\ Relabels
        /\ \A k \in DOMAIN log : log'[k].status = IF k \in {i} THEN "acked" ELSE log[k].status
    BY <1>3, <2>1, MarkEntries DEF Statuses
  <2>3. WaitsOn
    <3>1. ASSUME NEW j \in Jobs, NEW k \in DOMAIN log, Waits(k, j)
          PROVE  Settled(j)' \/ (k >= k /\ k \in DOMAIN log' /\ Waits(k, j)')
      <4>1. CASE k = i
        <5>1. j \in trimmed
          BY <3>1, <4>1, <1>3, <1>9 DEF TrimmedEntries, Waits
        <5> QED
          BY <5>1, <1>2 DEF Settled
      <4>2. CASE k # i
        BY <3>1, <4>2, <2>2, <1>3, EntryFields DEF Waits, Relabels
      <4> QED
        BY <4>1, <4>2
    <3> QED
      BY <3>1 DEF WaitsOn
  <2>4. /\ worker'[w] \in WorkerStates(Len(log))
        /\ worker'[w].pc = IF rest = {} THEN "idle" ELSE "batch"
        /\ worker'[w].batch = rest
    BY <2>1, <1>6, <1>8 DEF WorkerStates
  <2>5. Rewrites(w) /\ worker' = [v \in Workers |-> worker'[v]]
    BY <2>1, <2>2, <2>4, <1>6 DEF Rewrites, Relabels
  <2>6. Sound(worker[w])'
    BY <2>4 DEF Sound, Steps
  <2> QED
    BY <1>2, <1>4, <1>5, <2>2, <2>3, <2>5, <2>6, StepOfWorker
<1>10. CASE ~log[i].empty
  <2>1. /\ worker' = [worker EXCEPT ![w].batch = rest, ![w].pc = "got",
                                    ![w].at = i, ![w].claimed = TRUE]
        /\ log' = log
    BY <1>1, <1>10 DEF rest
  <2>2. worker'[w] = [worker[w] EXCEPT !.batch = rest, !.pc = "got", !.at = i, !.claimed = TRUE]
    BY <2>1, <1>6
  <2>3. "got" \in Steps /\ i \in 0..Len(log)
    BY <1>7 DEF Steps
  <2>4. /\ worker'[w] \in WorkerStates(Len(log))
        /\ worker'[w].pc = "got" /\ worker'[w].at = i
    BY <2>2, <2>3, <1>6, <1>8 DEF WorkerStates
  <2>5. Rewrites(w) /\ worker' = [v \in Workers |-> worker'[v]]
    BY <2>1, <2>4, <1>6 DEF Rewrites
  <2>6. Sound(worker[w])'
    BY <2>1, <2>4, <1>7 DEF Sound
  <2> QED
    BY <1>2, <1>4, <2>1, <2>5, <2>6, MovesOn
<1> QED
  BY <1>9, <1>10

LEMMA ExamineInv == ASSUME Inv, NEW w \in Workers, Examine(w) PROVE Inv'
<1>1. /\ worker[w].pc = "got" /\ log' = log
      /\ UNCHANGED <<marker, result, images, docs, notified, faults, newest, expired, trimmed, passed>>
  BY DEF Examine, stored, history
<1>2. TypeOK /\ Pages /\ Sound(worker[w])
  BY DEF Inv
<1>3. passed' \in [Workers -> Nat] /\ faults' \in Nat
  BY <1>1, <1>2 DEF TypeOK
<1>4. worker[w] \in WorkerStates(Len(log)) /\ DOMAIN worker = Workers
  BY <1>2, WorkerFields DEF TypeOK
<1>5. worker[w].at \in DOMAIN log
  BY <1>1, <1>2 DEF Sound, Steps
<1>6. CASE worker' = [worker EXCEPT ![w].pc = "meta", ![w].outcome = "failed", ![w].skipped = TRUE]
  <2>1. worker'[w] = [worker[w] EXCEPT !.pc = "meta", !.outcome = "failed", !.skipped = TRUE]
    BY <1>4, <1>6
  <2>2. /\ worker'[w] \in WorkerStates(Len(log)) /\ worker'[w].pc = "meta"
        /\ worker'[w].at = worker[w].at /\ worker'[w].outcome = "failed"
    BY <2>1, <1>4 DEF WorkerStates, Steps, Outcomes
  <2>3. Rewrites(w) /\ worker' = [v \in Workers |-> worker'[v]]
    BY <2>2, <1>1, <1>4, <1>6 DEF Rewrites
  <2>4. Sound(worker[w])'
    BY <2>2, <1>1, <1>5 DEF Sound
  <2> QED
    BY <1>1, <1>3, <2>3, <2>4, MovesOn
<1>7. CASE Stale(Mine(w)) /\ worker' = [worker EXCEPT ![w].pc = "deferAdd"]
  <2>1. worker'[w] = [worker[w] EXCEPT !.pc = "deferAdd"]
    BY <1>4, <1>7
  <2>2. /\ worker'[w] \in WorkerStates(Len(log)) /\ worker'[w].pc = "deferAdd"
        /\ worker'[w].at = worker[w].at
    BY <2>1, <1>4 DEF WorkerStates, Steps
  <2>3. Rewrites(w) /\ worker' = [v \in Workers |-> worker'[v]]
    BY <2>2, <1>1, <1>4, <1>7 DEF Rewrites
  <2>4. ~expired => log[worker[w].at].page < newest
    <3>1. marker # log[worker[w].at].page
      BY <1>7 DEF Stale, Mine
    <3>2. log[worker[w].at].page <= newest /\ log[worker[w].at].page \in Int /\ newest \in Int
      BY <1>2, <1>5, EntryFields DEF Pages, TypeOK
    <3> QED
      BY <3>1, <3>2, <1>2 DEF Pages
  <2>5. Sound(worker[w])'
    BY <2>2, <2>4, <1>1, <1>5 DEF Sound
  <2> QED
    BY <1>1, <1>3, <2>3, <2>5, MovesOn
<1>8. CASE worker' = [worker EXCEPT ![w].pc = "run"]
  <2>1. worker'[w] = [worker[w] EXCEPT !.pc = "run"]
    BY <1>4, <1>8
  <2>2. /\ worker'[w] \in WorkerStates(Len(log)) /\ worker'[w].pc = "run"
        /\ worker'[w].at = worker[w].at
    BY <2>1, <1>4 DEF WorkerStates, Steps
  <2>3. Rewrites(w) /\ worker' = [v \in Workers |-> worker'[v]]
    BY <2>2, <1>1, <1>4, <1>8 DEF Rewrites
  <2>4. Sound(worker[w])'
    BY <2>2, <1>1, <1>5 DEF Sound
  <2> QED
    BY <1>1, <1>3, <2>3, <2>4, MovesOn
<1> QED
  BY <1>6, <1>7, <1>8 DEF Examine

(* The deferred copy comes after the entry it replaces, and is waiting.    *)
LEMMA DeferAddInv == ASSUME Inv, NEW w \in Workers, DeferAdd(w) PROVE Inv'
<1> DEFINE at == worker[w].at
           j  == log[at].job
           e  == Entry("low", j, log[at].page)
<1>1. /\ worker[w].pc = "deferAdd" /\ log' = Append(log, e)
      /\ worker' = [worker EXCEPT ![w].pc = "deferAck"]
      /\ UNCHANGED <<marker, result, images, docs, notified, faults, newest, expired, trimmed, passed>>
  BY DEF DeferAdd, Deferred, Mine, stored, history
<1>2. TypeOK /\ Pages /\ TrimmedEntries /\ NotifiedIsComplete /\ Sound(worker[w])
  BY DEF Inv
<1>3. at \in DOMAIN log
  BY <1>1, <1>2 DEF Sound, Steps
<1>4. /\ log[at] \in Entries /\ j \in Jobs /\ log[at].page \in 0..MaxPage
      /\ log[at].page <= newest /\ at \in 1..Len(log)
  BY <1>2, <1>3, EntryFields DEF Pages, Entries
<1>5. e \in Entries /\ e.job = j /\ e.page = log[at].page /\ ~e.empty /\ e.status = "new"
  BY <1>4 DEF Entry, Entries, Streams
<1> HIDE DEF e
<1>6. /\ log' \in Seq(Entries) /\ Len(log') = Len(log) + 1 /\ Len(log) \in Nat
      /\ DOMAIN log' = DOMAIN log \cup {Len(log) + 1}
      /\ \A i \in DOMAIN log : log'[i] = log[i]
      /\ log'[Len(log) + 1] = e /\ LogKeeps /\ WaitsOn
  BY <1>1, <1>2, <1>5, AddEntry
<1>7. worker[w] \in WorkerStates(Len(log)) /\ DOMAIN worker = Workers
  BY <1>2, WorkerFields DEF TypeOK
<1>8. worker'[w] = [worker[w] EXCEPT !.pc = "deferAck"]
  BY <1>1, <1>7
<1>9. /\ worker'[w] \in WorkerStates(Len(log')) /\ worker'[w].pc = "deferAck"
      /\ worker'[w].at = at
  BY <1>6, <1>7, <1>8 DEF WorkerStates, Steps
<1>10. Rewrites(w) /\ worker' = [v \in Workers |-> worker'[v]]
  BY <1>1, <1>7, <1>9 DEF Rewrites
<1>11. worker' \in [Workers -> WorkerStates(Len(log'))]
  BY <1>2, <1>6, <1>10, WorkerMoves
<1>12. TypeOK'
  BY <1>1, <1>2, <1>6, <1>11 DEF TypeOK, WorkerStates
<1>13. Grows
  BY <1>1, <1>2 DEF Grows, TypeOK
<1>14. Pages' /\ TrimmedEntries' /\ NotifiedIsComplete'
  BY <1>1, <1>2, <1>4, <1>5, <1>6 DEF Pages, TrimmedEntries, NotifiedIsComplete
<1>15. Appears
  <2>1. ASSUME NEW k \in Jobs, Submitted(k)' PROVE Submitted(k)
    BY <2>1, <1>3, <1>5, <1>6 DEF Submitted
  <2> QED
    BY <2>1 DEF Appears
<1>16. ASSUME NEW n, n = Len(log) + 1, NEW a, a = at, NEW k, k = j
       PROVE  Sound(worker[w])'
  <2>1. n \in DOMAIN log' /\ n > a /\ Waits(n, k)'
    BY <1>16, <1>4, <1>5, <1>6 DEF Waits
  <2>2. a \in DOMAIN log' /\ log'[a].job = k /\ worker'[w].at = a
    BY <1>16, <1>3, <1>6, <1>9
  <2> QED
    BY <2>1, <2>2, <1>9 DEF Sound
<1>17. \A v \in Workers : v # w => worker'[v] = worker[v]
  BY <1>10 DEF Rewrites
<1> QED
  BY <1>6, <1>12, <1>13, <1>14, <1>15, <1>16, <1>17, OneWorkerMoves

LEMMA ProcessJobInv == ASSUME Inv, NEW w \in Workers, ProcessJob(w) PROVE Inv'
<1>1. PICK o \in {"completed", "failed"} :
          worker' = [worker EXCEPT ![w].pc = "meta", ![w].outcome = o, ![w].skipped = FALSE]
  BY DEF ProcessJob
<1>2. /\ worker[w].pc = "run" /\ log' = log
      /\ UNCHANGED <<marker, result, images, docs, notified, faults, newest, expired, trimmed, passed>>
  BY DEF ProcessJob, stored, history
<1>3. TypeOK /\ Sound(worker[w])
  BY DEF Inv
<1>4. passed' \in [Workers -> Nat] /\ faults' \in Nat
  BY <1>2, <1>3 DEF TypeOK
<1>5. worker[w] \in WorkerStates(Len(log)) /\ DOMAIN worker = Workers
  BY <1>3, WorkerFields DEF TypeOK
<1>6. worker[w].at \in DOMAIN log
  BY <1>2, <1>3 DEF Sound, Steps
<1>7. worker'[w] = [worker[w] EXCEPT !.pc = "meta", !.outcome = o, !.skipped = FALSE]
  BY <1>1, <1>5
<1>8. /\ worker'[w] \in WorkerStates(Len(log)) /\ worker'[w].pc = "meta"
      /\ worker'[w].at = worker[w].at /\ worker'[w].outcome # "none"
  BY <1>5, <1>7 DEF WorkerStates, Steps, Outcomes
<1>9. Rewrites(w) /\ worker' = [v \in Workers |-> worker'[v]]
  BY <1>1, <1>2, <1>5, <1>8 DEF Rewrites
<1>10. Sound(worker[w])'
  BY <1>2, <1>6, <1>8 DEF Sound
<1> QED
  BY <1>2, <1>4, <1>9, <1>10, MovesOn

(* A result becomes visible step by step: its status first, and the        *)
(* notification last.                                                      *)
LEMMA StoreResultInv == ASSUME Inv, NEW w \in Workers, StoreResult(w) PROVE Inv'
<1> DEFINE at == worker[w].pc
           j == log[worker[w].at].job
           done == worker[w].outcome = "completed"
<1>1. /\ at \in {"meta", "image", "doc", "publish"}
      /\ result'   = IF at = "meta" THEN [result EXCEPT ![j] = worker[w].outcome] ELSE result
      /\ images'   = IF at = "image" /\ done THEN images \cup {j} ELSE images
      /\ docs'     = IF at = "doc" /\ done THEN docs \cup {j} ELSE docs
      /\ notified' = IF at = "publish" /\ done THEN notified \cup {j} ELSE notified
      /\ worker'   = [worker EXCEPT ![w].pc = After[at]]
      /\ log' = log
      /\ UNCHANGED <<marker, faults, newest, expired, trimmed, passed>>
  BY DEF StoreResult, Mine, After, history
<1>2. TypeOK /\ Sound(worker[w]) /\ NotifiedIsComplete
  BY DEF Inv
<1>3. worker[w].at \in DOMAIN log /\ j \in Jobs
  BY <1>1, <1>2, EntryFields DEF Sound, Steps
<1>4. worker[w] \in WorkerStates(Len(log)) /\ DOMAIN worker = Workers
  BY <1>2, WorkerFields DEF TypeOK
<1>5. /\ worker[w].outcome # "none" /\ worker[w].outcome \in Outcomes
      /\ at \in {"image", "doc", "publish"} => result[j] # "none"
      /\ at \in {"doc", "publish"} /\ done => j \in images
      /\ at = "publish" /\ done => j \in docs
  BY <1>1, <1>2, <1>4 DEF Sound, WorkerStates
<1>6. After[at] = CASE at = "meta" -> "image" [] at = "image" -> "doc"
                    [] at = "doc" -> "publish" [] at = "publish" -> "ack"
  BY <1>1 DEF After
<1>7. PICK next \in Steps : /\ next = After[at]
                            /\ at = "meta" => next = "image"
                            /\ at = "image" => next = "doc"
                            /\ at = "doc" => next = "publish"
                            /\ at = "publish" => next = "ack"
  BY <1>1, <1>6 DEF Steps
<1>8. worker'[w] = [worker[w] EXCEPT !.pc = next]
  BY <1>1, <1>4, <1>7
<1>9. /\ worker'[w] \in WorkerStates(Len(log)) /\ worker'[w].pc = next
      /\ worker'[w].at = worker[w].at /\ worker'[w].outcome = worker[w].outcome
  BY <1>4, <1>8 DEF WorkerStates
<1>10. Rewrites(w) /\ worker' = [v \in Workers |-> worker'[v]]
  BY <1>1, <1>4, <1>9 DEF Rewrites
<1>11. /\ result' \in [Jobs -> Outcomes] /\ result'[j] # "none"
       /\ \A k \in Jobs : result[k] # "none" => result'[k] # "none"
  BY <1>1, <1>2, <1>3, <1>5 DEF TypeOK
<1>12. /\ images' \subseteq Jobs /\ docs' \subseteq Jobs /\ notified' \subseteq Jobs
       /\ images \subseteq images' /\ docs \subseteq docs' /\ faults' \in Nat
       /\ passed' \in [Workers -> Nat] /\ newest <= newest'
  BY <1>1, <1>2, <1>3 DEF TypeOK
<1>13. Grows
  BY <1>1, <1>11, <1>12 DEF Grows
<1>14. NotifiedIsComplete'
  BY <1>1, <1>2, <1>5 DEF NotifiedIsComplete
<1>15. /\ next \in {"doc", "publish"} /\ done => j \in images'
       /\ next = "publish" /\ done => j \in docs'
  BY <1>1, <1>5, <1>7
<1>16. ASSUME NEW a, a = worker[w].at, NEW k, k = j PROVE Sound(worker[w])'
  <2>1. a \in DOMAIN log' /\ log'[a].job = k /\ worker'[w].at = a
    BY <1>16, <1>1, <1>3, <1>9
  <2>2. next \in {"image", "doc", "publish", "ack"}
    BY <1>1, <1>7
  <2> QED
    BY <2>1, <2>2, <1>5, <1>9, <1>11, <1>15, <1>16 DEF Sound
<1> QED
  BY <1>1, <1>2, <1>10, <1>11, <1>12, <1>13, <1>14, <1>16, SameLog, SameWaits, StepOfWorker

LEMMA CountersAfter ==
    ASSUME TypeOK, NEW w \in Workers
    PROVE  StreakAfter(w) \in 0..Burst /\ PassedAfter(w) \in Nat
<1>1. worker[w].streak \in 0..Burst
  BY WorkerFields DEF WorkerStates
<1>2. passed[w] \in Nat
  BY DEF TypeOK
<1>3. StreakAfter(w) \in 0..Burst
  BY <1>1, WorkerStreamsAssumption DEF StreakAfter
<1>4. PassedAfter(w) \in Nat
  BY <1>2 DEF PassedAfter
<1> QED
  BY <1>3, <1>4

(* An acknowledged job has a result, or a later copy that waits.           *)
LEMMA AcknowledgeInv == ASSUME Inv, NEW w \in Workers, Acknowledge(w) PROVE Inv'
<1> DEFINE at == worker[w].at
           next == Resting(worker[w].batch, StreakAfter(w))
<1>1. /\ worker[w].pc \in {"ack", "deferAck"} /\ SetStatus({at}, "acked")
      /\ worker' = [worker EXCEPT ![w] = next]
      /\ passed' = [passed EXCEPT ![w] = PassedAfter(w)]
      /\ UNCHANGED <<marker, result, images, docs, notified, faults, newest, expired, trimmed>>
  BY DEF Acknowledge, stored
<1>2. TypeOK /\ Sound(worker[w]) /\ NotifiedIsComplete
  BY DEF Inv
<1>3. /\ passed' \in [Workers -> Nat] /\ faults' \in Nat /\ result' \in [Jobs -> Outcomes]
      /\ images' \subseteq Jobs /\ docs' \subseteq Jobs /\ notified' \subseteq Jobs
      /\ newest <= newest'
  BY <1>1, <1>2, CountersAfter DEF TypeOK
<1>4. Grows /\ NotifiedIsComplete'
  BY <1>1, <1>2, <1>3 DEF Grows, NotifiedIsComplete
<1>5. worker[w] \in WorkerStates(Len(log)) /\ DOMAIN worker = Workers /\ Len(log) \in Nat
  BY <1>2, WorkerFields DEF TypeOK
<1>6. /\ next \in WorkerStates(Len(log)) /\ next.batch = worker[w].batch
      /\ next.pc = IF worker[w].batch = {} THEN "idle" ELSE "batch"
  <2>1. worker[w].batch \in SUBSET (1..Len(log)) /\ StreakAfter(w) \in 0..Burst
    BY <1>2, <1>5, CountersAfter DEF WorkerStates
  <2> QED
    BY <2>1, <1>5 DEF WorkerStates, Outcomes, Resting
<1> HIDE DEF next
<1>7. at \in DOMAIN log
  BY <1>1, <1>2 DEF Sound, Steps
<1>8. /\ Relabels
      /\ \A k \in DOMAIN log : log'[k].status = IF k \in {at} THEN "acked" ELSE log[k].status
  BY <1>1, <1>2, MarkEntries DEF Statuses
<1>9. WaitsOn
  <2>1. ASSUME NEW j \in Jobs, NEW k \in DOMAIN log, k # at, Waits(k, j)
        PROVE  k \in DOMAIN log' /\ Waits(k, j)'
    BY <2>1, <1>8 DEF Waits, Relabels
  <2>2. ASSUME NEW j \in Jobs, Waits(at, j)
        PROVE  Settled(j)' \/ \E k \in DOMAIN log : k > at /\ Waits(k, j)
    <3>1. log[at].job = j
      BY <2>2 DEF Waits
    <3>2. Settled(j) => Settled(j)'
      BY <1>4, StaysSettled
    <3> QED
      BY <3>1, <3>2, <1>1, <1>2 DEF Sound, Settled
  <2>3. ASSUME NEW j \in Jobs, NEW i \in DOMAIN log, Waits(i, j)
        PROVE  Settled(j)' \/ \E k \in DOMAIN log' : k >= i /\ Waits(k, j)'
    <3>1. i \in Int /\ at \in Int /\ \A k \in DOMAIN log : k \in Int
      BY <1>2, <1>7, EntryFields
    <3>2. CASE i # at
      BY <3>1, <3>2, <2>1, <2>3
    <3>3. CASE i = at
      <4>1. CASE Settled(j)'
        BY <4>1
      <4>2. CASE \E k \in DOMAIN log : k > at /\ Waits(k, j)
        <5>1. PICK k \in DOMAIN log : k > at /\ Waits(k, j)
          BY <4>2
        <5>2. k >= i /\ k # at
          BY <5>1, <3>1, <3>3
        <5> QED
          BY <5>1, <5>2, <2>1
      <4> QED
        BY <4>1, <4>2, <3>3, <2>2, <2>3
    <3> QED
      BY <3>2, <3>3
  <2> QED
    BY <2>3 DEF WaitsOn
<1>10. worker'[w] = next
  BY <1>1, <1>5
<1>11. Rewrites(w) /\ worker' = [v \in Workers |-> worker'[v]]
  BY <1>1, <1>5, <1>6, <1>8, <1>10 DEF Rewrites, Relabels
<1>12. Sound(worker[w])'
  BY <1>6, <1>10 DEF Sound, Steps
<1> QED
  BY <1>1, <1>3, <1>4, <1>8, <1>9, <1>11, <1>12, StepOfWorker

LEMMA WorkerStopsInv == ASSUME Inv, NEW w \in Workers, WorkerStops(w) PROVE Inv'
<1>1. PICK s \in {0, worker[w].streak} :
          /\ worker' = [worker EXCEPT ![w] = Resting({}, s)]
          /\ passed' = [passed EXCEPT ![w] = IF s = 0 THEN 0 ELSE @]
  BY DEF WorkerStops
<1>2. /\ log' = log /\ faults' = faults + 1
      /\ UNCHANGED <<marker, result, images, docs, notified, newest, expired, trimmed>>
  BY DEF WorkerStops, OneFault, stored
<1>3. TypeOK
  BY DEF Inv
<1>4. passed' \in [Workers -> Nat] /\ faults' \in Nat
  BY <1>1, <1>2, <1>3 DEF TypeOK
<1>5. worker[w] \in WorkerStates(Len(log)) /\ DOMAIN worker = Workers /\ Len(log) \in Nat
  BY <1>3, WorkerFields DEF TypeOK
<1>6. s \in 0..Burst
  BY <1>5, WorkerStreamsAssumption DEF WorkerStates
<1>7. worker'[w] = Resting({}, s)
  BY <1>1, <1>5
<1>8. worker'[w] \in WorkerStates(Len(log)) /\ worker'[w].pc = "idle"
  <2>1. {} \in SUBSET (1..Len(log))
    OBVIOUS
  <2> QED
    BY <2>1, <1>5, <1>6, <1>7 DEF WorkerStates, Outcomes, Resting
<1>9. Rewrites(w) /\ worker' = [v \in Workers |-> worker'[v]]
  BY <1>1, <1>2, <1>5, <1>8 DEF Rewrites
<1>10. Sound(worker[w])'
  BY <1>8 DEF Sound, Steps
<1> QED
  BY <1>2, <1>4, <1>9, <1>10, MovesOn

LEMMA ConsumeInv == ASSUME Inv, NEW w \in Workers, Consume(w) PROVE Inv'
BY PollFirstInv, PollSecondInv, NextClaimedInv, ClaimPendingInv, ExamineInv, DeferAddInv,
   ProcessJobInv, StoreResultInv, AcknowledgeInv DEF Consume

LEMMA StepInv == Inv /\ [Next]_vars => Inv'
<1> SUFFICES ASSUME Inv, [Next]_vars PROVE Inv'
  OBVIOUS
<1>1. CASE \E j \in Jobs, s \in Streams, p \in 0..MaxPage : Submit(j, s, p)
  BY <1>1, SubmitInv
<1>2. CASE \E p \in 0..MaxPage : ViewCachedPage(p)
  BY <1>2, ViewCachedPageInv
<1>3. CASE \E w \in Workers : Consume(w) \/ WorkerStops(w)
  BY <1>3, ConsumeInv, WorkerStopsInv
<1>4. CASE \E i \in DOMAIN log : GrowIdle(i) \/ Trim(i)
  BY <1>4, GrowIdleInv, TrimInv
<1>5. CASE MarkerExpires
  BY <1>5, MarkerExpiresInv
<1>6. CASE UNCHANGED vars
  <2>1. UNCHANGED <<log, marker, worker, result, images, docs, notified, faults,
                    newest, expired, trimmed, passed>>
    BY <1>6 DEF vars, stored, history
  <2>2. TypeOK /\ Pages
    BY DEF Inv
  <2>3. /\ marker' \in 0..MaxPage /\ newest' \in 0..MaxPage /\ newest <= newest'
        /\ marker' <= newest' /\ (~expired' => marker' = newest') /\ faults' \in Nat
        /\ expired' \in BOOLEAN
    BY <2>1, <2>2, WorkerStreamsAssumption DEF TypeOK, Pages
  <2> QED
    BY <2>1, <2>2, <2>3, SameLog, SameWaits, QuietStep
<1> QED
  BY <1>1, <1>2, <1>3, <1>4, <1>5, <1>6 DEF Next

LEMMA Invariance == Spec => []Inv
BY InitInv, StepInv, PTL DEF Spec

-----------------------------------------------------------------------------
(* The state keeps its shape: in particular a worker that holds a batch or *)
(* an entry holds entries of the log.                                      *)
THEOREM TypeCorrect == Spec => []TypeOK
<1>1. Inv => TypeOK
  BY DEF Inv
<1> QED
  BY <1>1, Invariance, PTL

(* At-least-once, for any number of workers, crashes and deferrals: a      *)
(* submitted job has a result or an entry that can still be read or        *)
(* claimed, unless the stream was trimmed (_claim_pending, _tick).         *)
THEOREM NoJobIsLost == Spec => []JobNeverLost
<1>1. Inv => JobNeverLost
  BY DEF Inv
<1> QED
  BY <1>1, Invariance, PTL

(* A completed job is announced only when its image and its metadata are   *)
(* stored, however many workers process it (_store_result).                *)
THEOREM AnnouncedIsStored == Spec => []NotifiedIsComplete
<1>1. Inv => NotifiedIsComplete
  BY DEF Inv
<1> QED
  BY <1>1, Invariance, PTL

(* While the marker lives the page on the screen is never demoted, for any *)
(* number of pages and however late older requests arrive                  *)
(* (_defer_stale_interactive_job, latestMarkerUpdateLua).                  *)
THEOREM NewestStays == Spec => []NewestNeverDeferred
<1>1. Inv => NewestNeverDeferred
  <2> SUFFICES ASSUME Inv, NEW w \in Workers, worker[w].pc = "deferAdd", ~expired
               PROVE  Mine(w).page < newest
    BY DEF NewestNeverDeferred
  <2> QED
    BY DEF Inv, Sound, Mine
<1> QED
  BY <1>1, Invariance, PTL

-----------------------------------------------------------------------------
(* The burst.  A worker that has used its burst up looks at the low stream *)
(* first, so a high job it reads then is read while nothing low waits.     *)
InHand(q) == q.pc = "second" \/ (q.pc \in Steps /\ ~q.claimed)

Paced(q, n) ==
    /\ n <= q.streak
    /\ InHand(q) /\ q.streak >= Burst => n = 0

AllPaced == \A w \in Workers : Paced(worker[w], passed[w])

LEMMA Counters ==
    ASSUME TypeOK, NEW w \in Workers
    PROVE  /\ worker[w].streak \in 0..Burst /\ passed[w] \in Nat
           /\ worker[w] \in WorkerStates(Len(log)) /\ DOMAIN worker = Workers /\ DOMAIN passed = Workers
BY WorkerFields DEF WorkerStates, TypeOK

LEMMA PacedAlone ==
    ASSUME AllPaced, NEW w \in Workers, Paced(worker'[w], passed'[w]),
           \A v \in Workers : v # w => worker'[v] = worker[v] /\ passed'[v] = passed[v]
    PROVE  AllPaced'
<1>1. ASSUME NEW v \in Workers, NEW q, NEW n, q = worker'[v], n = passed'[v] PROVE Paced(q, n)
  BY <1>1 DEF AllPaced
<1> QED
  BY <1>1 DEF AllPaced, Paced, InHand

LEMMA ReadKeepsStreak ==
    ASSUME TypeOK, NEW w \in Workers, NEW s, Read(w, s)
    PROVE  /\ \A v \in Workers : v # w => worker'[v] = worker[v]
           /\ worker'[w].streak = worker[w].streak
<1>1. PICK i \in With(s, {"new"}) :
          worker' = [worker EXCEPT ![w].pc = "got", ![w].at = i, ![w].claimed = FALSE]
  BY DEF Read
<1>2. worker[w] \in WorkerStates(Len(log)) /\ DOMAIN worker = Workers
  BY Counters
<1>3. worker'[w] = [worker[w] EXCEPT !.pc = "got", !.at = i, !.claimed = FALSE]
  BY <1>1, <1>2
<1> QED
  BY <1>1, <1>2, <1>3 DEF WorkerStates

LEMMA MoveKeepsStreak ==
    ASSUME TypeOK, NEW w \in Workers, NEW pc, worker' = [worker EXCEPT ![w].pc = pc]
    PROVE  /\ \A v \in Workers : v # w => worker'[v] = worker[v]
           /\ worker'[w].streak = worker[w].streak /\ worker'[w].claimed = worker[w].claimed
           /\ worker'[w].pc = pc
BY Counters DEF WorkerStates

LEMMA PollFirstPaced ==
    ASSUME TypeOK, AllPaced, NEW w \in Workers, PollFirst(w) PROVE AllPaced'
<1>1. /\ \A v \in Workers : v # w => worker'[v] = worker[v]
      /\ worker'[w].streak = worker[w].streak
  BY ReadKeepsStreak, MoveKeepsStreak DEF PollFirst
<1>2. passed' = IF Preferred(w) = "low" THEN [passed EXCEPT ![w] = 0] ELSE passed
  BY DEF PollFirst
<1>3. \A v \in Workers : v # w => passed'[v] = passed[v]
  BY <1>2
<1>4. worker[w].streak \in 0..Burst /\ passed[w] \in Nat /\ DOMAIN passed = Workers
  BY Counters
<1>5. CASE worker[w].streak >= Burst
  <2>1. passed'[w] = 0
    BY <1>2, <1>4, <1>5 DEF Preferred
  <2> QED
    BY <1>1, <1>3, <1>4, <2>1, PacedAlone DEF Paced
<1>6. CASE ~(worker[w].streak >= Burst)
  <2>1. passed'[w] = passed[w]
    BY <1>2, <1>6 DEF Preferred
  <2> QED
    BY <1>1, <1>3, <1>6, <2>1, PacedAlone DEF AllPaced, Paced
<1> QED
  BY <1>5, <1>6

LEMMA PollSecondPaced ==
    ASSUME TypeOK, AllPaced, NEW w \in Workers, PollSecond(w) PROVE AllPaced'
<1>1. /\ \A v \in Workers : v # w => worker'[v] = worker[v]
      /\ worker'[w].streak = worker[w].streak
  BY ReadKeepsStreak, MoveKeepsStreak DEF PollSecond
<1>2. passed' = passed /\ InHand(worker[w])
  BY DEF PollSecond, history, InHand
<1> QED
  BY <1>1, <1>2, PacedAlone DEF AllPaced, Paced

LEMMA ClaimKeepsStreak ==
    ASSUME TypeOK, NEW w \in Workers, NEW S, NEW pc,
           worker' = [worker EXCEPT ![w].pc = pc, ![w].batch = S]
    PROVE  /\ \A v \in Workers : v # w => worker'[v] = worker[v]
           /\ worker'[w].streak = worker[w].streak /\ worker'[w].pc = pc
BY Counters DEF WorkerStates

LEMMA TakeKeepsStreak ==
    ASSUME TypeOK, NEW w \in Workers, NEW S, NEW i,
           worker' = [worker EXCEPT ![w].batch = S, ![w].pc = "got",
                                    ![w].at = i, ![w].claimed = TRUE]
    PROVE  /\ \A v \in Workers : v # w => worker'[v] = worker[v]
           /\ worker'[w].streak = worker[w].streak
           /\ worker'[w].pc = "got" /\ worker'[w].claimed
<1>1. worker[w] \in WorkerStates(Len(log)) /\ DOMAIN worker = Workers
  BY Counters
<1>2. worker'[w] = [worker[w] EXCEPT !.batch = S, !.pc = "got", !.at = i, !.claimed = TRUE]
  BY <1>1
<1>3. worker'[w].claimed = TRUE
  BY <1>1, <1>2, Zenon DEF WorkerStates
<1> QED
  BY <1>1, <1>2, <1>3 DEF WorkerStates

LEMMA BatchPaced ==
    ASSUME TypeOK, AllPaced, NEW w \in Workers,
           NextClaimed(w) \/ \E s \in Streams : ClaimPending(w, s)
    PROVE  AllPaced'
<1>1. /\ \A v \in Workers : v # w => worker'[v] = worker[v]
      /\ worker'[w].streak = worker[w].streak
      /\ ~InHand(worker'[w])
  <2>1. CASE NextClaimed(w)
    <3>1. PICK i \in worker[w].batch :
            LET rest == worker[w].batch \ {i} IN
            IF log[i].empty
            THEN worker' = [worker EXCEPT ![w].batch = rest,
                                ![w].pc = IF rest = {} THEN "idle" ELSE "batch"]
            ELSE worker' = [worker EXCEPT ![w].batch = rest, ![w].pc = "got",
                                ![w].at = i, ![w].claimed = TRUE]
      BY <2>1 DEF NextClaimed
    <3> DEFINE rest == worker[w].batch \ {i}
    <3>2. CASE log[i].empty
      <4>1. PICK pc \in {"idle", "batch"} :
              worker' = [worker EXCEPT ![w].batch = rest, ![w].pc = pc]
        BY <3>1, <3>2
      <4> HIDE DEF rest
      <4>2. worker' = [worker EXCEPT ![w].pc = pc, ![w].batch = rest]
        BY <4>1, Counters DEF WorkerStates
      <4> QED
        BY <4>2, ClaimKeepsStreak DEF InHand, Steps
    <3>3. CASE ~log[i].empty
      <4>1. worker' = [worker EXCEPT ![w].batch = rest, ![w].pc = "got",
                                ![w].at = i, ![w].claimed = TRUE]
        BY <3>1, <3>3
      <4> HIDE DEF rest
      <4> QED
        BY <4>1, TakeKeepsStreak DEF InHand
    <3> QED
      BY <3>2, <3>3
  <2>2. ASSUME NEW s \in Streams, ClaimPending(w, s) PROVE <1>1!:
    <3>1. worker' = [worker EXCEPT ![w].pc = "batch", ![w].batch = Claimable(s)]
      BY <2>2 DEF ClaimPending
    <3> DEFINE S == Claimable(s)
    <3> HIDE DEF S
    <3>2. worker' = [worker EXCEPT ![w].pc = "batch", ![w].batch = S]
      BY <3>1 DEF S
    <3>3. /\ \A v \in Workers : v # w => worker'[v] = worker[v]
          /\ worker'[w].streak = worker[w].streak /\ worker'[w].pc = "batch"
      BY <3>2, Counters DEF WorkerStates
    <3> QED
      BY <3>3 DEF InHand, Steps
  <2> QED
    BY <2>1, <2>2
<1>2. passed' = passed
  BY DEF NextClaimed, ClaimPending, history
<1> QED
  BY <1>1, <1>2, PacedAlone DEF AllPaced, Paced

LEMMA MessagePaced ==
    ASSUME TypeOK, AllPaced, NEW w \in Workers,
           Examine(w) \/ DeferAdd(w) \/ ProcessJob(w) \/ StoreResult(w)
    PROVE  AllPaced'
<1>1. passed' = passed /\ worker[w].pc \in Steps
  BY DEF Examine, DeferAdd, ProcessJob, StoreResult, history, Steps, After
<1>2. /\ \A v \in Workers : v # w => worker'[v] = worker[v]
      /\ worker'[w].streak = worker[w].streak /\ worker'[w].claimed = worker[w].claimed
      /\ worker'[w].pc # "second"
  <2>1. CASE Examine(w) \/ ProcessJob(w)
    BY <2>1, Counters DEF Examine, ProcessJob, WorkerStates
  <2>2. CASE DeferAdd(w)
    BY <2>2, MoveKeepsStreak DEF DeferAdd
  <2>3. CASE StoreResult(w)
    <3>1. /\ worker[w].pc \in {"meta", "image", "doc", "publish"}
          /\ worker' = [worker EXCEPT ![w].pc = After[worker[w].pc]]
      BY <2>3 DEF StoreResult, After
    <3>2. After[worker[w].pc] # "second"
      BY <3>1 DEF After
    <3> QED
      BY <3>1, <3>2, MoveKeepsStreak
  <2> QED
    BY <2>1, <2>2, <2>3
<1>3. InHand(worker'[w]) => InHand(worker[w])
  BY <1>1, <1>2 DEF InHand
<1> QED
  BY <1>1, <1>2, <1>3, PacedAlone DEF AllPaced, Paced

LEMMA AcknowledgePaced ==
    ASSUME TypeOK, AllPaced, NEW w \in Workers, Acknowledge(w) PROVE AllPaced'
<1>1. /\ worker[w].pc \in {"ack", "deferAck"}
      /\ worker' = [worker EXCEPT ![w] = Resting(worker[w].batch, StreakAfter(w))]
      /\ passed' = [passed EXCEPT ![w] = PassedAfter(w)]
  BY DEF Acknowledge
<1>2. /\ worker[w].streak \in 0..Burst /\ passed[w] \in Nat
      /\ DOMAIN worker = Workers /\ DOMAIN passed = Workers
  BY Counters
<1>3. /\ \A v \in Workers : v # w => worker'[v] = worker[v] /\ passed'[v] = passed[v]
      /\ worker'[w] = Resting(worker[w].batch, StreakAfter(w)) /\ passed'[w] = PassedAfter(w)
  BY <1>1, <1>2
<1>4. worker'[w].streak = StreakAfter(w) /\ ~InHand(worker'[w])
  BY <1>3 DEF Resting, InHand, Steps
<1>5. PassedAfter(w) <= StreakAfter(w)
  <2>1. passed[w] <= worker[w].streak
    BY DEF AllPaced, Paced
  <2>2. CASE ReadFromLow(w)
    BY <2>2 DEF PassedAfter, StreakAfter
  <2>3. CASE ~ReadFromLow(w) /\ CountsAsHigh(w)
    <3>1. worker[w].streak >= Burst => passed[w] = 0
      BY <2>3, <1>1 DEF AllPaced, Paced, InHand, CountsAsHigh, Steps
    <3> QED
      BY <2>1, <2>3, <3>1, <1>2, WorkerStreamsAssumption DEF PassedAfter, StreakAfter
  <2>4. CASE ~ReadFromLow(w) /\ ~CountsAsHigh(w)
    BY <2>1, <2>4, <1>2 DEF PassedAfter, StreakAfter
  <2> QED
    BY <2>2, <2>3, <2>4
<1> QED
  BY <1>3, <1>4, <1>5, PacedAlone DEF Paced

LEMMA WorkerStopsPaced ==
    ASSUME TypeOK, AllPaced, NEW w \in Workers, WorkerStops(w) PROVE AllPaced'
<1>1. PICK s \in {0, worker[w].streak} :
          /\ worker' = [worker EXCEPT ![w] = Resting({}, s)]
          /\ passed' = [passed EXCEPT ![w] = IF s = 0 THEN 0 ELSE @]
  BY DEF WorkerStops
<1>2. /\ worker[w].streak \in 0..Burst /\ passed[w] \in Nat
      /\ DOMAIN worker = Workers /\ DOMAIN passed = Workers
  BY Counters
<1>3. /\ \A v \in Workers : v # w => worker'[v] = worker[v] /\ passed'[v] = passed[v]
      /\ worker'[w] = Resting({}, s) /\ passed'[w] = IF s = 0 THEN 0 ELSE passed[w]
  BY <1>1, <1>2
<1>4. worker'[w].streak = s /\ ~InHand(worker'[w])
  BY <1>3 DEF Resting, InHand, Steps
<1> QED
  BY <1>2, <1>3, <1>4, PacedAlone DEF AllPaced, Paced

LEMMA AllPacedStep == Inv /\ AllPaced /\ [Next]_vars => AllPaced'
<1> SUFFICES ASSUME Inv, AllPaced, [Next]_vars PROVE AllPaced'
  OBVIOUS
<1>1. TypeOK
  BY DEF Inv
<1>2. CASE UNCHANGED <<worker, passed>>
  BY <1>2 DEF AllPaced
<1>3. ASSUME NEW w \in Workers, Consume(w) PROVE AllPaced'
  BY <1>1, <1>3, PollFirstPaced, PollSecondPaced, BatchPaced, MessagePaced, AcknowledgePaced
     DEF Consume
<1>4. ASSUME NEW w \in Workers, WorkerStops(w) PROVE AllPaced'
  BY <1>1, <1>4, WorkerStopsPaced
<1>5. (\E w \in Workers : Consume(w) \/ WorkerStops(w)) \/ UNCHANGED <<worker, passed>>
  BY DEF Next, Submit, ViewCachedPage, GrowIdle, Trim, MarkerExpires, vars, history
<1> QED
  BY <1>2, <1>3, <1>4, <1>5

(* The low stream is never starved: whatever is submitted, deferred,       *)
(* claimed or interrupted, a worker processes at most a burst of high jobs *)
(* while low jobs wait (high_burst_before_low, _tick).                     *)
THEOREM LowIsServed == Spec => []BurstYieldsToLow
<1>1. Init => AllPaced
  <2> SUFFICES ASSUME Init, NEW w \in Workers PROVE Paced(worker[w], passed[w])
    BY DEF AllPaced
  <2>1. worker[w] = Resting({}, 0) /\ passed[w] = 0
    BY DEF Init
  <2> QED
    BY <2>1 DEF Resting, Paced
<1>2. Inv /\ AllPaced => BurstYieldsToLow
  <2> SUFFICES ASSUME Inv, AllPaced, NEW w \in Workers PROVE passed[w] <= Burst
    BY DEF BurstYieldsToLow
  <2>1. worker[w].streak \in 0..Burst /\ passed[w] \in Nat /\ passed[w] <= worker[w].streak
    BY Counters DEF Inv, AllPaced, Paced
  <2> QED
    BY <2>1, WorkerStreamsAssumption
<1> QED
  BY <1>1, <1>2, InitInv, StepInv, AllPacedStep, PTL DEF Spec

=============================================================================
