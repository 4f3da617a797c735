----------------------------- MODULE WorkerStreams -----------------------------
(***************************************************************************)
(* The Redis Streams between the API and the workers: the producers'       *)
(* XADD with the latest-page marker (queue.go 187-241) and the consumer    *)
(* loop of every worker (consumer.py: _tick, _claim_pending,               *)
(* _process_message, _defer_stale_interactive_job, _store_result).  A step *)
(* is one Redis command of one worker.                                     *)
(*                                                                         *)
(* Both streams live in one log; an entry keeps its place for ever and     *)
(* changes status: "new" (never delivered), "pending" (delivered, not      *)
(* acknowledged), "idle" (pending for a minute: XAUTOCLAIM may take it),   *)
(* "acked", "gone" (trimmed before delivery).  Interactive Kindle jobs     *)
(* carry the number of their page, which is both the sequence and the      *)
(* token of one reading session; 0 means no marker.  Messages without      *)
(* job_id or pipeline, which SubmitJob cannot produce, are left out.       *)
(***************************************************************************)
EXTENDS Integers, Sequences, FiniteSets

CONSTANTS
    Jobs, Workers,
    MaxPage,     \* bound: pages of the reading session
    Burst,       \* high_burst_before_low
    ClaimCount,  \* PENDING_CLAIM_COUNT
    MaxFaults    \* bound: worker crashes, Redis errors, trims, marker expiry

ASSUME WorkerStreamsAssumption ==
    /\ MaxPage \in Nat /\ MaxFaults \in Nat
    /\ Burst \in Nat \ {0} /\ ClaimCount \in Nat \ {0}

VARIABLES
    log,        \* the entries of both streams, in the order they were added
    marker,     \* frank:latest:<group>: the latest visible page, or 0
    worker,     \* worker[w]: where its consumer loop is
    result,     \* result[j]: frank:results:<job>
    images,     \* jobs whose frank:results:img:<job> is set
    docs,       \* jobs whose metadata is in frank:meta:
    notified,   \* jobs whose completion was published
    faults,
    newest,     \* history: the highest page ever announced
    expired,    \* history: the marker ran out of its TTL
    trimmed,    \* history: jobs with a trimmed entry
    passed      \* history: passed[w]: high jobs w processed over a waiting low one

stored  == <<result, images, docs, notified>>
history == <<newest, expired, trimmed, passed>>
vars    == <<log, marker, worker, stored, faults, history>>

Streams  == {"high", "low"}
Entries  == [stream: Streams, job: Jobs, page: 0..MaxPage, empty: BOOLEAN,
             status: {"new", "pending", "idle", "acked", "gone"}]
Outcomes == {"none", "completed", "failed"}
Steps    == {"got", "deferAdd", "deferAck", "run",
             "meta", "image", "doc", "publish", "ack"}

(* Between two messages, with the rest of a claimed batch.                 *)
Resting(batch, streak) ==
    [pc |-> IF batch = {} THEN "idle" ELSE "batch", at |-> 0, claimed |-> FALSE,
     batch |-> batch, streak |-> streak, outcome |-> "none", skipped |-> FALSE]

TypeOK ==
    /\ log \in Seq(Entries)
    /\ marker \in 0..MaxPage /\ newest \in 0..MaxPage
    /\ worker \in [Workers ->
          [pc: Steps \cup {"idle", "second", "batch"}, at: 0..Len(log),
           claimed: BOOLEAN, batch: SUBSET (1..Len(log)), streak: 0..Burst,
           outcome: Outcomes, skipped: BOOLEAN]]
    /\ result \in [Jobs -> Outcomes]
    /\ images \subseteq Jobs /\ docs \subseteq Jobs /\ notified \subseteq Jobs
    /\ trimmed \subseteq Jobs
    /\ faults \in Nat /\ expired \in BOOLEAN
    /\ passed \in [Workers -> Nat]

Init ==
    /\ log = <<>> /\ marker = 0
    /\ worker = [w \in Workers |-> Resting({}, 0)]
    /\ result = [j \in Jobs |-> "none"]
    /\ images = {} /\ docs = {} /\ notified = {}
    /\ faults = 0 /\ newest = 0 /\ expired = FALSE /\ trimmed = {}
    /\ passed = [w \in Workers |-> 0]

-----------------------------------------------------------------------------
Entry(s, j, p) == [stream |-> s, job |-> j, page |-> p, empty |-> FALSE, status |-> "new"]

With(s, statuses) == {i \in DOMAIN log : log[i].stream = s /\ log[i].status \in statuses}
First(i, S) == \A k \in S : i <= k
Submitted(j) == \E i \in DOMAIN log : log[i].job = j

SetStatus(S, status) ==
    log' = [i \in DOMAIN log |-> IF i \in S THEN [log[i] EXCEPT !.status = status] ELSE log[i]]

(* latestMarkerUpdateLua: a marker never moves back while it lives.        *)
MarkerLastWriterWins(p) == IF p = 0 THEN marker ELSE p

MarkerCountsUp(p) == IF p = 0 THEN marker ELSE marker + 1

MarkerAfter(p) == IF p = 0 \/ marker > p THEN marker ELSE p

Announce(p) ==
    /\ marker' = MarkerAfter(p)
    /\ newest' = IF p > newest THEN p ELSE newest

(* A submission: the marker update and the XADD are one MULTI/EXEC.        *)
Submit(j, s, p) ==
    /\ ~Submitted(j)
    /\ s = "low" => p = 0
    /\ log' = Append(log, Entry(s, j, p))
    /\ Announce(p)
    /\ UNCHANGED <<worker, stored, faults, expired, trimmed, passed>>

(* A page answered from the cache moves the marker without queueing a job. *)
ViewCachedPage(p) ==
    /\ p # 0 /\ Announce(p)
    /\ <<marker', newest'>> # <<marker, newest>>
    /\ UNCHANGED <<log, worker, stored, faults, expired, trimmed, passed>>

-----------------------------------------------------------------------------
(* Reading.  After a burst of high jobs the low stream is asked first; the *)
(* second stream is asked only when the first had nothing.                 *)
Other(s) == IF s = "high" THEN "low" ELSE "high"

PreferredOffByOne(w) == IF worker[w].streak > Burst THEN "low" ELSE "high"

Preferred(w) == IF worker[w].streak >= Burst THEN "low" ELSE "high"

Read(w, s) ==
    LET waiting == With(s, {"new"}) IN
    \E i \in waiting :
        /\ First(i, waiting)
        /\ SetStatus({i}, "pending")
        /\ worker' = [worker EXCEPT ![w].pc = "got", ![w].at = i, ![w].claimed = FALSE]

PollFirst(w) ==
    /\ worker[w].pc = "idle"
    /\ \/ Read(w, Preferred(w))
       \/ /\ With(Preferred(w), {"new"}) = {} /\ With(Other(Preferred(w)), {"new"}) # {}
          /\ worker' = [worker EXCEPT ![w].pc = "second"]
          /\ UNCHANGED log
    /\ passed' = IF Preferred(w) = "low" THEN [passed EXCEPT ![w] = 0] ELSE passed
    /\ UNCHANGED <<marker, stored, faults, newest, expired, trimmed>>

PollSecond(w) ==
    /\ worker[w].pc = "second"
    /\ \/ Read(w, Other(Preferred(w)))
       \/ /\ With(Other(Preferred(w)), {"new"}) = {}
          /\ worker' = [worker EXCEPT ![w].pc = "idle"]
          /\ UNCHANGED log
    /\ UNCHANGED <<marker, stored, faults, history>>

(* XAUTOCLAIM: the oldest idle entries, processed one after the other.     *)
ClaimableOnlyLow(s) ==
    {i \in With("low", {"idle"}) :
        s = "low" /\ Cardinality({k \in With("low", {"idle"}) : k < i}) < ClaimCount}

Claimable(s) ==
    {i \in With(s, {"idle"}) :
        Cardinality({k \in With(s, {"idle"}) : k < i}) < ClaimCount}

ClaimPending(w, s) ==
    /\ worker[w].pc = "idle" /\ Claimable(s) # {}
    /\ SetStatus(Claimable(s), "pending")
    /\ worker' = [worker EXCEPT ![w].pc = "batch", ![w].batch = Claimable(s)]
    /\ UNCHANGED <<marker, stored, faults, history>>

NextClaimed(w) ==
    /\ worker[w].pc = "batch"
    /\ \E i \in worker[w].batch :
        /\ First(i, worker[w].batch)
        /\ LET rest == worker[w].batch \ {i} IN
           IF log[i].empty   \* the entry was trimmed from the stream: just ACK it
           THEN /\ SetStatus({i}, "acked")
                /\ worker' = [worker EXCEPT ![w].batch = rest,
                                ![w].pc = IF rest = {} THEN "idle" ELSE "batch"]
           ELSE /\ worker' = [worker EXCEPT ![w].batch = rest, ![w].pc = "got",
                                ![w].at = i, ![w].claimed = TRUE]
                /\ UNCHANGED log
    /\ UNCHANGED <<marker, stored, faults, history>>

-----------------------------------------------------------------------------
(* _process_message.                                                       *)
Mine(w) == log[worker[w].at]

(* An interactive page that is not the latest visible one any more.        *)
Stale(e) == e.stream = "high" /\ e.page # 0 /\ marker # 0 /\ marker # e.page

ExamineRejectsSilently(w) ==
    /\ worker[w].pc = "got"
    /\ \/ worker' = [worker EXCEPT ![w].pc = "ack", ![w].skipped = TRUE]
       \/ /\ Stale(Mine(w)) /\ worker' = [worker EXCEPT ![w].pc = "deferAdd"]
       \/ /\ ~Stale(Mine(w)) /\ worker' = [worker EXCEPT ![w].pc = "run"]
    /\ UNCHANGED <<log, marker, stored, faults, history>>

Examine(w) ==
    /\ worker[w].pc = "got"
    /\ \/ \* another revision, no image, no metadata: a failed result, and "skipped"
          worker' = [worker EXCEPT ![w].pc = "meta", ![w].outcome = "failed",
                       ![w].skipped = TRUE]
       \/ /\ Stale(Mine(w)) /\ worker' = [worker EXCEPT ![w].pc = "deferAdd"]
       \/ /\ ~Stale(Mine(w)) /\ worker' = [worker EXCEPT ![w].pc = "run"]
    /\ UNCHANGED <<log, marker, stored, faults, history>>

(* The same fields are added to the low stream, then the entry is acked.   *)
Deferred(w) == Append(log, Entry("low", Mine(w).job, Mine(w).page))

DeferAdd(w) ==
    /\ worker[w].pc = "deferAdd"
    /\ log' = Deferred(w)
    /\ worker' = [worker EXCEPT ![w].pc = "deferAck"]
    /\ UNCHANGED <<marker, stored, faults, history>>

(* process_job never raises: it ends in a completed or a failed result.    *)
ProcessJob(w) ==
    /\ worker[w].pc = "run"
    /\ \E o \in {"completed", "failed"} :
          worker' = [worker EXCEPT ![w].pc = "meta", ![w].outcome = o, ![w].skipped = FALSE]
    /\ UNCHANGED <<log, marker, stored, faults, history>>

(* The order in which a result becomes visible.                            *)
AfterPublishingEarly ==
    [meta |-> "publish", publish |-> "image", image |-> "doc", doc |-> "ack"]

After == [meta |-> "image", image |-> "doc", doc |-> "publish", publish |-> "ack"]

StoreResult(w) ==
    /\ worker[w].pc \in DOMAIN After
    /\ LET at == worker[w].pc  j == Mine(w).job  done == worker[w].outcome = "completed" IN
       /\ result'   = IF at = "meta" THEN [result EXCEPT ![j] = worker[w].outcome] ELSE result
       /\ images'   = IF at = "image" /\ done THEN images \cup {j} ELSE images
       /\ docs'     = IF at = "doc" /\ done THEN docs \cup {j} ELSE docs
       /\ notified' = IF at = "publish" /\ done THEN notified \cup {j} ELSE notified
       /\ worker'   = [worker EXCEPT ![w].pc = After[at]]
    /\ UNCHANGED <<log, marker, faults, history>>

(* Back to the loop, or to the rest of a claimed batch.  Only jobs read in *)
(* a tick count for the burst, and of those only processed high ones.      *)
CountsAsHigh(w) ==
    Mine(w).stream = "high" /\ worker[w].pc = "ack"
        /\ ~worker[w].skipped /\ ~worker[w].claimed

ReadFromLow(w) == Mine(w).stream = "low" /\ ~worker[w].claimed

StreakAfter(w) ==
    IF ReadFromLow(w) THEN 0
    ELSE IF CountsAsHigh(w) /\ worker[w].streak < Burst THEN worker[w].streak + 1
    ELSE worker[w].streak

PassedAfter(w) ==
    IF ReadFromLow(w) \/ With("low", {"new"}) = {} THEN 0
    ELSE IF CountsAsHigh(w) THEN passed[w] + 1
    ELSE passed[w]

Acknowledge(w) ==
    /\ worker[w].pc \in {"ack", "deferAck"}
    /\ SetStatus({worker[w].at}, "acked")
    /\ worker' = [worker EXCEPT ![w] = Resting(worker[w].batch, StreakAfter(w))]
    /\ passed' = [passed EXCEPT ![w] = PassedAfter(w)]
    /\ UNCHANGED <<marker, stored, faults, newest, expired, trimmed>>

-----------------------------------------------------------------------------
(* Time and faults.                                                        *)

(* A minute passes since the entry was delivered, whoever is working on it.*)
GrowIdle(i) ==
    /\ log[i].status = "pending"
    /\ SetStatus({i}, "idle")
    /\ UNCHANGED <<marker, worker, stored, faults, history>>

OneFault == faults < MaxFaults /\ faults' = faults + 1

(* A Redis error ends the current message (and batch), a crash the process:*)
(* either way the entry stays pending.                                     *)
WorkerStops(w) ==
    /\ worker[w].pc # "idle" /\ OneFault
    /\ \E s \in {0, worker[w].streak} :
          /\ worker' = [worker EXCEPT ![w] = Resting({}, s)]
          /\ passed' = [passed EXCEPT ![w] = IF s = 0 THEN 0 ELSE @]
    /\ UNCHANGED <<log, marker, stored, newest, expired, trimmed>>

(* XADD ... MAXLEN ~ drops the oldest entries, delivered or not.           *)
Trim(i) ==
    /\ log[i].status \in {"new", "pending", "idle"} /\ ~log[i].empty /\ OneFault
    /\ \A k \in 1..(i - 1) : log[k].stream = log[i].stream =>
          log[k].status \in {"acked", "gone"} \/ log[k].empty
    /\ log' = [log EXCEPT ![i].empty = TRUE,
                          ![i].status = IF @ = "new" THEN "gone" ELSE @]
    /\ trimmed' = trimmed \cup {log[i].job}
    /\ UNCHANGED <<marker, worker, stored, newest, expired, passed>>

MarkerExpires ==
    /\ marker # 0 /\ OneFault
    /\ marker' = 0 /\ expired' = TRUE
    /\ UNCHANGED <<log, worker, stored, newest, trimmed, passed>>

-----------------------------------------------------------------------------
Consume(w) ==
    \/ PollFirst(w) \/ PollSecond(w) \/ NextClaimed(w)
    \/ \E s \in Streams : ClaimPending(w, s)
    \/ Examine(w) \/ DeferAdd(w) \/ ProcessJob(w) \/ StoreResult(w) \/ Acknowledge(w)

Next ==
    \/ \E j \in Jobs, s \in Streams, p \in 0..MaxPage : Submit(j, s, p)
    \/ \E p \in 0..MaxPage : ViewCachedPage(p)
    \/ \E w \in Workers : Consume(w) \/ WorkerStops(w)
    \/ \E i \in DOMAIN log : GrowIdle(i) \/ Trim(i)
    \/ MarkerExpires

Spec == Init /\ [][Next]_vars

(* Workers keep running, and a minute passes for every pending entry.      *)
FairSpec ==
    /\ Spec
    /\ \A w \in Workers : WF_vars(Consume(w))
    /\ WF_vars(\E i \in DOMAIN log : GrowIdle(i))

-----------------------------------------------------------------------------
(* At-least-once: a submitted job has a result, or an entry that some      *)
(* worker can still read or claim, unless trimming took it.  Deferral to   *)
(* the low stream, batches, crashes and double delivery lose nothing       *)
(* (consumer.py 217-249, 454-456, 501-504).                                *)
JobNeverLost ==
    \A j \in Jobs : Submitted(j) /\ j \notin trimmed =>
        \/ result[j] # "none"
        \/ \E i \in DOMAIN log : log[i].job = j /\ log[i].status \in {"new", "pending", "idle"}

(* Whoever is told over Pub/Sub that a job completed finds its image and   *)
(* its metadata in Redis (consumer.py 533-564).                            *)
NotifiedIsComplete ==
    notified \subseteq images \cap docs

(* Only a page the reader has left is demoted: while the marker lives, the *)
(* job of the newest page is never moved to the low stream, however late   *)
(* older requests arrive (consumer.py 489-504, queue.go 229-241).          *)
NewestNeverDeferred ==
    \A w \in Workers :
        worker[w].pc = "deferAdd" /\ ~expired => Mine(w).page < newest

(* No starvation: between two moments at which a worker reads a low job or *)
(* finds the low stream empty, it processes at most a burst of high jobs   *)
(* while low jobs wait.  Deferred and rejected jobs are not counted by the *)
(* code, nor here (consumer.py 103-105, 191-208).                          *)
BurstYieldsToLow ==
    \A w \in Workers : passed[w] <= Burst

(* Every submitted job gets a result, unless trimming took it.             *)
EveryJobSettles ==
    \A j \in Jobs : Submitted(j) ~> (result[j] # "none" \/ j \in trimmed)
=============================================================================
