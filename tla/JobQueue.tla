------------------------------- MODULE JobQueue -------------------------------
(***************************************************************************)
(* Job submission: handlers.go handleCreateJob and queue.go SubmitJob,     *)
(* with the dedup hash they share.  Requests run concurrently in the API   *)
(* and the hash, the streams and the results live in Redis, so every step  *)
(* of a request below is one Redis command.  Workers, result expiry,       *)
(* DELETE and stream trimming are the environment of the protocol.         *)
(*                                                                         *)
(* A Key is one dedup field: image hash, pipeline, language and revision.  *)
(* A job id carries its key and the time it was minted; time is counted in *)
(* minutes, and Stamps tells apart the milliseconds inside a minute (two   *)
(* submissions may share one).  Kindle high-priority pages, forced pages   *)
(* and rerenders skip deduplication (forceNew): all are "forced" here.     *)
(***************************************************************************)
EXTENDS Integers, FiniteSets

CONSTANTS
    Keys, Requests, Stamps,
    NoJob,
    CompletedStale,   \* completedDedupStaleThreshold, in minutes
    QueuedStale,      \* queuedDedupStaleThreshold, in minutes
    DedupTTL,         \* dedupTTL, in minutes
    MaxNow,           \* bound: the clock
    MaxSubmits,       \* bound: submissions
    MaxFaults         \* bound: failed commands, API crashes, trimmed entries

Ids == [key: Keys, at: 0..MaxNow, n: Stamps]

ASSUME JobQueueAssumption ==
    /\ NoJob \notin Ids
    /\ CompletedStale \in Nat /\ QueuedStale \in Nat /\ DedupTTL \in Nat
    /\ CompletedStale <= QueuedStale /\ QueuedStale < DedupTTL
    /\ MaxNow \in Nat /\ MaxSubmits \in Nat /\ MaxFaults \in Nat

VARIABLES
    dedup,      \* dedup[k]: the job id in frank:dedup, or NoJob
    deadline,   \* when the TTL of the whole hash runs out, or Never
    stream,     \* ids whose entry waits in a stream or is being processed
    results,    \* results[id]: what frank:results:<id> says
    cached,     \* keys the page cache serves
    req,        \* req[r]: a request being handled
    answer,     \* answer[r]: the last reply of r
    now, submits, faults,
    enqueued,   \* history: ids that were ever added to a stream
    spoiled     \* history: ids whose entry or result was lost to a fault or DELETE

vars == <<dedup, deadline, stream, results, cached, req, answer,
          now, submits, faults, enqueued, spoiled>>

Results == {"none", "completed", "failed"}
NoAnswer == [status |-> "none", id |-> NoJob]
Never    == -1
Answers  == {NoAnswer, [status |-> "error", id |-> NoJob]} \cup
            [status: {"queued", "completed"}, id: Ids]
Idle     == [pc |-> "idle"]
Active   == [pc: {"lookup", "discard", "reserve", "reread", "mint", "store",
                  "enqueue", "release", "result"},
             key: Keys, id: Ids \cup {NoJob}, told: Ids \cup {NoJob},
             reserved: BOOLEAN]

TypeOK ==
    /\ dedup \in [Keys -> Ids \cup {NoJob}]
    /\ deadline \in {Never} \cup Nat
    /\ stream \subseteq Ids /\ enqueued \subseteq Ids /\ spoiled \subseteq Ids
    /\ results \in [Ids -> Results]
    /\ cached \subseteq Keys
    /\ req \in [Requests -> [pc: {"idle"}] \cup Active]
    /\ answer \in [Requests -> Answers]
    /\ now \in 0..MaxNow /\ submits \in Nat /\ faults \in Nat

Init ==
    /\ dedup = [k \in Keys |-> NoJob] /\ deadline = Never
    /\ stream = {} /\ results = [i \in Ids |-> "none"] /\ cached = {}
    /\ req = [r \in Requests |-> Idle]
    /\ answer = [r \in Requests |-> NoAnswer]
    /\ now = 0 /\ submits = 0 /\ faults = 0
    /\ enqueued = {} /\ spoiled = {}

(* jobIsStale: the age of an id is read from its own timestamp.            *)
JobIsStale(id, threshold) == now - id.at > threshold

-----------------------------------------------------------------------------
(* Bookkeeping shared by the steps of a request.                           *)

Goto(r, step)   == req' = [req EXCEPT ![r].pc = step]
Reply(r, status, id) ==
    /\ req' = [req EXCEPT ![r] = Idle]
    /\ answer' = [answer EXCEPT ![r] = [status |-> status, id |-> id]]

OneFault == faults < MaxFaults /\ faults' = faults + 1
(* Removing the last field removes the hash, and its TTL with it.          *)
DedupBecomes(d) ==
    /\ dedup' = d
    /\ deadline' = IF \A k \in Keys : d[k] = NoJob THEN Never ELSE deadline

Redis    == <<dedup, deadline, stream, results, cached>>
Clock    == <<now, submits>>
History  == <<enqueued, spoiled>>

-----------------------------------------------------------------------------
(* A page is posted.  The cache answers a page it can serve at once unless *)
(* the reader forces a new run.                                            *)
Post(r, k, force) ==
    /\ req[r].pc = "idle" /\ submits < MaxSubmits
    /\ submits' = submits + 1
    /\ force \/ k \notin cached
    /\ req' = [req EXCEPT ![r] =
          [pc |-> IF force THEN "mint" ELSE "lookup", key |-> k,
           id |-> NoJob, told |-> NoJob, reserved |-> FALSE]]
    /\ answer' = [answer EXCEPT ![r] = NoAnswer]
    /\ UNCHANGED <<Redis, now, faults, History>>

(* First HGET.  An error is treated like a miss.                           *)
Lookup(r) ==
    /\ req[r].pc = "lookup"
    /\ LET old == dedup[req[r].key] IN
       \/ old = NoJob /\ Goto(r, "reserve") /\ UNCHANGED faults
       \/ /\ old # NoJob /\ JobIsStale(old, QueuedStale)
          /\ Goto(r, "discard") /\ UNCHANGED faults
       \/ /\ old # NoJob /\ ~JobIsStale(old, QueuedStale)
          /\ req' = [req EXCEPT ![r].pc = "result", ![r].told = old]
          /\ UNCHANGED faults
       \/ OneFault /\ Goto(r, "reserve")
    /\ UNCHANGED <<Redis, answer, Clock, History>>

(* HDEL of the stale entry: whatever the field holds by now.               *)
Discard(r) ==
    /\ req[r].pc = "discard"
    /\ \/ DedupBecomes([dedup EXCEPT ![req[r].key] = NoJob]) /\ UNCHANGED faults
       \/ OneFault /\ UNCHANGED <<dedup, deadline>>
    /\ Goto(r, "reserve")
    /\ UNCHANGED <<stream, results, cached, answer, Clock, History>>

ReserveOverwrites(r, n) ==
    LET k  == req[r].key
        id == [key |-> k, at |-> now, n |-> n]
    IN  /\ req[r].pc = "reserve"
        /\ dedup' = [dedup EXCEPT ![k] = id]
        /\ req' = [req EXCEPT ![r].pc = "store", ![r].id = id, ![r].reserved = TRUE]
        /\ UNCHANGED <<deadline, stream, results, cached, answer, Clock, faults, History>>

(* HSETNX.  When it fails the request ends in an error with no release,    *)
(* although the command may have been executed.                            *)
Reserve(r, n) ==
    LET k  == req[r].key
        id == [key |-> k, at |-> now, n |-> n]
    IN  /\ req[r].pc = "reserve"
        /\ \/ /\ dedup[k] = NoJob
              /\ dedup' = [dedup EXCEPT ![k] = id]
              /\ req' = [req EXCEPT ![r].pc = "store", ![r].id = id, ![r].reserved = TRUE]
              /\ UNCHANGED <<answer, faults, spoiled>>
           \/ /\ dedup[k] # NoJob
              /\ req' = [req EXCEPT ![r].pc = "reread", ![r].id = id]
              /\ UNCHANGED <<dedup, answer, faults, spoiled>>
           \/ /\ OneFault
              /\ \/ dedup[k] = NoJob /\ dedup' = [dedup EXCEPT ![k] = id]
                    /\ spoiled' = spoiled \cup {id}
                 \/ UNCHANGED <<dedup, spoiled>>
              /\ Reply(r, "error", NoJob)
        /\ UNCHANGED <<deadline, stream, results, cached, Clock, enqueued>>

(* HGET of the loser of HSETNX.  A field that is gone again is an error.   *)
RereadAnswersOwnId(r) ==
    /\ req[r].pc = "reread"
    /\ \/ dedup[req[r].key] # NoJob /\ Reply(r, "queued", req[r].id)
       \/ dedup[req[r].key] = NoJob /\ Reply(r, "error", NoJob)
    /\ UNCHANGED <<Redis, Clock, faults, History>>

RereadTrustsEmpty(r) ==
    /\ req[r].pc = "reread"
    /\ Reply(r, "queued", dedup[req[r].key])
    /\ UNCHANGED <<Redis, Clock, faults, History>>

Reread(r) ==
    /\ req[r].pc = "reread"
    /\ LET old == dedup[req[r].key] IN
       \/ /\ old # NoJob
          /\ req' = [req EXCEPT ![r].pc = "result", ![r].told = old]
          /\ UNCHANGED <<answer, faults>>
       \/ old = NoJob /\ Reply(r, "error", NoJob) /\ UNCHANGED faults
       \/ OneFault /\ Reply(r, "error", NoJob)
    /\ UNCHANGED <<Redis, Clock, History>>

(* The id of a submission that skips deduplication.                        *)
Mint(r, n) ==
    /\ req[r].pc = "mint"
    /\ req' = [req EXCEPT ![r].pc = "store", ![r].reserved = FALSE,
                 ![r].id = [key |-> req[r].key, at |-> now, n |-> n]]
    /\ UNCHANGED <<Redis, answer, Clock, faults, History>>

(* A submission fails: a reservation is released first.  The handler       *)
(* answers a failed re-enqueue with the old id.                            *)
Fail(r) ==
    IF req[r].reserved
    THEN Goto(r, "release") /\ UNCHANGED answer
    ELSE IF req[r].told # NoJob THEN Reply(r, "queued", req[r].told)
                                ELSE Reply(r, "error", NoJob)

(* EXPIRE of the whole hash, then SET of the image bytes.                  *)
Store(r) ==
    /\ req[r].pc = "store"
    /\ \/ /\ Goto(r, "enqueue") /\ UNCHANGED <<answer, faults, spoiled>>
          /\ deadline' = IF req[r].reserved THEN now + DedupTTL ELSE deadline
       \/ /\ OneFault /\ Fail(r) /\ spoiled' = spoiled \cup {req[r].id}
          /\ deadline' \in {deadline, IF req[r].reserved THEN now + DedupTTL ELSE deadline}
    /\ UNCHANGED <<dedup, stream, results, cached, Clock, enqueued>>

(* XADD.  A failed command may have been executed all the same.            *)
Enqueue(r) ==
    LET id == req[r].id IN
    /\ req[r].pc = "enqueue"
    /\ \/ /\ stream' = stream \cup {id} /\ enqueued' = enqueued \cup {id}
          /\ Reply(r, "queued", id)
          /\ UNCHANGED <<faults, spoiled>>
       \/ /\ OneFault /\ Fail(r)
          /\ \/ stream' = stream \cup {id} /\ enqueued' = enqueued \cup {id}
             \/ UNCHANGED <<stream, enqueued>>
          /\ spoiled' = spoiled \cup {id}
    /\ UNCHANGED <<dedup, deadline, results, cached, Clock>>

(* releaseDedupReservation compares before it deletes.                     *)
ReleasedBlindly(r) == [dedup EXCEPT ![req[r].key] = NoJob]

Released(r) ==
    [dedup EXCEPT ![req[r].key] = IF @ = req[r].id THEN NoJob ELSE @]

Release(r) ==
    /\ req[r].pc = "release"
    /\ \/ DedupBecomes(Released(r)) /\ UNCHANGED faults
       \/ OneFault /\ UNCHANGED <<dedup, deadline>>
    /\ Reply(r, "error", NoJob)
    /\ UNCHANGED <<stream, results, cached, Clock, History>>

(* A dedup hit: GetJobStatus decides between the finished result, a second,*)
(* forced submission, and the id of the job that is still running.         *)
CheckResult(r) ==
    /\ req[r].pc = "result"
    /\ LET old == req[r].told IN
       \/ results[old] = "completed" /\ Reply(r, "completed", old) /\ UNCHANGED faults
       \/ /\ results[old] # "completed" /\ JobIsStale(old, CompletedStale)
          /\ Goto(r, "mint") /\ UNCHANGED <<answer, faults>>
       \/ /\ results[old] # "completed" /\ ~JobIsStale(old, CompletedStale)
          /\ Reply(r, "queued", old) /\ UNCHANGED faults
       \/ /\ OneFault         \* an error reads as "no result"
          /\ IF JobIsStale(old, CompletedStale)
             THEN Goto(r, "mint") /\ UNCHANGED answer
             ELSE Reply(r, "queued", old)
    /\ UNCHANGED <<Redis, Clock, History>>

-----------------------------------------------------------------------------
(* The environment.                                                        *)

(* A worker finishes a job; a cacheable page is served from the cache.     *)
Finish(id, status, cacheable) ==
    /\ id \in stream
    /\ stream' = stream \ {id}
    /\ results' = [results EXCEPT ![id] = status]
    /\ cached' = IF status = "completed" /\ cacheable
                 THEN cached \cup {id.key} ELSE cached
    /\ UNCHANGED <<dedup, deadline, req, answer, Clock, faults, History>>

(* An accepted edit makes the cached image stale until it is rerendered.   *)
Edited(k) ==
    /\ k \in cached
    /\ cached' = cached \ {k}
    /\ UNCHANGED <<dedup, deadline, stream, results, req, answer, Clock, faults, History>>

(* MAXLEN trims an entry nobody processed.                                 *)
Trim(id) ==
    /\ id \in stream /\ OneFault
    /\ stream' = stream \ {id} /\ spoiled' = spoiled \cup {id}
    /\ UNCHANGED <<dedup, deadline, results, cached, req, answer, Clock, enqueued>>

(* DELETE, or the result TTL: the dedup entry is left alone.               *)
ForgetResult(id) ==
    /\ results[id] # "none"
    /\ results' = [results EXCEPT ![id] = "none"]
    /\ spoiled' = spoiled \cup {id}
    /\ UNCHANGED <<dedup, deadline, stream, cached, req, answer, Clock, faults, enqueued>>

Tick ==
    /\ now < MaxNow /\ now' = now + 1
    /\ UNCHANGED <<Redis, req, answer, submits, faults, History>>

(* The TTL of the hash, refreshed by every reservation, runs out.          *)
DedupExpires ==
    /\ deadline # Never /\ now >= deadline
    /\ DedupBecomes([k \in Keys |-> NoJob])
    /\ UNCHANGED <<stream, results, cached, req, answer, Clock, faults, History>>

(* The API process dies: reservations of half-done submissions stay.       *)
ApiCrash ==
    /\ OneFault
    /\ \E r \in Requests : req[r].pc # "idle"
    /\ spoiled' = spoiled \cup
          ({req[r].id : r \in {q \in Requests : req[q].pc \in {"store", "enqueue", "release"}}}
              \ enqueued)
    /\ req' = [r \in Requests |-> Idle]
    /\ UNCHANGED <<Redis, answer, Clock, enqueued>>

-----------------------------------------------------------------------------
Handle(r) ==
    \/ Lookup(r) \/ Discard(r) \/ Reread(r) \/ Store(r) \/ Enqueue(r)
    \/ Release(r) \/ CheckResult(r)
    \/ \E n \in Stamps : Reserve(r, n) \/ Mint(r, n)

Work(id) == \E s \in {"completed", "failed"}, c \in BOOLEAN : Finish(id, s, c)

Next ==
    \/ \E r \in Requests : Handle(r)
    \/ \E r \in Requests, k \in Keys, force \in BOOLEAN : Post(r, k, force)
    \/ \E id \in Ids : Work(id) \/ Trim(id) \/ ForgetResult(id)
    \/ \E k \in Keys : Edited(k)
    \/ Tick \/ DedupExpires \/ ApiCrash

Spec == Init /\ [][Next]_vars

(* A request that was accepted is handled to its end, and workers keep     *)
(* finishing jobs; posts, faults and the clock are not forced.             *)
FairSpec ==
    /\ Spec
    /\ \A r \in Requests : WF_vars(Handle(r))
    /\ \A id \in Ids : WF_vars(Work(id))

-----------------------------------------------------------------------------
InFlight(id) ==
    \E r \in Requests : req[r].pc \in {"store", "enqueue"} /\ req[r].id = id

Real(id) == id \in enqueued \/ id \in spoiled \/ InFlight(id)

(* Every id that a client or another request can be told -- the one in the *)
(* dedup hash, the one a request picked up as a hit, the one in an answer  *)
(* -- names a job that was queued, that some request is still queueing, or *)
(* that a fault spoiled.  A dedup hit never points at nothing              *)
(* (queue.go 91-127).                                                      *)
PromisedJobIsReal ==
    /\ \A k \in Keys : dedup[k] # NoJob => Real(dedup[k])
    /\ \A r \in Requests :
          /\ req[r].pc # "idle" => (req[r].told # NoJob => Real(req[r].told))
          /\ answer[r].status \in {"queued", "completed"} => Real(answer[r].id)

(* A reservation leaves the dedup hash only when its own submission        *)
(* releases it, when a request discards what it saw as stale, or when the  *)
(* whole hash expires: a failing request never drops a reservation made    *)
(* since by another (queue.go 32-37, 213-219).                             *)
ReservationRemovedByOwner ==
    [][\A k \in Keys : dedup[k] # NoJob /\ dedup'[k] # dedup[k] =>
          \/ \E r \in Requests :
                \/ req[r].pc = "release" /\ req'[r].pc = "idle" /\ req[r].id = dedup[k]
                \/ req[r].pc = "discard" /\ req'[r].pc = "reserve" /\ req[r].key = k
          \/ deadline # Never /\ now >= deadline]_vars

(* Concurrent submissions of one page reserve one job: two requests never  *)
(* both hold a fresh reservation of one key (handlers_test.go 1906-1954:   *)
(* "stream messages = %d, want 1").                                        *)
OneFreshReservation ==
    \A r, q \in Requests :
        /\ {req[r].pc, req[q].pc} \subseteq {"store", "enqueue"}
        /\ req[r].reserved /\ req[q].reserved
        /\ req[r].key = req[q].key
        /\ ~JobIsStale(req[r].id, QueuedStale) /\ ~JobIsStale(req[q].id, QueuedStale)
        => r = q

(* A client that was told "queued" eventually finds a result under that    *)
(* id, unless a fault, trimming or a deletion took the job.                *)
PromiseIsKept ==
    \A r \in Requests, id \in Ids :
        answer[r] = [status |-> "queued", id |-> id]
            ~> (results[id] # "none" \/ id \in spoiled)
=============================================================================
