----------------------------- MODULE ExtensionJobs -----------------------------
(***************************************************************************)
(* How a reader's tab learns what became of its page: the record the         *)
(* extension's service worker keeps in chrome.storage for a submitted job,   *)
(* the poll loop, the socket with its Redis subscriber (websocket.go,        *)
(* StartRedisSubscriber), and their handlers, which load the whole storage   *)
(* object, await, and write their copy back.  A record is one submitted page *)
(* of one tab; pages with the same image share a job.                        *)
(*                                                                         *)
(* Left out: progress events, the reconnection delays, the image cache of    *)
(* the extension, and records that name no tab.                              *)
(***************************************************************************)
EXTENDS Integers, FiniteSets

CONSTANTS
    Records,
    Jobs,
    JobOf,        \* JobOf[r]: the job of record r
    Handlers,     \* bound: handlers that run at one time
    NoRecord,
    MaxRestarts   \* bound: terminations of the service worker

ASSUME ExtensionAssumption ==
    JobOf \in [Records -> Jobs] /\ NoRecord \notin Records /\ MaxRestarts \in Nat

VARIABLES
    server,       \* server[j]: what the API says of job j
    channel,      \* the jobs the API forwards to the socket
    notices,      \* notifications on their way to the service worker
    stored,       \* activeJobs: the records in chrome.storage
    running,      \* running[h]: a handler between two awaits
    old,          \* the records that are older than jobTimeoutMs
    restarts,
    queued,       \* history: the records that were stored
    told,         \* history: the records whose tab was sent a message
    lost          \* history: records that went without a message: overwritten,
                  \* or removed by a handler that was killed

api     == <<server, channel, notices>>
history == <<queued, told, lost>>
vars    == <<api, stored, running, old, restarts, history>>

Ends == {"completed", "failed"}

(* at: "idle", "queue" (between load and save), "poll", "download" and        *)
(* "finalize" (the image is being fetched), "save", "drop" (it is about to    *)
(* write), "tell"; jobs: its copy of the storage; todo: what is left to poll. *)
Idle == [at |-> "idle", jobs |-> {}, todo |-> {}, record |-> NoRecord, changed |-> FALSE]

ExtensionInit ==
    /\ server = [j \in Jobs |-> "running"]
    /\ channel = {} /\ notices = {}
    /\ stored = {} /\ running = [h \in Handlers |-> Idle]
    /\ old = {} /\ restarts = 0
    /\ queued = {} /\ told = {} /\ lost = {}

(* The keys of the storage object have one order, whichever.                  *)
First(jobs) == CHOOSE r \in jobs : TRUE

Becomes(h, state) == running' = [running EXCEPT ![h] = state]

(* notifyTab *)
Tell(r) == told' = told \cup {r}

(* saveActiveJobs: the handler's copy replaces what is stored.  A record that *)
(* was stored since goes without a message.                                  *)
Save(h, jobs, added) ==
    /\ stored' = jobs
    /\ queued' = queued \cup added
    /\ lost' = lost \cup ((stored \ jobs) \ (told \cup {running[h].record}))

-----------------------------------------------------------------------------
(* The API: a job ends and its notification goes to the socket if it is      *)
(* subscribed and its channel has room.                                      *)

JobEnds(j) ==
    /\ server[j] = "running"
    /\ \E end \in Ends :
        /\ server' = [server EXCEPT ![j] = end]
        /\ \/ j \in channel /\ notices' = notices \cup {<<j, end>>}
           \/ UNCHANGED notices
    /\ UNCHANGED <<channel, stored, running, old, restarts, history>>

(* A subscription arrives some time after the socket has opened               *)
(* (ensureWebSocket, subscribeAllActiveJobs) or the record was stored.       *)
Subscribes ==
    /\ \E r \in stored : JobOf[r] \notin channel /\ channel' = channel \cup {JobOf[r]}
    /\ UNCHANGED <<server, notices, stored, running, old, restarts, history>>

(* The network, the API's deadlines, or closeWebSocket without active jobs.   *)
SocketClosed == channel' = {} /\ notices' = {}

SocketCloses ==
    /\ (channel # {} \/ notices # {}) /\ SocketClosed
    /\ UNCHANGED <<server, stored, running, old, restarts, history>>

-----------------------------------------------------------------------------
(* queueJobRecord, when the API has answered with a job.                     *)

QueueLoad(h, r) ==
    /\ running[h] = Idle /\ r \notin queued
    /\ \A g \in Handlers : running[g].at = "queue" => running[g].record # r
    /\ Becomes(h, [Idle EXCEPT !.at = "queue", !.jobs = stored, !.record = r])
    /\ UNCHANGED <<api, stored, old, restarts, history>>

QueueSave(h) ==
    /\ running[h].at = "queue"
    /\ Save(h, running[h].jobs \cup {running[h].record}, {running[h].record})
    /\ Becomes(h, Idle)
    /\ UNCHANGED <<api, old, restarts, told>>

(* The record is older than jobTimeoutMs. *)
Ages(r) ==
    /\ r \in stored \ old
    /\ old' = old \cup {r}
    /\ UNCHANGED <<api, stored, running, restarts, history>>

-----------------------------------------------------------------------------
(* pollActiveJobs, from its timer or one of its alarms.                      *)

PollLoad(h) ==
    /\ running[h] = Idle /\ stored # {}
    /\ Becomes(h, [Idle EXCEPT !.at = "poll", !.jobs = stored, !.todo = stored])
    /\ UNCHANGED <<api, stored, old, restarts, history>>

Skip(h, r) == [running[h] EXCEPT !.todo = @ \ {r}]

Drop(h, r) == [Skip(h, r) EXCEPT !.jobs = @ \ {r}, !.changed = TRUE]

(* What the API answers for the job of a record: nothing, now or, after the   *)
(* result has expired, ever.                                                 *)
AskFor(h, r) ==
    \/ server[JobOf[r]] = "failed" /\ Becomes(h, Drop(h, r)) /\ Tell(r)
    \/ /\ server[JobOf[r]] = "completed"
       /\ Becomes(h, [Skip(h, r) EXCEPT !.at = "download", !.record = r, !.changed = TRUE])
       /\ UNCHANGED told
    \/ /\ server[JobOf[r]] = "running"
       /\ Becomes(h, [Skip(h, r) EXCEPT !.changed = TRUE])
       /\ UNCHANGED told
    \/ Becomes(h, Skip(h, r)) /\ UNCHANGED told

(* Mutant: a record has no age. *)
AskForEver(h, r) == AskFor(h, r)

(* Mutant: a timeout does not count as a change of the records. *)
TimeOutUnsaved(h, r) ==
    IF r \in old THEN Becomes(h, Skip(h, r)) /\ Tell(r) ELSE AskFor(h, r)

PollRecord(h, r) ==
    IF r \in old THEN Becomes(h, Drop(h, r)) /\ Tell(r) ELSE AskFor(h, r)

Poll(h) ==
    /\ running[h].at = "poll" /\ running[h].todo # {}
    /\ PollRecord(h, First(running[h].todo))
    /\ UNCHANGED <<api, stored, old, restarts, queued, lost>>

(* finalizeJobCompletion: the record is dropped from the copy only when its   *)
(* image has come.                                                           *)
Downloaded(h, next) ==
    LET r == running[h].record IN
    /\ server[JobOf[r]] = "completed"
    /\ Becomes(h, [running[h] EXCEPT !.at = next, !.jobs = @ \ {r}, !.record = NoRecord])
    /\ Tell(r)

PollFinalize(h) ==
    /\ running[h].at = "download"
    /\ \/ Downloaded(h, "poll")
       \/ Becomes(h, [running[h] EXCEPT !.at = "poll", !.record = NoRecord]) /\ UNCHANGED told
    /\ UNCHANGED <<api, stored, old, restarts, queued, lost>>

PollSave(h) ==
    /\ running[h].at = "poll" /\ running[h].todo = {}
    /\ IF running[h].changed THEN Save(h, running[h].jobs, {}) ELSE UNCHANGED <<stored, queued, lost>>
    /\ Becomes(h, Idle)
    /\ UNCHANGED <<api, old, restarts, told>>

-----------------------------------------------------------------------------
(* handleWsMessage: one record of the job, whichever comes first.            *)

WsMessage(h) ==
    /\ running[h] = Idle
    /\ \E notice \in notices :
        LET mine == {r \in stored : JobOf[r] = notice[1]} IN
        /\ notices' = notices \ {notice}
        /\ \/ mine = {} /\ UNCHANGED running
           \/ /\ mine # {}
              /\ LET r == First(mine) IN Becomes(h,
                    IF notice[2] = "completed"
                    THEN [Idle EXCEPT !.at = "finalize", !.jobs = stored, !.record = r]
                    ELSE [Idle EXCEPT !.at = "drop", !.jobs = stored \ {r}, !.record = r])
    /\ UNCHANGED <<server, channel, stored, old, restarts, history>>

WsFinalize(h) ==
    /\ running[h].at = "finalize"
    /\ \/ Downloaded(h, "save")
       \/ Becomes(h, Idle) /\ UNCHANGED told
    /\ UNCHANGED <<api, stored, old, restarts, queued, lost>>

(* A finalized record has been told; a failed one is told after the write.    *)
WsSave(h) ==
    /\ running[h].at \in {"save", "drop"}
    /\ Save(h, running[h].jobs, {})
    /\ Becomes(h, IF running[h].at = "save" THEN Idle ELSE [running[h] EXCEPT !.at = "tell"])
    /\ UNCHANGED <<api, old, restarts, told>>

WsTell(h) ==
    /\ running[h].at = "tell"
    /\ Tell(running[h].record)
    /\ Becomes(h, Idle)
    /\ UNCHANGED <<api, stored, old, restarts, queued, lost>>

-----------------------------------------------------------------------------
(* The browser ends the service worker: handlers, timers and socket go, the   *)
(* storage and the alarms stay.                                              *)
Restart ==
    /\ restarts < MaxRestarts /\ restarts' = restarts + 1
    /\ running' = [h \in Handlers |-> Idle]
    /\ lost' = lost \cup {running[h].record : h \in {g \in Handlers : running[g].at = "tell"}}
    /\ SocketClosed
    /\ UNCHANGED <<server, stored, old, queued, told>>

Handle(h) ==
    \/ QueueSave(h) \/ Poll(h) \/ PollFinalize(h) \/ PollSave(h)
    \/ WsFinalize(h) \/ WsSave(h) \/ WsTell(h)

ExtensionNext ==
    \/ \E j \in Jobs : JobEnds(j)
    \/ Subscribes \/ SocketCloses
    \/ \E h \in Handlers :
        \/ \E r \in Records : QueueLoad(h, r)
        \/ PollLoad(h) \/ WsMessage(h) \/ Handle(h)
    \/ \E r \in Records : Ages(r)
    \/ Restart

Spec == ExtensionInit /\ [][ExtensionNext]_vars

(* A handler that runs goes on (every fetch has a timeout), the fallback      *)
(* alarm polls twice a minute, and time passes.  Nothing is assumed of the    *)
(* API, the socket or the jobs.                                              *)
FairSpec ==
    /\ Spec
    /\ \A h \in Handlers : WF_vars(Handle(h)) /\ WF_vars(PollLoad(h))
    /\ \A r \in Records : WF_vars(Ages(r))

-----------------------------------------------------------------------------
(* Properties.                                                              *)

(* A stored record is answered: whatever becomes of its job, of its           *)
(* notification (not subscribed in time, dropped, another record of the job   *)
(* served first), of the socket and of the service worker, the tab is sent a  *)
(* message.  Except when another handler wrote back a copy of the storage     *)
(* from before the record, or was killed between its write and its message.   *)
EveryRecordIsTold ==
    \A r \in Records : r \in queued ~> r \in told \cup lost

(* Records do not stay: although handlers write old copies back and bring     *)
(* finished records to life again, storage is without each record again and   *)
(* again, so nothing is polled for ever.                                     *)
RecordsDrain == \A r \in Records : []<>(r \notin stored)

=============================================================================
