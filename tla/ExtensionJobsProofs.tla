------------------------- MODULE ExtensionJobsProofs -------------------------
(***************************************************************************)
(* What the extension keeps of its records, for any number of records, jobs *)
(* and handlers at one time, and any number of terminations of the service  *)
(* worker.                                                                  *)
(***************************************************************************)
EXTENDS ExtensionJobs, TLAPS

(* The states of a handler. *)
Handling ==
    [at : {"idle", "queue", "poll", "download", "finalize", "save", "drop", "tell"},
     jobs : SUBSET Records, todo : SUBSET Records,
     record : Records \cup {NoRecord}, changed : BOOLEAN]

ExtensionTypeOK ==
    /\ server \in [Jobs -> Ends \cup {"running"}]
    /\ channel \in SUBSET Jobs /\ notices \in SUBSET (Jobs \X Ends)
    /\ stored \in SUBSET Records /\ old \in SUBSET Records
    /\ running \in [Handlers -> Handling]
    /\ restarts \in 0..MaxRestarts
    /\ queued \in SUBSET Records /\ told \in SUBSET Records /\ lost \in SUBSET Records

(* A handler has one record at hand where it works on one and none where it  *)
(* only writes; what it polls is in its copy, and its copy holds nothing that *)
(* was never stored.                                                         *)
Sound(s) ==
    /\ s.at \in {"idle", "poll", "save"} => s.record = NoRecord
    /\ s.at \in {"queue", "download", "finalize", "drop", "tell"} => s.record \in Records
    /\ s.at \in {"download", "finalize"} => s.record \in s.jobs \ s.todo
    /\ s.todo \subseteq s.jobs

AllSound == \A h \in Handlers : Sound(running[h])

CopiesAreOld == stored \subseteq queued /\ \A h \in Handlers : running[h].jobs \subseteq queued

(* The records of handlers that removed a record and have its message to send. *)
Telling == {r \in Records : \E h \in Handlers : running[h].at = "tell" /\ running[h].record = r}

(* A record that was stored is still stored, or its tab was sent a message,  *)
(* or is about to be, or it was overwritten or removed by a handler that was *)
(* killed: nothing else takes a record out of the storage.                   *)
RecordsAreKept == queued \subseteq stored \cup told \cup lost \cup Telling

(* One handler at a time, in a service worker that is not terminated.        *)
Undisturbed == MaxRestarts = 0 /\ \A g, h \in Handlers : g = h

(* A copy of the storage lacks only what was told, or is about to be.        *)
InStep(s) ==
    /\ s.at \in {"queue", "poll", "download", "finalize", "save"} => stored \ s.jobs \subseteq told
    /\ s.at = "drop" => stored \ s.jobs \subseteq {s.record}

(* Then no record goes without a message: what is lost, is lost to another   *)
(* handler that wrote an old copy back, or to a termination.                 *)
NothingLostUndisturbed == Undisturbed => lost = {}

InStepUndisturbed == Undisturbed => \A h \in Handlers : InStep(running[h])

Inv ==
    /\ ExtensionTypeOK /\ AllSound /\ CopiesAreOld /\ RecordsAreKept
    /\ NothingLostUndisturbed /\ InStepUndisturbed

-----------------------------------------------------------------------------
(* A step of one handler.                                                   *)

(* Handler h becomes s, and the histories only grow. *)
Moves(h, s) ==
    /\ running' = [running EXCEPT ![h] = s]
    /\ queued \subseteq queued' /\ told \subseteq told' /\ lost \subseteq lost'
    /\ queued' \in SUBSET Records /\ told' \in SUBSET Records /\ lost' \in SUBSET Records

(* What it stores is accounted for. *)
Accounts(h, s) ==
    /\ stored' \subseteq queued' /\ queued' \subseteq queued \cup stored'
    /\ \A r \in stored \ stored' : r \in told' \cup lost' \/ (s.at = "tell" /\ s.record = r)
    /\ running[h].at = "tell" => running[h].record \in told'

(* What every handler but one is, and what that one has become.             *)
LEMMA OnlyOneMoves ==
    ASSUME ExtensionTypeOK, NEW h \in Handlers, NEW s, Moves(h, s)
    PROVE  running'[h] = s /\ \A g \in Handlers : g # h => running'[g] = running[g]
BY DEF Moves, ExtensionTypeOK

(* The parts of the invariant that do not depend on who else runs.          *)
LEMMA MovesKeep ==
    ASSUME Inv, NEW h \in Handlers, NEW s \in Handling, Moves(h, s), Accounts(h, s), Sound(s),
           s.jobs \subseteq queued'
    PROVE  /\ running' \in [Handlers -> Handling] /\ AllSound' /\ CopiesAreOld' /\ RecordsAreKept'
<1>1. running'[h] = s /\ \A g \in Handlers : g # h => running'[g] = running[g]
  BY OnlyOneMoves DEF Inv
<1>2. running' \in [Handlers -> Handling]
  BY DEF Moves, Inv, ExtensionTypeOK
<1>3. AllSound'
  BY <1>1 DEF Inv, AllSound, Sound
<1>4. CopiesAreOld'
  <2>1. \A g \in Handlers : running'[g].jobs \subseteq queued'
    BY <1>1 DEF Moves, Inv, CopiesAreOld
  <2> QED
    BY <2>1 DEF Accounts, CopiesAreOld
<1>5. RecordsAreKept'
  <2> SUFFICES ASSUME NEW r \in queued', r \notin stored', r \notin told', r \notin lost'
               PROVE  r \in Telling'
    BY DEF RecordsAreKept
  <2>1. r \in Records /\ r \in queued /\ r \notin told /\ r \notin lost
    BY DEF Moves, Accounts
  <2>2. CASE r \in stored
    <3>1. s.at = "tell" /\ s.record = r
      BY <2>2 DEF Accounts
    <3> QED
      BY <1>1, <2>1, <3>1 DEF Telling
  <2>3. CASE r \notin stored
    <3>1. r \in Telling
      BY <2>1, <2>3 DEF Inv, RecordsAreKept
    <3>2. PICK g \in Handlers : running[g].at = "tell" /\ running[g].record = r
      BY <3>1 DEF Telling
    <3>3. g # h
      BY <3>2 DEF Accounts
    <3> QED
      BY <1>1, <2>1, <3>2, <3>3 DEF Telling
  <2> QED
    BY <2>2, <2>3
<1> QED
  BY <1>2, <1>3, <1>4, <1>5

(* Alone, it stays in step with the storage and loses nothing. *)
InStepAfter(s) ==
    /\ s.at \in {"queue", "poll", "download", "finalize", "save"} => stored' \ s.jobs \subseteq told'
    /\ s.at = "drop" => stored' \ s.jobs \subseteq {s.record}

StaysInStep(h, s) == InStep(running[h]) => InStepAfter(s) /\ (lost = {} => lost' = {})

LEMMA AloneKeeps ==
    ASSUME Inv, NEW h \in Handlers, NEW s \in Handling, Moves(h, s), StaysInStep(h, s)
    PROVE  NothingLostUndisturbed' /\ InStepUndisturbed'
<1>1. running'[h] = s
  BY OnlyOneMoves DEF Inv
<1> SUFFICES ASSUME Undisturbed
             PROVE  lost' = {} /\ \A g \in Handlers : InStep(running[g])'
  BY DEF NothingLostUndisturbed, InStepUndisturbed, Undisturbed
<1>2. InStep(running[h]) /\ lost = {} /\ \A g \in Handlers : g = h
  BY DEF Inv, NothingLostUndisturbed, InStepUndisturbed, Undisturbed
<1>3. InStep(running[h])'
  BY <1>1, <1>2 DEF InStep, InStepAfter, StaysInStep
<1> QED
  BY <1>2, <1>3 DEF StaysInStep

(* What is not the handlers' and not the storage.                           *)
WorldTyped ==
    /\ server \in [Jobs -> Ends \cup {"running"}]
    /\ channel \in SUBSET Jobs /\ notices \in SUBSET (Jobs \X Ends)
    /\ old \in SUBSET Records /\ restarts \in 0..MaxRestarts

(* A handler's step that is all this preserves the invariant.               *)
GoodStep(h, s) ==
    /\ s \in Handling /\ Sound(s) /\ s.jobs \subseteq queued'
    /\ Moves(h, s) /\ Accounts(h, s) /\ StaysInStep(h, s)

LEMMA GoodStepKeeps ==
    ASSUME Inv, NEW h \in Handlers, NEW s, GoodStep(h, s), WorldTyped'
    PROVE  Inv'
<1>1. /\ running' \in [Handlers -> Handling] /\ AllSound' /\ CopiesAreOld' /\ RecordsAreKept'
  BY MovesKeep DEF GoodStep
<1>2. NothingLostUndisturbed' /\ InStepUndisturbed'
  BY AloneKeeps DEF GoodStep
<1>3. ExtensionTypeOK'
  BY <1>1 DEF GoodStep, Moves, Accounts, WorldTyped, ExtensionTypeOK
<1> QED
  BY <1>1, <1>2, <1>3 DEF Inv

(* What a handler is at, typed.                                             *)
LEMMA HandlerTyped ==
    ASSUME Inv, NEW h \in Handlers
    PROVE  /\ running[h] \in Handling /\ Sound(running[h]) /\ running[h].jobs \subseteq queued
           /\ stored \subseteq queued /\ queued \subseteq Records
           /\ told \subseteq Records /\ lost \subseteq Records /\ WorldTyped
BY DEF Inv, ExtensionTypeOK, AllSound, CopiesAreOld, WorldTyped

(* First chooses an element.                                                *)
LEMMA FirstIsOne ==
    ASSUME NEW jobs, jobs # {}
    PROVE  First(jobs) \in jobs
BY DEF First

-----------------------------------------------------------------------------
(* The steps of a handler.                                                  *)

(* A record is stored.                                                      *)
LEMMA QueueLoadKeeps ==
    ASSUME Inv, NEW h \in Handlers, NEW r \in Records, QueueLoad(h, r)
    PROVE  Inv'
<1> DEFINE s == [Idle EXCEPT !.at = "queue", !.jobs = stored, !.record = r]
<1>1. /\ running[h] = Idle /\ running' = [running EXCEPT ![h] = s]
      /\ UNCHANGED <<api, stored, old, restarts, history>>
  BY DEF QueueLoad, Becomes
<1>2. s \in Handling /\ s.at = "queue" /\ s.jobs = stored /\ s.todo = {} /\ s.record = r
  BY HandlerTyped DEF Idle, Handling
<1> HIDE DEF s
<1>3. WorldTyped'
  BY <1>1, HandlerTyped DEF WorldTyped, api
<1>4. GoodStep(h, s)
  <2>1. s \in Handling /\ Sound(s) /\ s.jobs \subseteq queued'
    BY <1>1, <1>2, HandlerTyped DEF Handling, Sound, history
  <2>2. Moves(h, s) /\ Accounts(h, s) /\ StaysInStep(h, s)
    BY <1>1, <1>2, HandlerTyped DEF Moves, Accounts, StaysInStep, InStepAfter, history, Idle
  <2> QED
    BY <2>1, <2>2 DEF GoodStep
<1> QED
  BY <1>3, <1>4, GoodStepKeeps

LEMMA QueueSaveKeeps ==
    ASSUME Inv, NEW h \in Handlers, QueueSave(h)
    PROVE  Inv'
<1> DEFINE t == running[h]
           r == t.record
<1>1. /\ t.at = "queue" /\ running' = [running EXCEPT ![h] = Idle]
      /\ stored' = t.jobs \cup {r} /\ queued' = queued \cup {r}
      /\ lost' = lost \cup ((stored \ (t.jobs \cup {r})) \ (told \cup {r}))
      /\ UNCHANGED <<api, old, restarts, told>>
  BY DEF QueueSave, Becomes, Save
<1>2. t \in Handling /\ r \in Records
  BY <1>1, HandlerTyped DEF Sound
<1> HIDE DEF r, t
<1>3. WorldTyped'
  BY <1>1, HandlerTyped DEF WorldTyped, api
<1>4. GoodStep(h, Idle)
  <2>1. Idle \in Handling /\ Sound(Idle) /\ Idle.jobs \subseteq queued'
    BY DEF Handling, Sound, Idle
  <2>2. Moves(h, Idle)
    BY <1>1, <1>2, HandlerTyped DEF Moves
  <2>3. Accounts(h, Idle)
    BY <1>1, HandlerTyped DEF Accounts, t
  <2>4. StaysInStep(h, Idle)
    BY <1>1, HandlerTyped DEF StaysInStep, InStepAfter, InStep, Idle, t
  <2> QED
    BY <2>1, <2>2, <2>3, <2>4 DEF GoodStep
<1> QED
  BY <1>3, <1>4, GoodStepKeeps

(* A poll is begun.                                                         *)
LEMMA PollLoadKeeps ==
    ASSUME Inv, NEW h \in Handlers, PollLoad(h)
    PROVE  Inv'
<1> DEFINE s == [Idle EXCEPT !.at = "poll", !.jobs = stored, !.todo = stored]
<1>1. /\ running[h] = Idle /\ running' = [running EXCEPT ![h] = s]
      /\ UNCHANGED <<api, stored, old, restarts, history>>
  BY DEF PollLoad, Becomes
<1>2. s \in Handling /\ s.at = "poll" /\ s.jobs = stored /\ s.todo = stored /\ s.record = NoRecord
  BY HandlerTyped DEF Idle, Handling
<1> HIDE DEF s
<1>3. WorldTyped'
  BY <1>1, HandlerTyped DEF WorldTyped, api
<1>4. GoodStep(h, s)
  <2>1. s \in Handling /\ Sound(s) /\ s.jobs \subseteq queued'
    BY <1>1, <1>2, HandlerTyped DEF Handling, Sound, history
  <2>2. Moves(h, s) /\ Accounts(h, s) /\ StaysInStep(h, s)
    BY <1>1, <1>2, HandlerTyped DEF Moves, Accounts, StaysInStep, InStepAfter, history, Idle
  <2> QED
    BY <2>1, <2>2 DEF GoodStep
<1> QED
  BY <1>3, <1>4, GoodStepKeeps

(* A record is looked up: told and dropped from the copy, or left in it.    *)
LEMMA PollKeeps ==
    ASSUME Inv, NEW h \in Handlers, Poll(h)
    PROVE  Inv'
<1> DEFINE t == running[h]
           r == First(t.todo)
<1>1. /\ t.at = "poll" /\ t.todo # {} /\ PollRecord(h, r)
      /\ UNCHANGED <<api, stored, old, restarts, queued, lost>>
  BY DEF Poll
<1>2. /\ t \in Handling /\ Sound(t) /\ t.jobs \subseteq queued /\ queued \subseteq Records
      /\ r \in t.todo /\ t.todo \subseteq t.jobs /\ r \in Records
  BY <1>1, HandlerTyped, FirstIsOne DEF Sound
<1>3. WorldTyped'
  BY <1>1, HandlerTyped DEF WorldTyped, api
<1>4. \E s : /\ s \in Handling /\ running' = [running EXCEPT ![h] = s] /\ s.todo \subseteq t.todo \ {r}
             /\ \/ s.at = "poll" /\ s.record = NoRecord
                \/ s.at = "download" /\ s.record = r /\ s.jobs = t.jobs
             /\ \/ told' = told \cup {r} /\ s.jobs = t.jobs \ {r}
                \/ told' = told /\ s.jobs = t.jobs
  <2> DEFINE skip == Skip(h, r)
             drop == Drop(h, r)
             load == [skip EXCEPT !.at = "download", !.record = r, !.changed = TRUE]
             keep == [skip EXCEPT !.changed = TRUE]
  <2>1. /\ skip \in Handling /\ skip.todo = t.todo \ {r} /\ skip.at = "poll"
        /\ skip.record = NoRecord /\ skip.jobs = t.jobs
    BY <1>1, <1>2 DEF Skip, Handling, Sound
  <2>2. /\ drop \in Handling /\ drop.todo = t.todo \ {r} /\ drop.at = "poll"
        /\ drop.record = NoRecord /\ drop.jobs = t.jobs \ {r}
    <3> HIDE DEF t, r
    <3> QED
      BY <1>2, <2>1 DEF Drop, Handling
  <2>3. /\ load \in Handling /\ load.todo = t.todo \ {r} /\ load.at = "download"
        /\ load.record = r /\ load.jobs = t.jobs
    <3> HIDE DEF t, r, skip
    <3> QED
      BY <1>2, <2>1 DEF Handling
  <2>4. /\ keep \in Handling /\ keep.todo = t.todo \ {r} /\ keep.at = "poll"
        /\ keep.record = NoRecord /\ keep.jobs = t.jobs
    <3> HIDE DEF t, r, skip
    <3> QED
      BY <1>2, <2>1 DEF Handling
  <2>5. \/ running' = [running EXCEPT ![h] = skip] /\ told' = told
        \/ running' = [running EXCEPT ![h] = drop] /\ told' = told \cup {r}
        \/ running' = [running EXCEPT ![h] = load] /\ told' = told
        \/ running' = [running EXCEPT ![h] = keep] /\ told' = told
    BY <1>1 DEF PollRecord, AskFor, Tell, Becomes
  <2> HIDE DEF skip, drop, load, keep, t, r
  <2> QED
    BY <2>1, <2>2, <2>3, <2>4, <2>5
<1> HIDE DEF r
<1>5. PICK s : /\ s \in Handling /\ running' = [running EXCEPT ![h] = s]
               /\ s.todo \subseteq t.todo \ {r}
               /\ \/ s.at = "poll" /\ s.record = NoRecord
                  \/ s.at = "download" /\ s.record = r /\ s.jobs = t.jobs
               /\ \/ told' = told \cup {r} /\ s.jobs = t.jobs \ {r}
                  \/ told' = told /\ s.jobs = t.jobs
  BY <1>4
<1> HIDE DEF t
<1>6. GoodStep(h, s)
  <2>1. Sound(s) /\ s.jobs \subseteq queued'
    BY <1>1, <1>2, <1>5 DEF Sound
  <2>2. Moves(h, s)
    BY <1>1, <1>2, <1>5, HandlerTyped DEF Moves
  <2>3. Accounts(h, s)
    BY <1>1, HandlerTyped DEF Accounts, t
  <2>4. StaysInStep(h, s)
    <3>1. InStep(t) => stored \ t.jobs \subseteq told
      BY <1>1 DEF InStep
    <3>2. InStep(t) => stored' \ s.jobs \subseteq told'
      BY <1>1, <1>5, <3>1
    <3>3. s.at # "drop" /\ lost' = lost
      BY <1>1, <1>5
    <3> QED
      BY <3>2, <3>3 DEF StaysInStep, InStepAfter, t
  <2> QED
    BY <1>5, <2>1, <2>2, <2>3, <2>4 DEF GoodStep
<1> QED
  BY <1>3, <1>6, GoodStepKeeps

(* A download ends.  This is the same for both paths that finalize.         *)
LEMMA DownloadKeeps ==
    ASSUME Inv, NEW h \in Handlers, NEW s \in Handling,
           running[h].at \in {"download", "finalize"},
           running' = [running EXCEPT ![h] = s], s.record = NoRecord, s.todo \subseteq s.jobs,
           \/ s = Idle /\ told' = told
           \/ s.at = "poll" /\ s.jobs = running[h].jobs /\ told' = told
           \/ /\ s.at \in {"poll", "save"} /\ s.jobs = running[h].jobs \ {running[h].record}
              /\ told' = told \cup {running[h].record},
           UNCHANGED <<api, stored, old, restarts, queued, lost>>
    PROVE  Inv'
<1> DEFINE t == running[h]
           r == t.record
<1>1. /\ t \in Handling /\ t.at \in {"download", "finalize"} /\ r \in Records
      /\ t.jobs \subseteq queued /\ queued \subseteq Records
  BY HandlerTyped DEF Sound
<1>2. WorldTyped'
  BY HandlerTyped DEF WorldTyped, api
<1>3. \/ s.at = "idle" /\ s.jobs = {} /\ told' = told
      \/ s.at = "poll" /\ s.jobs = t.jobs /\ told' = told
      \/ s.at \in {"poll", "save"} /\ s.jobs = t.jobs \ {r} /\ told' = told \cup {r}
  BY DEF Idle
<1> HIDE DEF r, t
<1>4. GoodStep(h, s)
  <2>1. Sound(s) /\ s.jobs \subseteq queued'
    BY <1>1, <1>3 DEF Sound
  <2>2. Moves(h, s)
    BY <1>1, <1>3, HandlerTyped DEF Moves
  <2>3. Accounts(h, s)
    BY <1>1, HandlerTyped DEF Accounts, t
  <2>4. StaysInStep(h, s)
    <3>1. InStep(t) => stored \ t.jobs \subseteq told
      BY <1>1 DEF InStep
    <3>2. InStep(t) /\ s.at \in {"poll", "save"} => stored' \ s.jobs \subseteq told'
      BY <1>3, <3>1
    <3>3. s.at \in {"idle", "poll", "save"}
      BY <1>3
    <3> QED
      BY <3>2, <3>3 DEF StaysInStep, InStepAfter, t
  <2> QED
    BY <2>1, <2>2, <2>3, <2>4 DEF GoodStep
<1> QED
  BY <1>2, <1>4, GoodStepKeeps

(* The poll has the image of the record it looked up, or not.               *)
LEMMA PollFinalizeKeeps ==
    ASSUME Inv, NEW h \in Handlers, PollFinalize(h)
    PROVE  Inv'
<1> DEFINE t == running[h]
           done == [t EXCEPT !.at = "poll", !.jobs = @ \ {t.record}, !.record = NoRecord]
           missed == [t EXCEPT !.at = "poll", !.record = NoRecord]
<1>1. /\ t \in Handling /\ t.at = "download" /\ t.todo \subseteq t.jobs /\ t.record \notin t.todo
  BY HandlerTyped DEF PollFinalize, Sound
<1>2. /\ done \in Handling /\ done.at = "poll" /\ done.jobs = t.jobs \ {t.record}
      /\ done.record = NoRecord /\ done.todo \subseteq done.jobs
  <2> HIDE DEF t
  <2> QED
    BY <1>1 DEF Handling
<1>3. /\ missed \in Handling /\ missed.at = "poll" /\ missed.jobs = t.jobs
      /\ missed.record = NoRecord /\ missed.todo \subseteq missed.jobs
  <2> HIDE DEF t
  <2> QED
    BY <1>1 DEF Handling
<1>4. /\ \/ running' = [running EXCEPT ![h] = done] /\ told' = told \cup {t.record}
         \/ running' = [running EXCEPT ![h] = missed] /\ told' = told
      /\ UNCHANGED <<api, stored, old, restarts, queued, lost>>
  BY DEF PollFinalize, Downloaded, Becomes, Tell
<1> HIDE DEF done, missed
<1>5. CASE running' = [running EXCEPT ![h] = done] /\ told' = told \cup {t.record}
  BY <1>1, <1>2, <1>4, <1>5, DownloadKeeps
<1>6. CASE running' = [running EXCEPT ![h] = missed] /\ told' = told
  BY <1>1, <1>3, <1>4, <1>6, DownloadKeeps
<1> QED
  BY <1>4, <1>5, <1>6

(* The handler of a message has it, or gives up without a change.           *)
LEMMA WsFinalizeKeeps ==
    ASSUME Inv, NEW h \in Handlers, WsFinalize(h)
    PROVE  Inv'
<1> DEFINE t == running[h]
           done == [t EXCEPT !.at = "save", !.jobs = @ \ {t.record}, !.record = NoRecord]
<1>1. t \in Handling /\ t.at = "finalize" /\ t.todo \subseteq t.jobs /\ t.record \notin t.todo
  BY HandlerTyped DEF WsFinalize, Sound
<1>2. /\ done \in Handling /\ done.at = "save" /\ done.jobs = t.jobs \ {t.record}
      /\ done.record = NoRecord /\ done.todo \subseteq done.jobs
  <2> HIDE DEF t
  <2> QED
    BY <1>1 DEF Handling
<1>3. Idle \in Handling /\ Idle.record = NoRecord /\ Idle.todo \subseteq Idle.jobs
  BY DEF Idle, Handling
<1>4. /\ \/ running' = [running EXCEPT ![h] = done] /\ told' = told \cup {t.record}
         \/ running' = [running EXCEPT ![h] = Idle] /\ told' = told
      /\ UNCHANGED <<api, stored, old, restarts, queued, lost>>
  BY DEF WsFinalize, Downloaded, Becomes, Tell
<1> HIDE DEF done
<1>5. CASE running' = [running EXCEPT ![h] = done] /\ told' = told \cup {t.record}
  BY <1>1, <1>2, <1>4, <1>5, DownloadKeeps
<1>6. CASE running' = [running EXCEPT ![h] = Idle] /\ told' = told
  BY <1>1, <1>3, <1>4, <1>6, DownloadKeeps
<1> QED
  BY <1>4, <1>5, <1>6

(* A copy is written back, by a poll that changed something or after a      *)
(* message; s is what the handler becomes.                                  *)
LEMMA SaveKeeps ==
    ASSUME Inv, NEW h \in Handlers, NEW s \in Handling,
           running' = [running EXCEPT ![h] = s], Sound(s), s.jobs \subseteq running[h].jobs,
           Save(h, running[h].jobs, {}), UNCHANGED <<api, old, restarts, told>>,
           \/ running[h].at \in {"poll", "save"} /\ s.at = "idle"
           \/ running[h].at = "drop" /\ s.at = "tell" /\ s.record = running[h].record
    PROVE  Inv'
<1> DEFINE t == running[h]
<1>1. /\ t \in Handling /\ Sound(t) /\ t.jobs \subseteq queued /\ queued \subseteq Records
      /\ stored \subseteq queued
  BY HandlerTyped
<1>2. /\ stored' = t.jobs /\ queued' = queued /\ told' = told
      /\ lost' = lost \cup ((stored \ t.jobs) \ (told \cup {t.record}))
  BY DEF Save
<1>3. WorldTyped'
  BY HandlerTyped DEF WorldTyped, api
<1>4. \/ t.at \in {"poll", "save"} /\ s.at = "idle" /\ t.record = NoRecord
      \/ t.at = "drop" /\ s.at = "tell" /\ s.record = t.record
  BY <1>1 DEF Sound
<1> HIDE DEF t
<1>5. GoodStep(h, s)
  <2>1. s.jobs \subseteq queued'
    BY <1>1, <1>2 DEF t
  <2>2. Moves(h, s)
    BY <1>1, <1>2, HandlerTyped DEF Moves
  <2>3. Accounts(h, s)
    <3>1. ASSUME NEW r \in stored \ stored' PROVE r \in told' \cup lost' \/ (s.at = "tell" /\ s.record = r)
      <4>1. r # NoRecord
        BY <1>1, HandlerTyped, ExtensionAssumption
      <4> QED
        BY <1>2, <1>4, <4>1
    <3>2. t.at # "tell"
      BY <1>4
    <3> QED
      BY <1>1, <1>2, <3>1, <3>2 DEF Accounts, t
  <2>4. StaysInStep(h, s)
    <3>1. ASSUME InStep(t) PROVE lost' = lost
      <4>1. stored \ t.jobs \subseteq told \cup {t.record}
        BY <1>4, <3>1 DEF InStep
      <4> QED
        BY <1>2, <4>1
    <3>2. s.at \in {"idle", "tell"}
      BY <1>4
    <3> QED
      BY <3>1, <3>2 DEF StaysInStep, InStepAfter, t
  <2> QED
    BY <2>1, <2>2, <2>3, <2>4 DEF GoodStep
<1> QED
  BY <1>3, <1>5, GoodStepKeeps

LEMMA PollSaveKeeps ==
    ASSUME Inv, NEW h \in Handlers, PollSave(h)
    PROVE  Inv'
<1> DEFINE t == running[h]
<1>1. /\ t.at = "poll" /\ running' = [running EXCEPT ![h] = Idle]
      /\ UNCHANGED <<api, old, restarts, told>>
      /\ IF t.changed THEN Save(h, t.jobs, {}) ELSE UNCHANGED <<stored, queued, lost>>
  BY DEF PollSave, Becomes
<1>2. /\ Idle \in Handling /\ Sound(Idle) /\ Idle.jobs = {} /\ Idle.at = "idle"
  BY DEF Idle, Handling, Sound
<1>3. CASE t.changed
  BY <1>1, <1>2, <1>3, SaveKeeps
<1>4. CASE ~t.changed
  <2>1. WorldTyped'
    BY <1>1, HandlerTyped DEF WorldTyped, api
  <2>2. Moves(h, Idle) /\ Accounts(h, Idle) /\ StaysInStep(h, Idle)
    BY <1>1, <1>2, <1>4, HandlerTyped DEF Moves, Accounts, StaysInStep, InStepAfter
  <2>3. GoodStep(h, Idle)
    BY <1>2, <2>2 DEF GoodStep
  <2> QED
    BY <2>1, <2>3, GoodStepKeeps
<1> QED
  BY <1>3, <1>4

LEMMA WsSaveKeeps ==
    ASSUME Inv, NEW h \in Handlers, WsSave(h)
    PROVE  Inv'
<1> DEFINE t == running[h]
           s == IF t.at = "save" THEN Idle ELSE [t EXCEPT !.at = "tell"]
<1>1. /\ t.at \in {"save", "drop"} /\ running' = [running EXCEPT ![h] = s]
      /\ Save(h, t.jobs, {}) /\ UNCHANGED <<api, old, restarts, told>>
  BY DEF WsSave, Becomes
<1>2. t \in Handling /\ Sound(t)
  BY HandlerTyped
<1>3. /\ s \in Handling /\ Sound(s) /\ s.jobs \subseteq t.jobs
      /\ t.at = "save" => s.at = "idle"
      /\ t.at = "drop" => s.at = "tell" /\ s.record = t.record
  <2> HIDE DEF t
  <2> QED
    BY <1>1, <1>2 DEF Handling, Sound, Idle
<1> HIDE DEF s
<1> QED
  BY <1>1, <1>3, SaveKeeps

(* The message of a failed job is sent after the write.                     *)
LEMMA WsTellKeeps ==
    ASSUME Inv, NEW h \in Handlers, WsTell(h)
    PROVE  Inv'
<1> DEFINE t == running[h]
<1>1. /\ t.at = "tell" /\ running' = [running EXCEPT ![h] = Idle] /\ told' = told \cup {t.record}
      /\ UNCHANGED <<api, stored, old, restarts, queued, lost>>
  BY DEF WsTell, Becomes, Tell
<1>2. Idle \in Handling /\ Sound(Idle) /\ Idle.jobs = {} /\ Idle.at = "idle"
  BY DEF Idle, Handling, Sound
<1>3. WorldTyped'
  BY <1>1, HandlerTyped DEF WorldTyped, api
<1>4. t.record \in Records
  BY <1>1, HandlerTyped DEF Sound
<1>5. Moves(h, Idle) /\ Accounts(h, Idle) /\ StaysInStep(h, Idle)
  BY <1>1, <1>2, <1>4, HandlerTyped DEF Moves, Accounts, StaysInStep, InStepAfter
<1>6. GoodStep(h, Idle)
  BY <1>2, <1>5 DEF GoodStep
<1> QED
  BY <1>3, <1>6, GoodStepKeeps

(* A message arrives.                                                       *)
LEMMA WsMessageKeeps ==
    ASSUME Inv, NEW h \in Handlers, WsMessage(h)
    PROVE  Inv'
<1>1. /\ running[h] = Idle /\ UNCHANGED <<server, channel, stored, old, restarts, history>>
      /\ notices' \in SUBSET notices
  BY DEF WsMessage
<1>2. WorldTyped'
  BY <1>1, HandlerTyped DEF WorldTyped
<1>3. \/ running' = running
      \/ \E r \in stored :
            \/ running' = [running EXCEPT ![h] =
                    [Idle EXCEPT !.at = "finalize", !.jobs = stored, !.record = r]]
            \/ running' = [running EXCEPT ![h] =
                    [Idle EXCEPT !.at = "drop", !.jobs = stored \ {r}, !.record = r]]
  <2>1. PICK notice \in notices :
            LET mine == {r \in stored : JobOf[r] = notice[1]} IN
            \/ mine = {} /\ UNCHANGED running
            \/ mine # {} /\ LET r == First(mine) IN Becomes(h,
                    IF notice[2] = "completed"
                    THEN [Idle EXCEPT !.at = "finalize", !.jobs = stored, !.record = r]
                    ELSE [Idle EXCEPT !.at = "drop", !.jobs = stored \ {r}, !.record = r])
    BY DEF WsMessage
  <2> DEFINE mine == {r \in stored : JobOf[r] = notice[1]}
  <2>2. CASE mine = {}
    BY <2>1, <2>2
  <2>3. CASE mine # {}
    <3>1. First(mine) \in stored
      <4>1. First(mine) \in mine
        <5> HIDE DEF mine
        <5> QED
          BY <2>3, FirstIsOne
      <4> QED
        BY <4>1
    <3>2. Becomes(h, IF notice[2] = "completed"
                     THEN [Idle EXCEPT !.at = "finalize", !.jobs = stored, !.record = First(mine)]
                     ELSE [Idle EXCEPT !.at = "drop", !.jobs = stored \ {First(mine)},
                                       !.record = First(mine)])
      BY <2>1, <2>3
    <3> HIDE DEF mine
    <3> QED
      BY <3>1, <3>2 DEF Becomes
  <2> QED
    BY <2>2, <2>3
<1>4. CASE running' = running
  <2>1. running' = [running EXCEPT ![h] = Idle]
    BY <1>1, <1>4 DEF Inv, ExtensionTypeOK
  <2>2. Idle \in Handling /\ Sound(Idle) /\ Idle.jobs = {} /\ Idle.at = "idle"
    BY DEF Idle, Handling, Sound
  <2>3. Moves(h, Idle) /\ Accounts(h, Idle) /\ StaysInStep(h, Idle)
    BY <1>1, <2>1, <2>2, HandlerTyped DEF Moves, Accounts, StaysInStep, InStepAfter, history
  <2>4. GoodStep(h, Idle)
    BY <2>2, <2>3 DEF GoodStep
  <2> QED
    BY <1>2, <2>4, GoodStepKeeps
<1>5. ASSUME NEW r \in stored, NEW s \in Handling, running' = [running EXCEPT ![h] = s],
             s.record = r, s.todo = {},
             \/ s.at = "finalize" /\ s.jobs = stored
             \/ s.at = "drop" /\ s.jobs = stored \ {r}
      PROVE  Inv'
  <2>1. Sound(s) /\ s.jobs \subseteq queued'
    BY <1>1, <1>5, HandlerTyped DEF Sound, history
  <2>2. Moves(h, s) /\ Accounts(h, s)
    BY <1>1, <1>5, HandlerTyped DEF Moves, Accounts, history, Idle
  <2>3. StaysInStep(h, s)
    BY <1>1, <1>5 DEF StaysInStep, InStepAfter, history
  <2>4. GoodStep(h, s)
    BY <2>1, <2>2, <2>3 DEF GoodStep
  <2> QED
    BY <1>2, <2>4, GoodStepKeeps
<1>6. ASSUME NEW r \in stored,
             running' = [running EXCEPT ![h] =
                    [Idle EXCEPT !.at = "finalize", !.jobs = stored, !.record = r]]
      PROVE  Inv'
  <2> DEFINE s == [Idle EXCEPT !.at = "finalize", !.jobs = stored, !.record = r]
  <2>1. s \in Handling /\ s.record = r /\ s.todo = {} /\ s.at = "finalize" /\ s.jobs = stored
    BY HandlerTyped DEF Idle, Handling
  <2>2. running' = [running EXCEPT ![h] = s]
    BY <1>6
  <2> HIDE DEF s
  <2> QED
    BY <1>5, <2>1, <2>2
<1>7. ASSUME NEW r \in stored,
             running' = [running EXCEPT ![h] =
                    [Idle EXCEPT !.at = "drop", !.jobs = stored \ {r}, !.record = r]]
      PROVE  Inv'
  <2> DEFINE s == [Idle EXCEPT !.at = "drop", !.jobs = stored \ {r}, !.record = r]
  <2>1. s \in Handling /\ s.record = r /\ s.todo = {} /\ s.at = "drop" /\ s.jobs = stored \ {r}
    BY HandlerTyped DEF Idle, Handling
  <2>2. running' = [running EXCEPT ![h] = s]
    BY <1>7
  <2> HIDE DEF s
  <2> QED
    BY <1>5, <2>1, <2>2
<1> QED
  BY <1>3, <1>4, <1>6, <1>7

-----------------------------------------------------------------------------
(* The API, the socket, the clock, and the end of the service worker.       *)

(* Whatever happens outside of the service worker, it keeps what it has.    *)
LEMMA WorldKeeps ==
    ASSUME Inv, UNCHANGED <<stored, running, history>>, WorldTyped'
    PROVE  Inv'
<1>1. stored' = stored /\ running' = running /\ queued' = queued /\ told' = told /\ lost' = lost
  BY DEF history
<1>2. ExtensionTypeOK'
  BY <1>1 DEF Inv, ExtensionTypeOK, WorldTyped
<1>3. AllSound' /\ CopiesAreOld' /\ RecordsAreKept'
  BY <1>1 DEF Inv, AllSound, Sound, CopiesAreOld, RecordsAreKept, Telling
<1>4. NothingLostUndisturbed' /\ InStepUndisturbed'
  BY <1>1 DEF Inv, NothingLostUndisturbed, InStepUndisturbed, Undisturbed, InStep
<1> QED
  BY <1>2, <1>3, <1>4 DEF Inv

LEMMA OutsideKeeps ==
    ASSUME Inv, (\E j \in Jobs : JobEnds(j)) \/ Subscribes \/ SocketCloses
                \/ (\E r \in Records : Ages(r))
    PROVE  Inv'
<1>1. WorldTyped /\ stored \subseteq Records
  BY DEF Inv, ExtensionTypeOK, WorldTyped
<1>2. ASSUME NEW j \in Jobs, JobEnds(j) PROVE Inv'
  <2>1. PICK end \in Ends :
            /\ server' = [server EXCEPT ![j] = end]
            /\ \/ j \in channel /\ notices' = notices \cup {<<j, end>>}
               \/ UNCHANGED notices
    BY <1>2 DEF JobEnds
  <2>2. WorldTyped'
    BY <1>1, <1>2, <2>1 DEF JobEnds, WorldTyped
  <2> QED
    BY <1>2, <2>2, WorldKeeps DEF JobEnds
<1>3. CASE Subscribes
  <2>1. PICK r \in stored : channel' = channel \cup {JobOf[r]}
    BY <1>3 DEF Subscribes
  <2>2. JobOf[r] \in Jobs
    BY <1>1, ExtensionAssumption
  <2>3. WorldTyped'
    BY <1>1, <1>3, <2>1, <2>2 DEF Subscribes, WorldTyped
  <2> QED
    BY <1>3, <2>3, WorldKeeps DEF Subscribes
<1>4. CASE SocketCloses
  <2>1. WorldTyped'
    BY <1>1, <1>4 DEF SocketCloses, SocketClosed, WorldTyped
  <2> QED
    BY <1>4, <2>1, WorldKeeps DEF SocketCloses
<1>5. ASSUME NEW r \in Records, Ages(r) PROVE Inv'
  <2>1. WorldTyped'
    BY <1>1, <1>5 DEF Ages, WorldTyped, api
  <2> QED
    BY <1>5, <2>1, WorldKeeps DEF Ages
<1> QED
  BY <1>2, <1>3, <1>4, <1>5

(* The handlers are gone; what they had to tell goes without a message.     *)
LEMMA RestartKeeps ==
    ASSUME Inv, Restart
    PROVE  Inv'
<1> DEFINE cut == {running[h].record : h \in {g \in Handlers : running[g].at = "tell"}}
<1>1. /\ restarts < MaxRestarts /\ restarts' = restarts + 1
      /\ running' = [h \in Handlers |-> Idle] /\ lost' = lost \cup cut
      /\ channel' = {} /\ notices' = {} /\ UNCHANGED <<server, stored, old, queued, told>>
  BY DEF Restart, SocketClosed
<1>2. cut \subseteq Records
  BY HandlerTyped DEF Sound
<1>3. Telling \subseteq cut
  BY DEF Telling
<1> HIDE DEF cut
<1>4. Idle \in Handling /\ Sound(Idle) /\ Idle.jobs = {}
  BY DEF Idle, Handling, Sound
<1>5. ExtensionTypeOK'
  BY <1>1, <1>2, <1>4, ExtensionAssumption DEF Inv, ExtensionTypeOK
<1>6. AllSound' /\ CopiesAreOld'
  BY <1>1, <1>4 DEF Inv, AllSound, Sound, CopiesAreOld
<1>7. RecordsAreKept'
  BY <1>1, <1>3 DEF Inv, RecordsAreKept
<1>8. ~Undisturbed
  BY <1>1, ExtensionAssumption DEF Undisturbed, Inv, ExtensionTypeOK
<1>9. NothingLostUndisturbed' /\ InStepUndisturbed'
  BY <1>8 DEF NothingLostUndisturbed, InStepUndisturbed, Undisturbed
<1> QED
  BY <1>5, <1>6, <1>7, <1>9 DEF Inv

-----------------------------------------------------------------------------
(* The theorems.                                                            *)

LEMMA InitEstablishes ==
    ASSUME ExtensionInit
    PROVE  Inv
<1>1. Idle \in Handling /\ Sound(Idle) /\ Idle.jobs = {} /\ Idle.at = "idle"
  BY DEF Idle, Handling, Sound
<1>2. ExtensionTypeOK /\ AllSound /\ CopiesAreOld /\ RecordsAreKept
  BY <1>1, ExtensionAssumption
     DEF ExtensionInit, ExtensionTypeOK, AllSound, CopiesAreOld, RecordsAreKept, Ends
<1>3. NothingLostUndisturbed /\ InStepUndisturbed
  BY <1>1 DEF ExtensionInit, NothingLostUndisturbed, InStepUndisturbed, InStep
<1> QED
  BY <1>2, <1>3 DEF Inv

LEMMA NextKeeps ==
    ASSUME Inv, [ExtensionNext]_vars
    PROVE  Inv'
<1>1. CASE UNCHANGED vars
  <2>1. UNCHANGED <<stored, running, history>> /\ UNCHANGED <<api, old, restarts>>
    BY <1>1 DEF vars
  <2>2. WorldTyped'
    BY <2>1 DEF Inv, ExtensionTypeOK, WorldTyped, api
  <2> QED
    BY <2>1, <2>2, WorldKeeps
<1>2. CASE ExtensionNext
  <2>1. CASE (\E j \in Jobs : JobEnds(j)) \/ Subscribes \/ SocketCloses
             \/ (\E r \in Records : Ages(r))
    BY <2>1, OutsideKeeps
  <2>2. CASE Restart
    BY <2>2, RestartKeeps
  <2>3. ASSUME NEW h \in Handlers,
               (\E r \in Records : QueueLoad(h, r)) \/ PollLoad(h) \/ WsMessage(h) \/ Handle(h)
        PROVE  Inv'
    <3>1. CASE \E r \in Records : QueueLoad(h, r)
      BY <3>1, QueueLoadKeeps
    <3>2. CASE PollLoad(h)
      BY <3>2, PollLoadKeeps
    <3>3. CASE WsMessage(h)
      BY <3>3, WsMessageKeeps
    <3>4. CASE Handle(h)
      BY <3>4, QueueSaveKeeps, PollKeeps, PollFinalizeKeeps, PollSaveKeeps, WsFinalizeKeeps,
         WsSaveKeeps, WsTellKeeps DEF Handle
    <3> QED
      BY <2>3, <3>1, <3>2, <3>3, <3>4
  <2> QED
    BY <1>2, <2>1, <2>2, <2>3 DEF ExtensionNext
<1> QED
  BY <1>1, <1>2

LEMMA Invariance == Spec => []Inv
<1>1. ExtensionInit => Inv
  BY InitEstablishes
<1>2. Inv /\ [ExtensionNext]_vars => Inv'
  BY NextKeeps
<1> QED
  BY <1>1, <1>2, PTL DEF Spec

(* Storage, copies and handlers keep their types, for any number of each.   *)
THEOREM ExtensionTypeCorrect == Spec => []ExtensionTypeOK
<1>1. Inv => ExtensionTypeOK
  BY DEF Inv
<1> QED
  BY <1>1, Invariance, PTL

(* No record vanishes: handlers that write old copies back, that drop what  *)
(* they answered and that are killed half-way take a record out of the      *)
(* storage only after its message, before it, or into lost.                 *)
THEOREM RecordsAlwaysKept == Spec => []RecordsAreKept
<1>1. Inv => RecordsAreKept
  BY DEF Inv
<1> QED
  BY <1>1, Invariance, PTL

(* The loss is of the interleaving alone: one handler at a time, not killed, *)
(* loses no record.                                                         *)
THEOREM AloneLosesNothing == Spec => []NothingLostUndisturbed
<1>1. Inv => NothingLostUndisturbed
  BY DEF Inv
<1> QED
  BY <1>1, Invariance, PTL

=============================================================================
