---------------------------- MODULE JobQueueProofs ----------------------------
(***************************************************************************)
(* Proofs about JobQueue, for every set of keys and requests and every     *)
(* value of the thresholds and bounds.                                     *)
(***************************************************************************)
EXTENDS JobQueue, TLAPS

(* TypeOK alone is not inductive: a request that looks at a result was     *)
(* told an id, and a request that submits has minted one.                  *)
Sound(q) ==
    /\ q.pc = "result" => q.told \in Ids
    /\ q.pc \in {"store", "enqueue", "release"} => q.id \in Ids

AllSound  == \A r \in Requests : Sound(req[r])
Typed     == TypeOK /\ AllSound
ReqStates == [pc: {"idle"}] \cup Active

-----------------------------------------------------------------------------
(* What the record of a busy request holds.                                *)
LEMMA BusyRequest ==
    ASSUME TypeOK, NEW r \in Requests, req[r].pc # "idle"
    PROVE  /\ req[r] \in Active
           /\ req[r].key \in Keys
           /\ req[r].id \in Ids \cup {NoJob} /\ req[r].told \in Ids \cup {NoJob}
           /\ req[r].reserved \in BOOLEAN
<1>1. req[r] \in [pc: {"idle"}] \cup Active
  BY DEF TypeOK
<1>2. req[r] \in Active
  BY <1>1
<1> QED
  BY <1>2 DEF Active

LEMMA MintedId ==
    ASSUME TypeOK, NEW k \in Keys, NEW n \in Stamps
    PROVE  [key |-> k, at |-> now, n |-> n] \in Ids
BY DEF TypeOK, Ids

LEMMA AnswersTold ==
    ASSUME NEW id \in Ids
    PROVE  /\ [status |-> "queued", id |-> id] \in Answers
           /\ [status |-> "completed", id |-> id] \in Answers
BY DEF Answers

(* One request changes its record: the table stays typed and sound.        *)
LEMMA Move ==
    ASSUME Typed, NEW r \in Requests, NEW q \in ReqStates, Sound(q),
           req' = [req EXCEPT ![r] = q]
    PROVE  req' \in [Requests -> ReqStates] /\ AllSound'
BY DEF Typed, TypeOK, ReqStates, AllSound

LEMMA MoveByReply ==
    ASSUME Typed, NEW r \in Requests, NEW status, NEW id,
           [status |-> status, id |-> id] \in Answers, Reply(r, status, id)
    PROVE  req' \in [Requests -> ReqStates] /\ AllSound' /\ answer' \in [Requests -> Answers]
<1>1. Idle \in ReqStates /\ Sound(Idle)
  BY DEF Idle, ReqStates, Sound
<1>2. req' \in [Requests -> ReqStates] /\ AllSound'
  BY <1>1, Move DEF Reply
<1>3. answer' \in [Requests -> Answers]
  BY DEF Typed, TypeOK, Reply
<1> QED
  BY <1>2, <1>3

LEMMA MoveByGoto ==
    ASSUME Typed, NEW r \in Requests, req[r].pc # "idle",
           NEW step \in {"discard", "reserve", "mint", "enqueue", "release"},
           step \in {"enqueue", "release"} => req[r].id \in Ids,
           Goto(r, step)
    PROVE  req' \in [Requests -> ReqStates] /\ AllSound'
<1> DEFINE q == [req[r] EXCEPT !.pc = step]
<1>1. req[r] \in Active
  BY BusyRequest DEF Typed
<1>2. q \in ReqStates /\ Sound(q)
  BY <1>1 DEF Active, ReqStates, Sound
<1>3. req' = [req EXCEPT ![r] = q]
  BY DEF Goto
<1> HIDE DEF q
<1> QED
  BY <1>2, <1>3, Move

(* A request that submits gets an id; one that was told an id looks at it. *)
LEMMA MoveWithId ==
    ASSUME Typed, NEW r \in Requests, req[r].pc # "idle", NEW id \in Ids, NEW b \in BOOLEAN,
           NEW step \in {"store", "reread"},
           req' = [req EXCEPT ![r] = [req[r] EXCEPT !.pc = step, !.id = id, !.reserved = b]]
    PROVE  req' \in [Requests -> ReqStates] /\ AllSound'
<1> DEFINE q == [req[r] EXCEPT !.pc = step, !.id = id, !.reserved = b]
<1>1. req[r] \in Active
  BY BusyRequest DEF Typed
<1>2. q \in ReqStates /\ Sound(q)
  BY <1>1 DEF Active, ReqStates, Sound
<1> HIDE DEF q
<1> QED
  BY <1>2, Move DEF q

LEMMA MoveTold ==
    ASSUME Typed, NEW r \in Requests, req[r].pc # "idle", NEW id \in Ids,
           req' = [req EXCEPT ![r].pc = "result", ![r].told = id]
    PROVE  req' \in [Requests -> ReqStates] /\ AllSound'
<1> DEFINE q == [req[r] EXCEPT !.pc = "result", !.told = id]
<1>1. req[r] \in Active
  BY BusyRequest DEF Typed
<1>2. q \in ReqStates /\ Sound(q)
  BY <1>1 DEF Active, ReqStates, Sound
<1>3. req' = [req EXCEPT ![r] = q]
  OBVIOUS
<1> HIDE DEF q
<1> QED
  BY <1>2, <1>3, Move

(* A failed submission: release, the old id, or an error.                  *)
LEMMA MoveByFail ==
    ASSUME Typed, NEW r \in Requests, req[r].pc \in {"store", "enqueue"}, Fail(r)
    PROVE  req' \in [Requests -> ReqStates] /\ AllSound' /\ answer' \in [Requests -> Answers]
<1>1. CASE req[r].reserved
  <2>1. req[r].id \in Ids
    BY DEF Typed, AllSound, Sound
  <2>2. Goto(r, "release") /\ answer' = answer
    BY <1>1 DEF Fail
  <2> QED
    BY <2>1, <2>2, MoveByGoto DEF Typed, TypeOK
<1>2. CASE ~req[r].reserved /\ req[r].told # NoJob
  <2>1. req[r].told \in Ids /\ Reply(r, "queued", req[r].told)
    BY <1>2, BusyRequest DEF Fail, Typed
  <2> QED
    BY <2>1, AnswersTold, MoveByReply
<1>3. CASE ~req[r].reserved /\ req[r].told = NoJob
  <2>1. Reply(r, "error", NoJob) /\ [status |-> "error", id |-> NoJob] \in Answers
    BY <1>3 DEF Fail, Answers
  <2> QED
    BY <2>1, MoveByReply
<1> QED
  BY <1>1, <1>2, <1>3

LEMMA DedupType ==
    ASSUME TypeOK, NEW d \in [Keys -> Ids \cup {NoJob}], DedupBecomes(d)
    PROVE  dedup' \in [Keys -> Ids \cup {NoJob}] /\ deadline' \in {Never} \cup Nat
BY DEF TypeOK, DedupBecomes

-----------------------------------------------------------------------------
LEMMA TypedInit ==
    ASSUME Init PROVE Typed
<1>1. TypeOK
  <2>1. req \in [Requests -> [pc: {"idle"}] \cup Active]
    BY DEF Init, Idle
  <2>2. answer \in [Requests -> Answers] /\ results \in [Ids -> Results]
    BY DEF Init, Answers, Results
  <2>3. now \in 0..MaxNow
    BY JobQueueAssumption DEF Init
  <2> QED
    BY <2>1, <2>2, <2>3 DEF Init, TypeOK
<1>2. AllSound
  BY DEF Init, Idle, AllSound, Sound
<1> QED
  BY <1>1, <1>2 DEF Typed

(* A step of a request.                                                    *)
LEMMA TypedHandle ==
    ASSUME Typed, NEW r \in Requests, Handle(r)
    PROVE  Typed'
<1> USE DEF Redis, Clock, History, OneFault
<1>0. TypeOK /\ AllSound
  BY DEF Typed
<1>e. [status |-> "error", id |-> NoJob] \in Answers
  BY DEF Answers
<1>1. CASE Lookup(r)
  <2>1. req' \in [Requests -> ReqStates] /\ AllSound'
    <3>1. CASE Goto(r, "reserve") \/ Goto(r, "discard")
      BY <1>1, <3>1, MoveByGoto DEF Lookup
    <3>2. CASE dedup[req[r].key] # NoJob /\
               req' = [req EXCEPT ![r].pc = "result", ![r].told = dedup[req[r].key]]
      <4>1. dedup[req[r].key] \in Ids
        BY <1>0, <1>1, <3>2, BusyRequest DEF Lookup, TypeOK
      <4> QED
        BY <1>1, <3>2, <4>1, MoveTold DEF Lookup
    <3> QED
      BY <1>1, <3>1, <3>2 DEF Lookup
  <2>2. faults' \in Nat
    BY <1>0, <1>1 DEF Lookup, TypeOK
  <2> QED
    BY <1>0, <1>1, <2>1, <2>2 DEF Lookup, Typed, TypeOK, ReqStates
<1>2. CASE Discard(r)
  <2>1. req' \in [Requests -> ReqStates] /\ AllSound'
    BY <1>2, MoveByGoto DEF Discard
  <2>2. dedup' \in [Keys -> Ids \cup {NoJob}] /\ deadline' \in {Never} \cup Nat
    <3>1. [dedup EXCEPT ![req[r].key] = NoJob] \in [Keys -> Ids \cup {NoJob}]
      BY <1>0 DEF TypeOK
    <3> QED
      BY <1>0, <1>2, <3>1, DedupType DEF Discard, TypeOK
  <2>3. faults' \in Nat
    BY <1>0, <1>2 DEF Discard, TypeOK
  <2> QED
    BY <1>0, <1>2, <2>1, <2>2, <2>3 DEF Discard, Typed, TypeOK, ReqStates
<1>3. ASSUME NEW n \in Stamps, Reserve(r, n)
      PROVE  Typed'
  <2> DEFINE k  == req[r].key
             id == [key |-> k, at |-> now, n |-> n]
  <2>1. req[r].pc = "reserve" /\ k \in Keys /\ id \in Ids
    BY <1>0, <1>3, BusyRequest, MintedId DEF Reserve
  <2>2. req' \in [Requests -> ReqStates] /\ AllSound' /\ answer' \in [Requests -> Answers]
    <3>1. CASE req' = [req EXCEPT ![r].pc = "store", ![r].id = id, ![r].reserved = TRUE]
               /\ answer' = answer
      <4>1. req' = [req EXCEPT ![r] = [req[r] EXCEPT !.pc = "store", !.id = id,
                                                     !.reserved = TRUE]]
        BY <3>1
      <4>2. req' \in [Requests -> ReqStates] /\ AllSound'
        BY <2>1, <4>1, MoveWithId
      <4> QED
        BY <1>0, <3>1, <4>2 DEF TypeOK
    <3>2. CASE req' = [req EXCEPT ![r].pc = "reread", ![r].id = id] /\ answer' = answer
      <4>1. req[r] \in Active
        BY <1>0, <2>1, BusyRequest
      <4>2. req[r].reserved \in BOOLEAN
        BY <4>1 DEF Active
      <4>3. req' = [req EXCEPT ![r] = [req[r] EXCEPT !.pc = "reread", !.id = id,
                                                     !.reserved = req[r].reserved]]
        BY <3>2, <4>1 DEF Active
      <4>4. req' \in [Requests -> ReqStates] /\ AllSound'
        BY <2>1, <4>2, <4>3, MoveWithId
      <4> QED
        BY <1>0, <3>2, <4>4 DEF TypeOK
    <3>3. CASE Reply(r, "error", NoJob)
      BY <1>e, <3>3, MoveByReply
    <3> QED
      BY <1>3, <3>1, <3>2, <3>3 DEF Reserve
  <2>3. dedup' \in [Keys -> Ids \cup {NoJob}] /\ spoiled' \subseteq Ids /\ faults' \in Nat
    BY <1>0, <1>3, <2>1 DEF Reserve, TypeOK
  <2> QED
    BY <1>0, <1>3, <2>2, <2>3 DEF Reserve, Typed, TypeOK, ReqStates
<1>4. CASE Reread(r)
  <2>1. req' \in [Requests -> ReqStates] /\ AllSound' /\ answer' \in [Requests -> Answers]
    <3>1. CASE dedup[req[r].key] # NoJob /\ answer' = answer /\
               req' = [req EXCEPT ![r].pc = "result", ![r].told = dedup[req[r].key]]
      <4>1. dedup[req[r].key] \in Ids
        BY <1>0, <1>4, <3>1, BusyRequest DEF Reread, TypeOK
      <4> QED
        BY <1>0, <1>4, <3>1, <4>1, MoveTold DEF Reread, TypeOK
    <3>2. CASE Reply(r, "error", NoJob)
      BY <1>e, <3>2, MoveByReply
    <3> QED
      BY <1>4, <3>1, <3>2 DEF Reread
  <2>2. faults' \in Nat
    BY <1>0, <1>4 DEF Reread, TypeOK
  <2> QED
    BY <1>0, <1>4, <2>1, <2>2 DEF Reread, Typed, TypeOK, ReqStates
<1>5. ASSUME NEW n \in Stamps, Mint(r, n)
      PROVE  Typed'
  <2> DEFINE id == [key |-> req[r].key, at |-> now, n |-> n]
  <2>1. req[r].pc = "mint" /\ id \in Ids
    BY <1>0, <1>5, BusyRequest, MintedId DEF Mint
  <2>2. req' = [req EXCEPT ![r] = [req[r] EXCEPT !.pc = "store", !.id = id,
                                                 !.reserved = FALSE]]
    <3>1. req[r] \in Active
      BY <1>0, <2>1, BusyRequest
    <3> QED
      BY <1>5, <3>1 DEF Mint, Active
  <2>3. req' \in [Requests -> ReqStates] /\ AllSound'
    BY <2>1, <2>2, MoveWithId
  <2> QED
    BY <1>0, <1>5, <2>3 DEF Mint, Typed, TypeOK, ReqStates
<1>6. CASE Store(r)
  <2>1. req[r].id \in Ids
    BY <1>0, <1>6 DEF Store, AllSound, Sound
  <2>2. req' \in [Requests -> ReqStates] /\ AllSound' /\ answer' \in [Requests -> Answers]
    <3>1. CASE Goto(r, "enqueue") /\ answer' = answer
      BY <1>0, <1>6, <2>1, <3>1, MoveByGoto DEF Store, TypeOK
    <3>2. CASE Fail(r)
      BY <1>6, <3>2, MoveByFail DEF Store
    <3> QED
      BY <1>6, <3>1, <3>2 DEF Store
  <2>3. deadline' \in {Never} \cup Nat
    <3>1. now + DedupTTL \in Nat
      BY <1>0, JobQueueAssumption DEF TypeOK
    <3> QED
      BY <1>0, <1>6, <3>1 DEF Store, TypeOK
  <2>4. faults' \in Nat /\ spoiled' \subseteq Ids
    BY <1>0, <1>6, <2>1 DEF Store, TypeOK
  <2> QED
    BY <1>0, <1>6, <2>2, <2>3, <2>4 DEF Store, Typed, TypeOK, ReqStates
<1>7. CASE Enqueue(r)
  <2>1. req[r].id \in Ids
    BY <1>0, <1>7 DEF Enqueue, AllSound, Sound
  <2>2. req' \in [Requests -> ReqStates] /\ AllSound' /\ answer' \in [Requests -> Answers]
    <3>1. CASE Reply(r, "queued", req[r].id)
      BY <2>1, <3>1, AnswersTold, MoveByReply
    <3>2. CASE Fail(r)
      BY <1>7, <3>2, MoveByFail DEF Enqueue
    <3> QED
      BY <1>7, <3>1, <3>2 DEF Enqueue
  <2>3. stream' \subseteq Ids /\ enqueued' \subseteq Ids /\ spoiled' \subseteq Ids
    BY <1>0, <1>7, <2>1 DEF Enqueue, TypeOK
  <2>4. faults' \in Nat
    BY <1>0, <1>7 DEF Enqueue, TypeOK
  <2> QED
    BY <1>0, <1>7, <2>2, <2>3, <2>4 DEF Enqueue, Typed, TypeOK, ReqStates
<1>8. CASE Release(r)
  <2>1. req' \in [Requests -> ReqStates] /\ AllSound' /\ answer' \in [Requests -> Answers]
    BY <1>e, <1>8, MoveByReply DEF Release
  <2>2. dedup' \in [Keys -> Ids \cup {NoJob}] /\ deadline' \in {Never} \cup Nat
    <3>1. Released(r) \in [Keys -> Ids \cup {NoJob}]
      BY <1>0 DEF TypeOK, Released
    <3> QED
      BY <1>0, <1>8, <3>1, DedupType DEF Release, TypeOK
  <2>3. faults' \in Nat
    BY <1>0, <1>8 DEF Release, TypeOK
  <2> QED
    BY <1>0, <1>8, <2>1, <2>2, <2>3 DEF Release, Typed, TypeOK, ReqStates
<1>9. CASE CheckResult(r)
  <2>1. req[r].told \in Ids /\ req[r].pc = "result"
    BY <1>0, <1>9 DEF CheckResult, AllSound, Sound
  <2>2. req' \in [Requests -> ReqStates] /\ AllSound' /\ answer' \in [Requests -> Answers]
    <3>1. CASE Reply(r, "completed", req[r].told) \/ Reply(r, "queued", req[r].told)
      BY <2>1, <3>1, AnswersTold, MoveByReply
    <3>2. CASE Goto(r, "mint") /\ answer' = answer
      BY <1>0, <2>1, <3>2, MoveByGoto DEF TypeOK
    <3> QED
      BY <1>9, <3>1, <3>2 DEF CheckResult
  <2>3. faults' \in Nat
    BY <1>0, <1>9 DEF CheckResult, TypeOK
  <2> QED
    BY <1>0, <1>9, <2>2, <2>3 DEF CheckResult, Typed, TypeOK, ReqStates
<1> QED
  BY <1>1, <1>2, <1>3, <1>4, <1>5, <1>6, <1>7, <1>8, <1>9 DEF Handle

(* The environment, and a page that is posted.                             *)
LEMMA TypedPost ==
    ASSUME Typed, NEW r \in Requests, NEW k \in Keys, NEW force \in BOOLEAN,
           Post(r, k, force)
    PROVE  Typed'
<1> DEFINE q == [pc |-> IF force THEN "mint" ELSE "lookup", key |-> k,
                 id |-> NoJob, told |-> NoJob, reserved |-> FALSE]
<1>1. q \in ReqStates /\ Sound(q)
  BY DEF ReqStates, Active, Sound
<1>2. req' = [req EXCEPT ![r] = q]
  BY DEF Post
<1> HIDE DEF q
<1>3. req' \in [Requests -> ReqStates] /\ AllSound'
  BY <1>1, <1>2, Move
<1>4. answer' \in [Requests -> Answers] /\ submits' \in Nat
  BY DEF Typed, TypeOK, Post, Answers
<1> QED
  BY <1>3, <1>4 DEF Typed, TypeOK, ReqStates, Post, Redis, History

LEMMA TypedWork ==
    ASSUME Typed, NEW id \in Ids, Work(id) \/ Trim(id) \/ ForgetResult(id)
    PROVE  Typed'
<1> USE DEF Clock, History, OneFault
<1>1. AllSound'
  BY DEF Typed, AllSound, Work, Finish, Trim, ForgetResult
<1>2. results' \in [Ids -> Results] /\ stream' \subseteq Ids
  BY DEF Typed, TypeOK, Work, Finish, Trim, ForgetResult, Results
<1>3. cached' \subseteq Keys
  BY DEF Typed, TypeOK, Work, Finish, Trim, ForgetResult, Ids
<1>4. spoiled' \subseteq Ids /\ faults' \in Nat
  BY DEF Typed, TypeOK, Work, Finish, Trim, ForgetResult
<1> QED
  BY <1>1, <1>2, <1>3, <1>4 DEF Typed, TypeOK, Work, Finish, Trim, ForgetResult

LEMMA TypedApiCrash ==
    ASSUME Typed, ApiCrash
    PROVE  Typed'
<1> USE DEF Redis, Clock, OneFault
<1>1. req' \in [Requests -> [pc: {"idle"}] \cup Active] /\ AllSound'
  BY DEF ApiCrash, Idle, AllSound, Sound
<1>2. {req[r].id : r \in {q \in Requests : req[q].pc \in {"store", "enqueue", "release"}}}
        \subseteq Ids
  BY DEF Typed, AllSound, Sound
<1>3. spoiled' \subseteq Ids /\ faults' \in Nat
  BY <1>2 DEF Typed, TypeOK, ApiCrash
<1> QED
  BY <1>1, <1>3 DEF Typed, TypeOK, ApiCrash

LEMMA TypedNext ==
    ASSUME Typed, [Next]_vars
    PROVE  Typed'
<1> USE DEF Redis, Clock, History
<1>1. ASSUME NEW k \in Keys, Edited(k)
      PROVE  Typed'
  BY <1>1 DEF Edited, Typed, TypeOK, AllSound
<1>2. CASE Tick
  <2>1. now' \in 0..MaxNow
    BY <1>2, JobQueueAssumption DEF Tick, Typed, TypeOK
  <2> QED
    BY <1>2, <2>1 DEF Tick, Typed, TypeOK, AllSound
<1>3. CASE DedupExpires
  <2>1. dedup' \in [Keys -> Ids \cup {NoJob}] /\ deadline' \in {Never} \cup Nat
    BY <1>3, DedupType DEF DedupExpires, Typed
  <2> QED
    BY <1>3, <2>1 DEF DedupExpires, Typed, TypeOK, AllSound
<1>4. CASE UNCHANGED vars
  BY <1>4 DEF vars, Typed, TypeOK, AllSound
<1> QED
  BY <1>1, <1>2, <1>3, <1>4, TypedHandle, TypedPost, TypedWork, TypedApiCrash DEF Next

(* Every variable keeps its type: ids carry a key and a time of the clock, *)
(* and a request that stores or queues has an id.                          *)
THEOREM TypeCorrect == Spec => []TypeOK
<1>1. Init => Typed
  BY TypedInit
<1>2. Typed /\ [Next]_vars => Typed'
  BY TypedNext
<1>3. Typed => TypeOK
  BY DEF Typed
<1> QED
  BY <1>1, <1>2, <1>3, PTL DEF Spec

-----------------------------------------------------------------------------
(* An id that was queued, that is being queued or that a fault spoiled     *)
(* stays one of the three.                                                 *)
LEMMA OthersStay ==
    ASSUME Typed, NEW q \in Requests, Handle(q), NEW r \in Requests, r # q
    PROVE  req'[r] = req[r] /\ answer'[r] = answer[r]
<1>0. req \in [Requests -> ReqStates] /\ answer \in [Requests -> Answers]
  BY DEF Typed, TypeOK, ReqStates
<1>1. CASE Lookup(q) \/ Discard(q) \/ Release(q) \/ CheckResult(q) \/ Reread(q)
  BY <1>0, <1>1 DEF Lookup, Discard, Release, CheckResult, Reread, Goto, Reply
<1>2. CASE Store(q) \/ Enqueue(q)
  BY <1>0, <1>2 DEF Store, Enqueue, Fail, Goto, Reply
<1>3. CASE \E n \in Stamps : Reserve(q, n) \/ Mint(q, n)
  BY <1>0, <1>3 DEF Reserve, Mint, Reply
<1> QED
  BY <1>1, <1>2, <1>3 DEF Handle

LEMMA HistoryGrows ==
    ASSUME [Next]_vars
    PROVE  enqueued \subseteq enqueued' /\ spoiled \subseteq spoiled'
<1> USE DEF History
<1>1. ASSUME NEW r \in Requests, Handle(r)
      PROVE  enqueued \subseteq enqueued' /\ spoiled \subseteq spoiled'
  <2>1. CASE Store(r) \/ Enqueue(r) \/ \E n \in Stamps : Reserve(r, n)
    BY <2>1 DEF Store, Enqueue, Reserve
  <2>2. CASE Lookup(r) \/ Discard(r) \/ Release(r) \/ CheckResult(r) \/ Reread(r)
             \/ \E n \in Stamps : Mint(r, n)
    BY <2>2 DEF Lookup, Discard, Release, CheckResult, Reread, Mint
  <2> QED
    BY <1>1, <2>1, <2>2 DEF Handle
<1>2. ASSUME NEW r \in Requests, NEW k \in Keys, NEW force \in BOOLEAN, Post(r, k, force)
      PROVE  enqueued \subseteq enqueued' /\ spoiled \subseteq spoiled'
  BY <1>2 DEF Post
<1>3. ASSUME NEW id \in Ids, Work(id) \/ Trim(id) \/ ForgetResult(id)
      PROVE  enqueued \subseteq enqueued' /\ spoiled \subseteq spoiled'
  BY <1>3 DEF Work, Finish, Trim, ForgetResult
<1>4. CASE Tick \/ DedupExpires \/ ApiCrash \/ (\E k \in Keys : Edited(k)) \/ UNCHANGED vars
  BY <1>4 DEF Tick, DedupExpires, ApiCrash, Edited, vars
<1> QED
  BY <1>1, <1>2, <1>3, <1>4 DEF Next

LEMMA RealStays ==
    ASSUME Typed, [Next]_vars, NEW id, Real(id)
    PROVE  Real(id)'
<1>1. CASE id \in enqueued \/ id \in spoiled
  BY <1>1, HistoryGrows DEF Real
<1>2. CASE InFlight(id)
  <2>1. PICK r \in Requests : req[r].pc \in {"store", "enqueue"} /\ req[r].id = id
    BY <1>2 DEF InFlight
  <2>2. SUFFICES ASSUME req'[r] # req[r]
                 PROVE  Real(id)'
    BY <2>1, <2>2 DEF Real, InFlight
  <2>3. req[r] \in Active
    BY <2>1, BusyRequest DEF Typed
  <2>4. req \in [Requests -> ReqStates]
    BY DEF Typed, TypeOK, ReqStates
  <2>5. ASSUME NEW q \in Requests, Handle(q)
        PROVE  Real(id)'
    <3>1. q = r
      BY <2>2, <2>5, OthersStay
    <3>2. Store(r) \/ Enqueue(r)
      BY <2>1, <2>5, <3>1 DEF Handle, Lookup, Discard, Reread, Release, CheckResult,
                              Reserve, Mint
    <3>3. CASE Store(r)
      <4>1. CASE Goto(r, "enqueue")
        <5>1. req'[r].pc = "enqueue" /\ req'[r].id = id
          BY <2>1, <2>3, <2>4, <4>1 DEF Goto, Active
        <5> QED
          BY <5>1 DEF Real, InFlight
      <4>2. CASE spoiled' = spoiled \cup {req[r].id}
        BY <2>1, <4>2 DEF Real
      <4> QED
        BY <3>3, <4>1, <4>2 DEF Store
    <3>4. CASE Enqueue(r)
      BY <2>1, <3>4 DEF Enqueue, Real
    <3> QED
      BY <3>2, <3>3, <3>4
  <2>6. ASSUME NEW q \in Requests, NEW k \in Keys, NEW force \in BOOLEAN, Post(q, k, force)
        PROVE  Real(id)'
    <3>1. q # r
      BY <2>1, <2>6 DEF Post
    <3> QED
      BY <2>2, <2>4, <2>6, <3>1 DEF Post
  <2>7. CASE ApiCrash
    <3>1. id \in spoiled' \/ id \in enqueued'
      BY <2>1, <2>7 DEF ApiCrash
    <3> QED
      BY <3>1 DEF Real
  <2>8. CASE \/ \E i \in Ids : Work(i) \/ Trim(i) \/ ForgetResult(i)
             \/ Tick \/ DedupExpires \/ (\E k \in Keys : Edited(k)) \/ UNCHANGED vars
    BY <2>2, <2>8 DEF Work, Finish, Trim, ForgetResult, Tick, DedupExpires, Edited, vars
  <2> QED
    BY <2>5, <2>6, <2>7, <2>8 DEF Next
<1> QED
  BY <1>1, <1>2 DEF Real

-----------------------------------------------------------------------------
(* Where promises come from: the dedup hash, a request, an answer.         *)
DedupReal  == \A k \in Keys : dedup[k] # NoJob => Real(dedup[k])
ToldReal(r) == req[r].pc # "idle" => (req[r].told # NoJob => Real(req[r].told))
AnswerReal(r) == answer[r].status \in {"queued", "completed"} => Real(answer[r].id)

LEMMA DedupStaysReal ==
    ASSUME Typed, DedupReal, [Next]_vars
    PROVE  DedupReal'
<1> SUFFICES ASSUME NEW k \in Keys, NEW new, new = dedup'[k], new # NoJob
             PROVE  Real(new)'
  BY DEF DedupReal
<1>1. CASE dedup'[k] = dedup[k]
  BY <1>1, RealStays DEF DedupReal
<1>2. CASE dedup'[k] # dedup[k]
  <2>1. dedup \in [Keys -> Ids \cup {NoJob}] /\ req \in [Requests -> ReqStates]
    BY DEF Typed, TypeOK, ReqStates
  <2>2. PICK r \in Requests : \E n \in Stamps : Reserve(r, n)
    <3>1. ASSUME NEW r \in Requests, Handle(r)
          PROVE  \E n \in Stamps : Reserve(r, n)
      <4>1. ~Discard(r) /\ ~Release(r)
        BY <1>2, <2>1 DEF Discard, Release, Released, DedupBecomes
      <4>2. ~Lookup(r) /\ ~Reread(r) /\ ~Store(r) /\ ~Enqueue(r) /\ ~CheckResult(r)
        BY <1>2 DEF Lookup, Reread, Store, Enqueue, CheckResult, Redis
      <4>3. \A n \in Stamps : ~Mint(r, n)
        BY <1>2 DEF Mint, Redis
      <4> QED
        BY <3>1, <4>1, <4>2, <4>3 DEF Handle
    <3>2. ~DedupExpires
      BY DEF DedupExpires, DedupBecomes
    <3>3. ~UNCHANGED vars /\ ~Tick /\ ~ApiCrash /\ \A i \in Keys : ~Edited(i)
      BY <1>2 DEF vars, Tick, ApiCrash, Edited, Redis
    <3>4. \A i \in Ids : ~(Work(i) \/ Trim(i) \/ ForgetResult(i))
      BY <1>2 DEF Work, Finish, Trim, ForgetResult
    <3>5. \A r \in Requests, i \in Keys, force \in BOOLEAN : ~Post(r, i, force)
      BY <1>2 DEF Post, Redis
    <3> QED
      BY <3>1, <3>2, <3>3, <3>4, <3>5 DEF Next
  <2>3. PICK n \in Stamps : Reserve(r, n)
    BY <2>2
  <2> DEFINE id == [key |-> req[r].key, at |-> now, n |-> n]
  <2>4. dedup'[k] = id
    BY <1>2, <2>1, <2>3 DEF Reserve
  <2>5. req[r] \in Active
    BY <2>3, BusyRequest DEF Reserve, Typed
  <2>6. CASE req' = [req EXCEPT ![r].pc = "store", ![r].id = id, ![r].reserved = TRUE]
    <3>1. req'[r].pc = "store" /\ req'[r].id = id
      BY <2>1, <2>5, <2>6 DEF Active
    <3> QED
      BY <2>4, <3>1 DEF Real, InFlight
  <2>7. CASE spoiled' = spoiled \cup {id}
    BY <2>4, <2>7 DEF Real
  <2> QED
    BY <1>2, <2>3, <2>6, <2>7 DEF Reserve
<1> QED
  BY <1>1, <1>2

LEMMA ToldStaysReal ==
    ASSUME Typed, DedupReal, NEW r \in Requests, ToldReal(r), [Next]_vars
    PROVE  ToldReal(r)'
<1> SUFFICES ASSUME req'[r].pc # "idle", NEW id, id = req'[r].told, id # NoJob
             PROVE  Real(id)'
  BY DEF ToldReal
<1>0. req \in [Requests -> ReqStates]
  BY DEF Typed, TypeOK, ReqStates
<1>1. CASE req[r].pc # "idle" /\ req'[r].told = req[r].told
  BY <1>1, RealStays DEF ToldReal
<1>2. CASE req[r].pc # "idle" /\ req'[r].told # req[r].told
  <2>1. req[r] \in Active
    BY <1>2, BusyRequest DEF Typed
  <2>2. req'[r].told = dedup[req[r].key]
    <3>1. ASSUME NEW q \in Requests, Handle(q)
          PROVE  req'[r].told = dedup[req[r].key]
      <4>1. q = r
        BY <1>2, <3>1, OthersStay
      <4>2. CASE Lookup(r) \/ Reread(r)
        BY <1>0, <1>2, <2>1, <4>2 DEF Lookup, Reread, Goto, Reply, Idle, Active
      <4>3. CASE Store(r) \/ Enqueue(r)
        BY <1>0, <1>2, <2>1, <4>3 DEF Store, Enqueue, Fail, Goto, Reply, Idle, Active
      <4>4. CASE Discard(r) \/ Release(r) \/ CheckResult(r)
        BY <1>0, <1>2, <2>1, <4>4 DEF Discard, Release, CheckResult, Goto, Reply, Idle, Active
      <4>5. CASE \E n \in Stamps : Reserve(r, n) \/ Mint(r, n)
        BY <1>0, <1>2, <2>1, <4>5 DEF Reserve, Mint, Reply, Idle, Active
      <4> QED
        BY <3>1, <4>1, <4>2, <4>3, <4>4, <4>5 DEF Handle
    <3>2. \A q \in Requests, k \in Keys, force \in BOOLEAN : ~Post(q, k, force)
      BY <1>0, <1>2 DEF Post
    <3>3. ~ApiCrash
      BY DEF ApiCrash, Idle
    <3>4. ~(\/ \E i \in Ids : Work(i) \/ Trim(i) \/ ForgetResult(i)
            \/ Tick \/ DedupExpires \/ (\E k \in Keys : Edited(k)) \/ UNCHANGED vars)
      BY <1>2 DEF Work, Finish, Trim, ForgetResult, Tick, DedupExpires, Edited, vars
    <3> QED
      BY <3>1, <3>2, <3>3, <3>4 DEF Next
  <2>3. Real(dedup[req[r].key])
    BY <1>2, <2>1, <2>2 DEF DedupReal, Active
  <2> QED
    BY <2>2, <2>3, RealStays
<1>3. CASE req[r].pc = "idle"
  <2>1. \A q \in Requests : ~Handle(q)
    <3> SUFFICES ASSUME NEW q \in Requests, Handle(q) PROVE FALSE
      OBVIOUS
    <3>1. q = r
      BY <1>3, OthersStay
    <3> QED
      BY <1>3, <3>1 DEF Handle, Lookup, Discard, Reread, Store, Enqueue, Release,
                        CheckResult, Reserve, Mint
  <2>2. \A q \in Requests, k \in Keys, force \in BOOLEAN : ~Post(q, k, force)
    BY <1>0, <1>3 DEF Post
  <2>3. ~ApiCrash
    BY DEF ApiCrash, Idle
  <2> QED
    BY <1>3, <2>1, <2>2, <2>3 DEF Next, Work, Finish, Trim, ForgetResult, Tick,
                                  DedupExpires, Edited, vars
<1> QED
  BY <1>1, <1>2, <1>3

LEMMA AnswerStaysReal ==
    ASSUME Typed, NEW r \in Requests, ToldReal(r), AnswerReal(r), [Next]_vars
    PROVE  AnswerReal(r)'
<1> SUFFICES ASSUME answer'[r].status \in {"queued", "completed"},
                    NEW id, id = answer'[r].id
             PROVE  Real(id)'
  BY DEF AnswerReal
<1>0. answer \in [Requests -> Answers]
  BY DEF Typed, TypeOK
<1>1. CASE answer'[r] = answer[r]
  BY <1>1, RealStays DEF AnswerReal
<1>2. CASE answer'[r] # answer[r]
  <2>1. Handle(r)
    <3>1. \A q \in Requests : Handle(q) => q = r
      BY <1>2, OthersStay
    <3>2. \A q \in Requests, k \in Keys, force \in BOOLEAN : ~Post(q, k, force)
      BY <1>0, <1>2 DEF Post, NoAnswer
    <3>3. ~(\/ \E i \in Ids : Work(i) \/ Trim(i) \/ ForgetResult(i)
            \/ ApiCrash \/ Tick \/ DedupExpires \/ (\E k \in Keys : Edited(k)) \/ UNCHANGED vars)
      BY <1>2 DEF Work, Finish, Trim, ForgetResult, Tick, DedupExpires, Edited, ApiCrash, vars
    <3> QED
      BY <3>1, <3>2, <3>3 DEF Next
  <2>2. ASSUME req[r].pc \in {"result", "store", "enqueue"}, req[r].told # NoJob,
               answer'[r].id = req[r].told
        PROVE  Real(id)'
    BY <2>2, RealStays DEF ToldReal
  <2>3. CASE Enqueue(r) /\ answer'[r].id = req[r].id /\ enqueued' = enqueued \cup {req[r].id}
    BY <2>3 DEF Real
  <2>4. \/ /\ req[r].pc \in {"result", "store", "enqueue"} /\ req[r].told # NoJob
           /\ answer'[r].id = req[r].told
        \/ /\ Enqueue(r) /\ answer'[r].id = req[r].id
           /\ enqueued' = enqueued \cup {req[r].id}
    <3>1. CASE CheckResult(r)
      <4>1. req[r].told # NoJob
        BY <3>1, JobQueueAssumption DEF CheckResult, Typed, AllSound, Sound
      <4> QED
        BY <1>0, <1>2, <3>1, <4>1 DEF CheckResult, Reply, Goto
    <3>2. CASE Store(r)
      BY <1>0, <1>2, <3>2 DEF Store, Fail, Reply, Goto
    <3>3. CASE Enqueue(r)
      BY <1>0, <1>2, <3>3 DEF Enqueue, Fail, Reply, Goto
    <3>4. CASE Lookup(r) \/ Discard(r) \/ \E n \in Stamps : Mint(r, n)
      BY <1>2, <3>4 DEF Lookup, Discard, Mint
    <3>5. CASE Release(r) \/ Reread(r) \/ \E n \in Stamps : Reserve(r, n)
      <4>1. ~Reply(r, "error", NoJob)
        BY <1>0 DEF Reply
      <4>2. answer' = answer \/ Reply(r, "error", NoJob)
        BY <3>5 DEF Release, Reread, Reserve
      <4> QED
        BY <1>2, <4>1, <4>2
    <3> QED
      BY <2>1, <3>1, <3>2, <3>3, <3>4, <3>5 DEF Handle
  <2> QED
    BY <2>2, <2>3, <2>4
<1> QED
  BY <1>1, <1>2

(* No id in the dedup hash, in a request or in an answer is a phantom: the *)
(* job was queued, is being queued, or a recorded fault took it            *)
(* (queue.go 91-127).                                                      *)
THEOREM PromisesAreReal == Spec => []PromisedJobIsReal
<1> DEFINE Kept == DedupReal /\ \A r \in Requests : ToldReal(r) /\ AnswerReal(r)
<1>1. Init => Typed /\ Kept
  <2> SUFFICES ASSUME Init PROVE Kept
    BY TypedInit
  <2> QED
    BY DEF Init, Idle, NoAnswer, DedupReal, ToldReal, AnswerReal
<1>2. Typed /\ Kept /\ [Next]_vars => Typed' /\ Kept'
  <2> SUFFICES ASSUME Typed, Kept, [Next]_vars PROVE Kept'
    BY TypedNext
  <2>1. DedupReal'
    BY DedupStaysReal
  <2>2. ASSUME NEW r \in Requests PROVE ToldReal(r)' /\ AnswerReal(r)'
    BY <2>2, ToldStaysReal, AnswerStaysReal
  <2> QED
    BY <2>1, <2>2
<1>3. Kept => PromisedJobIsReal
  BY DEF DedupReal, ToldReal, AnswerReal, PromisedJobIsReal
<1> HIDE DEF Kept
<1> QED
  BY <1>1, <1>2, <1>3, PTL DEF Spec

-----------------------------------------------------------------------------
(* Who takes a reservation away.                                           *)
Removed(k) == dedup[k] # NoJob /\ dedup'[k] # dedup[k]
Justified(k) ==
    \/ \E r \in Requests :
          \/ req[r].pc = "release" /\ req'[r].pc = "idle" /\ req[r].id = dedup[k]
          \/ req[r].pc = "discard" /\ req'[r].pc = "reserve" /\ req[r].key = k
    \/ deadline # Never /\ now >= deadline

LEMMA RemovalByRequest ==
    ASSUME Typed, NEW r \in Requests, Handle(r), NEW k \in Keys, Removed(k)
    PROVE  Justified(k)
<1>0. dedup \in [Keys -> Ids \cup {NoJob}] /\ req \in [Requests -> ReqStates]
  BY DEF Typed, TypeOK, ReqStates
<1>1. CASE Discard(r)
  <2>1. dedup' = [dedup EXCEPT ![req[r].key] = NoJob]
    BY <1>1 DEF Discard, DedupBecomes, Removed
  <2>2. req[r].key = k
    BY <1>0, <2>1 DEF Removed
  <2>3. req[r] \in Active
    BY <1>1, BusyRequest DEF Discard, Typed
  <2>4. req[r].pc = "discard" /\ req'[r].pc = "reserve"
    BY <1>0, <1>1, <2>3 DEF Discard, Goto, Active
  <2> QED
    BY <2>2, <2>4 DEF Justified
<1>2. CASE Release(r)
  <2>1. dedup' = Released(r)
    BY <1>2 DEF Release, DedupBecomes, Removed
  <2>2. req[r].id = dedup[k]
    BY <1>0, <2>1 DEF Released, Removed
  <2>3. req[r].pc = "release" /\ req'[r].pc = "idle"
    BY <1>0, <1>2 DEF Release, Reply, Idle
  <2> QED
    BY <2>2, <2>3 DEF Justified
<1>3. ASSUME NEW n \in Stamps, Reserve(r, n)
      PROVE  FALSE
  BY <1>0, <1>3 DEF Reserve, Removed
<1>4. ~(Lookup(r) \/ Reread(r) \/ Store(r) \/ Enqueue(r) \/ CheckResult(r)
          \/ \E n \in Stamps : Mint(r, n))
  BY DEF Lookup, Reread, Store, Enqueue, CheckResult, Mint, Redis, Removed
<1> QED
  BY <1>1, <1>2, <1>3, <1>4 DEF Handle

(* Only its own request, a request that saw it stale or the expiry of the  *)
(* hash takes a reservation out of the dedup hash (queue.go 101-107,       *)
(* 213-227).                                                               *)
THEOREM OnlyOwnersRelease == Spec => ReservationRemovedByOwner
<1>1. Typed /\ [Next]_vars => [\A k \in Keys : Removed(k) => Justified(k)]_vars
  <2> SUFFICES ASSUME Typed, Next, NEW k \in Keys, Removed(k)
               PROVE  Justified(k)
    OBVIOUS
  <2>1. CASE \E r \in Requests : Handle(r)
    BY <2>1, RemovalByRequest
  <2>2. CASE DedupExpires
    BY <2>2 DEF DedupExpires, Justified
  <2>3. \A r \in Requests, i \in Keys, force \in BOOLEAN : ~Post(r, i, force)
    BY DEF Post, Redis, Removed
  <2>4. \A i \in Ids : ~(Work(i) \/ Trim(i) \/ ForgetResult(i))
    BY DEF Work, Finish, Trim, ForgetResult, Removed
  <2>5. ~Tick /\ ~ApiCrash /\ \A i \in Keys : ~Edited(i)
    BY DEF Tick, ApiCrash, Edited, Redis, Removed
  <2> QED
    BY <2>1, <2>2, <2>3, <2>4, <2>5 DEF Next
<1>2. ReservationRemovedByOwner <=> [][\A k \in Keys : Removed(k) => Justified(k)]_vars
  BY DEF ReservationRemovedByOwner, Removed, Justified
<1>3. Init => Typed
  BY TypedInit
<1>4. Typed /\ [Next]_vars => Typed'
  BY TypedNext
<1> QED
  BY <1>1, <1>2, <1>3, <1>4, PTL DEF Spec

=============================================================================
