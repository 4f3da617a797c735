------------------------ MODULE InpaintSupervisorProofs ------------------------
(***************************************************************************)
(* Proofs about InpaintSupervisor, for any number of threads and calls and  *)
(* for both callers: the types, that a call composites the tiles of its own *)
(* request, that a child whose request failed is not asked again, and that  *)
(* one model process lives until a reset races with a call.                 *)
(*                                                                         *)
(* No property is inductive.  IInv adds: numbers that are not in use yet    *)
(* name nothing (Numbers); the steps under the lock hold it, and what they  *)
(* use is still the global supervisor or was forgotten (Locking); and what  *)
(* may lie in the sockets of the child a call works on, step by step        *)
(* (Sockets).  A reset without the lock only forgets and empties, so it     *)
(* disturbs none of them.  Until such a reset meets a call under the lock,  *)
(* Serial holds as well: the child of the global supervisor is the only one *)
(* that lives, and what a call uses has not been forgotten.                 *)
(***************************************************************************)
EXTENDS InpaintSupervisor, FiniteSetTheorems, TLAPS

Locked == {"stage", "pick", "run", "ready", "send", "reply", "read", "failed", "raising"}

(* Nothing carries number n yet. *)
Fresh(n) ==
    /\ supervisor # n /\ process[n] = 0 /\ child[n] = "none"
    /\ \A u \in Threads : using[u] # n

(* A number belongs to one call. *)
Distinct == \A t, u \in Threads : t # u /\ call[t] # 0 => call[u] # call[t]

Unused == \A n \in Calls : result[n] = "none" /\ (\A u \in Threads : call[u] # n) => Fresh(n)

(* The number of thread t's call, along the call. *)
Numbered(t) ==
    /\ pc[t] = "idle" /\ call[t] # 0 => result[call[t]] # "none"
    /\ pc[t] # "idle" => call[t] \in Calls /\ result[call[t]] = "none"
    /\ pc[t] \in {"enter", "stage", "pick"} => using[t] = 0 /\ Fresh(call[t])
    /\ pc[t] = "run" => child[call[t]] = "none"

Born ==
    /\ \A s \in Calls : process[s] # 0 => child[process[s]] # "none"
    /\ \A c \in Calls :
        child[c] = "none" => Len(inbox[c]) = 0 /\ Len(outbox[c]) = 0 /\ asked[c] = {}

Numbers == Distinct /\ Unused /\ (\A t \in Threads : Numbered(t)) /\ Born

Locking ==
    \A t \in Threads :
        /\ pc[t] \in Locked => lock = t /\ (using[t] # 0 => supervisor \in {0, using[t]})
        /\ pc[t] \in {"ready", "send", "reply", "read"} => using[t] # 0

(* No call but n has asked child c and failed.                             *)
Trusted(c, n) == \A m \in asked[c] : m = n \/ result[m] = "lama"

(* Child c has loaded, has nothing to do, and never failed. *)
Quiet(c) ==
    /\ child[c] # "loading" /\ Len(inbox[c]) = 0 /\ Len(outbox[c]) = 0
    /\ Trusted(c, 0)

(* Child c was asked by call n, and by nobody else since it was quiet. *)
Busy(c, n) ==
    /\ child[c] # "loading" /\ Len(inbox[c]) + Len(outbox[c]) <= 1
    /\ \A i \in 1..Len(inbox[c]) : inbox[c][i] = n
    /\ \A i \in 1..Len(outbox[c]) : outbox[c][i].of = n
    /\ Trusted(c, n)

Answered(c, n) ==
    /\ child[c] # "loading" /\ Len(inbox[c]) = 0 /\ Len(outbox[c]) = 0
    /\ Trusted(c, n)

(* Child c loads, or has said so. *)
Starting(c) ==
    /\ Len(inbox[c]) = 0 /\ asked[c] = {}
    /\ Len(outbox[c]) <= 1 /\ (child[c] = "loading" => Len(outbox[c]) = 0)

(* Of the child that thread t works on. *)
Working(t, c) ==
    /\ pc[t] \in {"run", "send"} => Quiet(c)
    /\ pc[t] = "ready" => c = call[t] /\ Starting(c)
    /\ pc[t] = "reply" => Busy(c, call[t])
    /\ pc[t] = "read" => Answered(c, call[t])

Occupied(t) ==
    /\ \A c \in Calls : using[t] # 0 /\ process[using[t]] = c => Working(t, c)
    /\ pc[t] = "ready" => Starting(call[t])
    /\ pc[t] = "read" => answer[t] = call[t]

(* The child of the global supervisor is fit for the next call, unless the  *)
(* thread that holds the lock is at work on it or about to reset it.        *)
Busying == {"ready", "reply", "read", "failed", "raising"}

Owned ==
    \A c \in Calls : supervisor # 0 /\ process[supervisor] = c =>
        \/ Quiet(c)
        \/ \E t \in Threads : pc[t] \in Busying /\ using[t] = supervisor

Sockets == (\A t \in Threads : Occupied(t)) /\ Owned

IInv == TypeOK /\ Numbers /\ Locking /\ Sockets

-----------------------------------------------------------------------------
(* What the longer actions come to.                                         *)

Unmoved(c) == inbox'[c] = inbox[c] /\ outbox'[c] = outbox[c] /\ child'[c] = child[c]

(* A reset forgets the global supervisor, and at most stops a child and     *)
(* empties its sockets.                                                     *)
Forgets ==
    /\ supervisor' = 0 /\ asked' = asked
    /\ process' \in [Calls -> Handles]
    /\ child' \in [Calls -> {"none", "loading", "waiting", "gone"}]
    /\ inbox' \in [Calls -> Seq(Calls)] /\ outbox' \in [Calls -> Seq(Replies)]
    /\ \A s \in Calls : process'[s] \in {0, process[s]}
    /\ \A c \in Calls :
        \/ Unmoved(c)
        \/ /\ \E s \in Calls : process[s] = c
           /\ child'[c] = "gone" /\ inbox'[c] = <<>> /\ outbox'[c] = <<>>

LEMMA ResetForgets == ASSUME TypeOK, ResetBackend PROVE Forgets
<1>1. CASE supervisor = 0 \/ process[supervisor] = 0
  BY <1>1 DEF ResetBackend, TypeOK, model, Forgets, Unmoved
<1>2. CASE ~(supervisor = 0 \/ process[supervisor] = 0)
  <2>1. Close(supervisor) /\ supervisor' = 0
    BY <1>2 DEF ResetBackend
  <2>2. PICK s \in Calls, d \in Calls : s = supervisor /\ d = process[s]
    BY <1>2, InpaintAssumption DEF TypeOK, Calls, Handles
  <2>3. /\ process' = [process EXCEPT ![s] = 0]
        /\ child' = [c \in Calls |-> IF c = d THEN "gone" ELSE child[c]]
        /\ inbox' = [inbox EXCEPT ![d] = <<>>] /\ outbox' = [outbox EXCEPT ![d] = <<>>]
        /\ asked' = asked
    BY <2>1, <2>2 DEF Close
  <2>4. /\ process' \in [Calls -> Handles]
        /\ child' \in [Calls -> {"none", "loading", "waiting", "gone"}]
        /\ \A n \in Calls : process'[n] \in {0, process[n]}
    BY <2>3, InpaintAssumption DEF TypeOK, Calls, Handles
  <2>5. /\ inbox' \in [Calls -> Seq(Calls)] /\ outbox' \in [Calls -> Seq(Replies)]
        /\ inbox'[d] = <<>> /\ outbox'[d] = <<>> /\ child'[d] = "gone"
    BY <2>2, <2>3 DEF TypeOK
  <2>6. \A c \in Calls : c # d => Unmoved(c)
    BY <2>3 DEF TypeOK, Unmoved
  <2> QED
    BY <2>1, <2>2, <2>3, <2>4, <2>5, <2>6 DEF Forgets
<1> QED
  BY <1>1, <1>2

LEMMA TailOfSeq ==
    ASSUME NEW S, NEW q \in Seq(S), q # <<>>
    PROVE  /\ Head(q) \in S /\ Head(q) = q[1] /\ Tail(q) \in Seq(S)
           /\ Len(q) >= 1 /\ Len(Tail(q)) = Len(q) - 1
OBVIOUS

(* The message at the head of an outbox is taken. *)
Takes(c) ==
    /\ outbox[c] # <<>>
    /\ outbox' = [outbox EXCEPT ![c] = Tail(outbox[c])]

LEMMA ReadyOutcome ==
    ASSUME NEW t \in Threads, AwaitReady(t)
    PROVE  \E step \in {"send", "failed", "raising"} :
             /\ pc[t] = "ready" /\ pc' = [pc EXCEPT ![t] = step]
             /\ Takes(call[t]) \/ (outbox' = outbox /\ step = "failed")
             /\ UNCHANGED <<call, late, using, answer, result, lock, supervisor,
                            process, child, inbox, asked, raced>>
BY DEF AwaitReady, Takes, Goto, Fail, AdapterError

LEMMA SendOutcome ==
    ASSUME NEW t \in Threads, SendRequest(t)
    PROVE  /\ pc[t] = "send"
           /\ UNCHANGED <<call, late, using, answer, supervisor, process, child, outbox, raced>>
           /\ \/ /\ pc' = [pc EXCEPT ![t] = "reply"] /\ UNCHANGED <<result, lock>>
                 /\ \E c : /\ c = process[using[t]] /\ c # 0 /\ Alive(c)
                           /\ inbox' = [inbox EXCEPT ![c] = Append(inbox[c], call[t])]
                           /\ asked' = [asked EXCEPT ![c] = asked[c] \cup {call[t]}]
              \/ /\ pc' = [pc EXCEPT ![t] = "failed"]
                 /\ UNCHANGED <<result, lock, inbox, asked>>
              \/ /\ pc' = [pc EXCEPT ![t] = "idle"] /\ process[using[t]] = 0
                 /\ result' = [result EXCEPT ![call[t]] = "raised"] /\ lock' = NoThread
                 /\ UNCHANGED <<inbox, asked>>
BY DEF SendRequest, Fail, Escape, Return, Goto

LEMMA ReplyOutcome ==
    ASSUME NEW t \in Threads, ReceiveReply(t)
    PROVE  /\ pc[t] = "reply"
           /\ UNCHANGED <<call, late, using, supervisor, process, child, inbox, asked, raced>>
           /\ \/ \E step \in {"read", "failed", "raising"} : \E c :
                    /\ pc' = [pc EXCEPT ![t] = step] /\ UNCHANGED <<result, lock>>
                    /\ c = process[using[t]] /\ c # 0 /\ Takes(c)
                    /\ answer' = [answer EXCEPT ![t] = Head(outbox[c]).of]
              \/ /\ pc' = [pc EXCEPT ![t] = "failed"]
                 /\ UNCHANGED <<result, lock, outbox, answer>>
              \/ /\ pc' = [pc EXCEPT ![t] = "idle"] /\ process[using[t]] = 0
                 /\ result' = [result EXCEPT ![call[t]] = "raised"] /\ lock' = NoThread
                 /\ UNCHANGED <<outbox, answer>>
<1> DEFINE c == process[using[t]]
<1>1. CASE c # 0 /\ outbox[c] # <<>> /\ ~late[t] /\ outbox' # outbox
  BY <1>1 DEF ReceiveReply, Takes, Fail, AdapterError, Escape, Return, Goto
<1> QED
  BY <1>1 DEF ReceiveReply, Takes, Fail, AdapterError, Escape, Return, Goto

(* A child says one thing: it loaded, or what became of the request at the  *)
(* head of its inbox.                                                       *)
LEMMA LoadOutcome ==
    ASSUME TypeOK, NEW c \in Calls, Load(c)
    PROVE  /\ child[c] = "loading"
           /\ UNCHANGED <<pc, call, late, using, answer, result, lock, supervisor,
                          process, inbox, asked, raced>>
           /\ \E life \in {"waiting", "gone"}, r \in Replies :
                /\ child' = [child EXCEPT ![c] = life]
                /\ outbox' = [outbox EXCEPT ![c] = Append(outbox[c], r)]
<1>1. \E status \in {"ready", "error", "unexpected"}, life \in {"waiting", "gone"} :
        /\ child' = [child EXCEPT ![c] = life]
        /\ outbox' = [outbox EXCEPT ![c] = Append(outbox[c], [status |-> status, of |-> 0])]
  BY DEF Load, Say
<1>2. 0 \in Handles
  BY InpaintAssumption DEF Handles
<1>3. \A status \in {"ready", "error", "unexpected"} : [status |-> status, of |-> 0] \in Replies
  BY <1>2 DEF Replies
<1> QED
  BY <1>1, <1>3 DEF Load, thread

LEMMA ExecuteOutcome ==
    ASSUME TypeOK, NEW c \in Calls, Execute(c)
    PROVE  /\ child[c] = "waiting" /\ inbox[c] # <<>>
           /\ UNCHANGED <<pc, call, late, using, answer, result, lock, supervisor,
                          process, asked, raced>>
           /\ inbox' = [inbox EXCEPT ![c] = Tail(inbox[c])]
           /\ \E life \in {"waiting", "gone"}, r \in Replies :
                /\ child' = [child EXCEPT ![c] = life] /\ r.of = Head(inbox[c])
                /\ outbox' = [outbox EXCEPT ![c] = Append(outbox[c], r)]
<1>1. \E status \in {"ok", "error", "unexpected"}, life \in {"waiting", "gone"} :
        /\ child' = [child EXCEPT ![c] = life]
        /\ outbox' = [outbox EXCEPT ![c] =
                        Append(outbox[c], [status |-> status, of |-> Head(inbox[c])])]
  BY DEF Execute, Say, TypeOK
<1>2. Head(inbox[c]) \in Calls
  BY DEF Execute, TypeOK
<1>3. \A status \in {"ok", "error", "unexpected"} :
        [status |-> status, of |-> Head(inbox[c])] \in Replies
  BY <1>2 DEF Replies, Calls, Handles
<1> QED
  BY <1>1, <1>3 DEF Execute, thread

-----------------------------------------------------------------------------
(* Types.                                                                   *)

LEMMA TakesTypes ==
    ASSUME outbox \in [Calls -> Seq(Replies)], NEW c \in Calls, Takes(c)
    PROVE  outbox' \in [Calls -> Seq(Replies)] /\ Head(outbox[c]) \in Replies
BY DEF Takes

LEMMA ForgottenTypes ==
    ASSUME TypeOK, Forgets, UNCHANGED <<call, late, using, answer>>,
           raced' \in BOOLEAN, pc' \in [Threads -> Steps], result' \in [Calls -> Results],
           lock' \in Threads \cup {NoThread}
    PROVE  TypeOK'
<1>1. 0 \in Handles
  BY InpaintAssumption DEF Handles
<1> QED
  BY <1>1, Zenon DEF TypeOK, Forgets

LEMMA StepTypes == ASSUME TypeOK, Numbers, Locking, [Next]_vars PROVE TypeOK'
<1> USE InpaintAssumption DEF Calls, Handles
<1>1. ASSUME NEW t \in Threads, Begin(t) PROVE TypeOK'
  BY <1>1 DEF Begin, TypeOK, Goto, model, Steps
<1>2. ASSUME NEW t \in Threads, Expire(t) PROVE TypeOK'
  BY <1>2 DEF Expire, TypeOK, model
<1>3. ASSUME NEW t \in Threads, GiveUpWaiting(t) PROVE TypeOK'
  <2>1. Forgets
    BY <1>3, ResetForgets DEF GiveUpWaiting, UnlockedReset
  <2>2. raced' \in BOOLEAN
    BY <1>3 DEF GiveUpWaiting, UnlockedReset, TypeOK
  <2>3. pc' \in [Threads -> Steps] /\ result' \in [Calls -> Results]
    BY <1>3 DEF GiveUpWaiting, TypeOK, Goto, Return, Steps, Results
  <2>4. UNCHANGED <<call, late, using, answer, lock>>
    BY <1>3 DEF GiveUpWaiting
  <2>5. lock' \in Threads \cup {NoThread}
    BY <2>4 DEF TypeOK
  <2> QED
    BY <2>1, <2>2, <2>3, <2>4, <2>5, ForgottenTypes
<1>4. ASSUME NEW t \in Threads, AcquireLock(t) PROVE TypeOK'
  BY <1>4 DEF AcquireLock, TypeOK, Goto, model, Steps
<1>5. ASSUME NEW t \in Threads, StageArtifacts(t) PROVE TypeOK'
  BY <1>5 DEF StageArtifacts, Fail, AdapterError, TypeOK, Goto, model, Steps
<1>6. ASSUME NEW t \in Threads, PickSupervisor(t) PROVE TypeOK'
  BY <1>6 DEF PickSupervisor, TypeOK, Goto, model, Steps
<1>7. ASSUME NEW t \in Threads, CallRun(t) PROVE TypeOK'
  BY <1>7 DEF CallRun, Escape, Return, TypeOK, Goto, model, Steps, Results
<1>8. ASSUME NEW t \in Threads, KeepChild(t) PROVE TypeOK'
  BY <1>8 DEF KeepChild, TypeOK, Goto, model, Steps
<1>9. ASSUME NEW t \in Threads, StartChild(t) PROVE TypeOK'
  BY <1>9 DEF StartChild, TypeOK, Goto, Steps
<1>10. ASSUME NEW t \in Threads, AwaitReady(t) PROVE TypeOK'
  <2>1. call[t] \in Calls /\ pc[t] = "ready"
    BY <1>10 DEF AwaitReady, Numbers, Numbered
  <2>2. outbox' \in [Calls -> Seq(Replies)]
    BY <1>10, <2>1, ReadyOutcome, TakesTypes DEF TypeOK
  <2>3. pc' \in [Threads -> Steps]
    BY <1>10, ReadyOutcome DEF TypeOK, Steps
  <2> QED
    BY <1>10, <2>2, <2>3, ReadyOutcome DEF TypeOK
<1>11. ASSUME NEW t \in Threads, SendRequest(t) PROVE TypeOK'
  <2>1. call[t] \in Calls /\ using[t] \in Calls /\ pc[t] = "send"
    BY <1>11 DEF SendRequest, Numbers, Numbered, Locking, TypeOK
  <2>2. pc' \in [Threads -> Steps] /\ result' \in [Calls -> Results]
        /\ lock' \in Threads \cup {NoThread}
    <3>1. PICK step \in Steps : pc' = [pc EXCEPT ![t] = step]
      BY <1>11, SendOutcome DEF Steps
    <3>2. result' = result \/ result' = [result EXCEPT ![call[t]] = "raised"]
      BY <1>11, SendOutcome
    <3>3. lock' \in {lock, NoThread}
      BY <1>11, SendOutcome
    <3> QED
      BY <3>1, <3>2, <3>3 DEF TypeOK, Results
  <2>3. inbox' \in [Calls -> Seq(Calls)] /\ asked' \in [Calls -> SUBSET Calls]
    <3>1. CASE UNCHANGED <<inbox, asked>>
      BY <3>1 DEF TypeOK
    <3>2. ASSUME NEW c, c = process[using[t]], c # 0,
                 inbox' = [inbox EXCEPT ![c] = Append(inbox[c], call[t])],
                 asked' = [asked EXCEPT ![c] = asked[c] \cup {call[t]}]
          PROVE  <2>3!:
      <4>1. c \in Calls
        BY <2>1, <3>2 DEF TypeOK
      <4>2. Append(inbox[c], call[t]) \in Seq(Calls)
        BY <2>1, <4>1 DEF TypeOK
      <4> QED
        BY <2>1, <3>2, <4>1, <4>2 DEF TypeOK
    <3> QED
      BY <1>11, <3>1, <3>2, SendOutcome
  <2> QED
    BY <1>11, <2>2, <2>3, SendOutcome DEF TypeOK
<1>12. ASSUME NEW t \in Threads, ReceiveReply(t) PROVE TypeOK'
  <2>1. using[t] \in Calls /\ pc[t] = "reply"
    BY <1>12 DEF ReceiveReply, Locking, TypeOK
  <2>2. pc' \in [Threads -> Steps] /\ result' \in [Calls -> Results]
        /\ lock' \in Threads \cup {NoThread}
    <3>1. PICK step \in Steps : pc' = [pc EXCEPT ![t] = step]
      BY <1>12, ReplyOutcome DEF Steps
    <3>2. result' = result \/ result' = [result EXCEPT ![call[t]] = "raised"]
      BY <1>12, ReplyOutcome
    <3>3. lock' \in {lock, NoThread}
      BY <1>12, ReplyOutcome
    <3> QED
      BY <3>1, <3>2, <3>3 DEF TypeOK, Results
  <2>3. outbox' \in [Calls -> Seq(Replies)] /\ answer' \in [Threads -> Handles]
    <3>1. CASE UNCHANGED <<outbox, answer>>
      BY <3>1 DEF TypeOK
    <3>2. ASSUME NEW c, c = process[using[t]], c # 0, Takes(c),
                 answer' = [answer EXCEPT ![t] = Head(outbox[c]).of]
          PROVE  <2>3!:
      <4>1. c \in Calls
        BY <2>1, <3>2 DEF TypeOK
      <4>2. Head(outbox[c]).of \in Handles
        BY <3>2, <4>1, TakesTypes DEF TypeOK, Replies
      <4> QED
        BY <3>2, <4>1, <4>2, TakesTypes DEF TypeOK
    <3> QED
      BY <1>12, <3>1, <3>2, ReplyOutcome
  <2> QED
    BY <1>12, <2>2, <2>3, ReplyOutcome DEF TypeOK
<1>13. ASSUME NEW t \in Threads, ReadArtifacts(t) PROVE TypeOK'
  BY <1>13 DEF ReadArtifacts, Fail, Return, TypeOK, Goto, model, Steps, Results
<1>14. ASSUME NEW t \in Threads, ResetAfterFailure(t) \/ RaiseAdapterError(t) \/ ResetAgain(t)
       PROVE TypeOK'
  <2>1. Forgets
    BY <1>14, ResetForgets DEF ResetAfterFailure, RaiseAdapterError, ResetAgain, UnlockedReset
  <2>2. raced' \in BOOLEAN
    BY <1>14, Zenon DEF ResetAfterFailure, RaiseAdapterError, ResetAgain, UnlockedReset, TypeOK
  <2>3. /\ pc' \in [Threads -> Steps] /\ result' \in [Calls -> Results]
        /\ lock' \in Threads \cup {NoThread}
    BY <1>14 DEF ResetAfterFailure, RaiseAdapterError, ResetAgain, TypeOK, Goto, Return, Steps, Results
  <2>4. UNCHANGED <<call, late, using, answer>>
    BY <1>14 DEF ResetAfterFailure, RaiseAdapterError, ResetAgain
  <2> QED
    BY <2>1, <2>2, <2>3, <2>4, ForgottenTypes
<1>15. ASSUME NEW c \in Calls, Load(c) PROVE TypeOK'
  <2>1. PICK life \in {"waiting", "gone"}, r \in Replies :
            /\ child' = [child EXCEPT ![c] = life]
            /\ outbox' = [outbox EXCEPT ![c] = Append(outbox[c], r)]
    BY <1>15, LoadOutcome
  <2>2. Append(outbox[c], r) \in Seq(Replies)
    BY DEF TypeOK
  <2> QED
    BY <1>15, <2>1, <2>2, LoadOutcome DEF TypeOK
<1>16. ASSUME NEW c \in Calls, Execute(c) PROVE TypeOK'
  <2>1. PICK life \in {"waiting", "gone"}, r \in Replies :
            /\ child' = [child EXCEPT ![c] = life]
            /\ outbox' = [outbox EXCEPT ![c] = Append(outbox[c], r)]
    BY <1>16, ExecuteOutcome
  <2>2. Append(outbox[c], r) \in Seq(Replies)
    BY DEF TypeOK
  <2>3. inbox' = [inbox EXCEPT ![c] = Tail(inbox[c])] /\ inbox[c] # <<>>
    BY <1>16, ExecuteOutcome
  <2>4. inbox[c] \in Seq(Calls)
    BY DEF TypeOK
  <2>5. Tail(inbox[c]) \in Seq(Calls)
    BY <2>3, <2>4, TailOfSeq
  <2> QED
    BY <1>16, <2>1, <2>2, <2>3, <2>5, ExecuteOutcome DEF TypeOK
<1>17. ASSUME NEW c \in Calls, Crash(c) PROVE TypeOK'
  BY <1>17 DEF Crash, TypeOK, thread
<1>18. CASE UNCHANGED vars
  BY <1>18 DEF vars, thread, model, TypeOK
<1> QED
  BY <1>1, <1>2, <1>3, <1>4, <1>5, <1>6, <1>7, <1>8, <1>9, <1>10, <1>11, <1>12, <1>13, <1>14,
     <1>15, <1>16, <1>17, <1>18 DEF Next, Step

-----------------------------------------------------------------------------
(* Numbers.                                                                 *)

(* What every step of a thread but Begin leaves alone: no call begins, and  *)
(* at most the call of t ends.                                              *)
Onward(t) ==
    /\ pc[t] # "idle" /\ call' = call
    /\ \A u \in Threads : u # t => /\ pc'[u] = pc[u] /\ using'[u] = using[u]
                                   /\ answer'[u] = answer[u]
    /\ \/ result' = result /\ pc'[t] # "idle"
       \/ pc'[t] = "idle" /\ \E outcome \in Results \ {"none"} :
                               result' = [result EXCEPT ![call[t]] = outcome]

LEMMA StepOnward ==
    ASSUME TypeOK, NEW t \in Threads, Expire(t) \/ Step(t)
    PROVE  Onward(t)
<1>1. CASE Expire(t)
  BY <1>1 DEF Expire, Onward
<1>2. CASE GiveUpWaiting(t)
  BY <1>2 DEF GiveUpWaiting, Return, Goto, Onward, TypeOK, Results
<1>3. CASE AcquireLock(t)
  BY <1>3 DEF AcquireLock, Goto, Onward, TypeOK
<1>4. CASE StageArtifacts(t)
  BY <1>4 DEF StageArtifacts, Fail, AdapterError, Goto, Onward, TypeOK
<1>5. CASE PickSupervisor(t)
  BY <1>5 DEF PickSupervisor, Goto, Onward, TypeOK
<1>6. CASE CallRun(t)
  BY <1>6 DEF CallRun, Escape, Return, Goto, Onward, TypeOK, Results
<1>7. CASE KeepChild(t)
  BY <1>7 DEF KeepChild, Goto, Onward, TypeOK
<1>8. CASE StartChild(t)
  BY <1>8 DEF StartChild, Goto, Onward, TypeOK
<1>9. CASE AwaitReady(t)
  BY <1>9, ReadyOutcome DEF Onward, TypeOK
<1>10. CASE SendRequest(t)
  <2>1. pc[t] = "send" /\ call' = call /\ using' = using /\ answer' = answer
    BY <1>10, SendOutcome
  <2>2. \/ result' = result /\ \E step \in Steps \ {"idle"} : pc' = [pc EXCEPT ![t] = step]
        \/ pc' = [pc EXCEPT ![t] = "idle"] /\ result' = [result EXCEPT ![call[t]] = "raised"]
    BY <1>10, SendOutcome DEF Steps
  <2> QED
    BY <2>1, <2>2 DEF Onward, TypeOK, Results
<1>11. CASE ReceiveReply(t)
  <2>1. /\ pc[t] = "reply" /\ call' = call /\ using' = using
        /\ \E step \in Steps : pc' = [pc EXCEPT ![t] = step]
        /\ answer' = answer \/ \E n : answer' = [answer EXCEPT ![t] = n]
    BY <1>11, ReplyOutcome DEF Steps
  <2>2. \/ result' = result /\ \E step \in Steps \ {"idle"} : pc' = [pc EXCEPT ![t] = step]
        \/ pc' = [pc EXCEPT ![t] = "idle"] /\ result' = [result EXCEPT ![call[t]] = "raised"]
    BY <1>11, ReplyOutcome DEF Steps
  <2> QED
    BY <2>1, <2>2 DEF Onward, TypeOK, Results
<1>12. CASE ReadArtifacts(t)
  BY <1>12 DEF ReadArtifacts, Fail, Return, Goto, Onward, TypeOK, Results
<1>13. CASE ResetAfterFailure(t)
  BY <1>13 DEF ResetAfterFailure, Return, Goto, Onward, TypeOK, Results
<1>14. CASE RaiseAdapterError(t)
  BY <1>14 DEF RaiseAdapterError, Return, Goto, Onward, TypeOK, Results
<1>15. CASE ResetAgain(t)
  BY <1>15 DEF ResetAgain, Return, Goto, Onward, TypeOK, Results
<1> QED
  BY <1>1, <1>2, <1>3, <1>4, <1>5, <1>6, <1>7, <1>8, <1>9, <1>10, <1>11, <1>12, <1>13, <1>14,
     <1>15 DEF Step

(* What it does to the numbers that calls, supervisors and children carry.  *)
Marks(t) ==
    /\ \/ supervisor' \in {0, supervisor}
       \/ pc[t] = "pick" /\ supervisor' = call[t]
    /\ using'[t] \in {using[t], supervisor}
    /\ \A s \in Calls : \/ process'[s] \in {0, process[s]}
                        \/ using[t] = s /\ process'[s] = call[t] /\ child'[call[t]] # "none"
    /\ \A c \in Calls :
        /\ child'[c] = "none" => /\ child[c] = "none" /\ inbox'[c] = inbox[c]
                                 /\ outbox'[c] = outbox[c] /\ asked'[c] = asked[c]
        /\ child[c] = "none" => child'[c] = "none" \/ c = call[t]
    /\ pc'[t] \in {"enter", "stage", "pick"} =>
        /\ pc[t] \in {"enter", "stage", "pick"}
        /\ supervisor' = supervisor /\ process' = process
        /\ child' = child /\ using' = using
    /\ pc'[t] = "run" => pc[t] \in {"pick", "run"} /\ child' = child

LEMMA ForgetsMarks ==
    ASSUME TypeOK, Born, Forgets, NEW t \in Threads, using' = using,
           pc'[t] \in {"idle", "again"}
    PROVE  Marks(t)
<1>1. \A c \in Calls :
        /\ child'[c] = "none" => /\ child[c] = "none" /\ inbox'[c] = inbox[c]
                                 /\ outbox'[c] = outbox[c] /\ asked'[c] = asked[c]
        /\ child[c] = "none" => child'[c] = "none"
  BY DEF Forgets, Unmoved, Born, Calls
<1> QED
  BY <1>1 DEF Forgets, Marks

LEMMA StepMarks ==
    ASSUME TypeOK, Numbers, Locking, NEW t \in Threads, Expire(t) \/ Step(t)
    PROVE  Marks(t)
<1>1. CASE Expire(t)
  BY <1>1 DEF Expire, Marks, model
<1>2. CASE GiveUpWaiting(t)
  <2>1. Forgets
    BY <1>2, ResetForgets DEF GiveUpWaiting, UnlockedReset
  <2>2. using' = using /\ pc'[t] \in {"idle", "again"}
    BY <1>2 DEF GiveUpWaiting, Return, Goto, TypeOK
  <2> QED
    BY <2>1, <2>2, ForgetsMarks DEF Numbers
<1>3. CASE AcquireLock(t)
  BY <1>3 DEF AcquireLock, Goto, Marks, model, TypeOK
<1>4. CASE StageArtifacts(t)
  BY <1>4 DEF StageArtifacts, Fail, AdapterError, Goto, Marks, model, TypeOK
<1>5. CASE PickSupervisor(t)
  BY <1>5 DEF PickSupervisor, Goto, Marks, model, TypeOK
<1>6. CASE CallRun(t)
  BY <1>6 DEF CallRun, Escape, Return, Goto, Marks, model, TypeOK
<1>7. CASE KeepChild(t)
  BY <1>7 DEF KeepChild, Goto, Marks, model, TypeOK
<1>8. CASE StartChild(t)
  <2>1. /\ pc' = [pc EXCEPT ![t] = "ready"] /\ pc[t] = "run"
        /\ process' = [process EXCEPT ![using[t]] = call[t]]
        /\ child' = [child EXCEPT ![call[t]] = "loading"]
        /\ UNCHANGED <<using, supervisor, inbox, outbox, asked>>
    BY <1>8 DEF StartChild, Goto
  <2>2. call[t] \in Calls
    BY <2>1 DEF Numbers, Numbered
  <2> QED
    BY <2>1, <2>2 DEF Marks, TypeOK
<1>9. CASE AwaitReady(t)
  <2>1. /\ call[t] \in Calls
        /\ UNCHANGED <<using, supervisor, process, child, inbox, asked>>
        /\ pc'[t] \notin {"enter", "stage", "pick", "run"}
        /\ Takes(call[t]) \/ outbox' = outbox
    BY <1>9, ReadyOutcome DEF TypeOK, Numbers, Numbered
  <2>2. ASSUME NEW c \in Calls, child[c] = "none" PROVE outbox'[c] = outbox[c]
    BY <2>1, <2>2 DEF Takes, TypeOK, Numbers, Born
  <2> QED
    BY <2>1, <2>2 DEF Marks
<1>10. CASE SendRequest(t)
  <2>1. /\ UNCHANGED <<using, supervisor, process, child, outbox>>
        /\ pc'[t] \notin {"enter", "stage", "pick", "run"}
    BY <1>10, SendOutcome DEF TypeOK
  <2>2. ASSUME NEW c \in Calls, child[c] = "none"
        PROVE inbox'[c] = inbox[c] /\ asked'[c] = asked[c]
    <3>1. CASE UNCHANGED <<inbox, asked>>
      BY <3>1
    <3>2. ASSUME NEW d, Alive(d), inbox' = [inbox EXCEPT ![d] = Append(inbox[d], call[t])],
                 asked' = [asked EXCEPT ![d] = asked[d] \cup {call[t]}]
          PROVE  inbox'[c] = inbox[c] /\ asked'[c] = asked[c]
      <4>1. c # d
        BY <2>2, <3>2 DEF Alive
      <4> QED
        BY <3>2, <4>1 DEF TypeOK
    <3> QED
      BY <1>10, <3>1, <3>2, SendOutcome
  <2> QED
    BY <2>1, <2>2 DEF Marks
<1>11. CASE ReceiveReply(t)
  <2>1. /\ UNCHANGED <<using, supervisor, process, child, inbox, asked>>
        /\ \E step \in Steps \ {"enter", "stage", "pick", "run"} : pc' = [pc EXCEPT ![t] = step]
        /\ outbox' = outbox \/ \E c : c = process[using[t]] /\ c # 0 /\ Takes(c)
    BY <1>11, ReplyOutcome DEF Steps
  <2>2. pc'[t] \notin {"enter", "stage", "pick", "run"}
    BY <2>1 DEF TypeOK
  <2>3. ASSUME NEW c \in Calls, child[c] = "none" PROVE outbox'[c] = outbox[c]
    BY <2>1, <2>3 DEF Takes, TypeOK, Numbers, Born
  <2> QED
    BY <2>1, <2>2, <2>3 DEF Marks
<1>12. CASE ReadArtifacts(t)
  BY <1>12 DEF ReadArtifacts, Fail, Return, Goto, Marks, model, TypeOK
<1>13. CASE ResetAfterFailure(t) \/ RaiseAdapterError(t) \/ ResetAgain(t)
  <2>1. Forgets
    BY <1>13, ResetForgets DEF ResetAfterFailure, RaiseAdapterError, ResetAgain, UnlockedReset
  <2>2. using' = using /\ pc'[t] \in {"idle", "again"}
    BY <1>13 DEF ResetAfterFailure, RaiseAdapterError, ResetAgain, Return, Goto, TypeOK
  <2> QED
    BY <2>1, <2>2, ForgetsMarks DEF Numbers
<1> QED
  BY <1>1, <1>2, <1>3, <1>4, <1>5, <1>6, <1>7, <1>8, <1>9, <1>10, <1>11, <1>12, <1>13 DEF Step

LEMMA FreshKept ==
    ASSUME TypeOK, NEW t \in Threads, Onward(t), Marks(t), NEW n \in Calls, n # call[t], Fresh(n)
    PROVE  Fresh(n)'
<1>1. supervisor' # n
  BY DEF Marks, Fresh, Calls
<1>2. process'[n] = 0 /\ child'[n] = "none"
  BY DEF Marks, Fresh
<1>3. ASSUME NEW u \in Threads PROVE using'[u] # n
  BY <1>3 DEF Onward, Marks, Fresh
<1> QED
  BY <1>1, <1>2, <1>3 DEF Fresh

LEMMA OnwardNumbers ==
    ASSUME TypeOK, Numbers, NEW t \in Threads, Onward(t), Marks(t)
    PROVE  Numbers'
<1>1. call' = call /\ call[t] \in Calls /\ result[call[t]] = "none"
  BY DEF Onward, Numbers, Numbered
<1>2. \A n \in Calls : result'[n] = result[n] \/ n = call[t]
  BY DEF Onward, TypeOK
<1>3. Distinct'
  BY <1>1 DEF Numbers, Distinct
<1>4. Unused'
  <2>1. SUFFICES ASSUME NEW n \in Calls, result'[n] = "none", \A u \in Threads : call'[u] # n
                 PROVE  Fresh(n)'
    BY DEF Unused
  <2> QED
    BY <1>1, <1>2, <2>1, FreshKept DEF Numbers, Unused
<1>5. ASSUME NEW u \in Threads, u # t PROVE Numbered(u)'
  <2>1. pc'[u] = pc[u] /\ using'[u] = using[u] /\ call'[u] = call[u] /\ call[u] # call[t]
    BY <1>1, <1>5 DEF Onward, Numbers, Distinct, Calls
  <2>2. call[u] # 0 => call[u] \in Calls
    BY InpaintAssumption DEF TypeOK, Handles, Calls
  <2>3. pc'[u] \in {"enter", "stage", "pick"} => Fresh(call[u])'
    BY <1>5, <2>1, FreshKept DEF Numbers, Numbered
  <2>4. pc'[u] = "run" => child'[call[u]] = "none"
    <3>1. pc'[u] = "run" => child[call[u]] = "none" /\ call[u] \in Calls
      BY <2>1 DEF Numbers, Numbered
    <3> QED
      BY <2>1, <3>1 DEF Marks
  <2>5. call[u] # 0 => result'[call[u]] = result[call[u]]
    BY <1>2, <2>1, <2>2
  <2>6. Numbered(u)
    BY DEF Numbers
  <2>7. pc'[u] # "idle" => call'[u] \in Calls /\ result'[call'[u]] = "none"
    BY <2>1, <2>5, <2>6 DEF Numbered, Calls
  <2> QED
    BY <2>1, <2>3, <2>4, <2>5, <2>6, <2>7 DEF Numbered, Fresh
<1>6. Numbered(t)'
  <2>1. pc'[t] = "idle" => result'[call[t]] # "none"
    BY <1>1 DEF Onward, TypeOK, Results
  <2>2. pc'[t] # "idle" => result' = result
    BY DEF Onward
  <2>3. ASSUME pc'[t] \in {"enter", "stage", "pick"} PROVE using'[t] = 0 /\ Fresh(call[t])'
    BY <1>1, <2>3 DEF Marks, Numbers, Numbered, Fresh
  <2>4. pc'[t] = "run" => child'[call[t]] = "none"
    BY DEF Marks, Numbers, Numbered, Fresh
  <2> QED
    BY <1>1, <2>1, <2>2, <2>3, <2>4 DEF Numbered, Fresh
<1>7. Born'
  <2>1. ASSUME NEW s \in Calls, process'[s] # 0 PROVE child'[process'[s]] # "none"
    <3>1. process[s] \in Calls \cup {0}
      BY InpaintAssumption DEF TypeOK, Handles, Calls
    <3> QED
      BY <2>1, <3>1 DEF Marks, Numbers, Born
  <2>2. ASSUME NEW c \in Calls, child'[c] = "none"
        PROVE  Len(inbox'[c]) = 0 /\ Len(outbox'[c]) = 0 /\ asked'[c] = {}
    BY <2>2 DEF Marks, Numbers, Born
  <2> QED
    BY <2>1, <2>2 DEF Born
<1> QED
  BY <1>3, <1>4, <1>5, <1>6, <1>7 DEF Numbers

LEMMA BeginNumbers == ASSUME TypeOK, Numbers, NEW t \in Threads, Begin(t) PROVE Numbers'
<1>1. PICK n \in Calls : /\ result[n] = "none" /\ (\A u \in Threads : call[u] # n)
                        /\ call' = [call EXCEPT ![t] = n]
  BY DEF Begin
<1>2. /\ pc[t] = "idle" /\ pc' = [pc EXCEPT ![t] = "enter"]
      /\ using' = [using EXCEPT ![t] = 0]
      /\ UNCHANGED <<result, supervisor, process, child, inbox, outbox, asked>>
  BY DEF Begin, Goto, model
<1>3. ASSUME NEW m \in Calls, Fresh(m) PROVE Fresh(m)'
  BY <1>2, <1>3 DEF Fresh, TypeOK, Calls
<1>4. Fresh(n)
  BY <1>1 DEF Numbers, Unused
<1>5. Distinct'
  BY <1>1 DEF Numbers, Distinct, TypeOK
<1>6. Unused'
  <2>1. SUFFICES ASSUME NEW m \in Calls, result'[m] = "none", \A u \in Threads : call'[u] # m
                 PROVE  Fresh(m)'
    BY DEF Unused
  <2>2. ASSUME NEW u \in Threads PROVE call[u] # m
    <3>1. CASE u = t
      BY <1>2, <2>1, <3>1 DEF Numbers, Numbered, Calls
    <3>2. CASE u # t
      BY <1>1, <2>1, <3>2 DEF TypeOK
    <3> QED
      BY <3>1, <3>2
  <2> QED
    BY <1>2, <1>3, <2>1, <2>2 DEF Numbers, Unused
<1>7. ASSUME NEW u \in Threads PROVE Numbered(u)'
  <2>1. CASE u = t
    <3>1. pc'[t] = "enter" /\ call'[t] = n /\ using'[t] = 0
      BY <1>1, <1>2 DEF TypeOK
    <3>2. Fresh(n)'
      BY <1>3, <1>4
    <3> QED
      BY <1>1, <1>2, <2>1, <3>1, <3>2 DEF Numbered, Fresh
  <2>2. CASE u # t
    <3>1. pc'[u] = pc[u] /\ call'[u] = call[u] /\ using'[u] = using[u]
      BY <1>1, <1>2, <2>2 DEF TypeOK
    <3>2. pc[u] \in {"enter", "stage", "pick"} => Fresh(call[u])'
      BY <1>3, <3>1 DEF Numbers, Numbered
    <3> QED
      BY <1>2, <3>1, <3>2 DEF Numbers, Numbered, Fresh
  <2> QED
    BY <2>1, <2>2
<1>8. Born'
  BY <1>2 DEF Numbers, Born
<1> QED
  BY <1>5, <1>6, <1>7, <1>8 DEF Numbers

(* A child that has started is nobody's fresh number. *)
LEMMA ChildNumbers ==
    ASSUME TypeOK, Numbers, NEW c \in Calls, Load(c) \/ Execute(c) \/ Crash(c)
    PROVE  Numbers'
<1>1. UNCHANGED <<pc, call, using, result, supervisor, process, asked>>
  BY DEF Load, Execute, Crash, thread
<1>2. child[c] # "none" /\ child'[c] # "none" /\ \A d \in Calls : d # c => Unmoved(d)
  <2>1. CASE Load(c)
    BY <2>1, LoadOutcome DEF Unmoved, TypeOK
  <2>2. CASE Execute(c)
    <3>1. child[c] = "waiting" /\ inbox' = [inbox EXCEPT ![c] = Tail(inbox[c])]
      BY <2>2, ExecuteOutcome
    <3>2. PICK life \in {"waiting", "gone"}, r \in Replies :
              /\ child' = [child EXCEPT ![c] = life]
              /\ outbox' = [outbox EXCEPT ![c] = Append(outbox[c], r)]
      BY <2>2, ExecuteOutcome
    <3> QED
      BY <3>1, <3>2 DEF Unmoved, TypeOK
  <2>3. CASE Crash(c)
    BY <2>3 DEF Crash, Alive, Unmoved, TypeOK
  <2> QED
    BY <2>1, <2>2, <2>3
<1>3. \A d \in Calls : child'[d] = "none" <=> child[d] = "none"
  BY <1>2 DEF Unmoved
<1>4. ASSUME NEW n \in Calls, Fresh(n) PROVE Fresh(n)'
  BY <1>1, <1>3, <1>4 DEF Fresh
<1>5. Distinct' /\ Unused'
  BY <1>1, <1>4 DEF Numbers, Distinct, Unused
<1>6. ASSUME NEW u \in Threads PROVE Numbered(u)'
  <2>1. pc[u] \in {"enter", "stage", "pick"} => Fresh(call[u])'
    BY <1>1, <1>4 DEF Numbers, Numbered
  <2>2. pc[u] = "run" => child'[call[u]] = "none"
    BY <1>3 DEF Numbers, Numbered
  <2> QED
    BY <1>1, <2>1, <2>2 DEF Numbers, Numbered, Fresh
<1>7. Born'
  <2>1. \A s \in Calls : process[s] # 0 => process[s] \in Calls
    BY InpaintAssumption DEF TypeOK, Handles, Calls
  <2> QED
    BY <1>1, <1>2, <1>3, <2>1 DEF Numbers, Born, Unmoved
<1> QED
  BY <1>5, <1>6, <1>7 DEF Numbers

LEMMA StepNumbers == ASSUME TypeOK, Numbers, Locking, [Next]_vars PROVE Numbers'
<1>1. ASSUME NEW t \in Threads, Expire(t) \/ Step(t) PROVE Numbers'
  BY <1>1, StepOnward, StepMarks, OnwardNumbers
<1>2. CASE UNCHANGED vars
  BY <1>2 DEF vars, thread, model, Numbers, Distinct, Unused, Numbered, Born, Fresh
<1> QED
  BY <1>1, <1>2, BeginNumbers, ChildNumbers DEF Next

-----------------------------------------------------------------------------
(* The lock.                                                                *)

LEMMA Alone ==
    ASSUME Locking, NEW t \in Threads, NEW u \in Threads, pc[t] \in Locked, pc[u] \in Locked
    PROVE  t = u
BY DEF Locking

(* A step under the lock: it works on what was its own supervisor, and      *)
(* leaves the lock alone or releases it.                                    *)
LEMMA StepLocking == ASSUME TypeOK, Numbers, Locking, [Next]_vars PROVE Locking'
<1> DEFINE Holds(u) ==
        /\ pc[u] \in Locked => lock = u /\ (using[u] # 0 => supervisor \in {0, using[u]})
        /\ pc[u] \in {"ready", "send", "reply", "read"} => using[u] # 0
<1>0. (\A u \in Threads : Holds(u)) /\ ((\A u \in Threads : Holds(u)') => Locking')
  BY DEF Locking
<1>1. ASSUME NEW t \in Threads, Expire(t) \/ Step(t) PROVE \A u \in Threads : Holds(u)'
  <2>1. Onward(t) /\ Marks(t)
    BY <1>1, StepOnward, StepMarks
  <2>2. \/ lock' = lock
        \/ lock' = t /\ lock = NoThread
        \/ lock' = NoThread /\ pc[t] \in Locked
    <3>1. CASE Expire(t) \/ GiveUpWaiting(t) \/ AcquireLock(t) \/ StageArtifacts(t)
      BY <3>1 DEF Expire, GiveUpWaiting, AcquireLock, StageArtifacts, Fail, AdapterError
    <3>2. CASE PickSupervisor(t) \/ CallRun(t) \/ KeepChild(t) \/ StartChild(t)
      BY <3>2 DEF PickSupervisor, CallRun, Escape, KeepChild, StartChild, Locked
    <3>3. CASE AwaitReady(t)
      BY <3>3, ReadyOutcome
    <3>4. CASE SendRequest(t)
      BY <3>4, SendOutcome DEF Locked
    <3>5. CASE ReceiveReply(t)
      BY <3>5, ReplyOutcome DEF Locked
    <3>6. CASE ReadArtifacts(t) \/ ResetAfterFailure(t) \/ RaiseAdapterError(t) \/ ResetAgain(t)
      BY <3>6 DEF ReadArtifacts, Fail, ResetAfterFailure, RaiseAdapterError, ResetAgain, Locked
    <3> QED
      BY <1>1, <3>1, <3>2, <3>3, <3>4, <3>5, <3>6 DEF Step
  <2>3. ASSUME NEW u \in Threads, u # t PROVE Holds(u)'
    <3>1. pc'[u] = pc[u] /\ using'[u] = using[u]
      BY <2>1, <2>3 DEF Onward
    <3>2. pc[u] \in Locked => pc[t] \notin Locked
      BY <2>3, Alone
    <3>3. pc[u] \in Locked => lock' = u
      BY <1>0, <2>2, <3>2, InpaintAssumption
    <3>4. pc[u] \in Locked => supervisor' \in {0, supervisor}
      BY <2>1, <3>2 DEF Marks, Locked
    <3> QED
      BY <1>0, <3>1, <3>3, <3>4
  <2>4. Holds(t)'
    <3>0. Holds(t) /\ (pc[t] \in {"enter", "stage", "pick"} => using[t] = 0)
      BY <1>0 DEF Numbers, Numbered
    <3>1. CASE Expire(t)
      BY <3>0, <3>1 DEF Expire
    <3>2. CASE AcquireLock(t) \/ StageArtifacts(t) \/ PickSupervisor(t)
      BY <3>0, <3>2 DEF AcquireLock, StageArtifacts, PickSupervisor, Fail, AdapterError, Goto,
                        Locked, TypeOK
    <3>3. CASE CallRun(t) \/ KeepChild(t) \/ StartChild(t)
      BY <3>0, <3>3 DEF CallRun, KeepChild, StartChild, Escape, Return, Goto, Locked, TypeOK
    <3>4. CASE AwaitReady(t)
      BY <3>0, <3>4, ReadyOutcome DEF Locked, TypeOK
    <3>5. CASE SendRequest(t)
      BY <3>0, <3>5, SendOutcome DEF Locked, TypeOK
    <3>6. CASE ReceiveReply(t)
      <4>1. pc[t] = "reply" /\ using' = using /\ supervisor' = supervisor
        BY <3>6, ReplyOutcome
      <4>2. \/ lock' = lock
            \/ pc' = [pc EXCEPT ![t] = "idle"]
        BY <3>6, ReplyOutcome
      <4> QED
        BY <3>0, <4>1, <4>2 DEF Locked, TypeOK
    <3>7. CASE ReadArtifacts(t)
      BY <3>0, <3>7 DEF ReadArtifacts, Fail, Return, Goto, Locked, TypeOK
    <3>8. CASE GiveUpWaiting(t) \/ ResetAfterFailure(t) \/ RaiseAdapterError(t) \/ ResetAgain(t)
      BY <3>8 DEF GiveUpWaiting, ResetAfterFailure, RaiseAdapterError, ResetAgain, Return, Goto,
                  Locked, TypeOK
    <3> QED
      BY <1>1, <3>1, <3>2, <3>3, <3>4, <3>5, <3>6, <3>7, <3>8 DEF Step
  <2> QED
    BY <2>3, <2>4
<1>2. ASSUME NEW t \in Threads, Begin(t) PROVE \A u \in Threads : Holds(u)'
  BY <1>0, <1>2 DEF Begin, Goto, Locked, TypeOK
<1>3. ASSUME NEW c \in Calls, Load(c) \/ Execute(c) \/ Crash(c)
      PROVE \A u \in Threads : Holds(u)'
  BY <1>0, <1>3 DEF Load, Execute, Crash, thread
<1>4. CASE UNCHANGED vars
  BY <1>0, <1>4 DEF vars, thread
<1> QED
  BY <1>0, <1>1, <1>2, <1>3, <1>4 DEF Next

-----------------------------------------------------------------------------
(* The sockets.  First the calm steps: nothing is asked or said, and no     *)
(* connection is made.                                                      *)

Emptied(c) == child'[c] = "gone" /\ inbox'[c] = <<>> /\ outbox'[c] = <<>>

Calm ==
    /\ asked' = asked
    /\ \A n \in Calls : result[n] = "lama" => result'[n] = "lama"
    /\ \A c \in Calls : Unmoved(c) \/ Emptied(c)
    /\ \A s \in Calls : process'[s] \in {0, process[s]}

LEMMA CalmKeeps ==
    ASSUME TypeOK, Calm, NEW c \in Calls
    PROVE  /\ Quiet(c) => Quiet(c)'
           /\ Starting(c) => Starting(c)'
           /\ \A n : Busy(c, n) => Busy(c, n)'
           /\ \A n : Answered(c, n) => Answered(c, n)'
<1>1. ASSUME NEW n, Trusted(c, n) PROVE Trusted(c, n)'
  BY <1>1 DEF Trusted, Calm, TypeOK
<1>2. CASE Unmoved(c)
  BY <1>1, <1>2 DEF Unmoved, Calm, Quiet, Starting, Busy, Answered
<1>3. CASE Emptied(c)
  <2>1. /\ child'[c] = "gone" /\ asked'[c] = asked[c]
        /\ Len(inbox'[c]) = 0 /\ Len(outbox'[c]) = 0
    BY <1>3 DEF Emptied, Calm
  <2>2. Quiet(c) => Quiet(c)'
    BY <1>1, <2>1 DEF Quiet
  <2>3. Starting(c) => Starting(c)'
    BY <2>1 DEF Starting
  <2>4. ASSUME NEW n, Busy(c, n) PROVE Busy(c, n)'
    BY <1>1, <2>1, <2>4 DEF Busy
  <2>5. ASSUME NEW n, Answered(c, n) PROVE Answered(c, n)'
    BY <1>1, <2>1, <2>5 DEF Answered
  <2> QED
    BY <2>2, <2>3, <2>4, <2>5
<1> QED
  BY <1>2, <1>3 DEF Calm

LEMMA Bystander ==
    ASSUME TypeOK, Calm, NEW u \in Threads, Occupied(u), call'[u] = call[u],
           pc'[u] = pc[u], using'[u] = using[u], answer'[u] = answer[u],
           pc[u] = "ready" => call[u] \in Calls
    PROVE  Occupied(u)'
<1>1. ASSUME NEW c \in Calls, using'[u] # 0, process'[using'[u]] = c PROVE Working(u, c)'
  <2>1. using[u] \in Calls
    BY <1>1, InpaintAssumption DEF TypeOK, Handles, Calls
  <2>2. process[using[u]] = c
    BY <1>1, <2>1 DEF Calm, Calls
  <2>3. Working(u, c)
    BY <1>1, <2>2 DEF Occupied
  <2> QED
    BY <2>3, CalmKeeps DEF Working
<1>2. pc[u] = "ready" => Starting(call[u])'
  BY CalmKeeps DEF Occupied, Starting
<1> QED
  BY <1>1, <1>2 DEF Occupied, Starting

(* What a calm step of thread t does to its own use of a child. *)
Moves(t) ==
    /\ pc'[t] = "run" => \/ using'[t] = 0
                         \/ pc[t] = "run" /\ using'[t] \in {using[t], supervisor}
    /\ pc'[t] = "send" => pc[t] \in {"run", "send"} /\ using'[t] = using[t]
    /\ pc'[t] \in {"ready", "reply", "read"} =>
        pc'[t] = pc[t] /\ using'[t] = using[t] /\ answer'[t] = answer[t]
    /\ pc[t] \in Busying => \/ supervisor' = 0
                            \/ pc'[t] \in Busying /\ using'[t] = using[t]
                            \/ pc[t] = "read" /\ result'[call[t]] = "lama"

LEMMA CalmSockets ==
    ASSUME IInv, NEW t \in Threads, Onward(t), Marks(t), Calm, Moves(t)
    PROVE  Sockets'
<1>0. TypeOK /\ Numbers /\ Locking /\ Owned /\ \A u \in Threads : Occupied(u)
  BY DEF IInv, Sockets
<1>1. ASSUME NEW u \in Threads, u # t PROVE Occupied(u)'
  BY <1>0, <1>1, Bystander DEF Onward, Numbers, Numbered
<1>2. Occupied(t)'
  <2>1. call'[t] = call[t] /\ call[t] \in Calls
    BY <1>0 DEF Onward, Numbers, Numbered
  <2>2. CASE pc'[t] \notin {"run", "send", "ready", "reply", "read"}
    BY <2>2 DEF Occupied, Working
  <2>3. CASE pc'[t] \in {"ready", "reply", "read"}
    BY <1>0, <2>1, <2>3, Bystander DEF Moves
  <2>4. CASE pc'[t] \in {"run", "send"}
    <3>1. SUFFICES ASSUME NEW c \in Calls, using'[t] # 0, process'[using'[t]] = c
                   PROVE  Quiet(c)'
      BY <2>4 DEF Occupied, Working
    <3>2. /\ pc[t] \in {"run", "send"}
          /\ using'[t] = using[t] \/ (pc[t] = "run" /\ using'[t] = supervisor)
      BY <2>4, <3>1 DEF Moves
    <3>3. using'[t] \in Calls
      BY <1>0, <3>1, <3>2, InpaintAssumption DEF TypeOK, Handles, Calls
    <3>4. process[using'[t]] = c
      BY <3>1, <3>3 DEF Calm, Calls
    <3>5. Quiet(c)
      <4>1. CASE using'[t] = using[t]
        BY <1>0, <3>1, <3>2, <3>4, <4>1 DEF Occupied, Working
      <4>2. CASE pc[t] = "run" /\ using'[t] = supervisor
        <5>1. \A u \in Threads : pc[u] \notin Busying
          BY <1>0, <4>2, Alone DEF Busying, Locked
        <5> QED
          BY <1>0, <3>1, <3>4, <4>2, <5>1 DEF Owned
      <4> QED
        BY <3>2, <4>1, <4>2
    <3> QED
      BY <1>0, <3>5, CalmKeeps
  <2> QED
    BY <2>2, <2>3, <2>4
<1>3. Owned'
  <2>1. SUFFICES ASSUME NEW c \in Calls, supervisor' # 0, process'[supervisor'] = c,
                        ~\E u \in Threads : pc'[u] \in Busying /\ using'[u] = supervisor'
                 PROVE  Quiet(c)'
    BY DEF Owned
  <2>2. supervisor' = supervisor
    <3>1. ASSUME pc[t] = "pick", supervisor' = call[t] PROVE FALSE
      <4>1. call[t] \in Calls /\ process[call[t]] = 0
        BY <1>0, <3>1 DEF Numbers, Numbered, Fresh
      <4> QED
        BY <2>1, <3>1, <4>1 DEF Calm, Calls
    <3> QED
      BY <2>1, <3>1 DEF Marks
  <2>3. supervisor \in Calls
    BY <1>0, <2>1, <2>2, InpaintAssumption DEF TypeOK, Handles, Calls
  <2>4. process[supervisor] = c
    BY <2>1, <2>2, <2>3 DEF Calm, Calls
  <2>5. CASE Quiet(c)
    BY <1>0, <2>5, CalmKeeps
  <2>6. ASSUME NEW u \in Threads, pc[u] \in Busying, using[u] = supervisor PROVE Quiet(c)'
    <3>1. u = t
      BY <2>1, <2>2, <2>6 DEF Onward
    <3>2. pc[t] = "read" /\ result'[call[t]] = "lama"
      BY <2>1, <2>2, <2>6, <3>1 DEF Moves
    <3>3. Answered(c, call[t])
      BY <1>0, <2>1, <2>2, <2>4, <2>6, <3>1, <3>2 DEF Occupied, Working
    <3>4. Answered(c, call[t])' /\ call' = call
      BY <1>0, <3>3, CalmKeeps DEF Onward, Answered, Trusted
    <3> QED
      BY <3>2, <3>4 DEF Answered, Quiet, Trusted
  <2> QED
    BY <1>0, <2>1, <2>2, <2>4, <2>5, <2>6 DEF Owned
<1> QED
  BY <1>1, <1>2, <1>3 DEF Sockets

LEMMA ForgetsCalm ==
    ASSUME IInv, NEW t \in Threads, Onward(t), Forgets, pc'[t] \in {"idle", "again"}
    PROVE  Calm /\ Moves(t)
<1>1. \A n \in Calls : result[n] = "lama" => result'[n] = "lama"
  BY DEF Onward, IInv, Numbers, Numbered, TypeOK
<1> QED
  BY <1>1 DEF Forgets, Calm, Emptied, Moves

LEMMA UntouchedCalm ==
    ASSUME IInv, NEW t \in Threads, Onward(t), UNCHANGED <<process, child, inbox, outbox, asked>>
    PROVE  Calm
<1>1. \A n \in Calls : result[n] = "lama" => result'[n] = "lama"
  BY DEF Onward, IInv, Numbers, Numbered, TypeOK
<1> QED
  BY <1>1 DEF Calm, Unmoved

CalmStep(t) ==
    \/ Expire(t) \/ GiveUpWaiting(t) \/ AcquireLock(t) \/ StageArtifacts(t)
    \/ PickSupervisor(t) \/ CallRun(t) \/ KeepChild(t) \/ ReadArtifacts(t)
    \/ ResetAfterFailure(t) \/ RaiseAdapterError(t) \/ ResetAgain(t)

LEMMA CalmStepSockets == ASSUME IInv, NEW t \in Threads, CalmStep(t) PROVE Sockets'
<1>1. Onward(t) /\ Marks(t)
  BY StepOnward, StepMarks DEF CalmStep, Step, IInv
<1>2. CASE Expire(t) \/ AcquireLock(t) \/ StageArtifacts(t)
  <2>1. UNCHANGED <<process, child, inbox, outbox, asked>>
    BY <1>2 DEF Expire, AcquireLock, StageArtifacts, model
  <2>2. Moves(t)
    BY <1>2 DEF Expire, AcquireLock, StageArtifacts, Fail, AdapterError, Goto, Moves, Busying,
                IInv, TypeOK
  <2> QED
    BY <1>1, <2>1, <2>2, UntouchedCalm, CalmSockets
<1>3. CASE PickSupervisor(t) \/ CallRun(t) \/ KeepChild(t)
  <2>1. UNCHANGED <<process, child, inbox, outbox, asked>>
    BY <1>3 DEF PickSupervisor, CallRun, KeepChild, model
  <2>2. pc[t] = "pick" => using[t] = 0
    BY DEF IInv, Numbers, Numbered
  <2>3. Moves(t)
    BY <1>3, <2>2 DEF PickSupervisor, CallRun, KeepChild, Escape, Return, Goto, Moves, Busying,
                      IInv, TypeOK
  <2> QED
    BY <1>1, <2>1, <2>3, UntouchedCalm, CalmSockets
<1>4. CASE ReadArtifacts(t)
  <2>1. UNCHANGED <<process, child, inbox, outbox, asked>>
    BY <1>4 DEF ReadArtifacts, model
  <2>2. call[t] \in Calls
    BY <1>1 DEF Onward, IInv, Numbers, Numbered
  <2>3. Moves(t)
    BY <1>4, <2>2 DEF ReadArtifacts, Fail, Return, Goto, Moves, Busying, IInv, TypeOK
  <2> QED
    BY <1>1, <2>1, <2>3, UntouchedCalm, CalmSockets
<1>5. CASE GiveUpWaiting(t) \/ ResetAfterFailure(t) \/ RaiseAdapterError(t) \/ ResetAgain(t)
  <2>1. Forgets
    BY <1>5, ResetForgets DEF GiveUpWaiting, ResetAfterFailure, RaiseAdapterError, ResetAgain,
                              UnlockedReset, IInv
  <2>2. pc'[t] \in {"idle", "again"}
    BY <1>5 DEF GiveUpWaiting, ResetAfterFailure, RaiseAdapterError, ResetAgain, Return, Goto,
                IInv, TypeOK
  <2> QED
    BY <1>1, <2>1, <2>2, ForgetsCalm, CalmSockets
<1> QED
  BY <1>2, <1>3, <1>4, <1>5 DEF CalmStep

(* The steps that ask, listen or start a child.  The thread holds the lock, *)
(* so no other thread is at work on a child.                                *)
LEMMA OnlyWorker ==
    ASSUME IInv, NEW t \in Threads, pc[t] \in Locked, Onward(t)
    PROVE  \A u \in Threads : u # t => Occupied(u)'
<1> SUFFICES ASSUME NEW u \in Threads, u # t PROVE Occupied(u)'
  OBVIOUS
<1>1. pc'[u] = pc[u] /\ pc[u] \notin Locked
  BY Alone DEF IInv, Onward
<1> QED
  BY <1>1 DEF Locked, Occupied, Working

LEMMA GivenUp ==
    ASSUME IInv, NEW t \in Threads, pc[t] \in Locked, Onward(t), UNCHANGED <<supervisor, process>>,
           using'[t] = using[t], using[t] # 0,
           pc'[t] \in {"failed", "raising"} \/ (pc'[t] = "idle" /\ process[using[t]] = 0)
    PROVE  Sockets'
<1>1. \A u \in Threads : u # t => Occupied(u)'
  BY OnlyWorker
<1>2. pc'[t] \in {"failed", "raising", "idle"}
  OBVIOUS
<1>3. Occupied(t)'
  BY <1>2 DEF Occupied, Working
<1>4. supervisor # 0 => supervisor = using[t]
  BY DEF IInv, Locking
<1>5. Owned'
  BY <1>4 DEF Owned, Busying, Calls
<1> QED
  BY <1>1, <1>3, <1>5 DEF Sockets

LEMMA StartChildSockets == ASSUME IInv, NEW t \in Threads, StartChild(t) PROVE Sockets'
<1>1. Onward(t)
  BY StepOnward DEF Step, IInv
<1>2. /\ pc' = [pc EXCEPT ![t] = "ready"] /\ pc[t] = "run"
      /\ process' = [process EXCEPT ![using[t]] = call[t]]
      /\ child' = [child EXCEPT ![call[t]] = "loading"]
      /\ using[t] # 0
      /\ UNCHANGED <<call, using, supervisor, inbox, outbox, asked>>
  BY DEF StartChild, Goto
<1>3. PICK s \in Calls, c \in Calls : s = using[t] /\ c = call[t]
  BY <1>2, InpaintAssumption DEF IInv, Numbers, Numbered, TypeOK, Handles, Calls
<1>4. process'[s] = c /\ child'[c] = "loading" /\ pc'[t] = "ready" /\ using'[t] = s /\ call'[t] = c
  BY <1>2, <1>3 DEF IInv, TypeOK
<1>5. Len(inbox[c]) = 0 /\ Len(outbox[c]) = 0 /\ asked[c] = {}
  BY <1>2, <1>3 DEF IInv, Numbers, Numbered, Born
<1>6. Starting(c)'
  BY <1>2, <1>4, <1>5 DEF Starting
<1>7. Occupied(t)'
  BY <1>4, <1>6 DEF Occupied, Working, Starting
<1>8. \A u \in Threads : u # t => Occupied(u)'
  BY <1>1, <1>2, OnlyWorker DEF Locked
<1>9. supervisor # 0 => supervisor = s
  BY <1>2, <1>3 DEF IInv, Locking, Locked
<1>10. Owned'
  BY <1>2, <1>4, <1>9 DEF Owned, Busying
<1> QED
  BY <1>7, <1>8, <1>10 DEF Sockets

LEMMA LastTaken ==
    ASSUME NEW i \in Nat, NEW j \in Nat, NEW k, k = j - 1, j >= 1, i + j <= 1
    PROVE  i = 0 /\ j = 1 /\ k = 0
OBVIOUS

LEMMA AwaitReadySockets == ASSUME IInv, NEW t \in Threads, AwaitReady(t) PROVE Sockets'
<1>1. Onward(t)
  BY StepOnward DEF Step, IInv
<1>2. PICK step \in {"send", "failed", "raising"} :
        /\ pc[t] = "ready" /\ pc' = [pc EXCEPT ![t] = step]
        /\ Takes(call[t]) \/ (outbox' = outbox /\ step = "failed")
        /\ UNCHANGED <<call, late, using, answer, result, lock, supervisor,
                       process, child, inbox, asked, raced>>
  BY ReadyOutcome
<1>3. using[t] # 0 /\ pc[t] \in Locked /\ pc'[t] = step
  BY <1>2 DEF IInv, Locking, Locked, TypeOK
<1>4. CASE step # "send"
  BY <1>1, <1>2, <1>3, <1>4, GivenUp
<1>5. CASE step = "send"
  <2>1. PICK c \in Calls : c = call[t] /\ Starting(c)
    BY <1>2 DEF IInv, Numbers, Numbered, Sockets, Occupied
  <2>2. Takes(c)
    BY <1>2, <1>5, <2>1
  <2>3. Len(outbox'[c]) = Len(outbox[c]) - 1 /\ Len(outbox[c]) >= 1
    BY <2>2, TailOfSeq DEF Takes, IInv, TypeOK
  <2>4. Len(outbox[c]) \in Nat
    BY DEF IInv, TypeOK
  <2>5. Quiet(c)'
    <3>1. /\ child[c] # "loading" /\ Len(outbox'[c]) = 0
          /\ Len(inbox[c]) = 0 /\ asked[c] = {}
      <4>1. /\ Len(outbox[c]) <= 1 /\ (child[c] = "loading" => Len(outbox[c]) = 0)
            /\ Len(inbox[c]) = 0 /\ asked[c] = {}
        BY <2>1 DEF Starting
      <4>2. \A j \in Nat : j >= 1 /\ j <= 1 => j = 1 /\ j - 1 = 0
        OBVIOUS
      <4>3. Len(outbox[c]) = 1 /\ Len(outbox'[c]) = 0
        BY <2>3, <2>4, <4>1, <4>2
      <4> QED
        BY <4>1, <4>3
    <3>2. child' = child /\ inbox' = inbox /\ asked' = asked
      BY <1>2
    <3> QED
      BY <3>1, <3>2 DEF Quiet, Trusted
  <2>6. \A d \in Calls : process[using[t]] = d => d = c
    BY <1>2, <1>3, <2>1 DEF IInv, Sockets, Occupied, Working
  <2>7. Occupied(t)'
    BY <1>2, <1>3, <1>5, <2>5, <2>6 DEF Occupied, Working, Quiet, Trusted
  <2>8. supervisor # 0 => supervisor = using[t]
    BY <1>3 DEF IInv, Locking
  <2>9. Owned'
    BY <1>2, <2>5, <2>6, <2>8 DEF Owned, Quiet, Trusted
  <2> QED
    BY <1>1, <1>3, <2>7, <2>9, OnlyWorker DEF Sockets
<1> QED
  BY <1>4, <1>5

(* A request is only sent to a quiet child. *)
LEMMA AskedWasQuiet ==
    ASSUME IInv, NEW t \in Threads, pc[t] = "send", NEW c, c = process[using[t]], c # 0
    PROVE  using[t] # 0 /\ c \in Calls /\ Quiet(c)
<1>1. using[t] \in Calls
  BY InpaintAssumption DEF IInv, Locking, TypeOK, Handles, Calls
<1>2. c \in Calls
  BY <1>1, InpaintAssumption DEF IInv, TypeOK, Handles, Calls
<1> QED
  BY <1>1, <1>2 DEF IInv, Sockets, Occupied, Working, Calls

LEMMA SendRequestSockets == ASSUME IInv, NEW t \in Threads, SendRequest(t) PROVE Sockets'
<1>1. Onward(t)
  BY StepOnward DEF Step, IInv
<1>2. /\ pc[t] = "send" /\ pc[t] \in Locked /\ using[t] # 0
      /\ UNCHANGED <<call, late, using, answer, supervisor, process, child, outbox, raced>>
  BY SendOutcome DEF IInv, Locking, Locked
<1>3. CASE \/ pc' = [pc EXCEPT ![t] = "failed"]
           \/ pc' = [pc EXCEPT ![t] = "idle"] /\ process[using[t]] = 0
  <2>1. pc'[t] \in {"failed", "raising"} \/ (pc'[t] = "idle" /\ process[using[t]] = 0)
    BY <1>3 DEF IInv, TypeOK
  <2> QED
    BY <1>1, <1>2, <2>1, GivenUp
<1>4. ASSUME NEW c, c = process[using[t]], c # 0, result' = result,
             pc' = [pc EXCEPT ![t] = "reply"],
             inbox' = [inbox EXCEPT ![c] = Append(inbox[c], call[t])],
             asked' = [asked EXCEPT ![c] = asked[c] \cup {call[t]}]
      PROVE  Sockets'
  <2>1. c \in Calls /\ Quiet(c)
    BY <1>2, <1>4, AskedWasQuiet
  <2>2. PICK n \in Calls : n = call[t]
    BY <1>2 DEF IInv, Numbers, Numbered
  <2>3. inbox[c] \in Seq(Calls) /\ Len(inbox[c]) = 0 /\ Len(outbox[c]) = 0
    BY <2>1 DEF IInv, TypeOK, Quiet
  <2>4. inbox'[c] = Append(inbox[c], n) /\ asked'[c] = asked[c] \cup {n}
    BY <1>4, <2>1, <2>2 DEF IInv, TypeOK
  <2>5. Len(inbox'[c]) = 1 /\ inbox'[c][1] = n
    BY <2>2, <2>3, <2>4
  <2>6. Trusted(c, n)'
    BY <1>4, <2>1, <2>4 DEF Quiet, Trusted, IInv, TypeOK, Calls
  <2>7. Busy(c, n)'
    BY <1>2, <2>1, <2>3, <2>5, <2>6 DEF Quiet, Busy
  <2>8. pc'[t] = "reply" /\ call'[t] = n
    BY <1>2, <1>4, <2>2 DEF IInv, TypeOK
  <2>9. Occupied(t)'
    BY <1>2, <1>4, <2>7, <2>8 DEF Occupied, Working, Busy, Trusted
  <2>10. supervisor # 0 => supervisor = using[t]
    BY <1>2 DEF IInv, Locking
  <2>11. Owned'
    BY <1>2, <2>8, <2>10 DEF Owned, Busying
  <2> QED
    BY <1>1, <1>2, <2>9, <2>11, OnlyWorker DEF Sockets
<1> QED
  BY <1>3, <1>4, SendOutcome

LEMMA ReceiveReplySockets == ASSUME IInv, NEW t \in Threads, ReceiveReply(t) PROVE Sockets'
<1>1. Onward(t)
  BY StepOnward DEF Step, IInv
<1>2. /\ pc[t] = "reply" /\ pc[t] \in Locked /\ using[t] # 0
      /\ UNCHANGED <<call, late, using, supervisor, process, child, inbox, asked, raced>>
  BY ReplyOutcome DEF IInv, Locking, Locked
<1>3. ASSUME \/ pc' = [pc EXCEPT ![t] = "failed"] \/ pc' = [pc EXCEPT ![t] = "raising"]
             \/ pc' = [pc EXCEPT ![t] = "idle"] /\ process[using[t]] = 0
      PROVE  Sockets'
  <2>1. pc'[t] \in {"failed", "raising"} \/ (pc'[t] = "idle" /\ process[using[t]] = 0)
    BY <1>3 DEF IInv, TypeOK
  <2> QED
    BY <1>1, <1>2, <2>1, GivenUp
<1>4. ASSUME NEW c, c = process[using[t]], c # 0, Takes(c), result' = result,
             pc' = [pc EXCEPT ![t] = "read"],
             answer' = [answer EXCEPT ![t] = Head(outbox[c]).of]
      PROVE  Sockets'
  <2>1. c \in Calls /\ Busy(c, call[t])
    <3>1. using[t] \in Calls
      BY <1>2, InpaintAssumption DEF IInv, TypeOK, Handles, Calls
    <3>2. c \in Calls
      BY <1>4, <3>1, InpaintAssumption DEF IInv, TypeOK, Handles, Calls
    <3> QED
      BY <1>2, <1>4, <3>2 DEF IInv, Sockets, Occupied, Working
  <2>2. PICK n \in Calls : n = call[t]
    BY <1>2 DEF IInv, Numbers, Numbered
  <2>3. outbox[c] \in Seq(Replies) /\ inbox[c] \in Seq(Calls) /\ outbox[c] # <<>>
    BY <1>4, <2>1 DEF IInv, TypeOK, Takes
  <2>4. outbox'[c] = Tail(outbox[c])
    BY <1>4, <2>1 DEF IInv, TypeOK, Takes
  <2>5. /\ Len(outbox[c]) \in Nat /\ Len(inbox[c]) \in Nat
        /\ Len(outbox[c]) >= 1 /\ Len(outbox'[c]) = Len(outbox[c]) - 1
        /\ Head(outbox[c]) = outbox[c][1]
    BY <2>3, <2>4, TailOfSeq
  <2>6. Len(inbox[c]) = 0 /\ Len(outbox'[c]) = 0
    <3>1. Len(inbox[c]) + Len(outbox[c]) <= 1
      BY <2>1 DEF Busy
    <3> QED
      BY <2>5, <3>1, LastTaken
  <2>7. Head(outbox[c]).of = n
    BY <2>1, <2>2, <2>5 DEF Busy
  <2>8. Answered(c, n)'
    BY <1>2, <1>4, <2>1, <2>2, <2>6 DEF Answered, Busy, Trusted
  <2>9. pc'[t] = "read" /\ call'[t] = n /\ answer'[t] = n
    BY <1>2, <1>4, <2>2, <2>7 DEF IInv, TypeOK
  <2>10. Occupied(t)'
    BY <1>2, <1>4, <2>8, <2>9 DEF Occupied, Working, Answered, Trusted
  <2>11. supervisor # 0 => supervisor = using[t]
    BY <1>2 DEF IInv, Locking
  <2>12. Owned'
    BY <1>2, <2>9, <2>11 DEF Owned, Busying
  <2> QED
    BY <1>1, <1>2, <2>10, <2>12, OnlyWorker DEF Sockets
<1> QED
  BY <1>3, <1>4, ReplyOutcome

-----------------------------------------------------------------------------
(* The steps of a child, and the beginning of a call.                       *)

LEMMA ChildSockets ==
    ASSUME IInv, NEW c \in Calls,
           UNCHANGED <<pc, call, using, answer, result, supervisor, process, asked>>,
           \A d \in Calls : d # c => Unmoved(d),
           Quiet(c) => Quiet(c)', Starting(c) => Starting(c)',
           \A n \in Handles : Busy(c, n) => Busy(c, n)',
           \A n \in Handles : Answered(c, n) => Answered(c, n)'
    PROVE  Sockets'
<1>1. ASSUME NEW d \in Calls
      PROVE  /\ Quiet(d) => Quiet(d)'
             /\ Starting(d) => Starting(d)'
             /\ \A n \in Handles : Busy(d, n) => Busy(d, n)'
             /\ \A n \in Handles : Answered(d, n) => Answered(d, n)'
  <2>1. CASE d = c
    BY <2>1
  <2>2. CASE d # c
    BY <2>2 DEF Unmoved, Quiet, Starting, Busy, Answered, Trusted
  <2> QED
    BY <2>1, <2>2
<1>2. ASSUME NEW u \in Threads PROVE Occupied(u)'
  <2>1. PICK n \in Handles : n = call[u]
    BY DEF IInv, TypeOK
  <2>2. Occupied(u) /\ call'[u] = n
    BY <2>1 DEF IInv, Sockets
  <2>3. ASSUME NEW d \in Calls, using'[u] # 0, process'[using'[u]] = d PROVE Working(u, d)'
    BY <1>1, <2>1, <2>2, <2>3 DEF Occupied, Working
  <2>4. pc[u] = "ready" => n \in Calls
    BY <2>1 DEF IInv, Numbers, Numbered
  <2> QED
    BY <1>1, <2>1, <2>2, <2>3, <2>4 DEF Occupied, Starting
<1>3. Owned'
  BY <1>1 DEF IInv, Sockets, Owned
<1> QED
  BY <1>2, <1>3 DEF Sockets

LEMMA LoadSockets == ASSUME IInv, NEW c \in Calls, Load(c) PROVE Sockets'
<1>1. PICK life \in {"waiting", "gone"}, r \in Replies :
        /\ child' = [child EXCEPT ![c] = life]
        /\ outbox' = [outbox EXCEPT ![c] = Append(outbox[c], r)]
  BY LoadOutcome DEF IInv
<1>2. /\ child[c] = "loading"
      /\ UNCHANGED <<pc, call, late, using, answer, result, lock, supervisor,
                     process, inbox, asked, raced>>
  BY LoadOutcome DEF IInv
<1>3. \A d \in Calls : d # c => Unmoved(d)
  BY <1>1, <1>2 DEF IInv, TypeOK, Unmoved
<1>4. Starting(c) => Starting(c)'
  <2>1. child'[c] # "loading" /\ outbox'[c] = Append(outbox[c], r) /\ outbox[c] \in Seq(Replies)
    BY <1>1 DEF IInv, TypeOK
  <2>2. Len(outbox[c]) = 0 => Len(outbox'[c]) = 1
    BY <2>1
  <2> QED
    BY <1>2, <2>1, <2>2 DEF Starting
<1>5. /\ ~Quiet(c)
      /\ \A n \in Handles : ~Busy(c, n) /\ ~Answered(c, n)
  BY <1>2 DEF Quiet, Busy, Answered
<1> QED
  BY <1>2, <1>3, <1>4, <1>5, ChildSockets

LEMMA ExecuteSockets == ASSUME IInv, NEW c \in Calls, Execute(c) PROVE Sockets'
<1>1. PICK life \in {"waiting", "gone"}, r \in Replies :
        /\ child' = [child EXCEPT ![c] = life] /\ r.of = Head(inbox[c])
        /\ outbox' = [outbox EXCEPT ![c] = Append(outbox[c], r)]
  BY ExecuteOutcome DEF IInv
<1>2. /\ child[c] = "waiting" /\ inbox[c] # <<>>
      /\ UNCHANGED <<pc, call, late, using, answer, result, lock, supervisor,
                     process, asked, raced>>
      /\ inbox' = [inbox EXCEPT ![c] = Tail(inbox[c])]
  BY ExecuteOutcome DEF IInv
<1>3. \A d \in Calls : d # c => Unmoved(d)
  BY <1>1, <1>2 DEF IInv, TypeOK, Unmoved
<1>4. /\ inbox[c] \in Seq(Calls) /\ outbox[c] \in Seq(Replies)
      /\ child'[c] = life /\ inbox'[c] = Tail(inbox[c]) /\ outbox'[c] = Append(outbox[c], r)
  BY <1>1, <1>2 DEF IInv, TypeOK
<1>5. /\ Len(inbox[c]) \in Nat /\ Len(outbox[c]) \in Nat
      /\ Len(inbox[c]) >= 1 /\ Len(inbox'[c]) = Len(inbox[c]) - 1
      /\ Head(inbox[c]) = inbox[c][1]
  <2>1. Len(inbox[c]) \in Nat /\ Len(outbox[c]) \in Nat
    BY <1>4
  <2> QED
    BY <1>2, <1>4, <2>1, TailOfSeq
<1>6. ~Quiet(c) /\ ~Starting(c) /\ \A n \in Handles : ~Answered(c, n)
  BY <1>5 DEF Quiet, Starting, Answered
<1>7. ASSUME NEW n \in Handles, Busy(c, n) PROVE Busy(c, n)'
  <2>1. Len(outbox[c]) = 0 /\ Len(inbox[c]) = 1 /\ Len(inbox'[c]) = 0
    <3>1. Len(inbox[c]) + Len(outbox[c]) <= 1
      BY <1>7 DEF Busy
    <3>2. \A i, j \in Nat : i + j <= 1 => j + i <= 1
      OBVIOUS
    <3>3. Len(outbox[c]) + Len(inbox[c]) <= 1
      BY <1>5, <3>1, <3>2
    <3> QED
      BY <1>5, <3>3, LastTaken
  <2>2. r.of = n
    BY <1>1, <1>5, <1>7, <2>1 DEF Busy
  <2>3. Len(outbox'[c]) = 1 /\ outbox'[c][1] = r
    BY <1>4, <2>1
  <2>4. Trusted(c, n)'
    BY <1>2, <1>7 DEF Busy, Trusted
  <2> QED
    BY <1>4, <2>1, <2>2, <2>3, <2>4 DEF Busy
<1> QED
  BY <1>2, <1>3, <1>6, <1>7, ChildSockets

LEMMA CrashSockets == ASSUME IInv, NEW c \in Calls, Crash(c) PROVE Sockets'
<1>1. /\ child' = [child EXCEPT ![c] = "gone"]
      /\ UNCHANGED <<pc, call, using, answer, result, supervisor, process, asked, inbox, outbox>>
  BY DEF Crash, thread
<1>2. child'[c] = "gone" /\ \A d \in Calls : d # c => Unmoved(d)
  BY <1>1 DEF IInv, TypeOK, Unmoved
<1>3. /\ Quiet(c) => Quiet(c)'
      /\ Starting(c) => Starting(c)'
      /\ \A n \in Handles : Busy(c, n) => Busy(c, n)'
      /\ \A n \in Handles : Answered(c, n) => Answered(c, n)'
  BY <1>1, <1>2 DEF Quiet, Starting, Busy, Answered, Trusted
<1> QED
  BY <1>1, <1>2, <1>3, ChildSockets

LEMMA BeginSockets == ASSUME IInv, NEW t \in Threads, Begin(t) PROVE Sockets'
<1>1. /\ pc[t] = "idle" /\ pc' = [pc EXCEPT ![t] = "enter"]
      /\ \A u \in Threads : u # t =>
            call'[u] = call[u] /\ using'[u] = using[u] /\ answer'[u] = answer[u]
      /\ UNCHANGED <<result, supervisor, process, child, inbox, outbox, asked>>
  BY DEF Begin, Goto, model, IInv, TypeOK
<1>2. Calm
  BY <1>1 DEF Calm, Unmoved
<1>3. ASSUME NEW u \in Threads, u # t PROVE Occupied(u)'
  <2>1. pc'[u] = pc[u] /\ (pc[u] = "ready" => call[u] \in Calls)
    BY <1>1, <1>3 DEF IInv, TypeOK, Numbers, Numbered
  <2> QED
    BY <1>1, <1>2, <1>3, <2>1, Bystander DEF IInv, Sockets
<1>4. pc'[t] = "enter"
  BY <1>1 DEF IInv, TypeOK
<1>5. Occupied(t)'
  BY <1>4 DEF Occupied, Working
<1>6. ASSUME NEW c \in Calls, supervisor' # 0, process'[supervisor'] = c
      PROVE  Quiet(c)' \/ \E u \in Threads : pc'[u] \in Busying /\ using'[u] = supervisor'
  <2>1. Quiet(c) \/ \E u \in Threads : pc[u] \in Busying /\ using[u] = supervisor
    BY <1>1, <1>6 DEF IInv, Sockets, Owned
  <2>2. CASE Quiet(c)
    BY <1>2, <2>2, CalmKeeps DEF IInv
  <2>3. ASSUME NEW u \in Threads, pc[u] \in Busying, using[u] = supervisor
        PROVE  pc'[u] \in Busying /\ using'[u] = supervisor'
    BY <1>1, <2>3 DEF Busying, IInv, TypeOK
  <2> QED
    BY <2>1, <2>2, <2>3
<1> QED
  BY <1>3, <1>5, <1>6 DEF Sockets, Owned

LEMMA StepSockets == ASSUME IInv, [Next]_vars PROVE Sockets'
<1>1. CASE UNCHANGED vars
  <2>1. UNCHANGED <<pc, call, using, answer, result, supervisor, process, child, inbox, outbox, asked>>
    BY <1>1 DEF vars, thread, model
  <2>2. Calm
    BY <2>1 DEF Calm, Unmoved
  <2>3. ASSUME NEW u \in Threads PROVE Occupied(u)'
    BY <2>1, <2>2, Bystander DEF IInv, Sockets, Numbers, Numbered
  <2>4. Owned'
    BY <2>1, <2>2, CalmKeeps DEF IInv, Sockets, Owned
  <2> QED
    BY <2>3, <2>4 DEF Sockets
<1>2. ASSUME NEW t \in Threads, Step(t) PROVE Sockets'
  BY <1>2, CalmStepSockets, StartChildSockets, AwaitReadySockets, SendRequestSockets,
     ReceiveReplySockets DEF Step, CalmStep
<1> QED
  BY <1>1, <1>2, CalmStepSockets, BeginSockets, LoadSockets, ExecuteSockets, CrashSockets
     DEF Next, CalmStep

-----------------------------------------------------------------------------
(* Without a race every supervisor in use is the global one, holds a child  *)
(* whenever its user relies on one, and no other child lives.               *)

Follows(t) ==
    /\ pc[t] \in Locked /\ using[t] # 0 => supervisor = using[t]
    /\ pc[t] = "run" => supervisor # 0
    /\ pc[t] \in {"ready", "send", "reply"} => process[using[t]] # 0

Held(c) == Alive(c) => supervisor # 0 /\ process[supervisor] = c

Serial ==
    /\ \A c \in Calls : Held(c)
    /\ \A t \in Threads : Follows(t)
    /\ \A n \in Calls : result[n] # "raised"

RacedOrSerial == raced \/ Serial

LEMMA ResetKillsTheChild ==
    ASSUME TypeOK, Serial, ResetBackend PROVE \A c \in Calls : ~Alive(c)'
<1> SUFFICES ASSUME NEW c \in Calls, Alive(c)' PROVE FALSE
  OBVIOUS
<1>1. Alive(c)
  BY ResetForgets DEF Forgets, Unmoved, Alive
<1>2. supervisor # 0 /\ process[supervisor] = c /\ c # 0
  BY <1>1 DEF Serial, Held, Calls
<1>3. child' = [d \in Calls |-> IF d = process[supervisor] THEN "gone" ELSE child[d]]
  BY <1>2 DEF ResetBackend, Close
<1> QED
  BY <1>2, <1>3 DEF Alive

(* The other threads of a step under the lock, or without its holder. *)
LEMMA OthersFollow ==
    ASSUME IInv, NEW t \in Threads, Onward(t), pc[t] \in Locked \/ lock = NoThread
    PROVE  \A u \in Threads : u # t => Follows(u)'
<1> SUFFICES ASSUME NEW u \in Threads, u # t PROVE Follows(u)'
  OBVIOUS
<1>1. pc'[u] = pc[u]
  BY DEF Onward
<1>2. pc[u] \notin Locked
  BY Alone, InpaintAssumption DEF IInv, Locking
<1> QED
  BY <1>1, <1>2 DEF Follows, Locked

LEMMA ResetSerial ==
    ASSUME IInv, Serial, ~raced', NEW t \in Threads,
           \/ GiveUpWaiting(t) \/ ResetAfterFailure(t) \/ RaiseAdapterError(t) \/ ResetAgain(t)
    PROVE  Serial'
<1>1. Onward(t)
  BY StepOnward DEF Step, IInv
<1>2. ResetBackend
  BY DEF GiveUpWaiting, ResetAfterFailure, RaiseAdapterError, ResetAgain, UnlockedReset
<1>3. pc[t] \in Locked \/ lock = NoThread
  BY DEF GiveUpWaiting, ResetAfterFailure, RaiseAdapterError, ResetAgain, UnlockedReset, Locked
<1>4. pc'[t] \in {"idle", "again"}
  BY DEF GiveUpWaiting, ResetAfterFailure, RaiseAdapterError, ResetAgain, Return, Goto, IInv, TypeOK
<1>5. \A n \in Calls : result'[n] # "raised"
  BY DEF GiveUpWaiting, ResetAfterFailure, RaiseAdapterError, ResetAgain, Return, IInv, TypeOK, Serial
<1>6. \A c \in Calls : Held(c)'
  BY <1>2, ResetKillsTheChild DEF Held, IInv
<1>7. Follows(t)'
  BY <1>4 DEF Follows, Locked
<1> QED
  BY <1>1, <1>3, <1>5, <1>6, <1>7, OthersFollow DEF Serial

(* A step under the lock that is no reset: the child of the supervisor      *)
(* stays the only one alive.                                                *)
LEMMA LockedSerial ==
    ASSUME IInv, Serial, NEW t \in Threads, pc[t] \in Locked, Step(t),
           ~ResetAfterFailure(t), ~RaiseAdapterError(t)
    PROVE  Serial'
<1>1. Onward(t) /\ Follows(t)
  BY StepOnward DEF IInv, Serial
<1>2. \A u \in Threads : u # t => Follows(u)'
  BY <1>1, OthersFollow
<1>3. CASE StageArtifacts(t) \/ ReadArtifacts(t)
  <2>1. UNCHANGED <<using, supervisor, process, child>>
    BY <1>3 DEF StageArtifacts, ReadArtifacts, model
  <2>2. Follows(t)'
    BY <1>1, <1>3, <2>1 DEF StageArtifacts, ReadArtifacts, Fail, AdapterError, Return, Goto, Follows,
                            Locked, IInv, TypeOK
  <2>3. \A n \in Calls : result'[n] # "raised"
    BY <1>3 DEF StageArtifacts, ReadArtifacts, Fail, AdapterError, Return, Serial, IInv, TypeOK
  <2> QED
    BY <1>2, <2>1, <2>2, <2>3 DEF Serial, Held, Alive
<1>4. CASE PickSupervisor(t)
  <2>1. /\ pc' = [pc EXCEPT ![t] = "run"]
        /\ supervisor' = IF supervisor = 0 THEN call[t] ELSE supervisor
        /\ UNCHANGED <<using, result, process, child>>
    BY <1>4 DEF PickSupervisor, Goto, model
  <2>2. call[t] # 0 /\ using[t] = 0
    BY <1>4 DEF PickSupervisor, IInv, Numbers, Numbered, Calls
  <2>3. Follows(t)'
    BY <2>1, <2>2 DEF Follows, IInv, TypeOK
  <2>4. \A c \in Calls : Held(c)'
    BY <2>1 DEF Serial, Held, Alive
  <2> QED
    BY <1>2, <2>1, <2>3, <2>4 DEF Serial
<1>5. CASE CallRun(t) \/ KeepChild(t)
  <2>1. UNCHANGED <<result, supervisor, process, child>>
    BY <1>1, <1>5 DEF CallRun, KeepChild, Escape, Return, model, Follows
  <2>2. Follows(t)'
    BY <1>1, <1>5 DEF CallRun, KeepChild, Goto, model, Follows, Locked, Alive, IInv, TypeOK
  <2> QED
    BY <1>2, <2>1, <2>2 DEF Serial, Held, Alive
<1>6. CASE StartChild(t)
  <2>1. /\ pc' = [pc EXCEPT ![t] = "ready"] /\ pc[t] = "run"
        /\ process' = [process EXCEPT ![using[t]] = call[t]]
        /\ child' = [child EXCEPT ![call[t]] = "loading"]
        /\ using[t] # 0 /\ ~Alive(process[using[t]])
        /\ UNCHANGED <<call, using, result, supervisor>>
    BY <1>6 DEF StartChild, Goto
  <2>2. PICK s \in Calls, c \in Calls : s = using[t] /\ c = call[t]
    BY <2>1, InpaintAssumption DEF IInv, Numbers, Numbered, TypeOK, Handles, Calls
  <2>3. supervisor = s /\ process'[s] = c /\ pc'[t] = "ready" /\ using'[t] = s /\ c # 0 /\ s # 0
    BY <1>1, <2>1, <2>2 DEF Follows, Locked, IInv, TypeOK, Calls
  <2>4. Follows(t)'
    BY <2>1, <2>3 DEF Follows
  <2>5. ASSUME NEW d \in Calls, d # c PROVE ~Alive(d)'
    <3>1. ~Alive(d)
      BY <2>1, <2>2, <2>3 DEF Serial, Held
    <3> QED
      BY <2>1, <2>2, <2>5, <3>1 DEF Alive, IInv, TypeOK
  <2>6. \A d \in Calls : Held(d)'
    BY <2>1, <2>3, <2>5 DEF Held
  <2> QED
    BY <1>2, <2>1, <2>4, <2>6 DEF Serial
<1>7. CASE AwaitReady(t)
  <2>1. /\ \E step \in {"send", "failed", "raising"} : pc' = [pc EXCEPT ![t] = step]
        /\ pc[t] = "ready" /\ UNCHANGED <<using, result, supervisor, process, child>>
    BY <1>7, ReadyOutcome
  <2>2. Follows(t)'
    BY <1>1, <2>1 DEF Follows, Locked, IInv, TypeOK
  <2> QED
    BY <1>2, <2>1, <2>2 DEF Serial, Held, Alive
<1>8. CASE SendRequest(t)
  <2>1. /\ \E step \in {"reply", "failed"} : pc' = [pc EXCEPT ![t] = step]
        /\ pc[t] = "send" /\ UNCHANGED <<using, result, supervisor, process, child>>
    BY <1>1, <1>8, SendOutcome DEF Follows
  <2>2. Follows(t)'
    BY <1>1, <2>1 DEF Follows, Locked, IInv, TypeOK
  <2> QED
    BY <1>2, <2>1, <2>2 DEF Serial, Held, Alive
<1>9. CASE ReceiveReply(t)
  <2>1. pc[t] = "reply" /\ UNCHANGED <<using, supervisor, process, child>>
    BY <1>9, ReplyOutcome
  <2>2. /\ \E step \in {"read", "failed", "raising"} : pc' = [pc EXCEPT ![t] = step]
        /\ result' = result
    BY <1>1, <1>9, <2>1, ReplyOutcome DEF Follows
  <2>3. Follows(t)'
    BY <1>1, <2>1, <2>2 DEF Follows, Locked, IInv, TypeOK
  <2> QED
    BY <1>2, <2>1, <2>2, <2>3 DEF Serial, Held, Alive
<1> QED
  BY <1>3, <1>4, <1>5, <1>6, <1>7, <1>8, <1>9
     DEF Step, Locked, GiveUpWaiting, AcquireLock, ResetAgain

LEMMA StepRaces == ASSUME NEW t \in Threads, Step(t), ~raced' PROVE ~raced
<1>1. CASE GiveUpWaiting(t) \/ ResetAgain(t)
  BY <1>1, Zenon DEF GiveUpWaiting, ResetAgain, UnlockedReset
<1>2. CASE ~GiveUpWaiting(t) /\ ~ResetAgain(t)
  <2>1. raced' = raced
    BY <1>2 DEF Step, AcquireLock, StageArtifacts, PickSupervisor, CallRun, KeepChild, StartChild,
                AwaitReady, SendRequest, ReceiveReply, ReadArtifacts, ResetAfterFailure,
                RaiseAdapterError
  <2> QED
    BY <2>1
<1> QED
  BY <1>1, <1>2

LEMMA StepSerial == ASSUME IInv, RacedOrSerial, [Next]_vars PROVE RacedOrSerial'
<1> SUFFICES ASSUME ~raced' PROVE Serial'
  BY DEF RacedOrSerial
<1>1. CASE UNCHANGED <<pc, using, result, supervisor, process, child, raced>>
  BY <1>1 DEF RacedOrSerial, Serial, Follows, Held, Alive
<1>2. ASSUME NEW t \in Threads, Begin(t) PROVE Serial'
  <2>1. /\ pc' = [pc EXCEPT ![t] = "enter"] /\ using' = [using EXCEPT ![t] = 0]
        /\ UNCHANGED <<result, supervisor, process, child, raced>>
    BY <1>2 DEF Begin, Goto, model
  <2>2. Serial /\ \A u \in Threads : Follows(u)
    BY <2>1 DEF RacedOrSerial, Serial
  <2>3. \A u \in Threads : Follows(u)'
    BY <2>1, <2>2 DEF Follows, Locked, IInv, TypeOK
  <2> QED
    BY <2>1, <2>2, <2>3 DEF Serial, Held, Alive
<1>3. ASSUME NEW t \in Threads, AcquireLock(t) PROVE Serial'
  <2>1. /\ pc[t] = "enter" /\ pc' = [pc EXCEPT ![t] = "stage"]
        /\ UNCHANGED <<using, result, supervisor, process, child, raced>>
    BY <1>3 DEF AcquireLock, Goto, model
  <2>2. using[t] = 0
    BY <2>1 DEF IInv, Numbers, Numbered
  <2>3. Serial /\ \A u \in Threads : Follows(u)
    BY <2>1 DEF RacedOrSerial, Serial
  <2>4. \A u \in Threads : Follows(u)'
    BY <2>1, <2>2, <2>3 DEF Follows, Locked, IInv, TypeOK
  <2> QED
    BY <2>1, <2>3, <2>4 DEF Serial, Held, Alive
<1>4. ASSUME NEW t \in Threads, Step(t), ~AcquireLock(t) PROVE Serial'
  <2>1. Serial
    BY <1>4, StepRaces DEF RacedOrSerial
  <2>2. pc[t] \in Locked \/ GiveUpWaiting(t) \/ ResetAgain(t)
    BY <1>4 DEF Step, Locked, StageArtifacts, PickSupervisor, CallRun, KeepChild, StartChild,
                AwaitReady, SendRequest, ReceiveReply, ReadArtifacts, ResetAfterFailure,
                RaiseAdapterError
  <2> QED
    BY <1>4, <2>1, <2>2, ResetSerial, LockedSerial
<1>5. ASSUME NEW c \in Calls, Load(c) \/ Execute(c) \/ Crash(c) PROVE Serial'
  <2>1. UNCHANGED <<pc, using, result, supervisor, process, raced>>
    BY <1>5 DEF Load, Execute, Crash, thread
  <2>2. \A d \in Calls : Alive(d)' => Alive(d)
    BY <1>5 DEF Load, Execute, Crash, Alive, IInv, TypeOK
  <2> QED
    BY <2>1, <2>2 DEF RacedOrSerial, Serial, Held, Follows
<1>6. CASE UNCHANGED vars
  BY <1>1, <1>6 DEF vars, thread, model
<1>7. ASSUME NEW t \in Threads, Expire(t) PROVE Serial'
  BY <1>1, <1>7 DEF Expire, model
<1> QED
  BY <1>2, <1>3, <1>4, <1>5, <1>6, <1>7 DEF Next

-----------------------------------------------------------------------------
(* The theorems.                                                            *)

LEMMA InitIInv == Init => IInv
<1> SUFFICES ASSUME Init PROVE IInv
  OBVIOUS
<1>1. TypeOK
  <2>1. 0 \in Handles
    BY InpaintAssumption DEF Handles
  <2>2. late \in [Threads -> BOOLEAN] /\ raced \in BOOLEAN
    BY Zenon DEF Init
  <2>3. inbox \in [Calls -> Seq(Calls)] /\ outbox \in [Calls -> Seq(Replies)]
    BY DEF Init
  <2> QED
    BY <2>1, <2>2, <2>3 DEF Init, TypeOK, Steps, Results
<1>2. Numbers
  BY DEF Init, Numbers, Distinct, Unused, Numbered, Born, Fresh, Calls
<1>3. Locking
  BY DEF Init, Locking, Locked
<1>4. Sockets
  BY DEF Init, Sockets, Occupied, Working, Owned
<1> QED
  BY <1>1, <1>2, <1>3, <1>4 DEF IInv

LEMMA StepIInv == IInv /\ [Next]_vars => IInv'
BY StepTypes, StepNumbers, StepLocking, StepSockets DEF IInv

LEMMA Invariance == Spec => []IInv
BY InitIInv, StepIInv, PTL DEF Spec

(* The variables keep their types: in particular a child never has a        *)
(* request of nobody in its inbox, nor the lock a holder that is no thread. *)
THEOREM TypeCorrect == Spec => []TypeOK
<1>1. IInv => TypeOK
  BY DEF IInv
<1> QED
  BY Invariance, <1>1, PTL

(* The tiles a call composites are the answer to its own request, however   *)
(* many calls timed out or reset the backend before it.                     *)
THEOREM AnswersAreOwn == Spec => []AnswerIsOwn
<1>1. IInv => AnswerIsOwn
  BY DEF IInv, Sockets, Occupied, AnswerIsOwn
<1> QED
  BY Invariance, <1>1, PTL

(* No step sends a request to a child that an earlier request failed on.    *)
THEOREM PoisonedChildrenRest == Spec => PoisonedChildIsNotAskedAgain
<1> DEFINE Rest == \A c \in Calls : asked'[c] # asked[c] => \A n \in asked[c] : result[n] = "lama"
<1>1. IInv /\ [Next]_vars => [Rest]_vars
  <2> SUFFICES ASSUME IInv, Next, NEW c \in Calls, asked'[c] # asked[c]
               PROVE  \A n \in asked[c] : result[n] = "lama"
    BY DEF Rest
  <2>1. PICK t \in Threads : SendRequest(t)
    <3>1. ASSUME NEW t \in Threads, Begin(t) \/ CalmStep(t) \/ StartChild(t) \/ AwaitReady(t)
                                     \/ ReceiveReply(t)
          PROVE  asked' = asked
      <4>1. CASE Begin(t) \/ StartChild(t) \/ AwaitReady(t) \/ ReceiveReply(t)
        BY <4>1 DEF Begin, StartChild, AwaitReady, ReceiveReply, model
      <4>2. CASE CalmStep(t)
        BY <4>2, ResetForgets DEF CalmStep, Expire, GiveUpWaiting, AcquireLock, StageArtifacts,
           PickSupervisor, CallRun, KeepChild, ReadArtifacts, ResetAfterFailure,
           RaiseAdapterError, ResetAgain, UnlockedReset, Forgets, IInv, model
      <4> QED
        BY <3>1, <4>1, <4>2
    <3>2. ASSUME NEW d \in Calls, Load(d) \/ Execute(d) \/ Crash(d) PROVE asked' = asked
      BY <3>2 DEF Load, Execute, Crash
    <3> QED
      BY <3>1, <3>2 DEF Next, Step, CalmStep
  <2>2. PICK d : d = process[using[t]] /\ d # 0
                 /\ asked' = [asked EXCEPT ![d] = asked[d] \cup {call[t]}]
    BY <2>1, SendOutcome
  <2>3. d \in Calls /\ Quiet(d)
    BY <2>1, <2>2, AskedWasQuiet, SendOutcome
  <2>4. c = d
    BY <2>2, <2>3 DEF IInv, TypeOK
  <2>5. asked[d] \subseteq Calls
    BY <2>3 DEF IInv, TypeOK
  <2> QED
    BY <2>3, <2>4, <2>5 DEF Quiet, Trusted, Calls
<1> QED
  BY Invariance, <1>1, PTL DEF Spec, PoisonedChildIsNotAskedAgain

(* One warmed model process: until a reset without the lock meets a call    *)
(* that holds it, no two children live and no page fails with a TypeError   *)
(* or an AttributeError of the supervisor.                                  *)
THEOREM OneProcessUntilARace == Spec => []OneModelProcess
<1>1. Init => RacedOrSerial
  BY DEF Init, RacedOrSerial, Serial, Held, Follows, Alive, Locked
<1>2. IInv /\ RacedOrSerial /\ [Next]_vars => RacedOrSerial'
  BY StepSerial
<1>3. RacedOrSerial => OneModelProcess
  <2>1. ASSUME Serial PROVE Cardinality({c \in Calls : Alive(c)}) <= 1
    <3> DEFINE Living == {c \in Calls : Alive(c)}
    <3>1. Living \subseteq {process[supervisor]}
      BY <2>1 DEF Serial, Held
    <3>2. IsFiniteSet({process[supervisor]}) /\ Cardinality({process[supervisor]}) = 1
      BY FS_Singleton
    <3>3. /\ IsFiniteSet(Living) /\ Cardinality(Living) <= Cardinality({process[supervisor]})
      BY <3>1, <3>2, FS_Subset
    <3> QED
      BY <3>2, <3>3
  <2> QED
    BY <2>1 DEF RacedOrSerial, OneModelProcess, Serial
<1> QED
  BY Invariance, <1>1, <1>2, <1>3, PTL DEF Spec

=============================================================================
