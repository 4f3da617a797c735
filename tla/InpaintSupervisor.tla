-------------------------- MODULE InpaintSupervisor --------------------------
(***************************************************************************)
(* The supervised LaMa process of one interpreter (webtoon/inpainter.py):  *)
(* supervised_inpaint_tiles, the module globals _infer_lock and            *)
(* _supervisor, _PersistentSupervisor and its child, and the two callers   *)
(* cleanup_bubble (webtoon) and cleanup_region (manga).  The threads are   *)
(* the pool workers of process_webtoon.py and process_manga.py.            *)
(*                                                                         *)
(* A call is one page region whose cleanup needs the model.  Calls are     *)
(* numbered; the supervisor object a call creates and the child a call     *)
(* starts carry its number, and 0 is None.  Deadlines are the flag late[t] *)
(* that Expire may raise at any moment.  A child that dies silently sends  *)
(* nothing: the control sockets are datagram sockets, so its parent only   *)
(* sees its own deadline.  The one-shot child of the evaluation scripts    *)
(* (backend given) and the tile pixels are left out.                       *)
(***************************************************************************)
EXTENDS Integers, Sequences, FiniteSets

CONSTANTS
    Threads,
    NoThread,
    MaxCalls,      \* bound: calls of the process
    ResetsTwice    \* the caller resets again after the lock (webtoon) or not (manga)

ASSUME InpaintAssumption ==
    /\ MaxCalls \in Nat
    /\ NoThread \notin Threads
    /\ ResetsTwice \in BOOLEAN

VARIABLES
    pc,         \* pc[t]: where the call of thread t is
    call,       \* call[t]: its number
    late,       \* late[t]: its deadline has passed
    using,      \* using[t]: the supervisor object run() works on
    answer,     \* answer[t]: the call whose reply it accepted
    result,     \* result[n]: what call n did to its page
    lock,       \* _infer_lock: its holder, or NoThread
    supervisor, \* _supervisor
    process,    \* process[s]: the child s holds, with its connection, or 0
    child,      \* child[c]: the life of a child process
    inbox,      \* inbox[c]: requests it has not read
    outbox,     \* outbox[c]: replies nobody has read
    asked,      \* history: asked[c]: the calls sent to child c
    raced       \* history: a reset without the lock met a call that holds it

thread == <<pc, call, late, using, answer, result>>
model  == <<process, child, inbox, outbox, asked>>
vars   == <<thread, lock, supervisor, model, raced>>

Calls   == 1..MaxCalls
Handles == 0..MaxCalls
Replies == [status: {"ready", "ok", "error", "unexpected"}, of: Handles]
Steps   == {"idle", "enter", "stage", "pick", "run", "ready", "send", "reply",
            "read", "failed", "raising", "unlocked", "again"}
Results == {"none", "lama", "filled", "adapter_error", "raised"}

TypeOK ==
    /\ pc \in [Threads -> Steps]
    /\ call \in [Threads -> Handles] /\ answer \in [Threads -> Handles]
    /\ late \in [Threads -> BOOLEAN]
    /\ using \in [Threads -> Handles]
    /\ result \in [Calls -> Results]
    /\ lock \in Threads \cup {NoThread}
    /\ supervisor \in Handles
    /\ process \in [Calls -> Handles]
    /\ child \in [Calls -> {"none", "loading", "waiting", "gone"}]
    /\ inbox \in [Calls -> Seq(Calls)]
    /\ outbox \in [Calls -> Seq(Replies)]
    /\ asked \in [Calls -> SUBSET Calls]
    /\ raced \in BOOLEAN

Init ==
    /\ pc = [t \in Threads |-> "idle"] /\ call = [t \in Threads |-> 0]
    /\ late = [t \in Threads |-> FALSE] /\ using = [t \in Threads |-> 0]
    /\ answer = [t \in Threads |-> 0]
    /\ result = [n \in Calls |-> "none"]
    /\ lock = NoThread /\ supervisor = 0
    /\ process = [s \in Calls |-> 0] /\ child = [c \in Calls |-> "none"]
    /\ inbox = [c \in Calls |-> <<>>] /\ outbox = [c \in Calls |-> <<>>]
    /\ asked = [c \in Calls |-> {}] /\ raced = FALSE

Alive(c) == c # 0 /\ child[c] \in {"loading", "waiting"}

Goto(t, step) == pc' = [pc EXCEPT ![t] = step]

(* The call ends with this result. *)
Return(t, outcome) ==
    /\ Goto(t, "idle")
    /\ result' = [result EXCEPT ![call[t]] = outcome]

-----------------------------------------------------------------------------
(* _reset_backend: forget the supervisor and close it, whoever uses it.     *)

(* Mutant: the sockets are closed and the child is left running. *)
CloseSocketsOnly(s) ==
    /\ process' = [process EXCEPT ![s] = 0]
    /\ inbox' = [inbox EXCEPT ![process[s]] = <<>>]
    /\ outbox' = [outbox EXCEPT ![process[s]] = <<>>]
    /\ UNCHANGED <<child, asked>>

(* Mutant: the closed process is marked and not forgotten. *)
CloseMarked(s) ==
    /\ process' = [process EXCEPT ![s] = -1]
    /\ child' = [c \in Calls |-> IF c = process[s] THEN "gone" ELSE child[c]]
    /\ UNCHANGED <<inbox, outbox, asked>>

Close(s) ==
    /\ process' = [process EXCEPT ![s] = 0]
    /\ child' = [c \in Calls |-> IF c = process[s] THEN "gone" ELSE child[c]]
    /\ inbox' = [inbox EXCEPT ![process[s]] = <<>>]
    /\ outbox' = [outbox EXCEPT ![process[s]] = <<>>]
    /\ UNCHANGED asked

(* Mutant: a failed call leaves the backend for the next one. *)
KeepBackend == UNCHANGED <<supervisor, model>>

ResetBackend ==
    /\ supervisor' = 0
    /\ IF supervisor = 0 \/ process[supervisor] = 0 THEN UNCHANGED model
                                                      ELSE Close(supervisor)

UnlockedReset ==
    /\ ResetBackend
    /\ raced' = (raced \/ lock # NoThread)

-----------------------------------------------------------------------------
(* Entry: the deadline was set before the call; the lock is waited for.     *)

Begin(t) ==
    /\ pc[t] = "idle"
    /\ \E n \in Calls :
        /\ result[n] = "none" /\ \A u \in Threads : call[u] # n
        /\ \A m \in 1..(n - 1) : \E u \in Threads : call[u] = m \/ result[m] # "none"
        /\ call' = [call EXCEPT ![t] = n]
    /\ late' = [late EXCEPT ![t] = FALSE]
    /\ using' = [using EXCEPT ![t] = 0] /\ answer' = [answer EXCEPT ![t] = 0]
    /\ Goto(t, "enter")
    /\ UNCHANGED <<result, lock, supervisor, model, raced>>

Expire(t) ==
    /\ pc[t] # "idle" /\ ~late[t]
    /\ late' = [late EXCEPT ![t] = TRUE]
    /\ UNCHANGED <<pc, call, using, answer, result, lock, supervisor, model, raced>>

(* Too little time is left, or the lock did not come: reset without it.     *)
GiveUpWaiting(t) ==
    /\ pc[t] = "enter" /\ late[t]
    /\ UnlockedReset
    /\ IF ResetsTwice THEN Goto(t, "again") /\ UNCHANGED result
                      ELSE Return(t, "filled")
    /\ UNCHANGED <<call, late, using, answer, lock>>

AcquireLock(t) ==
    /\ pc[t] = "enter" /\ ~late[t] /\ lock = NoThread
    /\ lock' = t
    /\ Goto(t, "stage")
    /\ UNCHANGED <<call, late, using, answer, result, supervisor, model, raced>>

-----------------------------------------------------------------------------
(* Under the lock.  A SupervisedInpaintError, and any OSError, RuntimeError *)
(* or ValueError, leads to "failed"; an adapter error to "raising"; another *)
(* exception leaves supervised_inpaint_tiles and the page at once.          *)

Fail(t) == Goto(t, "failed") /\ UNCHANGED <<result, lock>>

AdapterError(t) == Goto(t, "raising") /\ UNCHANGED <<result, lock>>

Escape(t) == Return(t, "raised") /\ lock' = NoThread

(* _stage_artifacts in a forked child, which is reaped whatever it does. *)
StageArtifacts(t) ==
    /\ pc[t] = "stage"
    /\ \/ ~late[t] /\ Goto(t, "pick") /\ UNCHANGED <<result, lock>>
       \/ Fail(t)
       \/ ~late[t] /\ AdapterError(t)
    /\ UNCHANGED <<call, late, using, answer, supervisor, model, raced>>

PickSupervisor(t) ==
    /\ pc[t] = "pick"
    /\ supervisor' = IF supervisor = 0 THEN call[t] ELSE supervisor
    /\ Goto(t, "run")
    /\ UNCHANGED <<call, late, using, answer, result, lock, model, raced>>

(* _supervisor.run reads the global again: None has no run().  A child that *)
(* still lives is kept; otherwise the rest of the old one is closed and a   *)
(* new child started.                                                       *)
CallRun(t) ==
    /\ pc[t] = "run" /\ using[t] = 0
    /\ IF supervisor = 0
       THEN Escape(t) /\ UNCHANGED using
       ELSE /\ using' = [using EXCEPT ![t] = supervisor]
            /\ UNCHANGED <<pc, result, lock>>
    /\ UNCHANGED <<call, late, answer, supervisor, model, raced>>

KeepChild(t) ==
    /\ pc[t] = "run" /\ using[t] # 0 /\ Alive(process[using[t]])
    /\ Goto(t, "send")
    /\ UNCHANGED <<call, late, using, answer, result, lock, supervisor, model, raced>>

StartChild(t) ==
    /\ pc[t] = "run" /\ using[t] # 0 /\ ~Alive(process[using[t]])
    /\ process' = [process EXCEPT ![using[t]] = call[t]]
    /\ child' = [child EXCEPT ![call[t]] = "loading"]
    /\ Goto(t, "ready")
    /\ UNCHANGED <<call, late, using, answer, result, lock, supervisor,
                   inbox, outbox, asked, raced>>

(* Mutant: the load of the model has no deadline. *)
AwaitReadyForever(t) ==
    /\ pc[t] = "ready"
    /\ outbox[call[t]] # <<>>
    /\ outbox' = [outbox EXCEPT ![call[t]] = Tail(@)]
    /\ IF Head(outbox[call[t]]).status = "ready"
       THEN Goto(t, "send") /\ UNCHANGED <<result, lock>> ELSE Fail(t)
    /\ UNCHANGED <<call, late, using, answer, supervisor,
                   process, child, inbox, asked, raced>>

(* _recv_control of the child's first message, on a local connection: when  *)
(* another thread has closed it the error is an OSError.                    *)
AwaitReady(t) ==
    /\ pc[t] = "ready"
    /\ LET c == call[t] IN
       \/ /\ outbox[c] # <<>> /\ ~late[t]
          /\ outbox' = [outbox EXCEPT ![c] = Tail(@)]
          /\ CASE Head(outbox[c]).status = "ready" ->
                    Goto(t, "send") /\ UNCHANGED <<result, lock>>
               [] Head(outbox[c]).status = "unexpected" -> AdapterError(t)
               [] OTHER -> Fail(t)
       \/ (late[t] \/ process[using[t]] # c) /\ Fail(t) /\ UNCHANGED outbox
    /\ UNCHANGED <<call, late, using, answer, supervisor,
                   process, child, inbox, asked, raced>>

(* self._connection is None once another thread has closed the supervisor:  *)
(* select() on it is a TypeError; on a closed socket it is a ValueError.    *)
SendRequest(t) ==
    /\ pc[t] = "send"
    /\ LET c == process[using[t]] IN
       \/ /\ c # 0 /\ ~late[t] /\ Alive(c)
          /\ inbox' = [inbox EXCEPT ![c] = Append(@, call[t])]
          /\ asked' = [asked EXCEPT ![c] = @ \cup {call[t]}]
          /\ Goto(t, "reply") /\ UNCHANGED <<result, lock>>
       \/ (c = 0 \/ late[t] \/ ~Alive(c)) /\ Fail(t) /\ UNCHANGED <<inbox, asked>>
       \/ c = 0 /\ Escape(t) /\ UNCHANGED <<inbox, asked>>
    /\ UNCHANGED <<call, late, using, answer, supervisor, process, child, outbox, raced>>

ReceiveReply(t) ==
    /\ pc[t] = "reply"
    /\ LET c == process[using[t]] IN
       \/ /\ c # 0 /\ outbox[c] # <<>> /\ ~late[t]
          /\ outbox' = [outbox EXCEPT ![c] = Tail(@)]
          /\ answer' = [answer EXCEPT ![t] = Head(outbox[c]).of]
          /\ CASE Head(outbox[c]).status = "ok" ->
                    Goto(t, "read") /\ UNCHANGED <<result, lock>>
               [] Head(outbox[c]).status = "unexpected" -> AdapterError(t)
               [] OTHER -> Fail(t)
       \/ (c = 0 \/ late[t]) /\ Fail(t) /\ UNCHANGED <<outbox, answer>>
       \/ c = 0 /\ Escape(t) /\ UNCHANGED <<outbox, answer>>
    /\ UNCHANGED <<call, late, using, supervisor, process, child, inbox, asked, raced>>

(* _read_artifacts, and the caller composites the tiles. *)
ReadArtifacts(t) ==
    /\ pc[t] = "read"
    /\ \/ ~late[t] /\ Return(t, "lama") /\ lock' = NoThread
       \/ Fail(t)
    /\ UNCHANGED <<call, late, using, answer, supervisor, model, raced>>

(* Mutant: only the caller resets, after the lock is released. *)
ReleaseUnreset(t) ==
    /\ pc[t] = "failed"
    /\ lock' = NoThread
    /\ Goto(t, "again")
    /\ UNCHANGED <<call, late, using, answer, result, supervisor, model, raced>>

(* The except clauses reset under the lock; the finally clause releases it. *)
ResetAfterFailure(t) ==
    /\ pc[t] = "failed"
    /\ ResetBackend
    /\ lock' = NoThread
    /\ IF ResetsTwice THEN Goto(t, "again") /\ UNCHANGED result
                      ELSE Return(t, "filled")
    /\ UNCHANGED <<call, late, using, answer, raced>>

RaiseAdapterError(t) ==
    /\ pc[t] = "raising"
    /\ ResetBackend
    /\ lock' = NoThread
    /\ Return(t, "adapter_error")
    /\ UNCHANGED <<call, late, using, answer, raced>>

(* cleanup_bubble: SupervisedInpaintError, a second reset, uniform fill. *)
ResetAgain(t) ==
    /\ pc[t] = "again"
    /\ UnlockedReset
    /\ Return(t, "filled")
    /\ UNCHANGED <<call, late, using, answer, lock>>

-----------------------------------------------------------------------------
(* The child: _persistent_process.  It leaves after any error.              *)

Say(c, status, n) ==
    outbox' = [outbox EXCEPT ![c] = Append(@, [status |-> status, of |-> n])]

Load(c) ==
    /\ child[c] = "loading"
    /\ \/ child' = [child EXCEPT ![c] = "waiting"] /\ Say(c, "ready", 0)
       \/ /\ child' = [child EXCEPT ![c] = "gone"]
          /\ \E status \in {"error", "unexpected"} : Say(c, status, 0)
    /\ UNCHANGED <<thread, lock, supervisor, process, inbox, asked, raced>>

Execute(c) ==
    /\ child[c] = "waiting" /\ inbox[c] # <<>>
    /\ inbox' = [inbox EXCEPT ![c] = Tail(@)]
    /\ \/ Say(c, "ok", Head(inbox[c])) /\ UNCHANGED child
       \/ /\ child' = [child EXCEPT ![c] = "gone"]
          /\ \E status \in {"error", "unexpected"} : Say(c, status, Head(inbox[c]))
    /\ UNCHANGED <<thread, lock, supervisor, process, asked, raced>>

(* Killed by the kernel, by the driver or by hand: no message. *)
Crash(c) ==
    /\ Alive(c)
    /\ child' = [child EXCEPT ![c] = "gone"]
    /\ UNCHANGED <<thread, lock, supervisor, process, inbox, outbox, asked, raced>>

-----------------------------------------------------------------------------
Step(t) ==
    \/ GiveUpWaiting(t) \/ AcquireLock(t) \/ StageArtifacts(t) \/ PickSupervisor(t)
    \/ CallRun(t) \/ KeepChild(t) \/ StartChild(t) \/ AwaitReady(t)
    \/ SendRequest(t) \/ ReceiveReply(t) \/ ReadArtifacts(t)
    \/ ResetAfterFailure(t) \/ RaiseAdapterError(t) \/ ResetAgain(t)

Next ==
    \/ \E t \in Threads : Begin(t) \/ Expire(t) \/ Step(t)
    \/ \E c \in Calls : Load(c) \/ Execute(c) \/ Crash(c)

Spec == Init /\ [][Next]_vars

(* Every wait of a thread has a deadline (select, acquire and join take the *)
(* time that is left), and time passes.  Nothing is assumed of the child.   *)
FairSpec ==
    /\ Spec
    /\ \A t \in Threads : WF_vars(Step(t)) /\ WF_vars(Expire(t))

-----------------------------------------------------------------------------
(* Properties.                                                              *)

(* The tiles a call composites are its own: the reply it accepted answers   *)
(* its request, never one that was left in a socket by an earlier call      *)
(* whose deadline passed while the child went on working.                   *)
AnswerIsOwn ==
    \A t \in Threads : pc[t] = "read" => answer[t] = call[t]

(* A child whose request failed is a poisoned owner: no later call asks it. *)
PoisonedChildIsNotAskedAgain ==
    [][\A c \in Calls : asked'[c] # asked[c] =>
            \A n \in asked[c] : result[n] = "lama"]_vars

(* One warmed model process: while no reset met a call under the lock, at   *)
(* most one child lives and only an adapter error fails a page.  The races  *)
(* the premise excludes are real: GiveUpWaiting and ResetAgain close the    *)
(* supervisor another thread is using, which then starts a child nobody     *)
(* will stop, or leaves with a TypeError or AttributeError.                 *)
OneModelProcess ==
    \/ raced
    \/ /\ Cardinality({c \in Calls : Alive(c)}) <= 1
       /\ \A n \in Calls : result[n] # "raised"

(* Every call returns: a child that hangs, dies or never loads cannot keep  *)
(* a page, nor the lock the other pages wait for.                           *)
EveryCallReturns ==
    \A t \in Threads : pc[t] # "idle" ~> pc[t] = "idle"

=============================================================================
