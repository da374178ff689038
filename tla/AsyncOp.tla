------------------------------ MODULE AsyncOp ------------------------------
(***************************************************************************)
(* include/coasio/detail/async_op.hpp, and the two awaiters written like   *)
(* it, time::sleep() and listener::accept(): a coroutine that awaits an    *)
(* asio operation, the io thread that runs its completion handler, and the *)
(* cancellation of the coroutine's scope, which reaches asio through the   *)
(* cancellation_signal of the awaiter.                                     *)
(*                                                                         *)
(* A task has one awaiter at a time, named by the task, and no thread      *)
(* stays inside await_suspend() once the operation is started, so at[t]    *)
(* says where the code of t is, on whichever worker.  asio is external: an *)
(* operation is ready at any time or never.                                *)
(***************************************************************************)
EXTENDS Naturals, FiniteSets

CONSTANTS
    Tasks,            \* the coroutines
    Used,             \* the operations they await
    IoWorkers,        \* io_worker_count: the threads in io_context_.run()
    CancelInSuspend   \* whether a cancel() may fall between arm() and the start

(* The operations handed to async_op(), whose awaiters differ in nothing   *)
(* but the initiator. *)
Resolves == {"resolve"}
Connects == {"connect", "connect_impl"}
SocketOps == {"read", "read_some", "write", "write_some", "wait"}
TimerOps == {"timer_wait"}
ListenerOps == {"listener_wait"}
FileOps == {"file_read", "file_read_some", "file_write", "file_write_some"}
FileAtOps == {"read_at", "read_some_at", "write_at", "write_some_at"}

(* A nap is a sleep of no time at all.                                     *)
Operations ==
    UNION {Resolves, Connects, SocketOps, TimerOps, ListenerOps, FileOps, FileAtOps}
        \union {"accept", "sleep", "nap"}

ASSUME AsyncAssumption ==
    /\ Used \subseteq Operations
    /\ IoWorkers \in Nat \ {0}
    /\ CancelInSuspend \in BOOLEAN

VARIABLES
    at,          \* at[t]: where the coroutine is
    kind,        \* kind[t]: what it awaits
    guard,       \* guard[t]: state_ of the awaiter's cancel_guard
    scope,       \* scope[t]: where cancel() of t's scope is
    op,          \* op[t]: where the operation or its completion handler is
    outcome,     \* outcome[t]: what asio says of the operation
    ec,          \* ec[t]: ec_ of the awaiter
    result,      \* result[t]: what the last co_await gave
    scheduled    \* scheduled[t]: how often t is in the run queue

handler == <<op, outcome>>
asyncVars == <<at, kind, guard, scope, handler, ec, result, scheduled>>

Init ==
    /\ at = [t \in Tasks |-> "new"]
    /\ kind = [t \in Tasks |-> "none"]
    /\ guard = [t \in Tasks |-> "idle"]
    /\ scope = [t \in Tasks |-> "live"]
    /\ op = [t \in Tasks |-> "none"]
    /\ outcome = [t \in Tasks |-> "none"]
    /\ ec = [t \in Tasks |-> "none"]
    /\ result = [t \in Tasks |-> "none"]
    /\ scheduled = [t \in Tasks |-> 1]

Requested(t) == scope[t] # "live"

MutexIgnored(t) == TRUE           \* a mutant of ScopeFree: disarm() does not wait for cancel()

ScopeFree(t) == scope[t] # "firing"

Goes(t, step) == at' = [at EXCEPT ![t] = step]
OpIs(t, step) == op' = [op EXCEPT ![t] = step]

WokenTwice(t) == scheduled' = [scheduled EXCEPT ![t] = @ + 2]    \* a mutant of Schedule

(* runtime_schedule()                                                      *)
Schedule(t) == scheduled' = [scheduled EXCEPT ![t] = @ + 1]

Disarmed(t) == guard' = [guard EXCEPT ![t] = IF @ = "armed" THEN "disarmed" ELSE @]

-----------------------------------------------------------------------------
(* The coroutine, on the worker that runs it.                              *)

Resume(t) ==
    /\ at[t] \in {"new", "suspended"}
    /\ scheduled[t] > 0
    /\ scheduled' = [scheduled EXCEPT ![t] = @ - 1]
    /\ Goes(t, IF at[t] = "new" THEN "body" ELSE "disarm")
    /\ UNCHANGED <<kind, guard, scope, handler, ec, result>>

(* co_await k, with a new awaiter that is bound to the scope.              *)
Begin(t, k) ==
    /\ at[t] = "body"
    /\ kind' = [kind EXCEPT ![t] = k]
    /\ guard' = [guard EXCEPT ![t] = "idle"]
    /\ OpIs(t, "none")
    /\ outcome' = [outcome EXCEPT ![t] = "none"]
    /\ ec' = [ec EXCEPT ![t] = "none"]
    /\ Goes(t, "ready")
    /\ UNCHANGED <<scope, result, scheduled>>

(* What a cancelled scope puts in ec_: accept() speaks of operation_aborted *)
(* where the others have error::cancelled. *)
Refusal(t) == IF kind[t] = "accept" THEN "aborted" ELSE "cancelled"
Refuses(t) == ec' = [ec EXCEPT ![t] = Refusal(t)]

(* await_ready(); a sleep of no time does not look at the scope.           *)
TestScope(t) ==
    /\ at[t] = "ready"
    /\ \/ kind[t] = "nap" /\ Goes(t, "disarm") /\ UNCHANGED ec
       \/ kind[t] # "nap" /\ Requested(t) /\ Goes(t, "disarm") /\ Refuses(t)
       \/ kind[t] # "nap" /\ ~Requested(t) /\ Goes(t, "arm") /\ UNCHANGED ec
    /\ UNCHANGED <<kind, guard, scope, handler, result, scheduled>>

ArmsAnyway(t) == FALSE            \* a mutant of TooLate: arm()'s answer is ignored

TooLate(t) == Requested(t)

(* await_suspend(): arm() ...                                              *)
Arm(t) ==
    /\ at[t] = "arm"
    /\ ScopeFree(t)
    /\ IF TooLate(t)
       THEN Goes(t, "refused") /\ Refuses(t) /\ UNCHANGED guard
       ELSE /\ Goes(t, "start")
            /\ guard' = [guard EXCEPT ![t] = "armed"]
            /\ UNCHANGED ec
    /\ UNCHANGED <<kind, scope, handler, result, scheduled>>

Refused(t) ==
    /\ at[t] = "refused"
    /\ Schedule(t)
    /\ Goes(t, "suspended")
    /\ UNCHANGED <<kind, guard, scope, handler, ec, result>>

(* ... and the initiator, which installs asio's handler in the slot.       *)
Start(t) ==
    /\ at[t] = "start"
    /\ OpIs(t, "pending")
    /\ Goes(t, "suspended")
    /\ UNCHANGED <<kind, guard, scope, outcome, ec, result, scheduled>>

(* await_resume()                                                          *)
Disarm(t) ==
    /\ at[t] = "disarm"
    /\ ScopeFree(t)
    /\ Disarmed(t)
    /\ Goes(t, "read")
    /\ UNCHANGED <<kind, scope, handler, ec, result, scheduled>>

(* A mutant of Answer: a cancelled scope outweighs what asio has done.     *)
ScopeFirst(t) ==
    IF Requested(t) THEN "cancelled" ELSE IF ec[t] = "none" THEN "value" ELSE ec[t]

Answer(t) == IF ec[t] = "none" THEN "value" ELSE ec[t]

Read(t) ==
    /\ at[t] = "read"
    /\ result' = [result EXCEPT ![t] = Answer(t)]
    /\ Goes(t, "body")
    /\ UNCHANGED <<kind, guard, scope, handler, ec, scheduled>>

(* The root ends and its frame is destroyed.                               *)
End(t) ==
    /\ at[t] = "body"
    /\ Goes(t, "ended")
    /\ UNCHANGED <<kind, guard, scope, handler, ec, result, scheduled>>

-----------------------------------------------------------------------------
(* asio and the io threads.                                                *)

(* asio completes the operation: with "aborted" when the socket is closed  *)
(* or the timer cancelled, which nobody can do to the timer of a sleep. *)
Complete(t, how) ==
    /\ op[t] = "pending"
    /\ kind[t] = "sleep" => how = "value"
    /\ OpIs(t, "ready")
    /\ outcome' = [outcome EXCEPT ![t] = how]
    /\ UNCHANGED <<at, kind, guard, scope, ec, result, scheduled>>

Handling == {t \in Tasks : op[t] \in {"disarming", "delivering", "waking"}}

(* An io thread calls the handler: disarm(), ...                           *)
Take(t) ==
    /\ op[t] = "ready"
    /\ Cardinality(Handling) < IoWorkers
    /\ OpIs(t, "disarming")
    /\ UNCHANGED <<at, kind, guard, scope, outcome, ec, result, scheduled>>

HandlerDisarms(t) ==
    /\ op[t] = "disarming"
    /\ ScopeFree(t)
    /\ Disarmed(t)
    /\ OpIs(t, "delivering")
    /\ UNCHANGED <<at, kind, scope, outcome, ec, result, scheduled>>

(* ... ec_ and the value, ...                                              *)
Deliver(t) ==
    /\ op[t] = "delivering"
    /\ ec' = [ec EXCEPT ![t] = IF outcome[t] = "value" THEN "none" ELSE outcome[t]]
    /\ OpIs(t, "waking")
    /\ UNCHANGED <<at, kind, guard, scope, outcome, result, scheduled>>

(* ... runtime_schedule().                                                 *)
HandlerWakes(t) ==
    /\ op[t] = "waking"
    /\ Schedule(t)
    /\ OpIs(t, "over")
    /\ UNCHANGED <<at, kind, guard, scope, outcome, ec, result>>

-----------------------------------------------------------------------------
(* cancel() of the scope.                                                  *)

Cancel(t) ==
    /\ scope[t] = "live"
    /\ CancelInSuspend \/ at[t] # "start"
    /\ IF guard[t] = "armed"
       THEN /\ guard' = [guard EXCEPT ![t] = "fired"]
            /\ scope' = [scope EXCEPT ![t] = "firing"]
       ELSE scope' = [scope EXCEPT ![t] = "done"] /\ UNCHANGED guard
    /\ UNCHANGED <<at, kind, handler, ec, result, scheduled>>

NothingEmitted(t) == UNCHANGED handler    \* a mutant of Emits: the signal is not emitted

(* sig_.emit(): whatever waits in asio is aborted, anything else is not;   *)
(* nor need a name lookup, which may be in the hands of the system, be.    *)
Emits(t) ==
    \/ op[t] = "pending" /\ OpIs(t, "ready") /\ outcome' = [outcome EXCEPT ![t] = "aborted"]
    \/ (op[t] = "pending" => kind[t] = "resolve") /\ UNCHANGED handler

Emit(t) ==
    /\ scope[t] = "firing"
    /\ Emits(t)
    /\ scope' = [scope EXCEPT ![t] = "done"]
    /\ UNCHANGED <<at, kind, guard, ec, result, scheduled>>

-----------------------------------------------------------------------------
(* Library code, on a worker and on an io thread.                          *)
AwaitStep(t) ==
    \/ Resume(t) \/ TestScope(t) \/ Arm(t) \/ Refused(t) \/ Start(t) \/ Disarm(t) \/ Read(t)
HandlerStep(t) == HandlerDisarms(t) \/ Deliver(t) \/ HandlerWakes(t)

Around(t) ==
    \/ AwaitStep(t) \/ Take(t) \/ HandlerStep(t) \/ Cancel(t) \/ Emit(t)
    \/ \E how \in {"value", "failure", "aborted"} : Complete(t, how)

Body(t) == End(t) \/ \E k \in Used : Begin(t, k)

Next == \E t \in Tasks : Around(t) \/ Body(t)

(* A name lookup ends, at the latest when it times out.                    *)
LookupEnds(t) == kind[t] = "resolve" /\ \E how \in {"value", "failure"} : Complete(t, how)

(* Threads keep running, what is in the run queue is resumed and asio's    *)
(* queue of handlers is first come, first served; no other operation has   *)
(* to complete and nobody has to cancel. *)
Fairness ==
    \A t \in Tasks :
        /\ WF_asyncVars(AwaitStep(t)) /\ SF_asyncVars(Take(t))
        /\ WF_asyncVars(HandlerStep(t)) /\ WF_asyncVars(Emit(t)) /\ WF_asyncVars(LookupEnds(t))

Spec == Init /\ [][Next]_asyncVars
FairSpec == Spec /\ Fairness

-----------------------------------------------------------------------------
(* The variables hold values of their C++ types.                           *)
TypeOK ==
    /\ at \in [Tasks -> {"new", "body", "ready", "arm", "refused", "start", "suspended",
                         "disarm", "read", "ended"}]
    /\ kind \in [Tasks -> Operations \union {"none"}]
    /\ guard \in [Tasks -> {"idle", "armed", "fired", "disarmed"}]
    /\ scope \in [Tasks -> {"live", "firing", "done"}]
    /\ op \in [Tasks -> {"none", "pending", "ready", "disarming", "delivering", "waking", "over"}]
    /\ outcome \in [Tasks -> {"none", "value", "failure", "aborted"}]
    /\ ec \in [Tasks -> {"none", "cancelled", "failure", "aborted"}]
    /\ result \in [Tasks -> {"none", "value", "cancelled", "failure", "aborted"}]
    /\ scheduled \in [Tasks -> 0..1]

InAsio(t) == op[t] \in {"pending", "ready", "disarming", "delivering", "waking"}

(* A suspended coroutine has exactly one waker: asio with its handler, or  *)
(* the run queue; one that runs or has ended has none.  So it is neither   *)
(* forgotten nor resumed twice. *)
OneWaker ==
    \A t \in Tasks :
        IF at[t] \in {"new", "suspended"}
        THEN IF InAsio(t) THEN scheduled[t] = 0 ELSE scheduled[t] = 1
        ELSE ~InAsio(t) /\ scheduled[t] = 0

(* The callback emits through a signal that exists: the awaiter has not    *)
(* passed the disarm() that precedes its destruction. *)
SignalAlive ==
    \A t \in Tasks : scope[t] = "firing" => at[t] \in {"start", "suspended", "disarm"}

(* An awaiter is woken once, and gone only when nobody will touch it.      *)
AwaitersSound == OneWaker /\ SignalAlive

(* What co_await gives is what happened: an operation that was started     *)
(* ends as asio says, though a cancellation may have come in between, and  *)
(* one that was not is told cancelled only if the scope was. *)
HonestResult ==
    \A t \in Tasks :
        at[t] \in {"body", "ended"} /\ kind[t] \notin {"none", "nap"} =>
            IF op[t] = "over" THEN result[t] = outcome[t]
                              ELSE Requested(t) /\ result[t] = Refusal(t)

(* A cancellation reaches whatever asio still holds and can be cancelled.  *)
CancelReachesOp ==
    \A t \in Tasks : ~(scope[t] = "done" /\ op[t] = "pending" /\ kind[t] # "resolve")

(* Where a task is, as Await sees it; ConnectProofs shows that the awaiters *)
(* keep the safety part of Await's promise. *)
Phase(t) ==
    CASE scheduled[t] > 1 -> "twice"
      [] scheduled[t] = 1 /\ at[t] \in {"new", "suspended"} -> "woken"
      [] scheduled[t] = 0 /\ at[t] \in {"refused", "suspended"} -> "suspended"
      [] at[t] = "ended" -> "ended"
      [] OTHER -> "running"

Promise == INSTANCE Await WITH
               phase <- [t \in Tasks |-> Phase(t)],
               requested <- {t \in Tasks : Requested(t)}
=============================================================================
