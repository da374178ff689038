--------------------------- MODULE SpawnBlocking ---------------------------
(***************************************************************************)
(* include/coasio/detail/blocking/: the thread pool for blocking calls and *)
(* the awaiter that runs one call on it, with the worker threads that run  *)
(* the awaiting tasks and the cancellation of each task's scope.           *)
(*                                                                         *)
(* Each task awaits one call.  Its awaiter and its control_block are named *)
(* by the task.  Critical sections of the pool's mtx_ are one action.      *)
(***************************************************************************)
EXTENDS Naturals, FiniteSets, Sequences, SequencesExt

CONSTANTS
    Tasks,     \* coroutines that co_await spawn_blocking(f)
    Workers,   \* worker threads of the runtime
    Pool,      \* threads of the blocking pool
    NoTask

ASSUME BlockingAssumption ==
    /\ NoTask \notin Tasks
    /\ Workers \intersect Pool = {}

VARIABLES
    queue,       \* queue_ of the pool
    stop,        \* stop_ of the pool
    poolAt,      \* poolAt[p]: where pool thread p is in worker_loop()
    item,        \* item[p]: the call p has taken
    ran,         \* ran[t]: how often t's function has been called
    cancelled,   \* cancelled[t]: control_block::cancelled
    stored,      \* stored[t]: cb_ of the awaiter is set
    guard,       \* guard[t]: state_ of the awaiter's cancel_guard
    scope,       \* scope[t]: where cancel() of t's scope is
    stage,       \* stage[t]: how far the coroutine is
    result,      \* result[t]: what co_await gave
    scheduled,   \* scheduled[t]: how often t is in the run queue
    at,          \* at[w]: where worker w is
    doing        \* doing[w]: the task whose code w runs

poolVars == <<queue, stop, poolAt, item>>
block == <<ran, cancelled>>
awaiter == <<stored, guard, stage, result>>
workerVars == <<at, doing>>
vars == <<poolVars, block, awaiter, scope, scheduled, workerVars>>

Init ==
    /\ queue = <<>>
    /\ stop = "no"
    /\ poolAt = [p \in Pool |-> "looking"]
    /\ item = [p \in Pool |-> NoTask]
    /\ ran = [t \in Tasks |-> 0]
    /\ cancelled = [t \in Tasks |-> FALSE]
    /\ stored = [t \in Tasks |-> FALSE]
    /\ guard = [t \in Tasks |-> "idle"]
    /\ scope = [t \in Tasks |-> "live"]
    /\ stage = [t \in Tasks |-> "new"]
    /\ result = [t \in Tasks |-> "none"]
    /\ scheduled = [t \in Tasks |-> 1]
    /\ at = [w \in Workers |-> "idle"]
    /\ doing = [w \in Workers |-> NoTask]

Requested(t) == scope[t] # "live"
ScopeFree(t) == scope[t] \in {"live", "done"}
Goes(w, step) == at' = [at EXCEPT ![w] = step]
Suspends(w) == Goes(w, "idle") /\ doing' = [doing EXCEPT ![w] = NoTask]
Schedule(t) == scheduled' = [scheduled EXCEPT ![t] = @ + 1]

-----------------------------------------------------------------------------
(* The pool.                                                               *)

NobodyNotified == UNCHANGED poolAt    \* a mutant of NotifyOne

(* cv_.notify_one(): one of the threads that sleep, if any.                *)
NotifyOne ==
    IF \E p \in Pool : poolAt[p] = "asleep"
    THEN \E p \in Pool :
             /\ poolAt[p] = "asleep"
             /\ poolAt' = [poolAt EXCEPT ![p] = "looking"]
    ELSE UNCHANGED poolAt

Peeked == queue                       \* a mutant of Popped: front() without pop_front()

Popped == Tail(queue)

(* worker_loop(), from the lock to the unlock: sleep, leave, or take the   *)
(* oldest call. *)
Look(p) ==
    /\ poolAt[p] = "looking"
    /\ IF queue # <<>>
       THEN /\ item' = [item EXCEPT ![p] = Head(queue)]
            /\ queue' = Popped
            /\ poolAt' = [poolAt EXCEPT ![p] = "executing"]
       ELSE /\ poolAt' = [poolAt EXCEPT ![p] = IF stop = "no" THEN "asleep" ELSE "left"]
            /\ UNCHANGED <<queue, item>>
    /\ UNCHANGED <<stop, block, awaiter, scope, scheduled, workerVars>>

(* control_block::execute(): the call, whose value or exception is kept,   *)
(* then runtime_schedule(). *)
Execute(p) ==
    /\ poolAt[p] = "executing"
    /\ ran' = [ran EXCEPT ![item[p]] = @ + 1]
    /\ poolAt' = [poolAt EXCEPT ![p] = "executed"]
    /\ UNCHANGED <<queue, stop, item, cancelled, awaiter, scope, scheduled, workerVars>>

Resumes(p) ==
    /\ poolAt[p] = "executed"
    /\ Schedule(item[p])
    /\ item' = [item EXCEPT ![p] = NoTask]
    /\ poolAt' = [poolAt EXCEPT ![p] = "looking"]
    /\ UNCHANGED <<queue, stop, block, awaiter, scope, workerVars>>

(* ~pool(), which ~runtime() runs when no root is left.                    *)
StopPool ==
    /\ stop = "no"
    /\ \A t \in Tasks : stage[t] = "done"
    /\ stop' = "set"
    /\ UNCHANGED <<queue, poolAt, item, block, awaiter, scope, scheduled, workerVars>>

(* A mutant of NotifyAll: the destructor notifies one thread only.         *)
OneNotified ==
    /\ stop = "set"
    /\ stop' = "notified"
    /\ NotifyOne
    /\ UNCHANGED <<queue, item, block, awaiter, scope, scheduled, workerVars>>

NotifyAll ==
    /\ stop = "set"
    /\ stop' = "notified"
    /\ poolAt' = [p \in Pool |-> IF poolAt[p] = "asleep" THEN "looking" ELSE poolAt[p]]
    /\ UNCHANGED <<queue, item, block, awaiter, scope, scheduled, workerVars>>

Found(t) == t \in ToSet(queue)

(* std::ranges::find(): the first element that is t. *)
Position(t) ==
    CHOOSE i \in DOMAIN queue :
        queue[i] = t /\ \A j \in DOMAIN queue : queue[j] = t => i <= j

Without(t) == RemoveAt(queue, Position(t))

-----------------------------------------------------------------------------
(* The awaiter, on the worker that runs the task.                          *)

Resume(w, t) ==
    /\ at[w] = "idle"
    /\ scheduled[t] > 0
    /\ scheduled' = [scheduled EXCEPT ![t] = @ - 1]
    /\ doing' = [doing EXCEPT ![w] = t]
    /\ Goes(w, IF stage[t] = "new" THEN "ready" ELSE "disarm")
    /\ UNCHANGED <<poolVars, block, awaiter, scope>>

(* await_ready() *)
TestScope(w, t) ==
    /\ at[w] = "ready"
    /\ Goes(w, IF Requested(t) THEN "disarm" ELSE "arm")
    /\ stage' = [stage EXCEPT ![t] = "awaiting"]
    /\ UNCHANGED <<poolVars, block, stored, guard, result, scope, scheduled, doing>>

(* await_suspend(): arm(), enqueue(), cb_ = cb, and a second look at the   *)
(* scope for a cancellation that came before the call was queued. *)
Arm(w, t) ==
    /\ at[w] = "arm"
    /\ ScopeFree(t)
    /\ IF Requested(t)
       THEN Goes(w, "disarm") /\ UNCHANGED guard
       ELSE Goes(w, "enqueue") /\ guard' = [guard EXCEPT ![t] = "armed"]
    /\ UNCHANGED <<poolVars, block, stored, stage, result, scope, scheduled, doing>>

Enqueue(w, t) ==
    /\ at[w] = "enqueue"
    /\ IF stop # "no"
       THEN Goes(w, "disarm") /\ UNCHANGED <<queue, poolAt>>
       ELSE Goes(w, "store") /\ queue' = Append(queue, t) /\ NotifyOne
    /\ UNCHANGED <<stop, item, block, awaiter, scope, scheduled, doing>>

(* The awaiter may be gone by now: then the store hits freed memory.       *)
Store(w, t) ==
    /\ at[w] = "store"
    /\ stored' = [stored EXCEPT ![t] = TRUE]
    /\ Goes(w, "recheck")
    /\ UNCHANGED <<poolVars, block, guard, stage, result, scope, scheduled, doing>>

NoRecheck(t) == FALSE                 \* a mutant of SeesCancel: the second look is left out

SeesCancel(t) == Requested(t)

(* ... and this reads scope_ from there.                                   *)
Recheck(w, t) ==
    /\ at[w] = "recheck"
    /\ \E seen \in IF stage[t] = "awaiting" THEN {SeesCancel(t)} ELSE BOOLEAN :
           IF seen THEN Goes(w, "trycancel") /\ UNCHANGED doing ELSE Suspends(w)
    /\ UNCHANGED <<poolVars, block, awaiter, scope, scheduled>>

TryCancel(w, t) ==
    /\ at[w] = "trycancel"
    /\ IF Found(t)
       THEN Goes(w, "mark") /\ queue' = Without(t) /\ UNCHANGED doing
       ELSE Suspends(w) /\ UNCHANGED queue
    /\ UNCHANGED <<stop, poolAt, item, block, awaiter, scope, scheduled>>

(* mark_cancelled_and_schedule() *)
Mark(w, t) ==
    /\ at[w] = "mark"
    /\ cancelled' = [cancelled EXCEPT ![t] = TRUE]
    /\ Goes(w, "marked")
    /\ UNCHANGED <<poolVars, ran, awaiter, scope, scheduled, doing>>

WakeSelf(w, t) ==
    /\ at[w] = "marked"
    /\ Schedule(t)
    /\ Suspends(w)
    /\ UNCHANGED <<poolVars, block, awaiter, scope>>

(* await_resume(): disarm(), then the outcome.                             *)
Disarm(w, t) ==
    /\ at[w] = "disarm"
    /\ ScopeFree(t)
    /\ guard' = [guard EXCEPT ![t] = IF @ = "armed" THEN "disarmed" ELSE @]
    /\ Goes(w, "read")
    /\ UNCHANGED <<poolVars, block, stored, stage, result, scope, scheduled, doing>>

NoBlock(t) == ~stored[t]              \* a mutant of Cancelled: only cb_ is looked at

Cancelled(t) == ~stored[t] \/ cancelled[t]

Read(w, t) ==
    /\ at[w] = "read"
    /\ result' = [result EXCEPT ![t] = IF Cancelled(t) THEN "cancelled" ELSE "outcome"]
    /\ stage' = [stage EXCEPT ![t] = "done"]
    /\ Suspends(w)
    /\ UNCHANGED <<poolVars, block, stored, guard, scope, scheduled>>

-----------------------------------------------------------------------------
(* cancel() of a task's scope, with the awaiter's callback.                *)

Cancel(t) ==
    /\ scope[t] = "live"
    /\ IF guard[t] = "armed"
       THEN /\ guard' = [guard EXCEPT ![t] = "fired"]
            /\ scope' = [scope EXCEPT ![t] = "firing"]
       ELSE /\ scope' = [scope EXCEPT ![t] = "done"]
            /\ UNCHANGED guard
    /\ UNCHANGED <<poolVars, block, stored, stage, result, scheduled, workerVars>>

CancelMoves(t, step) == scope' = [scope EXCEPT ![t] = step]

AlwaysTaken(t) == TRUE                \* a mutant of Withdrawn: try_cancel's answer is ignored

Withdrawn(t) == Found(t)

Callback(t) ==
    /\ scope[t] = "firing"
    /\ CancelMoves(t, IF Withdrawn(t) THEN "marking" ELSE "unlocking")
    /\ queue' = IF Found(t) THEN Without(t) ELSE queue
    /\ UNCHANGED <<stop, poolAt, item, block, awaiter, scheduled, workerVars>>

CancelMarks(t) ==
    /\ scope[t] = "marking"
    /\ cancelled' = [cancelled EXCEPT ![t] = TRUE]
    /\ CancelMoves(t, "waking")
    /\ UNCHANGED <<poolVars, ran, awaiter, scheduled, workerVars>>

CancelWakes(t) ==
    /\ scope[t] = "waking"
    /\ Schedule(t)
    /\ CancelMoves(t, "unlocking")
    /\ UNCHANGED <<poolVars, block, awaiter, workerVars>>

CancelUnlock(t) ==
    /\ scope[t] = "unlocking"
    /\ CancelMoves(t, "done")
    /\ UNCHANGED <<poolVars, block, awaiter, scheduled, workerVars>>

-----------------------------------------------------------------------------
Awaits(w, t) ==
    \/ TestScope(w, t) \/ Arm(w, t) \/ Enqueue(w, t) \/ Store(w, t) \/ Recheck(w, t)
    \/ TryCancel(w, t) \/ Mark(w, t) \/ WakeSelf(w, t) \/ Disarm(w, t) \/ Read(w, t)

WorkerStep(w) == \E t \in Tasks : doing[w] = t /\ Awaits(w, t)

PoolStep(p) == Look(p) \/ Execute(p) \/ Resumes(p)

CancelStep(t) == Callback(t) \/ CancelMarks(t) \/ CancelWakes(t) \/ CancelUnlock(t)

Next ==
    \/ \E p \in Pool : PoolStep(p)
    \/ StopPool \/ NotifyAll
    \/ \E w \in Workers : WorkerStep(w)
    \/ \E w \in Workers, t \in Tasks : Resume(w, t)
    \/ \E t \in Tasks : Cancel(t) \/ CancelStep(t)

(* The functions return, threads keep running and what is in the run queue *)
(* is taken by a worker; nobody has to cancel. *)
Fairness ==
    /\ \A p \in Pool : WF_vars(PoolStep(p))
    /\ WF_vars(StopPool) /\ WF_vars(NotifyAll)
    /\ \A w \in Workers : WF_vars(WorkerStep(w))
    /\ \A t \in Tasks : WF_vars(\E w \in Workers : Resume(w, t))
    /\ \A t \in Tasks : WF_vars(CancelStep(t))

Spec == Init /\ [][Next]_vars
FairSpec == Spec /\ Fairness

-----------------------------------------------------------------------------
(* The variables hold values of their C++ types; no function is called     *)
(* twice. *)
TypeOK ==
    /\ queue \in Seq(Tasks)
    /\ stop \in {"no", "set", "notified"}
    /\ poolAt \in [Pool -> {"looking", "asleep", "executing", "executed", "left"}]
    /\ item \in [Pool -> Tasks \union {NoTask}]
    /\ ran \in [Tasks -> 0..1]
    /\ cancelled \in [Tasks -> BOOLEAN]
    /\ stored \in [Tasks -> BOOLEAN]
    /\ guard \in [Tasks -> {"idle", "armed", "fired", "disarmed"}]
    /\ scope \in [Tasks -> {"live", "firing", "marking", "waking", "unlocking", "done"}]
    /\ stage \in [Tasks -> {"new", "awaiting", "done"}]
    /\ result \in [Tasks -> {"none", "cancelled", "outcome"}]
    /\ scheduled \in [Tasks -> Nat]
    /\ at \in [Workers -> {"idle", "ready", "arm", "enqueue", "store", "recheck", "trycancel",
                           "mark", "marked", "disarm", "read"}]
    /\ doing \in [Workers -> Tasks \union {NoTask}]

(* A cancelled scope leaves no call of its task in the queue, unless the   *)
(* thread that queued it has yet to take its second look. *)
CancelReachesQueue ==
    \A t \in Tasks :
        scope[t] = "done" /\ t \in ToSet(queue) =>
            \E w \in Workers : doing[w] = t /\ at[w] \in {"store", "recheck", "trycancel"}

(* A call that is withdrawn is never executed, and an outcome is read only *)
(* of a call that was. *)
WithdrawnNeverRuns ==
    \A t \in Tasks :
        /\ cancelled[t] => ran[t] = 0
        /\ result[t] = "outcome" => ran[t] = 1

(* Whoever is told "cancelled" may rely on it: the function was not called *)
(* and will not be. *)
HonestResult ==
    \A t \in Tasks : result[t] = "cancelled" => ran[t] = 0

(* The awaiters keep the promise of Await, though the thread that has      *)
(* queued a call stays in await_suspend() while another resumes its task.  *)
Awake(t) == \E w \in Workers : doing[w] = t /\ at[w] \in {"ready", "arm", "enqueue", "disarm", "read"}

Phase(t) ==
    IF scheduled[t] > 1 \/ (scheduled[t] = 1 /\ Awake(t)) THEN "twice"
    ELSE IF scheduled[t] = 1 THEN "woken"
    ELSE IF Awake(t) THEN "running"
    ELSE IF stage[t] = "done" THEN "ended" ELSE "suspended"

Promise == INSTANCE Await WITH
               phase <- [t \in Tasks |-> Phase(t)],
               requested <- {t \in Tasks : Requested(t)}

ImplementsAwait == Promise!FairSpec

(* Every await comes to an end, and then the pool can be destroyed.        *)
PoolEnds == <>(\A p \in Pool : poolAt[p] = "left")
=============================================================================
