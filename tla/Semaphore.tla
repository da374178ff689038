----------------------------- MODULE Semaphore -----------------------------
(***************************************************************************)
(* include/coasio/sync/semaphore.hpp (and mutex.hpp, its one-permit use):  *)
(* tasks that acquire permits once and give them back, the worker threads  *)
(* that run them, threads outside the runtime that release, try to acquire *)
(* and forget, and the cancellation of each task's scope.                  *)
(*                                                                         *)
(* A thread runs one piece of code at a time (at[th], doing[th]).  A task  *)
(* that has linked its waiter may be resumed by another worker while the   *)
(* thread that suspended it is still inside await_suspend().  queue_mtx_   *)
(* is held through the loop of grant_locked(), one waiter a step, for      *)
(* release() adds permits, and a waiter for whom the buffer has no room is *)
(* resumed, while it goes on; the other critical sections are one action.  *)
(***************************************************************************)
EXTENDS IntrusiveList, SequencesExt

CONSTANTS
    Tasks,            \* the coroutines that acquire
    Need,             \* Need[t]: the permits t asks for
    Initial,          \* the permits the semaphore starts with
    Capacity,         \* bound: 16, the handles granted at once that the buffer takes
    Workers,          \* worker threads of the runtime
    Visitors,         \* other threads, each with a semaphore_permit of its own
    MaxHeld,          \* bound: the permits a visitor merges into it
    Cancellable,      \* the tasks whose scope may be cancelled
    CancelAt,         \* where in await_suspend() a cancel() may find a waiter without permits
    LateReads,        \* what a read of a destroyed waiter's `cancelled` may give
    NoTask

ASSUME SemaphoreAssumption ==
    /\ Nodes = Tasks
    /\ Need \in [Tasks -> Nat \ {0}]
    /\ Initial \in Nat /\ Capacity \in Nat /\ MaxHeld \in Nat
    /\ Cancellable \subseteq Tasks
    /\ CancelAt \subseteq {"enqueue", "linked", "queued"}
    /\ LateReads \subseteq BOOLEAN /\ LateReads # {}
    /\ NoTask \notin Tasks
    /\ Workers \intersect Visitors = {}

Threads == Workers \union Visitors

VARIABLES
    permits,      \* permits_
    has_waiters,  \* has_waiters_
    list,         \* head_, tail_ and the prev and next of every waiter
    acquired,     \* acquired[t]: w_.acquired
    cancelled,    \* cancelled[t]: w_.cancelled
    guard,        \* guard[t]: state_ of t's cancel_guard
    scope,        \* scope[t]: where cancel() of t's scope is
    stage,        \* stage[t]: how far the coroutine is
    scheduled,    \* scheduled[t]: how often t is in the run queue
    at,           \* at[th]: where thread th is
    doing,        \* doing[th]: the task whose code th runs
    buf,          \* buf[th]: the handles th has yet to schedule
    held,         \* held[v]: permits_ of the semaphore_permit of visitor v
    line,         \* history: who is enqueued and neither granted nor cancelled, in order
    total         \* history: the permits there are, held or not

semaphore == <<permits, has_waiters, list, acquired, cancelled, line>>
outside == <<held, total>>
guarding == <<guard, scope>>
threads == <<at, doing, buf>>
vars == <<semaphore, outside, guarding, stage, scheduled, threads>>

Init ==
    /\ permits = Initial
    /\ has_waiters = FALSE
    /\ list = EmptyList
    /\ acquired = [t \in Tasks |-> FALSE]
    /\ cancelled = [t \in Tasks |-> FALSE]
    /\ guard = [t \in Tasks |-> "idle"]
    /\ scope = [t \in Tasks |-> "live"]
    /\ stage = [t \in Tasks |-> "new"]
    /\ scheduled = [t \in Tasks |-> 1]
    /\ at = [th \in Threads |-> IF th \in Workers THEN "idle" ELSE "outside"]
    /\ doing = [th \in Threads |-> NoTask]
    /\ buf = [th \in Threads |-> {}]
    /\ held = [v \in Visitors |-> 0]
    /\ line = <<>>
    /\ total = Initial

Requested(t) == scope[t] # "live"
ScopeFree(t) == scope[t] \in {"live", "done"}

Position(t) == CHOOSE i \in DOMAIN line : line[i] = t
LineWithout(t) == IF t \in ToSet(line) THEN RemoveAt(line, Position(t)) ELSE line

(* The part of await_suspend() in which the coroutine counts as suspended. *)
Suspending == {"enqueue", "linked", "queued"}

Goes(th, step) == at' = [at EXCEPT ![th] = step]
Reaches(t, step) == stage' = [stage EXCEPT ![t] = step]

-----------------------------------------------------------------------------
(* grant_locked(): the waiters at the head are unlinked and given their    *)
(* permits as long as there are enough.                                    *)

Unlocked == \A th \in Threads : at[th] \notin {"linked", "granting"}      \* queue_mtx_

LastIn == list.tail               \* a mutant of First: last come, first served

First == list.head

Enough == First # Nil /\ Need[First] <= permits

(* The waiter for whom await_suspend() itself looks, who is awake.         *)
Self(th) == IF at[th] = "linked" THEN doing[th] ELSE NoTask

(* With the lock, or about to take it.                                     *)
Granting(th) == at[th] \in {"linked", "granting"} \/ (at[th] = "grant" /\ Unlocked)

(* A handle goes to the buffer or, if there is no room, to the run queue.  *)
GrantFirst(th) ==
    /\ Granting(th)
    /\ Enough
    /\ permits' = permits - Need[First]
    /\ list' = UnlinkQueued(list, First)
    /\ has_waiters' = (has_waiters /\ UnlinkQueued(list, First).head # Nil)
    /\ acquired' = [acquired EXCEPT ![First] = TRUE]
    /\ line' = LineWithout(First)
    /\ \/ First = Self(th) /\ UNCHANGED <<buf, scheduled>>
       \/ /\ First # Self(th)
          /\ Cardinality(buf[th]) < Capacity
          /\ buf' = [buf EXCEPT ![th] = @ \union {First}]
          /\ UNCHANGED scheduled
       \/ /\ First # Self(th)
          /\ Cardinality(buf[th]) >= Capacity
          /\ scheduled' = [scheduled EXCEPT ![First] = @ + 1]
          /\ UNCHANGED buf
    /\ Goes(th, IF at[th] = "grant" THEN "granting" ELSE at[th])
    /\ UNCHANGED <<cancelled, outside, guarding, stage, doing>>

Outcome(th) == IF acquired[doing[th]] THEN "granted" ELSE "queued"

GrantEnds(th) ==
    /\ Granting(th)
    /\ ~Enough
    /\ Goes(th, IF at[th] = "linked" THEN Outcome(th) ELSE "waking")
    /\ UNCHANGED <<semaphore, outside, guarding, stage, scheduled, doing, buf>>

-----------------------------------------------------------------------------
(* Workers.                                                                *)

(* worker::run: a handle is popped and resumed, whatever state the         *)
(* coroutine is in. *)
Resume(th, t) ==
    /\ th \in Workers
    /\ at[th] = "idle"
    /\ scheduled[t] > 0
    /\ scheduled' = [scheduled EXCEPT ![t] = @ - 1]
    /\ doing' = [doing EXCEPT ![th] = t]
    /\ Goes(th, IF stage[t] = "new" THEN "ready" ELSE "disarm")
    /\ UNCHANGED <<semaphore, outside, guarding, stage, buf>>

(* await_ready(): the scope's flag ... *)
TestScope(th, t) ==
    /\ at[th] = "ready"
    /\ Goes(th, IF Requested(t) THEN "disarm" ELSE "try")
    /\ UNCHANGED <<semaphore, outside, guarding, stage, scheduled, doing, buf>>

EmptyQueueSuffices(n) == list.head = Nil      \* a mutant of Fits: n is not looked at
PermitsSuffice(n) == n <= permits             \* a mutant of Fits: a newcomer passes the queue

Fits(n) == list.head = Nil /\ n <= permits

(* ... and state::try_acquire(). *)
TryAcquire(th, t) ==
    /\ at[th] = "try"
    /\ Unlocked
    /\ IF Fits(Need[t])
       THEN /\ permits' = permits - Need[t]
            /\ acquired' = [acquired EXCEPT ![t] = TRUE]
            /\ Goes(th, "disarm")
       ELSE /\ Goes(th, "arm")
            /\ UNCHANGED <<permits, acquired>>
    /\ UNCHANGED <<has_waiters, list, cancelled, line, outside, guarding, stage, scheduled,
                   doing, buf>>

(* await_suspend() *)
Arm(th, t) ==
    /\ at[th] = "arm"
    /\ ScopeFree(t)
    /\ IF Requested(t)
       THEN Goes(th, "disarm") /\ UNCHANGED guard
       ELSE Goes(th, "enqueue") /\ guard' = [guard EXCEPT ![t] = "armed"]
    /\ Reaches(t, "awaiting")
    /\ UNCHANGED <<semaphore, outside, scope, scheduled, doing, buf>>

(* A mutant of Enqueue: the waiter is linked, permits_ is not looked at    *)
(* again, and a release() that has just tested has_waiters_ is missed. *)
LinksOnly(th, t) ==
    /\ at[th] = "enqueue"
    /\ Unlocked
    /\ list' = LinkTail(list, t)
    /\ has_waiters' = TRUE
    /\ line' = Append(line, t)
    /\ Goes(th, "queued")
    /\ UNCHANGED <<permits, acquired, cancelled, outside, guarding, stage, scheduled, doing, buf>>

(* try_acquire_or_enqueue(): link_tail(), and grant_locked() in the same   *)
(* critical section. *)
Enqueue(th, t) ==
    /\ at[th] = "enqueue"
    /\ Unlocked
    /\ list' = LinkTail(list, t)
    /\ has_waiters' = TRUE
    /\ line' = IF cancelled[t] THEN line ELSE Append(line, t)
    /\ Goes(th, "linked")
    /\ UNCHANGED <<permits, acquired, cancelled, outside, guarding, stage, scheduled, doing, buf>>

(* One runtime_schedule() after the unlock, in await_suspend or release.   *)
Wake(th, t) ==
    /\ at[th] \in {"queued", "granted", "waking"}
    /\ t \in buf[th]
    /\ scheduled' = [scheduled EXCEPT ![t] = @ + 1]
    /\ buf' = [buf EXCEPT ![th] = @ \ {t}]
    /\ UNCHANGED <<semaphore, outside, guarding, stage, at, doing>>

(* The end of await_suspend(): false with the permits in hand ...          *)
GoOn(th) ==
    /\ at[th] = "granted"
    /\ buf[th] = {}
    /\ Goes(th, "disarm")
    /\ UNCHANGED <<semaphore, outside, guarding, stage, scheduled, doing, buf>>

Stops(th) ==
    /\ Goes(th, IF th \in Workers THEN "idle" ELSE "stopped")
    /\ doing' = [doing EXCEPT ![th] = NoTask]

(* ... else whatever w_.cancelled says, without the lock and perhaps after *)
(* another worker has resumed the task and destroyed the awaiter. *)
TestCancelled(th, t) ==
    /\ at[th] = "queued"
    /\ buf[th] = {}
    /\ \E seen \in IF stage[t] = "awaiting" THEN {cancelled[t]} ELSE LateReads :
           IF seen THEN Goes(th, "disarm") /\ UNCHANGED doing ELSE Stops(th)
    /\ UNCHANGED <<semaphore, outside, guarding, stage, scheduled, buf>>

(* await_resume(): disarm(), then the outcome.                             *)
Disarm(th, t) ==
    /\ at[th] = "disarm"
    /\ ScopeFree(t)
    /\ guard' = [guard EXCEPT ![t] = IF @ = "armed" THEN "disarmed" ELSE @]
    /\ Goes(th, "take")
    /\ UNCHANGED <<semaphore, outside, scope, stage, scheduled, doing, buf>>

Take(th, t) ==
    /\ at[th] = "take"
    /\ IF acquired[t]
       THEN Reaches(t, "holding") /\ Goes(th, "release") /\ UNCHANGED doing
       ELSE Reaches(t, "done") /\ Stops(th)
    /\ UNCHANGED <<semaphore, outside, guarding, scheduled, buf>>

-----------------------------------------------------------------------------
(* What a visitor does with its permit until it gives it up; in between it *)
(* may hold nothing.                                                       *)

Merged(th) == [held EXCEPT ![th] = @ + 1]

(* semaphore::try_acquire(1), and what it gives merged into the permit; a  *)
(* refusal changes nothing. *)
TryMore(th) ==
    /\ at[th] = "outside"
    /\ Unlocked
    /\ held[th] < MaxHeld
    /\ Fits(1)
    /\ permits' = permits - 1
    /\ held' = Merged(th)
    /\ UNCHANGED <<has_waiters, list, acquired, cancelled, line, total, guarding, stage,
                   scheduled, threads>>

(* semaphore_permit::forget()                                              *)
Forget(th) ==
    /\ at[th] = "outside"
    /\ held[th] > 0
    /\ held' = [held EXCEPT ![th] = 0]
    /\ total' = total - held[th]
    /\ Goes(th, "stopped")
    /\ UNCHANGED <<semaphore, guarding, stage, scheduled, doing, buf>>

-----------------------------------------------------------------------------
(* release(): ~semaphore_permit() of a task or a visitor that holds, or    *)
(* semaphore::release(1) by a visitor that does not.                       *)

OneEach(th) == 1                  \* a mutant of Amount: a permit always gives back one

Amount(th) ==
    IF th \in Workers THEN Need[doing[th]] ELSE IF held[th] > 0 THEN held[th] ELSE 1

AddPermits(th) ==
    /\ at[th] \in {"release", "outside"}
    /\ permits' = permits + Amount(th)
    /\ stage' = [t \in Tasks |-> IF t = doing[th] THEN "done" ELSE stage[t]]
    /\ held' = [v \in Visitors |-> IF v = th THEN 0 ELSE held[v]]
    /\ total' = total + IF th \in Visitors /\ held[th] = 0 THEN 1 ELSE 0
    /\ Goes(th, "notify")
    /\ UNCHANGED <<has_waiters, list, acquired, cancelled, line, guarding, scheduled,
                   doing, buf>>

TestWaiters(th) ==
    /\ at[th] = "notify"
    /\ IF has_waiters
       THEN Goes(th, "grant") /\ UNCHANGED doing
       ELSE Stops(th)
    /\ UNCHANGED <<semaphore, outside, guarding, stage, scheduled, buf>>

Finish(th) ==
    /\ at[th] = "waking"
    /\ buf[th] = {}
    /\ Stops(th)
    /\ UNCHANGED <<semaphore, outside, guarding, stage, scheduled, buf>>

-----------------------------------------------------------------------------
(* cancel() of a task's scope; the guard's callback is try_cancel_waiter() *)
(* and a wake-up.                                                          *)

(* t is between arm() and the read of w_.cancelled, has no permits, and is *)
(* where CancelAt keeps cancellations away. *)
Spared(t) ==
    /\ ~acquired[t]
    /\ \E th \in Workers : doing[th] = t /\ at[th] \in Suspending \ CancelAt

Cancel(t) ==
    /\ t \in Cancellable
    /\ scope[t] = "live"
    /\ ~Spared(t)
    /\ IF guard[t] = "armed"
       THEN /\ guard' = [guard EXCEPT ![t] = "fired"]
            /\ scope' = [scope EXCEPT ![t] = "firing"]
       ELSE /\ scope' = [scope EXCEPT ![t] = "done"]
            /\ UNCHANGED guard
    /\ UNCHANGED <<semaphore, outside, stage, scheduled, threads>>

GrantIgnored(t) == cancelled[t]   \* a mutant of TooLate: w->acquired is not looked at

TooLate(t) == acquired[t] \/ cancelled[t]

Without(t) == UnlinkQueued(list, t)

Callback(t) ==
    /\ scope[t] = "firing"
    /\ Unlocked
    /\ IF TooLate(t)
       THEN /\ scope' = [scope EXCEPT ![t] = "unlocking"]
            /\ UNCHANGED <<has_waiters, list, cancelled, line>>
       ELSE /\ list' = Without(t)
            /\ has_waiters' = (has_waiters /\ Without(t).head # Nil)
            /\ cancelled' = [cancelled EXCEPT ![t] = TRUE]
            /\ line' = LineWithout(t)
            /\ scope' = [scope EXCEPT ![t] = "waking"]
    /\ UNCHANGED <<permits, acquired, outside, guard, stage, scheduled, threads>>

CancelWakes(t) ==
    /\ scope[t] = "waking"
    /\ scheduled' = [scheduled EXCEPT ![t] = @ + 1]
    /\ scope' = [scope EXCEPT ![t] = "unlocking"]
    /\ UNCHANGED <<semaphore, outside, guard, stage, threads>>

CancelUnlock(t) ==
    /\ scope[t] = "unlocking"
    /\ scope' = [scope EXCEPT ![t] = "done"]
    /\ UNCHANGED <<semaphore, outside, guard, stage, scheduled, threads>>

-----------------------------------------------------------------------------
Acquiring(th, t) ==
    \/ TestScope(th, t) \/ TryAcquire(th, t) \/ Arm(th, t) \/ Enqueue(th, t)
    \/ TestCancelled(th, t) \/ Disarm(th, t) \/ Take(th, t)

Step(th) ==
    \/ doing[th] # NoTask /\ Acquiring(th, doing[th])
    \/ \E t \in Tasks : Wake(th, t)
    \/ GoOn(th)
    \/ GrantFirst(th) \/ GrantEnds(th)
    \/ AddPermits(th) \/ TestWaiters(th) \/ Finish(th)

CancelStep(t) == Callback(t) \/ CancelWakes(t) \/ CancelUnlock(t)

Next ==
    \/ \E th \in Threads : Step(th)
    \/ \E th \in Visitors : TryMore(th) \/ Forget(th)
    \/ \E th \in Workers, t \in Tasks : Resume(th, t)
    \/ \E t \in Tasks : Cancel(t) \/ CancelStep(t)

(* Threads keep running, whatever is in the run queue is taken by a worker *)
(* and a visitor gives its permit up; nobody has to call cancel(), and a   *)
(* visitor may come at any time or not at all. *)
Fairness ==
    /\ \A th \in Workers : WF_vars(Step(th))
    /\ \A th \in Visitors : WF_vars((at[th] # "outside" \/ held[th] > 0) /\ Step(th))
    /\ \A t \in Tasks : WF_vars(\E th \in Workers : Resume(th, t))
    /\ \A t \in Tasks : WF_vars(CancelStep(t))

Spec == Init /\ [][Next]_vars
FairSpec == Spec /\ Fairness

-----------------------------------------------------------------------------
(* The variables hold values of their C++ types and permits_ is never      *)
(* negative. *)
TypeOK ==
    /\ permits \in Nat
    /\ has_waiters \in BOOLEAN
    /\ list \in [head : Tasks \union {Nil}, tail : Tasks \union {Nil},
                 prev : [Tasks -> Tasks \union {Nil}], next : [Tasks -> Tasks \union {Nil}]]
    /\ acquired \in [Tasks -> BOOLEAN]
    /\ cancelled \in [Tasks -> BOOLEAN]
    /\ guard \in [Tasks -> {"idle", "armed", "fired", "disarmed"}]
    /\ scope \in [Tasks -> {"live", "firing", "waking", "unlocking", "done"}]
    /\ stage \in [Tasks -> {"new", "awaiting", "holding", "done"}]
    /\ scheduled \in [Tasks -> Nat]
    /\ at \in [Threads -> {"idle", "ready", "try", "arm", "enqueue", "linked", "queued",
                           "granted", "disarm", "take", "release", "notify", "grant", "granting",
                           "waking", "outside", "stopped"}]
    /\ doing \in [Threads -> Tasks \union {NoTask}]
    /\ buf \in [Threads -> SUBSET Tasks]
    /\ held \in [Visitors -> 0..MaxHeld]

Owed == {t \in Tasks : acquired[t] /\ stage[t] # "done"}

Given == UNION {{t} \X (1..Need[t]) : t \in Owed}
Lent == UNION {{v} \X (1..held[v]) : v \in Visitors}

(* No permit is lost or made up: those in permits_, those granted and not  *)
(* given back, whether or not their task has noticed, and those visitors   *)
(* hold make up all that were put in and not forgotten.  With one permit   *)
(* this is the mutual exclusion of mutex.hpp. *)
PermitsConserved == permits + Cardinality(Given) + Cardinality(Lent) = total

(* The pointers make up exactly the queue of the waiters still waiting, in *)
(* order, and has_waiters_, which release() reads without the lock, says   *)
(* whether there are any. *)
QueueFaithful ==
    /\ Represents(list, line)
    /\ list.tail = IF line = <<>> THEN Nil ELSE Last(line)
    /\ has_waiters <=> line # <<>>

(* No lost wake-up: if the first waiter's permits are there, some thread   *)
(* has yet to look at the queue. *)
NoIdlePermits ==
    line # <<>> /\ Need[Head(line)] <= permits
        => \E th \in Threads : at[th] \in {"notify", "grant", "granting", "linked"}

(* Where t is awake or will be woken: the wake-ups in flight, and threads  *)
(* that run its body (one still inside await_suspend does not). *)
Places(t) ==
    {<<"queue", i>> : i \in 1..scheduled[t]}
        \union {<<"buffer", th>> : th \in {th \in Threads : t \in buf[th]}}
        \union {<<"callback", u>> : u \in {u \in {t} : scope[u] = "waking"}}
        \union {<<"body", th>> : th \in {th \in Threads :
                    doing[th] = t /\ at[th] \notin Suspending}}

(* An acquire continues once: by a handle that a grant or the callback of  *)
(* a cancellation schedules, or because await_suspend() returns false, and *)
(* never by two of them, wherever a cancellation finds a waiter that has   *)
(* been granted.  Of one without permits that a cancellation finds in      *)
(* await_suspend() it says the same, and the code does not keep it. *)
ResumedOnce == \A t \in Tasks : Cardinality(Places(t)) <= 1

Ahead(u, t) == u \in ToSet(line) /\ (t \in ToSet(line) => Position(u) < Position(t))

(* First come, first served: nobody gets permits before a waiter ahead of  *)
(* him, neither by a grant nor by try_acquire(), and no visitor before any *)
(* waiter. *)
FirstComeFirstServed ==
    [][/\ \A t, u \in Tasks :
             acquired'[t] /\ ~acquired[t] /\ Ahead(u, t) => acquired'[u]
       /\ \A v \in Visitors : held'[v] > held[v] => line = <<>>]_vars

(* For all its grants one by one, its release() that tests has_waiters_    *)
(* without the lock and its cancellations it is a semaphore with a queue:  *)
(* permits go to the first of the line or, if there is no line, to whoever *)
(* asks, and each comes back once.                                         *)
Fifo == INSTANCE FifoSemaphore WITH free <- permits, queue <- line, owed <- Owed

ImplementsFifo == Fifo!Spec

(* Whoever waits gets his permits or learns that he is cancelled, if       *)
(* holders give back and not so many permits are forgotten that some task  *)
(* asks for more than there are: a task waits once, so that sooner or      *)
(* later nobody does. *)
EveryoneReturns ==
    []<>(\A t \in Tasks : stage[t] # "awaiting" \/ \E u \in Tasks : Need[u] > total)

(* Where t is, as Await sees it; until await_suspend() has given up the    *)
(* lock it is t that runs, afterwards only its thread. *)
Awake(t) == \E th \in Threads : doing[th] = t /\ at[th] # "queued"

Phase(t) ==
    IF scheduled[t] > 1 \/ (scheduled[t] = 1 /\ (Awake(t) \/ stage[t] = "done")) THEN "twice"
    ELSE IF scheduled[t] = 1 THEN "woken"
    ELSE IF stage[t] = "done" THEN "ended"
    ELSE IF Awake(t) THEN "running" ELSE "suspended"

Promise == INSTANCE Await WITH
               phase <- [t \in Tasks |-> Phase(t)],
               requested <- {t \in Tasks : Requested(t)}
=============================================================================
