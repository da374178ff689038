------------------------------ MODULE Runtime ------------------------------
(***************************************************************************)
(* include/coasio/runtime.hpp and src/runtime.cpp: the run queue and the   *)
(* worker threads that sleep on its condition variable, the list of root   *)
(* tasks, block_on(), abort() and join(), and the destructor that cancels  *)
(* the roots, waits for them and stops the workers.                        *)
(*                                                                         *)
(* Main is the thread that owns the runtime.  The body of a root is        *)
(* whatever a program may write: it spawns, awaits and joins in any order, *)
(* at most MaxAwaits times.  An await ends once, by its event or by a      *)
(* cancellation (modules CancelScope, Oneshot, Semaphore, SpawnBlocking    *)
(* show how); nothing says that an event ever comes.  Critical sections    *)
(* are one action, but for the sweep, which holds roots_mutex_ throughout. *)
(***************************************************************************)
EXTENDS IntrusiveList, SequencesExt

CONSTANTS
    Roots,        \* root tasks, by their root_node
    Workers,      \* the worker threads
    Main,         \* the thread that creates and destroys the runtime
    NoRoot,
    MaxAwaits,    \* bound: the awaits of one root
    LateSpawn     \* whether a root may spawn once ~runtime() has begun

ASSUME RuntimeAssumption ==
    /\ Nodes = Roots
    /\ NoRoot \notin Roots
    /\ IsFiniteSet(Workers)
    /\ Main \notin Workers
    /\ MaxAwaits \in Nat
    /\ LateSpawn \in BOOLEAN

Threads == Workers \union {Main}

VARIABLES
    roots,        \* roots_head_ and the prev_ and next_ of every root
    live_roots,   \* live_roots_
    queue,        \* global_tasks_
    stop,         \* stop_requested_
    stage,        \* stage[r]: how far root r is
    cancelled,    \* cancelled[r]: the flag of r's cancel_scope
    awaits,       \* awaits[r]: what r is suspended on and has not been woken from
    awaited,      \* awaited[r]: how often r has awaited
    target,       \* target[r]: the root that r joins
    joined,       \* the roots whose handle has been joined
    at,           \* at[th]: where thread th is
    doing,        \* doing[w]: the root whose code worker w runs
    spawning,     \* spawning[th]: the root th has registered and not yet scheduled
    cursor,       \* n of the destructor's sweep
    blocked       \* the root whose result Main awaits in block_on()

registry == <<roots, live_roots>>
bodies == <<cancelled, awaits, awaited, target, joined>>
control == <<doing, spawning, cursor, blocked>>
vars == <<registry, queue, stop, stage, bodies, at, control>>

Init ==
    /\ roots = EmptyList
    /\ live_roots = 0
    /\ queue = <<>>
    /\ stop = FALSE
    /\ stage = [r \in Roots |-> "unborn"]
    /\ cancelled = [r \in Roots |-> FALSE]
    /\ awaits = [r \in Roots |-> "nothing"]
    /\ awaited = [r \in Roots |-> 0]
    /\ target = [r \in Roots |-> NoRoot]
    /\ joined = {}
    /\ at = [th \in Threads |-> IF th = Main THEN "live" ELSE "testing"]
    /\ doing = [w \in Workers |-> NoRoot]
    /\ spawning = [th \in Threads |-> NoRoot]
    /\ cursor = Nil
    /\ blocked = NoRoot

Goes(th, step) == [at EXCEPT ![th] = step]
Reaches(r, step) == stage' = [stage EXCEPT ![r] = step]

(* roots_mutex_ is taken for long by the sweep only.                       *)
MutexIgnored == TRUE              \* a mutant of RootsFree: unregister_root() does not lock
RootsFree == at[Main] # "sweeping"

-----------------------------------------------------------------------------
(* The run queue.                                                          *)

Asleep(a) == {w \in Workers : a[w] = "asleep"}

(* A mutant of Notified: notify_one() only when the queue was empty.       *)
FirstNotifies(a) ==
    IF Asleep(a) = {} \/ queue # <<>> THEN {a}
    ELSE {[a EXCEPT ![w] = "looking"] : w \in Asleep(a)}

(* notify_one(), when the threads are at a: what at may become.            *)
Notified(a) ==
    IF Asleep(a) = {} THEN {a} ELSE {[a EXCEPT ![w] = "looking"] : w \in Asleep(a)}

(* put_task_in_queue(); the thread that calls it leaves the others at a.   *)
Put(r, a) == queue' = Append(queue, r) /\ at' \in Notified(a)

(* worker::run(): the test of stop_requested_ ...                          *)
TestStop(w) ==
    /\ at[w] = "testing"
    /\ at' = Goes(w, IF stop THEN "left" ELSE "looking")
    /\ UNCHANGED <<registry, queue, stop, stage, bodies, control>>

(* ... and get_next_task_from_queue(), whose handle is resumed.            *)
Look(w) ==
    /\ at[w] = "looking"
    /\ IF queue # <<>>
       THEN /\ queue' = Tail(queue)
            /\ doing' = [doing EXCEPT ![w] = Head(queue)]
            /\ at' = Goes(w, "running")
       ELSE /\ at' = Goes(w, IF stop THEN "testing" ELSE "asleep")
            /\ UNCHANGED <<queue, doing>>
    /\ UNCHANGED <<registry, stop, stage, bodies, spawning, cursor, blocked>>

-----------------------------------------------------------------------------
(* _spawn(), by Main or by a root, and block_on(), by Main.                *)

Unsuspended(th) ==
    /\ spawning[th] = NoRoot
    /\ at[th] = IF th = Main THEN "live" ELSE "running"
    /\ th = Main => blocked = NoRoot

NotCounted == live_roots          \* a mutant of OneMore: ++live_roots_ is left out
OneMore == live_roots + 1

Register(th, r) ==
    /\ Unsuspended(th)
    /\ stage[r] = "unborn"
    /\ RootsFree
    /\ LateSpawn \/ at[Main] = "live"
    /\ Reaches(r, "alive")
    /\ roots' = LinkHead(roots, r)
    /\ live_roots' = OneMore
    /\ spawning' = [spawning EXCEPT ![th] = r]
    /\ blocked' \in IF th = Main THEN {NoRoot, r} ELSE {blocked}
    /\ UNCHANGED <<queue, stop, bodies, at, doing, cursor>>

Schedule(th) ==
    /\ spawning[th] # NoRoot
    /\ Put(spawning[th], at)
    /\ spawning' = [spawning EXCEPT ![th] = NoRoot]
    /\ UNCHANGED <<registry, stop, stage, bodies, doing, cursor, blocked>>

(* future.get() of block_on(): its wrapper sets the promise and returns.   *)
FutureGet ==
    /\ blocked # NoRoot
    /\ spawning[Main] = NoRoot
    /\ stage[blocked] \notin {"unborn", "alive"}
    /\ blocked' = NoRoot
    /\ UNCHANGED <<registry, queue, stop, stage, bodies, at, doing, spawning, cursor>>

-----------------------------------------------------------------------------
(* What the body of a root does on worker w.                               *)

Suspends(w, r, what) ==
    /\ awaits' = [awaits EXCEPT ![r] = what]
    /\ doing' = [doing EXCEPT ![w] = NoRoot]
    /\ at' = Goes(w, "testing")

(* co_await of an operation.  When the scope is cancelled, await_ready()   *)
(* goes on at once; if it was cancelled only after that, arm() refuses and *)
(* await_suspend() schedules the task it suspends. *)
Await(w, r) ==
    /\ Unsuspended(w)
    /\ awaited[r] < MaxAwaits
    /\ awaited' = [awaited EXCEPT ![r] = @ + 1]
    /\ \/ cancelled[r] /\ UNCHANGED <<queue, awaits, doing, at>>
       \/ /\ cancelled[r]
          /\ doing' = [doing EXCEPT ![w] = NoRoot]
          /\ Put(r, Goes(w, "testing"))
          /\ UNCHANGED awaits
       \/ ~cancelled[r] /\ Suspends(w, r, "event") /\ UNCHANGED queue
    /\ UNCHANGED <<registry, stop, stage, cancelled, target, joined,
                   spawning, cursor, blocked>>

Outcome(r) == stage[r] \in {"sent", "unlisted", "destroyed"}

(* co_await handle.join(), which uses the handle's receiver up.            *)
Join(w, r, child) ==
    /\ Unsuspended(w)
    /\ awaited[r] < MaxAwaits
    /\ child \notin joined \union {r}
    /\ stage[child] # "unborn"
    /\ \A th \in Threads : spawning[th] # child
    /\ joined' = joined \union {child}
    /\ awaited' = [awaited EXCEPT ![r] = @ + 1]
    /\ IF cancelled[r] \/ Outcome(child)
       THEN UNCHANGED <<awaits, target, doing, at>>
       ELSE /\ Suspends(w, r, "join")
            /\ target' = [target EXCEPT ![r] = child]
    /\ UNCHANGED <<registry, queue, stop, stage, cancelled, spawning, cursor, blocked>>

(* The body ends.                                                          *)
Return(w, r) ==
    /\ Unsuspended(w)
    /\ Reaches(r, "returned")
    /\ at' = Goes(w, "final")
    /\ UNCHANGED <<registry, queue, stop, bodies, control>>

-----------------------------------------------------------------------------
(* Wake-ups.  A waiter is woken by whoever takes it away first.            *)

AnyRoot(r) == stage[r] = "alive"      \* a mutant of Suspended: nobody asks who was first
Suspended(r) == awaits[r] # "nothing"

Woken(r) == awaits' = [awaits EXCEPT ![r] = "nothing"]

(* What a root awaits happens, on a thread outside the model.              *)
Event(r) ==
    /\ awaits[r] = "event"
    /\ Woken(r)
    /\ Put(r, at)
    /\ UNCHANGED <<registry, stop, stage, cancelled, awaited, target, joined, control>>

(* cancel() of r's scope, by a thread that goes on at a.                   *)
FlagOnly(r, a) ==                     \* a mutant of CancelScope: the callbacks are not run
    /\ cancelled' = [cancelled EXCEPT ![r] = TRUE]
    /\ at' = a
    /\ UNCHANGED <<queue, awaits>>

CancelScope(r, a) ==
    /\ cancelled' = [cancelled EXCEPT ![r] = TRUE]
    /\ IF ~cancelled[r] /\ Suspended(r)
       THEN Woken(r) /\ Put(r, a)
       ELSE UNCHANGED <<queue, awaits>> /\ at' = a

(* JoinHandle::abort(), on any thread that has the handle.                 *)
Abort(r) ==
    /\ stage[r] # "unborn"
    /\ ~cancelled[r]
    /\ \A th \in Threads : spawning[th] # r
    /\ CancelScope(r, at)
    /\ UNCHANGED <<registry, stop, stage, awaited, target, joined, control>>

-----------------------------------------------------------------------------
(* final_suspend() of a root: the outcome is sent, which wakes the task    *)
(* that joins; the root leaves the list; the frame is destroyed. *)

Joins(x, r) == awaits[x] = "join" /\ target[x] = r

Send(w, r) ==
    /\ at[w] = "final"
    /\ Reaches(r, "sent")
    /\ IF \E x \in Roots : Joins(x, r)
       THEN \E x \in Roots : Joins(x, r) /\ Woken(x) /\ Put(x, Goes(w, "sent"))
       ELSE at' = Goes(w, "sent") /\ UNCHANGED <<awaits, queue>>
    /\ UNCHANGED <<registry, stop, cancelled, awaited, target, joined, control>>

(* unregister_root(), with notify_all() for the last root.                 *)
Unregister(w, r) ==
    /\ at[w] = "sent"
    /\ RootsFree
    /\ roots' = Unlink(roots, r)
    /\ live_roots' = live_roots - 1
    /\ Reaches(r, "unlisted")
    /\ at' = [Goes(w, "unlisted") EXCEPT ![Main] =
                 IF @ = "sleeping" /\ live_roots = 1 THEN "draining" ELSE @]
    /\ UNCHANGED <<queue, stop, bodies, control>>

Destroy(w, r) ==
    /\ at[w] = "unlisted"
    /\ Reaches(r, "destroyed")
    /\ doing' = [doing EXCEPT ![w] = NoRoot]
    /\ at' = Goes(w, "testing")
    /\ UNCHANGED <<registry, queue, stop, bodies, spawning, cursor, blocked>>

-----------------------------------------------------------------------------
(* ~runtime() *)

BeginSweep ==
    /\ Unsuspended(Main)
    /\ at' = Goes(Main, "sweeping")
    /\ cursor' = roots.head
    /\ UNCHANGED <<registry, queue, stop, stage, bodies, doing, spawning, blocked>>

HeadOnly == Nil                       \* a mutant of Following: one root is cancelled
Following == roots.next[cursor]

Sweep ==
    /\ at[Main] = "sweeping"
    /\ cursor # Nil
    /\ CancelScope(cursor, at)
    /\ cursor' = Following
    /\ UNCHANGED <<registry, stop, stage, awaited, target, joined, doing, spawning, blocked>>

EndSweep ==
    /\ at[Main] = "sweeping"
    /\ cursor = Nil
    /\ at' = Goes(Main, "draining")
    /\ UNCHANGED <<registry, queue, stop, stage, bodies, control>>

OneMayRemain == live_roots <= 1       \* a mutant of Drained
Drained == live_roots = 0

Drain ==
    /\ at[Main] = "draining"
    /\ at' = Goes(Main, IF Drained THEN "stopping" ELSE "sleeping")
    /\ UNCHANGED <<registry, queue, stop, stage, bodies, control>>

RequestStop ==
    /\ at[Main] = "stopping"
    /\ stop' = TRUE
    /\ at' = Goes(Main, "notifying")
    /\ UNCHANGED <<registry, queue, stage, bodies, control>>

NotifyAll ==
    /\ at[Main] = "notifying"
    /\ at' = [th \in Threads |-> IF th = Main THEN "joining"
                                 ELSE IF at[th] = "asleep" THEN "looking" ELSE at[th]]
    /\ UNCHANGED <<registry, queue, stop, stage, bodies, control>>

JoinWorkers ==
    /\ at[Main] = "joining"
    /\ \A w \in Workers : at[w] = "left"
    /\ at' = Goes(Main, "gone")
    /\ UNCHANGED <<registry, queue, stop, stage, bodies, control>>

-----------------------------------------------------------------------------
Body(w, r) ==
    \/ Await(w, r) \/ Return(w, r)
    \/ \E child \in Roots : Join(w, r, child) \/ Register(w, child)
    \/ Send(w, r) \/ Unregister(w, r) \/ Destroy(w, r)

WorkerStep(w) ==
    \/ TestStop(w) \/ Look(w) \/ Schedule(w)
    \/ \E r \in Roots : doing[w] = r /\ Body(w, r)

Destructor == Sweep \/ EndSweep \/ Drain \/ RequestStop \/ NotifyAll \/ JoinWorkers

MainStep == Schedule(Main) \/ FutureGet \/ Destructor

Next ==
    \/ \E w \in Workers : WorkerStep(w)
    \/ MainStep
    \/ BeginSweep \/ \E r \in Roots : Register(Main, r)
    \/ \E r \in Roots : Event(r) \/ Abort(r)

(* Threads keep running; no event has to come, nobody has to abort, and    *)
(* the runtime need not be destroyed. *)
Fairness ==
    /\ \A w \in Workers : WF_vars(WorkerStep(w))
    /\ WF_vars(MainStep)

Spec == Init /\ [][Next]_vars
FairSpec == Spec /\ Fairness

-----------------------------------------------------------------------------
(* The variables hold values of their C++ types; live_roots_ never wraps.  *)
TypeOK ==
    /\ roots \in [head : Roots \union {Nil}, tail : {Nil},
                  prev : [Roots -> Roots \union {Nil}], next : [Roots -> Roots \union {Nil}]]
    /\ live_roots \in Nat
    /\ queue \in Seq(Roots)
    /\ stop \in BOOLEAN
    /\ stage \in [Roots -> {"unborn", "alive", "returned", "sent", "unlisted", "destroyed"}]
    /\ cancelled \in [Roots -> BOOLEAN]
    /\ awaits \in [Roots -> {"nothing", "event", "join"}]
    /\ awaited \in [Roots -> 0..MaxAwaits]
    /\ target \in [Roots -> Roots \union {NoRoot}]
    /\ joined \subseteq Roots
    /\ at \in [Threads -> {"testing", "looking", "asleep", "running", "final", "sent",
                           "unlisted", "left", "live", "sweeping", "draining", "sleeping",
                           "stopping", "notifying", "joining", "gone"}]
    /\ doing \in [Workers -> Roots \union {NoRoot}]
    /\ spawning \in [Threads -> Roots \union {NoRoot}]
    /\ cursor \in Roots \union {Nil}
    /\ blocked \in Roots \union {NoRoot}

Listed == {r \in Roots : stage[r] \in {"alive", "returned", "sent"}}

(* The list the sweep walks holds every root that has registered and not   *)
(* unregistered, whatever the order, and live_roots_ counts them.  Nor     *)
(* does the sweep ever stand on a root that has left the list, whose frame *)
(* may be gone. *)
RootsListed ==
    /\ \E s \in [1..live_roots -> Listed] :
           Represents(roots, s) /\ Listed \subseteq {s[i] : i \in 1..live_roots}
    /\ at[Main] = "sweeping" /\ cursor # Nil => cursor \in Listed

(* Where the handle of r is: with its spawner, in the queue, suspended, or *)
(* on a worker. *)
Places(r) ==
    {<<"spawner", th>> : th \in {th \in Threads : spawning[th] = r}}
    \union {<<"queue", i>> : i \in {i \in DOMAIN queue : queue[i] = r}}
    \union (IF awaits[r] = "nothing" THEN {} ELSE {<<"suspended", r>>})
    \union {<<"worker", w>> : w \in {w \in Workers : doing[w] = r}}

(* A coroutine is neither lost nor resumed twice: a handle is in one place *)
(* while its frame exists, and nowhere before and after. *)
HandleOnce ==
    \A r \in Roots :
        Cardinality(Places(r)) = IF stage[r] \in {"unborn", "destroyed"} THEN 0 ELSE 1

(* No worker sleeps through work: while one does, there are at least as    *)
(* many workers on their way to the queue as there are handles in it. *)
NoIdleWorker ==
    Asleep(at) # {} =>
        Len(queue) <= Cardinality({w \in Workers : at[w] \in {"testing", "looking"}})

(* When the workers are told to stop nothing is left to run, and when the  *)
(* destructor returns every frame is destroyed. *)
StopsWhenDone ==
    /\ stop => queue = <<>> /\ Listed = {}
    /\ at[Main] = "gone" => \A r \in Roots : stage[r] \in {"unborn", "destroyed"}

(* The destructor waits for no root that it has not cancelled.             *)
WaitsForCancelled ==
    at[Main] \in {"draining", "sleeping"} => \A r \in Listed : cancelled[r]

(* The destructor returns, though the roots' events may never come.        *)
ShutsDown == at[Main] = "sweeping" ~> at[Main] = "gone"

(* A root that is aborted comes to its end, with whatever it awaits.       *)
AbortEnds == \A r \in Roots : cancelled[r] ~> stage[r] = "destroyed"
=============================================================================
