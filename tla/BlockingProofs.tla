--------------------------- MODULE BlockingProofs ---------------------------
(***************************************************************************)
(* SpawnBlocking executes or withdraws every call once, for any number of  *)
(* tasks, workers and pool threads, and implements Await; the tasks of     *)
(* Files report what happened.                                             *)
(***************************************************************************)
EXTENDS Files, SequenceLemmas

(* Where t's control block or its resumption can be: in the run queue, in  *)
(* the pool's queue, with a pool thread, with a canceller that has taken   *)
(* it, or with a worker.  The worker that has queued the call is Late: it  *)
(* may still be in await_suspend() while the task is resumed elsewhere. *)
LateSteps == {"store", "recheck", "trycancel"}

InQueue(t) == t \in ToSet(queue)
OnPool(t) == \E p \in Pool : item[p] = t
Taken(t) == scope[t] \in {"marking", "waking"}
Late(w, t) == doing[w] = t /\ at[w] \in LateSteps
Holds(w, t) == doing[w] = t /\ at[w] \notin LateSteps
Held(t) == \E w \in Workers : Holds(w, t)

(* Each is in one of these places, and there only once. *)
OnePlace(t) ==
    /\ scheduled[t] \in 0..1
    /\ scheduled[t] = 1 => ~InQueue(t) /\ ~OnPool(t) /\ ~Taken(t) /\ ~Held(t)
    /\ InQueue(t) => ~OnPool(t) /\ ~Taken(t) /\ ~Held(t)
    /\ OnPool(t) => ~Taken(t) /\ ~Held(t)
    /\ Taken(t) => ~Held(t)

OneHolder ==
    /\ Distinct(queue)
    /\ \A p, q \in Pool : item[p] = item[q] /\ item[p] # NoTask => p = q
    /\ \A t \in Tasks : \A v, w \in Workers : Holds(v, t) /\ Holds(w, t) => v = w

(* A thread has a task while it works for it. *)
ThreadsBusy ==
    /\ \A p \in Pool : item[p] # NoTask <=> poolAt[p] \in {"executing", "executed"}
    /\ \A w \in Workers : doing[w] # NoTask <=> at[w] # "idle"

(* How far the coroutine is when its handle is in one of the places. *)
Untouched(t) ==
    /\ ran[t] = 0 /\ ~cancelled[t] /\ ~stored[t]
    /\ \A w \in Workers : ~Late(w, t)

StageMatches(t) ==
    /\ stage[t] = "new" => Untouched(t) /\ guard[t] = "idle"
    /\ InQueue(t) \/ OnPool(t) \/ Taken(t) => stage[t] = "awaiting"
    /\ scheduled[t] = 1 => stage[t] # "done"
    /\ stage[t] = "done" <=> result[t] # "none"
    /\ \A w \in Workers :
           /\ Holds(w, t) => IF at[w] = "ready" THEN stage[t] = "new" ELSE stage[t] = "awaiting"
           /\ Late(w, t) => stage[t] # "new"
           /\ doing[w] = t /\ at[w] \in {"arm", "enqueue"} => Untouched(t)

(* The guard is armed before the call is queued, and fires in cancel(). *)
GuardMatches(t) ==
    /\ InQueue(t) => guard[t] \in {"armed", "fired"}
    /\ \A w \in Workers : doing[w] = t /\ at[w] = "enqueue" => guard[t] \in {"armed", "fired"}
    /\ guard[t] = "fired" => Requested(t)

(* The function is called in Execute() only, and a call that is withdrawn  *)
(* is not with the pool any more. *)
CallOnce(t) ==
    /\ InQueue(t) \/ Taken(t) => ran[t] = 0
    /\ \A p \in Pool : item[p] = t =>
           /\ ran[t] = IF poolAt[p] = "executing" THEN 0 ELSE 1
           /\ ~cancelled[t]
    /\ \A w \in Workers : doing[w] = t /\ at[w] \in {"mark", "marked"} => ran[t] = 0
    /\ InQueue(t) => ~cancelled[t]
    /\ cancelled[t] => ran[t] = 0
    /\ result[t] = "outcome" => ran[t] = 1

(* A call is taken back on a request only. *)
TakenOnRequest(t) ==
    /\ scope[t] = "waking" => cancelled[t]
    /\ cancelled[t] => Requested(t)
    /\ \A w \in Workers : doing[w] = t =>
           /\ at[w] = "trycancel" /\ stage[t] = "awaiting" => Requested(t)
           /\ at[w] = "mark" => Requested(t)
           /\ at[w] = "marked" => cancelled[t]

(* A task that is resumed finds its call executed or withdrawn, or it was  *)
(* never queued, because arm() or enqueue() refused; the latter needs a    *)
(* pool that is being destroyed, which outlives the tasks. *)
Queued(t) == stored[t] \/ \E w \in Workers : Late(w, t)

Resumable(t) ==
    \/ scheduled[t] = 1 /\ stage[t] = "awaiting"
    \/ \E w \in Workers : doing[w] = t /\ at[w] \in {"disarm", "read"}

Settled(t) ==
    /\ Resumable(t) => ran[t] = 1 \/ cancelled[t] \/ (Requested(t) /\ ~Queued(t))
    /\ result[t] = "cancelled" => ran[t] = 1 \/ Requested(t)

PoolOutlives == stop # "no" => \A t \in Tasks : stage[t] = "done"

(* After the callback only the thread that has queued the call can still   *)
(* withdraw it, and it will look. *)
SecondLook(t) ==
    scope[t] \in {"unlocking", "done"} /\ InQueue(t) => \E w \in Workers : Late(w, t)

TaskInv(t) ==
    /\ OnePlace(t)
    /\ StageMatches(t)
    /\ GuardMatches(t)
    /\ CallOnce(t)
    /\ TakenOnRequest(t)
    /\ Settled(t)
    /\ SecondLook(t)

IInv ==
    /\ TypeOK
    /\ OneHolder
    /\ ThreadsBusy
    /\ PoolOutlives
    /\ \A t \in Tasks : TaskInv(t)

-----------------------------------------------------------------------------
(* What one step changes.  All but a few steps are of one task t, and      *)
(* leave the others alone.                                                 *)

(* A step leaves task u alone. *)
Same(u) ==
    /\ ran'[u] = ran[u] /\ cancelled'[u] = cancelled[u] /\ stored'[u] = stored[u]
    /\ guard'[u] = guard[u] /\ scope'[u] = scope[u] /\ stage'[u] = stage[u]
    /\ result'[u] = result[u] /\ scheduled'[u] = scheduled[u]
    /\ InQueue(u)' <=> InQueue(u)
    /\ \A p \in Pool : /\ item'[p] = u <=> item[p] = u
                       /\ item[p] = u => poolAt'[p] = poolAt[p]
    /\ \A w \in Workers : /\ doing'[w] = u <=> doing[w] = u
                          /\ doing[w] = u => at'[w] = at[w]

(* Where a worker can be. *)
Steps == {"idle", "ready", "arm", "enqueue", "store", "recheck", "trycancel", "mark", "marked",
          "disarm", "read"}

(* Worker w, which runs t or nothing, goes on to step with t, or to sleep. *)
WorkerGoes(w, t, step) ==
    /\ at' = [at EXCEPT ![w] = step]
    /\ doing' = [doing EXCEPT ![w] = IF step = "idle" THEN NoTask ELSE t]

(* ... which is, thread by thread and task by task:                        *)
WorkerMoved(w, t, step) ==
    /\ at' \in [Workers -> Steps]
    /\ doing' \in [Workers -> Tasks \union {NoTask}]
    /\ at'[w] = step
    /\ doing'[w] = IF step = "idle" THEN NoTask ELSE t
    /\ \A v \in Workers \ {w} : at'[v] = at[v] /\ doing'[v] = doing[v]
    /\ \A u \in Tasks \ {t} : \A v \in Workers :
           /\ doing'[v] = u <=> doing[v] = u
           /\ doing[v] = u => at'[v] = at[v]

LEMMA WorkerMoves ==
  ASSUME TypeOK, NEW w \in Workers, NEW t \in Tasks, doing[w] \in {t, NoTask},
         NEW step \in Steps, WorkerGoes(w, t, step)
  PROVE  WorkerMoved(w, t, step)
  BY BlockingAssumption DEF TypeOK, Steps, WorkerGoes, WorkerMoved

(* What the step of t is for Await.                                        *)
Moved(t) ==
    /\ Requested(t) => Requested(t)'
    /\ ran[t] = 1 => ran'[t] = 1
    /\ \/ Phase(t)' = Phase(t)
       \/ /\ Requested(t)' <=> Requested(t)
          /\ \/ Phase(t) = "running" /\ Phase(t)' = "suspended"
             \/ Phase(t) = "suspended" /\ Phase(t)' = "woken"
             \/ Phase(t) = "woken" /\ Phase(t)' = "running"
             \/ Phase(t) = "running" /\ Phase(t)' = "ended"

LEMMA PhaseIs ==
  ASSUME NEW t \in Tasks, scheduled[t] \in 0..1, Awake(t) => scheduled[t] = 0,
         scheduled'[t] \in 0..1, Awake(t)' => scheduled'[t] = 0
  PROVE  /\ Phase(t) = IF scheduled[t] = 1 THEN "woken" ELSE IF Awake(t) THEN "running"
                       ELSE IF stage[t] = "done" THEN "ended" ELSE "suspended"
         /\ Phase(t)' = IF scheduled'[t] = 1 THEN "woken" ELSE IF Awake(t)' THEN "running"
                        ELSE IF stage'[t] = "done" THEN "ended" ELSE "suspended"
  BY DEF Phase, Awake

LEMMA SameKeeps ==
  ASSUME NEW u \in Tasks, TaskInv(u), Same(u)
  PROVE  TaskInv(u)'
  <1>1. /\ OnPool(u)' <=> OnPool(u)
        /\ Taken(u)' <=> Taken(u)
        /\ Held(u)' <=> Held(u)
        /\ Requested(u)' <=> Requested(u)
    BY DEF Same, OnPool, Taken, Held, Holds, Requested
  <1>2. \A w \in Workers : (Late(w, u)' <=> Late(w, u)) /\ (Holds(w, u)' <=> Holds(w, u))
                         /\ (Late(w, u) \/ Holds(w, u) => at'[w] = at[w])
    BY DEF Same, Late, Holds
  <1>3. (Untouched(u)' <=> Untouched(u)) /\ (Queued(u)' <=> Queued(u))
    BY <1>2 DEF Same, Untouched, Queued
  <1>4. Resumable(u)' <=> Resumable(u)
    BY DEF Same, Resumable
  <1>5. OnePlace(u)' /\ SecondLook(u)'
    BY <1>1, <1>2 DEF Same, TaskInv, OnePlace, SecondLook
  <1>6. StageMatches(u)'
    BY <1>1, <1>2, <1>3 DEF Same, TaskInv, StageMatches
  <1>9. GuardMatches(u)'
    BY <1>1 DEF Same, TaskInv, GuardMatches
  <1>7. CallOnce(u)' /\ TakenOnRequest(u)'
    BY <1>1 DEF Same, TaskInv, CallOnce, TakenOnRequest
  <1>8. Settled(u)'
    BY <1>1, <1>3, <1>4 DEF Same, TaskInv, Settled
  <1> QED
    BY <1>5, <1>6, <1>7, <1>8, <1>9 DEF TaskInv

LEMMA NotifyOneMoves ==
  ASSUME TypeOK, NotifyOne
  PROVE  /\ poolAt' \in [Pool -> {"looking", "asleep", "executing", "executed", "left"}]
         /\ \A p \in Pool : \/ poolAt'[p] = poolAt[p]
                            \/ poolAt[p] = "asleep" /\ poolAt'[p] = "looking"
  BY DEF TypeOK, NotifyOne

LEMMA WithoutSet ==
  ASSUME TypeOK, OneHolder, NEW t \in Tasks, Found(t)
  PROVE  /\ Without(t) \in Seq(Tasks)
         /\ Distinct(Without(t))
         /\ ToSet(Without(t)) = ToSet(queue) \ {t}
  <1>0. queue \in Seq(Tasks) /\ DOMAIN queue = 1..Len(queue) /\ Len(queue) \in Nat
    BY DEF TypeOK
  <1>1. PICK i \in 1..Len(queue) : queue[i] = t
    BY <1>0, ElementIndex DEF Found
  <1>2. \A j \in DOMAIN queue : queue[j] = t => i = j
    BY <1>0, <1>1 DEF OneHolder, Distinct
  <1>3. Position(t) \in DOMAIN queue /\ queue[Position(t)] = t
    BY <1>0, <1>1, <1>2 DEF Position
  <1>4. Position(t) \in 1..Len(queue)
    BY <1>0, <1>3
  <1>5. RemoveAt(queue, Position(t)) \in Seq(Tasks)
    BY <1>4, RemoveAtIndex DEF TypeOK
  <1>6. /\ ToSet(RemoveAt(queue, Position(t))) = ToSet(queue) \ {queue[Position(t)]}
        /\ Distinct(RemoveAt(queue, Position(t)))
    BY <1>4, RemoveAtSet DEF TypeOK, OneHolder
  <1> QED
    BY <1>3, <1>5, <1>6 DEF Without

LEMMA ResumeInv ==
  ASSUME IInv, NEW w \in Workers, NEW t \in Tasks, Resume(w, t)
  PROVE  IInv' /\ Moved(t) /\ \A u \in Tasks \ {t} : Same(u)
  <1>0. TypeOK /\ OneHolder /\ ThreadsBusy /\ PoolOutlives /\ TaskInv(t)
    BY DEF IInv
  <1> USE <1>0, BlockingAssumption
  <1>1. PICK step \in Steps :
             /\ WorkerGoes(w, t, step)
             /\ (step = IF stage[t] = "new" THEN "ready" ELSE "disarm")
    BY DEF Resume, Goes, WorkerGoes, Steps
  <1>2. /\ UNCHANGED <<queue, stop, poolAt, item, ran, cancelled, stored, guard, scope,
                       stage, result>>
        /\ stage[t] \in {"new", "awaiting"} /\ at[w] = "idle" /\ doing[w] = NoTask
        /\ scheduled[t] = 1 /\ scheduled'[t] = 0
        /\ \A u \in Tasks \ {t} : scheduled'[u] = scheduled[u]
        /\ scheduled' \in [Tasks -> Nat]
    BY SMT
    DEF TypeOK, Resume, poolVars, block, awaiter, ThreadsBusy, TaskInv, OnePlace, StageMatches
  <1>3. WorkerMoved(w, t, step)
    BY <1>1, <1>2, WorkerMoves
  <1>4. TypeOK'
    BY <1>2, <1>3, SMT DEF TypeOK, WorkerMoved, Steps
  <1>5. OneHolder' /\ ThreadsBusy' /\ PoolOutlives'
    BY <1>1, <1>2, <1>3, SMT
    DEF OneHolder, ThreadsBusy, PoolOutlives, WorkerMoved, Holds, TaskInv, OnePlace, Held
  <1>6. \A u \in Tasks \ {t} : Same(u)
    BY <1>2, <1>3, SMT DEF Same, WorkerMoved, InQueue
  <1>7. TaskInv(t)'
    <2> USE <1>1, <1>2, <1>3
    DEF TaskInv, WorkerMoved, InQueue, Found, OnPool, Taken, Late, LateSteps, Holds, Held,
        Requested
    <2>1. OnePlace(t)'
      BY SMT DEF OnePlace, StageMatches, OneHolder
    <2>2. StageMatches(t)'
      BY SMT DEF StageMatches, OnePlace, Untouched
    <2>3. GuardMatches(t)'
      BY SMT DEF GuardMatches, StageMatches, OnePlace
    <2>4. CallOnce(t)'
      BY SMT DEF CallOnce, OnePlace, StageMatches
    <2>5. TakenOnRequest(t)'
      BY SMT DEF TakenOnRequest, StageMatches, OnePlace
    <2>6. Settled(t)'
      BY SMT DEF Settled, Resumable, Queued
    <2>7. SecondLook(t)'
      BY SMT DEF SecondLook, StageMatches, OnePlace
    <2> QED
      BY <2>1, <2>2, <2>3, <2>4, <2>5, <2>6, <2>7
  <1>8. Moved(t)
    <2>1. ~Awake(t) /\ Awake(t)'
      BY <1>1, <1>2, <1>3 DEF Awake, WorkerMoved, Holds, LateSteps, TaskInv, OnePlace, Held
    <2>2. /\ scheduled[t] \in 0..1 /\ (Awake(t) => scheduled[t] = 0)
          /\ (Holds(w, t) => scheduled[t] = 0)
          /\ scheduled'[t] \in 0..1 /\ (Awake(t)' => scheduled'[t] = 0)
      BY <1>7 DEF TaskInv, OnePlace, Held, Holds, Awake, LateSteps
    <2> QED
      BY <1>1, <1>2, <2>1, <2>2, PhaseIs DEF Moved, Requested, TaskInv
  <1> QED
    BY <1>4, <1>5, <1>6, <1>7, <1>8, SameKeeps DEF IInv

LEMMA TestScopeInv ==
  ASSUME IInv, NEW w \in Workers, NEW t \in Tasks, doing[w] = t, TestScope(w, t)
  PROVE  IInv' /\ Moved(t) /\ \A u \in Tasks \ {t} : Same(u)
  <1>0. TypeOK /\ OneHolder /\ ThreadsBusy /\ PoolOutlives /\ TaskInv(t)
    BY DEF IInv
  <1> USE <1>0, BlockingAssumption
  <1>1. PICK step \in Steps :
             /\ WorkerGoes(w, t, step)
             /\ (step = IF Requested(t) THEN "disarm" ELSE "arm")
    BY DEF TypeOK, TestScope, Goes, WorkerGoes, Steps
  <1>2. /\ UNCHANGED <<queue, stop, poolAt, item, ran, cancelled, stored, guard, scope,
                       result, scheduled>>
        /\ at[w] = "ready" /\ stage'[t] = "awaiting"
        /\ \A u \in Tasks \ {t} : stage'[u] = stage[u]
        /\ stage' \in [Tasks -> {"new", "awaiting", "done"}]
    BY SMT DEF TypeOK, TestScope, poolVars, block
  <1>3. WorkerMoved(w, t, step)
    BY <1>1, WorkerMoves
  <1>4. TypeOK'
    BY <1>2, <1>3, SMT DEF TypeOK, WorkerMoved, Steps
  <1>5. OneHolder' /\ ThreadsBusy' /\ PoolOutlives'
    BY <1>1, <1>2, <1>3, SMT
    DEF OneHolder, ThreadsBusy, PoolOutlives, WorkerMoved, Holds, LateSteps, TaskInv,
        StageMatches
  <1>6. \A u \in Tasks \ {t} : Same(u)
    BY <1>2, <1>3, SMT DEF Same, WorkerMoved, InQueue
  <1>7. TaskInv(t)'
    <2> USE <1>1, <1>2, <1>3
    DEF TaskInv, WorkerMoved, InQueue, Found, OnPool, Taken, Late, LateSteps, Holds, Held,
        Requested
    <2>1. OnePlace(t)'
      BY SMT DEF OnePlace, StageMatches, OneHolder
    <2>2. StageMatches(t)'
      BY SMT DEF StageMatches, OneHolder, Untouched
    <2>3. GuardMatches(t)'
      BY SMT DEF GuardMatches, StageMatches, OnePlace
    <2>4. CallOnce(t)'
      BY SMT DEF CallOnce, OnePlace, StageMatches
    <2>5. TakenOnRequest(t)'
      BY SMT DEF TakenOnRequest, StageMatches, OnePlace
    <2>6. Settled(t)'
      BY SMT DEF Settled, Resumable, Queued, StageMatches, OnePlace, Untouched
    <2>7. SecondLook(t)'
      BY SMT DEF SecondLook, StageMatches, OnePlace
    <2> QED
      BY <2>1, <2>2, <2>3, <2>4, <2>5, <2>6, <2>7
  <1>8. Moved(t)
    <2>1. Awake(t) /\ Awake(t)'
      BY <1>1, <1>2, <1>3 DEF Awake, WorkerMoved, OneHolder
    <2>2. /\ scheduled[t] \in 0..1 /\ (Awake(t) => scheduled[t] = 0)
          /\ (Holds(w, t) => scheduled[t] = 0)
          /\ scheduled'[t] \in 0..1 /\ (Awake(t)' => scheduled'[t] = 0)
      BY <1>7 DEF TaskInv, OnePlace, Held, Holds, Awake, LateSteps
    <2> QED
      BY <1>1, <1>2, <2>1, <2>2, PhaseIs DEF Moved, Requested, TaskInv
  <1> QED
    BY <1>4, <1>5, <1>6, <1>7, <1>8, SameKeeps DEF IInv

LEMMA ArmInv ==
  ASSUME IInv, NEW w \in Workers, NEW t \in Tasks, doing[w] = t, Arm(w, t)
  PROVE  IInv' /\ Moved(t) /\ \A u \in Tasks \ {t} : Same(u)
  <1>0. TypeOK /\ OneHolder /\ ThreadsBusy /\ PoolOutlives /\ TaskInv(t)
    BY DEF IInv
  <1> USE <1>0, BlockingAssumption
  <1>1. PICK step \in Steps :
             /\ WorkerGoes(w, t, step)
             /\ (step = IF Requested(t) THEN "disarm" ELSE "enqueue")
    BY DEF TypeOK, Arm, Goes, WorkerGoes, Steps
  <1>2. /\ UNCHANGED <<queue, stop, poolAt, item, ran, cancelled, stored, scope, stage,
                       result, scheduled>>
        /\ at[w] = "arm" /\ guard'[t] = IF Requested(t) THEN guard[t] ELSE "armed"
        /\ \A u \in Tasks \ {t} : guard'[u] = guard[u]
        /\ guard' \in [Tasks -> {"idle", "armed", "fired", "disarmed"}]
    <2>0. at[w] = "arm" /\ UNCHANGED <<poolVars, block, stored, stage, result, scope,
                                       scheduled, doing>>
      BY DEF Arm
    <2>1. CASE Requested(t)
      <3>1. UNCHANGED guard
        BY <2>1 DEF Arm
      <3> QED
        BY <2>0, <2>1, <3>1 DEF TypeOK, poolVars, block
    <2>2. CASE ~Requested(t)
      <3>1. guard' = [guard EXCEPT ![t] = "armed"]
        BY <2>2 DEF Arm
      <3> QED
        BY <2>0, <2>2, <3>1 DEF TypeOK, poolVars, block
    <2> QED
      BY <2>1, <2>2
  <1>3. WorkerMoved(w, t, step)
    BY <1>1, WorkerMoves
  <1>4. TypeOK'
    BY <1>2, <1>3, SMT DEF TypeOK, WorkerMoved, Steps
  <1>5. OneHolder' /\ ThreadsBusy' /\ PoolOutlives'
    BY <1>1, <1>2, <1>3, SMT
    DEF OneHolder, ThreadsBusy, PoolOutlives, WorkerMoved, Holds, LateSteps
  <1>6. \A u \in Tasks \ {t} : Same(u)
    BY <1>2, <1>3, SMT DEF Same, WorkerMoved, InQueue
  <1>7. TaskInv(t)'
    <2> USE <1>1, <1>2, <1>3
    DEF TaskInv, WorkerMoved, InQueue, Found, OnPool, Taken, Late, LateSteps, Holds, Held,
        Requested
    <2>1. OnePlace(t)'
      BY SMT DEF OnePlace, StageMatches, OneHolder
    <2>2. StageMatches(t)'
      BY SMT DEF StageMatches, OnePlace, Untouched
    <2>3. GuardMatches(t)'
      BY SMT DEF GuardMatches, StageMatches, OnePlace
    <2>4. CallOnce(t)'
      BY SMT DEF CallOnce, OnePlace, StageMatches
    <2>5. TakenOnRequest(t)'
      BY SMT DEF TakenOnRequest, StageMatches, OnePlace
    <2>6. Settled(t)'
      BY SMT DEF Settled, Resumable, Queued, StageMatches, Untouched
    <2>7. SecondLook(t)'
      BY SMT DEF SecondLook, StageMatches, OnePlace
    <2> QED
      BY <2>1, <2>2, <2>3, <2>4, <2>5, <2>6, <2>7
  <1>8. Moved(t)
    BY <1>1, <1>2, <1>3, SMT DEF Moved, Phase, Awake, Requested, WorkerMoved
  <1> QED
    BY <1>4, <1>5, <1>6, <1>7, <1>8, SameKeeps DEF IInv

LEMMA StoreInv ==
  ASSUME IInv, NEW w \in Workers, NEW t \in Tasks, doing[w] = t, Store(w, t)
  PROVE  IInv' /\ Moved(t) /\ \A u \in Tasks \ {t} : Same(u)
  <1>0. TypeOK /\ OneHolder /\ ThreadsBusy /\ PoolOutlives /\ TaskInv(t)
    BY DEF IInv
  <1> USE <1>0, BlockingAssumption
  <1>1. PICK step \in Steps : WorkerGoes(w, t, step) /\ (step = "recheck")
    BY DEF TypeOK, Store, Goes, WorkerGoes, Steps
  <1>2. /\ UNCHANGED <<queue, stop, poolAt, item, ran, cancelled, guard, scope, stage,
                       result, scheduled>>
        /\ at[w] = "store" /\ stored'[t]
        /\ \A u \in Tasks \ {t} : stored'[u] = stored[u]
        /\ stored' \in [Tasks -> BOOLEAN]
    BY SMT DEF TypeOK, Store, poolVars, block
  <1>3. WorkerMoved(w, t, step)
    BY <1>1, WorkerMoves
  <1>4. TypeOK'
    BY <1>2, <1>3, SMT DEF TypeOK, WorkerMoved, Steps
  <1>5. OneHolder' /\ ThreadsBusy' /\ PoolOutlives'
    BY <1>1, <1>2, <1>3, SMT
    DEF OneHolder, ThreadsBusy, PoolOutlives, WorkerMoved, Holds, LateSteps
  <1>6. \A u \in Tasks \ {t} : Same(u)
    BY <1>2, <1>3, SMT DEF Same, WorkerMoved, InQueue
  <1>7. TaskInv(t)'
    <2> USE <1>1, <1>2, <1>3
    DEF TaskInv, WorkerMoved, InQueue, Found, OnPool, Taken, Late, LateSteps, Holds, Held,
        Requested
    <2>1. OnePlace(t)'
      BY SMT DEF OnePlace, StageMatches, OneHolder
    <2>2. StageMatches(t)'
      BY SMT DEF StageMatches, OnePlace, Untouched
    <2>3. GuardMatches(t)'
      BY SMT DEF GuardMatches, StageMatches, OnePlace
    <2>4. CallOnce(t)'
      BY SMT DEF CallOnce, OnePlace, StageMatches
    <2>5. TakenOnRequest(t)'
      BY SMT DEF TakenOnRequest, StageMatches, OnePlace
    <2>6. Settled(t)'
      BY SMT DEF Settled, Resumable, Queued
    <2>7. SecondLook(t)'
      BY SMT DEF SecondLook, StageMatches, OnePlace
    <2> QED
      BY <2>1, <2>2, <2>3, <2>4, <2>5, <2>6, <2>7
  <1>8. Moved(t)
    <2>1. Awake(t)' <=> Awake(t)
      BY <1>1, <1>2, <1>3 DEF Awake, WorkerMoved, OneHolder
    <2>2. /\ scheduled[t] \in 0..1 /\ (Awake(t) => scheduled[t] = 0)
          /\ (Holds(w, t) => scheduled[t] = 0)
          /\ scheduled'[t] \in 0..1 /\ (Awake(t)' => scheduled'[t] = 0)
      BY <1>7 DEF TaskInv, OnePlace, Held, Holds, Awake, LateSteps
    <2> QED
      BY <1>1, <1>2, <2>1, <2>2, PhaseIs DEF Moved, Requested, TaskInv
  <1> QED
    BY <1>4, <1>5, <1>6, <1>7, <1>8, SameKeeps DEF IInv

LEMMA RecheckInv ==
  ASSUME IInv, NEW w \in Workers, NEW t \in Tasks, doing[w] = t, Recheck(w, t)
  PROVE  IInv' /\ Moved(t) /\ \A u \in Tasks \ {t} : Same(u)
  <1>0. TypeOK /\ OneHolder /\ ThreadsBusy /\ PoolOutlives /\ TaskInv(t)
    BY DEF IInv
  <1> USE <1>0, BlockingAssumption
  <1>1. PICK step \in Steps :
             /\ WorkerGoes(w, t, step)
             /\ step \in {"trycancel", "idle"}
             /\ stage[t] = "awaiting" => (step = "trycancel" <=> Requested(t))
    BY DEF TypeOK, Recheck, Goes, Suspends, WorkerGoes, Steps, SeesCancel
  <1>2. /\ UNCHANGED <<queue, stop, poolAt, item, ran, cancelled, stored, guard, scope,
                       stage, result, scheduled>>
        /\ at[w] = "recheck"
    BY SMT DEF Recheck, poolVars, block, awaiter
  <1>3. WorkerMoved(w, t, step)
    BY <1>1, WorkerMoves
  <1>4. TypeOK'
    BY <1>2, <1>3, SMT DEF TypeOK, WorkerMoved, Steps
  <1>5. OneHolder' /\ ThreadsBusy' /\ PoolOutlives'
    BY <1>1, <1>2, <1>3, SMT
    DEF OneHolder, ThreadsBusy, PoolOutlives, WorkerMoved, Holds, LateSteps
  <1>6. \A u \in Tasks \ {t} : Same(u)
    BY <1>2, <1>3, SMT DEF Same, WorkerMoved, InQueue
  <1>7. TaskInv(t)'
    <2> USE <1>1, <1>2, <1>3
    DEF TaskInv, WorkerMoved, InQueue, Found, OnPool, Taken, Late, LateSteps, Holds, Held,
        Requested
    <2>1. OnePlace(t)'
      BY SMT DEF OnePlace, StageMatches, OneHolder
    <2>2. StageMatches(t)'
      BY SMT DEF StageMatches, OnePlace, Untouched
    <2>3. GuardMatches(t)'
      BY SMT DEF GuardMatches, StageMatches, OnePlace
    <2>4. CallOnce(t)'
      BY SMT DEF CallOnce, OnePlace, StageMatches
    <2>5. TakenOnRequest(t)'
      BY SMT DEF TakenOnRequest, StageMatches, OnePlace
    <2>6. Settled(t)'
      BY SMT DEF Settled, Resumable, Queued
    <2>7. SecondLook(t)'
      BY SMT DEF SecondLook, StageMatches, OnePlace
    <2> QED
      BY <2>1, <2>2, <2>3, <2>4, <2>5, <2>6, <2>7
  <1>8. Moved(t)
    <2>1. Awake(t)' <=> Awake(t)
      BY <1>1, <1>2, <1>3 DEF Awake, WorkerMoved, OneHolder
    <2>2. /\ scheduled[t] \in 0..1 /\ (Awake(t) => scheduled[t] = 0)
          /\ (Holds(w, t) => scheduled[t] = 0)
          /\ scheduled'[t] \in 0..1 /\ (Awake(t)' => scheduled'[t] = 0)
      BY <1>7 DEF TaskInv, OnePlace, Held, Holds, Awake, LateSteps
    <2> QED
      BY <1>1, <1>2, <2>1, <2>2, PhaseIs DEF Moved, Requested, TaskInv
  <1> QED
    BY <1>4, <1>5, <1>6, <1>7, <1>8, SameKeeps DEF IInv

LEMMA TryCancelInv ==
  ASSUME IInv, NEW w \in Workers, NEW t \in Tasks, doing[w] = t, TryCancel(w, t)
  PROVE  IInv' /\ Moved(t) /\ \A u \in Tasks \ {t} : Same(u)
  <1>0. TypeOK /\ OneHolder /\ ThreadsBusy /\ PoolOutlives /\ TaskInv(t)
    BY DEF IInv
  <1> USE <1>0, BlockingAssumption
  <1>1. PICK step \in Steps :
             /\ WorkerGoes(w, t, step)
             /\ (step = IF Found(t) THEN "mark" ELSE "idle")
    BY DEF TypeOK, TryCancel, Goes, Suspends, WorkerGoes, Steps
  <1>2. /\ UNCHANGED <<stop, poolAt, item, ran, cancelled, stored, guard, scope, stage,
                       result, scheduled>>
        /\ at[w] = "trycancel"
        /\ queue' \in Seq(Tasks) /\ Distinct(queue')
        /\ ToSet(queue') = ToSet(queue) \ {t}
    BY WithoutSet, SMT DEF TypeOK, TryCancel, block, awaiter, Found, OneHolder
  <1>3. WorkerMoved(w, t, step)
    BY <1>1, WorkerMoves
  <1>4. TypeOK'
    BY <1>2, <1>3, SMT DEF TypeOK, WorkerMoved, Steps
  <1>5. OneHolder' /\ ThreadsBusy' /\ PoolOutlives'
    BY <1>1, <1>2, <1>3, SMT
    DEF OneHolder, ThreadsBusy, PoolOutlives, InQueue, Found, WorkerMoved, Holds, TaskInv,
        OnePlace, Held
  <1>6. \A u \in Tasks \ {t} : Same(u)
    BY <1>2, <1>3, SMT DEF Same, WorkerMoved, InQueue
  <1>7. TaskInv(t)'
    <2> USE <1>1, <1>2, <1>3
    DEF TaskInv, WorkerMoved, InQueue, Found, OnPool, Taken, Late, LateSteps, Holds, Held,
        Requested
    <2>1. OnePlace(t)'
      BY SMT DEF OnePlace, StageMatches, OneHolder
    <2>2. StageMatches(t)'
      BY SMT DEF StageMatches, OnePlace, Untouched
    <2>3. GuardMatches(t)'
      BY SMT DEF GuardMatches, StageMatches, OnePlace
    <2>4. CallOnce(t)'
      BY SMT DEF CallOnce, OnePlace, StageMatches
    <2>5. TakenOnRequest(t)'
      BY SMT DEF TakenOnRequest, StageMatches, OnePlace
    <2>6. Settled(t)'
      BY SMT DEF Settled, Resumable, Queued
    <2>7. SecondLook(t)'
      BY SMT DEF SecondLook, StageMatches, OnePlace
    <2> QED
      BY <2>1, <2>2, <2>3, <2>4, <2>5, <2>6, <2>7
  <1>8. Moved(t)
    <2>1. Awake(t)' <=> Awake(t)
      BY <1>1, <1>2, <1>3 DEF Awake, WorkerMoved, OneHolder
    <2>2. /\ scheduled[t] \in 0..1 /\ (Awake(t) => scheduled[t] = 0)
          /\ (Holds(w, t) => scheduled[t] = 0)
          /\ scheduled'[t] \in 0..1 /\ (Awake(t)' => scheduled'[t] = 0)
      BY <1>7 DEF TaskInv, OnePlace, Held, Holds, Awake, LateSteps
    <2> QED
      BY <1>1, <1>2, <2>1, <2>2, PhaseIs DEF Moved, Requested, TaskInv
  <1> QED
    BY <1>4, <1>5, <1>6, <1>7, <1>8, SameKeeps DEF IInv

LEMMA EnqueueInv ==
  ASSUME IInv, NEW w \in Workers, NEW t \in Tasks, doing[w] = t, Enqueue(w, t)
  PROVE  IInv' /\ Moved(t) /\ \A u \in Tasks \ {t} : Same(u)
  <1>0. TypeOK /\ OneHolder /\ ThreadsBusy /\ PoolOutlives /\ TaskInv(t)
    BY DEF IInv
  <1> USE <1>0, BlockingAssumption
  <1>1. PICK step \in Steps :
             /\ WorkerGoes(w, t, step)
             /\ (step = IF stop = "no" THEN "store" ELSE "disarm")
    BY DEF TypeOK, Enqueue, Goes, WorkerGoes, Steps
  <1>2. /\ UNCHANGED <<stop, item, ran, cancelled, stored, guard, scope, stage, result,
                       scheduled>>
        /\ at[w] = "enqueue"
        /\ queue' \in Seq(Tasks) /\ Distinct(queue')
        /\ ToSet(queue') = IF stop = "no" THEN ToSet(queue) \union {t} ELSE ToSet(queue)
        /\ poolAt' \in [Pool -> {"looking", "asleep", "executing", "executed", "left"}]
        /\ \A p \in Pool : \/ poolAt'[p] = poolAt[p]
                           \/ poolAt[p] = "asleep" /\ poolAt'[p] = "looking"
    <2>0. /\ at[w] = "enqueue"
          /\ UNCHANGED <<stop, item, block, awaiter, scope, scheduled>>
      BY DEF Enqueue
    <2>1. CASE stop # "no"
      <3>1. UNCHANGED <<queue, poolAt>>
        BY <2>1 DEF Enqueue
      <3> QED
        BY <2>0, <2>1, <3>1 DEF TypeOK, OneHolder, block, awaiter
    <2>2. CASE stop = "no"
      <3>1. queue' = Append(queue, t) /\ NotifyOne
        BY <2>2 DEF Enqueue
      <3>2. t \notin ToSet(queue)
        BY <2>0 DEF TaskInv, OnePlace, InQueue, Held, Holds, LateSteps
      <3>3. queue' \in Seq(Tasks) /\ Distinct(queue') /\ ToSet(queue') = ToSet(queue) \union {t}
        BY <3>1, <3>2, AppendSet, AppendDistinct DEF TypeOK, OneHolder
      <3> QED
        BY <2>0, <2>2, <3>1, <3>3, NotifyOneMoves DEF block, awaiter
    <2> QED
      BY <2>1, <2>2
  <1>3. WorkerMoved(w, t, step)
    BY <1>1, WorkerMoves
  <1>4. TypeOK'
    BY <1>2, <1>3, SMT DEF TypeOK, WorkerMoved, Steps
  <1>5. OneHolder' /\ ThreadsBusy' /\ PoolOutlives'
    BY <1>1, <1>2, <1>3, SMT
    DEF OneHolder, ThreadsBusy, PoolOutlives, WorkerMoved, Holds, LateSteps
  <1>6. \A u \in Tasks \ {t} : Same(u)
    BY <1>2, <1>3, SMT DEF Same, WorkerMoved, InQueue, ThreadsBusy
  <1>7. TaskInv(t)'
    <2> USE <1>1, <1>2, <1>3
    DEF TaskInv, WorkerMoved, InQueue, Found, OnPool, Taken, Late, LateSteps, Holds, Held,
        Requested
    <2>1. OnePlace(t)'
      BY SMT DEF OnePlace, StageMatches, OneHolder
    <2>2. StageMatches(t)'
      BY SMT DEF StageMatches, OnePlace, OneHolder
    <2>3. GuardMatches(t)'
      BY SMT DEF GuardMatches, StageMatches, OnePlace
    <2>4. CallOnce(t)'
      BY SMT DEF CallOnce, StageMatches, Untouched
    <2>5. TakenOnRequest(t)'
      BY SMT DEF TakenOnRequest, StageMatches, OnePlace
    <2>6. Settled(t)'
      BY SMT DEF Settled, Resumable, StageMatches, OnePlace, PoolOutlives, OneHolder
    <2>7. SecondLook(t)'
      BY SMT DEF SecondLook, StageMatches, OnePlace
    <2> QED
      BY <2>1, <2>2, <2>3, <2>4, <2>5, <2>6, <2>7
  <1>8. Moved(t)
    <2>1. Awake(t) /\ (Awake(t)' <=> stop # "no")
      BY <1>1, <1>2, <1>3 DEF Awake, WorkerMoved, OneHolder, Holds, LateSteps
    <2>2. /\ scheduled[t] \in 0..1 /\ (Awake(t) => scheduled[t] = 0)
          /\ (Holds(w, t) => scheduled[t] = 0)
          /\ scheduled'[t] \in 0..1 /\ (Awake(t)' => scheduled'[t] = 0)
      BY <1>7 DEF TaskInv, OnePlace, Held, Holds, Awake, LateSteps
    <2> QED
      BY <1>1, <1>2, <2>1, <2>2, PhaseIs DEF Moved, Requested, TaskInv
  <1> QED
    BY <1>4, <1>5, <1>6, <1>7, <1>8, SameKeeps DEF IInv

LEMMA MarkInv ==
  ASSUME IInv, NEW w \in Workers, NEW t \in Tasks, doing[w] = t, Mark(w, t)
  PROVE  IInv' /\ Moved(t) /\ \A u \in Tasks \ {t} : Same(u)
  <1>0. TypeOK /\ OneHolder /\ ThreadsBusy /\ PoolOutlives /\ TaskInv(t)
    BY DEF IInv
  <1> USE <1>0, BlockingAssumption
  <1>1. PICK step \in Steps : WorkerGoes(w, t, step) /\ (step = "marked")
    BY DEF TypeOK, Mark, Goes, WorkerGoes, Steps
  <1>2. /\ UNCHANGED <<queue, stop, poolAt, item, ran, stored, guard, scope, stage, result,
                       scheduled>>
        /\ at[w] = "mark" /\ cancelled'[t]
        /\ \A u \in Tasks \ {t} : cancelled'[u] = cancelled[u]
        /\ cancelled' \in [Tasks -> BOOLEAN]
    BY SMT DEF TypeOK, Mark, poolVars, awaiter
  <1>3. WorkerMoved(w, t, step)
    BY <1>1, WorkerMoves
  <1>4. TypeOK'
    BY <1>2, <1>3, SMT DEF TypeOK, WorkerMoved, Steps
  <1>5. OneHolder' /\ ThreadsBusy' /\ PoolOutlives'
    BY <1>1, <1>2, <1>3, SMT
    DEF OneHolder, ThreadsBusy, PoolOutlives, WorkerMoved, Holds, LateSteps
  <1>6. \A u \in Tasks \ {t} : Same(u)
    BY <1>2, <1>3, SMT DEF Same, WorkerMoved, InQueue
  <1>7. TaskInv(t)'
    <2> USE <1>1, <1>2, <1>3
    DEF TaskInv, WorkerMoved, InQueue, Found, OnPool, Taken, Late, LateSteps, Holds, Held,
        Requested
    <2>1. OnePlace(t)'
      BY SMT DEF OnePlace, StageMatches, OneHolder
    <2>2. StageMatches(t)'
      BY SMT DEF StageMatches, OnePlace, OneHolder
    <2>3. GuardMatches(t)'
      BY SMT DEF GuardMatches, StageMatches, OnePlace
    <2>4. CallOnce(t)'
      BY SMT DEF CallOnce, OnePlace, StageMatches
    <2>5. TakenOnRequest(t)'
      BY SMT DEF TakenOnRequest, StageMatches, OnePlace
    <2>6. Settled(t)'
      BY SMT DEF Settled, Resumable, Queued
    <2>7. SecondLook(t)'
      BY SMT DEF SecondLook, StageMatches, OnePlace
    <2> QED
      BY <2>1, <2>2, <2>3, <2>4, <2>5, <2>6, <2>7
  <1>8. Moved(t)
    <2>1. ~Awake(t) /\ ~Awake(t)'
      BY <1>1, <1>2, <1>3 DEF Awake, WorkerMoved, OneHolder, Holds, LateSteps
    <2>2. /\ scheduled[t] \in 0..1 /\ (Awake(t) => scheduled[t] = 0)
          /\ (Holds(w, t) => scheduled[t] = 0)
          /\ scheduled'[t] \in 0..1 /\ (Awake(t)' => scheduled'[t] = 0)
      BY <1>7 DEF TaskInv, OnePlace, Held, Holds, Awake, LateSteps
    <2> QED
      BY <1>1, <1>2, <2>1, <2>2, PhaseIs DEF Moved, Requested, TaskInv
  <1> QED
    BY <1>4, <1>5, <1>6, <1>7, <1>8, SameKeeps DEF IInv

LEMMA WakeSelfInv ==
  ASSUME IInv, NEW w \in Workers, NEW t \in Tasks, doing[w] = t, WakeSelf(w, t)
  PROVE  IInv' /\ Moved(t) /\ \A u \in Tasks \ {t} : Same(u)
  <1>0. TypeOK /\ OneHolder /\ ThreadsBusy /\ PoolOutlives /\ TaskInv(t)
    BY DEF IInv
  <1> USE <1>0, BlockingAssumption
  <1>1. PICK step \in Steps : WorkerGoes(w, t, step) /\ (step = "idle")
    BY DEF WakeSelf, Goes, Suspends, WorkerGoes, Steps
  <1>2. /\ UNCHANGED <<queue, stop, poolAt, item, ran, cancelled, stored, guard, scope,
                       stage, result>>
        /\ at[w] = "marked" /\ scheduled'[t] = scheduled[t] + 1
        /\ \A u \in Tasks \ {t} : scheduled'[u] = scheduled[u]
        /\ scheduled' \in [Tasks -> Nat]
    BY SMT DEF TypeOK, WakeSelf, poolVars, block, awaiter, Schedule
  <1>3. WorkerMoved(w, t, step)
    BY <1>1, WorkerMoves
  <1>4. TypeOK'
    BY <1>2, <1>3, SMT DEF TypeOK, WorkerMoved, Steps
  <1>5. OneHolder' /\ ThreadsBusy' /\ PoolOutlives'
    BY <1>1, <1>2, <1>3, SMT DEF OneHolder, ThreadsBusy, PoolOutlives, WorkerMoved, Holds
  <1>6. \A u \in Tasks \ {t} : Same(u)
    BY <1>2, <1>3, SMT DEF Same, WorkerMoved, InQueue
  <1>7. TaskInv(t)'
    <2> USE <1>1, <1>2, <1>3
    DEF TaskInv, WorkerMoved, InQueue, Found, OnPool, Taken, Late, LateSteps, Holds, Held,
        Requested
    <2>1. OnePlace(t)'
      BY SMT DEF OnePlace, StageMatches, OneHolder
    <2>2. StageMatches(t)'
      BY SMT DEF StageMatches, OnePlace, OneHolder
    <2>3. GuardMatches(t)'
      BY SMT DEF GuardMatches, StageMatches, OnePlace
    <2>4. CallOnce(t)'
      BY SMT DEF CallOnce, OnePlace, StageMatches
    <2>5. TakenOnRequest(t)'
      BY SMT DEF TakenOnRequest, StageMatches, OnePlace
    <2>6. Settled(t)'
      BY SMT DEF Settled, Resumable, TakenOnRequest
    <2>7. SecondLook(t)'
      BY SMT DEF SecondLook, StageMatches, OnePlace
    <2> QED
      BY <2>1, <2>2, <2>3, <2>4, <2>5, <2>6, <2>7
  <1>8. Moved(t)
    <2>1. ~Awake(t) /\ ~Awake(t)'
      BY <1>1, <1>2, <1>3 DEF Awake, WorkerMoved, OneHolder, Holds, LateSteps
    <2>2. /\ scheduled[t] \in 0..1 /\ (Awake(t) => scheduled[t] = 0)
          /\ (Holds(w, t) => scheduled[t] = 0)
          /\ scheduled'[t] \in 0..1 /\ (Awake(t)' => scheduled'[t] = 0)
      BY <1>7 DEF TaskInv, OnePlace, Held, Holds, Awake, LateSteps
    <2> QED
      BY <1>1, <1>2, <2>1, <2>2, PhaseIs
      DEF Moved, Requested, TaskInv, StageMatches, Holds, LateSteps
  <1> QED
    BY <1>4, <1>5, <1>6, <1>7, <1>8, SameKeeps DEF IInv

LEMMA DisarmInv ==
  ASSUME IInv, NEW w \in Workers, NEW t \in Tasks, doing[w] = t, Disarm(w, t)
  PROVE  IInv' /\ Moved(t) /\ \A u \in Tasks \ {t} : Same(u)
  <1>0. TypeOK /\ OneHolder /\ ThreadsBusy /\ PoolOutlives /\ TaskInv(t)
    BY DEF IInv
  <1> USE <1>0, BlockingAssumption
  <1>1. PICK step \in Steps : WorkerGoes(w, t, step) /\ (step = "read")
    BY DEF TypeOK, Disarm, Goes, WorkerGoes, Steps
  <1>2. /\ UNCHANGED <<queue, stop, poolAt, item, ran, cancelled, stored, scope, stage,
                       result, scheduled>>
        /\ at[w] = "disarm" /\ guard'[t] = IF guard[t] = "armed" THEN "disarmed" ELSE guard[t]
        /\ \A u \in Tasks \ {t} : guard'[u] = guard[u]
        /\ guard' \in [Tasks -> {"idle", "armed", "fired", "disarmed"}]
    BY SMT DEF TypeOK, Disarm, poolVars, block
  <1>3. WorkerMoved(w, t, step)
    BY <1>1, WorkerMoves
  <1>4. TypeOK'
    BY <1>2, <1>3, SMT DEF TypeOK, WorkerMoved, Steps
  <1>5. OneHolder' /\ ThreadsBusy' /\ PoolOutlives'
    BY <1>1, <1>2, <1>3, SMT
    DEF OneHolder, ThreadsBusy, PoolOutlives, WorkerMoved, Holds, LateSteps
  <1>6. \A u \in Tasks \ {t} : Same(u)
    BY <1>2, <1>3, SMT DEF Same, WorkerMoved, InQueue
  <1>7. TaskInv(t)'
    <2> USE <1>1, <1>2, <1>3
    DEF TaskInv, WorkerMoved, InQueue, Found, OnPool, Taken, Late, LateSteps, Holds, Held,
        Requested
    <2>1. OnePlace(t)'
      BY SMT DEF OnePlace, StageMatches, OneHolder
    <2>2. StageMatches(t)'
      BY SMT DEF StageMatches, OnePlace, OneHolder
    <2>3. GuardMatches(t)'
      BY SMT DEF GuardMatches, OnePlace, OneHolder
    <2>4. CallOnce(t)'
      BY SMT DEF CallOnce, OnePlace, StageMatches
    <2>5. TakenOnRequest(t)'
      BY SMT DEF TakenOnRequest, StageMatches, OnePlace
    <2>6. Settled(t)'
      BY SMT DEF Settled, Resumable, Queued
    <2>7. SecondLook(t)'
      BY SMT DEF SecondLook, StageMatches, OnePlace
    <2> QED
      BY <2>1, <2>2, <2>3, <2>4, <2>5, <2>6, <2>7
  <1>8. Moved(t)
    BY <1>1, <1>2, <1>3, SMT DEF Moved, Phase, Awake, Requested, WorkerMoved
  <1> QED
    BY <1>4, <1>5, <1>6, <1>7, <1>8, SameKeeps DEF IInv

LEMMA ReadInv ==
  ASSUME IInv, NEW w \in Workers, NEW t \in Tasks, doing[w] = t, Read(w, t)
  PROVE  IInv' /\ Moved(t) /\ \A u \in Tasks \ {t} : Same(u)
  <1>0. TypeOK /\ OneHolder /\ ThreadsBusy /\ PoolOutlives /\ TaskInv(t)
    BY DEF IInv
  <1> USE <1>0, BlockingAssumption
  <1>1. PICK step \in Steps : WorkerGoes(w, t, step) /\ (step = "idle")
    BY DEF Read, Goes, Suspends, WorkerGoes, Steps
  <1>2. /\ UNCHANGED <<queue, stop, poolAt, item, ran, cancelled, stored, guard, scope,
                       scheduled>>
        /\ at[w] = "read" /\ stage'[t] = "done"
        /\ result'[t] = IF ~stored[t] \/ cancelled[t] THEN "cancelled" ELSE "outcome"
        /\ \A u \in Tasks \ {t} : stage'[u] = stage[u]
        /\ \A u \in Tasks \ {t} : result'[u] = result[u]
        /\ result' \in [Tasks -> {"none", "cancelled", "outcome"}]
        /\ stage' \in [Tasks -> {"new", "awaiting", "done"}]
    BY SMT DEF TypeOK, Read, poolVars, block, Cancelled
  <1>3. WorkerMoved(w, t, step)
    BY <1>1, WorkerMoves
  <1>4. TypeOK'
    BY <1>2, <1>3, SMT DEF TypeOK, WorkerMoved, Steps
  <1>5. OneHolder' /\ ThreadsBusy' /\ PoolOutlives'
    BY <1>1, <1>2, <1>3, SMT DEF OneHolder, ThreadsBusy, PoolOutlives, WorkerMoved, Holds
  <1>6. \A u \in Tasks \ {t} : Same(u)
    BY <1>2, <1>3, SMT DEF Same, WorkerMoved, InQueue
  <1>7. TaskInv(t)'
    <2> USE <1>1, <1>2, <1>3
    DEF TaskInv, WorkerMoved, InQueue, Found, OnPool, Taken, Late, LateSteps, Holds, Held,
        Requested
    <2>1. OnePlace(t)'
      BY SMT DEF OnePlace, StageMatches, OneHolder
    <2>2. StageMatches(t)'
      BY SMT DEF StageMatches, OnePlace, OneHolder
    <2>3. GuardMatches(t)'
      BY SMT DEF GuardMatches, StageMatches, OnePlace
    <2>4. CallOnce(t)'
      BY SMT DEF CallOnce, Settled, Resumable, Queued
    <2>5. TakenOnRequest(t)'
      BY SMT DEF TakenOnRequest, StageMatches, OnePlace
    <2>6. Settled(t)'
      BY SMT DEF Settled, Resumable, Queued, TakenOnRequest
    <2>7. SecondLook(t)'
      BY SMT DEF SecondLook, StageMatches, OnePlace
    <2> QED
      BY <2>1, <2>2, <2>3, <2>4, <2>5, <2>6, <2>7
  <1>8. Moved(t)
    <2>1. Awake(t) /\ ~Awake(t)'
      BY <1>1, <1>2, <1>3 DEF Awake, WorkerMoved, OneHolder, Holds, LateSteps
    <2>2. /\ scheduled[t] \in 0..1 /\ (Awake(t) => scheduled[t] = 0)
          /\ (Holds(w, t) => scheduled[t] = 0)
          /\ scheduled'[t] \in 0..1 /\ (Awake(t)' => scheduled'[t] = 0)
      BY <1>7 DEF TaskInv, OnePlace, Held, Holds, Awake, LateSteps
    <2> QED
      BY <1>1, <1>2, <2>1, <2>2, PhaseIs DEF Moved, Requested, TaskInv
  <1> QED
    BY <1>4, <1>5, <1>6, <1>7, <1>8, SameKeeps DEF IInv

LEMMA LookInv ==
  ASSUME IInv, NEW p \in Pool, Look(p), NEW t \in Tasks, queue # <<>>, t = Head(queue)
  PROVE  IInv' /\ Moved(t) /\ \A u \in Tasks \ {t} : Same(u)
  <1>0. TypeOK /\ OneHolder /\ ThreadsBusy /\ PoolOutlives /\ \A u \in Tasks : TaskInv(u)
    BY DEF IInv
  <1> USE <1>0, BlockingAssumption
  <1>2. /\ UNCHANGED <<stop, ran, cancelled, stored, guard, scope, stage, result, scheduled,
                       at, doing>>
        /\ item[p] = NoTask /\ item'[p] = t /\ poolAt'[p] = "executing"
        /\ \A q \in Pool \ {p} : item'[q] = item[q] /\ poolAt'[q] = poolAt[q]
        /\ queue' \in Seq(Tasks) /\ Distinct(queue') /\ t \in ToSet(queue)
        /\ ToSet(queue') = ToSet(queue) \ {t}
        /\ poolAt' \in [Pool -> {"looking", "asleep", "executing", "executed", "left"}]
        /\ item' \in [Pool -> Tasks \union {NoTask}]
    <2>1. /\ poolAt[p] = "looking"
          /\ item' = [item EXCEPT ![p] = t]
          /\ queue' = Tail(queue)
          /\ poolAt' = [poolAt EXCEPT ![p] = "executing"]
          /\ UNCHANGED <<stop, block, awaiter, scope, scheduled, workerVars>>
      BY DEF Look, Popped
    <2>2. /\ queue' \in Seq(Tasks) /\ Distinct(queue')
          /\ t \in ToSet(queue) /\ ToSet(queue') = ToSet(queue) \ {t}
      BY <2>1, TailSet DEF TypeOK, OneHolder
    <2>3. item[p] = NoTask
      BY <2>1 DEF TypeOK, ThreadsBusy
    <2> QED
      BY <2>1, <2>2, <2>3 DEF TypeOK, block, awaiter, workerVars
  <1>4. TypeOK'
    BY <1>2, SMT DEF TypeOK
  <1>5. OneHolder' /\ ThreadsBusy' /\ PoolOutlives'
    BY <1>2, SMT
    DEF OneHolder, ThreadsBusy, PoolOutlives, Holds, TaskInv, OnePlace, OnPool, InQueue
  <1>6. \A u \in Tasks \ {t} : Same(u)
    BY <1>2, SMT DEF Same, InQueue, ThreadsBusy
  <1>7. TaskInv(t)'
    <2> USE <1>2
    DEF TaskInv, InQueue, Found, OnPool, Taken, Late, LateSteps, Holds, Held, Requested
    <2>1. OnePlace(t)'
      BY SMT DEF OnePlace, StageMatches, OneHolder
    <2>2. StageMatches(t)'
      BY SMT DEF StageMatches, OnePlace, OneHolder
    <2>3. GuardMatches(t)'
      BY SMT DEF GuardMatches, StageMatches, OnePlace
    <2>4. CallOnce(t)'
      BY SMT DEF CallOnce, OnePlace, StageMatches
    <2>5. TakenOnRequest(t)'
      BY SMT DEF TakenOnRequest, StageMatches, OnePlace
    <2>6. Settled(t)'
      BY SMT DEF Settled, Resumable, Queued
    <2>7. SecondLook(t)'
      BY SMT DEF SecondLook, StageMatches, OnePlace
    <2> QED
      BY <2>1, <2>2, <2>3, <2>4, <2>5, <2>6, <2>7
  <1>8. Moved(t)
    BY <1>2, SMT DEF Moved, Phase, Awake, Requested
  <1> QED
    BY <1>4, <1>5, <1>6, <1>7, <1>8, SameKeeps DEF IInv

LEMMA ExecuteInv ==
  ASSUME IInv, NEW p \in Pool, Execute(p), NEW t \in Tasks, t = item[p]
  PROVE  IInv' /\ Moved(t) /\ \A u \in Tasks \ {t} : Same(u)
  <1>0. TypeOK /\ OneHolder /\ ThreadsBusy /\ PoolOutlives /\ \A u \in Tasks : TaskInv(u)
    BY DEF IInv
  <1> USE <1>0, BlockingAssumption
  <1>2. /\ UNCHANGED <<queue, stop, item, cancelled, stored, guard, scope, stage, result,
                       scheduled, at, doing>>
        /\ ran[t] = 0 /\ ran'[t] = 1 /\ poolAt[p] = "executing" /\ poolAt'[p] = "executed"
        /\ \A q \in Pool \ {p} : poolAt'[q] = poolAt[q]
        /\ ran' \in [Tasks -> 0..1]
        /\ poolAt' \in [Pool -> {"looking", "asleep", "executing", "executed", "left"}]
        /\ \A u \in Tasks \ {t} : ran'[u] = ran[u]
    BY SMT DEF TypeOK, Execute, awaiter, workerVars, TaskInv, CallOnce
  <1>4. TypeOK'
    BY <1>2, SMT DEF TypeOK
  <1>5. OneHolder' /\ ThreadsBusy' /\ PoolOutlives'
    BY <1>2, SMT DEF OneHolder, ThreadsBusy, PoolOutlives, Holds
  <1>6. \A u \in Tasks \ {t} : Same(u)
    BY <1>2, SMT DEF Same, InQueue, ThreadsBusy
  <1>7. TaskInv(t)'
    <2> USE <1>2
    DEF TaskInv, InQueue, Found, OnPool, Taken, Late, LateSteps, Holds, Held, Requested
    <2>1. OnePlace(t)'
      BY SMT DEF OnePlace, StageMatches, OneHolder
    <2>2. StageMatches(t)'
      BY SMT DEF StageMatches, OnePlace, OneHolder
    <2>3. GuardMatches(t)'
      BY SMT DEF GuardMatches, StageMatches, OnePlace
    <2>4. CallOnce(t)'
      BY SMT DEF CallOnce, OnePlace, OneHolder
    <2>5. TakenOnRequest(t)'
      BY SMT DEF TakenOnRequest, StageMatches, OnePlace
    <2>6. Settled(t)'
      BY SMT DEF Settled, Resumable, Queued
    <2>7. SecondLook(t)'
      BY SMT DEF SecondLook, StageMatches, OnePlace
    <2> QED
      BY <2>1, <2>2, <2>3, <2>4, <2>5, <2>6, <2>7
  <1>8. Moved(t)
    BY <1>2, SMT DEF Moved, Phase, Awake, Requested
  <1> QED
    BY <1>4, <1>5, <1>6, <1>7, <1>8, SameKeeps DEF IInv

LEMMA ResumesInv ==
  ASSUME IInv, NEW p \in Pool, Resumes(p), NEW t \in Tasks, t = item[p]
  PROVE  IInv' /\ Moved(t) /\ \A u \in Tasks \ {t} : Same(u)
  <1>0. TypeOK /\ OneHolder /\ ThreadsBusy /\ PoolOutlives /\ \A u \in Tasks : TaskInv(u)
    BY DEF IInv
  <1> USE <1>0, BlockingAssumption
  <1>2. /\ UNCHANGED <<queue, stop, ran, cancelled, stored, guard, scope, stage, result, at,
                       doing>>
        /\ poolAt[p] = "executed" /\ poolAt'[p] = "looking"
        /\ item'[p] = NoTask /\ scheduled'[t] = scheduled[t] + 1
        /\ \A q \in Pool \ {p} : item'[q] = item[q] /\ poolAt'[q] = poolAt[q]
        /\ scheduled' \in [Tasks -> Nat]
        /\ item' \in [Pool -> Tasks \union {NoTask}]
        /\ poolAt' \in [Pool -> {"looking", "asleep", "executing", "executed", "left"}]
        /\ \A u \in Tasks \ {t} : scheduled'[u] = scheduled[u]
    BY SMT DEF TypeOK, Resumes, block, awaiter, workerVars, Schedule
  <1>4. TypeOK'
    BY <1>2, SMT DEF TypeOK
  <1>5. OneHolder' /\ ThreadsBusy' /\ PoolOutlives'
    BY <1>2, SMT DEF OneHolder, ThreadsBusy, PoolOutlives, Holds
  <1>6. \A u \in Tasks \ {t} : Same(u)
    BY <1>2, SMT DEF Same, InQueue, ThreadsBusy
  <1>7. TaskInv(t)'
    <2> USE <1>2
    DEF TaskInv, InQueue, Found, OnPool, Taken, Late, LateSteps, Holds, Held, Requested
    <2>1. OnePlace(t)'
      BY SMT DEF OnePlace, StageMatches, OneHolder
    <2>2. StageMatches(t)'
      BY SMT DEF StageMatches, OnePlace, OneHolder
    <2>3. GuardMatches(t)'
      BY SMT DEF GuardMatches, StageMatches, OnePlace
    <2>4. CallOnce(t)'
      BY SMT DEF CallOnce, OnePlace, StageMatches
    <2>5. TakenOnRequest(t)'
      BY SMT DEF TakenOnRequest, StageMatches, OnePlace
    <2>6. Settled(t)'
      BY SMT DEF Settled, Resumable, CallOnce
    <2>7. SecondLook(t)'
      BY SMT DEF SecondLook, StageMatches, OnePlace
    <2> QED
      BY <2>1, <2>2, <2>3, <2>4, <2>5, <2>6, <2>7
  <1>8. Moved(t)
    <2>1. ~Awake(t) /\ ~Awake(t)'
      BY <1>2 DEF Awake, Holds, LateSteps, TaskInv, OnePlace, Held, OnPool
    <2>2. /\ scheduled[t] \in 0..1 /\ (Awake(t) => scheduled[t] = 0)
          /\ (OnPool(t) \/ Taken(t) => scheduled[t] = 0)
          /\ scheduled'[t] \in 0..1 /\ (Awake(t)' => scheduled'[t] = 0)
      BY <1>7 DEF TaskInv, OnePlace, Held, Holds, Awake, LateSteps
    <2> QED
      BY <1>2, <2>1, <2>2, PhaseIs DEF Moved, Requested, TaskInv, StageMatches, OnPool
  <1> QED
    BY <1>4, <1>5, <1>6, <1>7, <1>8, SameKeeps DEF IInv

LEMMA CancelInv ==
  ASSUME IInv, NEW t \in Tasks, Cancel(t)
  PROVE  IInv' /\ Moved(t) /\ \A u \in Tasks \ {t} : Same(u)
  <1>0. TypeOK /\ OneHolder /\ ThreadsBusy /\ PoolOutlives /\ \A u \in Tasks : TaskInv(u)
    BY DEF IInv
  <1> USE <1>0, BlockingAssumption
  <1>2. /\ UNCHANGED <<queue, stop, poolAt, item, ran, cancelled, stored, stage, result,
                       scheduled, at, doing>>
        /\ scope[t] = "live"
        /\ IF guard[t] = "armed" THEN guard'[t] = "fired" /\ scope'[t] = "firing"
           ELSE guard'[t] = guard[t] /\ scope'[t] = "done"
        /\ guard' \in [Tasks -> {"idle", "armed", "fired", "disarmed"}]
        /\ scope' \in [Tasks -> {"live", "firing", "marking", "waking", "unlocking", "done"}]
        /\ \A u \in Tasks \ {t} : guard'[u] = guard[u]
        /\ \A u \in Tasks \ {t} : scope'[u] = scope[u]
    <2>0. scope[t] = "live" /\ UNCHANGED <<poolVars, block, stored, stage, result,
                                           scheduled, workerVars>>
      BY DEF Cancel
    <2>1. CASE guard[t] = "armed"
      <3>1. /\ guard' = [guard EXCEPT ![t] = "fired"]
            /\ scope' = [scope EXCEPT ![t] = "firing"]
        BY <2>1 DEF Cancel
      <3> QED
        BY <2>0, <2>1, <3>1 DEF TypeOK, poolVars, block, workerVars
    <2>2. CASE guard[t] # "armed"
      <3>1. scope' = [scope EXCEPT ![t] = "done"] /\ UNCHANGED guard
        BY <2>2 DEF Cancel
      <3> QED
        BY <2>0, <2>2, <3>1 DEF TypeOK, poolVars, block, workerVars
    <2> QED
      BY <2>1, <2>2
  <1>4. TypeOK'
    BY <1>2, SMT DEF TypeOK
  <1>5. OneHolder' /\ ThreadsBusy' /\ PoolOutlives'
    BY <1>2, SMT DEF OneHolder, ThreadsBusy, PoolOutlives, Holds
  <1>6. \A u \in Tasks \ {t} : Same(u)
    BY <1>2, SMT DEF Same, InQueue, ThreadsBusy
  <1>7. TaskInv(t)'
    <2> USE <1>2
    DEF TaskInv, InQueue, Found, OnPool, Taken, Late, LateSteps, Holds, Held, Requested
    <2>1. OnePlace(t)'
      BY SMT DEF OnePlace, StageMatches, OneHolder
    <2>2. StageMatches(t)'
      BY SMT DEF StageMatches, OnePlace, Untouched
    <2>3. GuardMatches(t)'
      BY SMT DEF GuardMatches, StageMatches, OnePlace
    <2>4. CallOnce(t)'
      BY SMT DEF CallOnce, OnePlace, StageMatches
    <2>5. TakenOnRequest(t)'
      BY SMT DEF TakenOnRequest, StageMatches, OnePlace
    <2>6. Settled(t)'
      BY SMT DEF Settled, Resumable, Queued
    <2>7. SecondLook(t)'
      BY SMT DEF SecondLook, StageMatches, GuardMatches
    <2> QED
      BY <2>1, <2>2, <2>3, <2>4, <2>5, <2>6, <2>7
  <1>8. Moved(t)
    BY <1>2, SMT DEF Moved, Phase, Awake, Requested
  <1> QED
    BY <1>4, <1>5, <1>6, <1>7, <1>8, SameKeeps DEF IInv

LEMMA CallbackInv ==
  ASSUME IInv, NEW t \in Tasks, Callback(t)
  PROVE  IInv' /\ Moved(t) /\ \A u \in Tasks \ {t} : Same(u)
  <1>0. TypeOK /\ OneHolder /\ ThreadsBusy /\ PoolOutlives /\ \A u \in Tasks : TaskInv(u)
    BY DEF IInv
  <1> USE <1>0, BlockingAssumption
  <1>2. /\ UNCHANGED <<stop, poolAt, item, ran, cancelled, stored, guard, stage, result,
                       scheduled, at, doing>>
        /\ scope[t] = "firing"
        /\ scope'[t] = IF Found(t) THEN "marking" ELSE "unlocking"
        /\ queue' \in Seq(Tasks) /\ Distinct(queue')
        /\ ToSet(queue') = ToSet(queue) \ {t}
        /\ scope' \in [Tasks -> {"live", "firing", "marking", "waking", "unlocking", "done"}]
        /\ \A u \in Tasks \ {t} : scope'[u] = scope[u]
    BY WithoutSet, SMT
    DEF TypeOK, Callback, CancelMoves, block, awaiter, workerVars, Withdrawn, OneHolder, Found
  <1>4. TypeOK'
    BY <1>2, SMT DEF TypeOK
  <1>5. OneHolder' /\ ThreadsBusy' /\ PoolOutlives'
    BY <1>2, SMT DEF OneHolder, ThreadsBusy, PoolOutlives, Holds
  <1>6. \A u \in Tasks \ {t} : Same(u)
    BY <1>2, SMT DEF Same, InQueue, ThreadsBusy
  <1>7. TaskInv(t)'
    <2> USE <1>2
    DEF TaskInv, InQueue, Found, OnPool, Taken, Late, LateSteps, Holds, Held, Requested
    <2>1. OnePlace(t)'
      BY SMT DEF OnePlace, StageMatches, OneHolder
    <2>2. StageMatches(t)'
      BY SMT DEF StageMatches, OnePlace, Untouched
    <2>3. GuardMatches(t)'
      BY SMT DEF GuardMatches, StageMatches, OnePlace
    <2>4. CallOnce(t)'
      BY SMT DEF CallOnce, OnePlace, StageMatches
    <2>5. TakenOnRequest(t)'
      BY SMT DEF TakenOnRequest, StageMatches, OnePlace
    <2>6. Settled(t)'
      BY SMT DEF Settled, Resumable, Queued
    <2>7. SecondLook(t)'
      BY SMT DEF SecondLook, StageMatches, OnePlace
    <2> QED
      BY <2>1, <2>2, <2>3, <2>4, <2>5, <2>6, <2>7
  <1>8. Moved(t)
    BY <1>2, SMT DEF Moved, Phase, Awake, Requested
  <1> QED
    BY <1>4, <1>5, <1>6, <1>7, <1>8, SameKeeps DEF IInv

LEMMA CancelMarksInv ==
  ASSUME IInv, NEW t \in Tasks, CancelMarks(t)
  PROVE  IInv' /\ Moved(t) /\ \A u \in Tasks \ {t} : Same(u)
  <1>0. TypeOK /\ OneHolder /\ ThreadsBusy /\ PoolOutlives /\ \A u \in Tasks : TaskInv(u)
    BY DEF IInv
  <1> USE <1>0, BlockingAssumption
  <1>2. /\ UNCHANGED <<queue, stop, poolAt, item, ran, stored, guard, stage, result,
                       scheduled, at, doing>>
        /\ scope[t] = "marking" /\ scope'[t] = "waking" /\ cancelled'[t]
        /\ cancelled' \in [Tasks -> BOOLEAN]
        /\ scope' \in [Tasks -> {"live", "firing", "marking", "waking", "unlocking", "done"}]
        /\ \A u \in Tasks \ {t} : cancelled'[u] = cancelled[u]
        /\ \A u \in Tasks \ {t} : scope'[u] = scope[u]
    BY SMT DEF TypeOK, CancelMarks, CancelMoves, poolVars, awaiter, workerVars
  <1>4. TypeOK'
    BY <1>2, SMT DEF TypeOK
  <1>5. OneHolder' /\ ThreadsBusy' /\ PoolOutlives'
    BY <1>2, SMT DEF OneHolder, ThreadsBusy, PoolOutlives, Holds
  <1>6. \A u \in Tasks \ {t} : Same(u)
    BY <1>2, SMT DEF Same, InQueue, ThreadsBusy
  <1>7. TaskInv(t)'
    <2> USE <1>2
    DEF TaskInv, InQueue, Found, OnPool, Taken, Late, LateSteps, Holds, Held, Requested
    <2>1. OnePlace(t)'
      BY SMT DEF OnePlace, StageMatches, OneHolder
    <2>2. StageMatches(t)'
      BY SMT DEF StageMatches, OnePlace, OneHolder
    <2>3. GuardMatches(t)'
      BY SMT DEF GuardMatches, StageMatches, OnePlace
    <2>4. CallOnce(t)'
      BY SMT DEF CallOnce, OnePlace, StageMatches
    <2>5. TakenOnRequest(t)'
      BY SMT DEF TakenOnRequest, StageMatches, OnePlace
    <2>6. Settled(t)'
      BY SMT DEF Settled, Resumable, Queued
    <2>7. SecondLook(t)'
      BY SMT DEF SecondLook, StageMatches, OnePlace
    <2> QED
      BY <2>1, <2>2, <2>3, <2>4, <2>5, <2>6, <2>7
  <1>8. Moved(t)
    BY <1>2, SMT DEF Moved, Phase, Awake, Requested
  <1> QED
    BY <1>4, <1>5, <1>6, <1>7, <1>8, SameKeeps DEF IInv

LEMMA CancelWakesInv ==
  ASSUME IInv, NEW t \in Tasks, CancelWakes(t)
  PROVE  IInv' /\ Moved(t) /\ \A u \in Tasks \ {t} : Same(u)
  <1>0. TypeOK /\ OneHolder /\ ThreadsBusy /\ PoolOutlives /\ \A u \in Tasks : TaskInv(u)
    BY DEF IInv
  <1> USE <1>0, BlockingAssumption
  <1>2. /\ UNCHANGED <<queue, stop, poolAt, item, ran, cancelled, stored, guard, stage,
                       result, at, doing>>
        /\ scope[t] = "waking" /\ scope'[t] = "unlocking" /\ scheduled'[t] = scheduled[t] + 1
        /\ scheduled' \in [Tasks -> Nat]
        /\ scope' \in [Tasks -> {"live", "firing", "marking", "waking", "unlocking", "done"}]
        /\ \A u \in Tasks \ {t} : scheduled'[u] = scheduled[u]
        /\ \A u \in Tasks \ {t} : scope'[u] = scope[u]
    BY SMT DEF TypeOK, CancelWakes, CancelMoves, poolVars, block, awaiter, workerVars, Schedule
  <1>4. TypeOK'
    BY <1>2, SMT DEF TypeOK
  <1>5. OneHolder' /\ ThreadsBusy' /\ PoolOutlives'
    BY <1>2, SMT DEF OneHolder, ThreadsBusy, PoolOutlives, Holds
  <1>6. \A u \in Tasks \ {t} : Same(u)
    BY <1>2, SMT DEF Same, InQueue, ThreadsBusy
  <1>7. TaskInv(t)'
    <2> USE <1>2
    DEF TaskInv, InQueue, Found, OnPool, Taken, Late, LateSteps, Holds, Held, Requested
    <2>1. OnePlace(t)'
      BY SMT DEF OnePlace, StageMatches, OneHolder
    <2>2. StageMatches(t)'
      BY SMT DEF StageMatches, OnePlace, OneHolder
    <2>3. GuardMatches(t)'
      BY SMT DEF GuardMatches, StageMatches, OnePlace
    <2>4. CallOnce(t)'
      BY SMT DEF CallOnce, OnePlace, StageMatches
    <2>5. TakenOnRequest(t)'
      BY SMT DEF TakenOnRequest, StageMatches, OnePlace
    <2>6. Settled(t)'
      BY SMT DEF Settled, Resumable, TakenOnRequest
    <2>7. SecondLook(t)'
      BY SMT DEF SecondLook, StageMatches, OnePlace
    <2> QED
      BY <2>1, <2>2, <2>3, <2>4, <2>5, <2>6, <2>7
  <1>8. Moved(t)
    <2>1. ~Awake(t) /\ ~Awake(t)'
      BY <1>2 DEF Awake, Holds, LateSteps, TaskInv, OnePlace, Held, Taken
    <2>2. /\ scheduled[t] \in 0..1 /\ (Awake(t) => scheduled[t] = 0)
          /\ (OnPool(t) \/ Taken(t) => scheduled[t] = 0)
          /\ scheduled'[t] \in 0..1 /\ (Awake(t)' => scheduled'[t] = 0)
      BY <1>7 DEF TaskInv, OnePlace, Held, Holds, Awake, LateSteps
    <2> QED
      BY <1>2, <2>1, <2>2, PhaseIs DEF Moved, Requested, TaskInv, StageMatches, Taken
  <1> QED
    BY <1>4, <1>5, <1>6, <1>7, <1>8, SameKeeps DEF IInv

LEMMA CancelUnlockInv ==
  ASSUME IInv, NEW t \in Tasks, CancelUnlock(t)
  PROVE  IInv' /\ Moved(t) /\ \A u \in Tasks \ {t} : Same(u)
  <1>0. TypeOK /\ OneHolder /\ ThreadsBusy /\ PoolOutlives /\ \A u \in Tasks : TaskInv(u)
    BY DEF IInv
  <1> USE <1>0, BlockingAssumption
  <1>2. /\ UNCHANGED <<queue, stop, poolAt, item, ran, cancelled, stored, guard, stage,
                       result, scheduled, at, doing>>
        /\ scope[t] = "unlocking" /\ scope'[t] = "done"
        /\ scope' \in [Tasks -> {"live", "firing", "marking", "waking", "unlocking", "done"}]
        /\ \A u \in Tasks \ {t} : scope'[u] = scope[u]
    BY SMT DEF TypeOK, CancelUnlock, CancelMoves, poolVars, block, awaiter, workerVars
  <1>4. TypeOK'
    BY <1>2, SMT DEF TypeOK
  <1>5. OneHolder' /\ ThreadsBusy' /\ PoolOutlives'
    BY <1>2, SMT DEF OneHolder, ThreadsBusy, PoolOutlives, Holds
  <1>6. \A u \in Tasks \ {t} : Same(u)
    BY <1>2, SMT DEF Same, InQueue, ThreadsBusy
  <1>7. TaskInv(t)'
    <2> USE <1>2
    DEF TaskInv, InQueue, Found, OnPool, Taken, Late, LateSteps, Holds, Held, Requested
    <2>1. OnePlace(t)'
      BY SMT DEF OnePlace, StageMatches, OneHolder
    <2>2. StageMatches(t)'
      BY SMT DEF StageMatches, OnePlace, Untouched
    <2>3. GuardMatches(t)'
      BY SMT DEF GuardMatches, StageMatches, OnePlace
    <2>4. CallOnce(t)'
      BY SMT DEF CallOnce, OnePlace, StageMatches
    <2>5. TakenOnRequest(t)'
      BY SMT DEF TakenOnRequest, StageMatches, OnePlace
    <2>6. Settled(t)'
      BY SMT DEF Settled, Resumable, Queued
    <2>7. SecondLook(t)'
      BY SMT DEF SecondLook, StageMatches, OnePlace
    <2> QED
      BY <2>1, <2>2, <2>3, <2>4, <2>5, <2>6, <2>7
  <1>8. Moved(t)
    BY <1>2, SMT DEF Moved, Phase, Awake, Requested
  <1> QED
    BY <1>4, <1>5, <1>6, <1>7, <1>8, SameKeeps DEF IInv

(* A pool thread that finds nothing to do, and the destructor.             *)
LEMMA IdleInv ==
  ASSUME IInv, UNCHANGED <<queue, item, block, awaiter, scope, scheduled, workerVars>>,
         stop' \in {"no", "set", "notified"},
         stop' # "no" => \A t \in Tasks : stage[t] = "done",
         poolAt' \in [Pool -> {"looking", "asleep", "executing", "executed", "left"}],
         \A p \in Pool : item[p] # NoTask => poolAt'[p] = poolAt[p],
         \A p \in Pool : item[p] = NoTask => poolAt'[p] \notin {"executing", "executed"}
  PROVE  IInv' /\ \A u \in Tasks : Same(u)
  <1> USE DEF IInv, block, awaiter, workerVars
  <1>1. TypeOK'
    BY DEF TypeOK
  <1>2. OneHolder' /\ ThreadsBusy' /\ PoolOutlives'
    BY DEF OneHolder, ThreadsBusy, PoolOutlives, Holds
  <1>3. \A u \in Tasks : Same(u)
    BY BlockingAssumption DEF Same, InQueue
  <1> QED
    BY <1>1, <1>2, <1>3, SameKeeps

(* Every step is one of a task, or none's. *)
OfOneTask ==
    \/ \A u \in Tasks : Same(u)
    \/ \E t \in Tasks : Moved(t) /\ \A u \in Tasks \ {t} : Same(u)

LEMMA PoolStepInv ==
  ASSUME IInv, NEW p \in Pool, PoolStep(p)
  PROVE  IInv' /\ OfOneTask
  <1>0. TypeOK /\ ThreadsBusy /\ PoolOutlives
    BY DEF IInv
  <1>1. CASE Look(p)
    <2>1. CASE queue # <<>>
      <3>1. Head(queue) \in Tasks
        BY <1>0, <2>1, HeadTailProperties DEF TypeOK
      <3> QED
        BY <1>1, <2>1, <3>1, LookInv DEF OfOneTask
    <2>2. CASE queue = <<>>
      <3>1. /\ poolAt[p] = "looking"
            /\ poolAt' = [poolAt EXCEPT ![p] = IF stop = "no" THEN "asleep" ELSE "left"]
            /\ UNCHANGED <<queue, item, stop, block, awaiter, scope, scheduled, workerVars>>
        BY <1>1, <2>2 DEF Look
      <3> QED
        BY <1>0, <3>1, IdleInv DEF OfOneTask, TypeOK, ThreadsBusy, PoolOutlives
    <2> QED
      BY <2>1, <2>2
  <1>2. CASE Execute(p)
    <2>1. item[p] \in Tasks
      BY <1>0, <1>2 DEF TypeOK, ThreadsBusy, Execute
    <2> QED
      BY <1>2, <2>1, ExecuteInv DEF OfOneTask
  <1>3. CASE Resumes(p)
    <2>1. item[p] \in Tasks
      BY <1>0, <1>3 DEF TypeOK, ThreadsBusy, Resumes
    <2> QED
      BY <1>3, <2>1, ResumesInv DEF OfOneTask
  <1> QED
    BY <1>1, <1>2, <1>3 DEF PoolStep

LEMMA DestructorInv ==
  ASSUME IInv, StopPool \/ NotifyAll
  PROVE  IInv' /\ OfOneTask
  <1>0. TypeOK /\ ThreadsBusy /\ PoolOutlives
    BY DEF IInv
  <1>1. CASE StopPool
    BY <1>0, <1>1, IdleInv DEF OfOneTask, StopPool, TypeOK, ThreadsBusy
  <1>2. CASE NotifyAll
    <2>1. /\ stop = "set" /\ stop' = "notified"
          /\ poolAt' = [p \in Pool |-> IF poolAt[p] = "asleep" THEN "looking" ELSE poolAt[p]]
          /\ UNCHANGED <<queue, item, block, awaiter, scope, scheduled, workerVars>>
      BY <1>2 DEF NotifyAll
    <2>2. /\ poolAt' \in [Pool -> {"looking", "asleep", "executing", "executed", "left"}]
          /\ \A p \in Pool : item[p] # NoTask => poolAt'[p] = poolAt[p]
          /\ \A p \in Pool : item[p] = NoTask => poolAt'[p] \notin {"executing", "executed"}
      BY <1>0, <2>1 DEF TypeOK, ThreadsBusy
    <2> QED
      BY <1>0, <2>1, <2>2, IdleInv DEF OfOneTask, PoolOutlives
  <1> QED
    BY <1>1, <1>2

LEMMA InitIInv == Init => IInv
  <1> SUFFICES ASSUME Init PROVE IInv
    OBVIOUS
  <1>0. queue = <<>> /\ ToSet(queue) = {} /\ Distinct(queue)
    BY EmptySequence DEF Init
  <1> USE BlockingAssumption DEF Init
  <1>1. TypeOK
    BY DEF TypeOK
  <1>2. OneHolder /\ ThreadsBusy /\ PoolOutlives
    BY <1>0 DEF OneHolder, ThreadsBusy, PoolOutlives, Holds
  <1>3. ASSUME NEW t \in Tasks PROVE TaskInv(t)
    <2> USE <1>0 DEF InQueue, OnPool, Taken, Late, LateSteps, Holds, Held, Requested
    <2>1. OnePlace(t) /\ SecondLook(t)
      BY DEF OnePlace, SecondLook
    <2>2. StageMatches(t)
      BY DEF StageMatches, Untouched
    <2>3. GuardMatches(t) /\ TakenOnRequest(t)
      BY DEF GuardMatches, TakenOnRequest
    <2>4. CallOnce(t) /\ Settled(t)
      BY DEF CallOnce, Settled, Resumable
    <2> QED
      BY <2>1, <2>2, <2>3, <2>4 DEF TaskInv
  <1> QED
    BY <1>1, <1>2, <1>3 DEF IInv

LEMMA NextIInv == IInv /\ [Next]_vars => IInv' /\ OfOneTask
  <1> SUFFICES ASSUME IInv, [Next]_vars PROVE IInv' /\ OfOneTask
    OBVIOUS
  <1>1. ASSUME NEW p \in Pool, PoolStep(p) PROVE IInv' /\ OfOneTask
    BY <1>1, PoolStepInv
  <1>2. CASE StopPool \/ NotifyAll
    BY <1>2, DestructorInv
  <1>3. ASSUME NEW w \in Workers, WorkerStep(w) PROVE IInv' /\ OfOneTask
    <2>1. PICK t \in Tasks : doing[w] = t /\ Awaits(w, t)
      BY <1>3 DEF WorkerStep
    <2> QED
      BY <2>1, TestScopeInv, ArmInv, EnqueueInv, StoreInv, RecheckInv, TryCancelInv, MarkInv,
         WakeSelfInv, DisarmInv, ReadInv
      DEF Awaits, OfOneTask
  <1>4. ASSUME NEW w \in Workers, NEW t \in Tasks, Resume(w, t) PROVE IInv' /\ OfOneTask
    BY <1>4, ResumeInv DEF OfOneTask
  <1>5. ASSUME NEW t \in Tasks, Cancel(t) \/ CancelStep(t) PROVE IInv' /\ OfOneTask
    BY <1>5, CancelInv, CallbackInv, CancelMarksInv, CancelWakesInv, CancelUnlockInv
    DEF CancelStep, OfOneTask
  <1>6. CASE UNCHANGED vars
    <2>1. \A u \in Tasks : Same(u)
      BY <1>6 DEF vars, poolVars, block, awaiter, workerVars, Same, InQueue
    <2>2. TypeOK' /\ OneHolder' /\ ThreadsBusy' /\ PoolOutlives'
      BY <1>6
      DEF vars, poolVars, block, awaiter, workerVars, IInv, TypeOK, OneHolder, ThreadsBusy,
          PoolOutlives, Holds
    <2> QED
      BY <2>1, <2>2, SameKeeps DEF IInv, OfOneTask
  <1> QED
    BY <1>1, <1>2, <1>3, <1>4, <1>5, <1>6 DEF Next

LEMMA Invariance == Spec => []IInv
  BY InitIInv, NextIInv, PTL DEF Spec

(* The variables keep their types; in particular no function of a call is  *)
(* executed twice, whoever takes the call from the queue. *)
THEOREM TypeCorrect == Spec => []TypeOK
  <1>1. IInv => TypeOK
    BY DEF IInv
  <1> QED
    BY Invariance, <1>1, PTL

(* A scope that has been cancelled leaves no call of its task behind, but  *)
(* for the thread that has queued it and has yet to look again. *)
THEOREM CancellationReachesQueue == Spec => []CancelReachesQueue
  <1>1. IInv => CancelReachesQueue
    BY DEF IInv, TaskInv, SecondLook, InQueue, Late, LateSteps, CancelReachesQueue
  <1> QED
    BY Invariance, <1>1, PTL

(* A call that is withdrawn is never executed, and an outcome is read only *)
(* of a call that was. *)
THEOREM WithdrawnCallsNeverRun == Spec => []WithdrawnNeverRuns
  <1>1. IInv => WithdrawnNeverRuns
    BY DEF IInv, TaskInv, CallOnce, WithdrawnNeverRuns
  <1> QED
    BY Invariance, <1>1, PTL

-----------------------------------------------------------------------------
(* The refinement. *)
LEMMA SamePhase ==
  ASSUME NEW u \in Tasks, Same(u)
  PROVE  Phase(u)' = Phase(u) /\ (Requested(u)' <=> Requested(u))
  BY DEF Same, Phase, Awake, Requested

LEMMA MovesPhase ==
  ASSUME NEW t \in Tasks, \A u \in Tasks \ {t} : Same(u), Requested(t)' <=> Requested(t),
         NEW from, NEW to, Phase(t) = from, Phase(t)' = to
  PROVE  Promise!Moves(t, from, to)
  <1>1. \A u \in Tasks \ {t} : Phase(u)' = Phase(u)
    BY SamePhase
  <1>2. {u \in Tasks : Requested(u)}' = {u \in Tasks : Requested(u)}
    BY SamePhase
  <1>3. [u \in Tasks |-> Phase(u)]' = [[u \in Tasks |-> Phase(u)] EXCEPT ![t] = to]
    BY <1>1
  <1> QED
    BY <1>2, <1>3 DEF Promise!Moves

LEMMA StaysPhase ==
  ASSUME NEW t \in Tasks, \A u \in Tasks \ {t} : Same(u), Phase(t)' = Phase(t),
         Requested(t) => Requested(t)'
  PROVE  Promise!Cancel(t) \/ UNCHANGED Promise!vars
  <1>1. \A u \in Tasks \ {t} : Phase(u)' = Phase(u) /\ (Requested(u)' <=> Requested(u))
    BY SamePhase
  <1>2. [u \in Tasks |-> Phase(u)]' = [u \in Tasks |-> Phase(u)]
    BY <1>1
  <1>3. CASE Requested(t)' <=> Requested(t)
    <2>1. {u \in Tasks : Requested(u)}' = {u \in Tasks : Requested(u)}
      BY <1>1, <1>3
    <2> QED
      BY <1>2, <2>1 DEF Promise!vars
  <1>4. CASE ~Requested(t) /\ Requested(t)'
    <2>1. {u \in Tasks : Requested(u)}' = {u \in Tasks : Requested(u)} \union {t}
      BY <1>1, <1>4
    <2> QED
      BY <1>2, <1>4, <2>1 DEF Promise!Cancel
  <1> QED
    BY <1>3, <1>4

(* The awaiter of spawn_blocking() keeps the promise of Await: a coroutine *)
(* is suspended, woken once, by the pool or by whoever withdraws its call, *)
(* and then runs. *)
THEOREM KeepsPromise == Spec => Promise!Spec
  <1>1. Init => Promise!Init
    <2> SUFFICES ASSUME Init PROVE Promise!Init
      OBVIOUS
    <2>1. \A t \in Tasks : Phase(t) = "woken" /\ ~Requested(t)
      BY BlockingAssumption DEF Init, Phase, Awake, Requested
    <2> QED
      BY <2>1 DEF Promise!Init
  <1>2. OfOneTask => [Promise!Next]_(Promise!vars)
    <2> SUFFICES ASSUME OfOneTask PROVE [Promise!Next]_(Promise!vars)
      OBVIOUS
    <2>1. CASE \A u \in Tasks : Same(u)
      <3>1. \A u \in Tasks : Phase(u)' = Phase(u) /\ (Requested(u)' <=> Requested(u))
        BY <2>1, SamePhase
      <3> QED
        BY <3>1 DEF Promise!vars
    <2>2. ASSUME NEW t \in Tasks, Moved(t), \A u \in Tasks \ {t} : Same(u)
          PROVE  [Promise!Next]_(Promise!vars)
      <3>1. CASE Phase(t)' = Phase(t)
        BY <2>2, <3>1, StaysPhase DEF Moved, Promise!Next
      <3>2. CASE Phase(t)' # Phase(t)
        <4>1. /\ Requested(t)' <=> Requested(t)
              /\ \/ Phase(t) = "running" /\ Phase(t)' = "suspended"
                 \/ Phase(t) = "suspended" /\ Phase(t)' = "woken"
                 \/ Phase(t) = "woken" /\ Phase(t)' = "running"
                 \/ Phase(t) = "running" /\ Phase(t)' = "ended"
          BY <2>2, <3>2 DEF Moved
        <4>2. \/ Promise!Moves(t, "running", "suspended")
              \/ Promise!Moves(t, "suspended", "woken")
              \/ Promise!Moves(t, "woken", "running")
              \/ Promise!Moves(t, "running", "ended")
          BY <2>2, <4>1, MovesPhase
        <4> QED
          BY <4>2 DEF Promise!Next, Promise!Suspend, Promise!Wake, Promise!Resume, Promise!End
      <3> QED
        BY <3>1, <3>2
    <2> QED
      BY <2>1, <2>2 DEF OfOneTask
  <1> QED
    BY <1>1, <1>2, Invariance, NextIInv, PTL DEF Spec, Promise!Spec

-----------------------------------------------------------------------------
(* The tasks of Files. *)
LEMMA FilesStep == [FilesNext]_filesVars => [Next]_vars
  <1> SUFFICES ASSUME [FilesNext]_filesVars PROVE [Next]_vars
    OBVIOUS
  <1>1. CASE FilesNext
    BY <1>1 DEF FilesNext, Kept, Stops, CoReturn, Next
  <1>2. CASE UNCHANGED filesVars
    BY <1>2 DEF filesVars
  <1> QED
    BY <1>1, <1>2

(* The file tasks add nothing to what the awaiter does: whatever holds of  *)
(* SpawnBlocking holds below them. *)
THEOREM FilesUsePool == FilesSpec => Spec
  <1>1. FilesInit => Init
    BY DEF FilesInit
  <1> QED
    BY <1>1, FilesStep, PTL DEF FilesSpec, Spec

Replies == {"none", "value", "error", "exception", "cancelled", "undefined"}

FilesInv ==
    /\ IInv
    /\ reply \in [Tasks -> Replies]
    /\ FileHonest

LEMMA Grows ==
  ASSUME IInv, IInv', OfOneTask, NEW t \in Tasks
  PROVE  (Requested(t) => Requested(t)') /\ (ran'[t] = 0 => ran[t] = 0)
  <1>1. (Requested(t) => Requested(t)') /\ (ran[t] = 1 => ran'[t] = 1)
    BY DEF OfOneTask, Moved, Same, Requested
  <1>2. ran[t] \in 0..1 /\ ran'[t] \in 0..1
    BY DEF IInv, TypeOK
  <1> QED
    BY <1>1, <1>2

LEMMA FilesNextInv == FilesInv /\ [FilesNext]_filesVars => FilesInv'
  <1> SUFFICES ASSUME FilesInv, [FilesNext]_filesVars PROVE FilesInv'
    OBVIOUS
  <1>1. IInv' /\ OfOneTask
    BY FilesStep, NextIInv DEF FilesInv
  <1>2. CASE UNCHANGED reply
    BY <1>1, <1>2, Grows DEF FilesInv, FileHonest
  <1>3. ASSUME NEW t \in Tasks, CoReturn(t) PROVE FilesInv'
    <2>1. PICK ending \in Endings(t) : reply' = [reply EXCEPT ![t] = Reply(t, ending)]
      BY <1>3 DEF CoReturn
    <2>2. UNCHANGED <<ran, scope>> /\ stage[t] = "done"
      BY <1>3 DEF CoReturn, vars, block
    <2>3. /\ ending \in {"value", "error", "exception", "withdrawn"}
          /\ ending # "withdrawn" => ran[t] = 1
          /\ ending = "withdrawn" => result[t] = "cancelled"
      BY <2>2 DEF Endings, FilesInv, IInv, TypeOK, TaskInv, CallOnce, StageMatches
    <2>4. reply' \in [Tasks -> Replies]
      BY <2>1, <2>3 DEF FilesInv, Reply, Replies
    <2>5. /\ reply'[t] \in {"value", "error", "exception"} /\ ran[t] = 0
             => Function[t] \in Unchecked /\ Requested(t)
      BY <2>1, <2>3 DEF FilesInv, Reply, IInv, TaskInv, Settled
    <2>6. \A u \in Tasks \ {t} : reply'[u] = reply[u]
      BY <2>1 DEF FilesInv
    <2> QED
      BY <1>1, <2>2, <2>4, <2>5, <2>6 DEF FilesInv, FileHonest, Requested
  <1> QED
    BY <1>2, <1>3 DEF FilesNext, Kept, filesVars

(* A file task that reports what the file system said has asked it, or is  *)
(* one of the Unchecked and was cancelled. *)
THEOREM FilesHonest == FilesSpec => []FileHonest
  <1>1. FilesInit => FilesInv
    <2> SUFFICES ASSUME FilesInit PROVE FilesInv
      OBVIOUS
    <2>1. IInv
      BY InitIInv DEF FilesInit
    <2> QED
      BY <2>1 DEF FilesInit, FilesInv, FileHonest, Replies
  <1>2. FilesInv => FileHonest
    BY DEF FilesInv
  <1> QED
    BY <1>1, <1>2, FilesNextInv, PTL DEF FilesSpec
=============================================================================
