-------------------------- MODULE SemaphoreProofs --------------------------
(***************************************************************************)
(* The semaphore keeps its permits and its queue, for any tasks, threads   *)
(* and demands, if a cancel() that falls inside an await_suspend() finds a *)
(* waiter that has its permits, and what is left of a destroyed waiter     *)
(* reads as not cancelled.                                                 *)
(***************************************************************************)
EXTENDS Semaphore, ListLemmas, FiniteSetTheorems

(* What keeps the bugs of the README out: a cancellation that finds a task *)
(* between arm() and the read of w_.cancelled finds it granted, and what   *)
(* is left of a waiter reads as not cancelled.                             *)
Quiet == CancelAt = {} /\ LateReads = {FALSE}

Holding == {"linked", "granting"}
Releasing == {"notify", "grant", "granting", "waking"}

(* Which threads do what, and which have handles to schedule.              *)
ThreadInv(th) ==
    /\ th \in Visitors =>
           doing[th] = NoTask /\ at[th] \in Releasing \union {"outside", "stopped"}
    /\ th \in Workers =>
           at[th] \notin {"outside", "stopped"} /\ (doing[th] = NoTask <=> at[th] = "idle")
    /\ buf[th] # {} => at[th] \in {"linked", "queued", "granted", "granting", "waking"}

(* queue_mtx_ *)
OneHolder == \A th, ot \in Threads : at[th] \in Holding /\ at[ot] \in Holding => th = ot

Runs(th, t) == doing[th] = t /\ at[th] \notin Suspending
Suspends(th, t) == doing[th] = t /\ at[th] \in Suspending

(* A coroutine is in one place at most, ...                                *)
OnePlace(t) ==
    /\ scheduled[t] \in 0..1
    /\ \A th, ot \in Threads : t \in buf[th] /\ t \in buf[ot] => th = ot
    /\ \A th, ot \in Threads : Runs(th, t) /\ Runs(ot, t) => th = ot
    /\ \A th \in Threads : t \in buf[th] => scheduled[t] = 0 /\ scope[t] # "waking"
    /\ \A th \in Threads : Runs(th, t) => scheduled[t] = 0 /\ scope[t] # "waking"
    /\ \A th, ot \in Threads : t \in buf[th] => ~Runs(ot, t)
    /\ scope[t] = "waking" => scheduled[t] = 0

Asleep(t) ==
    /\ scheduled[t] = 0
    /\ scope[t] # "waking"
    /\ \A th \in Threads : t \notin buf[th] /\ ~Runs(th, t)

(* ... in none while it waits in line, ...                                 *)
InLine(t) ==
    t \in ToSet(line) =>
        /\ Asleep(t)
        /\ stage[t] = "awaiting" /\ ~acquired[t] /\ ~cancelled[t]

(* ... and its guard and the stage of its scope agree.                     *)
Guarded(t) ==
    /\ guard[t] = "armed" => scope[t] = "live"
    /\ scope[t] \in {"firing", "waking", "unlocking"} => guard[t] = "fired"
    /\ cancelled[t] => scope[t] # "live"
    /\ scope[t] = "waking" => stage[t] = "awaiting"
    /\ guard[t] = "armed" /\ ~acquired[t] =>
           t \in ToSet(line) \/ \E th \in Workers : doing[th] = t /\ at[th] = "enqueue"
    /\ scope[t] = "firing" /\ ~acquired[t] /\ ~cancelled[t] => t \in ToSet(line)

(* How far the coroutine is, by the thread that runs or suspends it, ...   *)
Running(th, t) ==
    doing[th] = t =>
        /\ at[th] \in {"ready", "try", "arm"} => stage[t] = "new" /\ ~acquired[t]
        /\ at[th] \in {"disarm", "take"} => stage[t] \in {"new", "awaiting"}
        /\ at[th] \in {"enqueue", "linked", "queued", "granted"} =>
               stage[t] # "new" /\ ~cancelled[t] /\ (acquired[t] \/ scope[t] = "live")
        /\ at[th] = "enqueue" =>
               Asleep(t) /\ stage[t] = "awaiting" /\ ~acquired[t] /\ t \notin ToSet(line)
        /\ at[th] = "linked" =>
               Asleep(t) /\ stage[t] = "awaiting" /\ (t \in ToSet(line) \/ acquired[t])
        /\ at[th] = "granted" => stage[t] = "awaiting" /\ acquired[t]
        /\ at[th] = "release" => stage[t] = "holding" /\ acquired[t]
        /\ at[th] \in Releasing => stage[t] = "done"

(* ... and by the wake-up it waits for.                                    *)
Staged(t) ==
    /\ scheduled[t] # 0 => stage[t] \in {"new", "awaiting"}
    /\ \A th \in Threads : t \in buf[th] => stage[t] = "awaiting"
    /\ stage[t] = "new" => /\ guard[t] = "idle" /\ ~cancelled[t]
                           /\ \A th \in Threads : ~Suspends(th, t)
                           /\ scheduled[t] # 0 => ~acquired[t]
    /\ \A th, ot \in Threads : Suspends(th, t) /\ Suspends(ot, t) => th = ot

TaskInv(t) ==
    /\ OnePlace(t) /\ InLine(t) /\ Guarded(t) /\ Staged(t)
    /\ \A th \in Threads : Running(th, t)

TypeInv == TypeOK /\ \A th \in Threads : ThreadInv(th)

IInv ==
    /\ TypeInv
    /\ line \in Seq(Tasks)
    /\ OneHolder
    /\ QueueFaithful
    /\ \A t \in Tasks : TaskInv(t)
-----------------------------------------------------------------------------
(* The types, which need nothing of this.                                  *)

LEMMA FirstIsTask ==
  ASSUME TypeOK, Enough
  PROVE  First \in Tasks
  BY DEF TypeOK, Enough, First

LEMMA ListTypes ==
  ASSUME TypeOK, NEW t \in Tasks
  PROVE  /\ list \in Lists /\ Lists = [head : Tasks \union {Nil}, tail : Tasks \union {Nil},
                prev : [Tasks -> Tasks \union {Nil}], next : [Tasks -> Tasks \union {Nil}]]
         /\ LinkTail(list, t) \in Lists
         /\ UnlinkQueued(list, t) \in Lists
  <1>1. Nodes = Tasks
    BY SemaphoreAssumption
  <1>2. list \in Lists
    BY <1>1 DEF TypeOK, Lists
  <1> QED
    BY <1>1, <1>2, LinkTailType, UnlinkQueuedType DEF Lists

LEMMA InitType == Init => TypeInv
  <1> SUFFICES ASSUME Init PROVE TypeInv
    OBVIOUS
  <1>1. list \in Lists /\ Nodes = Tasks
    BY SemaphoreAssumption, EmptyListRepresents DEF Init
  <1>2. TypeOK
    <2>1. list \in [head : Tasks \union {Nil}, tail : Tasks \union {Nil},
                    prev : [Tasks -> Tasks \union {Nil}], next : [Tasks -> Tasks \union {Nil}]]
      BY <1>1 DEF Lists
    <2>2. at \in [Threads -> {"idle", "outside"}] /\ held \in [Visitors -> 0..MaxHeld]
      BY SemaphoreAssumption DEF Init
    <2>3. permits \in Nat /\ has_waiters \in BOOLEAN
      BY SemaphoreAssumption DEF Init
    <2> QED
      BY <2>1, <2>2, <2>3 DEF Init, TypeOK
  <1>3. ASSUME NEW th \in Threads PROVE ThreadInv(th)
    BY SemaphoreAssumption DEF Init, ThreadInv, Threads, Releasing
  <1> QED
    BY <1>2, <1>3 DEF TypeInv

LEMMA TypeStep == TypeInv /\ [Next]_vars => TypeInv'
  <1> SUFFICES ASSUME TypeInv, [Next]_vars PROVE TypeInv'
    OBVIOUS
  <1> USE SemaphoreAssumption
  <1>1. TypeOK /\ \A th \in Threads : ThreadInv(th)
    BY DEF TypeInv
  <1>2. ASSUME NEW th \in Threads, GrantFirst(th) PROVE TypeInv'
    <2>1. First \in Tasks /\ UnlinkQueued(list, First) \in Lists
      BY <1>1, <1>2, FirstIsTask, ListTypes DEF GrantFirst
    <2>2. permits' \in Nat /\ list' \in Lists /\ has_waiters' \in BOOLEAN
      BY <1>1, <1>2, <2>1 DEF GrantFirst, TypeOK, Enough
    <2>3. /\ acquired' \in [Tasks -> BOOLEAN] /\ buf' \in [Threads -> SUBSET Tasks]
          /\ scheduled' \in [Tasks -> Nat]
      BY <1>1, <1>2, <2>1 DEF GrantFirst, TypeOK
    <2>4. TypeOK'
      BY <1>1, <1>2, <2>2, <2>3, ListTypes, <2>1
      DEF GrantFirst, TypeOK, Goes, outside, guarding
    <2>5. ASSUME NEW ot \in Threads PROVE ThreadInv(ot)'
      BY <1>1, <1>2 DEF GrantFirst, Granting, TypeOK, ThreadInv, Goes, Releasing
    <2> QED
      BY <2>4, <2>5 DEF TypeInv
  <1>3. ASSUME NEW th \in Threads, GrantEnds(th) PROVE TypeInv'
    <2>1. TypeOK'
      BY <1>1, <1>3 DEF GrantEnds, TypeOK, Goes, Outcome, semaphore, outside, guarding
    <2>2. ASSUME NEW ot \in Threads PROVE ThreadInv(ot)'
      BY <1>1, <1>3 DEF GrantEnds, Granting, Outcome, TypeOK, ThreadInv, Goes, Releasing
    <2> QED
      BY <2>1, <2>2 DEF TypeInv
  <1>4. ASSUME NEW th \in Workers, NEW t \in Tasks, Resume(th, t) PROVE TypeInv'
    <2>1. TypeOK'
      BY <1>1, <1>4 DEF Resume, TypeOK, Goes, Threads, semaphore, outside, guarding
    <2>2. ASSUME NEW ot \in Threads PROVE ThreadInv(ot)'
      BY <1>1, <1>4 DEF Resume, TypeOK, ThreadInv, Goes, Threads, Releasing
    <2> QED
      BY <2>1, <2>2 DEF TypeInv
  <1>5. ASSUME NEW th \in Threads, NEW t \in Tasks, t = doing[th], Acquiring(th, t)
        PROVE  TypeInv'
    <2>1. th \in Workers
      BY <1>1, <1>5 DEF ThreadInv, Threads
    <2>2. CASE TestScope(th, t) \/ Arm(th, t) \/ Disarm(th, t)
      <3>1. TypeOK'
        BY <1>1, <1>5, <2>2
        DEF TestScope, Arm, Disarm, TypeOK, Goes, Reaches, semaphore, outside, threads, guarding
      <3>2. ASSUME NEW ot \in Threads PROVE ThreadInv(ot)'
        BY <1>1, <1>5, <2>1, <2>2
        DEF TestScope, Arm, Disarm, TypeOK, Goes, ThreadInv, Releasing, threads
      <3> QED
        BY <3>1, <3>2 DEF TypeInv
    <2>3. CASE TryAcquire(th, t)
      <3>1. permits' \in Nat /\ acquired' \in [Tasks -> BOOLEAN]
        <4>1. Need[t] \in Nat /\ permits \in Nat /\ (Fits(Need[t]) => permits - Need[t] \in Nat)
          BY <1>1 DEF Fits, TypeOK
        <4> QED
          BY <1>1, <2>3, <4>1 DEF TryAcquire, TypeOK
      <3>2. at' \in [Threads -> {"disarm", "arm"} \union {at[ot] : ot \in Threads}]
        BY <1>1, <1>5, <2>3 DEF TryAcquire, TypeOK, Goes
      <3>3. TypeOK'
        BY <1>1, <1>5, <2>3, <3>1, <3>2 DEF TryAcquire, TypeOK, outside, guarding
      <3>4. ASSUME NEW ot \in Threads PROVE ThreadInv(ot)'
        BY <1>1, <1>5, <2>1, <2>3 DEF TryAcquire, TypeOK, Goes, ThreadInv, Releasing
      <3> QED
        BY <3>3, <3>4 DEF TypeInv
    <2>4. CASE Enqueue(th, t)
      <3>1. TypeOK'
        BY <1>1, <1>5, <2>4, ListTypes DEF Enqueue, TypeOK, Goes, outside, guarding
      <3>2. ASSUME NEW ot \in Threads PROVE ThreadInv(ot)'
        BY <1>1, <1>5, <2>1, <2>4 DEF Enqueue, TypeOK, Goes, ThreadInv, Releasing
      <3> QED
        BY <3>1, <3>2 DEF TypeInv
    <2>5. CASE TestCancelled(th, t) \/ Take(th, t)
      <3>1. TypeOK'
        BY <1>1, <1>5, <2>5
        DEF TestCancelled, Take, TypeOK, Goes, Stops, Reaches, semaphore, outside, guarding
      <3>2. ASSUME NEW ot \in Threads PROVE ThreadInv(ot)'
        BY <1>1, <1>5, <2>1, <2>5
        DEF TestCancelled, Take, TypeOK, Goes, Stops, ThreadInv, Releasing
      <3> QED
        BY <3>1, <3>2 DEF TypeInv
    <2> QED
      BY <1>5, <2>2, <2>3, <2>4, <2>5 DEF Acquiring
  <1>6. ASSUME NEW th \in Threads, \/ \E t \in Tasks : Wake(th, t)
                                   \/ GoOn(th) \/ TestWaiters(th) \/ Finish(th)
        PROVE  TypeInv'
    <2>1. TypeOK'
      BY <1>1, <1>6
      DEF Wake, GoOn, TestWaiters, Finish, TypeOK, Goes, Stops, semaphore, outside, guarding
    <2>2. ASSUME NEW ot \in Threads PROVE ThreadInv(ot)'
      BY <1>1, <1>6
      DEF Wake, GoOn, TestWaiters, Finish, TypeOK, Goes, Stops, ThreadInv, Releasing
    <2> QED
      BY <2>1, <2>2 DEF TypeInv
  <1>7. ASSUME NEW th \in Threads, AddPermits(th) PROVE TypeInv'
    <2>1. Amount(th) \in Nat
      BY <1>1, <1>7 DEF AddPermits, Amount, TypeOK, ThreadInv, Threads
    <2>2. TypeOK'
      BY <1>1, <1>7, <2>1 DEF AddPermits, TypeOK, Goes, guarding
    <2>3. ASSUME NEW ot \in Threads PROVE ThreadInv(ot)'
      BY <1>1, <1>7 DEF AddPermits, TypeOK, Goes, ThreadInv, Releasing
    <2> QED
      BY <2>2, <2>3 DEF TypeInv
  <1>8. ASSUME NEW th \in Visitors, TryMore(th) \/ Forget(th) PROVE TypeInv'
    <2>1. TypeOK'
      BY <1>1, <1>8
      DEF TryMore, Fits, Merged, Forget, TypeOK, Goes, Threads, semaphore, guarding, threads
    <2>2. ASSUME NEW ot \in Threads PROVE ThreadInv(ot)'
      BY <1>1, <1>8 DEF TryMore, Forget, TypeOK, Goes, Threads, ThreadInv, Releasing, threads
    <2> QED
      BY <2>1, <2>2 DEF TypeInv
  <1>9. ASSUME NEW t \in Tasks, Cancel(t) \/ CancelStep(t) PROVE TypeInv'
    <2>1. TypeOK'
      <3>1. UnlinkQueued(list, t) \in Lists
        BY <1>1, ListTypes
      <3>2. CASE Callback(t)
        <4>1. list' \in Lists /\ has_waiters' \in BOOLEAN /\ cancelled' \in [Tasks -> BOOLEAN]
          BY <1>1, <3>1, <3>2, ListTypes DEF Callback, Without, TypeOK
        <4>2. scope' \in [Tasks -> {"live", "firing", "waking", "unlocking", "done"}]
          BY <1>1, <3>2 DEF Callback, TypeOK
        <4> QED
          BY <1>1, <3>2, <4>1, <4>2, ListTypes DEF Callback, TypeOK, outside, threads
      <3>3. CASE Cancel(t) \/ CancelWakes(t) \/ CancelUnlock(t)
        BY <1>1, <3>3
        DEF Cancel, CancelWakes, CancelUnlock, TypeOK, semaphore, outside, threads
      <3> QED
        BY <1>9, <3>2, <3>3 DEF CancelStep
    <2>2. ASSUME NEW ot \in Threads PROVE ThreadInv(ot)'
      BY <1>1, <1>9
      DEF Cancel, CancelStep, Callback, CancelWakes, CancelUnlock, ThreadInv, threads
    <2> QED
      BY <2>1, <2>2 DEF TypeInv
  <1>10. CASE UNCHANGED vars
    BY <1>1, <1>10 DEF TypeInv, TypeOK, ThreadInv, vars, semaphore, outside, guarding, threads
  <1> QED
    BY <1>1, <1>2, <1>3, <1>4, <1>5, <1>6, <1>7, <1>8, <1>9, <1>10
    DEF Next, Step, ThreadInv, Threads, TypeOK

-----------------------------------------------------------------------------
(* The queue.                                                              *)

LineOK ==
    /\ list \in Lists
    /\ line \in Seq(Tasks)
    /\ QueueFaithful

LEMMA LineIsQueue ==
  ASSUME LineOK
  PROVE  line \in Seq(Nodes) /\ QueueOf(list, line) /\ Distinct(line)
  BY SemaphoreAssumption, RepresentsDistinct DEF LineOK, QueueFaithful, QueueOf

(* list.head is the head of the line.                                      *)
LEMMA HeadOfLine ==
  ASSUME LineOK
  PROVE  /\ list.head = Nil <=> line = <<>>
         /\ line # <<>> => /\ Len(line) \in Nat \ {0}
                           /\ list.head = line[1] /\ Head(line) = line[1]
                           /\ line[1] \in Tasks /\ line[1] \in ToSet(line)
  <1>1. line \in Seq(Tasks) /\ Represents(list, line) /\ Nodes = Tasks
    BY SemaphoreAssumption DEF LineOK, QueueFaithful
  <1>2. line = <<>> <=> Len(line) = 0
    BY <1>1, EmptySeq
  <1>3. CASE line = <<>>
    BY <1>1, <1>2, <1>3 DEF Represents
  <1>4. CASE line # <<>>
    <2>1. Len(line) \in Nat \ {0} /\ Head(line) = line[1] /\ line[1] \in Tasks
      BY <1>1, <1>4, HeadTailProperties
    <2>2. line[1] \in ToSet(line)
      BY <1>1, <2>1, ElementIndex
    <2> QED
      BY <1>1, <1>4, <2>1, <2>2, NilAssumption DEF Represents
  <1> QED
    BY <1>3, <1>4

LEMMA PositionInLine ==
  ASSUME LineOK, NEW k \in 1..Len(line)
  PROVE  Position(line[k]) = k
  <1>1. Distinct(line) /\ DOMAIN line = 1..Len(line)
    BY LineIsQueue
  <1>2. \A i \in DOMAIN line : line[i] = line[k] => i = k
    BY <1>1 DEF Distinct
  <1>3. k \in DOMAIN line /\ line[k] = line[k]
    BY <1>1
  <1> QED
    BY <1>2, <1>3 DEF Position

LEMMA LeavesLine ==
  ASSUME LineOK, NEW t \in ToSet(line)
  PROVE  /\ LineWithout(t) \in Seq(Tasks)
         /\ QueueOf(UnlinkQueued(list, t), LineWithout(t))
         /\ ToSet(LineWithout(t)) = ToSet(line) \ {t}
         /\ UnlinkQueued(list, t).head # Nil <=> LineWithout(t) # <<>>
         /\ t # Head(line) => LineWithout(t) # <<>> /\ Head(LineWithout(t)) = Head(line)
  <1>1. /\ line \in Seq(Nodes) /\ QueueOf(list, line) /\ Distinct(line) /\ Nodes = Tasks
        /\ list \in Lists
    BY LineIsQueue, SemaphoreAssumption DEF LineOK
  <1>2. PICK k \in 1..Len(line) : line[k] = t
    BY <1>1, ElementIndex
  <1> DEFINE r == RemoveAt(line, k)
             l == UnlinkQueued(list, t)
  <1>3. LineWithout(t) = r
    BY <1>2, PositionInLine DEF LineWithout
  <1>4. /\ r \in Seq(Nodes) /\ Len(r) = Len(line) - 1
        /\ \A i \in 1..(Len(line) - 1) : r[i] = IF i < k THEN line[i] ELSE line[i + 1]
    BY <1>1, RemoveAtIndex
  <1>5. ToSet(r) = ToSet(line) \ {t}
    BY <1>1, <1>2, RemoveAtSet
  <1>6. QueueOf(l, r)
    BY <1>1, <1>2, UnlinkQueue
  <1> HIDE DEF r, l
  <1>7. l.head # Nil <=> r # <<>>
    <2>1. r = <<>> <=> Len(r) = 0
      BY <1>4, EmptySeq
    <2>2. Len(r) # 0 => r[1] # Nil
      BY <1>4, ElementOfSeq, NilAssumption
    <2> QED
      BY <1>6, <2>1, <2>2 DEF QueueOf, Represents
  <1>8. ASSUME t # Head(line) PROVE r # <<>> /\ Head(r) = Head(line)
    <2>1. Head(line) = line[1]
      OBVIOUS
    <2>2. k \in 2..Len(line)
      BY <1>2, <1>8, <2>1
    <2>3. Len(r) # 0 /\ r[1] = line[1]
      BY <1>4, <2>2
    <2> QED
      BY <1>4, <2>1, <2>3, EmptySeq
  <1> QED
    BY <1>1, <1>3, <1>4, <1>5, <1>6, <1>7, <1>8 DEF l

LEMMA JoinsLine ==
  ASSUME LineOK, NEW t \in Tasks, t \notin ToSet(line)
  PROVE  /\ Append(line, t) \in Seq(Tasks)
         /\ QueueOf(LinkTail(list, t), Append(line, t))
         /\ ToSet(Append(line, t)) = ToSet(line) \union {t}
         /\ Append(line, t) # <<>>
  <1>1. line \in Seq(Nodes) /\ QueueOf(list, line) /\ Nodes = Tasks /\ list \in Lists
    BY LineIsQueue, SemaphoreAssumption DEF LineOK
  <1> QED
    BY <1>1, LinkTailQueue, AppendSet

-----------------------------------------------------------------------------
(* What one step changes.  A step leaves task u alone, ...                 *)

Same(u) ==
    /\ scheduled'[u] = scheduled[u] /\ scope'[u] = scope[u] /\ guard'[u] = guard[u]
    /\ stage'[u] = stage[u] /\ acquired'[u] = acquired[u] /\ cancelled'[u] = cancelled[u]
    /\ u \in ToSet(line') <=> u \in ToSet(line)
    /\ \A th \in Threads : /\ u \in buf'[th] <=> u \in buf[th]
                           /\ doing'[th] = u <=> doing[th] = u
                           /\ doing[th] = u => at'[th] = at[th]

LEMMA SameTask ==
  ASSUME NEW u \in Tasks, TaskInv(u), Same(u)
  PROVE  TaskInv(u)'
  <1> USE DEF Same, Threads
  <1>1. OnePlace(u)'
    BY DEF TaskInv, OnePlace, Runs
  <1>2. InLine(u)'
    BY DEF TaskInv, InLine, Asleep, Runs
  <1>3. Guarded(u)'
    BY DEF TaskInv, Guarded
  <1>4. Staged(u)'
    BY DEF TaskInv, Staged, Suspends
  <1>5. ASSUME NEW th \in Threads PROVE Running(th, u)'
    BY DEF TaskInv, Running, Asleep, Runs
  <1> QED
    BY <1>1, <1>2, <1>3, <1>4, <1>5 DEF TaskInv

LEMMA TasksKeep ==
  ASSUME \A u \in Tasks : TaskInv(u), NEW t \in Tasks, TaskInv(t)',
         \A u \in Tasks \ {t} : Same(u)
  PROVE  (\A u \in Tasks : TaskInv(u))'
  <1> SUFFICES ASSUME NEW u \in Tasks PROVE TaskInv(u)'
    OBVIOUS
  <1>1. CASE u = t
    BY <1>1
  <1>2. CASE u # t
    BY <1>2, SameTask
  <1> QED
    BY <1>1, <1>2

LEMMA Parts ==
  ASSUME IInv
  PROVE  /\ TypeOK /\ LineOK /\ OneHolder
         /\ \A th \in Threads : ThreadInv(th)
         /\ \A t \in Tasks : TaskInv(t)
         /\ Workers \subseteq Threads /\ Visitors \subseteq Threads
         /\ \A th \in Visitors : th \notin Workers
  BY SemaphoreAssumption, ListTypes DEF IInv, TypeInv, LineOK, Threads, TypeOK, Lists

LEMMA Together ==
  ASSUME TypeInv', line' \in Seq(Tasks), QueueFaithful', OneHolder',
         (\A t \in Tasks : TaskInv(t))'
  PROVE  IInv'
  BY DEF IInv

(* ... or it is a step of the worker that runs or suspends it.             *)
LEMMA TestScopeInv ==
  ASSUME IInv, TypeInv', NEW th \in Workers, NEW t \in Tasks, doing[th] = t, TestScope(th, t)
  PROVE  IInv'
  <1>1. TypeOK /\ th \in Threads /\ TaskInv(t) /\ OneHolder
    BY Parts
  <1>2. /\ at[th] = "ready" /\ at'[th] \in {"disarm", "try"}
        /\ \A ot \in Threads \ {th} : at'[ot] = at[ot]
        /\ UNCHANGED <<semaphore, outside, guarding, stage, scheduled, doing, buf>>
    BY <1>1 DEF TestScope, Goes, TypeOK
  <1>3. OneHolder'
    BY <1>1, <1>2 DEF OneHolder, Holding
  <1>4. line' \in Seq(Tasks) /\ QueueFaithful'
    BY <1>2 DEF IInv, QueueFaithful, semaphore
  <1>5. \A u \in Tasks \ {t} : Same(u)
    BY <1>1, <1>2 DEF Same, semaphore, guarding
  <1>6. TaskInv(t)'
    <2>1. OnePlace(t)'
      BY <1>1, <1>2 DEF TaskInv, OnePlace, Runs, Suspending, guarding
    <2>2. InLine(t)'
      BY <1>1, <1>2 DEF TaskInv, InLine, Asleep, Runs, Suspending, semaphore, guarding
    <2>3. Guarded(t)'
      BY <1>1, <1>2 DEF TaskInv, Guarded, semaphore, guarding, Threads
    <2>4. Staged(t)'
      BY <1>1, <1>2 DEF TaskInv, Staged, Suspends, Suspending, semaphore, guarding
    <2>5. \A ot \in Threads : Running(ot, t)'
      BY <1>1, <1>2
      DEF TaskInv, Running, Asleep, Runs, Suspending, Releasing, semaphore, guarding
    <2> QED
      BY <2>1, <2>2, <2>3, <2>4, <2>5 DEF TaskInv
  <1> QED
    BY <1>3, <1>4, <1>5, <1>6, Parts, TasksKeep, Together

LEMMA ArmInv ==
  ASSUME IInv, TypeInv', NEW th \in Workers, NEW t \in Tasks, doing[th] = t, Arm(th, t)
  PROVE  IInv'
  <1>1. TypeOK /\ th \in Threads /\ TaskInv(t) /\ OneHolder
    BY Parts
  <1>2. /\ at[th] = "arm"
        /\ \/ at'[th] = "disarm" /\ guard'[t] = guard[t]
           \/ at'[th] = "enqueue" /\ guard'[t] = "armed" /\ scope[t] = "live"
        /\ stage'[t] = "awaiting" /\ scope[t] \in {"live", "done"}
        /\ \A ot \in Threads \ {th} : at'[ot] = at[ot]
        /\ \A u \in Tasks \ {t} : guard'[u] = guard[u] /\ stage'[u] = stage[u]
        /\ UNCHANGED <<semaphore, outside, scope, scheduled, doing, buf>>
    BY <1>1 DEF Arm, Goes, Reaches, TypeOK, ScopeFree, Requested
  <1>3. OneHolder'
    BY <1>1, <1>2 DEF OneHolder, Holding
  <1>4. line' \in Seq(Tasks) /\ QueueFaithful'
    BY <1>2 DEF IInv, QueueFaithful, semaphore
  <1>5. \A u \in Tasks \ {t} : Same(u)
    BY <1>1, <1>2 DEF Same, semaphore
  <1>6. TaskInv(t)'
    <2>0. /\ stage[t] = "new" /\ ~acquired[t] /\ ~cancelled[t] /\ t \notin ToSet(line)
          /\ guard[t] = "idle" /\ scheduled[t] = 0
          /\ \A ot \in Threads : t \notin buf[ot] /\ ~Suspends(ot, t) /\ (Runs(ot, t) => ot = th)
      BY <1>1, <1>2
      DEF TaskInv, OnePlace, InLine, Asleep, Staged, Running, Runs, Suspends, Suspending
    <2>1. OnePlace(t)'
      BY <1>1, <1>2 DEF TaskInv, OnePlace, Runs, Suspending
    <2>2. InLine(t)'
      BY <1>2, <2>0 DEF InLine, semaphore
    <2>3. Guarded(t)'
      BY <1>1, <1>2, <2>0 DEF TaskInv, Guarded, semaphore
    <2>4. Staged(t)'
      BY <1>1, <1>2, <2>0 DEF TaskInv, Staged, Suspends, Suspending
    <2>5. ASSUME NEW ot \in Threads, doing'[ot] = t PROVE ot = th
      BY <1>2, <2>0, <2>5 DEF Runs, Suspends
    <2>6. Running(th, t)'
      BY <1>2, <2>0, <2>5, <1>1 DEF Running, Asleep, Runs, Suspending, Releasing, semaphore
    <2>7. \A ot \in Threads : Running(ot, t)'
      BY <2>5, <2>6 DEF Running
    <2> QED
      BY <2>1, <2>2, <2>3, <2>4, <2>7 DEF TaskInv
  <1> QED
    BY <1>3, <1>4, <1>5, <1>6, Parts, TasksKeep, Together

LEMMA DisarmInv ==
  ASSUME IInv, TypeInv', NEW th \in Workers, NEW t \in Tasks, doing[th] = t, Disarm(th, t)
  PROVE  IInv'
  <1>1. TypeOK /\ th \in Threads /\ TaskInv(t) /\ OneHolder
    BY Parts
  <1>2. /\ at[th] = "disarm" /\ at'[th] = "take" /\ scope[t] \in {"live", "done"}
        /\ guard'[t] = IF guard[t] = "armed" THEN "disarmed" ELSE guard[t]
        /\ \A ot \in Threads \ {th} : at'[ot] = at[ot]
        /\ \A u \in Tasks \ {t} : guard'[u] = guard[u]
        /\ UNCHANGED <<semaphore, outside, scope, stage, scheduled, doing, buf>>
    BY <1>1 DEF Disarm, Goes, TypeOK, ScopeFree
  <1>3. OneHolder'
    BY <1>1, <1>2 DEF OneHolder, Holding
  <1>4. line' \in Seq(Tasks) /\ QueueFaithful'
    BY <1>2 DEF IInv, QueueFaithful, semaphore
  <1>5. \A u \in Tasks \ {t} : Same(u)
    BY <1>1, <1>2 DEF Same, semaphore
  <1>6. TaskInv(t)'
    <2>1. OnePlace(t)'
      BY <1>1, <1>2 DEF TaskInv, OnePlace, Runs, Suspending
    <2>2. InLine(t)'
      BY <1>1, <1>2 DEF TaskInv, InLine, Asleep, Runs, Suspending, semaphore
    <2>3. Guarded(t)'
      BY <1>1, <1>2 DEF TaskInv, Guarded, semaphore, Threads
    <2>4. Staged(t)'
      BY <1>1, <1>2 DEF TaskInv, Staged, Suspends, Suspending, semaphore
    <2>5. \A ot \in Threads : Running(ot, t)'
      BY <1>1, <1>2 DEF TaskInv, Running, Asleep, Runs, Suspending, Releasing, semaphore
    <2> QED
      BY <2>1, <2>2, <2>3, <2>4, <2>5 DEF TaskInv
  <1> QED
    BY <1>3, <1>4, <1>5, <1>6, Parts, TasksKeep, Together

LEMMA TryAcquireInv ==
  ASSUME IInv, TypeInv', NEW th \in Workers, NEW t \in Tasks, doing[th] = t, TryAcquire(th, t)
  PROVE  IInv'
  <1>1. TypeOK /\ th \in Threads /\ TaskInv(t) /\ OneHolder
    BY Parts
  <1>2. /\ at[th] = "try"
        /\ \/ at'[th] = "disarm" /\ acquired'[t] = TRUE
           \/ at'[th] = "arm" /\ acquired'[t] = acquired[t]
        /\ \A ot \in Threads \ {th} : at'[ot] = at[ot]
        /\ \A u \in Tasks \ {t} : acquired'[u] = acquired[u]
        /\ UNCHANGED <<has_waiters, list, cancelled, line, outside, guarding, stage, scheduled,
                       doing, buf>>
    BY <1>1 DEF TryAcquire, Goes, TypeOK
  <1>3. OneHolder'
    BY <1>1, <1>2 DEF OneHolder, Holding
  <1>4. line' \in Seq(Tasks) /\ QueueFaithful'
    BY <1>2 DEF IInv, QueueFaithful
  <1>5. \A u \in Tasks \ {t} : Same(u)
    BY <1>1, <1>2 DEF Same, guarding
  <1>6. TaskInv(t)'
    <2>0. /\ stage[t] = "new" /\ t \notin ToSet(line) /\ scheduled[t] = 0
          /\ \A ot \in Threads : ~Suspends(ot, t) /\ (Runs(ot, t) => ot = th)
      BY <1>1, <1>2
      DEF TaskInv, OnePlace, InLine, Asleep, Staged, Running, Runs, Suspends, Suspending
    <2>1. OnePlace(t)'
      BY <1>1, <1>2 DEF TaskInv, OnePlace, Runs, Suspending, guarding
    <2>2. InLine(t)'
      BY <1>2, <2>0 DEF InLine
    <2>3. Guarded(t)'
      BY <1>1, <1>2, <2>0 DEF TaskInv, Guarded, Staged, guarding
    <2>4. Staged(t)'
      BY <1>1, <1>2, <2>0 DEF TaskInv, Staged, Suspends, Suspending, guarding
    <2>5. ASSUME NEW ot \in Threads, doing'[ot] = t PROVE ot = th
      BY <1>2, <2>0, <2>5 DEF Runs, Suspends
    <2>6. Running(th, t)'
      BY <1>1, <1>2, <2>0 DEF TaskInv, Running, Releasing, guarding
    <2>7. \A ot \in Threads : Running(ot, t)'
      BY <2>5, <2>6 DEF Running
    <2> QED
      BY <2>1, <2>2, <2>3, <2>4, <2>7 DEF TaskInv
  <1> QED
    BY <1>3, <1>4, <1>5, <1>6, Parts, TasksKeep, Together

LEMMA EnqueueInv ==
  ASSUME IInv, TypeInv', NEW th \in Workers, NEW t \in Tasks, doing[th] = t, Enqueue(th, t)
  PROVE  IInv'
  <1>1. TypeOK /\ th \in Threads /\ TaskInv(t) /\ OneHolder /\ LineOK
    BY Parts
  <1>2. /\ at[th] = "enqueue" /\ at'[th] = "linked"
        /\ \A ot \in Threads : at[ot] \notin Holding
        /\ \A ot \in Threads \ {th} : at'[ot] = at[ot]
        /\ UNCHANGED <<permits, acquired, cancelled, outside, guarding, stage, scheduled,
                       doing, buf>>
    BY <1>1 DEF Enqueue, Goes, TypeOK, Unlocked, Holding
  <1>3. OneHolder'
    BY <1>2 DEF OneHolder
  <1>4. /\ t \notin ToSet(line) /\ ~cancelled[t] /\ ~acquired[t] /\ stage[t] = "awaiting"
        /\ scope[t] = "live" /\ Asleep(t)
    BY <1>1, <1>2 DEF TaskInv, Running, Guarded
  <1>5. /\ line' \in Seq(Tasks)
        /\ QueueOf(list', line')
        /\ ToSet(line') = ToSet(line) \union {t}
        /\ line' # <<>> /\ has_waiters' = TRUE
    BY <1>1, <1>4, JoinsLine DEF Enqueue
  <1>6. QueueFaithful'
    BY <1>5 DEF QueueFaithful, QueueOf
  <1>7. \A u \in Tasks \ {t} : Same(u)
    BY <1>1, <1>2, <1>5 DEF Same, guarding
  <1>8. TaskInv(t)'
    <2>1. OnePlace(t)'
      BY <1>1, <1>2 DEF TaskInv, OnePlace, Runs, Suspending, guarding
    <2>2. InLine(t)'
      BY <1>2, <1>4 DEF InLine, Asleep, Runs, Suspending, guarding
    <2>3. Guarded(t)'
      BY <1>1, <1>2, <1>5 DEF TaskInv, Guarded, guarding
    <2>4. Staged(t)'
      BY <1>1, <1>2, <1>4 DEF TaskInv, Staged, Suspends, Suspending, guarding
    <2>5. ASSUME NEW ot \in Threads, ot # th PROVE Running(ot, t)'
      <3>1. doing[ot] = t => at[ot] \in Suspending
        BY <1>4 DEF Asleep, Runs
      <3>2. doing[ot] = t => ot = th
        BY <1>1, <1>2, <3>1 DEF TaskInv, Staged, Suspends, Suspending
      <3> QED
        BY <1>2, <2>5, <3>2 DEF Running
    <2>6. Running(th, t)'
      BY <1>2, <1>4, <1>5 DEF Running, Asleep, Runs, Suspending, Releasing, guarding
    <2> QED
      BY <2>1, <2>2, <2>3, <2>4, <2>5, <2>6 DEF TaskInv
  <1> QED
    BY <1>3, <1>5, <1>6, <1>7, <1>8, Parts, TasksKeep, Together

LEMMA TestCancelledInv ==
  ASSUME IInv, TypeInv', Quiet, NEW th \in Workers, NEW t \in Tasks, doing[th] = t,
         TestCancelled(th, t)
  PROVE  IInv'
  <1>1. TypeOK /\ th \in Threads /\ TaskInv(t) /\ OneHolder /\ NoTask \notin Tasks
    BY Parts, SemaphoreAssumption
  <1>2. at[th] = "queued" /\ ~cancelled[t]
    BY <1>1 DEF TestCancelled, TaskInv, Running, Guarded
  <1>3. /\ at'[th] = "idle" /\ doing'[th] = NoTask
        /\ \A ot \in Threads \ {th} : at'[ot] = at[ot] /\ doing'[ot] = doing[ot]
        /\ UNCHANGED <<semaphore, outside, guarding, stage, scheduled, buf>>
    BY <1>1, <1>2 DEF TestCancelled, Quiet, Stops, Goes, TypeOK
  <1>4. OneHolder'
    BY <1>1, <1>3 DEF OneHolder, Holding
  <1>5. line' \in Seq(Tasks) /\ QueueFaithful'
    BY <1>3 DEF IInv, QueueFaithful, semaphore
  <1>6. \A u \in Tasks \ {t} : Same(u)
    BY <1>1, <1>3 DEF Same, semaphore, guarding
  <1>7. TaskInv(t)'
    <2>1. OnePlace(t)'
      BY <1>1, <1>3 DEF TaskInv, OnePlace, Runs, Suspending, guarding
    <2>2. InLine(t)'
      BY <1>1, <1>3 DEF TaskInv, InLine, Asleep, Runs, Suspending, semaphore, guarding
    <2>3. Guarded(t)'
      BY <1>1, <1>2, <1>3 DEF TaskInv, Guarded, semaphore, guarding, Threads
    <2>4. Staged(t)'
      BY <1>1, <1>3 DEF TaskInv, Staged, Suspends, Suspending, semaphore, guarding
    <2>5. \A ot \in Threads : Running(ot, t)'
      BY <1>1, <1>3
      DEF TaskInv, Running, Asleep, Runs, Suspending, Releasing, semaphore, guarding
    <2> QED
      BY <2>1, <2>2, <2>3, <2>4, <2>5 DEF TaskInv
  <1> QED
    BY <1>4, <1>5, <1>6, <1>7, Parts, TasksKeep, Together

LEMMA TakeInv ==
  ASSUME IInv, TypeInv', NEW th \in Workers, NEW t \in Tasks, doing[th] = t, Take(th, t)
  PROVE  IInv'
  <1>1. TypeOK /\ th \in Threads /\ TaskInv(t) /\ OneHolder /\ NoTask \notin Tasks
    BY Parts, SemaphoreAssumption
  <1>2. /\ at[th] = "take"
        /\ \/ /\ acquired[t] /\ stage'[t] = "holding"
              /\ at'[th] = "release" /\ doing'[th] = t
           \/ /\ ~acquired[t] /\ stage'[t] = "done"
              /\ at'[th] = "idle" /\ doing'[th] = NoTask
        /\ \A ot \in Threads \ {th} : at'[ot] = at[ot] /\ doing'[ot] = doing[ot]
        /\ \A u \in Tasks \ {t} : stage'[u] = stage[u]
        /\ UNCHANGED <<semaphore, outside, guarding, scheduled, buf>>
    BY <1>1 DEF Take, Reaches, Stops, Goes, TypeOK
  <1>3. OneHolder'
    BY <1>1, <1>2 DEF OneHolder, Holding
  <1>4. line' \in Seq(Tasks) /\ QueueFaithful'
    BY <1>2 DEF IInv, QueueFaithful, semaphore
  <1>5. \A u \in Tasks \ {t} : Same(u)
    BY <1>1, <1>2 DEF Same, semaphore, guarding
  <1>6. TaskInv(t)'
    <2>0. /\ t \notin ToSet(line) /\ scheduled[t] = 0 /\ scope[t] # "waking"
          /\ \A ot \in Threads : t \notin buf[ot] /\ (Runs(ot, t) => ot = th)
          /\ \A ot \in Threads : doing[ot] = t /\ ot # th => at[ot] = "queued"
      BY <1>1, <1>2 DEF TaskInv, OnePlace, InLine, Asleep, Running, Runs, Suspending
    <2>1. OnePlace(t)'
      BY <1>1, <1>2 DEF TaskInv, OnePlace, Runs, Suspending, guarding
    <2>2. InLine(t)'
      BY <1>2, <2>0 DEF InLine, semaphore
    <2>3. Guarded(t)'
      BY <1>1, <1>2, <2>0 DEF TaskInv, Guarded, semaphore, guarding, Threads
    <2>4. Staged(t)'
      BY <1>1, <1>2, <2>0 DEF TaskInv, Staged, Suspends, Suspending, semaphore, guarding
    <2>5. Running(th, t)'
      BY <1>1, <1>2, <2>0 DEF Running, Releasing, semaphore
    <2>6. ASSUME NEW ot \in Threads, ot # th PROVE Running(ot, t)'
      BY <1>1, <1>2, <2>0, <2>6 DEF TaskInv, Running, Releasing, semaphore, guarding
    <2> QED
      BY <2>1, <2>2, <2>3, <2>4, <2>5, <2>6 DEF TaskInv
  <1> QED
    BY <1>3, <1>4, <1>5, <1>6, Parts, TasksKeep, Together

LEMMA ResumeInv ==
  ASSUME IInv, TypeInv', NEW th \in Workers, NEW t \in Tasks, Resume(th, t)
  PROVE  IInv'
  <1>1. TypeOK /\ th \in Threads /\ TaskInv(t) /\ OneHolder /\ NoTask \notin Tasks
    BY Parts, SemaphoreAssumption
  <1>2. /\ at[th] = "idle" /\ doing[th] = NoTask /\ doing'[th] = t
        /\ scheduled[t] = 1 /\ scheduled'[t] = 0
        /\ at'[th] = IF stage[t] = "new" THEN "ready" ELSE "disarm"
        /\ \A ot \in Threads \ {th} : at'[ot] = at[ot] /\ doing'[ot] = doing[ot]
        /\ \A u \in Tasks \ {t} : scheduled'[u] = scheduled[u]
        /\ UNCHANGED <<semaphore, outside, guarding, stage, buf>>
    <2>1. at[th] = "idle" /\ doing[th] = NoTask
      BY <1>1, Parts DEF Resume, ThreadInv
    <2>2. scheduled[t] = 1
      BY <1>1 DEF Resume, TaskInv, OnePlace
    <2> QED
      BY <1>1, <2>1, <2>2 DEF Resume, Goes, TypeOK
  <1>3. OneHolder'
    BY <1>1, <1>2 DEF OneHolder, Holding
  <1>4. line' \in Seq(Tasks) /\ QueueFaithful'
    BY <1>2 DEF IInv, QueueFaithful, semaphore
  <1>5. \A u \in Tasks \ {t} : Same(u)
    BY <1>1, <1>2 DEF Same, semaphore, guarding
  <1>6. TaskInv(t)'
    <2>0. /\ t \notin ToSet(line) /\ scope[t] # "waking" /\ stage[t] \in {"new", "awaiting"}
          /\ stage[t] = "new" => ~acquired[t]
          /\ \A ot \in Threads : t \notin buf[ot] /\ ~Runs(ot, t)
          /\ \A ot \in Threads : doing[ot] = t => at[ot] = "queued"
      BY <1>1, <1>2 DEF TaskInv, OnePlace, InLine, Asleep, Staged, Running, Runs, Suspending
    <2>1. OnePlace(t)'
      BY <1>1, <1>2, <2>0 DEF OnePlace, Runs, Suspending, guarding
    <2>2. InLine(t)'
      BY <1>2, <2>0 DEF InLine, semaphore
    <2>3. Guarded(t)'
      BY <1>1, <1>2, <2>0 DEF TaskInv, Guarded, semaphore, guarding, Threads
    <2>4. Staged(t)'
      BY <1>1, <1>2, <2>0 DEF TaskInv, Staged, Suspends, Suspending, semaphore, guarding
    <2>5. Running(th, t)'
      BY <1>1, <1>2, <2>0 DEF Running, Releasing, semaphore
    <2>6. ASSUME NEW ot \in Threads, ot # th PROVE Running(ot, t)'
      BY <1>1, <1>2, <2>0, <2>6 DEF TaskInv, Running, Releasing, semaphore, guarding
    <2> QED
      BY <2>1, <2>2, <2>3, <2>4, <2>5, <2>6 DEF TaskInv
  <1> QED
    BY <1>3, <1>4, <1>5, <1>6, Parts, TasksKeep, Together

(* A handle goes from the buffer to the run queue.                         *)
LEMMA WakeInv ==
  ASSUME IInv, TypeInv', NEW th \in Threads, NEW t \in Tasks, Wake(th, t)
  PROVE  IInv'
  <1>1. TypeOK /\ TaskInv(t) /\ OneHolder
    BY Parts
  <1>2. /\ t \in buf[th] /\ scheduled[t] = 0 /\ scheduled'[t] = 1
        /\ \A ot \in Threads : buf'[ot] = buf[ot] \ {t}
        /\ \A u \in Tasks \ {t} : scheduled'[u] = scheduled[u]
        /\ UNCHANGED <<semaphore, outside, guarding, stage, at, doing>>
    <2>1. t \in buf[th] /\ \A ot \in Threads : t \in buf[ot] => ot = th
      BY <1>1 DEF Wake, TaskInv, OnePlace
    <2>2. scheduled[t] = 0
      BY <1>1, <2>1 DEF TaskInv, OnePlace
    <2> QED
      BY <1>1, <2>1, <2>2 DEF Wake, TypeOK
  <1>3. OneHolder'
    BY <1>1, <1>2 DEF OneHolder
  <1>4. line' \in Seq(Tasks) /\ QueueFaithful'
    BY <1>2 DEF IInv, QueueFaithful, semaphore
  <1>5. \A u \in Tasks \ {t} : Same(u)
    BY <1>1, <1>2 DEF Same, semaphore, guarding
  <1>6. TaskInv(t)'
    <2>0. /\ t \notin ToSet(line) /\ scope[t] # "waking" /\ stage[t] = "awaiting"
          /\ \A ot \in Threads : ~Runs(ot, t)
          /\ \A ot \in Threads : doing[ot] = t => at[ot] = "queued"
      BY <1>1, <1>2 DEF TaskInv, OnePlace, InLine, Asleep, Staged, Running, Runs, Suspending
    <2>1. OnePlace(t)'
      BY <1>1, <1>2, <2>0 DEF OnePlace, Runs, Suspending, guarding
    <2>2. InLine(t)'
      BY <1>2, <2>0 DEF InLine, semaphore
    <2>3. Guarded(t)'
      BY <1>1, <1>2 DEF TaskInv, Guarded, semaphore, guarding
    <2>4. Staged(t)'
      BY <1>1, <1>2, <2>0 DEF TaskInv, Staged, Suspends, Suspending, semaphore, guarding
    <2>5. \A ot \in Threads : Running(ot, t)'
      BY <1>1, <1>2, <2>0 DEF TaskInv, Running, Releasing, semaphore, guarding
    <2> QED
      BY <2>1, <2>2, <2>3, <2>4, <2>5 DEF TaskInv
  <1> QED
    BY <1>3, <1>4, <1>5, <1>6, Parts, TasksKeep, Together

LEMMA GoOnInv ==
  ASSUME IInv, TypeInv', NEW th \in Threads, GoOn(th)
  PROVE  IInv'
  <1>1. TypeOK /\ OneHolder /\ \A u \in Tasks : TaskInv(u)
    BY Parts
  <1>2. /\ at[th] = "granted" /\ at'[th] = "disarm"
        /\ \A ot \in Threads \ {th} : at'[ot] = at[ot]
        /\ UNCHANGED <<semaphore, outside, guarding, stage, scheduled, doing, buf>>
    BY <1>1 DEF GoOn, Goes, TypeOK
  <1>3. OneHolder'
    BY <1>1, <1>2 DEF OneHolder, Holding
  <1>4. line' \in Seq(Tasks) /\ QueueFaithful'
    BY <1>2 DEF IInv, QueueFaithful, semaphore
  <1>5. ASSUME NEW t \in Tasks PROVE TaskInv(t)'
    <2>1. OnePlace(t)'
      BY <1>1, <1>2 DEF TaskInv, OnePlace, Runs, Suspending, guarding
    <2>2. InLine(t)'
      BY <1>1, <1>2 DEF TaskInv, InLine, Asleep, Runs, Suspending, semaphore, guarding
    <2>3. Guarded(t)'
      BY <1>1, <1>2 DEF TaskInv, Guarded, semaphore, guarding, Threads
    <2>4. Staged(t)'
      BY <1>1, <1>2 DEF TaskInv, Staged, Suspends, Suspending, semaphore, guarding
    <2>5. \A ot \in Threads : Running(ot, t)'
      BY <1>1, <1>2
      DEF TaskInv, Running, Asleep, Runs, Suspending, Releasing, semaphore, guarding
    <2> QED
      BY <2>1, <2>2, <2>3, <2>4, <2>5 DEF TaskInv
  <1> QED
    BY <1>3, <1>4, <1>5, Together

(* A release that stops, in a task that has ended.                         *)
LEMMA ReleaseStepInv ==
  ASSUME IInv, TypeInv', NEW th \in Threads, TestWaiters(th) \/ Finish(th)
  PROVE  IInv'
  <1>1. TypeOK /\ OneHolder /\ NoTask \notin Tasks /\ \A u \in Tasks : TaskInv(u)
    BY Parts, SemaphoreAssumption
  <1>2. /\ at[th] \in {"notify", "waking"}
        /\ \/ at'[th] = "grant" /\ doing'[th] = doing[th]
           \/ at'[th] \in {"idle", "stopped"} /\ doing'[th] = NoTask
        /\ \A ot \in Threads \ {th} : at'[ot] = at[ot] /\ doing'[ot] = doing[ot]
        /\ UNCHANGED <<semaphore, outside, guarding, stage, scheduled, buf>>
    BY <1>1 DEF TestWaiters, Finish, Stops, Goes, TypeOK
  <1>3. OneHolder'
    BY <1>1, <1>2 DEF OneHolder, Holding
  <1>4. line' \in Seq(Tasks) /\ QueueFaithful'
    BY <1>2 DEF IInv, QueueFaithful, semaphore
  <1>5. ASSUME NEW t \in Tasks PROVE TaskInv(t)'
    <2>1. OnePlace(t)'
      BY <1>1, <1>2 DEF TaskInv, OnePlace, Runs, Suspending, guarding
    <2>2. InLine(t)'
      BY <1>1, <1>2 DEF TaskInv, InLine, Asleep, Runs, Suspending, semaphore, guarding
    <2>3. Guarded(t)'
      BY <1>1, <1>2 DEF TaskInv, Guarded, semaphore, guarding, Threads
    <2>4. Staged(t)'
      BY <1>1, <1>2 DEF TaskInv, Staged, Suspends, Suspending, semaphore, guarding
    <2>5. \A ot \in Threads : Running(ot, t)'
      BY <1>1, <1>2
      DEF TaskInv, Running, Asleep, Runs, Suspending, Releasing, semaphore, guarding
    <2> QED
      BY <2>1, <2>2, <2>3, <2>4, <2>5 DEF TaskInv
  <1> QED
    BY <1>3, <1>4, <1>5, Together

LEMMA AddPermitsInv ==
  ASSUME IInv, TypeInv', NEW th \in Threads, AddPermits(th)
  PROVE  IInv'
  <1>1. TypeOK /\ OneHolder /\ \A u \in Tasks : TaskInv(u)
    BY Parts
  <1>2. /\ at[th] \in {"release", "outside"} /\ at'[th] = "notify"
        /\ \A u \in Tasks : stage'[u] = IF u = doing[th] THEN "done" ELSE stage[u]
        /\ \A ot \in Threads \ {th} : at'[ot] = at[ot]
        /\ UNCHANGED <<has_waiters, list, acquired, cancelled, line, guarding, scheduled,
                       doing, buf>>
    BY <1>1 DEF AddPermits, Goes, TypeOK
  <1>3. OneHolder'
    BY <1>1, <1>2 DEF OneHolder, Holding
  <1>4. line' \in Seq(Tasks) /\ QueueFaithful'
    BY <1>2 DEF IInv, QueueFaithful
  <1>5. ASSUME NEW t \in Tasks, doing[th] # t PROVE TaskInv(t)'
    <2>1. Same(t)
      BY <1>2, <1>5 DEF Same, guarding
    <2> QED
      BY <1>1, <2>1, SameTask
  <1>6. ASSUME NEW t \in Tasks, doing[th] = t PROVE TaskInv(t)'
    <2>0. /\ t \notin ToSet(line) /\ scheduled[t] = 0 /\ scope[t] # "waking"
          /\ stage[t] = "holding"
          /\ \A ot \in Threads : t \notin buf[ot] /\ (Runs(ot, t) => ot = th)
          /\ \A ot \in Threads : doing[ot] = t /\ ot # th => at[ot] = "queued"
      <3>1. stage[t] = "holding" /\ Runs(th, t)
        <4>1. at[th] = "release"
          BY <1>2, <1>6, Parts, SemaphoreAssumption DEF ThreadInv, Threads
        <4> QED
          BY <1>1, <1>6, <4>1 DEF TaskInv, Running, Runs, Suspending
      <3> QED
        BY <1>1, <3>1 DEF TaskInv, OnePlace, InLine, Asleep, Running, Runs, Suspending
    <2>1. OnePlace(t)'
      BY <1>1, <1>2 DEF TaskInv, OnePlace, Runs, Suspending, guarding
    <2>2. InLine(t)'
      BY <1>2, <2>0 DEF InLine
    <2>3. Guarded(t)'
      BY <1>1, <1>2, <2>0 DEF TaskInv, Guarded, guarding, Threads
    <2>4. Staged(t)'
      BY <1>1, <1>2, <1>6, <2>0 DEF TaskInv, Staged, Suspends, Suspending, guarding
    <2>5. Running(th, t)'
      BY <1>2, <1>6 DEF Running, Releasing
    <2>6. ASSUME NEW ot \in Threads, ot # th PROVE Running(ot, t)'
      BY <1>1, <1>2, <1>6, <2>0, <2>6 DEF TaskInv, Running, Releasing, guarding
    <2> QED
      BY <2>1, <2>2, <2>3, <2>4, <2>5, <2>6 DEF TaskInv
  <1> QED
    BY <1>3, <1>4, <1>5, <1>6, Together

LEMMA GrantEndsInv ==
  ASSUME IInv, TypeInv', NEW th \in Threads, GrantEnds(th)
  PROVE  IInv'
  <1>1. TypeOK /\ OneHolder /\ \A u \in Tasks : TaskInv(u)
    BY Parts
  <1>2. /\ \/ at[th] = "linked" /\ at'[th] = IF acquired[doing[th]] THEN "granted" ELSE "queued"
           \/ at[th] \in {"grant", "granting"} /\ at'[th] = "waking"
        /\ \A ot \in Threads \ {th} : at'[ot] = at[ot]
        /\ UNCHANGED <<semaphore, outside, guarding, stage, scheduled, doing, buf>>
    BY <1>1 DEF GrantEnds, Granting, Outcome, Goes, TypeOK
  <1>3. OneHolder'
    BY <1>1, <1>2 DEF OneHolder, Holding
  <1>4. line' \in Seq(Tasks) /\ QueueFaithful'
    BY <1>2 DEF IInv, QueueFaithful, semaphore
  <1>5. ASSUME NEW t \in Tasks, doing[th] # t PROVE TaskInv(t)'
    <2>1. Same(t)
      BY <1>2, <1>5 DEF Same, semaphore, guarding
    <2> QED
      BY <1>1, <2>1, SameTask
  <1>6. ASSUME NEW t \in Tasks, doing[th] = t PROVE TaskInv(t)'
    <2>0. CASE at[th] = "linked"
      <3>0. /\ Asleep(t) /\ stage[t] = "awaiting" /\ (t \in ToSet(line) \/ acquired[t])
            /\ \A ot \in Threads : doing[ot] = t => ot = th
        BY <1>1, <1>6, <2>0
        DEF TaskInv, Running, Staged, Suspends, Asleep, Runs, Suspending
      <3>1. OnePlace(t)'
        BY <1>1, <1>2, <3>0 DEF TaskInv, OnePlace, Asleep, Runs, Suspending, guarding
      <3>2. InLine(t)'
        BY <1>1, <1>2, <1>6, <2>0, <3>0
        DEF TaskInv, InLine, Asleep, Runs, Suspending, semaphore, guarding
      <3>3. Guarded(t)'
        BY <1>1, <1>2, <2>0 DEF TaskInv, Guarded, semaphore, guarding, Threads
      <3>4. Staged(t)'
        BY <1>1, <1>2, <3>0 DEF TaskInv, Staged, Suspends, Suspending, semaphore, guarding
      <3>5. \A ot \in Threads : Running(ot, t)'
        BY <1>1, <1>2, <2>0, <3>0 DEF TaskInv, Running, Releasing, semaphore, guarding
      <3> QED
        BY <3>1, <3>2, <3>3, <3>4, <3>5 DEF TaskInv
    <2>1. CASE at[th] # "linked"
      <3>1. OnePlace(t)'
        BY <1>1, <1>2, <2>1 DEF TaskInv, OnePlace, Runs, Suspending, guarding
      <3>2. InLine(t)'
        BY <1>1, <1>2, <2>1 DEF TaskInv, InLine, Asleep, Runs, Suspending, semaphore, guarding
      <3>3. Guarded(t)'
        BY <1>1, <1>2, <2>1 DEF TaskInv, Guarded, semaphore, guarding, Threads
      <3>4. Staged(t)'
        BY <1>1, <1>2, <2>1 DEF TaskInv, Staged, Suspends, Suspending, semaphore, guarding
      <3>5. \A ot \in Threads : Running(ot, t)'
        BY <1>1, <1>2, <2>1
        DEF TaskInv, Running, Asleep, Runs, Suspending, Releasing, semaphore, guarding
      <3> QED
        BY <3>1, <3>2, <3>3, <3>4, <3>5 DEF TaskInv
    <2> QED
      BY <2>0, <2>1
  <1> QED
    BY <1>3, <1>4, <1>5, <1>6, Together

(* A grant is a step of the thread that holds the lock and of the waiter   *)
(* at the head of the line, who is asleep. *)
LEMMA GrantFirstChanges ==
  ASSUME IInv, NEW th \in Threads, GrantFirst(th)
  PROVE  /\ First \in Tasks /\ line # <<>> /\ First = Head(line) /\ First \in ToSet(line)
         /\ ~acquired[First] /\ stage[First] = "awaiting"
         /\ line' \in Seq(Tasks) /\ QueueFaithful' /\ ToSet(line') = ToSet(line) \ {First}
  <1>1. LineOK /\ TypeOK /\ \A u \in Tasks : TaskInv(u)
    BY Parts
  <1>2. First \in Tasks
    BY <1>1, FirstIsTask DEF GrantFirst
  <1>3. line # <<>> /\ First = Head(line) /\ First \in ToSet(line)
    BY <1>1, <1>2, HeadOfLine, SemaphoreAssumption, NilAssumption DEF First
  <1>4. /\ LineWithout(First) \in Seq(Tasks)
        /\ QueueOf(UnlinkQueued(list, First), LineWithout(First))
        /\ ToSet(LineWithout(First)) = ToSet(line) \ {First}
        /\ UnlinkQueued(list, First).head # Nil <=> LineWithout(First) # <<>>
    BY <1>1, <1>3, LeavesLine
  <1>5. has_waiters
    BY <1>1, <1>3 DEF LineOK, QueueFaithful
  <1>6. /\ line' = LineWithout(First) /\ list' = UnlinkQueued(list, First)
        /\ has_waiters' <=> UnlinkQueued(list, First).head # Nil
    BY <1>5 DEF GrantFirst
  <1>7. QueueFaithful'
    BY <1>4, <1>6 DEF QueueFaithful, QueueOf
  <1> QED
    BY <1>1, <1>2, <1>3, <1>4, <1>6, <1>7 DEF TaskInv, InLine

LEMMA GrantFirstInv ==
  ASSUME IInv, TypeInv', NEW th \in Threads, GrantFirst(th)
  PROVE  IInv'
  <1>0. PICK f \in Tasks : f = First
    BY GrantFirstChanges
  <1>1. TypeOK /\ OneHolder /\ \A u \in Tasks : TaskInv(u)
    BY Parts
  <1>2. /\ f \in Tasks /\ f \in ToSet(line)
        /\ line' \in Seq(Tasks) /\ QueueFaithful' /\ ToSet(line') = ToSet(line) \ {f}
    BY <1>0, GrantFirstChanges
  <1>3. /\ Asleep(f) /\ stage[f] = "awaiting" /\ ~acquired[f] /\ ~cancelled[f]
        /\ \A ot \in Threads : doing[ot] = f => at[ot] \in {"linked", "queued"}
    BY <1>1, <1>2 DEF TaskInv, InLine, Running, Asleep, Runs, Suspending
  <1>4. /\ \/ at[th] = "grant" /\ at'[th] = "granting"
              /\ \A ot \in Threads : at[ot] \notin Holding
           \/ at[th] \in Holding /\ at'[th] = at[th]
        /\ \A ot \in Threads \ {th} : at'[ot] = at[ot] /\ buf'[ot] = buf[ot]
        /\ acquired'[f] = TRUE
        /\ \A u \in Tasks \ {f} : /\ acquired'[u] = acquired[u] /\ scheduled'[u] = scheduled[u]
                                  /\ u \in buf'[th] <=> u \in buf[th]
        /\ UNCHANGED <<cancelled, outside, guarding, stage, doing>>
    BY <1>0, <1>1, <1>2 DEF GrantFirst, Granting, Goes, TypeOK, Unlocked, Holding
  <1>5. \/ at[th] = "linked" /\ doing[th] = f /\ f \notin buf'[th] /\ scheduled'[f] = 0
        \/ /\ ~(at[th] = "linked" /\ doing[th] = f)
           /\ f \in buf'[th] /\ scheduled'[f] = 0
        \/ /\ ~(at[th] = "linked" /\ doing[th] = f)
           /\ f \notin buf'[th] /\ scheduled'[f] = 1
    BY <1>0, <1>1, <1>2, <1>3, SemaphoreAssumption DEF GrantFirst, Self, TypeOK, Asleep
  <1>6. \A ot \in Threads : doing[ot] = f /\ at[ot] = "linked" => ot = th
    BY <1>1, <1>4 DEF OneHolder, Holding
  <1>7. OneHolder'
    BY <1>1, <1>4 DEF OneHolder, Holding
  <1>8. ASSUME NEW u \in Tasks, u # f PROVE TaskInv(u)'
    <2>0. u \in ToSet(line') <=> u \in ToSet(line)
      BY <1>2, <1>8
    <2>1. OnePlace(u)'
      BY <1>1, <1>4, <1>8 DEF TaskInv, OnePlace, Runs, Suspending, Holding, guarding
    <2>2. InLine(u)'
      BY <1>1, <1>4, <1>8, <2>0 DEF TaskInv, InLine, Asleep, Runs, Suspending, Holding, guarding
    <2>3. Guarded(u)'
      BY <1>1, <1>4, <1>8, <2>0 DEF TaskInv, Guarded, Holding, guarding, Threads
    <2>4. Staged(u)'
      BY <1>1, <1>4, <1>8 DEF TaskInv, Staged, Suspends, Suspending, Holding, guarding
    <2>5. \A ot \in Threads : Running(ot, u)'
      BY <1>1, <1>4, <1>8, <2>0
      DEF TaskInv, Running, Asleep, Runs, Suspending, Releasing, Holding, guarding
    <2> QED
      BY <2>1, <2>2, <2>3, <2>4, <2>5 DEF TaskInv
  <1>9. TaskInv(f)'
    <2>0. f \notin ToSet(line')
      BY <1>2
    <2>1. OnePlace(f)'
      BY <1>1, <1>3, <1>4, <1>5 DEF OnePlace, Asleep, Runs, Suspending, Holding, guarding
    <2>2. InLine(f)'
      BY <2>0 DEF InLine
    <2>3. Guarded(f)'
      BY <1>1, <1>2, <1>4 DEF TaskInv, Guarded, guarding
    <2>4. Staged(f)'
      BY <1>1, <1>2, <1>3, <1>4, <1>5
      DEF TaskInv, Staged, Suspends, Suspending, Holding, Asleep, guarding
    <2>5. ASSUME NEW ot \in Threads, doing[ot] = f PROVE Running(ot, f)'
      <3>1. Running(ot, f)
        BY <1>1, <1>2 DEF TaskInv
      <3>2. CASE at[ot] = "queued"
        <4>1. at'[ot] = "queued"
          BY <1>4, <3>2 DEF Holding
        <4> QED
          BY <1>3, <1>4, <2>5, <3>1, <3>2, <4>1 DEF Running, Releasing, guarding
      <3>3. CASE at[ot] = "linked"
        <4>1. ot = th /\ at'[ot] = "linked"
          BY <1>4, <1>6, <2>5, <3>3 DEF Holding
        <4>2. Asleep(f)'
          BY <1>3, <1>4, <1>5, <2>5, <3>3, <4>1
          DEF Asleep, Runs, Suspending, Holding, guarding
        <4> QED
          BY <1>3, <1>4, <2>5, <3>1, <3>3, <4>1, <4>2 DEF Running, Releasing, guarding
      <3> QED
        BY <1>3, <2>5, <3>2, <3>3
    <2>6. \A ot \in Threads : Running(ot, f)'
      BY <1>4, <2>5 DEF Running
    <2> QED
      BY <2>1, <2>2, <2>3, <2>4, <2>6 DEF TaskInv
  <1>10. ASSUME NEW u \in Tasks PROVE TaskInv(u)'
    BY <1>8, <1>9
  <1> QED
    BY <1>2, <1>7, <1>10, Together

LEMMA VisitorInv ==
  ASSUME IInv, TypeInv', NEW th \in Visitors, TryMore(th) \/ Forget(th)
  PROVE  IInv'
  <1>1. TypeOK /\ OneHolder /\ th \in Threads /\ \A u \in Tasks : TaskInv(u)
    BY Parts
  <1>2. /\ at[th] = "outside" /\ at'[th] \in {"outside", "stopped"} /\ doing[th] = NoTask
        /\ \A ot \in Threads \ {th} : at'[ot] = at[ot]
        /\ UNCHANGED <<has_waiters, list, acquired, cancelled, line, guarding, stage, scheduled,
                       doing, buf>>
    BY <1>1, Parts DEF TryMore, Forget, Goes, TypeOK, ThreadInv, semaphore, threads
  <1>3. OneHolder'
    BY <1>1, <1>2 DEF OneHolder, Holding
  <1>4. line' \in Seq(Tasks) /\ QueueFaithful'
    BY <1>2 DEF IInv, QueueFaithful
  <1>5. ASSUME NEW u \in Tasks PROVE TaskInv(u)'
    <2>1. Same(u)
      BY <1>2, SemaphoreAssumption DEF Same, guarding
    <2> QED
      BY <1>1, <2>1, SameTask
  <1> QED
    BY <1>3, <1>4, <1>5, Together

(* Cancellation.  Whom it finds inside his await_suspend() has his permits. *)
LEMMA CancelInv ==
  ASSUME IInv, TypeInv', Quiet, NEW t \in Tasks, Cancel(t)
  PROVE  IInv'
  <1>1. TypeOK /\ OneHolder /\ TaskInv(t)
    BY Parts
  <1>2. /\ scope[t] = "live" /\ scope'[t] \in {"firing", "done"}
        /\ scope'[t] = "firing" <=> guard[t] = "armed"
        /\ guard'[t] = IF guard[t] = "armed" THEN "fired" ELSE guard[t]
        /\ \A th \in Workers : doing[th] = t /\ at[th] \in Suspending => acquired[t]
        /\ \A u \in Tasks \ {t} : scope'[u] = scope[u] /\ guard'[u] = guard[u]
        /\ UNCHANGED <<semaphore, outside, stage, scheduled, threads>>
    BY <1>1 DEF Cancel, Quiet, Spared, TypeOK
  <1>3. OneHolder'
    BY <1>1, <1>2 DEF OneHolder, threads
  <1>4. line' \in Seq(Tasks) /\ QueueFaithful'
    BY <1>2 DEF IInv, QueueFaithful, semaphore
  <1>5. \A u \in Tasks \ {t} : Same(u)
    BY <1>2 DEF Same, semaphore, threads
  <1>6. TaskInv(t)'
    <2>1. OnePlace(t)'
      BY <1>1, <1>2 DEF TaskInv, OnePlace, Runs, threads
    <2>2. InLine(t)'
      BY <1>1, <1>2 DEF TaskInv, InLine, Asleep, Runs, semaphore, threads
    <2>3. Guarded(t)'
      BY <1>1, <1>2 DEF TaskInv, Guarded, Suspending, semaphore, threads
    <2>4. Staged(t)'
      BY <1>1, <1>2 DEF TaskInv, Staged, Suspends, semaphore, threads
    <2>5. ASSUME NEW th \in Threads PROVE Running(th, t)'
      <3>1. doing[th] = t => th \in Workers
        BY Parts, SemaphoreAssumption DEF ThreadInv, Threads
      <3> QED
        BY <1>1, <1>2, <3>1
        DEF TaskInv, Running, Asleep, Runs, Suspending, semaphore, threads
    <2> QED
      BY <2>1, <2>2, <2>3, <2>4, <2>5 DEF TaskInv
  <1> QED
    BY <1>3, <1>4, <1>5, <1>6, Parts, TasksKeep, Together

(* A cancelled waiter leaves the line, or is no longer in it.              *)
LEMMA CallbackChanges ==
  ASSUME IInv, NEW t \in Tasks, Callback(t)
  PROVE  /\ scope[t] = "firing"
         /\ \/ /\ acquired[t] \/ cancelled[t]
               /\ scope'[t] = "unlocking"
               /\ UNCHANGED <<has_waiters, list, cancelled, line>>
            \/ /\ t \in ToSet(line) /\ scope'[t] = "waking" /\ cancelled'[t] = TRUE
               /\ line' = LineWithout(t) /\ ToSet(line') = ToSet(line) \ {t}
               /\ t # Head(line) => line' # <<>> /\ Head(line') = Head(line)
         /\ \A u \in Tasks \ {t} : cancelled'[u] = cancelled[u] /\ scope'[u] = scope[u]
         /\ UNCHANGED <<permits, acquired, outside, guard, stage, scheduled, threads>>
         /\ line' \in Seq(Tasks) /\ QueueFaithful'
  <1>1. TypeOK /\ LineOK /\ TaskInv(t)
    BY Parts
  <1>2. CASE TooLate(t)
    BY <1>1, <1>2 DEF Callback, TooLate, TypeOK, LineOK, QueueFaithful
  <1>3. CASE ~TooLate(t)
    <2>1. t \in ToSet(line)
      BY <1>1, <1>3 DEF Callback, TooLate, TaskInv, Guarded
    <2>2. /\ LineWithout(t) \in Seq(Tasks)
          /\ QueueOf(UnlinkQueued(list, t), LineWithout(t))
          /\ ToSet(LineWithout(t)) = ToSet(line) \ {t}
          /\ UnlinkQueued(list, t).head # Nil <=> LineWithout(t) # <<>>
          /\ t # Head(line) => LineWithout(t) # <<>> /\ Head(LineWithout(t)) = Head(line)
      BY <1>1, <2>1, LeavesLine
    <2>3. has_waiters
      BY <1>1, <2>1, EmptySequence DEF LineOK, QueueFaithful
    <2>4. /\ line' = LineWithout(t) /\ list' = UnlinkQueued(list, t)
          /\ has_waiters' <=> UnlinkQueued(list, t).head # Nil
      BY <1>3, <2>3 DEF Callback, Without
    <2>5. QueueFaithful'
      BY <2>2, <2>4 DEF QueueFaithful, QueueOf
    <2> QED
      BY <1>1, <1>3, <2>1, <2>2, <2>4, <2>5 DEF Callback, TypeOK
  <1> QED
    BY <1>2, <1>3

LEMMA CallbackInv ==
  ASSUME IInv, TypeInv', NEW t \in Tasks, Callback(t)
  PROVE  IInv'
  <1>1. TypeOK /\ OneHolder /\ TaskInv(t)
    BY Parts
  <1>2. /\ scope[t] = "firing"
        /\ \/ /\ acquired[t] \/ cancelled[t]
              /\ scope'[t] = "unlocking" /\ UNCHANGED <<cancelled, line>>
           \/ /\ t \in ToSet(line) /\ t \notin ToSet(line')
              /\ scope'[t] = "waking" /\ cancelled'[t] = TRUE
        /\ \A u \in Tasks \ {t} : /\ cancelled'[u] = cancelled[u] /\ scope'[u] = scope[u]
                                  /\ u \in ToSet(line') <=> u \in ToSet(line)
        /\ UNCHANGED <<permits, acquired, outside, guard, stage, scheduled, threads>>
        /\ line' \in Seq(Tasks) /\ QueueFaithful'
    BY CallbackChanges
  <1>3. OneHolder'
    BY <1>1, <1>2 DEF OneHolder, threads
  <1>4. \A u \in Tasks \ {t} : Same(u)
    BY <1>2 DEF Same, threads
  <1>5. TaskInv(t)'
    <2>1. OnePlace(t)'
      BY <1>1, <1>2 DEF TaskInv, OnePlace, InLine, Asleep, Runs, threads
    <2>2. InLine(t)'
      BY <1>1, <1>2 DEF TaskInv, InLine, Asleep, Runs, threads
    <2>3. Guarded(t)'
      BY <1>1, <1>2 DEF TaskInv, Guarded, InLine, threads
    <2>4. Staged(t)'
      BY <1>1, <1>2 DEF TaskInv, Staged, InLine, Suspends, threads
    <2>5. ASSUME NEW th \in Threads PROVE Running(th, t)'
      BY <1>1, <1>2 DEF TaskInv, Running, InLine, Asleep, Runs, Suspending, threads
    <2> QED
      BY <2>1, <2>2, <2>3, <2>4, <2>5 DEF TaskInv
  <1> QED
    BY <1>2, <1>3, <1>4, <1>5, Parts, TasksKeep, Together

LEMMA CancelEndsInv ==
  ASSUME IInv, TypeInv', NEW t \in Tasks, CancelWakes(t) \/ CancelUnlock(t)
  PROVE  IInv'
  <1>1. TypeOK /\ OneHolder /\ TaskInv(t)
    BY Parts
  <1>2. /\ \/ scope[t] = "waking" /\ scope'[t] = "unlocking" /\ scheduled'[t] = 1
           \/ scope[t] = "unlocking" /\ scope'[t] = "done" /\ scheduled'[t] = scheduled[t]
        /\ \A u \in Tasks \ {t} : scheduled'[u] = scheduled[u] /\ scope'[u] = scope[u]
        /\ UNCHANGED <<semaphore, outside, guard, stage, threads>>
    BY <1>1 DEF CancelWakes, CancelUnlock, TypeOK, TaskInv, OnePlace
  <1>3. OneHolder'
    BY <1>1, <1>2 DEF OneHolder, threads
  <1>4. line' \in Seq(Tasks) /\ QueueFaithful'
    BY <1>2 DEF IInv, QueueFaithful, semaphore
  <1>5. \A u \in Tasks \ {t} : Same(u)
    BY <1>2 DEF Same, semaphore, threads
  <1>6. TaskInv(t)'
    <2>1. OnePlace(t)'
      BY <1>1, <1>2 DEF TaskInv, OnePlace, Runs, threads
    <2>2. InLine(t)'
      BY <1>1, <1>2 DEF TaskInv, InLine, Asleep, Runs, semaphore, threads
    <2>3. Guarded(t)'
      BY <1>1, <1>2 DEF TaskInv, Guarded, semaphore, threads
    <2>4. Staged(t)'
      BY <1>1, <1>2 DEF TaskInv, Staged, Guarded, Suspends, semaphore, threads
    <2>5. ASSUME NEW th \in Threads PROVE Running(th, t)'
      BY <1>1, <1>2 DEF TaskInv, Running, Asleep, Runs, semaphore, threads
    <2> QED
      BY <2>1, <2>2, <2>3, <2>4, <2>5 DEF TaskInv
  <1> QED
    BY <1>3, <1>4, <1>5, <1>6, Parts, TasksKeep, Together

-----------------------------------------------------------------------------
LEMMA InitInv == Init => IInv
  <1> SUFFICES ASSUME Init PROVE IInv
    OBVIOUS
  <1>1. TypeInv /\ NoTask \notin Tasks
    BY InitType, SemaphoreAssumption
  <1>2. line = <<>> /\ line \in Seq(Tasks) /\ ToSet(line) = {}
    BY EmptySequence DEF Init
  <1>3. QueueFaithful
    BY <1>2, EmptyListRepresents DEF Init, QueueFaithful, EmptyList
  <1>4. OneHolder
    BY DEF Init, OneHolder, Holding
  <1>5. ASSUME NEW t \in Tasks PROVE TaskInv(t)
    BY <1>1, <1>2
    DEF Init, TaskInv, OnePlace, InLine, Guarded, Staged, Running, Runs, Suspends
  <1> QED
    BY <1>1, <1>2, <1>3, <1>4, <1>5 DEF IInv

LEMMA StepInv ==
  ASSUME Quiet, IInv, [Next]_vars
  PROVE  IInv'
  <1>1. TypeInv'
    BY TypeStep DEF IInv
  <1>2. \A th \in Threads : doing[th] # NoTask => th \in Workers /\ doing[th] \in Tasks
    BY Parts DEF ThreadInv, Threads, TypeOK
  <1>3. ASSUME NEW th \in Threads, Step(th) PROVE IInv'
    <2>1. CASE doing[th] # NoTask /\ Acquiring(th, doing[th])
      <3>1. PICK t \in Tasks : t = doing[th]
        BY <1>2, <2>1
      <3>2. th \in Workers /\ Acquiring(th, t)
        BY <1>2, <2>1, <3>1
      <3> QED
        BY <1>1, <3>1, <3>2, TestScopeInv, TryAcquireInv, ArmInv, EnqueueInv, TestCancelledInv,
           DisarmInv, TakeInv
        DEF Acquiring
    <2>2. CASE \E t \in Tasks : Wake(th, t)
      BY <1>1, <2>2, WakeInv
    <2>3. CASE GoOn(th)
      BY <1>1, <2>3, GoOnInv
    <2>4. CASE GrantFirst(th) \/ GrantEnds(th)
      BY <1>1, <2>4, GrantFirstInv, GrantEndsInv
    <2>5. CASE AddPermits(th) \/ TestWaiters(th) \/ Finish(th)
      BY <1>1, <2>5, AddPermitsInv, ReleaseStepInv
    <2> QED
      BY <1>3, <2>1, <2>2, <2>3, <2>4, <2>5 DEF Step
  <1>4. CASE \E th \in Visitors : TryMore(th) \/ Forget(th)
    BY <1>1, <1>4, VisitorInv
  <1>5. CASE \E th \in Workers, t \in Tasks : Resume(th, t)
    BY <1>1, <1>5, ResumeInv
  <1>6. CASE \E t \in Tasks : Cancel(t) \/ CancelStep(t)
    BY <1>1, <1>6, CancelInv, CallbackInv, CancelEndsInv DEF CancelStep
  <1>7. CASE UNCHANGED vars
    <2>1. line' \in Seq(Tasks) /\ QueueFaithful' /\ OneHolder'
      BY <1>7
      DEF vars, IInv, QueueFaithful, OneHolder, semaphore, threads
    <2>2. ASSUME NEW u \in Tasks PROVE TaskInv(u)'
      <3>1. Same(u)
        BY <1>7 DEF vars, Same, semaphore, guarding, threads
      <3> QED
        BY <3>1, Parts, SameTask
    <2> QED
      BY <1>1, <2>1, <2>2, Together
  <1> QED
    BY <1>3, <1>4, <1>5, <1>6, <1>7 DEF Next

-----------------------------------------------------------------------------
(* Counting.  A family of numbers n[x] is counted as that many pairs.      *)

Shares(n) == UNION {{x} \X (1..n[x]) : x \in DOMAIN n}

LEMMA ShareOfOne ==
  ASSUME NEW x, NEW n \in Nat
  PROVE  IsFiniteSet({x} \X (1..n)) /\ Cardinality({x} \X (1..n)) = n
  <1>1. IsFiniteSet({x}) /\ Cardinality({x}) = 1
    BY FS_Singleton
  <1>2. IsFiniteSet(1..n) /\ Cardinality(1..n) = n
    BY FS_Interval
  <1>3. /\ IsFiniteSet({x} \X (1..n))
        /\ Cardinality({x} \X (1..n)) = Cardinality({x}) * Cardinality(1..n)
    BY <1>1, <1>2, FS_Product, Zenon
  <1> QED
    BY <1>1, <1>2, <1>3

(* One number changes.                                                     *)
LEMMA SharesChange ==
  ASSUME NEW I, NEW n \in [I -> Nat], NEW m \in [I -> Nat], NEW x \in I,
         \A y \in I \ {x} : m[y] = n[y], IsFiniteSet(Shares(n))
  PROVE  /\ IsFiniteSet(Shares(m))
         /\ Cardinality(Shares(m)) = (Cardinality(Shares(n)) - n[x]) + m[x]
  <1> DEFINE a == {x} \X (1..n[x])
             b == {x} \X (1..m[x])
             r == Shares(n) \ a
  <1>1. /\ IsFiniteSet(a) /\ Cardinality(a) = n[x]
        /\ IsFiniteSet(b) /\ Cardinality(b) = m[x]
        /\ n[x] \in Nat /\ m[x] \in Nat
    BY ShareOfOne
  <1>2. Shares(n) \intersect a = a
    BY DEF Shares
  <1>3. Shares(m) = r \union b
    <2>1. ASSUME NEW p, p \in Shares(m), p \notin b PROVE p \in r
      <3>1. PICK y \in I : p \in {y} \X (1..m[y])
        BY <2>1 DEF Shares
      <3>2. y # x
        BY <2>1, <3>1
      <3>3. p \in {y} \X (1..n[y]) /\ p \notin a
        BY <3>1, <3>2
      <3> QED
        BY <3>3 DEF Shares
    <2>2. ASSUME NEW p, p \in r PROVE p \in Shares(m)
      <3>1. PICK y \in I : p \in {y} \X (1..n[y])
        BY <2>2 DEF Shares
      <3>2. y # x
        BY <2>2, <3>1
      <3> QED
        BY <3>1, <3>2 DEF Shares
    <2>3. b \subseteq Shares(m)
      BY DEF Shares
    <2> QED
      BY <2>1, <2>2, <2>3
  <1>4. r \intersect b = {}
    <2>1. ASSUME NEW p, p \in r, p \in b PROVE FALSE
      <3>1. PICK y \in I : p \in {y} \X (1..n[y])
        BY <2>1 DEF Shares
      <3> QED
        BY <2>1, <3>1
    <2> QED
      BY <2>1
  <1> HIDE DEF a, b, r
  <1>5. /\ IsFiniteSet(r)
        /\ Cardinality(r) = Cardinality(Shares(n)) - n[x]
    <2>1. IsFiniteSet(r) /\ Cardinality(r) = Cardinality(Shares(n)) - Cardinality(Shares(n) \cap a)
      BY FS_Difference, Zenon DEF r
    <2> QED
      BY <1>1, <1>2, <2>1
  <1>6. /\ IsFiniteSet(r \union b)
        /\ Cardinality(r \union b) = Cardinality(r) + m[x] - Cardinality({})
    BY <1>1, <1>4, <1>5, FS_Union
  <1>7. Cardinality({}) = 0 /\ Cardinality(r) \in Int
    BY <1>5, FS_EmptySet, FS_CardinalityType
  <1> QED
    BY <1>1, <1>3, <1>5, <1>6, <1>7

(* What the tasks in O have been given and have yet to give back.          *)
Debt(O) == [t \in Tasks |-> IF t \in O THEN Need[t] ELSE 0]

LEMMA DebtShares ==
  ASSUME NEW O \in SUBSET Tasks
  PROVE  /\ Debt(O) \in [Tasks -> Nat]
         /\ UNION {{t} \X (1..Need[t]) : t \in O} = Shares(Debt(O))
  <1>1. Debt(O) \in [Tasks -> Nat]
    BY SemaphoreAssumption DEF Debt
  <1>2. ASSUME NEW t \in O PROVE Debt(O)[t] = Need[t]
    BY DEF Debt
  <1>3. ASSUME NEW t \in Tasks \ O PROVE Debt(O)[t] = 0
    BY DEF Debt
  <1>4. ASSUME NEW p, p \in Shares(Debt(O)) PROVE \E t \in O : p \in {t} \X (1..Need[t])
    <2>1. PICK t \in Tasks : p \in {t} \X (1..Debt(O)[t])
      BY <1>1, <1>4 DEF Shares
    <2>2. t \in O
      BY <1>3, <2>1
    <2> QED
      BY <1>2, <2>1, <2>2
  <1>5. ASSUME NEW t \in O PROVE {t} \X (1..Need[t]) \subseteq Shares(Debt(O))
    BY <1>1, <1>2 DEF Shares
  <1> QED
    BY <1>1, <1>4, <1>5

LEMMA HeldShares ==
  ASSUME NEW h \in [Visitors -> 0..MaxHeld]
  PROVE  /\ h \in [Visitors -> Nat]
         /\ UNION {{v} \X (1..h[v]) : v \in Visitors} = Shares(h)
  BY SemaphoreAssumption DEF Shares

Conserved ==
    /\ IsFiniteSet(Given) /\ IsFiniteSet(Lent)
    /\ PermitsConserved

(* Somebody takes permits, gives them back or neither.                     *)
LEMMA TaskTakes ==
  ASSUME IsFiniteSet(Given), NEW t \in Tasks, t \notin Owed, Owed' = Owed \union {t}
  PROVE  IsFiniteSet(Given') /\ Cardinality(Given') = Cardinality(Given) + Need[t]
  <1> DEFINE n == Debt(Owed)
             m == Debt(Owed')
  <1>0. Owed \in SUBSET Tasks /\ Owed' \in SUBSET Tasks
    BY DEF Owed
  <1>1. /\ n \in [Tasks -> Nat] /\ m \in [Tasks -> Nat]
        /\ Given = Shares(n) /\ Given' = Shares(m)
    BY <1>0, DebtShares DEF Given
  <1>2. (\A u \in Tasks \ {t} : m[u] = n[u]) /\ n[t] = 0 /\ m[t] = Need[t]
    BY DEF Debt
  <1> HIDE DEF n, m
  <1>3. /\ IsFiniteSet(Shares(m))
        /\ Cardinality(Shares(m)) = (Cardinality(Shares(n)) - n[t]) + m[t]
    BY <1>1, <1>2, SharesChange
  <1>4. Cardinality(Given) \in Nat
    BY FS_CardinalityType
  <1> QED
    BY <1>1, <1>2, <1>3, <1>4, SemaphoreAssumption

LEMMA TaskReturns ==
  ASSUME IsFiniteSet(Given), NEW t \in Tasks, t \in Owed, Owed' = Owed \ {t}
  PROVE  IsFiniteSet(Given') /\ Cardinality(Given') = Cardinality(Given) - Need[t]
  <1> DEFINE n == Debt(Owed)
             m == Debt(Owed')
  <1>0. Owed \in SUBSET Tasks /\ Owed' \in SUBSET Tasks
    BY DEF Owed
  <1>1. /\ n \in [Tasks -> Nat] /\ m \in [Tasks -> Nat]
        /\ Given = Shares(n) /\ Given' = Shares(m)
    BY <1>0, DebtShares DEF Given
  <1>2. (\A u \in Tasks \ {t} : m[u] = n[u]) /\ n[t] = Need[t] /\ m[t] = 0
    BY DEF Debt
  <1> HIDE DEF n, m
  <1>3. /\ IsFiniteSet(Shares(m))
        /\ Cardinality(Shares(m)) = (Cardinality(Shares(n)) - n[t]) + m[t]
    BY <1>1, <1>2, SharesChange
  <1>4. Cardinality(Given) \in Nat
    BY FS_CardinalityType
  <1> QED
    BY <1>1, <1>2, <1>3, <1>4, SemaphoreAssumption

LEMMA VisitorHolds ==
  ASSUME TypeOK, TypeOK', IsFiniteSet(Lent), NEW v \in Visitors,
         \A u \in Visitors \ {v} : held'[u] = held[u]
  PROVE  /\ IsFiniteSet(Lent')
         /\ Cardinality(Lent') = (Cardinality(Lent) - held[v]) + held'[v]
  <1>1. /\ held \in [Visitors -> Nat] /\ held' \in [Visitors -> Nat]
        /\ Lent = Shares(held) /\ Lent' = Shares(held')
    BY HeldShares DEF TypeOK, Lent
  <1> QED
    BY <1>1, SharesChange

LEMMA NobodyTakes ==
  ASSUME Conserved, Owed' = Owed, UNCHANGED <<permits, outside>>
  PROVE  Conserved'
  BY DEF Conserved, PermitsConserved, Given, Lent, outside

LEMMA Sums ==
  ASSUME Conserved, TypeOK
  PROVE  /\ permits \in Nat /\ Cardinality(Given) \in Nat /\ Cardinality(Lent) \in Nat
         /\ permits + Cardinality(Given) + Cardinality(Lent) = total
  BY FS_CardinalityType DEF Conserved, PermitsConserved, TypeOK

LEMMA InitConserved == Init => Conserved
  <1> SUFFICES ASSUME Init PROVE Conserved
    OBVIOUS
  <1>1. Given = {} /\ Lent = {}
    BY DEF Init, Given, Lent, Owed
  <1>2. IsFiniteSet({}) /\ Cardinality({}) = 0
    BY FS_EmptySet
  <1> QED
    BY <1>1, <1>2, SemaphoreAssumption DEF Init, Conserved, PermitsConserved

(* A worker's steps, ...                                                   *)
LEMMA AcquiringConserves ==
  ASSUME IInv, Conserved, NEW th \in Workers, NEW t \in Tasks, doing[th] = t, Acquiring(th, t)
  PROVE  Conserved'
  <1>1. TypeOK /\ th \in Threads /\ TaskInv(t)
    BY Parts
  <1>2. CASE TestScope(th, t) \/ Enqueue(th, t) \/ TestCancelled(th, t) \/ Disarm(th, t)
    <2>1. UNCHANGED <<permits, outside, acquired, stage>>
      BY <1>2 DEF TestScope, Enqueue, TestCancelled, Disarm, semaphore
    <2> QED
      BY <2>1, NobodyTakes DEF Owed
  <1>3. CASE Arm(th, t) \/ Take(th, t)
    <2>1. UNCHANGED <<permits, outside, acquired>>
      BY <1>3 DEF Arm, Take, semaphore
    <2>2. stage[t] # "done" /\ (acquired[t] => stage'[t] # "done")
      BY <1>1, <1>3 DEF Arm, Take, TaskInv, Running, Reaches, TypeOK
    <2>3. \A u \in Tasks \ {t} : stage'[u] = stage[u]
      BY <1>1, <1>3 DEF Arm, Take, Reaches, TypeOK
    <2>4. Owed' = Owed
      BY <2>1, <2>2, <2>3 DEF Owed
    <2> QED
      BY <2>1, <2>4, NobodyTakes
  <1>4. CASE TryAcquire(th, t)
    <2>1. CASE Fits(Need[t])
      <3>1. /\ permits' = permits - Need[t] /\ Need[t] \in Nat
            /\ acquired'[t] = TRUE /\ \A u \in Tasks \ {t} : acquired'[u] = acquired[u]
            /\ UNCHANGED <<outside, stage>>
        BY <1>1, <1>4, <2>1, SemaphoreAssumption DEF TryAcquire, TypeOK
      <3>2. stage[t] = "new" /\ ~acquired[t]
        BY <1>1, <1>4 DEF TryAcquire, TaskInv, Running
      <3>3. t \notin Owed /\ Owed' = Owed \union {t}
        BY <3>1, <3>2 DEF Owed
      <3>4. IsFiniteSet(Given') /\ Cardinality(Given') = Cardinality(Given) + Need[t]
        BY <3>3, TaskTakes DEF Conserved
      <3>5. Lent' = Lent /\ total' = total
        BY <3>1 DEF Lent, outside
      <3> QED
        BY <1>1, <3>1, <3>4, <3>5, Sums DEF Conserved, PermitsConserved
    <2>2. CASE ~Fits(Need[t])
      BY <1>4, <2>2, NobodyTakes DEF TryAcquire, Owed
    <2> QED
      BY <2>1, <2>2
  <1> QED
    BY <1>2, <1>3, <1>4 DEF Acquiring

(* ... a grant, ...                                                        *)
LEMMA GrantConserves ==
  ASSUME IInv, Conserved, NEW th \in Threads, GrantFirst(th)
  PROVE  Conserved'
  <1>1. PICK f \in Tasks : f = First
    BY GrantFirstChanges
  <1>2. TypeOK /\ ~acquired[f] /\ stage[f] = "awaiting"
    BY <1>1, GrantFirstChanges, Parts
  <1>3. /\ permits' = permits - Need[f] /\ Need[f] \in Nat
        /\ acquired'[f] = TRUE /\ \A u \in Tasks \ {f} : acquired'[u] = acquired[u]
        /\ UNCHANGED <<outside, stage>>
    BY <1>1, <1>2, SemaphoreAssumption DEF GrantFirst, TypeOK
  <1>4. f \notin Owed /\ Owed' = Owed \union {f}
    BY <1>2, <1>3 DEF Owed
  <1>5. IsFiniteSet(Given') /\ Cardinality(Given') = Cardinality(Given) + Need[f]
    BY <1>4, TaskTakes DEF Conserved
  <1>6. Lent' = Lent /\ total' = total
    BY <1>3 DEF Lent, outside
  <1> QED
    BY <1>2, <1>3, <1>5, <1>6, Sums DEF Conserved, PermitsConserved

(* ... a release by a task or a visitor, ...                               *)
LEMMA ReleaseConserves ==
  ASSUME IInv, TypeInv', Conserved, NEW th \in Threads, AddPermits(th)
  PROVE  Conserved'
  <1>1. TypeOK /\ TypeOK' /\ ThreadInv(th) /\ NoTask \notin Tasks
    BY Parts, SemaphoreAssumption DEF TypeInv
  <1>2. UNCHANGED acquired /\ permits' = permits + Amount(th)
    BY DEF AddPermits
  <1>3. CASE th \in Workers
    <2>1. th \notin Visitors /\ at[th] = "release"
      BY <1>1, <1>3, SemaphoreAssumption DEF AddPermits, ThreadInv
    <2>2. PICK t \in Tasks : t = doing[th]
      BY <1>1, <1>3, <2>1 DEF ThreadInv, TypeOK
    <2>3. stage[t] = "holding" /\ acquired[t]
      BY <2>1, <2>2, Parts DEF TaskInv, Running
    <2>4. /\ stage'[t] = "done" /\ \A u \in Tasks \ {t} : stage'[u] = stage[u]
          /\ held' = held /\ total' = total /\ permits' = permits + Need[t]
          /\ Need[t] \in Nat
      <3>1. \A u \in Tasks : stage'[u] = IF u = t THEN "done" ELSE stage[u]
        BY <2>2 DEF AddPermits
      <3>2. held' = [v \in Visitors |-> held[v]]
        BY <2>1 DEF AddPermits
      <3>3. held' = held
        BY <1>1, <3>2 DEF TypeOK
      <3>4. total' = total + 0 /\ total \in Nat
        BY <1>1, <2>1, Sums DEF AddPermits
      <3>5. permits' = permits + Need[t]
        BY <1>2, <1>3, <2>2 DEF Amount
      <3> QED
        BY <3>1, <3>3, <3>4, <3>5, SemaphoreAssumption
    <2>5. t \in Owed /\ Owed' = Owed \ {t}
      BY <1>2, <2>3, <2>4 DEF Owed
    <2>6. IsFiniteSet(Given') /\ Cardinality(Given') = Cardinality(Given) - Need[t]
      BY <2>5, TaskReturns DEF Conserved
    <2>7. Lent' = Lent
      BY <2>4 DEF Lent
    <2> QED
      BY <1>1, <2>4, <2>6, <2>7, Sums DEF Conserved, PermitsConserved
  <1>4. CASE th \in Visitors
    <2>1. th \notin Workers /\ doing[th] = NoTask
      BY <1>1, <1>4, SemaphoreAssumption DEF ThreadInv
    <2>2. stage' = stage
      BY <1>1, <2>1 DEF AddPermits, TypeOK
    <2>3. Given' = Given
      BY <1>2, <2>2 DEF Given, Owed
    <2>4. held'[th] = 0 /\ \A v \in Visitors \ {th} : held'[v] = held[v]
      BY <1>1, <1>4 DEF AddPermits, TypeOK
    <2>5. IsFiniteSet(Lent') /\ Cardinality(Lent') = (Cardinality(Lent) - held[th]) + 0
      BY <1>1, <1>4, <2>4, VisitorHolds DEF Conserved
    <2>6. held[th] \in Nat
      BY <1>1, <1>4, SemaphoreAssumption DEF TypeOK
    <2>7. CASE held[th] > 0
      <3>1. permits' = permits + held[th] /\ total' = total + 0
        BY <1>2, <1>4, <2>1, <2>6, <2>7 DEF AddPermits, Amount
      <3> QED
        BY <1>1, <2>3, <2>5, <2>6, <3>1, Sums DEF Conserved, PermitsConserved
    <2>8. CASE held[th] = 0
      <3>1. permits' = permits + 1 /\ total' = total + 1
        BY <1>2, <1>4, <2>1, <2>8 DEF AddPermits, Amount
      <3> QED
        BY <1>1, <2>3, <2>5, <2>8, <3>1, Sums DEF Conserved, PermitsConserved
    <2> QED
      BY <2>6, <2>7, <2>8
  <1> QED
    BY <1>3, <1>4 DEF Threads

(* ... and a visitor's other steps.                                        *)
LEMMA VisitorConserves ==
  ASSUME IInv, TypeInv', Conserved, NEW th \in Visitors, TryMore(th) \/ Forget(th)
  PROVE  Conserved'
  <1>1. TypeOK /\ TypeOK' /\ held[th] \in Nat
    BY Parts, SemaphoreAssumption DEF TypeInv, TypeOK
  <1>2. Given' = Given
    BY DEF TryMore, Forget, Given, Owed, semaphore
  <1>3. \A v \in Visitors \ {th} : held'[v] = held[v]
    BY <1>1 DEF TryMore, Forget, Merged, TypeOK
  <1>4. IsFiniteSet(Lent') /\ Cardinality(Lent') = (Cardinality(Lent) - held[th]) + held'[th]
    BY <1>1, <1>3, VisitorHolds DEF Conserved
  <1>5. CASE TryMore(th)
    <2>1. permits' = permits - 1 /\ total' = total /\ held'[th] = held[th] + 1
      BY <1>1, <1>5 DEF TryMore, Merged, TypeOK
    <2> QED
      BY <1>1, <1>2, <1>4, <2>1, Sums DEF Conserved, PermitsConserved
  <1>6. CASE Forget(th)
    <2>1. permits' = permits /\ total' = total - held[th] /\ held'[th] = 0
      BY <1>1, <1>6 DEF Forget, semaphore, TypeOK
    <2> QED
      BY <1>1, <1>2, <1>4, <2>1, Sums DEF Conserved, PermitsConserved
  <1> QED
    BY <1>5, <1>6

LEMMA StepConserves ==
  ASSUME IInv, Conserved, [Next]_vars
  PROVE  Conserved'
  <1>1. TypeInv'
    BY TypeStep DEF IInv
  <1>2. ASSUME NEW th \in Threads, Step(th) PROVE Conserved'
    <2>1. CASE doing[th] # NoTask /\ Acquiring(th, doing[th])
      <3>1. PICK t \in Tasks : t = doing[th]
        BY <2>1, Parts DEF TypeOK
      <3>2. th \in Workers /\ Acquiring(th, t)
        BY <2>1, <3>1, Parts DEF ThreadInv, Threads
      <3> QED
        BY <3>1, <3>2, AcquiringConserves
    <2>2. CASE GrantFirst(th)
      BY <2>2, GrantConserves
    <2>3. CASE AddPermits(th)
      BY <1>1, <2>3, ReleaseConserves
    <2>4. CASE \/ \E t \in Tasks : Wake(th, t)
               \/ GoOn(th) \/ GrantEnds(th) \/ TestWaiters(th) \/ Finish(th)
      <3>1. UNCHANGED <<permits, outside, acquired, stage>>
        BY <2>4 DEF Wake, GoOn, GrantEnds, TestWaiters, Finish, semaphore
      <3> QED
        BY <3>1, NobodyTakes DEF Owed
    <2> QED
      BY <1>2, <2>1, <2>2, <2>3, <2>4 DEF Step
  <1>3. CASE \E th \in Visitors : TryMore(th) \/ Forget(th)
    BY <1>1, <1>3, VisitorConserves
  <1>4. CASE \/ \E th \in Workers, t \in Tasks : Resume(th, t)
             \/ \E t \in Tasks : Cancel(t) \/ CancelStep(t)
             \/ UNCHANGED vars
    <2>1. UNCHANGED <<permits, outside, acquired, stage>>
      BY <1>4
      DEF Resume, Cancel, CancelStep, Callback, CancelWakes, CancelUnlock, vars, semaphore
    <2> QED
      BY <2>1, NobodyTakes DEF Owed
  <1> QED
    BY <1>2, <1>3, <1>4 DEF Next

-----------------------------------------------------------------------------
(* The types of the semaphore, its awaiter and its permits.                *)
THEOREM TypeCorrect == Spec => []TypeOK
  <1>1. Init => TypeInv
    BY InitType
  <1>2. TypeInv /\ [Next]_vars => TypeInv'
    BY TypeStep
  <1>3. TypeInv => TypeOK
    BY DEF TypeInv
  <1> QED
    BY <1>1, <1>2, <1>3, PTL DEF Spec

THEOREM Invariance ==
  ASSUME Quiet
  PROVE  Spec => []IInv
  <1>1. Init => IInv
    BY InitInv
  <1>2. IInv /\ [Next]_vars => IInv'
    BY StepInv
  <1> QED
    BY <1>1, <1>2, PTL DEF Spec

(* grant_locked(), try_acquire(), release(), merge() and forget() neither  *)
(* lose nor make permits. *)
THEOREM PermitsAreConserved ==
  ASSUME Quiet
  PROVE  Spec => []PermitsConserved
  <1>1. Init => Conserved
    BY InitConserved
  <1>2. IInv /\ Conserved /\ [Next]_vars => Conserved'
    BY StepConserves
  <1>3. Conserved => PermitsConserved
    BY DEF Conserved
  <1> QED
    BY <1>1, <1>2, <1>3, Invariance, PTL DEF Spec

(* head_, tail_, the waiters' pointers and has_waiters_ describe one queue.  *)
THEOREM QueueIsFaithful ==
  ASSUME Quiet
  PROVE  Spec => []QueueFaithful
  <1>1. IInv => QueueFaithful
    BY DEF IInv
  <1> QED
    BY <1>1, Invariance, PTL

(* A grant, the callback of a cancellation and the false of await_suspend() *)
(* do not continue a task twice, where whom a cancellation finds between   *)
(* arm() and the read of w_.cancelled has his permits.                     *)
THEOREM ResumedOnlyOnce ==
  ASSUME Quiet
  PROVE  Spec => []ResumedOnce
  <1>1. ASSUME IInv, NEW t \in Tasks PROVE Cardinality(Places(t)) <= 1
    <2>1. OnePlace(t)
      BY <1>1, Parts DEF TaskInv
    <2>2. ASSUME NEW p \in Places(t), NEW q \in Places(t) PROVE p = q
      BY <2>1 DEF OnePlace, Places, Runs, Suspending
    <2>3. Places(t) = {} \/ \E p : Places(t) = {p}
      BY <2>2
    <2>4. CASE Places(t) = {}
      BY <2>4, FS_EmptySet
    <2>5. CASE \E p : Places(t) = {p}
      <3>1. PICK p : Places(t) = {p}
        BY <2>5
      <3>2. Cardinality({p}) = 1
        BY FS_Singleton
      <3> QED
        BY <3>1, <3>2
    <2> QED
      BY <2>3, <2>4, <2>5
  <1>2. IInv => ResumedOnce
    BY <1>1 DEF ResumedOnce
  <1> QED
    BY <1>2, Invariance, PTL

-----------------------------------------------------------------------------
(* Permits come in the order of the line.                                  *)

NobodyOvertaken ==
    /\ \A t, u \in Tasks :
           acquired'[t] /\ ~acquired[t] /\ Ahead(u, t) => acquired'[u]
    /\ \A v \in Visitors : held'[v] > held[v] => line = <<>>

LEMMA NobodyGets ==
  ASSUME UNCHANGED acquired, TypeOK,
         \A v \in Visitors : held'[v] = held[v] \/ held'[v] = 0
  PROVE  NobodyOvertaken
  <1>1. ASSUME NEW v \in Visitors PROVE ~(held'[v] > held[v])
    <2>1. held[v] \in Nat
      BY SemaphoreAssumption DEF TypeOK
    <2> QED
      BY <2>1
  <1> QED
    BY <1>1 DEF NobodyOvertaken

LEMMA StepInOrder ==
  ASSUME IInv, [Next]_vars
  PROVE  NobodyOvertaken
  <1>1. TypeOK /\ LineOK /\ held \in [Visitors -> Nat]
    BY Parts, SemaphoreAssumption DEF TypeOK
  <1>2. ASSUME NEW n, Fits(n) PROVE line = <<>> /\ ToSet(line) = {}
    BY <1>1, <1>2, HeadOfLine, EmptySequence DEF Fits
  <1>3. ASSUME NEW th \in Threads, GrantFirst(th) PROVE NobodyOvertaken
    <2>1. First \in Tasks /\ line # <<>> /\ First = Head(line) /\ First \in ToSet(line)
      BY <1>3, GrantFirstChanges
    <2>2. /\ \A t \in Tasks : acquired'[t] /\ ~acquired[t] => t = First
          /\ held' = held
      BY <1>1, <1>3, <2>1 DEF GrantFirst, TypeOK, outside
    <2>3. Position(First) = 1 /\ Len(line) \in Nat
      BY <1>1, <2>1, HeadOfLine, PositionInLine
    <2>4. ASSUME NEW u \in ToSet(line) PROVE ~(Position(u) < 1)
      <3>1. PICK k \in 1..Len(line) : line[k] = u
        BY <1>1, ElementIndex DEF LineOK
      <3>2. Position(u) = k
        BY <1>1, <3>1, PositionInLine
      <3> QED
        BY <2>3, <3>2
    <2> QED
      BY <1>1, <2>1, <2>2, <2>3, <2>4 DEF NobodyOvertaken, Ahead
  <1>4. ASSUME NEW th \in Threads, Step(th), ~GrantFirst(th) PROVE NobodyOvertaken
    <2>1. CASE doing[th] # NoTask /\ Acquiring(th, doing[th])
      <3>1. PICK t \in Tasks : t = doing[th]
        BY <1>1, <2>1 DEF TypeOK
      <3>2. CASE TryAcquire(th, t)
        <4>1. CASE Fits(Need[t])
          <5>1. held' = held /\ ToSet(line) = {}
            BY <1>2, <3>2, <4>1 DEF TryAcquire, outside
          <5> QED
            BY <1>1, <5>1 DEF NobodyOvertaken, Ahead
        <4>2. CASE ~Fits(Need[t])
          BY <1>1, <3>2, <4>2, NobodyGets DEF TryAcquire, outside
        <4> QED
          BY <4>1, <4>2
      <3>3. CASE ~TryAcquire(th, t)
        <4>1. UNCHANGED <<acquired, held>>
          BY <2>1, <3>1, <3>3
          DEF Acquiring, TestScope, Arm, Enqueue, TestCancelled, Disarm, Take, semaphore, outside
        <4> QED
          BY <1>1, <4>1, NobodyGets
      <3> QED
        BY <3>2, <3>3
    <2>2. CASE AddPermits(th)
      BY <1>1, <2>2, NobodyGets DEF AddPermits
    <2>3. CASE \/ \E t \in Tasks : Wake(th, t)
               \/ GoOn(th) \/ GrantEnds(th) \/ TestWaiters(th) \/ Finish(th)
      <3>1. UNCHANGED <<acquired, held>>
        BY <2>3 DEF Wake, GoOn, GrantEnds, TestWaiters, Finish, semaphore, outside
      <3> QED
        BY <1>1, <3>1, NobodyGets
    <2> QED
      BY <1>4, <2>1, <2>2, <2>3 DEF Step
  <1>5. ASSUME NEW th \in Visitors, TryMore(th) \/ Forget(th) PROVE NobodyOvertaken
    <2>1. CASE TryMore(th)
      <3>1. line = <<>> /\ UNCHANGED acquired
        BY <1>2, <2>1 DEF TryMore
      <3> QED
        BY <3>1 DEF NobodyOvertaken
    <2>2. CASE Forget(th)
      BY <1>1, <2>2, NobodyGets DEF Forget, semaphore
    <2> QED
      BY <1>5, <2>1, <2>2
  <1>6. CASE \/ \E th \in Workers, t \in Tasks : Resume(th, t)
             \/ \E t \in Tasks : Cancel(t) \/ CancelStep(t)
             \/ UNCHANGED vars
    <2>1. UNCHANGED <<acquired, held>>
      BY <1>6
      DEF Resume, Cancel, CancelStep, Callback, CancelWakes, CancelUnlock, vars, semaphore, outside
    <2> QED
      BY <1>1, <2>1, NobodyGets
  <1> QED
    BY <1>3, <1>4, <1>5, <1>6 DEF Next

(* First come, first served: a waiter is overtaken neither by a later one  *)
(* nor by try_acquire(). *)
THEOREM InOrder ==
  ASSUME Quiet
  PROVE  Spec => FirstComeFirstServed
  <1>1. IInv /\ [Next]_vars => [NobodyOvertaken]_vars
    BY StepInOrder
  <1>2. [NobodyOvertaken]_vars =>
            [/\ \A t, u \in Tasks :
                    acquired'[t] /\ ~acquired[t] /\ Ahead(u, t) => acquired'[u]
             /\ \A v \in Visitors : held'[v] > held[v] => line = <<>>]_vars
    BY DEF NobodyOvertaken
  <1> QED
    BY <1>1, <1>2, Invariance, PTL DEF Spec, FirstComeFirstServed

-----------------------------------------------------------------------------
(* No lost wake-up.                                                        *)

(* Whoever may be cancelled asks for one permit: if he stands at the head  *)
(* and leaves, the one behind him could not have passed because of him.    *)
SmallCancelled == \A t \in Cancellable : Need[t] = 1

OnlyCancellable == \A t \in Tasks : scope[t] # "live" => t \in Cancellable

Waking == {"notify", "grant", "granting", "linked"}

LEMMA StepCancellable ==
  ASSUME TypeOK, OnlyCancellable, [Next]_vars
  PROVE  OnlyCancellable'
  <1>1. CASE UNCHANGED scope
    BY <1>1 DEF OnlyCancellable
  <1>2. ASSUME NEW t \in Tasks, Cancel(t) \/ CancelStep(t) PROVE OnlyCancellable'
    BY <1>2
    DEF OnlyCancellable, TypeOK, Cancel, CancelStep, Callback, CancelWakes, CancelUnlock
  <1>3. ASSUME NEW th \in Threads, Step(th) PROVE UNCHANGED scope
    <2>1. ASSUME NEW t, Acquiring(th, t) PROVE UNCHANGED scope
      BY <2>1
      DEF Acquiring, TestScope, TryAcquire, Arm, Enqueue, TestCancelled, Disarm, Take, guarding
    <2> QED
      BY <1>3, <2>1
      DEF Step, Wake, GoOn, GrantFirst, GrantEnds, AddPermits, TestWaiters, Finish, guarding
  <1>4. CASE \/ \E th \in Visitors : TryMore(th) \/ Forget(th)
             \/ \E th \in Workers, t \in Tasks : Resume(th, t)
             \/ UNCHANGED vars
    BY <1>1, <1>4 DEF TryMore, Forget, Resume, vars, guarding
  <1> QED
    BY <1>1, <1>2, <1>3, <1>4 DEF Next

(* A step in which the line, the permits and the threads that will look at *)
(* them stay, or the permits become fewer. *)
LEMMA StillLooking ==
  ASSUME NoIdlePermits, line' = line, permits' = permits \/ permits' < permits,
         permits \in Nat, permits' \in Nat, line \in Seq(Tasks),
         \A th \in Threads : at[th] \in Waking => at'[th] \in Waking
  PROVE  NoIdlePermits'
  <1> SUFFICES ASSUME line # <<>>, Need[Head(line)] <= permits'
               PROVE  \E th \in Threads : at'[th] \in Waking
    BY DEF NoIdlePermits, Waking
  <1>1. Need[Head(line)] \in Nat
    BY SemaphoreAssumption, HeadTailProperties
  <1>2. Need[Head(line)] <= permits
    BY <1>1
  <1> QED
    BY <1>2 DEF NoIdlePermits, Waking

LEMMA StepNoIdle ==
  ASSUME SmallCancelled, IInv, TypeInv', OnlyCancellable, NoIdlePermits, [Next]_vars
  PROVE  NoIdlePermits'
  <1>1. TypeOK /\ TypeOK' /\ LineOK /\ line \in Seq(Tasks) /\ permits \in Nat /\ permits' \in Nat
    BY Parts DEF TypeInv, LineOK, TypeOK
  <1>2. ASSUME NEW th \in Threads, at'[th] \in Waking PROVE NoIdlePermits'
    BY <1>2 DEF NoIdlePermits, Waking
  <1>3. ASSUME NEW th \in Threads, Step(th) PROVE NoIdlePermits'
    <2>1. CASE doing[th] # NoTask /\ Acquiring(th, doing[th])
      <3>1. PICK t \in Tasks : t = doing[th]
        BY <1>1, <2>1 DEF TypeOK
      <3>2. CASE Enqueue(th, t)
        <4>1. at'[th] = "linked"
          BY <1>1, <3>2 DEF Enqueue, Goes, TypeOK
        <4> QED
          BY <1>2, <4>1 DEF Waking
      <3>3. CASE TryAcquire(th, t)
        <4>1. /\ line' = line /\ (permits' = permits \/ permits' < permits)
              /\ at[th] = "try" /\ \A ot \in Threads \ {th} : at'[ot] = at[ot]
          BY <1>1, <3>3, SemaphoreAssumption DEF TryAcquire, Fits, Goes, TypeOK
        <4> QED
          BY <1>1, <4>1, StillLooking DEF Waking
      <3>4. CASE ~Enqueue(th, t) /\ ~TryAcquire(th, t)
        <4>1. /\ line' = line /\ permits' = permits
              /\ at[th] \notin Waking /\ \A ot \in Threads \ {th} : at'[ot] = at[ot]
          BY <1>1, <2>1, <3>1, <3>4
          DEF Acquiring, TestScope, Arm, TestCancelled, Disarm, Take, Stops, Goes, semaphore,
              TypeOK, Waking
        <4> QED
          BY <1>1, <4>1, StillLooking
      <3> QED
        BY <3>2, <3>3, <3>4
    <2>2. CASE GrantFirst(th)
      <3>1. at'[th] \in {"linked", "granting"}
        BY <1>1, <2>2 DEF GrantFirst, Granting, Goes, TypeOK
      <3> QED
        BY <1>2, <3>1 DEF Waking
    <2>3. CASE GrantEnds(th)
      <3>1. line' = line /\ permits' = permits /\ ~Enough
        BY <2>3 DEF GrantEnds, semaphore
      <3>2. line # <<>> => ~(Need[Head(line)] <= permits)
        BY <1>1, <3>1, HeadOfLine, SemaphoreAssumption, NilAssumption DEF Enough, First
      <3> QED
        BY <3>1, <3>2 DEF NoIdlePermits
    <2>4. CASE AddPermits(th)
      <3>1. at'[th] = "notify"
        BY <1>1, <2>4 DEF AddPermits, Goes, TypeOK
      <3> QED
        BY <1>2, <3>1 DEF Waking
    <2>5. CASE TestWaiters(th)
      <3>1. CASE has_waiters
        <4>1. at'[th] = "grant"
          BY <1>1, <2>5, <3>1 DEF TestWaiters, Goes, TypeOK
        <4> QED
          BY <1>2, <4>1 DEF Waking
      <3>2. CASE ~has_waiters
        <4>1. line' = <<>>
          BY <1>1, <2>5, <3>2 DEF TestWaiters, LineOK, QueueFaithful, semaphore
        <4> QED
          BY <4>1 DEF NoIdlePermits
      <3> QED
        BY <3>1, <3>2
    <2>6. CASE (\E t \in Tasks : Wake(th, t)) \/ GoOn(th) \/ Finish(th)
      <3>1. /\ line' = line /\ permits' = permits
            /\ \/ at' = at
               \/ at[th] \notin Waking /\ \A ot \in Threads \ {th} : at'[ot] = at[ot]
        BY <1>1, <2>6 DEF Wake, GoOn, Finish, Stops, Goes, semaphore, TypeOK, Waking
      <3> QED
        BY <1>1, <3>1, StillLooking
    <2> QED
      BY <1>3, <2>1, <2>2, <2>3, <2>4, <2>5, <2>6 DEF Step
  <1>4. ASSUME NEW t \in Tasks, Callback(t) PROVE NoIdlePermits'
    <2>1. at' = at /\ permits' = permits
      BY <1>4 DEF Callback, threads
    <2>2. CASE line' = line
      BY <1>1, <2>1, <2>2, StillLooking
    <2>3. CASE line' # line
      <3>1. /\ t \in ToSet(line) /\ line # <<>> /\ line' \in Seq(Tasks)
            /\ t # Head(line) => line' # <<>> /\ Head(line') = Head(line)
        BY <1>4, <2>3, CallbackChanges, EmptySequence
      <3>2. CASE t # Head(line)
        <4>1. Need[Head(line')] = Need[Head(line)]
          BY <3>1, <3>2
        <4>2. Need[Head(line)] <= permits => \E th \in Threads : at[th] \in Waking
          BY <3>1 DEF NoIdlePermits, Waking
        <4> QED
          BY <2>1, <4>1, <4>2 DEF NoIdlePermits, Waking
      <3>3. CASE t = Head(line)
        <4>1. Need[t] = 1
          BY <1>4, CallbackChanges DEF OnlyCancellable, SmallCancelled
        <4>2. CASE permits = 0
          <5>1. line' # <<>> => Head(line') \in Tasks
            BY <3>1, HeadTailProperties
          <5>2. line' # <<>> => ~(Need[Head(line')] <= 0)
            BY <5>1, SemaphoreAssumption
          <5> QED
            BY <2>1, <4>2, <5>2 DEF NoIdlePermits
        <4>3. CASE permits # 0
          <5>1. Need[Head(line)] <= permits
            BY <1>1, <3>3, <4>1, <4>3
          <5>2. \E th \in Threads : at[th] \in Waking
            BY <3>1, <5>1 DEF NoIdlePermits, Waking
          <5> QED
            BY <2>1, <5>2 DEF NoIdlePermits, Waking
        <4> QED
          BY <4>2, <4>3
      <3> QED
        BY <3>2, <3>3
    <2> QED
      BY <2>2, <2>3
  <1>5. ASSUME NEW th \in Visitors, TryMore(th) \/ Forget(th) PROVE NoIdlePermits'
    <2>1. th \in Threads
      BY Parts
    <2>2. /\ line' = line /\ (permits' = permits \/ permits' < permits)
          /\ at[th] = "outside" /\ \A ot \in Threads \ {th} : at'[ot] = at[ot]
      BY <1>1, <1>5, <2>1 DEF TryMore, Forget, Goes, semaphore, threads, TypeOK
    <2> QED
      BY <1>1, <2>2, StillLooking DEF Waking
  <1>6. ASSUME NEW th \in Workers, NEW t \in Tasks, Resume(th, t) PROVE NoIdlePermits'
    <2>1. th \in Threads
      BY Parts
    <2>2. /\ line' = line /\ permits' = permits
          /\ at[th] = "idle" /\ \A ot \in Threads \ {th} : at'[ot] = at[ot]
      BY <1>1, <1>6, <2>1 DEF Resume, Goes, semaphore, TypeOK
    <2> QED
      BY <1>1, <2>2, StillLooking DEF Waking
  <1>7. CASE (\E t \in Tasks : Cancel(t) \/ CancelWakes(t) \/ CancelUnlock(t)) \/ UNCHANGED vars
    <2>1. line' = line /\ permits' = permits /\ at' = at
      BY <1>7 DEF Cancel, CancelWakes, CancelUnlock, vars, semaphore, threads
    <2> QED
      BY <1>1, <2>1, StillLooking
  <1> QED
    BY <1>3, <1>4, <1>5, <1>6, <1>7 DEF Next, CancelStep

(* Permits that suffice for the first waiter do not lie idle: release() or *)
(* the waiter's own await_suspend() will look at the queue.                *)
THEOREM NoPermitsIdle ==
  ASSUME Quiet, SmallCancelled
  PROVE  Spec => []NoIdlePermits
  <1>1. Init => OnlyCancellable /\ NoIdlePermits
    BY DEF Init, OnlyCancellable, NoIdlePermits
  <1>2. IInv /\ OnlyCancellable /\ [Next]_vars => OnlyCancellable'
    BY StepCancellable, Parts
  <1>3. IInv /\ OnlyCancellable /\ NoIdlePermits /\ [Next]_vars => NoIdlePermits'
    BY StepNoIdle, TypeStep DEF IInv
  <1> QED
    BY <1>1, <1>2, <1>3, Invariance, PTL DEF Spec

-----------------------------------------------------------------------------
(* mutex.hpp, whose semaphore has one permit and whose guard always gives  *)
(* it back and never forgets it. *)

HoldingVisitors == {v \in Visitors : held[v] > 0}

MutualExclusion ==
    total = 1 =>
        /\ \A t, u \in Owed : t = u
        /\ \A v, w \in HoldingVisitors : v = w
        /\ Owed = {} \/ HoldingVisitors = {}

LEMMA OneElement ==
  ASSUME NEW S, IsFiniteSet(S), Cardinality(S) \in 0..1
  PROVE  \A p, q \in S : p = q
  <1>1. CASE Cardinality(S) = 0
    BY <1>1, FS_EmptySet
  <1>2. CASE Cardinality(S) = 1
    BY <1>2, FS_Singleton
  <1> QED
    BY <1>1, <1>2

(* While there is one permit, it is with one task or one visitor.          *)
THEOREM MutexExcludes ==
  ASSUME Quiet
  PROVE  Spec => []MutualExclusion
  <1>1. ASSUME TypeOK, Conserved, total = 1 PROVE MutualExclusion
    <2>1. /\ Cardinality(Given) \in 0..1 /\ Cardinality(Lent) \in 0..1
          /\ ~(Cardinality(Given) = 1 /\ Cardinality(Lent) = 1)
      BY <1>1, Sums
    <2>2. ASSUME NEW t \in Owed PROVE <<t, 1>> \in Given
      <3>1. 1 \in 1..Need[t]
        BY SemaphoreAssumption DEF Owed
      <3> QED
        BY <3>1 DEF Given
    <2>3. ASSUME NEW v \in HoldingVisitors PROVE <<v, 1>> \in Lent
      <3>1. v \in Visitors /\ 1 \in 1..held[v]
        BY <1>1, SemaphoreAssumption DEF HoldingVisitors, TypeOK
      <3> QED
        BY <3>1 DEF Lent
    <2>4. \A p, q \in Given : p = q
      BY <1>1, <2>1, OneElement DEF Conserved
    <2>5. \A p, q \in Lent : p = q
      BY <1>1, <2>1, OneElement DEF Conserved
    <2>6. Given = {} \/ Lent = {}
      BY <1>1, <2>1, FS_EmptySet DEF Conserved
    <2>7. \A t, u \in Owed : t = u
      BY <2>2, <2>4
    <2>8. \A v, w \in HoldingVisitors : v = w
      BY <2>3, <2>5
    <2> QED
      BY <2>2, <2>3, <2>6, <2>7, <2>8 DEF MutualExclusion
  <1>2. IInv /\ Conserved => MutualExclusion
    BY <1>1, Parts DEF MutualExclusion
  <1>3. Init => Conserved
    BY InitConserved
  <1>4. IInv /\ Conserved /\ [Next]_vars => Conserved'
    BY StepConserves
  <1> QED
    BY <1>2, <1>3, <1>4, Invariance, PTL DEF Spec

-----------------------------------------------------------------------------
(* The refinement.  A step moves one coroutine along, and leaves the       *)
(* others where they are.                                                  *)

(* Phase, of a state in which nobody is scheduled twice. *)
Stands(t) ==
    IF stage[t] = "done" THEN "ended"
    ELSE IF scheduled[t] > 0 THEN "woken"
    ELSE IF Awake(t) THEN "running" ELSE "suspended"

Still(u) == Stands(u)' = Stands(u) /\ (Requested(u)' <=> Requested(u))

Moved(t) ==
    /\ Requested(t) => Requested(t)'
    /\ \/ Stands(t)' = Stands(t)
       \/ /\ Requested(t)' <=> Requested(t)
          /\ \/ Stands(t) = "running" /\ Stands(t)' \in {"suspended", "ended"}
             \/ Stands(t) = "suspended" /\ Stands(t)' = "woken"
             \/ Stands(t) = "woken" /\ Stands(t)' = "running"

OfOneTask ==
    \/ \A u \in Tasks : Still(u)
    \/ \E t \in Tasks : Moved(t) /\ \A u \in Tasks \ {t} : Still(u)

LEMMA StillTask ==
  ASSUME NEW u \in Tasks, stage'[u] = stage[u], scheduled'[u] = scheduled[u],
         scope'[u] = scope[u], Awake(u)' <=> Awake(u)
  PROVE  Still(u)
  BY DEF Still, Stands, Requested

(* A thread has at most one task in hand, and lets go of it, keeps it or   *)
(* takes it. *)
LEMMA OthersAwake ==
  ASSUME TypeOK, NEW th \in Threads, NEW t,
         \A ot \in Threads \ {th} : at'[ot] = at[ot] /\ doing'[ot] = doing[ot],
         doing[th] \in {t, NoTask}, doing'[th] \in {t, NoTask}
  PROVE  \A u \in Tasks \ {t} : Awake(u)' <=> Awake(u)
  BY SemaphoreAssumption DEF Awake

(* A task that waits is in nobody's hands. *)
LEMMA NotAwake ==
  ASSUME IInv, NEW t \in Tasks,
         scope[t] = "waking" \/ \E th \in Threads : t \in buf[th]
  PROVE  Stands(t) = "suspended" /\ ~Awake(t) /\ stage[t] = "awaiting" /\ scheduled[t] = 0
  <1>1. TaskInv(t) /\ TypeOK
    BY Parts
  <1>2. stage[t] = "awaiting" /\ scheduled[t] = 0
    BY <1>1 DEF TaskInv, OnePlace, Staged, Guarded
  <1>3. ASSUME NEW th \in Threads, doing[th] = t PROVE at[th] = "queued"
    <2>1. ~Runs(th, t)
      BY <1>1 DEF TaskInv, OnePlace
    <2>2. at[th] \notin {"enqueue", "linked"}
      BY <1>1, <1>3 DEF TaskInv, Running, Asleep
    <2> QED
      BY <1>3, <2>1, <2>2 DEF Runs, Suspending
  <1> QED
    BY <1>2, <1>3 DEF Stands, Awake

LEMMA AcquiringMoves ==
  ASSUME IInv, Quiet, NEW th \in Threads, NEW t \in Tasks, doing[th] = t, Acquiring(th, t)
  PROVE  OfOneTask
  <1>0. TypeOK /\ TaskInv(t) /\ ThreadInv(th) /\ NoTask \notin Tasks /\ th \in Workers
    <2>1. th \in Visitors => doing[th] = NoTask
      BY Parts DEF ThreadInv
    <2> QED
      BY <2>1, Parts, SemaphoreAssumption DEF Threads
  <1> USE <1>0 DEF guarding
  <1>1. CASE TestScope(th, t) \/ TryAcquire(th, t) \/ Arm(th, t) \/ Enqueue(th, t)
             \/ Disarm(th, t)
    <2>1. /\ at[th] # "queued" /\ at'[th] # "queued"
          /\ \A ot \in Threads \ {th} : at'[ot] = at[ot]
          /\ UNCHANGED <<scope, scheduled, doing>>
          /\ \A u \in Tasks \ {t} : stage'[u] = stage[u]
      BY <1>1 DEF TestScope, TryAcquire, Arm, Enqueue, Disarm, Goes, Reaches, TypeOK
    <2>2. Awake(t) /\ Awake(t)'
      BY <2>1 DEF Awake
    <2>3. stage[t] # "done" /\ stage'[t] # "done"
      BY <1>1 DEF TestScope, TryAcquire, Arm, Enqueue, Disarm, Reaches, TypeOK, TaskInv, Running
    <2>4. Moved(t)
      BY <2>1, <2>2, <2>3 DEF Moved, Stands, Requested
    <2>5. \A u \in Tasks \ {t} : Still(u)
      BY <2>1, OthersAwake, StillTask
    <2> QED
      BY <2>4, <2>5 DEF OfOneTask
  <1>2. CASE TestCancelled(th, t)
    <2>1. ~cancelled[t] /\ at[th] = "queued"
      BY <1>2 DEF TestCancelled, TaskInv, Running, Guarded
    <2>2. /\ doing'[th] = NoTask
          /\ \A ot \in Threads \ {th} : at'[ot] = at[ot] /\ doing'[ot] = doing[ot]
          /\ UNCHANGED <<scope, stage, scheduled>>
      BY <1>2, <2>1 DEF TestCancelled, Quiet, Stops, Goes, TypeOK
    <2>3. Awake(t)' <=> Awake(t)
      BY <2>1, <2>2 DEF Awake
    <2>4. \A u \in Tasks : Still(u)
      BY <2>2, <2>3, OthersAwake, StillTask
    <2> QED
      BY <2>4 DEF OfOneTask
  <1>3. CASE Take(th, t)
    <2>1. /\ at[th] = "take" /\ stage[t] # "done" /\ scheduled[t] = 0
          /\ \/ stage'[t] = "done"
             \/ stage'[t] = "holding" /\ at'[th] = "release" /\ doing'[th] = t
          /\ doing'[th] \in {t, NoTask}
          /\ \A ot \in Threads \ {th} : at'[ot] = at[ot] /\ doing'[ot] = doing[ot]
          /\ UNCHANGED <<scope, scheduled>>
          /\ \A u \in Tasks \ {t} : stage'[u] = stage[u]
      BY <1>3
      DEF Take, Stops, Goes, Reaches, TypeOK, TaskInv, Running, OnePlace, Runs, Suspending
    <2>2. Stands(t) = "running" /\ Stands(t)' \in {"running", "ended"}
      BY <2>1 DEF Stands, Awake
    <2>3. Moved(t)
      BY <2>1, <2>2 DEF Moved, Requested
    <2>4. \A u \in Tasks \ {t} : Still(u)
      BY <2>1, OthersAwake, StillTask
    <2> QED
      BY <2>3, <2>4 DEF OfOneTask
  <1> QED
    BY <1>1, <1>2, <1>3 DEF Acquiring

LEMMA GrantMoves ==
  ASSUME IInv, NEW th \in Threads, GrantFirst(th) \/ GrantEnds(th)
  PROVE  OfOneTask
  <1>0. /\ TypeOK /\ LineOK /\ OneHolder /\ ThreadInv(th) /\ \A t \in Tasks : TaskInv(t)
        /\ NoTask \notin Tasks
    BY Parts, SemaphoreAssumption
  <1> USE <1>0 DEF guarding
  <1>1. CASE GrantFirst(th)
    <2>1. /\ First \in Tasks /\ First \in ToSet(line)
          /\ at[th] # "queued" /\ at'[th] # "queued"
          /\ \A ot \in Threads \ {th} : at'[ot] = at[ot]
          /\ UNCHANGED <<scope, stage, doing>>
      BY <1>1, HeadOfLine DEF GrantFirst, Granting, Enough, First, Goes, TypeOK
    <2>2. \A u \in Tasks : Awake(u)' <=> Awake(u)
      BY <2>1 DEF Awake
    <2>3. CASE scheduled' = scheduled
      BY <2>1, <2>2, <2>3, StillTask DEF OfOneTask
    <2>4. CASE scheduled' # scheduled
      <3>0. PICK t \in Tasks : t = First
        BY <2>1
      <3>1. /\ t # Self(th) /\ scheduled'[t] = scheduled[t] + 1
            /\ \A u \in Tasks \ {t} : scheduled'[u] = scheduled[u]
        BY <1>1, <2>1, <2>4, <3>0 DEF GrantFirst, TypeOK
      <3>2. Asleep(t) /\ stage[t] = "awaiting"
        BY <2>1, <3>0 DEF TaskInv, InLine
      <3>3. ASSUME NEW ot \in Threads, doing[ot] = t PROVE at[ot] = "queued"
        <4>1. at[ot] \in {"linked", "queued"}
          <5>1. at[ot] \in {"enqueue", "linked", "queued"}
            BY <3>2, <3>3 DEF Asleep, Runs, Suspending
          <5>2. Running(ot, t)
            BY DEF TaskInv
          <5>3. t \in ToSet(line)
            BY <2>1, <3>0
          <5> QED
            BY <3>3, <5>1, <5>2, <5>3 DEF Running
        <4>2. at[ot] = "linked" => ot = th
          BY <1>1 DEF GrantFirst, Granting, Unlocked, OneHolder, Holding
        <4>3. ot = th => at[th] # "linked"
          BY <3>1, <3>3 DEF Self
        <4> QED
          BY <4>1, <4>2, <4>3
      <3>4. Stands(t) = "suspended" /\ Stands(t)' = "woken"
        BY <2>1, <3>1, <3>2, <3>3 DEF Stands, Awake, Asleep
      <3>5. Moved(t)
        BY <2>1, <3>4 DEF Moved, Requested
      <3>6. \A u \in Tasks \ {t} : Still(u)
        BY <2>1, <2>2, <3>1, StillTask
      <3> QED
        BY <2>1, <3>5, <3>6 DEF OfOneTask
    <2> QED
      BY <2>3, <2>4
  <1>2. CASE GrantEnds(th)
    <2>1. /\ at[th] # "queued"
          /\ \/ at[th] = "linked" /\ at'[th] \in {"queued", "granted"}
             \/ at[th] # "linked" /\ at'[th] = "waking"
          /\ \A ot \in Threads \ {th} : at'[ot] = at[ot]
          /\ UNCHANGED <<scope, stage, scheduled, doing>>
      BY <1>2 DEF GrantEnds, Granting, Outcome, Goes, TypeOK
    <2>2. CASE at'[th] # "queued"
      <3>1. \A u \in Tasks : Awake(u)' <=> Awake(u)
        BY <2>1, <2>2 DEF Awake
      <3> QED
        BY <2>1, <3>1, StillTask DEF OfOneTask
    <2>3. CASE at'[th] = "queued"
      <3>1. PICK t \in Tasks : doing[th] = t /\ at[th] = "linked"
        BY <2>1, <2>3 DEF ThreadInv, TypeOK, Threads, Releasing
      <3>2. /\ Asleep(t) /\ stage[t] = "awaiting"
            /\ \A ot \in Threads : doing[ot] = t => ot = th
        BY <3>1 DEF TaskInv, Running, Staged, Asleep, Runs, Suspends, Suspending
      <3>3. Stands(t) = "running" /\ Stands(t)' = "suspended"
        BY <2>1, <2>3, <3>1, <3>2 DEF Stands, Awake, Asleep
      <3>4. Moved(t)
        BY <2>1, <3>3 DEF Moved, Requested
      <3>5. \A u \in Tasks \ {t} : Still(u)
        BY <2>1, <3>1, OthersAwake, StillTask
      <3> QED
        BY <3>4, <3>5 DEF OfOneTask
    <2> QED
      BY <2>2, <2>3
  <1> QED
    BY <1>1, <1>2

LEMMA ThreadMoves ==
  ASSUME IInv, NEW th \in Threads,
         (\E t \in Tasks : Wake(th, t)) \/ GoOn(th) \/ AddPermits(th) \/ TestWaiters(th)
         \/ Finish(th)
  PROVE  OfOneTask
  <1>0. /\ TypeOK /\ ThreadInv(th) /\ \A t \in Tasks : TaskInv(t)
        /\ NoTask \notin Tasks
    BY Parts, SemaphoreAssumption
  <1> USE <1>0 DEF guarding
  <1>1. ASSUME NEW t \in Tasks, Wake(th, t) PROVE OfOneTask
    <2>1. /\ t \in buf[th] /\ scheduled'[t] = scheduled[t] + 1
          /\ \A u \in Tasks \ {t} : scheduled'[u] = scheduled[u]
          /\ UNCHANGED <<scope, stage, at, doing>>
      BY <1>1 DEF Wake, TypeOK
    <2>2. \A u \in Tasks : Awake(u)' <=> Awake(u)
      BY <2>1 DEF Awake
    <2>3. Stands(t) = "suspended" /\ Stands(t)' = "woken"
      BY <2>1, NotAwake DEF Stands
    <2>4. Moved(t)
      BY <2>1, <2>3 DEF Moved, Requested
    <2>5. \A u \in Tasks \ {t} : Still(u)
      BY <2>1, <2>2, StillTask
    <2> QED
      BY <2>4, <2>5 DEF OfOneTask
  <1>2. CASE GoOn(th)
    <2>1. /\ at[th] # "queued" /\ at'[th] # "queued"
          /\ \A ot \in Threads \ {th} : at'[ot] = at[ot]
          /\ UNCHANGED <<scope, stage, scheduled, doing>>
      BY <1>2 DEF GoOn, Goes, TypeOK
    <2>2. \A u \in Tasks : Awake(u)' <=> Awake(u)
      BY <2>1 DEF Awake
    <2> QED
      BY <2>1, <2>2, StillTask DEF OfOneTask
  <1>3. CASE AddPermits(th)
    <2>1. /\ at[th] \in {"release", "outside"} /\ at'[th] = "notify"
          /\ \A u \in Tasks : stage'[u] = IF u = doing[th] THEN "done" ELSE stage[u]
          /\ \A ot \in Threads \ {th} : at'[ot] = at[ot]
          /\ UNCHANGED <<scope, scheduled, doing>>
      BY <1>3 DEF AddPermits, Goes, TypeOK
    <2>2. \A u \in Tasks : Awake(u)' <=> Awake(u)
      BY <2>1 DEF Awake
    <2>3. \A u \in Tasks \ {doing[th]} : Still(u)
      BY <2>1, <2>2, StillTask
    <2>4. CASE doing[th] \notin Tasks
      BY <2>3, <2>4 DEF OfOneTask
    <2>5. ASSUME NEW t \in Tasks, doing[th] = t PROVE OfOneTask
      <3>1. at[th] = "release" /\ stage[t] = "holding" /\ scheduled[t] = 0
        BY <2>1, <2>5
        DEF ThreadInv, Threads, Releasing, TaskInv, Running, OnePlace, Runs, Suspending
      <3>2. Stands(t) = "running" /\ Stands(t)' = "ended"
        BY <2>1, <2>5, <3>1 DEF Stands, Awake
      <3>3. Moved(t)
        BY <2>1, <3>2 DEF Moved, Requested
      <3> QED
        BY <2>3, <2>5, <3>3 DEF OfOneTask
    <2> QED
      BY <2>4, <2>5
  <1>4. CASE TestWaiters(th) \/ Finish(th)
    <2>1. /\ at[th] \in Releasing
          /\ doing'[th] \in {doing[th], NoTask}
          /\ \A ot \in Threads \ {th} : at'[ot] = at[ot] /\ doing'[ot] = doing[ot]
          /\ UNCHANGED <<scope, stage, scheduled>>
      BY <1>4 DEF TestWaiters, Finish, Stops, Goes, Releasing, TypeOK
    <2>2. ASSUME NEW u \in Tasks PROVE Still(u)
      <3>1. CASE doing[th] = u
        <4>1. stage[u] = "done"
          BY <2>1, <3>1 DEF TaskInv, Running
        <4> QED
          BY <2>1, <4>1 DEF Still, Stands, Requested
      <3>2. CASE doing[th] # u
        <4>1. Awake(u)' <=> Awake(u)
          BY <2>1, <3>2 DEF Awake
        <4> QED
          BY <2>1, <4>1, StillTask
      <3> QED
        BY <3>1, <3>2
    <2> QED
      BY <2>2 DEF OfOneTask
  <1> QED
    BY <1>1, <1>2, <1>3, <1>4

LEMMA ResumeMoves ==
  ASSUME IInv, NEW th \in Workers, NEW t \in Tasks, Resume(th, t)
  PROVE  OfOneTask
  <1>0. /\ TypeOK /\ ThreadInv(th) /\ TaskInv(t) /\ th \in Threads
    BY Parts
  <1> USE <1>0 DEF guarding
  <1>1. /\ doing[th] = NoTask /\ doing'[th] = t /\ at'[th] # "queued"
        /\ scheduled[t] = 1 /\ scheduled'[t] = 0 /\ stage[t] # "done"
        /\ \A u \in Tasks \ {t} : scheduled'[u] = scheduled[u]
        /\ \A ot \in Threads \ {th} : at'[ot] = at[ot] /\ doing'[ot] = doing[ot]
        /\ UNCHANGED <<scope, stage>>
    BY DEF Resume, Goes, ThreadInv, TaskInv, OnePlace, Staged, TypeOK
  <1>2. Stands(t) = "woken" /\ Stands(t)' = "running"
    BY <1>1 DEF Stands, Awake
  <1>3. Moved(t)
    BY <1>1, <1>2 DEF Moved, Requested
  <1>4. \A u \in Tasks \ {t} : Still(u)
    BY <1>1, OthersAwake, StillTask
  <1> QED
    BY <1>3, <1>4 DEF OfOneTask

LEMMA OutsideMoves ==
  ASSUME IInv,
         \/ \E th \in Visitors : TryMore(th) \/ Forget(th)
         \/ \E t \in Tasks : Cancel(t) \/ CancelStep(t)
  PROVE  OfOneTask
  <1>0. TypeOK /\ \A th \in Visitors : doing[th] = NoTask /\ th \in Threads
    BY Parts DEF ThreadInv
  <1> USE <1>0 DEF guarding, threads
  <1>1. ASSUME NEW th \in Visitors, TryMore(th) \/ Forget(th) PROVE OfOneTask
    <2>1. /\ \A ot \in Threads \ {th} : at'[ot] = at[ot]
          /\ UNCHANGED <<scope, stage, scheduled, doing>>
      BY <1>1 DEF TryMore, Forget, Goes, TypeOK
    <2>2. \A u \in Tasks : Awake(u)' <=> Awake(u)
      BY <2>1, SemaphoreAssumption DEF Awake
    <2> QED
      BY <2>1, <2>2, StillTask DEF OfOneTask
  <1>2. ASSUME NEW t \in Tasks, Cancel(t) \/ CancelStep(t) PROVE OfOneTask
    <2>1. /\ UNCHANGED <<stage, at, doing>>
          /\ scope'[t] # "live"
          /\ \A u \in Tasks \ {t} : scope'[u] = scope[u] /\ scheduled'[u] = scheduled[u]
          /\ scheduled' = scheduled \/ CancelWakes(t)
      BY <1>2 DEF Cancel, CancelStep, Callback, CancelWakes, CancelUnlock, TypeOK
    <2>2. \A u \in Tasks : Awake(u)' <=> Awake(u)
      BY <2>1 DEF Awake
    <2>3. \A u \in Tasks \ {t} : Still(u)
      BY <2>1, <2>2, StillTask
    <2>4. CASE scheduled' = scheduled
      <3>1. Stands(t)' = Stands(t)
        BY <2>1, <2>2, <2>4 DEF Stands
      <3> QED
        BY <2>1, <2>3, <3>1 DEF Moved, Requested, OfOneTask
    <2>5. CASE CancelWakes(t)
      <3>1. scope[t] = "waking" /\ scheduled'[t] = scheduled[t] + 1
        BY <2>5 DEF CancelWakes, TypeOK
      <3>2. Stands(t) = "suspended" /\ Stands(t)' = "woken"
        BY <2>1, <3>1, NotAwake DEF Stands
      <3>3. Moved(t)
        BY <2>1, <3>1, <3>2 DEF Moved, Requested
      <3> QED
        BY <2>3, <3>3 DEF OfOneTask
    <2> QED
      BY <2>1, <2>4, <2>5
  <1> QED
    BY <1>1, <1>2

LEMMA StepMoves ==
  ASSUME IInv, Quiet, [Next]_vars
  PROVE  OfOneTask
  <1>1. ASSUME NEW th \in Threads, Step(th) PROVE OfOneTask
    <2>1. CASE doing[th] # NoTask /\ Acquiring(th, doing[th])
      <3>1. doing[th] \in Tasks
        BY <2>1, Parts DEF TypeOK
      <3> QED
        BY <2>1, <3>1, AcquiringMoves
    <2> QED
      BY <1>1, <2>1, GrantMoves, ThreadMoves DEF Step
  <1>2. ASSUME NEW th \in Workers, NEW t \in Tasks, Resume(th, t) PROVE OfOneTask
    BY <1>2, ResumeMoves
  <1>3. CASE UNCHANGED vars
    BY <1>3
    DEF vars, guarding, threads, OfOneTask, Still, Stands, Awake, Requested
  <1> QED
    BY <1>1, <1>2, <1>3, OutsideMoves DEF Next

Aligned == \A t \in Tasks : Phase(t) = Stands(t)

LEMMA PhaseStands == IInv => Aligned
  <1> SUFFICES ASSUME IInv, NEW t \in Tasks PROVE Phase(t) = Stands(t)
    BY DEF Aligned
  <1>1. TypeOK /\ TaskInv(t)
    BY Parts DEF TypeOK
  <1>2. scheduled[t] \in 0..1 /\ (scheduled[t] = 1 => stage[t] # "done")
    BY <1>1 DEF TaskInv, OnePlace, Staged
  <1>3. scheduled[t] = 1 => ~Awake(t)
    BY <1>1 DEF Awake, TaskInv, OnePlace, Running, Asleep, Runs, Suspending
  <1> QED
    BY <1>2, <1>3 DEF Phase, Stands

LEMMA MovesPhase ==
  ASSUME Aligned, Aligned', NEW t \in Tasks, \A u \in Tasks \ {t} : Still(u),
         Requested(t)' <=> Requested(t),
         NEW from, NEW to, Stands(t) = from, Stands(t)' = to
  PROVE  Promise!Moves(t, from, to)
  <1>1. {u \in Tasks : Requested(u)}' = {u \in Tasks : Requested(u)}
    BY DEF Still, Aligned
  <1>2. [u \in Tasks |-> Phase(u)]' = [[u \in Tasks |-> Phase(u)] EXCEPT ![t] = to]
    BY DEF Still, Aligned
  <1> QED
    BY <1>1, <1>2 DEF Promise!Moves, Aligned

LEMMA StaysPhase ==
  ASSUME Aligned, Aligned', NEW t \in Tasks, \A u \in Tasks \ {t} : Still(u),
         Stands(t)' = Stands(t),
         Requested(t) => Requested(t)'
  PROVE  Promise!Cancel(t) \/ UNCHANGED Promise!vars
  <1>1. [u \in Tasks |-> Phase(u)]' = [u \in Tasks |-> Phase(u)]
    BY DEF Still, Aligned
  <1>2. CASE Requested(t)' <=> Requested(t)
    <2>1. {u \in Tasks : Requested(u)}' = {u \in Tasks : Requested(u)}
      BY <1>2 DEF Still, Aligned
    <2> QED
      BY <1>1, <2>1 DEF Promise!vars
  <1>3. CASE ~Requested(t) /\ Requested(t)'
    <2>1. {u \in Tasks : Requested(u)}' = {u \in Tasks : Requested(u)} \union {t}
      BY <1>3 DEF Still, Aligned
    <2> QED
      BY <1>1, <1>3, <2>1 DEF Promise!Cancel
  <1> QED
    BY <1>2, <1>3

(* acquire() keeps the promise of Await: a coroutine that is suspended is  *)
(* woken once, by a grant or by its cancellation, and only then runs.      *)
THEOREM KeepsPromise ==
  ASSUME Quiet
  PROVE  Spec => Promise!Spec
  <1>1. Init => Promise!Init
    <2> SUFFICES ASSUME Init PROVE Promise!Init
      OBVIOUS
    <2>1. \A t \in Tasks : Stands(t) = "woken" /\ ~Requested(t)
      BY DEF Init, Stands, Requested
    <2>2. Aligned
      BY InitInv, PhaseStands
    <2> QED
      BY <2>1, <2>2 DEF Promise!Init, Aligned
  <1>2. IInv => Aligned
    BY PhaseStands
  <1>3. IInv /\ Aligned /\ Aligned' /\ [Next]_vars => [Promise!Next]_(Promise!vars)
    <2> SUFFICES ASSUME IInv, Aligned, Aligned', [Next]_vars
                 PROVE  [Promise!Next]_(Promise!vars)
      OBVIOUS
    <2>1. CASE \A u \in Tasks : Still(u)
      BY <2>1 DEF Still, Aligned, Promise!vars
    <2>2. ASSUME NEW t \in Tasks, Moved(t), \A u \in Tasks \ {t} : Still(u)
          PROVE  [Promise!Next]_(Promise!vars)
      <3>1. CASE Stands(t)' = Stands(t)
        BY <2>2, <3>1, StaysPhase DEF Moved, Promise!Next
      <3>2. CASE Stands(t)' # Stands(t)
        <4>1. \/ Promise!Moves(t, "running", "suspended")
              \/ Promise!Moves(t, "suspended", "woken")
              \/ Promise!Moves(t, "woken", "running")
              \/ Promise!Moves(t, "running", "ended")
          BY <2>2, <3>2, MovesPhase DEF Moved, Aligned
        <4> QED
          BY <4>1 DEF Promise!Next, Promise!Suspend, Promise!Wake, Promise!Resume, Promise!End
      <3> QED
        BY <3>1, <3>2
    <2> QED
      BY <2>1, <2>2, StepMoves DEF OfOneTask
  <1> QED
    BY <1>1, <1>2, <1>3, Invariance, PTL DEF Spec, Promise!Spec

-----------------------------------------------------------------------------
(* The semaphore as its users see it.                                      *)

LEMMA NothingSeen ==
  ASSUME UNCHANGED <<permits, line, acquired, stage, held>>
  PROVE  UNCHANGED Fifo!fifoVars
  BY DEF Fifo!fifoVars, Owed

LEMMA AcquiringSeen ==
  ASSUME IInv, NEW th \in Workers, NEW t \in Tasks, doing[th] = t, Acquiring(th, t)
  PROVE  [Fifo!Next]_(Fifo!fifoVars)
  <1>1. TypeOK /\ LineOK /\ th \in Threads /\ TaskInv(t)
    BY Parts
  <1>2. CASE TestScope(th, t) \/ TestCancelled(th, t) \/ Disarm(th, t)
    BY <1>2, NothingSeen DEF TestScope, TestCancelled, Disarm, semaphore, outside
  <1>3. CASE Arm(th, t) \/ Take(th, t)
    <2>1. UNCHANGED <<permits, line, acquired, held>>
      BY <1>3 DEF Arm, Take, semaphore, outside
    <2>2. stage[t] # "done" /\ (acquired[t] => stage'[t] # "done")
      BY <1>1, <1>3 DEF Arm, Take, TaskInv, Running, Reaches, TypeOK
    <2>3. \A u \in Tasks \ {t} : stage'[u] = stage[u]
      BY <1>1, <1>3 DEF Arm, Take, Reaches, TypeOK
    <2>4. Owed' = Owed
      BY <2>1, <2>2, <2>3 DEF Owed
    <2> QED
      BY <2>1, <2>4 DEF Fifo!fifoVars
  <1>4. CASE Enqueue(th, t)
    <2>1. t \notin ToSet(line) /\ ~cancelled[t] /\ ~acquired[t]
      BY <1>1, <1>4 DEF Enqueue, TaskInv, Running, Guarded
    <2>2. line' = Append(line, t) /\ UNCHANGED <<permits, acquired, stage, held>>
      BY <1>4, <2>1 DEF Enqueue, outside
    <2>3. Owed' = Owed /\ t \notin Owed
      BY <2>1, <2>2 DEF Owed
    <2>4. Fifo!Join(t)
      BY <2>1, <2>2, <2>3 DEF Fifo!Join, Fifo!ToSet, ToSet
    <2> QED
      BY <2>4 DEF Fifo!Next
  <1>5. CASE TryAcquire(th, t)
    <2>1. CASE Fits(Need[t])
      <3>1. /\ permits' = permits - Need[t] /\ Need[t] <= permits
            /\ acquired'[t] = TRUE /\ \A u \in Tasks \ {t} : acquired'[u] = acquired[u]
            /\ UNCHANGED <<line, held, stage>>
        BY <1>1, <1>5, <2>1 DEF TryAcquire, Fits, TypeOK, outside
      <3>2. line = <<>>
        BY <1>1, <2>1, HeadOfLine DEF Fits
      <3>3. stage[t] = "new" /\ ~acquired[t]
        BY <1>1, <1>5 DEF TryAcquire, TaskInv, Running
      <3>4. t \notin Owed /\ Owed' = Owed \union {t}
        BY <3>1, <3>3 DEF Owed
      <3>5. Fifo!Take(t)
        BY <3>1, <3>2, <3>4 DEF Fifo!Take, Fifo!Has
      <3> QED
        BY <3>5 DEF Fifo!Next
    <2>2. CASE ~Fits(Need[t])
      BY <1>5, <2>2, NothingSeen DEF TryAcquire, outside
    <2> QED
      BY <2>1, <2>2
  <1> QED
    BY <1>2, <1>3, <1>4, <1>5 DEF Acquiring

LEMMA GrantSeen ==
  ASSUME IInv, NEW th \in Threads, GrantFirst(th)
  PROVE  Fifo!Serve
  <1>1. PICK f \in Tasks : f = First
    BY GrantFirstChanges
  <1>2. TypeOK /\ LineOK /\ ~acquired[f] /\ stage[f] = "awaiting" /\ line # <<>> /\ f = Head(line)
    BY <1>1, GrantFirstChanges, Parts
  <1>3. /\ permits' = permits - Need[f] /\ Need[f] <= permits
        /\ acquired'[f] = TRUE /\ \A u \in Tasks \ {f} : acquired'[u] = acquired[u]
        /\ UNCHANGED <<held, stage>> /\ line' = LineWithout(f)
    BY <1>1, <1>2 DEF GrantFirst, Enough, TypeOK, outside
  <1>4. Owed' = Owed \union {f}
    BY <1>2, <1>3 DEF Owed
  <1>5. LineWithout(f) = Tail(line)
    <2>1. line[1] = f /\ f \in ToSet(line) /\ 1 \in 1..Len(line) /\ line \in Seq(Tasks)
      BY <1>2, HeadOfLine DEF LineOK
    <2>2. Position(f) = 1
      BY <1>2, <2>1, PositionInLine
    <2>3. LineWithout(f) = RemoveAt(line, 1)
      BY <2>1, <2>2 DEF LineWithout
    <2> QED
      BY <1>2, <2>1, <2>3, RemoveAtHead
  <1> QED
    BY <1>2, <1>3, <1>4, <1>5 DEF Fifo!Serve, Fifo!Has

LEMMA ReleaseSeen ==
  ASSUME IInv, NEW th \in Threads, AddPermits(th)
  PROVE  Fifo!Next
  <1>1. TypeOK /\ ThreadInv(th) /\ NoTask \notin Tasks
    BY Parts, SemaphoreAssumption
  <1>2. UNCHANGED <<acquired, line>> /\ permits' = permits + Amount(th)
    BY DEF AddPermits
  <1>3. CASE th \in Workers
    <2>1. th \notin Visitors /\ at[th] = "release"
      BY <1>1, <1>3, SemaphoreAssumption DEF AddPermits, ThreadInv
    <2>2. PICK t \in Tasks : t = doing[th]
      BY <1>1, <1>3, <2>1 DEF ThreadInv, TypeOK
    <2>3. stage[t] = "holding" /\ acquired[t]
      BY <2>1, <2>2, Parts DEF TaskInv, Running
    <2>4. \A u \in Tasks : stage'[u] = IF u = t THEN "done" ELSE stage[u]
      BY <2>2 DEF AddPermits
    <2>5. held' = held
      <3>1. held' = [v \in Visitors |-> held[v]]
        BY <2>1 DEF AddPermits
      <3> QED
        BY <1>1, <3>1 DEF TypeOK
    <2>6. permits' = permits + Need[t]
      BY <1>2, <1>3, <2>2 DEF Amount
    <2>7. t \in Owed /\ Owed' = Owed \ {t}
      BY <1>2, <2>3, <2>4 DEF Owed
    <2>8. Fifo!GiveBack(t)
      BY <1>2, <2>5, <2>6, <2>7 DEF Fifo!GiveBack
    <2> QED
      BY <2>8 DEF Fifo!Next
  <1>4. CASE th \in Visitors
    <2>1. th \notin Workers /\ doing[th] = NoTask
      BY <1>1, <1>4, SemaphoreAssumption DEF ThreadInv
    <2>2. stage' = stage
      BY <1>1, <2>1 DEF AddPermits, TypeOK
    <2>3. Owed' = Owed
      BY <1>2, <2>2 DEF Owed
    <2>4. held' = [held EXCEPT ![th] = 0] /\ held[th] \in Nat
      <3>1. held' = [v \in Visitors |-> IF v = th THEN 0 ELSE held[v]]
        BY DEF AddPermits
      <3>2. held \in [Visitors -> Nat]
        BY <1>1, SemaphoreAssumption DEF TypeOK
      <3> QED
        BY <1>4, <3>1, <3>2
    <2>5. CASE held[th] > 0
      <3>1. permits' = permits + held[th]
        BY <1>2, <2>1, <2>5 DEF Amount
      <3>2. Fifo!GiveAll(th)
        BY <1>2, <2>3, <2>4, <3>1 DEF Fifo!GiveAll, Fifo!Drop
      <3> QED
        BY <1>4, <3>2 DEF Fifo!Next
    <2>6. CASE held[th] = 0
      <3>1. permits' = permits + 1
        BY <1>2, <2>1, <2>6 DEF Amount
      <3>2. held' = held
        BY <1>1, <1>4, <2>4, <2>6 DEF TypeOK
      <3>3. Fifo!Add
        BY <1>2, <2>3, <3>1, <3>2 DEF Fifo!Add
      <3> QED
        BY <3>3 DEF Fifo!Next
    <2> QED
      BY <2>4, <2>5, <2>6
  <1> QED
    BY <1>3, <1>4 DEF Threads

LEMMA VisitorSeen ==
  ASSUME IInv, NEW th \in Visitors, TryMore(th) \/ Forget(th)
  PROVE  Fifo!Next
  <1>1. TypeOK /\ LineOK
    BY Parts
  <1>2. CASE TryMore(th)
    <2>1. /\ permits > 0 /\ permits' = permits - 1 /\ held' = [held EXCEPT ![th] = @ + 1]
          /\ UNCHANGED <<line, acquired, stage>>
      BY <1>1, <1>2 DEF TryMore, Merged, Fits, TypeOK
    <2>2. line = <<>>
      BY <1>1, <1>2, HeadOfLine DEF TryMore, Fits
    <2>3. Owed' = Owed
      BY <2>1 DEF Owed
    <2>4. Fifo!TakeOne(th)
      BY <2>1, <2>2, <2>3 DEF Fifo!TakeOne
    <2> QED
      BY <2>4 DEF Fifo!Next
  <1>3. CASE Forget(th)
    <2>1. Owed' = Owed
      BY <1>3 DEF Forget, semaphore, Owed
    <2>2. Fifo!Forget(th)
      BY <1>3, <2>1 DEF Forget, semaphore, Fifo!Forget, Fifo!Drop
    <2> QED
      BY <2>2 DEF Fifo!Next
  <1> QED
    BY <1>2, <1>3

LEMMA CallbackSeen ==
  ASSUME IInv, NEW t \in Tasks, Callback(t)
  PROVE  [Fifo!Next]_(Fifo!fifoVars)
  <1>1. UNCHANGED <<permits, acquired, stage, held>>
    BY DEF Callback, outside
  <1>2. CASE line' = line
    BY <1>1, <1>2, NothingSeen
  <1>3. CASE t \in ToSet(line) /\ line' = LineWithout(t)
    <2>1. LineOK /\ line \in Seq(Tasks)
      BY Parts DEF LineOK
    <2>2. PICK k \in 1..Len(line) : line[k] = t
      BY <1>3, <2>1, ElementIndex
    <2>3. line' = RemoveAt(line, k) /\ k \in DOMAIN line
      BY <1>3, <2>1, <2>2, PositionInLine DEF LineWithout
    <2>4. Owed' = Owed
      BY <1>1 DEF Owed
    <2>5. Fifo!Leave
      BY <1>1, <2>3, <2>4 DEF Fifo!Leave, Fifo!RemoveAt, RemoveAt
    <2> QED
      BY <2>5 DEF Fifo!Next
  <1> QED
    BY <1>2, <1>3, CallbackChanges

LEMMA StepSeen ==
  ASSUME IInv, [Next]_vars
  PROVE  [Fifo!Next]_(Fifo!fifoVars)
  <1>1. ASSUME NEW th \in Threads, Step(th) PROVE [Fifo!Next]_(Fifo!fifoVars)
    <2>1. CASE doing[th] # NoTask /\ Acquiring(th, doing[th])
      <3>1. PICK t \in Tasks : t = doing[th]
        BY <2>1, Parts DEF TypeOK
      <3>2. th \in Workers /\ Acquiring(th, t)
        BY <2>1, <3>1, Parts DEF ThreadInv, Threads
      <3> QED
        BY <3>1, <3>2, AcquiringSeen
    <2>2. CASE GrantFirst(th)
      BY <2>2, GrantSeen DEF Fifo!Next
    <2>3. CASE AddPermits(th)
      BY <2>3, ReleaseSeen
    <2>4. CASE \/ \E t \in Tasks : Wake(th, t)
               \/ GoOn(th) \/ GrantEnds(th) \/ TestWaiters(th) \/ Finish(th)
      <3>1. UNCHANGED <<permits, line, acquired, stage, held>>
        BY <2>4 DEF Wake, GoOn, GrantEnds, TestWaiters, Finish, semaphore, outside
      <3> QED
        BY <3>1, NothingSeen
    <2> QED
      BY <1>1, <2>1, <2>2, <2>3, <2>4 DEF Step
  <1>2. CASE \E th \in Visitors : TryMore(th) \/ Forget(th)
    BY <1>2, VisitorSeen
  <1>3. CASE \E t \in Tasks : Callback(t)
    BY <1>3, CallbackSeen
  <1>4. CASE \/ \E th \in Workers, t \in Tasks : Resume(th, t)
             \/ \E t \in Tasks : Cancel(t) \/ CancelWakes(t) \/ CancelUnlock(t)
             \/ UNCHANGED vars
    <2>1. UNCHANGED <<permits, line, acquired, stage, held>>
      BY <1>4
      DEF Resume, Cancel, CancelWakes, CancelUnlock, vars, semaphore, outside
    <2> QED
      BY <2>1, NothingSeen
  <1> QED
    BY <1>1, <1>2, <1>3, <1>4 DEF Next, CancelStep

(* The semaphore implements FifoSemaphore: the pointers, the grants one by *)
(* one, the unlocked release() and the cancellations do to its users what  *)
(* one step of a queue and a number would. *)
THEOREM FifoImplemented ==
  ASSUME Quiet
  PROVE  Spec => ImplementsFifo
  <1>1. Init => Fifo!Init
    <2> SUFFICES ASSUME Init PROVE Fifo!Init
      OBVIOUS
    <2>1. Owed = {}
      BY DEF Init, Owed
    <2> QED
      BY <2>1 DEF Init, Fifo!Init
  <1> QED
    BY <1>1, StepSeen, Invariance, PTL DEF Spec, ImplementsFifo, Fifo!Spec
=============================================================================
