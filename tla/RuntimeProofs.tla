---------------------------- MODULE RuntimeProofs ----------------------------
(***************************************************************************)
(* Runtime runs every root once at a time and loses none, keeps its list   *)
(* of roots, lets no worker sleep through work and stops its workers only  *)
(* when nothing is left, for any number of roots and workers.              *)
(***************************************************************************)
EXTENDS Runtime, ListLemmas, FiniteSetTheorems

(* What a thread that has a root in hand does with it. *)
StageOf == [running |-> "alive", final |-> "returned", sent |-> "sent", unlisted |-> "unlisted"]

(* Where a worker can be, and where Main can. *)
WorkerSteps == {"testing", "looking", "asleep", "running", "final", "sent", "unlisted", "left"}
MainSteps ==
    {"live", "sweeping", "draining", "sleeping", "stopping", "notifying", "joining", "gone"}

ThreadsBusy ==
    /\ at[Main] \in MainSteps
    /\ \A w \in Workers :
           /\ at[w] \in WorkerSteps
           /\ doing[w] # NoRoot <=> at[w] \in DOMAIN StageOf
           /\ spawning[w] # NoRoot => at[w] = "running"
    /\ spawning[Main] # NoRoot => at[Main] = "live"

(* Nobody has the handle of a root twice ... *)
OneHolder ==
    /\ Distinct(queue)
    /\ \A x, y \in Threads : spawning[x] = spawning[y] /\ spawning[x] # NoRoot => x = y
    /\ \A v, w \in Workers : doing[v] = doing[w] /\ doing[v] # NoRoot => v = w

(* ... and it is with one of the spawner, the run queue, whatever the root *)
(* awaits, and a worker. *)
Spawned(r) == \E th \in Threads : spawning[th] = r
Queued(r) == r \in ToSet(queue)
Held(r) == \E w \in Workers : doing[w] = r

OnePlace(r) ==
    /\ Spawned(r) => ~Queued(r) /\ ~Suspended(r) /\ ~Held(r)
    /\ Queued(r) => ~Suspended(r) /\ ~Held(r)
    /\ Suspended(r) => ~Held(r)

StageMatches(r) ==
    /\ Spawned(r) \/ Queued(r) \/ Suspended(r) => stage[r] = "alive"
    /\ \A w \in Workers : doing[w] = r => stage[r] = StageOf[at[w]]
    /\ stage[r] = "alive" => Spawned(r) \/ Queued(r) \/ Suspended(r) \/ Held(r)
    /\ stage[r] \in {"returned", "sent", "unlisted"} => Held(r)

(* The destructor. *)
Stopping ==
    /\ stop <=> at[Main] \in {"notifying", "joining", "gone"}
    /\ at[Main] \in {"stopping", "notifying", "joining", "gone"} => Listed = {}
    /\ at[Main] = "gone" => \A w \in Workers : at[w] = "left"
    /\ at[Main] = "sweeping" /\ cursor # Nil => cursor \in Listed

(* s is the order of the roots in the list. *)
ListIs(s) == Represents(roots, s) /\ ToSet(s) = Listed /\ Len(s) = live_roots

ListInv == \E s \in Seq(Roots) : ListIs(s)

IInv ==
    /\ TypeOK
    /\ ThreadsBusy
    /\ OneHolder
    /\ Stopping
    /\ ListInv
    /\ NoIdleWorker
    /\ \A r \in Roots : OnePlace(r) /\ StageMatches(r)

-----------------------------------------------------------------------------
Steps == WorkerSteps \union MainSteps

(* A step leaves root u alone. *)
Same(u) ==
    /\ stage'[u] = stage[u] /\ awaits'[u] = awaits[u]
    /\ Queued(u)' <=> Queued(u)
    /\ \A th \in Threads : spawning'[th] = u <=> spawning[th] = u
    /\ \A w \in Workers : /\ doing'[w] = u <=> doing[w] = u
                          /\ doing[w] = u => at'[w] = at[w]

LEMMA SameKeeps ==
  ASSUME NEW u \in Roots, OnePlace(u), StageMatches(u), Same(u)
  PROVE  OnePlace(u)' /\ StageMatches(u)'
  <1>1. /\ Spawned(u)' <=> Spawned(u)
        /\ Suspended(u)' <=> Suspended(u)
        /\ Held(u)' <=> Held(u)
    BY DEF Same, Spawned, Suspended, Held
  <1> QED
    BY <1>1 DEF Same, OnePlace, StageMatches

(* The list changes with the roots that are in it only. *)
ListedStages == {"alive", "returned", "sent"}

LEMMA ListKept ==
  ASSUME ListInv, UNCHANGED registry,
         \A r \in Roots : \/ stage'[r] = stage[r]
                          \/ (stage[r] \in ListedStages /\ stage'[r] \in ListedStages)
                          \/ (stage[r] \notin ListedStages /\ stage'[r] \notin ListedStages)
  PROVE  ListInv' /\ Listed' = Listed
  <1>1. Listed' = Listed
    BY DEF Listed, ListedStages
  <1> QED
    BY <1>1 DEF ListInv, ListIs, registry

-----------------------------------------------------------------------------
(* The run queue, and how many workers are on their way to it. *)
Ready(a) == {w \in Workers : a[w] \in {"testing", "looking"}}
NoIdle(a, n) == Asleep(a) # {} => n <= Cardinality(Ready(a))

LEMMA ReadyCounts ==
  ASSUME NEW a, NEW b
  PROVE  /\ Cardinality(Ready(a)) \in Nat
         /\ Ready(a) \subseteq Ready(b) => Cardinality(Ready(a)) <= Cardinality(Ready(b))
         /\ \A w : w \notin Ready(a) /\ Ready(b) = Ready(a) \union {w}
                       => Cardinality(Ready(b)) = Cardinality(Ready(a)) + 1
  <1>1. IsFiniteSet(Ready(a)) /\ IsFiniteSet(Ready(b))
    BY RuntimeAssumption, FS_Subset DEF Ready
  <1> QED
    BY <1>1, FS_CardinalityType, FS_Subset, FS_AddElement

(* The threads are where a says, but for a worker that has been woken.     *)
Wakes(a) ==
    \A x \in Threads :
        at'[x] = a[x] \/ (x \in Workers /\ a[x] = "asleep" /\ at'[x] = "looking")

LEMMA PutMoves ==
  ASSUME NEW r \in Roots, NEW a \in [Threads -> Steps], queue \in Seq(Roots), Distinct(queue),
         r \notin ToSet(queue), Put(r, a)
  PROVE  /\ queue' \in Seq(Roots) /\ Distinct(queue')
         /\ ToSet(queue') = ToSet(queue) \union {r}
         /\ at' \in [Threads -> Steps]
         /\ Wakes(a)
         /\ NoIdle(a, Len(queue)) => NoIdle(at', Len(queue'))
  <1>1. /\ queue' \in Seq(Roots) /\ Distinct(queue')
        /\ ToSet(queue') = ToSet(queue) \union {r}
        /\ Len(queue') = Len(queue) + 1
    BY AppendSet, AppendDistinct DEF Put
  <1>2. CASE Asleep(a) = {}
    BY <1>1, <1>2 DEF Put, Notified, NoIdle, Wakes
  <1>3. CASE Asleep(a) # {}
    <2>1. PICK w \in Asleep(a) : at' = [a EXCEPT ![w] = "looking"]
      BY <1>3 DEF Put, Notified
    <2>2. w \in Workers /\ w \in Threads /\ a[w] = "asleep" /\ "looking" \in Steps
      BY DEF Asleep, Threads, Steps, WorkerSteps
    <2>3. Ready(at') = Ready(a) \union {w} /\ w \notin Ready(a)
      BY <2>1, <2>2 DEF Ready, Threads
    <2>4. Cardinality(Ready(at')) = Cardinality(Ready(a)) + 1 /\ Cardinality(Ready(a)) \in Nat
      BY <2>3, ReadyCounts
    <2>5. NoIdle(a, Len(queue)) => NoIdle(at', Len(queue'))
      BY <1>1, <1>3, <2>4 DEF NoIdle
    <2> QED
      BY <1>1, <2>1, <2>2, <2>5 DEF Wakes
  <1> QED
    BY <1>2, <1>3

LEMMA NoneIdle == ASSUME Len(queue') = 0 PROVE NoIdleWorker'
  <1>1. Cardinality(Ready(at')) \in Nat
    BY ReadyCounts
  <1> QED
    BY <1>1 DEF NoIdleWorker, Ready

LEMMA NoIdleIs == NoIdleWorker <=> NoIdle(at, Len(queue))
  BY DEF NoIdleWorker, NoIdle, Ready

(* A worker that comes back to the queue makes no other one idle. *)
LEMMA ComesBack ==
  ASSUME NEW w \in Workers, NEW step \in {"testing", "final", "sent", "unlisted"},
         at \in [Threads -> Steps], at[w] \notin {"testing", "looking", "asleep"},
         NEW n \in Nat, NoIdle(at, n)
  PROVE  NoIdle([at EXCEPT ![w] = step], n)
  <1> DEFINE a == [at EXCEPT ![w] = step]
  <1>1. Asleep(a) = Asleep(at) /\ Ready(at) \subseteq Ready(a)
    BY DEF Asleep, Ready, Threads
  <1> HIDE DEF a
  <1>2. /\ Cardinality(Ready(at)) <= Cardinality(Ready(a))
        /\ Cardinality(Ready(at)) \in Nat /\ Cardinality(Ready(a)) \in Nat
    BY <1>1, ReadyCounts
  <1>3. NoIdle(a, n)
    BY <1>1, <1>2 DEF NoIdle
  <1> QED
    BY <1>3 DEF a

-----------------------------------------------------------------------------
(* What every step has to keep, root by root. *)
RootsInv == \A r \in Roots : OnePlace(r) /\ StageMatches(r)

Typed == TypeOK <=>
    /\ roots \in Lists /\ roots.tail = Nil
    /\ live_roots \in Nat
    /\ queue \in Seq(Roots)
    /\ stop \in BOOLEAN
    /\ stage \in [Roots -> {"unborn", "alive", "returned", "sent", "unlisted", "destroyed"}]
    /\ cancelled \in [Roots -> BOOLEAN]
    /\ awaits \in [Roots -> {"nothing", "event", "join"}]
    /\ awaited \in [Roots -> 0..MaxAwaits]
    /\ target \in [Roots -> Roots \union {NoRoot}]
    /\ joined \subseteq Roots
    /\ at \in [Threads -> Steps]
    /\ doing \in [Workers -> Roots \union {NoRoot}]
    /\ spawning \in [Threads -> Roots \union {NoRoot}]
    /\ cursor \in Roots \union {Nil}
    /\ blocked \in Roots \union {NoRoot}

LEMMA TypedIs == Typed /\ Typed'
  BY RuntimeAssumption DEF Typed, TypeOK, Lists, Steps, WorkerSteps, MainSteps

(* Once the workers are told to stop the queue is empty for good. *)
LEMMA NothingQueued ==
  ASSUME IInv, Listed = {}
  PROVE  queue = <<>>
  <1>1. queue \in Seq(Roots)
    BY DEF IInv, TypeOK
  <1>2. ASSUME queue # <<>> PROVE FALSE
    <2>1. Head(queue) \in Roots /\ Head(queue) \in ToSet(queue)
      BY <1>1, <1>2, TailSet DEF IInv, OneHolder
    <2>2. stage[Head(queue)] = "alive"
      BY <2>1 DEF IInv, StageMatches, Queued
    <2> QED
      BY <2>1, <2>2 DEF Listed
  <1> QED
    BY <1>2

(* A step that moves no root. *)
LEMMA QuietInv ==
  ASSUME IInv, TypeOK', ThreadsBusy', Stopping', NoIdleWorker',
         UNCHANGED <<registry, queue, stage, awaits, doing, spawning>>,
         \A w \in Workers : doing[w] # NoRoot => at'[w] = at[w]
  PROVE  IInv'
  <1>1. \A u \in Roots : Same(u)
    BY RuntimeAssumption DEF Same, Queued
  <1>2. ListInv'
    BY ListKept DEF IInv
  <1>3. OneHolder'
    BY DEF IInv, OneHolder, Distinct
  <1> QED
    BY <1>1, <1>2, <1>3, SameKeeps DEF IInv

(* A step that moves the roots r and x, or r alone when x = r. *)
LEMMA RestKept ==
  ASSUME IInv, TypeOK', ThreadsBusy', OneHolder', Stopping', ListInv', NoIdleWorker',
         NEW r \in Roots, OnePlace(r)', StageMatches(r)',
         NEW x \in Roots, OnePlace(x)', StageMatches(x)',
         \A u \in Roots \ {r, x} : Same(u)
  PROVE  IInv'
  <1>1. ASSUME NEW u \in Roots PROVE OnePlace(u)' /\ StageMatches(u)'
    BY SameKeeps DEF IInv
  <1> QED
    BY <1>1 DEF IInv

LEMMA TestStopInv ==
  ASSUME IInv, NEW w \in Workers, TestStop(w)
  PROVE  IInv'
  <1>0. TypeOK /\ ThreadsBusy /\ Stopping /\ NoIdleWorker
    BY DEF IInv
  <1> USE <1>0, RuntimeAssumption DEF Threads
  <1>1. /\ at[w] = "testing" /\ doing[w] = NoRoot /\ spawning[w] = NoRoot
        /\ at' = [at EXCEPT ![w] = IF stop THEN "left" ELSE "looking"]
        /\ UNCHANGED <<registry, queue, stop, stage, bodies, control>>
    BY DEF TestStop, Goes, ThreadsBusy, StageOf
  <1> USE <1>1 DEF registry, bodies, control
  <1>2. TypeOK'
    BY DEF TypeOK
  <1>3. ThreadsBusy'
    BY DEF TypeOK, ThreadsBusy, WorkerSteps, StageOf
  <1>4. Stopping'
    BY DEF TypeOK, Stopping, Listed
  <1>5. NoIdleWorker'
    <2>1. CASE stop
      <3>1. Len(queue') = 0
        BY <2>1, NothingQueued DEF Stopping
      <3> QED
        BY <3>1, NoneIdle
    <2>2. CASE ~stop
      <3>1. Asleep(at') = Asleep(at) /\ Ready(at') = Ready(at)
        BY <2>2 DEF Asleep, Ready, TypeOK
      <3> QED
        BY <3>1, NoIdleIs DEF NoIdleWorker, Ready
    <2> QED
      BY <2>1, <2>2
  <1> QED
    BY <1>2, <1>3, <1>4, <1>5, QuietInv

LEMMA LookInv ==
  ASSUME IInv, NEW w \in Workers, Look(w)
  PROVE  IInv'
  <1>0. TypeOK /\ ThreadsBusy /\ OneHolder /\ Stopping /\ NoIdleWorker /\ ListInv
    BY DEF IInv
  <1> USE <1>0, RuntimeAssumption DEF Threads
  <1>1. /\ at[w] = "looking" /\ doing[w] = NoRoot /\ spawning[w] = NoRoot
        /\ UNCHANGED <<registry, stop, stage, bodies, spawning, cursor, blocked>>
    BY DEF Look, ThreadsBusy, StageOf
  <1> USE <1>1 DEF registry, bodies
  <1>2. CASE queue = <<>>
    <2>1. /\ at' = [at EXCEPT ![w] = IF stop THEN "testing" ELSE "asleep"]
          /\ UNCHANGED <<queue, doing>>
      BY <1>2 DEF Look, Goes
    <2>2. TypeOK'
      BY <2>1 DEF TypeOK
    <2>3. ThreadsBusy'
      BY <2>1 DEF TypeOK, ThreadsBusy, WorkerSteps, StageOf
    <2>4. Stopping'
      BY <2>1 DEF TypeOK, Stopping, Listed
    <2>5. NoIdleWorker'
      BY <1>2, <2>1, NoneIdle
    <2> QED
      BY <2>1, <2>2, <2>3, <2>4, <2>5, QuietInv
  <1>3. CASE queue # <<>>
    <2>0. PICK r \in Roots : r = Head(queue) /\ r \in ToSet(queue)
      BY <1>3, TailSet DEF TypeOK, OneHolder
    <2>1. /\ queue' = Tail(queue)
          /\ doing' = [doing EXCEPT ![w] = r]
          /\ at' = [at EXCEPT ![w] = "running"]
      BY <1>3, <2>0 DEF Look, Goes
    <2>2. /\ r \in Roots /\ Queued(r)
          /\ queue' \in Seq(Roots) /\ Distinct(queue')
          /\ Len(queue) \in Nat \ {0} /\ Len(queue') = Len(queue) - 1
          /\ ToSet(queue') = ToSet(queue) \ {r}
      BY <1>3, <2>0, <2>1, TailSet DEF TypeOK, OneHolder, Queued
    <2>3. OnePlace(r) /\ StageMatches(r) /\ stage[r] = "alive" /\ ~Held(r)
      BY <2>2 DEF IInv, OnePlace, StageMatches
    <2>4. TypeOK'
      BY <2>1, <2>2 DEF TypeOK
    <2>5. ThreadsBusy'
      BY <2>1, <2>2 DEF TypeOK, ThreadsBusy, WorkerSteps, StageOf
    <2>6. OneHolder'
      BY <2>1, <2>2, <2>3 DEF TypeOK, OneHolder, Held
    <2>7. Stopping'
      BY <2>1, <2>2, <2>3 DEF TypeOK, Stopping, Listed
    <2>8. ListInv'
      BY ListKept
    <2>9. NoIdleWorker'
      <3>1. /\ Asleep(at') = Asleep(at)
            /\ Ready(at) = Ready(at') \union {w} /\ w \notin Ready(at')
        BY <2>1 DEF Asleep, Ready, TypeOK
      <3>2. /\ Cardinality(Ready(at)) = Cardinality(Ready(at')) + 1
            /\ Cardinality(Ready(at')) \in Nat
        BY <3>1, ReadyCounts
      <3> QED
        BY <2>2, <3>1, <3>2 DEF NoIdleWorker, Ready
    <2>10. \A u \in Roots \ {r} : Same(u)
      BY <2>1, <2>2 DEF Same, Queued, TypeOK
    <2>11. /\ ~Spawned(r)' /\ ~Queued(r)' /\ ~Suspended(r)' /\ Held(r)' /\ stage'[r] = "alive"
           /\ \A v \in Workers : doing'[v] = r => StageOf[at'[v]] = "alive"
      BY <2>1, <2>2, <2>3 DEF OnePlace, Spawned, Queued, Held, Suspended, StageOf, TypeOK
    <2>12. OnePlace(r)' /\ StageMatches(r)'
      BY <2>11 DEF OnePlace, StageMatches
    <2> QED
      BY <2>4, <2>5, <2>6, <2>7, <2>8, <2>9, <2>10, <2>12, RestKept
  <1> QED
    BY <1>2, <1>3

-----------------------------------------------------------------------------
(* _spawn() and block_on() *)

(* Only Main before the destructor, or a worker that holds a root, spawns. *)
LEMMA SpawnerRuns ==
  ASSUME IInv, NEW th \in Threads, Unsuspended(th)
  PROVE  at[Main] \notin {"stopping", "notifying", "joining", "gone"}
  <1>1. CASE th = Main
    BY <1>1 DEF Unsuspended
  <1>2. CASE th # Main
    <2>1. th \in Workers /\ at[th] = "running"
      BY <1>2 DEF Threads, Unsuspended
    <2>2. doing[th] \in Roots
      BY <2>1 DEF IInv, TypeOK, ThreadsBusy, StageOf
    <2>3. stage[doing[th]] = "alive"
      BY <2>1, <2>2 DEF IInv, StageMatches, StageOf
    <2> QED
      BY <2>2, <2>3 DEF IInv, Stopping, Listed
  <1> QED
    BY <1>1, <1>2

LEMMA RegisterInv ==
  ASSUME IInv, NEW th \in Threads, NEW r \in Roots, Register(th, r)
  PROVE  IInv'
  <1>0. /\ TypeOK /\ ThreadsBusy /\ OneHolder /\ Stopping /\ NoIdleWorker /\ ListInv /\ Typed
        /\ OnePlace(r) /\ StageMatches(r)
    BY TypedIs DEF IInv
  <1> USE <1>0, RuntimeAssumption DEF Threads
  <1>1. /\ stage[r] = "unborn" /\ stage' = [stage EXCEPT ![r] = "alive"]
        /\ roots' = LinkHead(roots, r) /\ live_roots' = live_roots + 1
        /\ spawning[th] = NoRoot /\ spawning' = [spawning EXCEPT ![th] = r]
        /\ at[th] \in {"live", "running"} /\ (at[th] = "live" => th = Main)
        /\ blocked' \in Roots \union {NoRoot}
        /\ UNCHANGED <<queue, stop, bodies, at, doing, cursor>>
    BY DEF Register, Reaches, OneMore, Unsuspended, TypeOK
  <1>2. at[Main] \notin {"sweeping", "stopping", "notifying", "joining", "gone"}
    BY SpawnerRuns DEF Register, RootsFree
  <1> USE <1>1 DEF bodies
  <1>3. TypeOK'
    <2>1. roots' \in Lists /\ roots'.tail = Nil
      BY LinkHeadType DEF Typed
    <2> QED
      BY <2>1, TypedIs DEF Typed
  <1>4. ThreadsBusy'
    <2>1. th # Main => at[th] = "running"
      BY DEF ThreadsBusy, Unsuspended, Register
    <2>2. \A x \in Threads : spawning'[x] = IF x = th THEN r ELSE spawning[x]
      BY DEF TypeOK
    <2> QED
      BY <2>1, <2>2 DEF ThreadsBusy, Unsuspended, Register
  <1>5. OneHolder'
    BY DEF TypeOK, OneHolder, Distinct, StageMatches, Spawned
  <1>6. Stopping'
    BY <1>2 DEF TypeOK, Stopping, Listed
  <1>7. ListInv'
    <2>1. PICK s \in Seq(Roots) : ListIs(s)
      BY DEF ListInv
    <2>2. r \notin ToSet(s)
      BY <2>1 DEF ListIs, Listed
    <2>3. Represents(roots', <<r>> \o s)
      BY <2>1, <2>2, LinkHeadList DEF ListIs, Typed
    <2>4. Listed' = Listed \union {r}
      BY DEF Listed, TypeOK
    <2>5. <<r>> \o s \in Seq(Roots) /\ ListIs(<<r>> \o s)'
      BY <2>1, <2>3, <2>4, Prepended DEF ListIs
    <2> QED
      BY <2>5 DEF ListInv
  <1>8. NoIdleWorker'
    BY DEF NoIdleWorker, Asleep
  <1>9. \A u \in Roots \ {r} : Same(u)
    BY DEF Same, Queued, TypeOK
  <1>10. /\ ~Queued(r)' /\ ~Suspended(r)' /\ ~Held(r)' /\ Spawned(r)'
         /\ stage'[r] = "alive"
    <2>1. ~Queued(r) /\ ~Suspended(r) /\ ~Held(r)
      BY DEF StageMatches, Held, StageOf, ThreadsBusy
    <2> QED
      BY <2>1 DEF TypeOK, Spawned, Queued, Held, Suspended
  <1>11. OnePlace(r)' /\ StageMatches(r)'
    BY <1>10 DEF OnePlace, StageMatches, Held
  <1> QED
    BY <1>3, <1>4, <1>5, <1>6, <1>7, <1>8, <1>9, <1>11, RestKept

LEMMA ScheduleInv ==
  ASSUME IInv, NEW th \in Threads, Schedule(th)
  PROVE  IInv'
  <1>0. TypeOK /\ ThreadsBusy /\ OneHolder /\ Stopping /\ NoIdleWorker /\ ListInv /\ Typed
    BY TypedIs DEF IInv
  <1> USE <1>0, RuntimeAssumption DEF Threads
  <1>1. PICK r \in Roots : spawning[th] = r
    BY DEF Schedule, TypeOK
  <1>2. /\ Put(r, at) /\ spawning' = [spawning EXCEPT ![th] = NoRoot]
        /\ UNCHANGED <<registry, stop, stage, bodies, doing, cursor, blocked>>
    BY <1>1 DEF Schedule
  <1>3. /\ OnePlace(r) /\ StageMatches(r) /\ Spawned(r) /\ stage[r] = "alive"
        /\ ~Queued(r) /\ ~Suspended(r) /\ ~Held(r)
    BY <1>1 DEF IInv, OnePlace, StageMatches, Spawned
  <1>4. /\ queue' \in Seq(Roots) /\ Distinct(queue')
        /\ ToSet(queue') = ToSet(queue) \union {r}
        /\ at' \in [Threads -> Steps]
        /\ Wakes(at)
        /\ NoIdle(at', Len(queue'))
    BY <1>2, <1>3, PutMoves, NoIdleIs DEF Typed, OneHolder, Queued
  <1> USE <1>1, <1>2, <1>3, <1>4 DEF registry, bodies
  <1>5. TypeOK'
    BY TypedIs DEF Typed
  <1>6. ThreadsBusy'
    BY DEF TypeOK, ThreadsBusy, WorkerSteps, MainSteps, StageOf, Wakes
  <1>7. OneHolder'
    BY DEF TypeOK, OneHolder
  <1>8. Stopping'
    BY DEF TypeOK, Stopping, Listed, Wakes
  <1>9. ListInv'
    BY ListKept
  <1>10. NoIdleWorker'
    BY DEF NoIdleWorker, NoIdle, Ready
  <1>11. \A u \in Roots \ {r} : Same(u)
    <2>1. \A w \in Workers : doing[w] # NoRoot => at'[w] = at[w]
      BY DEF ThreadsBusy, StageOf, Wakes
    <2> QED
      BY <2>1 DEF Same, Queued, TypeOK
  <1>12. /\ Queued(r)' /\ ~Suspended(r)' /\ ~Held(r)' /\ ~Spawned(r)' /\ stage'[r] = "alive"
    BY DEF TypeOK, OneHolder, Spawned, Queued, Held, Suspended
  <1>13. OnePlace(r)' /\ StageMatches(r)'
    BY <1>12 DEF OnePlace, StageMatches, Held
  <1> QED
    BY <1>5, <1>6, <1>7, <1>8, <1>9, <1>10, <1>11, <1>13, RestKept

LEMMA FutureGetInv ==
  ASSUME IInv, FutureGet
  PROVE  IInv'
  <1>0. TypeOK /\ ThreadsBusy /\ Stopping /\ NoIdleWorker
    BY DEF IInv
  <1> USE <1>0 DEF FutureGet, registry, bodies
  <1>1. TypeOK'
    BY DEF TypeOK
  <1>2. ThreadsBusy' /\ Stopping' /\ NoIdleWorker'
    BY DEF ThreadsBusy, Stopping, NoIdleWorker, Asleep, Listed
  <1> QED
    BY <1>1, <1>2, QuietInv

-----------------------------------------------------------------------------
(* What the body of a root does. *)
LEMMA HolderKnows ==
  ASSUME IInv, NEW w \in Workers, NEW r \in Roots, doing[w] = r
  PROVE  /\ at[w] \in DOMAIN StageOf /\ stage[r] = StageOf[at[w]]
         /\ ~Spawned(r) /\ ~Queued(r) /\ ~Suspended(r) /\ Held(r)
         /\ \A v \in Workers : doing[v] = r => v = w
  BY RuntimeAssumption DEF IInv, ThreadsBusy, OneHolder, OnePlace, StageMatches, Held

LEMMA GoesBack ==
  ASSUME IInv, NEW w \in Workers, at[w] \notin {"testing", "looking", "asleep"},
         NEW step \in {"testing", "final", "sent", "unlisted"}
  PROVE  /\ Goes(w, step) \in [Threads -> Steps]
         /\ NoIdle(Goes(w, step), Len(queue))
         /\ \A x \in Threads : Goes(w, step)[x] = IF x = w THEN step ELSE at[x]
  <1>1. at \in [Threads -> Steps] /\ Len(queue) \in Nat /\ NoIdle(at, Len(queue))
    BY TypedIs, NoIdleIs DEF Typed, IInv
  <1> QED
    BY <1>1, ComesBack DEF Goes, Steps, WorkerSteps, Threads

(* The worker lets go of r, which is queued or suspended. *)
LEMMA LetGoInv ==
  ASSUME IInv, NEW w \in Workers, NEW r \in Roots, doing[w] = r,
         at[w] = "running", spawning[w] = NoRoot,
         doing' = [doing EXCEPT ![w] = NoRoot],
         UNCHANGED <<registry, stop, stage, spawning, cursor>>,
         TypeOK', Distinct(queue'), NoIdle(at', Len(queue')),
         Wakes(Goes(w, "testing")),
         \A u \in Roots \ {r} : awaits'[u] = awaits[u] /\ (Queued(u)' <=> Queued(u)),
         Queued(r)' <=> ~Suspended(r)'
  PROVE  IInv'
  <1>0. /\ TypeOK /\ ThreadsBusy /\ OneHolder /\ Stopping /\ ListInv
        /\ w \in Threads /\ w # Main
    BY RuntimeAssumption DEF IInv, Threads
  <1> USE <1>0, RuntimeAssumption DEF registry
  <1>1. /\ stage[r] = "alive" /\ ~Spawned(r)
        /\ \A v \in Workers : doing[v] = r => v = w
    BY HolderKnows DEF StageOf
  <1>2. /\ at'[w] = "testing" /\ at'[Main] = at[Main]
        /\ \A v \in Workers \ {w} : at'[v] = at[v] \/ (at[v] = "asleep" /\ at'[v] = "looking")
    <2>1. \A x \in Threads : Goes(w, "testing")[x] = IF x = w THEN "testing" ELSE at[x]
      BY DEF Goes, TypeOK
    <2>2. Main \in Threads /\ Main \notin Workers /\ Workers \subseteq Threads
      BY DEF Threads
    <2>3. at[w] # "asleep"
      OBVIOUS
    <2> QED
      BY <2>1, <2>2, <2>3 DEF Wakes
  <1>3. ThreadsBusy'
    BY <1>1, <1>2 DEF TypeOK, ThreadsBusy, WorkerSteps, StageOf, Threads
  <1>4. OneHolder'
    BY DEF TypeOK, OneHolder
  <1>5. Stopping'
    BY <1>2 DEF TypeOK, Stopping, Listed
  <1>6. ListInv'
    BY ListKept
  <1>7. NoIdleWorker'
    BY DEF NoIdleWorker, NoIdle, Ready
  <1>8. \A u \in Roots \ {r} : Same(u)
    <2>1. \A v \in Workers \ {w} : doing[v] # NoRoot => at'[v] = at[v]
      BY <1>2 DEF ThreadsBusy, StageOf
    <2> QED
      BY <2>1 DEF Same, TypeOK
  <1>9. ~Held(r)' /\ ~Spawned(r)' /\ stage'[r] = "alive"
    BY <1>1 DEF TypeOK, Held, Spawned
  <1>10. OnePlace(r)' /\ StageMatches(r)'
    BY <1>9 DEF OnePlace, StageMatches, Held
  <1> QED
    BY <1>3, <1>4, <1>5, <1>6, <1>7, <1>8, <1>10, RestKept

(* ... as when it suspends r on what it awaits. *)
LEMMA SuspendsInv ==
  ASSUME IInv, NEW w \in Workers, NEW r \in Roots, doing[w] = r,
         at[w] = "running", spawning[w] = NoRoot,
         NEW what \in {"event", "join"}, Suspends(w, r, what),
         UNCHANGED <<registry, queue, stop, stage, cancelled, spawning, cursor, blocked>>,
         awaited' \in [Roots -> 0..MaxAwaits], joined' \subseteq Roots,
         target' \in [Roots -> Roots \union {NoRoot}]
  PROVE  IInv'
  <1>0. TypeOK /\ OneHolder /\ Typed /\ Typed'
    BY TypedIs DEF IInv
  <1>1. /\ Goes(w, "testing") \in [Threads -> Steps]
        /\ NoIdle(Goes(w, "testing"), Len(queue))
    BY GoesBack
  <1>2. /\ awaits' = [awaits EXCEPT ![r] = what]
        /\ doing' = [doing EXCEPT ![w] = NoRoot]
        /\ at' = Goes(w, "testing")
    BY DEF Suspends
  <1>3. TypeOK'
    BY <1>0, <1>1, <1>2 DEF Typed, registry
  <1>4. ~Queued(r)' /\ Suspended(r)'
    BY <1>0, <1>2, HolderKnows DEF Queued, Suspended, TypeOK
  <1>5. \A u \in Roots \ {r} : awaits'[u] = awaits[u] /\ (Queued(u)' <=> Queued(u))
    BY <1>0, <1>2 DEF Queued, TypeOK
  <1> QED
    BY <1>0, <1>1, <1>2, <1>3, <1>4, <1>5, LetGoInv DEF OneHolder, Wakes

LEMMA AwaitInv ==
  ASSUME IInv, NEW w \in Workers, NEW r \in Roots, doing[w] = r, Await(w, r)
  PROVE  IInv'
  <1>0. /\ TypeOK /\ ThreadsBusy /\ OneHolder /\ Stopping /\ NoIdleWorker /\ Typed /\ Typed'
        /\ w \in Threads
    BY TypedIs DEF IInv, Threads
  <1> USE <1>0
  <1>1. /\ at[w] = "running" /\ spawning[w] = NoRoot
        /\ awaited' \in [Roots -> 0..MaxAwaits]
        /\ UNCHANGED <<registry, stop, stage, cancelled, target, joined, spawning, cursor,
                       blocked>>
    BY RuntimeAssumption DEF Await, Unsuspended, TypeOK, Threads
  <1>2. ~Queued(r) /\ Queued(r) \in BOOLEAN
    BY HolderKnows DEF Queued
  <1> USE <1>1 DEF registry
  <1>3. CASE UNCHANGED <<queue, awaits, doing, at>>
    <2>1. TypeOK'
      BY <1>3 DEF Typed
    <2>2. ThreadsBusy' /\ Stopping' /\ NoIdleWorker'
      BY <1>3 DEF ThreadsBusy, Stopping, NoIdleWorker, Asleep, Listed
    <2> QED
      BY <1>3, <2>1, <2>2, QuietInv
  <1>4. CASE /\ doing' = [doing EXCEPT ![w] = NoRoot]
             /\ Put(r, Goes(w, "testing"))
             /\ UNCHANGED awaits
    <2>1. /\ Goes(w, "testing") \in [Threads -> Steps]
          /\ NoIdle(Goes(w, "testing"), Len(queue))
          /\ \A x \in Threads : Goes(w, "testing")[x] = IF x = w THEN "testing" ELSE at[x]
      BY GoesBack
    <2>2. /\ queue' \in Seq(Roots) /\ Distinct(queue')
          /\ ToSet(queue') = ToSet(queue) \union {r}
          /\ at' \in [Threads -> Steps]
          /\ Wakes(Goes(w, "testing"))
          /\ NoIdle(at', Len(queue'))
      BY <1>2, <1>4, <2>1, PutMoves DEF Typed, OneHolder, Queued
    <2>3. /\ \A u \in Roots \ {r} : awaits'[u] = awaits[u] /\ (Queued(u)' <=> Queued(u))
          /\ Queued(r)' /\ ~Suspended(r)'
      BY <1>4, <2>2, HolderKnows DEF Queued, Suspended
    <2>4. TypeOK'
      BY <1>4, <2>2 DEF Typed
    <2> QED
      BY <1>4, <2>2, <2>3, <2>4, LetGoInv
  <1>5. CASE Suspends(w, r, "event") /\ UNCHANGED queue
    BY <1>5, SuspendsInv DEF Typed
  <1> QED
    BY <1>3, <1>4, <1>5 DEF Await

LEMMA JoinInv ==
  ASSUME IInv, NEW w \in Workers, NEW r \in Roots, doing[w] = r,
         NEW child \in Roots, Join(w, r, child)
  PROVE  IInv'
  <1>0. /\ TypeOK /\ ThreadsBusy /\ OneHolder /\ Stopping /\ NoIdleWorker /\ Typed /\ Typed'
        /\ w \in Threads
    BY TypedIs DEF IInv, Threads
  <1> USE <1>0
  <1>1. /\ at[w] = "running" /\ spawning[w] = NoRoot
        /\ awaited' \in [Roots -> 0..MaxAwaits] /\ joined' \subseteq Roots
        /\ UNCHANGED <<registry, queue, stop, stage, cancelled, spawning, cursor, blocked>>
    BY RuntimeAssumption DEF Join, Unsuspended, TypeOK, Threads
  <1> USE <1>1 DEF registry
  <1>2. CASE UNCHANGED <<awaits, target, doing, at>>
    <2>1. TypeOK'
      BY <1>2 DEF Typed
    <2>2. ThreadsBusy' /\ Stopping' /\ NoIdleWorker'
      BY <1>2 DEF ThreadsBusy, Stopping, NoIdleWorker, Asleep, Listed
    <2> QED
      BY <1>2, <2>1, <2>2, QuietInv
  <1>3. CASE Suspends(w, r, "join") /\ target' = [target EXCEPT ![r] = child]
    BY <1>3, SuspendsInv DEF Typed
  <1> QED
    BY <1>2, <1>3 DEF Join

(* The worker takes r, which it keeps, one step further. *)
LEMMA Advances ==
  ASSUME IInv, NEW w \in Workers, NEW r \in Roots, doing[w] = r, spawning[w] = NoRoot,
         NEW step \in {"final", "sent", "unlisted"}, at'[w] = step,
         stage' = [stage EXCEPT ![r] = StageOf[step]],
         UNCHANGED <<doing, spawning>>,
         \A v \in Workers \ {w} : at'[v] = at[v] \/ (at[v] = "asleep" /\ at'[v] = "looking"),
         at'[Main] = at[Main] \/ (at[Main] = "sleeping" /\ at'[Main] = "draining"),
         Queued(r)' <=> Queued(r), awaits'[r] = awaits[r]
  PROVE  /\ ThreadsBusy' /\ OnePlace(r)' /\ StageMatches(r)'
         /\ \A u \in Roots \ {r} :
                (Queued(u)' <=> Queued(u)) /\ awaits'[u] = awaits[u] => Same(u)
  <1>0. TypeOK /\ ThreadsBusy
    BY DEF IInv
  <1> USE <1>0, RuntimeAssumption
  <1>1. /\ ~Spawned(r) /\ ~Queued(r) /\ ~Suspended(r) /\ Held(r)
        /\ \A v \in Workers : doing[v] = r => v = w
    BY HolderKnows
  <1>2. ThreadsBusy'
    BY DEF ThreadsBusy, WorkerSteps, MainSteps, StageOf, Threads
  <1>3. /\ ~Spawned(r)' /\ ~Queued(r)' /\ ~Suspended(r)' /\ Held(r)'
        /\ stage'[r] = StageOf[step]
    BY <1>1 DEF Spawned, Suspended, Held, TypeOK
  <1>4. OnePlace(r)' /\ StageMatches(r)'
    BY <1>1, <1>3 DEF OnePlace, StageMatches, StageOf
  <1>5. ASSUME NEW u \in Roots \ {r}, Queued(u)' <=> Queued(u), awaits'[u] = awaits[u]
        PROVE  Same(u)
    <2>1. \A v \in Workers : doing[v] = u => at'[v] = at[v]
      BY DEF ThreadsBusy, StageOf
    <2> QED
      BY <1>5, <2>1 DEF Same, TypeOK
  <1> QED
    BY <1>2, <1>4, <1>5

LEMMA ReturnInv ==
  ASSUME IInv, NEW w \in Workers, NEW r \in Roots, doing[w] = r, Return(w, r)
  PROVE  IInv'
  <1>0. /\ TypeOK /\ OneHolder /\ Stopping /\ ListInv /\ Typed /\ Typed'
        /\ w \in Threads /\ w # Main
    BY TypedIs, RuntimeAssumption DEF IInv, Threads
  <1> USE <1>0 DEF registry, bodies, control
  <1>1. /\ at[w] = "running" /\ spawning[w] = NoRoot
        /\ at' = Goes(w, "final") /\ stage' = [stage EXCEPT ![r] = "returned"]
        /\ UNCHANGED <<registry, queue, stop, bodies, control>>
    BY DEF Return, Reaches, Unsuspended
  <1>2. stage[r] = "alive"
    BY <1>1, HolderKnows DEF StageOf
  <1>3. /\ at' \in [Threads -> Steps] /\ NoIdle(at', Len(queue'))
        /\ at'[w] = "final" /\ \A x \in Threads \ {w} : at'[x] = at[x]
    BY <1>1, GoesBack
  <1>4. TypeOK'
    BY <1>1, <1>3 DEF Typed
  <1>5. /\ ThreadsBusy' /\ OnePlace(r)' /\ StageMatches(r)'
        /\ \A u \in Roots \ {r} : Same(u)
    BY <1>1, <1>3, Advances DEF StageOf, Threads, Queued
  <1>6. OneHolder'
    BY <1>1 DEF OneHolder
  <1>7. ListInv' /\ Listed' = Listed
    BY <1>1, <1>2, ListKept DEF ListedStages, TypeOK
  <1>8. Stopping'
    BY <1>1, <1>3, <1>7 DEF Stopping, Threads
  <1>9. NoIdleWorker'
    BY <1>3 DEF NoIdleWorker, NoIdle, Ready
  <1> QED
    BY <1>4, <1>5, <1>6, <1>7, <1>8, <1>9, RestKept

-----------------------------------------------------------------------------
(* Wake-ups. *)
LEMMA WakeMoves ==
  ASSUME IInv, NEW r \in Roots, Suspended(r), Woken(r), NEW a \in [Threads -> Steps], Put(r, a)
  PROVE  /\ queue' \in Seq(Roots) /\ Distinct(queue')
         /\ at' \in [Threads -> Steps] /\ Wakes(a)
         /\ NoIdle(a, Len(queue)) => NoIdle(at', Len(queue'))
         /\ awaits' \in [Roots -> {"nothing", "event", "join"}]
         /\ Queued(r)' /\ ~Suspended(r)'
         /\ stage[r] = "alive" /\ ~Spawned(r) /\ ~Held(r)
         /\ \A u \in Roots \ {r} : awaits'[u] = awaits[u] /\ (Queued(u)' <=> Queued(u))
  <1>1. TypeOK /\ OneHolder /\ Typed
    BY TypedIs DEF IInv
  <1>2. stage[r] = "alive" /\ ~Spawned(r) /\ ~Held(r) /\ ~Queued(r)
    BY DEF IInv, OnePlace, StageMatches
  <1>3. /\ queue' \in Seq(Roots) /\ Distinct(queue')
        /\ ToSet(queue') = ToSet(queue) \union {r}
        /\ at' \in [Threads -> Steps] /\ Wakes(a)
        /\ NoIdle(a, Len(queue)) => NoIdle(at', Len(queue'))
    BY <1>1, <1>2, PutMoves DEF OneHolder, Queued, Typed
  <1>4. /\ awaits' \in [Roots -> {"nothing", "event", "join"}]
        /\ awaits'[r] = "nothing" /\ \A u \in Roots \ {r} : awaits'[u] = awaits[u]
    BY <1>1 DEF Woken, TypeOK
  <1> QED
    BY <1>2, <1>3, <1>4 DEF Queued, Suspended

(* A wake-up from where nobody moves: an event, or a cancellation. *)
LEMMA WakeInv ==
  ASSUME IInv, NEW r \in Roots, Suspended(r), Woken(r), Put(r, at),
         UNCHANGED <<registry, stop, stage, awaited, target, joined, doing, spawning, blocked>>,
         cancelled' \in [Roots -> BOOLEAN],
         cursor' \in Roots \union {Nil},
         cursor' # Nil /\ at[Main] = "sweeping" => cursor' \in Listed
  PROVE  IInv'
  <1>0. /\ TypeOK /\ ThreadsBusy /\ OneHolder /\ Stopping /\ ListInv /\ Typed /\ Typed'
        /\ Main \in Threads /\ Workers \subseteq Threads /\ Main \notin Workers
    BY TypedIs, RuntimeAssumption DEF IInv, Threads
  <1> USE <1>0 DEF registry
  <1>1. /\ queue' \in Seq(Roots) /\ Distinct(queue')
        /\ at' \in [Threads -> Steps] /\ Wakes(at) /\ NoIdle(at', Len(queue'))
        /\ awaits' \in [Roots -> {"nothing", "event", "join"}]
        /\ Queued(r)' /\ ~Suspended(r)'
        /\ stage[r] = "alive" /\ ~Spawned(r) /\ ~Held(r)
        /\ \A u \in Roots \ {r} : awaits'[u] = awaits[u] /\ (Queued(u)' <=> Queued(u))
    <2>1. at \in [Threads -> Steps] /\ NoIdle(at, Len(queue))
      BY NoIdleIs DEF Typed, IInv
    <2> QED
      BY <2>1, WakeMoves
  <1>2. TypeOK'
    BY <1>1 DEF Typed
  <1>3. ThreadsBusy'
    BY <1>1 DEF ThreadsBusy, WorkerSteps, MainSteps, StageOf, Wakes
  <1>4. OneHolder'
    BY <1>1 DEF OneHolder
  <1>5. ListInv' /\ Listed' = Listed
    BY ListKept
  <1>6. Stopping'
    BY <1>1, <1>5 DEF Stopping, Wakes
  <1>7. NoIdleWorker'
    BY <1>1 DEF NoIdleWorker, NoIdle, Ready
  <1>8. \A u \in Roots \ {r} : Same(u)
    <2>1. \A w \in Workers : doing[w] # NoRoot => at'[w] = at[w]
      BY <1>1 DEF ThreadsBusy, StageOf, Wakes
    <2> QED
      BY <1>1, <2>1, RuntimeAssumption DEF Same
  <1>9. ~Spawned(r)' /\ ~Held(r)' /\ stage'[r] = "alive"
    BY <1>1 DEF Spawned, Held
  <1>10. OnePlace(r)' /\ StageMatches(r)'
    BY <1>1, <1>9 DEF OnePlace, StageMatches, Held
  <1> QED
    BY <1>2, <1>3, <1>4, <1>5, <1>6, <1>7, <1>8, <1>10, RestKept

LEMMA EventInv ==
  ASSUME IInv, NEW r \in Roots, Event(r)
  PROVE  IInv'
  <1>1. Suspended(r) /\ Woken(r) /\ Put(r, at)
    BY DEF Event, Suspended
  <1>2. /\ UNCHANGED <<registry, stop, stage, cancelled, awaited, target, joined, control>>
        /\ TypeOK /\ Stopping
    BY DEF Event, IInv
  <1> QED
    BY <1>1, <1>2, WakeInv DEF control, TypeOK, Stopping

(* cancel() of r's scope, whether r awaits something or not. *)
LEMMA CancelScopeInv ==
  ASSUME IInv, NEW r \in Roots, CancelScope(r, at),
         UNCHANGED <<registry, stop, stage, awaited, target, joined, doing, spawning, blocked>>,
         cursor' \in Roots \union {Nil},
         cursor' # Nil /\ at[Main] = "sweeping" => cursor' \in Listed
  PROVE  IInv'
  <1>0. TypeOK /\ Typed /\ Typed' /\ ThreadsBusy /\ Stopping /\ NoIdleWorker
    BY TypedIs DEF IInv
  <1>1. cancelled' \in [Roots -> BOOLEAN]
    BY <1>0 DEF CancelScope, TypeOK
  <1>2. CASE Suspended(r) /\ Woken(r) /\ Put(r, at)
    BY <1>1, <1>2, WakeInv
  <1>3. CASE UNCHANGED <<queue, awaits, at>>
    <2>1. TypeOK'
      BY <1>0, <1>1, <1>3 DEF Typed, registry
    <2>2. ThreadsBusy' /\ Stopping' /\ NoIdleWorker'
      BY <1>0, <1>3 DEF ThreadsBusy, Stopping, NoIdleWorker, Asleep, Listed
    <2> QED
      BY <1>3, <2>1, <2>2, QuietInv
  <1> QED
    BY <1>2, <1>3 DEF CancelScope

LEMMA AbortInv ==
  ASSUME IInv, NEW r \in Roots, Abort(r)
  PROVE  IInv'
  <1>1. /\ CancelScope(r, at)
        /\ UNCHANGED <<registry, stop, stage, awaited, target, joined, control>>
        /\ TypeOK /\ Stopping
    BY DEF Abort, IInv
  <1> QED
    BY <1>1, CancelScopeInv DEF control, TypeOK, Stopping

-----------------------------------------------------------------------------
(* The end of a root. *)
LEMMA SendInv ==
  ASSUME IInv, NEW w \in Workers, NEW r \in Roots, doing[w] = r, Send(w, r)
  PROVE  IInv'
  <1>0. /\ TypeOK /\ ThreadsBusy /\ OneHolder /\ Stopping /\ ListInv /\ Typed /\ Typed'
        /\ w \in Threads /\ Main \in Threads /\ Workers \subseteq Threads /\ w # Main
    BY TypedIs, RuntimeAssumption DEF IInv, Threads
  <1> USE <1>0 DEF registry, control
  <1>1. /\ at[w] = "final" /\ spawning[w] = NoRoot
        /\ stage' = [stage EXCEPT ![r] = "sent"]
        /\ UNCHANGED <<registry, stop, cancelled, awaited, target, joined, control>>
    BY DEF Send, Reaches, ThreadsBusy
  <1>2. stage[r] = "returned"
    BY <1>1, HolderKnows DEF StageOf
  <1>3. /\ Goes(w, "sent") \in [Threads -> Steps]
        /\ NoIdle(Goes(w, "sent"), Len(queue))
        /\ \A x \in Threads : Goes(w, "sent")[x] = IF x = w THEN "sent" ELSE at[x]
    BY <1>1, GoesBack
  <1>4. ListInv' /\ Listed' = Listed
    BY <1>1, <1>2, ListKept DEF ListedStages, TypeOK
  <1>5. CASE at' = Goes(w, "sent") /\ UNCHANGED <<awaits, queue>>
    <2>1. TypeOK'
      BY <1>1, <1>3, <1>5 DEF Typed
    <2>2. /\ ThreadsBusy' /\ OnePlace(r)' /\ StageMatches(r)'
          /\ \A u \in Roots \ {r} : Same(u)
      BY <1>1, <1>3, <1>5, Advances DEF StageOf, Queued
    <2>3. OneHolder'
      BY <1>1, <1>5 DEF OneHolder
    <2>4. Stopping'
      BY <1>1, <1>3, <1>4, <1>5 DEF Stopping
    <2>5. NoIdleWorker'
      BY <1>3, <1>5 DEF NoIdleWorker, NoIdle, Ready
    <2> QED
      BY <1>4, <2>1, <2>2, <2>3, <2>4, <2>5, RestKept
  <1>6. ASSUME NEW x \in Roots, Joins(x, r), Woken(x), Put(x, Goes(w, "sent")) PROVE IInv'
    <2>0. Suspended(x)
      BY <1>6 DEF Joins, Suspended
    <2>1. /\ queue' \in Seq(Roots) /\ Distinct(queue')
          /\ at' \in [Threads -> Steps] /\ Wakes(Goes(w, "sent"))
          /\ NoIdle(at', Len(queue'))
          /\ awaits' \in [Roots -> {"nothing", "event", "join"}]
          /\ Queued(x)' /\ ~Suspended(x)'
          /\ stage[x] = "alive" /\ ~Spawned(x) /\ ~Held(x)
          /\ \A u \in Roots \ {x} : awaits'[u] = awaits[u] /\ (Queued(u)' <=> Queued(u))
      BY <1>3, <1>6, <2>0, WakeMoves
    <2>2. x # r
      BY <1>2, <2>1
    <2>3. TypeOK'
      BY <1>1, <2>1 DEF Typed
    <2>4. /\ at'[w] = "sent" /\ at'[Main] = at[Main]
          /\ \A v \in Workers \ {w} : at'[v] = at[v] \/ (at[v] = "asleep" /\ at'[v] = "looking")
      BY <1>3, <2>1, RuntimeAssumption DEF Wakes
    <2>5. /\ ThreadsBusy' /\ OnePlace(r)' /\ StageMatches(r)'
          /\ \A u \in Roots \ {r, x} : Same(u)
      BY <1>1, <2>1, <2>2, <2>4, Advances DEF StageOf
    <2>6. OneHolder'
      BY <1>1, <2>1 DEF OneHolder
    <2>7. Stopping'
      BY <1>1, <1>4, <2>4 DEF Stopping
    <2>8. NoIdleWorker'
      BY <2>1 DEF NoIdleWorker, NoIdle, Ready
    <2>9. ~Spawned(x)' /\ ~Held(x)' /\ stage'[x] = "alive"
      BY <1>1, <2>1, <2>2 DEF Spawned, Held, TypeOK
    <2>10. OnePlace(x)' /\ StageMatches(x)'
      BY <2>1, <2>9 DEF OnePlace, StageMatches, Held
    <2> QED
      BY <1>4, <2>3, <2>5, <2>6, <2>7, <2>8, <2>10, RestKept
  <1> QED
    BY <1>5, <1>6 DEF Send

LEMMA UnregisterInv ==
  ASSUME IInv, NEW w \in Workers, NEW r \in Roots, doing[w] = r, Unregister(w, r)
  PROVE  IInv'
  <1>0. /\ TypeOK /\ ThreadsBusy /\ OneHolder /\ Stopping /\ ListInv /\ Typed /\ Typed'
        /\ w \in Threads /\ Main \in Threads /\ w # Main
        /\ \A v \in Workers : v # Main /\ v \in Threads
    BY TypedIs, RuntimeAssumption DEF IInv, Threads
  <1> USE <1>0, RuntimeAssumption DEF bodies, control
  <1>1. /\ at[w] = "sent" /\ spawning[w] = NoRoot /\ at[Main] # "sweeping"
        /\ roots' = Unlink(roots, r) /\ live_roots' = live_roots - 1
        /\ stage' = [stage EXCEPT ![r] = "unlisted"]
        /\ UNCHANGED <<queue, stop, bodies, control>>
    BY DEF Unregister, Reaches, RootsFree, ThreadsBusy
  <1>2. stage[r] = "sent" /\ r \in Listed
    BY <1>1, HolderKnows DEF StageOf, Listed
  <1>3. /\ Goes(w, "unlisted") \in [Threads -> Steps]
        /\ NoIdle(Goes(w, "unlisted"), Len(queue))
        /\ \A x \in Threads : Goes(w, "unlisted")[x] = IF x = w THEN "unlisted" ELSE at[x]
    BY <1>1, GoesBack
  <1>4. /\ at' \in [Threads -> Steps]
        /\ \A x \in Threads \ {Main} : at'[x] = Goes(w, "unlisted")[x]
        /\ at'[Main] = at[Main] \/ (at[Main] = "sleeping" /\ at'[Main] = "draining")
    BY <1>3 DEF Unregister, Steps, MainSteps
  <1>5. Listed' = Listed \ {r}
    BY <1>1 DEF Listed, TypeOK
  <1>6. /\ ListInv' /\ roots' \in Lists /\ roots'.tail = Nil /\ live_roots' \in Nat
    <2>1. PICK s \in Seq(Roots) : ListIs(s)
      BY DEF ListInv
    <2>2. PICK k \in 1..Len(s) : s[k] = r
      BY <1>2, <2>1, ElementIndex DEF ListIs
    <2>3. Represents(roots', RemoveAt(s, k)) /\ Distinct(s)
      BY <1>1, <2>1, <2>2, UnlinkList, RepresentsDistinct DEF ListIs, Typed
    <2>4. /\ RemoveAt(s, k) \in Seq(Roots) /\ Len(RemoveAt(s, k)) = Len(s) - 1
          /\ ToSet(RemoveAt(s, k)) = ToSet(s) \ {r}
      BY <2>2, <2>3, RemoveAtIndex, RemoveAtSet
    <2>5. ListIs(RemoveAt(s, k))'
      BY <1>1, <1>5, <2>1, <2>3, <2>4 DEF ListIs
    <2>6. roots' \in Lists /\ roots'.tail = Nil
      <3>1. roots \in Lists /\ roots.tail = Nil /\ r \in Nodes
        BY DEF Typed
      <3> QED
        BY <1>1, <3>1, UnlinkType
    <2>7. live_roots' \in Nat
      BY <1>1, <2>1, <2>2 DEF ListIs
    <2> QED
      BY <2>4, <2>5, <2>6, <2>7 DEF ListInv
  <1>7. TypeOK'
    BY <1>1, <1>4, <1>6 DEF Typed
  <1>8. /\ ThreadsBusy' /\ OnePlace(r)' /\ StageMatches(r)'
        /\ \A u \in Roots \ {r} : Same(u)
    BY <1>1, <1>3, <1>4, Advances DEF StageOf, Queued
  <1>9. OneHolder'
    BY <1>1 DEF OneHolder
  <1>10. Stopping'
    BY <1>1, <1>3, <1>4, <1>5 DEF Stopping
  <1>11. NoIdleWorker'
    <2>1. Asleep(at') = Asleep(Goes(w, "unlisted")) /\ Ready(at') = Ready(Goes(w, "unlisted"))
      BY <1>4 DEF Asleep, Ready
    <2> QED
      BY <1>1, <1>3, <2>1 DEF NoIdleWorker, NoIdle, Ready
  <1> QED
    BY <1>6, <1>7, <1>8, <1>9, <1>10, <1>11, RestKept

LEMMA DestroyInv ==
  ASSUME IInv, NEW w \in Workers, NEW r \in Roots, doing[w] = r, Destroy(w, r)
  PROVE  IInv'
  <1>0. /\ TypeOK /\ ThreadsBusy /\ OneHolder /\ Stopping /\ ListInv /\ Typed /\ Typed'
        /\ w \in Threads /\ Main \in Threads /\ w # Main /\ Workers \subseteq Threads
    BY TypedIs, RuntimeAssumption DEF IInv, Threads
  <1> USE <1>0, RuntimeAssumption DEF registry, bodies
  <1>1. /\ at[w] = "unlisted" /\ spawning[w] = NoRoot
        /\ stage' = [stage EXCEPT ![r] = "destroyed"]
        /\ doing' = [doing EXCEPT ![w] = NoRoot] /\ at' = Goes(w, "testing")
        /\ UNCHANGED <<registry, queue, stop, bodies, spawning, cursor, blocked>>
    BY DEF Destroy, Reaches, ThreadsBusy
  <1>2. /\ stage[r] = "unlisted" /\ ~Spawned(r) /\ ~Queued(r) /\ ~Suspended(r)
        /\ \A v \in Workers : doing[v] = r => v = w
    BY <1>1, HolderKnows DEF StageOf
  <1>3. /\ at' \in [Threads -> Steps] /\ NoIdle(at', Len(queue'))
        /\ at'[w] = "testing" /\ \A x \in Threads \ {w} : at'[x] = at[x]
    BY <1>1, GoesBack
  <1>4. TypeOK'
    BY <1>1, <1>3 DEF Typed
  <1>5. ThreadsBusy'
    BY <1>1, <1>3 DEF TypeOK, ThreadsBusy, WorkerSteps, StageOf
  <1>6. OneHolder'
    BY <1>1 DEF OneHolder, TypeOK
  <1>7. ListInv' /\ Listed' = Listed
    BY <1>1, <1>2, ListKept DEF ListedStages, TypeOK
  <1>8. Stopping'
    BY <1>1, <1>3, <1>7 DEF Stopping
  <1>9. NoIdleWorker'
    BY <1>3 DEF NoIdleWorker, NoIdle, Ready
  <1>10. \A u \in Roots \ {r} : Same(u)
    BY <1>1, <1>3 DEF Same, Queued, TypeOK
  <1>11. /\ ~Spawned(r)' /\ ~Queued(r)' /\ ~Suspended(r)' /\ ~Held(r)'
         /\ stage'[r] = "destroyed"
    BY <1>1, <1>2 DEF Spawned, Queued, Suspended, Held, TypeOK
  <1>12. OnePlace(r)' /\ StageMatches(r)'
    BY <1>11 DEF OnePlace, StageMatches, Held
  <1> QED
    BY <1>4, <1>5, <1>6, <1>7, <1>8, <1>9, <1>10, <1>12, RestKept

-----------------------------------------------------------------------------
(* ~runtime() *)

(* The sweep goes from root to root.                                       *)
LEMMA NextListed ==
  ASSUME IInv
  PROVE  /\ roots.head \in Listed \union {Nil}
         /\ cursor \in Listed => Following \in Listed \union {Nil}
  <1>1. PICK s \in Seq(Roots) : Represents(roots, s) /\ ToSet(s) = Listed
    BY DEF IInv, ListInv, ListIs
  <1>2. \A i \in 1..Len(s) : s[i] \in Listed
    BY <1>1, ElementIndex
  <1>3. roots.head \in Listed \union {Nil}
    BY <1>1, <1>2 DEF Represents
  <1>4. ASSUME cursor \in Listed PROVE Following \in Listed \union {Nil}
    <2>1. PICK i \in 1..Len(s) : s[i] = cursor
      BY <1>1, <1>4, ElementIndex
    <2> QED
      BY <1>1, <1>2, <2>1 DEF Represents, Following
  <1> QED
    BY <1>3, <1>4

LEMMA SweepInv ==
  ASSUME IInv, Sweep
  PROVE  IInv'
  <1>1. PICK r \in Roots : cursor = r /\ r \in Listed
    BY DEF IInv, Stopping, Sweep, Listed
  <1>2. /\ CancelScope(r, at)
        /\ UNCHANGED <<registry, stop, stage, awaited, target, joined, doing, spawning,
                       blocked>>
    BY <1>1 DEF Sweep
  <1>3. cursor' \in Listed \union {Nil}
    BY <1>1, NextListed DEF Sweep
  <1> QED
    BY <1>2, <1>3, CancelScopeInv DEF Listed

(* The other steps of Main move no root.                                   *)
LEMMA MainGoesInv ==
  ASSUME IInv, NEW step \in MainSteps, at' = Goes(Main, step), cursor' \in Roots \union {Nil},
         UNCHANGED <<registry, queue, stage, bodies, doing, spawning, blocked>>,
         at[Main] = "live" => spawning[Main] = NoRoot,
         Stopping', stop' \in BOOLEAN
  PROVE  IInv'
  <1>0. /\ TypeOK /\ ThreadsBusy /\ Typed /\ Typed' /\ NoIdleWorker
        /\ Main \in Threads /\ \A w \in Workers : w # Main /\ w \in Threads
    BY TypedIs, RuntimeAssumption DEF IInv, Threads
  <1> USE <1>0 DEF registry, bodies
  <1>1. /\ at' \in [Threads -> Steps] /\ at'[Main] = step
        /\ \A w \in Workers : at'[w] = at[w]
    BY DEF Goes, Typed, Steps
  <1>2. TypeOK'
    BY <1>1 DEF Typed
  <1>3. ThreadsBusy'
    BY <1>1 DEF ThreadsBusy
  <1>4. NoIdleWorker'
    BY <1>1 DEF NoIdleWorker, Asleep
  <1> QED
    BY <1>1, <1>2, <1>3, <1>4, QuietInv

LEMMA DestructorInv ==
  ASSUME IInv, Destructor \/ BeginSweep
  PROVE  IInv'
  <1>0. /\ TypeOK /\ ThreadsBusy /\ Stopping /\ ListInv /\ Main \in Threads
        /\ Main \notin Workers /\ Workers \subseteq Threads
    BY RuntimeAssumption DEF IInv, Threads
  <1> USE <1>0 DEF registry, bodies, control
  <1>1. CASE BeginSweep
    <2>1. /\ at' = Goes(Main, "sweeping") /\ at[Main] = "live" /\ spawning[Main] = NoRoot
          /\ cursor' \in Listed \union {Nil}
          /\ UNCHANGED <<registry, queue, stop, stage, bodies, doing, spawning, blocked>>
      BY <1>1, NextListed DEF BeginSweep, Unsuspended
    <2>2. Stopping'
      BY <2>1 DEF Stopping, Goes, Listed, TypeOK
    <2> QED
      BY <2>1, <2>2, MainGoesInv DEF MainSteps, Listed, TypeOK
  <1>2. CASE Sweep
    BY <1>2, SweepInv
  <1>3. CASE EndSweep
    <2>1. Stopping'
      BY <1>3 DEF EndSweep, Stopping, Goes, Listed, TypeOK
    <2> QED
      BY <1>3, <2>1, MainGoesInv DEF EndSweep, MainSteps, TypeOK
  <1>4. CASE Drain
    <2>1. Drained => Listed = {}
      <3>1. PICK s \in Seq(Roots) : ToSet(s) = Listed /\ Len(s) = live_roots
        BY DEF ListInv, ListIs
      <3> QED
        BY <3>1, EmptySeq, EmptySequence DEF Drained
    <2>2. Stopping'
      BY <1>4, <2>1 DEF Drain, Stopping, Goes, Listed, TypeOK
    <2> QED
      BY <1>4, <2>2, MainGoesInv DEF Drain, MainSteps, TypeOK
  <1>5. CASE RequestStop
    <2>1. Stopping'
      BY <1>5 DEF RequestStop, Stopping, Goes, Listed, TypeOK
    <2> QED
      BY <1>5, <2>1, MainGoesInv DEF RequestStop, MainSteps, TypeOK
  <1>6. CASE NotifyAll
    <2>1. /\ at[Main] = "notifying" /\ at'[Main] = "joining"
          /\ \A w \in Workers : at'[w] = IF at[w] = "asleep" THEN "looking" ELSE at[w]
          /\ UNCHANGED <<registry, queue, stop, stage, bodies, control>>
      BY <1>6 DEF NotifyAll
    <2>2. TypeOK'
      BY <1>6, TypedIs DEF NotifyAll, Typed, Steps, WorkerSteps, MainSteps
    <2>3. ThreadsBusy'
      BY <2>1 DEF ThreadsBusy, WorkerSteps, MainSteps, StageOf
    <2>4. Stopping'
      BY <2>1 DEF Stopping, Listed
    <2>5. NoIdleWorker'
      BY <2>1 DEF NoIdleWorker, Asleep
    <2> QED
      BY <2>1, <2>2, <2>3, <2>4, <2>5, QuietInv DEF ThreadsBusy, StageOf
  <1>7. CASE JoinWorkers
    <2>1. Stopping'
      BY <1>7 DEF JoinWorkers, Stopping, Goes, Listed, TypeOK
    <2> QED
      BY <1>7, <2>1, MainGoesInv DEF JoinWorkers, MainSteps, TypeOK
  <1> QED
    BY <1>1, <1>2, <1>3, <1>4, <1>5, <1>6, <1>7 DEF Destructor

-----------------------------------------------------------------------------
LEMMA InitIInv == Init => IInv
  <1> SUFFICES ASSUME Init PROVE IInv
    OBVIOUS
  <1>0. /\ Main \in Threads /\ Main \notin Workers /\ Workers \subseteq Threads /\ Typed
    BY TypedIs, RuntimeAssumption DEF Threads
  <1> USE <1>0, RuntimeAssumption DEF Init
  <1>1. TypeOK
    <2>1. EmptyList \in Lists /\ EmptyList.tail = Nil
      BY EmptyListRepresents DEF EmptyList
    <2>2. at \in [Threads -> Steps]
      BY DEF Steps, WorkerSteps, MainSteps
    <2>5. queue \in Seq(Roots)
      BY EmptySeq
    <2>3. /\ live_roots \in Nat /\ stop \in BOOLEAN /\ joined \subseteq Roots
          /\ stage \in [Roots -> {"unborn", "alive", "returned", "sent", "unlisted",
                                  "destroyed"}]
          /\ cancelled \in [Roots -> BOOLEAN]
          /\ awaits \in [Roots -> {"nothing", "event", "join"}]
      OBVIOUS
    <2>4. /\ awaited \in [Roots -> 0..MaxAwaits]
          /\ target \in [Roots -> Roots \union {NoRoot}]
          /\ doing \in [Workers -> Roots \union {NoRoot}]
          /\ spawning \in [Threads -> Roots \union {NoRoot}]
          /\ cursor \in Roots \union {Nil} /\ blocked \in Roots \union {NoRoot}
      OBVIOUS
    <2> QED
      BY <2>1, <2>2, <2>3, <2>4, <2>5 DEF Typed
  <1>2. ThreadsBusy
    BY DEF ThreadsBusy, WorkerSteps, MainSteps, StageOf
  <1>3. OneHolder
    BY EmptySequence DEF OneHolder
  <1>4. Listed = {}
    BY DEF Listed
  <1>5. Stopping
    BY <1>4 DEF Stopping
  <1>6. ListInv
    <2>1. <<>> \in Seq(Roots) /\ ListIs(<<>>)
      BY <1>4, EmptyListRepresents, EmptySequence DEF ListIs
    <2> QED
      BY <2>1 DEF ListInv
  <1>7. NoIdleWorker
    BY DEF NoIdleWorker, Asleep
  <1>8. ASSUME NEW r \in Roots PROVE OnePlace(r) /\ StageMatches(r)
    <2>1. ~Spawned(r) /\ ~Queued(r) /\ ~Suspended(r) /\ ~Held(r) /\ stage[r] = "unborn"
      BY EmptySequence DEF Spawned, Queued, Suspended, Held
    <2> QED
      BY <2>1 DEF OnePlace, StageMatches, Held
  <1> QED
    BY <1>1, <1>2, <1>3, <1>5, <1>6, <1>7, <1>8 DEF IInv

LEMMA NextIInv == IInv /\ [Next]_vars => IInv'
  <1> SUFFICES ASSUME IInv, [Next]_vars PROVE IInv'
    OBVIOUS
  <1>1. ASSUME NEW w \in Workers, WorkerStep(w) PROVE IInv'
    <2>1. w \in Threads
      BY DEF Threads
    <2>2. ASSUME NEW r \in Roots, doing[w] = r, Body(w, r) PROVE IInv'
      BY <2>1, <2>2, AwaitInv, ReturnInv, JoinInv, RegisterInv, SendInv, UnregisterInv,
         DestroyInv
      DEF Body
    <2> QED
      BY <1>1, <2>1, <2>2, TestStopInv, LookInv, ScheduleInv DEF WorkerStep
  <1>2. CASE MainStep
    BY <1>2, ScheduleInv, FutureGetInv, DestructorInv DEF MainStep, Threads
  <1>3. CASE BeginSweep
    BY <1>3, DestructorInv
  <1>4. ASSUME NEW r \in Roots, Register(Main, r) \/ Event(r) \/ Abort(r) PROVE IInv'
    BY <1>4, RegisterInv, EventInv, AbortInv DEF Threads
  <1>5. CASE UNCHANGED vars
    <2>1. UNCHANGED <<registry, queue, stop, stage, bodies, at, control>>
      BY <1>5 DEF vars
    <2>2. TypeOK' /\ ThreadsBusy' /\ Stopping' /\ NoIdleWorker'
      BY <2>1 DEF IInv, TypeOK, ThreadsBusy, Stopping, NoIdleWorker, Asleep, Listed,
                  registry, bodies, control
    <2> QED
      BY <2>1, <2>2, QuietInv DEF bodies, control
  <1> QED
    BY <1>1, <1>2, <1>3, <1>4, <1>5 DEF Next

LEMMA Invariance == Spec => []IInv
  BY InitIInv, NextIInv, PTL DEF Spec

(* The variables of the runtime keep their types, and live_roots_ never    *)
(* goes below 0. *)
THEOREM TypeCorrect == Spec => []TypeOK
  <1>1. IInv => TypeOK
    BY DEF IInv
  <1> QED
    BY <1>1, Invariance, PTL

(* The list that the destructor walks is, link by link, a list of the      *)
(* roots that have registered and not unregistered; live_roots_ counts     *)
(* them, and the walk never stands on one that has left.                   *)
THEOREM RootsAreListed == Spec => []RootsListed
  <1>1. ASSUME IInv PROVE RootsListed
    <2>1. PICK s \in Seq(Roots) : ListIs(s)
      BY <1>1 DEF IInv, ListInv
    <2>2. \A x : x \in Listed <=> \E i \in 1..Len(s) : s[i] = x
      BY <2>1, ElementIndex DEF ListIs
    <2>3. s \in [1..live_roots -> Listed]
      BY <2>1, <2>2 DEF ListIs
    <2>4. Represents(roots, s) /\ Listed \subseteq {s[i] : i \in 1..live_roots}
      BY <2>1, <2>2 DEF ListIs
    <2> QED
      BY <1>1, <2>3, <2>4 DEF RootsListed, IInv, Stopping
  <1> QED
    BY <1>1, Invariance, PTL

(* A coroutine is neither lost nor resumed twice: while its frame exists   *)
(* its handle is with its spawner, in the run queue, suspended, or on a    *)
(* worker, and in one of these places only.                                *)
THEOREM HandlesAreOnce == Spec => []HandleOnce
  <1>1. ASSUME IInv, NEW r \in Roots
        PROVE  Cardinality(Places(r)) = IF stage[r] \in {"unborn", "destroyed"} THEN 0 ELSE 1
    <2>0. TypeOK /\ ThreadsBusy /\ OneHolder /\ OnePlace(r) /\ StageMatches(r)
      BY <1>1 DEF IInv
    <2> DEFINE S == {<<"spawner", th>> : th \in {th \in Threads : spawning[th] = r}}
               Q == {<<"queue", i>> : i \in {i \in DOMAIN queue : queue[i] = r}}
               A == IF awaits[r] = "nothing" THEN {} ELSE {<<"suspended", r>>}
               W == {<<"worker", w>> : w \in {w \in Workers : doing[w] = r}}
    <2>1. Places(r) = S \union Q \union A \union W
      BY DEF Places
    <2>2. IF Spawned(r) THEN \E p : S = {p} ELSE S = {}
      <3>1. \A x, y \in Threads : spawning[x] = r /\ spawning[y] = r => x = y
        BY <2>0, RuntimeAssumption DEF OneHolder
      <3>2. ASSUME NEW th \in Threads, spawning[th] = r PROVE S = {<<"spawner", th>>}
        BY <3>1, <3>2
      <3> QED
        BY <3>2 DEF Spawned
    <2>3. IF Queued(r) THEN \E p : Q = {p} ELSE Q = {}
      <3>1. queue \in Seq(Roots) /\ DOMAIN queue = 1..Len(queue)
        BY <2>0 DEF TypeOK
      <3>2. Queued(r) <=> \E i \in 1..Len(queue) : queue[i] = r
        BY <3>1, ElementIndex DEF Queued
      <3>3. ASSUME NEW i \in 1..Len(queue), queue[i] = r PROVE Q = {<<"queue", i>>}
        <4>1. {j \in DOMAIN queue : queue[j] = r} = {i}
          BY <2>0, <3>1, <3>3 DEF OneHolder, Distinct
        <4> QED
          BY <4>1
      <3> QED
        BY <3>1, <3>2, <3>3
    <2>4. IF Suspended(r) THEN \E p : A = {p} ELSE A = {}
      BY DEF Suspended
    <2>5. IF Held(r) THEN \E p : W = {p} ELSE W = {}
      <3>1. \A v, w \in Workers : doing[v] = r /\ doing[w] = r => v = w
        BY <2>0, RuntimeAssumption DEF OneHolder
      <3>2. ASSUME NEW w \in Workers, doing[w] = r PROVE W = {<<"worker", w>>}
        BY <3>1, <3>2
      <3> QED
        BY <3>2 DEF Held
    <2> HIDE DEF S, Q, A, W
    <2>6. CASE stage[r] \in {"unborn", "destroyed"}
      <3>1. ~Spawned(r) /\ ~Queued(r) /\ ~Suspended(r) /\ ~Held(r)
        BY <2>0, <2>6, RuntimeAssumption DEF StageMatches, Held, ThreadsBusy, StageOf
      <3>2. Places(r) = {}
        BY <2>1, <2>2, <2>3, <2>4, <2>5, <3>1
      <3> QED
        BY <2>6, <3>2, FS_EmptySet
    <2>7. CASE stage[r] \notin {"unborn", "destroyed"}
      <3>1. Spawned(r) \/ Queued(r) \/ Suspended(r) \/ Held(r)
        BY <2>0, <2>7 DEF StageMatches, TypeOK
      <3>2. \E p : Places(r) = {p}
        BY <2>0, <2>1, <2>2, <2>3, <2>4, <2>5, <3>1 DEF OnePlace
      <3> QED
        BY <2>7, <3>2, FS_Singleton
    <2> QED
      BY <2>6, <2>7
  <1>2. IInv => HandleOnce
    BY <1>1 DEF HandleOnce
  <1> QED
    BY <1>2, Invariance, PTL

(* No worker sleeps on while there are more handles in the queue than      *)
(* workers on their way to it.                                             *)
THEOREM NoWorkerIdle == Spec => []NoIdleWorker
  <1>1. IInv => NoIdleWorker
    BY DEF IInv
  <1> QED
    BY <1>1, Invariance, PTL

(* The workers are told to stop when nothing is left to run, and when the  *)
(* destructor returns every frame has been destroyed.                      *)
THEOREM StopsWhenAllDone == Spec => []StopsWhenDone
  <1>1. ASSUME IInv PROVE StopsWhenDone
    <2>1. ASSUME stop PROVE queue = <<>> /\ Listed = {}
      BY <1>1, <2>1, NothingQueued DEF IInv, Stopping
    <2>2. ASSUME at[Main] = "gone", NEW r \in Roots PROVE stage[r] \in {"unborn", "destroyed"}
      <3>1. stage[r] \notin {"alive", "returned", "sent"}
        BY <1>1, <2>2 DEF IInv, Stopping, Listed
      <3>2. ~Held(r)
        BY <1>1, <2>2, RuntimeAssumption DEF IInv, Stopping, ThreadsBusy, StageOf, Held
      <3> QED
        BY <1>1, <3>1, <3>2 DEF IInv, TypeOK, StageMatches
    <2> QED
      BY <2>1, <2>2 DEF StopsWhenDone
  <1> QED
    BY <1>1, Invariance, PTL
-----------------------------------------------------------------------------
(* What a program gets that spawns nothing once ~runtime() has begun.      *)

(* The sweep goes through the list in order: what is before the cursor is  *)
(* cancelled.                                                              *)
Behind(s) ==
    \E k \in 1..(Len(s) + 1) :
        /\ cursor = IF k = Len(s) + 1 THEN Nil ELSE s[k]
        /\ \A i \in 1..(k - 1) : cancelled[s[i]]

SweptInv ==
    /\ at[Main] = "sweeping" => \E s \in Seq(Roots) : ListIs(s) /\ Behind(s)
    /\ WaitsForCancelled

(* What anybody but the destructor can do to the roots and to Main.        *)
Beside ==
    /\ at'[Main] = at[Main] \/ (at[Main] = "sleeping" /\ at'[Main] = "draining")
    /\ \A r \in Roots : cancelled[r] => cancelled'[r]
    /\ at[Main] = "sweeping" => UNCHANGED <<registry, cursor>> /\ Listed' = Listed
    /\ at[Main] \in {"draining", "sleeping"} => Listed' \subseteq Listed

LEMMA MainStays ==
  ASSUME NEW a, a \in [Threads -> Steps], NEW r, Put(r, a)
  PROVE  at'[Main] = a[Main]
  <1>1. Main \in Threads /\ Main \notin Workers
    BY RuntimeAssumption DEF Threads
  <1> QED
    BY <1>1 DEF Put, Notified, Asleep

LEMMA BodyBeside ==
  ASSUME IInv, ~LateSpawn, NEW w \in Workers, NEW r \in Roots, doing[w] = r, Body(w, r)
  PROVE  Beside
  <1>0. /\ TypeOK /\ Typed /\ w \in Threads /\ Main \in Threads /\ w # Main
        /\ \A step \in Steps : Goes(w, step) \in [Threads -> Steps]
        /\ \A step \in Steps : Goes(w, step)[Main] = at[Main]
        /\ {"testing", "final", "sent", "unlisted"} \subseteq Steps
    BY TypedIs, RuntimeAssumption DEF IInv, Threads, Typed, Goes, Steps, WorkerSteps
  <1> USE <1>0 DEF registry, bodies, control
  <1>1. CASE Await(w, r)
    <2>1. \/ at' = at \/ at' = Goes(w, "testing") \/ Put(r, Goes(w, "testing"))
      BY <1>1 DEF Await, Suspends
    <2>2. ASSUME Put(r, Goes(w, "testing")) PROVE at'[Main] = at[Main]
      <3>1. Goes(w, "testing") \in [Threads -> Steps]
        OBVIOUS
      <3>2. at'[Main] = Goes(w, "testing")[Main]
        BY <2>2, <3>1, MainStays
      <3> QED
        BY <3>2
    <2>3. at'[Main] = at[Main]
      BY <2>1, <2>2
    <2> QED
      BY <1>1, <2>3 DEF Await, Beside, Listed
  <1>2. CASE Return(w, r)
    <2>1. at' = Goes(w, "final") /\ stage[r] = "alive" /\ stage' = [stage EXCEPT ![r] = "returned"]
      <3>1. at[w] = "running"
        BY <1>2 DEF Return, Unsuspended
      <3>2. stage[r] = StageOf[at[w]]
        BY HolderKnows
      <3> QED
        BY <1>2, <3>1, <3>2 DEF Return, Reaches, StageOf
    <2>2. at'[Main] = at[Main] /\ Listed' = Listed
      BY <2>1 DEF Listed, TypeOK
    <2> QED
      BY <1>2, <2>2 DEF Return, Beside
  <1>3. ASSUME NEW child \in Roots, Join(w, r, child) PROVE Beside
    BY <1>3 DEF Join, Suspends, Beside, Listed
  <1>4. ASSUME NEW child \in Roots, Register(w, child) PROVE Beside
    BY <1>4 DEF Register, Beside
  <1>5. CASE Send(w, r)
    <2>1. at'[Main] = at[Main]
      BY <1>5, MainStays DEF Send
    <2>2. Listed' = Listed
      BY <1>5, HolderKnows DEF Send, Reaches, Listed, TypeOK, IInv, StageOf
    <2> QED
      BY <1>5, <2>1, <2>2 DEF Send, Beside
  <1>6. CASE Unregister(w, r)
    <2>1. Listed' \subseteq Listed
      BY <1>6 DEF Unregister, Reaches, Listed, TypeOK
    <2>2. at'[Main] = at[Main] \/ (at[Main] = "sleeping" /\ at'[Main] = "draining")
      BY <1>6 DEF Unregister
    <2> QED
      BY <1>6, <2>1, <2>2 DEF Unregister, RootsFree, Beside
  <1>7. CASE Destroy(w, r)
    <2>1. Listed' = Listed
      BY <1>7, HolderKnows DEF Destroy, Reaches, Listed, TypeOK, IInv, StageOf
    <2> QED
      BY <1>7, <2>1 DEF Destroy, Beside
  <1> QED
    BY <1>1, <1>2, <1>3, <1>4, <1>5, <1>6, <1>7 DEF Body

LEMMA CancelScopeBeside ==
  ASSUME IInv, NEW r \in Roots, CancelScope(r, at)
  PROVE  at'[Main] = at[Main] /\ (\A u \in Roots : cancelled[u] => cancelled'[u]) /\ cancelled'[r]
  <1>1. at \in [Threads -> Steps] /\ cancelled \in [Roots -> BOOLEAN]
    BY TypedIs DEF IInv, Typed, TypeOK
  <1> QED
    BY <1>1, MainStays DEF CancelScope

LEMMA OthersBeside ==
  ASSUME IInv, ~LateSpawn,
         \/ \E w \in Workers : WorkerStep(w)
         \/ Schedule(Main) \/ FutureGet
         \/ \E r \in Roots : Register(Main, r) \/ Event(r) \/ Abort(r)
         \/ UNCHANGED vars
  PROVE  Beside
  <1>0. /\ TypeOK /\ Main \in Threads /\ Main \notin Workers /\ Workers \subseteq Threads
        /\ at \in [Threads -> Steps] /\ cancelled \in [Roots -> BOOLEAN]
    BY TypedIs, RuntimeAssumption DEF IInv, Threads, Typed, TypeOK
  <1> USE <1>0 DEF registry, bodies, control
  <1>1. ASSUME NEW th \in Threads, Schedule(th) PROVE Beside
    <2>1. at'[Main] = at[Main]
      BY <1>1, MainStays DEF Schedule
    <2> QED
      BY <1>1, <2>1 DEF Schedule, Beside, Listed
  <1>2. ASSUME NEW w \in Workers, WorkerStep(w) PROVE Beside
    <2>1. ASSUME TestStop(w) \/ Look(w) PROVE Beside
      BY <2>1 DEF TestStop, Look, Goes, Beside, Listed
    <2> QED
      BY <1>1, <1>2, <2>1, BodyBeside DEF WorkerStep, TypeOK
  <1>3. CASE FutureGet
    BY <1>3 DEF FutureGet, Beside, Listed
  <1>4. ASSUME NEW r \in Roots, Register(Main, r) PROVE Beside
    BY <1>4 DEF Register, Unsuspended, Beside
  <1>5. ASSUME NEW r \in Roots, Event(r) PROVE Beside
    <2>1. at'[Main] = at[Main]
      BY <1>5, MainStays DEF Event
    <2> QED
      BY <1>5, <2>1 DEF Event, Beside, Listed
  <1>6. ASSUME NEW r \in Roots, Abort(r) PROVE Beside
    BY <1>6, CancelScopeBeside DEF Abort, Beside, Listed
  <1>7. CASE UNCHANGED vars
    BY <1>7 DEF vars, Beside, Listed
  <1> QED
    BY <1>1, <1>2, <1>3, <1>4, <1>5, <1>6, <1>7

LEMMA BesideSwept ==
  ASSUME IInv, SweptInv, Beside
  PROVE  SweptInv'
  <1>1. ASSUME at'[Main] = "sweeping" PROVE \E s \in Seq(Roots) : ListIs(s)' /\ Behind(s)'
    <2>1. at[Main] = "sweeping"
      BY <1>1 DEF Beside
    <2>2. PICK s \in Seq(Roots) : ListIs(s) /\ Behind(s)
      BY <2>1 DEF SweptInv
    <2>3. ListIs(s)'
      BY <2>1, <2>2 DEF Beside, ListIs, registry
    <2>4. Behind(s)'
      BY <2>1, <2>2 DEF Beside, Behind
    <2> QED
      BY <2>3, <2>4
  <1>2. WaitsForCancelled'
    BY DEF SweptInv, WaitsForCancelled, Beside, Listed
  <1> QED
    BY <1>1, <1>2 DEF SweptInv

LEMMA DestructorSwept ==
  ASSUME IInv, SweptInv, Destructor \/ BeginSweep
  PROVE  SweptInv'
  <1>0. /\ TypeOK /\ ListInv /\ Main \in Threads /\ Main \notin Workers
        /\ at \in [Threads -> Steps] /\ cancelled \in [Roots -> BOOLEAN]
        /\ \A step : Goes(Main, step)[Main] = step
    BY TypedIs, RuntimeAssumption DEF IInv, Threads, Typed, TypeOK, Goes
  <1> USE <1>0 DEF registry, bodies, control
  <1>1. CASE BeginSweep
    <2>1. PICK s \in Seq(Roots) : ListIs(s)
      BY DEF ListInv
    <2>2. at'[Main] = "sweeping" /\ cursor' = roots.head /\ UNCHANGED <<registry, stage, bodies>>
      BY <1>1 DEF BeginSweep
    <2>3. ListIs(s)'
      BY <2>1, <2>2 DEF ListIs, Listed
    <2>4. cursor' = IF 1 = Len(s) + 1 THEN Nil ELSE s[1]
      BY <2>1, <2>2 DEF ListIs, Represents
    <2>5. Behind(s)'
      BY <2>1, <2>4 DEF Behind
    <2> QED
      BY <2>2, <2>3, <2>5 DEF SweptInv, WaitsForCancelled
  <1>2. CASE Sweep
    <2>1. PICK s \in Seq(Roots) : ListIs(s) /\ Behind(s)
      BY <1>2 DEF SweptInv, Sweep
    <2>2. PICK k \in 1..(Len(s) + 1) :
              /\ cursor = IF k = Len(s) + 1 THEN Nil ELSE s[k]
              /\ \A i \in 1..(k - 1) : cancelled[s[i]]
      BY <2>1 DEF Behind
    <2>3. k \in 1..Len(s) /\ cursor = s[k] /\ cursor \in Roots
      BY <1>2, <2>2 DEF Sweep
    <2>4. /\ at'[Main] = "sweeping" /\ cancelled'[s[k]]
          /\ \A u \in Roots : cancelled[u] => cancelled'[u]
      BY <1>2, <2>3, CancelScopeBeside DEF Sweep
    <2>5. cursor' = IF k = Len(s) THEN Nil ELSE s[k + 1]
      BY <1>2, <2>1, <2>3 DEF Sweep, Following, ListIs, Represents
    <2>6. \A i \in 1..k : cancelled'[s[i]]
      BY <2>2, <2>3, <2>4
    <2>7. Behind(s)'
      <3>1. k + 1 \in 1..(Len(s) + 1) /\ (k + 1) - 1 = k /\ (k + 1 = Len(s) + 1 <=> k = Len(s))
        BY <2>1, <2>3
      <3> QED
        BY <2>5, <2>6, <3>1 DEF Behind
    <2>8. ListIs(s)'
      BY <1>2, <2>1 DEF Sweep, ListIs, Listed
    <2> QED
      BY <2>4, <2>7, <2>8 DEF SweptInv, WaitsForCancelled
  <1>3. CASE EndSweep
    <2>1. PICK s \in Seq(Roots) : ListIs(s) /\ Behind(s)
      BY <1>3 DEF SweptInv, EndSweep
    <2>2. \A i \in 1..Len(s) : cancelled[s[i]]
      <3>1. PICK k \in 1..(Len(s) + 1) :
                /\ cursor = IF k = Len(s) + 1 THEN Nil ELSE s[k]
                /\ \A i \in 1..(k - 1) : cancelled[s[i]]
        BY <2>1 DEF Behind
      <3>2. k = Len(s) + 1
        BY <1>3, <2>1, <3>1, RuntimeAssumption, NilAssumption DEF EndSweep
      <3> QED
        BY <2>1, <3>1, <3>2
    <2>3. \A r \in Listed : cancelled[r]
      BY <2>1, <2>2, ElementIndex DEF ListIs
    <2>4. at'[Main] = "draining" /\ UNCHANGED <<stage, cancelled>>
      BY <1>3 DEF EndSweep
    <2> QED
      BY <2>3, <2>4 DEF SweptInv, WaitsForCancelled, Listed
  <1>4. CASE Drain
    <2>1. at[Main] = "draining" /\ at'[Main] # "sweeping" /\ UNCHANGED <<stage, cancelled>>
      BY <1>4 DEF Drain
    <2> QED
      BY <2>1 DEF SweptInv, WaitsForCancelled, Listed
  <1>5. CASE RequestStop \/ NotifyAll \/ JoinWorkers
    <2>1. at'[Main] \in {"notifying", "joining", "gone"}
      BY <1>5 DEF RequestStop, NotifyAll, JoinWorkers
    <2> QED
      BY <2>1 DEF SweptInv, WaitsForCancelled
  <1> QED
    BY <1>1, <1>2, <1>3, <1>4, <1>5 DEF Destructor

(* If no root spawns after the destructor has begun, the destructor waits  *)
(* for cancelled roots only: whatever was in the list when it was walked,  *)
(* however roots ended meanwhile.  (With LateSpawn it does not.)           *)
THEOREM CancelsEveryRoot ==
  ASSUME ~LateSpawn
  PROVE  Spec => []WaitsForCancelled
  <1>1. Init => SweptInv
    BY DEF Init, SweptInv, WaitsForCancelled, Threads
  <1>2. IInv /\ SweptInv /\ [Next]_vars => SweptInv'
    BY OthersBeside, BesideSwept, DestructorSwept DEF Next, MainStep
  <1>3. SweptInv => WaitsForCancelled
    BY DEF SweptInv
  <1> QED
    BY <1>1, <1>2, <1>3, Invariance, PTL DEF Spec
=============================================================================
