--------------------------- MODULE FifoSemaphore ---------------------------
(***************************************************************************)
(* What a semaphore promises to those that use it: a permit is had, given  *)
(* back, forgotten or added, and those who wait are served in the order in *)
(* which they came, whoever else asks.  Semaphore is shown to implement    *)
(* it.                                                                     *)
(***************************************************************************)
EXTENDS SequencesExt, Naturals

CONSTANTS
    Tasks,       \* those that wait
    Need,        \* Need[t]: the permits t asks for
    Visitors,    \* those that do not
    Initial      \* the permits there are at first

VARIABLES
    free,        \* the permits nobody has
    queue,       \* the tasks that wait, the first in front
    owed,        \* the tasks that have what they asked for
    held         \* held[v]: the permits visitor v has

fifoVars == <<free, queue, owed, held>>

Init ==
    /\ free = Initial
    /\ queue = <<>>
    /\ owed = {}
    /\ held = [v \in Visitors |-> 0]

Join(t) ==
    /\ t \notin ToSet(queue) \union owed
    /\ queue' = Append(queue, t)
    /\ UNCHANGED <<free, owed, held>>

Has(t) ==
    /\ Need[t] <= free
    /\ free' = free - Need[t]
    /\ owed' = owed \union {t}
    /\ UNCHANGED held

(* The first in the queue, and nobody else, ...                            *)
Serve ==
    /\ queue # <<>>
    /\ Has(Head(queue))
    /\ queue' = Tail(queue)

(* ... unless there is no queue.                                           *)
Take(t) ==
    /\ queue = <<>>
    /\ t \notin owed
    /\ Has(t)
    /\ UNCHANGED queue

(* A waiter gives up, wherever he stands.                                  *)
Leave ==
    /\ \E i \in DOMAIN queue : queue' = RemoveAt(queue, i)
    /\ UNCHANGED <<free, owed, held>>

GiveBack(t) ==
    /\ t \in owed
    /\ free' = free + Need[t]
    /\ owed' = owed \ {t}
    /\ UNCHANGED <<queue, held>>

TakeOne(v) ==
    /\ queue = <<>>
    /\ free > 0
    /\ free' = free - 1
    /\ held' = [held EXCEPT ![v] = @ + 1]
    /\ UNCHANGED <<queue, owed>>

Drop(v) ==
    /\ held' = [held EXCEPT ![v] = 0]
    /\ UNCHANGED <<queue, owed>>

GiveAll(v) == Drop(v) /\ free' = free + held[v]
Forget(v) == Drop(v) /\ UNCHANGED free

(* semaphore::release() by somebody who holds nothing adds a permit.       *)
Add ==
    /\ free' = free + 1
    /\ UNCHANGED <<queue, owed, held>>

Next ==
    \/ \E t \in Tasks : Join(t) \/ Take(t) \/ GiveBack(t)
    \/ Serve \/ Leave \/ Add
    \/ \E v \in Visitors : TakeOne(v) \/ GiveAll(v) \/ Forget(v)

Spec == Init /\ [][Next]_fifoVars
=============================================================================
