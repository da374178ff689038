--------------------------- MODULE OneshotProofs ---------------------------
(***************************************************************************)
(* The oneshot channel wakes its receiver once and tells both ends the     *)
(* same, whatever the set of values; and it uses its cancel_guard as       *)
(* CancelToken, which CancelScope implements, allows.                      *)
(***************************************************************************)
EXTENDS Oneshot, TLAPS

(* waiter_ is set only while the coroutine waits for a resolution. *)
WaiterWaits == waiter => receiver = "suspended" /\ ~Resolved /\ Wakeups = 0

(* The guard follows the coroutine and the scope. *)
GuardFollows ==
    /\ receiver \in {"held", "testing", "arming"} => guard = "idle"
    /\ receiver \in {"suspending", "suspended"} => guard \in {"armed", "fired"}
    /\ guard = "armed" => scope = "live" /\ receiver \in {"suspending", "suspended", "resuming"}
    /\ guard = "fired" => scope # "live"
    /\ ~ScopeFree => guard = "fired" /\ receiver \in {"suspending", "suspended", "resuming"}

DisarmsMatch ==
    /\ TRUE \in disarms => guard = "disarmed"
    /\ guard = "armed" => disarms = {}
    /\ guard = "disarmed" => TRUE \in disarms
    /\ ~ScopeFree => disarms = {}
    /\ receiver \in {"held", "testing", "arming", "suspending", "suspended"} => disarms = {}

(* The channel is cancelled by the callback, after the scope is. *)
CancelledByScope == cancelled => guard = "fired" /\ scope \notin {"live", "firing"}

(* value_ is the one value whose sender was told "accepted". *)
ValueIsAccepted ==
    /\ ready => value \in Values
    /\ \A v \in Values : sent[v] = "accepted" <=> ready /\ value = v

SenderLeft == sender_dropped => sender \in {"dropping", "gone"}

(* A coroutine that armed its guard comes back only to a resolved channel; *)
(* one that did not, to a resolved channel or a cancelled scope. *)
BackIsResolved ==
    /\ Wakeups = 1 => Resolved
    /\ receiver \in {"resuming", "reading"} => Resolved \/ (guard = "idle" /\ Requested)

ResultStands ==
    /\ receiver \in {"held", "testing", "arming", "suspending", "suspended", "resuming",
                     "reading"} => result = "pending"
    /\ result \in Values => ready /\ value = result
    /\ result = "channel_closed" => sender_dropped
    /\ result = "cancelled" => Requested
    /\ result \in {"cancelled", "channel_closed"} /\ guard # "idle"
           => cancelled \/ sender_dropped

IInv ==
    /\ TypeOK
    /\ WokenOnce
    /\ OneResolution
    /\ WaiterWaits
    /\ GuardFollows
    /\ DisarmsMatch
    /\ CancelledByScope
    /\ ValueIsAccepted
    /\ SenderLeft
    /\ BackIsResolved
    /\ ResultStands

LEMMA SendIInv ==
  ASSUME IInv, NEW v \in Values, Send(v)
  PROVE  IInv'
  <1> USE ValueAssumption DEF IInv, Send, Refuses, channel, guarding
  <1>1. TypeOK'
    <2>1. sent' \in [Values -> {"unsent", "accepted", "refused"}]
      BY DEF TypeOK
    <2>2. value' \in Values \union {NoValue}
      BY DEF TypeOK
    <2>3. /\ ready' \in BOOLEAN /\ waiter' \in BOOLEAN
          /\ sender' \in {"idle", "waking", "dropping", "gone"}
      BY DEF TypeOK
    <2>4. UNCHANGED <<sender_dropped, receiver_dropped, cancelled, receiver, scope,
                      guard, disarms, scheduled, result>>
      OBVIOUS
    <2> QED
      BY <2>1, <2>2, <2>3, <2>4 DEF TypeOK
  <1>2. WokenOnce'
    BY DEF TypeOK, WokenOnce, WaiterWaits, Wakeups, Resolved, GuardFollows, ScopeFree
  <1>3. OneResolution'
    BY DEF TypeOK, OneResolution, Resolved, SenderLeft
  <1>4. WaiterWaits'
    BY DEF TypeOK, WaiterWaits, Wakeups, Resolved, WokenOnce, GuardFollows, ScopeFree
  <1>5. GuardFollows'
    BY DEF TypeOK, GuardFollows, ScopeFree, Requested, Wakeups, WokenOnce
  <1>6. DisarmsMatch'
    BY DEF TypeOK, DisarmsMatch, ScopeFree, GuardFollows
  <1>7. CancelledByScope'
    BY DEF TypeOK, CancelledByScope, GuardFollows, ScopeFree
  <1>8. ValueIsAccepted'
    BY DEF TypeOK, ValueIsAccepted
  <1>9. SenderLeft'
    BY DEF TypeOK, SenderLeft
  <1>10. BackIsResolved'
    BY DEF TypeOK, BackIsResolved, Wakeups, Resolved, Requested, WokenOnce, WaiterWaits, GuardFollows, ScopeFree, CancelledByScope
  <1>11. ResultStands'
    BY DEF TypeOK, ResultStands, Resolved, Requested, BackIsResolved, WokenOnce, Wakeups, GuardFollows, ScopeFree, OneResolution, CancelledByScope
  <1> QED
    BY <1>1, <1>2, <1>3, <1>4, <1>5, <1>6, <1>7, <1>8, <1>9, <1>10, <1>11

LEMMA DropSenderIInv ==
  ASSUME IInv, DropSender
  PROVE  IInv'
  <1> USE ValueAssumption DEF IInv, DropSender, Resolved, channel, guarding
  <1>1. TypeOK'
    <2>1. /\ sender_dropped' \in BOOLEAN /\ waiter' \in BOOLEAN
          /\ sender' \in {"idle", "waking", "dropping", "gone"}
      BY DEF TypeOK, Resolved
    <2>2. UNCHANGED <<value, ready, receiver_dropped, cancelled, receiver, scope, guard,
                      disarms, scheduled, sent, result>>
      OBVIOUS
    <2> QED
      BY <2>1, <2>2 DEF TypeOK
  <1>2. WokenOnce'
    BY DEF TypeOK, WokenOnce, WaiterWaits, Wakeups, Resolved, GuardFollows, ScopeFree
  <1>3. OneResolution'
    BY DEF TypeOK, OneResolution, Resolved, SenderLeft
  <1>4. WaiterWaits'
    BY DEF TypeOK, WaiterWaits, Wakeups, Resolved, WokenOnce, GuardFollows, ScopeFree
  <1>5. GuardFollows'
    BY DEF TypeOK, GuardFollows, ScopeFree, Requested, Wakeups, WokenOnce
  <1>6. DisarmsMatch'
    BY DEF TypeOK, DisarmsMatch, ScopeFree, GuardFollows
  <1>7. CancelledByScope'
    BY DEF TypeOK, CancelledByScope, GuardFollows, ScopeFree
  <1>8. ValueIsAccepted'
    BY DEF TypeOK, ValueIsAccepted
  <1>9. SenderLeft'
    BY DEF TypeOK, SenderLeft
  <1>10. BackIsResolved'
    BY DEF TypeOK, BackIsResolved, Wakeups, Resolved, Requested, WokenOnce, WaiterWaits, GuardFollows, ScopeFree, CancelledByScope
  <1>11. ResultStands'
    BY DEF TypeOK, ResultStands, Resolved, Requested, BackIsResolved, WokenOnce, Wakeups, GuardFollows, ScopeFree, OneResolution, CancelledByScope
  <1> QED
    BY <1>1, <1>2, <1>3, <1>4, <1>5, <1>6, <1>7, <1>8, <1>9, <1>10, <1>11

LEMMA SenderWakesIInv ==
  ASSUME IInv, SenderWakes
  PROVE  IInv'
  <1> USE ValueAssumption DEF IInv, SenderWakes, channel, guarding
  <1>1. TypeOK'
    BY DEF TypeOK, WokenOnce, Wakeups
  <1>2. WokenOnce'
    BY DEF TypeOK, WokenOnce, WaiterWaits, Wakeups, Resolved, GuardFollows, ScopeFree
  <1>3. OneResolution'
    BY DEF TypeOK, OneResolution, Resolved, SenderLeft
  <1>4. WaiterWaits'
    BY DEF TypeOK, WaiterWaits, Wakeups, Resolved, WokenOnce, GuardFollows, ScopeFree
  <1>5. GuardFollows'
    BY DEF TypeOK, GuardFollows, ScopeFree, Requested, Wakeups, WokenOnce
  <1>6. DisarmsMatch'
    BY DEF TypeOK, DisarmsMatch, ScopeFree, GuardFollows
  <1>7. CancelledByScope'
    BY DEF TypeOK, CancelledByScope, GuardFollows, ScopeFree
  <1>8. ValueIsAccepted'
    BY DEF TypeOK, ValueIsAccepted
  <1>9. SenderLeft'
    BY DEF TypeOK, SenderLeft
  <1>10. BackIsResolved'
    BY DEF TypeOK, BackIsResolved, Wakeups, Resolved, Requested, WokenOnce, WaiterWaits, GuardFollows, ScopeFree, CancelledByScope
  <1>11. ResultStands'
    BY DEF TypeOK, ResultStands, Resolved, Requested, BackIsResolved, WokenOnce, Wakeups, GuardFollows, ScopeFree, OneResolution, CancelledByScope
  <1> QED
    BY <1>1, <1>2, <1>3, <1>4, <1>5, <1>6, <1>7, <1>8, <1>9, <1>10, <1>11

LEMMA DropReceiverIInv ==
  ASSUME IInv, DropReceiver
  PROVE  IInv'
  <1> USE ValueAssumption DEF IInv, DropReceiver, channel, guarding
  <1>1. TypeOK'
    BY DEF TypeOK
  <1>2. WokenOnce'
    BY DEF TypeOK, WokenOnce, WaiterWaits, Wakeups, Resolved, GuardFollows, ScopeFree
  <1>3. OneResolution'
    BY DEF TypeOK, OneResolution, Resolved, SenderLeft
  <1>4. WaiterWaits'
    BY DEF TypeOK, WaiterWaits, Wakeups, Resolved, WokenOnce, GuardFollows, ScopeFree
  <1>5. GuardFollows'
    BY DEF TypeOK, GuardFollows, ScopeFree, Requested, Wakeups, WokenOnce
  <1>6. DisarmsMatch'
    BY DEF TypeOK, DisarmsMatch, ScopeFree, GuardFollows
  <1>7. CancelledByScope'
    BY DEF TypeOK, CancelledByScope, GuardFollows, ScopeFree
  <1>8. ValueIsAccepted'
    BY DEF TypeOK, ValueIsAccepted
  <1>9. SenderLeft'
    BY DEF TypeOK, SenderLeft
  <1>10. BackIsResolved'
    BY DEF TypeOK, BackIsResolved, Wakeups, Resolved, Requested, WokenOnce, WaiterWaits, GuardFollows, ScopeFree, CancelledByScope
  <1>11. ResultStands'
    BY DEF TypeOK, ResultStands, Resolved, Requested, BackIsResolved, WokenOnce, Wakeups, GuardFollows, ScopeFree, OneResolution, CancelledByScope
  <1> QED
    BY <1>1, <1>2, <1>3, <1>4, <1>5, <1>6, <1>7, <1>8, <1>9, <1>10, <1>11

LEMMA TestIInv ==
  ASSUME IInv, TestScope \/ TestChannel
  PROVE  IInv'
  <1> USE ValueAssumption DEF IInv, TestScope, TestChannel, ReceiverMoves, guarding
  <1>1. TypeOK'
    BY DEF TypeOK
  <1>2. WokenOnce'
    BY DEF TypeOK, WokenOnce, WaiterWaits, Wakeups, Resolved, GuardFollows, ScopeFree
  <1>3. OneResolution'
    BY DEF TypeOK, OneResolution, Resolved, SenderLeft
  <1>4. WaiterWaits'
    BY DEF TypeOK, WaiterWaits, Wakeups, Resolved, WokenOnce, GuardFollows, ScopeFree
  <1>5. GuardFollows'
    BY DEF TypeOK, GuardFollows, ScopeFree, Requested, Wakeups, WokenOnce
  <1>6. DisarmsMatch'
    BY DEF TypeOK, DisarmsMatch, ScopeFree, GuardFollows
  <1>7. CancelledByScope'
    BY DEF TypeOK, CancelledByScope, GuardFollows, ScopeFree
  <1>8. ValueIsAccepted'
    BY DEF TypeOK, ValueIsAccepted
  <1>9. SenderLeft'
    BY DEF TypeOK, SenderLeft
  <1>10. BackIsResolved'
    BY DEF TypeOK, BackIsResolved, Wakeups, Resolved, Requested, WokenOnce, WaiterWaits, GuardFollows, ScopeFree, CancelledByScope
  <1>11. ResultStands'
    BY DEF TypeOK, ResultStands, Resolved, Requested, BackIsResolved, WokenOnce, Wakeups, GuardFollows, ScopeFree, OneResolution, CancelledByScope
  <1> QED
    BY <1>1, <1>2, <1>3, <1>4, <1>5, <1>6, <1>7, <1>8, <1>9, <1>10, <1>11

LEMMA ArmIInv ==
  ASSUME IInv, Arm
  PROVE  IInv'
  <1> USE ValueAssumption DEF IInv, Arm, ReceiverMoves
  <1>1. TypeOK'
    BY DEF TypeOK
  <1>2. WokenOnce'
    BY DEF TypeOK, WokenOnce, WaiterWaits, Wakeups, Resolved, GuardFollows, ScopeFree
  <1>3. OneResolution'
    BY DEF TypeOK, OneResolution, Resolved, SenderLeft
  <1>4. WaiterWaits'
    BY DEF TypeOK, WaiterWaits, Wakeups, Resolved, WokenOnce, GuardFollows, ScopeFree
  <1>5. GuardFollows'
    BY DEF TypeOK, GuardFollows, ScopeFree, Requested, Wakeups, WokenOnce
  <1>6. DisarmsMatch'
    <2>1. guard = "idle" /\ disarms = {}
      BY DEF TypeOK, GuardFollows, DisarmsMatch
    <2> QED
      BY <2>1 DEF DisarmsMatch, ScopeFree
  <1>7. CancelledByScope'
    BY DEF TypeOK, CancelledByScope, GuardFollows, ScopeFree
  <1>8. ValueIsAccepted'
    BY DEF TypeOK, ValueIsAccepted
  <1>9. SenderLeft'
    BY DEF TypeOK, SenderLeft
  <1>10. BackIsResolved'
    BY DEF TypeOK, BackIsResolved, Wakeups, Resolved, Requested, WokenOnce, WaiterWaits, GuardFollows, ScopeFree, CancelledByScope
  <1>11. ResultStands'
    BY DEF TypeOK, ResultStands, Resolved, Requested, BackIsResolved, WokenOnce, Wakeups, GuardFollows, ScopeFree, OneResolution, CancelledByScope
  <1> QED
    BY <1>1, <1>2, <1>3, <1>4, <1>5, <1>6, <1>7, <1>8, <1>9, <1>10, <1>11

LEMMA SuspendIInv ==
  ASSUME IInv, Suspend
  PROVE  IInv'
  <1> USE ValueAssumption DEF IInv, Suspend, Stays, ReceiverMoves, guarding
  <1>1. TypeOK'
    <2>1. CASE Resolved
      BY <2>1 DEF TypeOK
    <2>2. CASE ~Resolved
      BY <2>2 DEF TypeOK
    <2> QED
      BY <2>1, <2>2
  <1>2. WokenOnce'
    BY DEF TypeOK, WokenOnce, WaiterWaits, Wakeups, Resolved, GuardFollows, ScopeFree
  <1>3. OneResolution'
    BY DEF TypeOK, OneResolution, Resolved, SenderLeft
  <1>4. WaiterWaits'
    <2>1. receiver = "suspending" /\ Wakeups = 0 /\ UNCHANGED <<Resolved, Wakeups>>
      BY DEF TypeOK, WokenOnce, Wakeups, Resolved
    <2>2. CASE Resolved
      BY <2>1, <2>2 DEF WaiterWaits
    <2>3. CASE ~Resolved
      BY <2>1, <2>3 DEF WaiterWaits
    <2> QED
      BY <2>2, <2>3
  <1>5. GuardFollows'
    BY DEF TypeOK, GuardFollows, ScopeFree, Requested, Wakeups, WokenOnce
  <1>6. DisarmsMatch'
    BY DEF TypeOK, DisarmsMatch, ScopeFree, GuardFollows
  <1>7. CancelledByScope'
    BY DEF TypeOK, CancelledByScope, GuardFollows, ScopeFree
  <1>8. ValueIsAccepted'
    BY DEF TypeOK, ValueIsAccepted
  <1>9. SenderLeft'
    BY DEF TypeOK, SenderLeft
  <1>10. BackIsResolved'
    BY DEF TypeOK, BackIsResolved, Wakeups, Resolved, Requested, WokenOnce, WaiterWaits, GuardFollows, ScopeFree, CancelledByScope
  <1>11. ResultStands'
    BY DEF TypeOK, ResultStands, Resolved, Requested, BackIsResolved, WokenOnce, Wakeups, GuardFollows, ScopeFree, OneResolution, CancelledByScope
  <1> QED
    BY <1>1, <1>2, <1>3, <1>4, <1>5, <1>6, <1>7, <1>8, <1>9, <1>10, <1>11

LEMMA ResumeIInv ==
  ASSUME IInv, Resume
  PROVE  IInv'
  <1> USE ValueAssumption DEF IInv, Resume, channel, guarding
  <1>1. TypeOK'
    BY DEF TypeOK
  <1>2. WokenOnce'
    BY DEF TypeOK, WokenOnce, WaiterWaits, Wakeups, Resolved, GuardFollows, ScopeFree
  <1>3. OneResolution'
    BY DEF TypeOK, OneResolution, Resolved, SenderLeft
  <1>4. WaiterWaits'
    BY DEF TypeOK, WaiterWaits, Wakeups, Resolved, WokenOnce, GuardFollows, ScopeFree
  <1>5. GuardFollows'
    BY DEF TypeOK, GuardFollows, ScopeFree, Requested, Wakeups, WokenOnce
  <1>6. DisarmsMatch'
    BY DEF TypeOK, DisarmsMatch, ScopeFree, GuardFollows
  <1>7. CancelledByScope'
    BY DEF TypeOK, CancelledByScope, GuardFollows, ScopeFree
  <1>8. ValueIsAccepted'
    BY DEF TypeOK, ValueIsAccepted
  <1>9. SenderLeft'
    BY DEF TypeOK, SenderLeft
  <1>10. BackIsResolved'
    BY DEF TypeOK, BackIsResolved, Wakeups, Resolved, Requested, WokenOnce, WaiterWaits, GuardFollows, ScopeFree, CancelledByScope
  <1>11. ResultStands'
    BY DEF TypeOK, ResultStands, Resolved, Requested, BackIsResolved, WokenOnce, Wakeups, GuardFollows, ScopeFree, OneResolution, CancelledByScope
  <1> QED
    BY <1>1, <1>2, <1>3, <1>4, <1>5, <1>6, <1>7, <1>8, <1>9, <1>10, <1>11

LEMMA DisarmIInv ==
  ASSUME IInv, Disarm \/ DropGuard
  PROVE  IInv'
  <1> USE ValueAssumption DEF IInv, Disarm, DropGuard, DisarmGuard, ReceiverMoves
  <1>1. TypeOK'
    <2>1. disarms' \in SUBSET BOOLEAN /\ guard' \in {"idle", "armed", "fired", "disarmed"}
      BY DEF TypeOK
    <2> QED
      BY <2>1 DEF TypeOK
  <1>2. WokenOnce'
    BY DEF TypeOK, WokenOnce, WaiterWaits, Wakeups, Resolved, GuardFollows, ScopeFree
  <1>3. OneResolution'
    BY DEF TypeOK, OneResolution, Resolved, SenderLeft
  <1>4. WaiterWaits'
    BY DEF TypeOK, WaiterWaits, Wakeups, Resolved, WokenOnce, GuardFollows, ScopeFree
  <1>5. GuardFollows'
    BY DEF TypeOK, GuardFollows, ScopeFree, Requested, Wakeups, WokenOnce
  <1>6. DisarmsMatch'
    BY DEF TypeOK, DisarmsMatch, ScopeFree, GuardFollows
  <1>7. CancelledByScope'
    BY DEF TypeOK, CancelledByScope, GuardFollows, ScopeFree
  <1>8. ValueIsAccepted'
    BY DEF TypeOK, ValueIsAccepted
  <1>9. SenderLeft'
    BY DEF TypeOK, SenderLeft
  <1>10. BackIsResolved'
    BY DEF TypeOK, BackIsResolved, Wakeups, Resolved, Requested, WokenOnce, WaiterWaits, GuardFollows, ScopeFree, CancelledByScope
  <1>11. ResultStands'
    BY DEF TypeOK, ResultStands, Resolved, Requested, BackIsResolved, WokenOnce, Wakeups, GuardFollows, ScopeFree, OneResolution, CancelledByScope
  <1> QED
    BY <1>1, <1>2, <1>3, <1>4, <1>5, <1>6, <1>7, <1>8, <1>9, <1>10, <1>11

LEMMA ReadIInv ==
  ASSUME IInv, Read
  PROVE  IInv'
  <1> USE ValueAssumption DEF IInv, Read, Outcome, ReceiverMoves, guarding
  <1>1. TypeOK'
    <2>1. result' \in Values \union {"pending", "cancelled", "channel_closed"}
      BY DEF ValueIsAccepted
    <2> QED
      BY <2>1 DEF TypeOK
  <1>2. WokenOnce'
    BY DEF TypeOK, WokenOnce, WaiterWaits, Wakeups, Resolved, GuardFollows, ScopeFree
  <1>3. OneResolution'
    BY DEF TypeOK, OneResolution, Resolved, SenderLeft
  <1>4. WaiterWaits'
    BY DEF TypeOK, WaiterWaits, Wakeups, Resolved, WokenOnce, GuardFollows, ScopeFree
  <1>5. GuardFollows'
    BY DEF TypeOK, GuardFollows, ScopeFree, Requested, Wakeups, WokenOnce
  <1>6. DisarmsMatch'
    BY DEF TypeOK, DisarmsMatch, ScopeFree, GuardFollows
  <1>7. CancelledByScope'
    BY DEF TypeOK, CancelledByScope, GuardFollows, ScopeFree
  <1>8. ValueIsAccepted'
    BY DEF TypeOK, ValueIsAccepted
  <1>9. SenderLeft'
    BY DEF TypeOK, SenderLeft
  <1>10. BackIsResolved'
    BY DEF TypeOK, BackIsResolved, Wakeups, Resolved, Requested, WokenOnce, WaiterWaits, GuardFollows, ScopeFree, CancelledByScope
  <1>11. ResultStands'
    <2>1. CASE ready
      BY <2>1 DEF TypeOK, ResultStands, ValueIsAccepted
    <2>2. CASE ~ready
      BY <2>2 DEF TypeOK, ResultStands, BackIsResolved, Resolved, Requested, CancelledByScope
    <2> QED
      BY <2>1, <2>2
  <1> QED
    BY <1>1, <1>2, <1>3, <1>4, <1>5, <1>6, <1>7, <1>8, <1>9, <1>10, <1>11

LEMMA DropAwaiterIInv ==
  ASSUME IInv, DropAwaiter
  PROVE  IInv'
  <1> USE ValueAssumption DEF IInv, DropAwaiter, guarding
  <1>1. TypeOK'
    BY DEF TypeOK
  <1>2. WokenOnce'
    BY DEF TypeOK, WokenOnce, WaiterWaits, Wakeups, Resolved, GuardFollows, ScopeFree
  <1>3. OneResolution'
    BY DEF TypeOK, OneResolution, Resolved, SenderLeft
  <1>4. WaiterWaits'
    BY DEF TypeOK, WaiterWaits, Wakeups, Resolved, WokenOnce, GuardFollows, ScopeFree
  <1>5. GuardFollows'
    BY DEF TypeOK, GuardFollows, ScopeFree, Requested, Wakeups, WokenOnce
  <1>6. DisarmsMatch'
    BY DEF TypeOK, DisarmsMatch, ScopeFree, GuardFollows
  <1>7. CancelledByScope'
    BY DEF TypeOK, CancelledByScope, GuardFollows, ScopeFree
  <1>8. ValueIsAccepted'
    BY DEF TypeOK, ValueIsAccepted
  <1>9. SenderLeft'
    BY DEF TypeOK, SenderLeft
  <1>10. BackIsResolved'
    BY DEF TypeOK, BackIsResolved, Wakeups, Resolved, Requested, WokenOnce, WaiterWaits, GuardFollows, ScopeFree, CancelledByScope
  <1>11. ResultStands'
    BY DEF TypeOK, ResultStands, Resolved, Requested, BackIsResolved, WokenOnce, Wakeups, GuardFollows, ScopeFree, OneResolution, CancelledByScope
  <1> QED
    BY <1>1, <1>2, <1>3, <1>4, <1>5, <1>6, <1>7, <1>8, <1>9, <1>10, <1>11

LEMMA CancelIInv ==
  ASSUME IInv, Cancel
  PROVE  IInv'
  <1> USE ValueAssumption DEF IInv, Cancel, channel
  <1>1. TypeOK'
    BY DEF TypeOK
  <1>2. WokenOnce'
    BY DEF TypeOK, WokenOnce, WaiterWaits, Wakeups, Resolved, GuardFollows, ScopeFree
  <1>3. OneResolution'
    BY DEF TypeOK, OneResolution, Resolved, SenderLeft
  <1>4. WaiterWaits'
    BY DEF TypeOK, WaiterWaits, Wakeups, Resolved, WokenOnce, GuardFollows, ScopeFree
  <1>5. GuardFollows'
    BY DEF TypeOK, GuardFollows, ScopeFree, Requested, Wakeups, WokenOnce
  <1>6. DisarmsMatch'
    BY DEF TypeOK, DisarmsMatch, ScopeFree, GuardFollows
  <1>7. CancelledByScope'
    BY DEF TypeOK, CancelledByScope, GuardFollows, ScopeFree
  <1>8. ValueIsAccepted'
    BY DEF TypeOK, ValueIsAccepted
  <1>9. SenderLeft'
    BY DEF TypeOK, SenderLeft
  <1>10. BackIsResolved'
    BY DEF TypeOK, BackIsResolved, Wakeups, Resolved, Requested, WokenOnce, WaiterWaits, GuardFollows, ScopeFree, CancelledByScope
  <1>11. ResultStands'
    BY DEF TypeOK, ResultStands, Resolved, Requested, BackIsResolved, WokenOnce, Wakeups, GuardFollows, ScopeFree, OneResolution, CancelledByScope
  <1> QED
    BY <1>1, <1>2, <1>3, <1>4, <1>5, <1>6, <1>7, <1>8, <1>9, <1>10, <1>11

LEMMA CallbackIInv ==
  ASSUME IInv, Callback
  PROVE  IInv'
  <1> USE ValueAssumption DEF IInv, Callback, TookWaiter, guarding
  <1>1. TypeOK'
    <2>1. /\ cancelled' \in BOOLEAN /\ waiter' \in BOOLEAN
          /\ scope' \in {"live", "firing", "waking", "unlocking", "done"}
      BY DEF TypeOK, Resolved
    <2>2. UNCHANGED <<value, ready, sender_dropped, receiver_dropped, sender, receiver,
                      guard, disarms, scheduled, sent, result>>
      OBVIOUS
    <2> QED
      BY <2>1, <2>2 DEF TypeOK
  <1>2. WokenOnce'
    BY DEF TypeOK, WokenOnce, WaiterWaits, Wakeups, Resolved, GuardFollows, ScopeFree
  <1>3. OneResolution'
    BY DEF TypeOK, OneResolution, Resolved, SenderLeft
  <1>4. WaiterWaits'
    BY DEF TypeOK, WaiterWaits, Wakeups, Resolved, WokenOnce, GuardFollows, ScopeFree
  <1>5. GuardFollows'
    BY DEF TypeOK, GuardFollows, ScopeFree, Requested, Wakeups, WokenOnce
  <1>6. DisarmsMatch'
    BY DEF TypeOK, DisarmsMatch, ScopeFree, GuardFollows
  <1>7. CancelledByScope'
    BY DEF TypeOK, CancelledByScope, GuardFollows, ScopeFree
  <1>8. ValueIsAccepted'
    BY DEF TypeOK, ValueIsAccepted
  <1>9. SenderLeft'
    BY DEF TypeOK, SenderLeft
  <1>10. BackIsResolved'
    BY DEF TypeOK, BackIsResolved, Wakeups, Resolved, Requested, WokenOnce, WaiterWaits, GuardFollows, ScopeFree, CancelledByScope
  <1>11. ResultStands'
    BY DEF TypeOK, ResultStands, Resolved, Requested, BackIsResolved, WokenOnce, Wakeups, GuardFollows, ScopeFree, OneResolution, CancelledByScope
  <1> QED
    BY <1>1, <1>2, <1>3, <1>4, <1>5, <1>6, <1>7, <1>8, <1>9, <1>10, <1>11

LEMMA CancelWakesIInv ==
  ASSUME IInv, CancelWakes \/ CancelUnlock
  PROVE  IInv'
  <1> USE ValueAssumption DEF IInv, CancelWakes, CancelUnlock, channel, guarding
  <1>1. TypeOK'
    BY DEF TypeOK, WokenOnce, Wakeups
  <1>2. WokenOnce'
    BY DEF TypeOK, WokenOnce, WaiterWaits, Wakeups, Resolved, GuardFollows, ScopeFree
  <1>3. OneResolution'
    BY DEF TypeOK, OneResolution, Resolved, SenderLeft
  <1>4. WaiterWaits'
    <2>1. CASE CancelWakes
      BY <2>1 DEF TypeOK, WaiterWaits, Wakeups
    <2>2. CASE CancelUnlock
      BY <2>2 DEF TypeOK, WaiterWaits, Wakeups, Resolved
    <2> QED
      BY <2>1, <2>2
  <1>5. GuardFollows'
    BY DEF TypeOK, GuardFollows, ScopeFree, Requested, Wakeups, WokenOnce
  <1>6. DisarmsMatch'
    BY DEF TypeOK, DisarmsMatch, ScopeFree, GuardFollows
  <1>7. CancelledByScope'
    BY DEF TypeOK, CancelledByScope, GuardFollows, ScopeFree
  <1>8. ValueIsAccepted'
    BY DEF TypeOK, ValueIsAccepted
  <1>9. SenderLeft'
    BY DEF TypeOK, SenderLeft
  <1>10. BackIsResolved'
    BY DEF TypeOK, BackIsResolved, Wakeups, Resolved, Requested, WokenOnce, WaiterWaits, GuardFollows, ScopeFree, CancelledByScope
  <1>11. ResultStands'
    BY DEF TypeOK, ResultStands, Resolved, Requested, BackIsResolved, WokenOnce, Wakeups, GuardFollows, ScopeFree, OneResolution, CancelledByScope
  <1> QED
    BY <1>1, <1>2, <1>3, <1>4, <1>5, <1>6, <1>7, <1>8, <1>9, <1>10, <1>11

LEMMA StutterIInv ==
  ASSUME IInv, UNCHANGED vars
  PROVE  IInv'
  <1> USE ValueAssumption DEF IInv, vars, channel, guarding
  <1>1. TypeOK'
    BY DEF TypeOK
  <1>2. WokenOnce'
    BY DEF TypeOK, WokenOnce, WaiterWaits, Wakeups, Resolved, GuardFollows, ScopeFree
  <1>3. OneResolution'
    BY DEF TypeOK, OneResolution, Resolved, SenderLeft
  <1>4. WaiterWaits'
    BY DEF TypeOK, WaiterWaits, Wakeups, Resolved, WokenOnce, GuardFollows, ScopeFree
  <1>5. GuardFollows'
    BY DEF TypeOK, GuardFollows, ScopeFree, Requested, Wakeups, WokenOnce
  <1>6. DisarmsMatch'
    BY DEF TypeOK, DisarmsMatch, ScopeFree, GuardFollows
  <1>7. CancelledByScope'
    BY DEF TypeOK, CancelledByScope, GuardFollows, ScopeFree
  <1>8. ValueIsAccepted'
    BY DEF TypeOK, ValueIsAccepted
  <1>9. SenderLeft'
    BY DEF TypeOK, SenderLeft
  <1>10. BackIsResolved'
    BY DEF TypeOK, BackIsResolved, Wakeups, Resolved, Requested, WokenOnce, WaiterWaits, GuardFollows, ScopeFree, CancelledByScope
  <1>11. ResultStands'
    BY DEF TypeOK, ResultStands, Resolved, Requested, BackIsResolved, WokenOnce, Wakeups, GuardFollows, ScopeFree, OneResolution, CancelledByScope
  <1> QED
    BY <1>1, <1>2, <1>3, <1>4, <1>5, <1>6, <1>7, <1>8, <1>9, <1>10, <1>11

LEMMA InitIInv == Init => IInv
  <1> SUFFICES ASSUME Init PROVE IInv
    OBVIOUS
  <1> USE ValueAssumption DEF Init
  <1>1. TypeOK
    <2>1. sent \in [Values -> {"unsent", "accepted", "refused"}]
      OBVIOUS
    <2>2. disarms \in SUBSET BOOLEAN /\ scheduled \in 0..1
      OBVIOUS
    <2> QED
      BY <2>1, <2>2 DEF TypeOK
  <1>2. WokenOnce /\ OneResolution /\ WaiterWaits
    BY DEF WokenOnce, Wakeups, OneResolution, WaiterWaits
  <1>3. GuardFollows /\ DisarmsMatch /\ CancelledByScope
    BY DEF GuardFollows, DisarmsMatch, CancelledByScope, ScopeFree
  <1>4. ValueIsAccepted /\ SenderLeft /\ BackIsResolved /\ ResultStands
    BY DEF ValueIsAccepted, SenderLeft, BackIsResolved, ResultStands, Wakeups
  <1> QED
    BY <1>1, <1>2, <1>3, <1>4 DEF IInv

LEMMA NextIInv == IInv /\ [Next]_vars => IInv'
  <1> SUFFICES ASSUME IInv, [Next]_vars
               PROVE  IInv'
    OBVIOUS
  <1>1. ASSUME NEW v \in Values, Send(v)
        PROVE  IInv'
    BY <1>1, SendIInv
  <1>2. CASE DropSender \/ SenderWakes
    BY <1>2, DropSenderIInv, SenderWakesIInv
  <1>3. CASE DropReceiver \/ TestScope \/ TestChannel
    BY <1>3, DropReceiverIInv, TestIInv
  <1>4. CASE Arm \/ Suspend \/ Resume
    BY <1>4, ArmIInv, SuspendIInv, ResumeIInv
  <1>5. CASE Disarm \/ Read \/ DropAwaiter \/ DropGuard
    BY <1>5, DisarmIInv, ReadIInv, DropAwaiterIInv
  <1>6. CASE Cancel \/ Callback \/ CancelWakes \/ CancelUnlock
    BY <1>6, CancelIInv, CallbackIInv, CancelWakesIInv
  <1>7. CASE UNCHANGED vars
    BY <1>7, StutterIInv
  <1> QED
    BY <1>1, <1>2, <1>3, <1>4, <1>5, <1>6, <1>7 DEF Next, ReceiverStep, CancelStep

LEMMA Invariance == Spec => []IInv
  BY InitIInv, NextIInv, PTL DEF Spec

-----------------------------------------------------------------------------
(* The fields of state<T> keep their types and the receiver's handle is    *)
(* never queued twice (oneshot.hpp, the exchanges of waiter_). *)
THEOREM TypeCorrect == Spec => []TypeOK
  <1>1. IInv => TypeOK
    BY DEF IInv
  <1> QED
    BY Invariance, <1>1, PTL

(* send, drop and cancel never both wake the receiver, and nobody wakes it *)
(* before await_suspend has stored its handle. *)
THEOREM SingleWakeup == Spec => []WokenOnce
  <1>1. IInv => WokenOnce
    BY DEF IInv
  <1> QED
    BY Invariance, <1>1, PTL

(* The channel is resolved in one way only. *)
THEOREM SingleResolution == Spec => []OneResolution
  <1>1. IInv => OneResolution
    BY DEF IInv
  <1> QED
    BY Invariance, <1>1, PTL

(* What send() and co_await answered agrees. *)
THEOREM Agreement == Spec => []EndsAgree
  <1>1. IInv => EndsAgree
    <2> SUFFICES ASSUME IInv PROVE EndsAgree
      OBVIOUS
    <2>1. ready => Accepted = {value}
      BY DEF IInv, ValueIsAccepted, Accepted
    <2>2. ~ready => Accepted = {}
      BY DEF IInv, ValueIsAccepted, Accepted
    <2>3. cancelled \/ sender_dropped => ~ready
      BY DEF IInv, OneResolution
    <2>4. result \in Values => Accepted = {result}
      BY <2>1 DEF IInv, ResultStands
    <2> QED
      BY <2>2, <2>3, <2>4 DEF IInv, ResultStands, EndsAgree
  <1> QED
    BY Invariance, <1>1, PTL

(* The awaiter's guard behaves as one token of CancelToken, so the channel *)
(* needs of cancel_scope only what CancelScope is shown to give. *)
THEOREM GuardIsToken == Spec => UsesToken
  <1>1. Init => Token!Init
    BY DEF Init, Token!Init, AbstractGuard, Requested
  <1>2. IInv /\ [Next]_vars => [Token!Next]_(Token!tokenVars)
    <2> SUFFICES ASSUME IInv, [Next]_vars
                 PROVE  [Token!Next]_(Token!tokenVars)
      OBVIOUS
    <2>1. ASSUME UNCHANGED <<guarding, scope>>
          PROVE  UNCHANGED Token!tokenVars
      BY <2>1 DEF guarding, AbstractGuard, Requested, Token!tokenVars
    <2>2. CASE \/ \E v \in Values : Send(v)
               \/ DropSender \/ SenderWakes \/ DropReceiver \/ TestScope \/ TestChannel
               \/ Suspend \/ Resume \/ Read \/ DropAwaiter \/ UNCHANGED vars
      BY <2>1, <2>2 DEF Send, DropSender, SenderWakes, DropReceiver, TestScope, TestChannel,
         Suspend, Resume, Read, DropAwaiter, ReceiverMoves, vars
    <2>3. CASE Arm
      <3>1. CASE Requested
        BY <2>1, <2>3, <3>1 DEF Arm, ReceiverMoves, guarding
      <3>2. CASE ~Requested
        <4>1. guard = "idle" /\ guard' = "armed" /\ UNCHANGED <<scope, disarms>>
          BY <2>3, <3>2 DEF Arm, ReceiverMoves, IInv, GuardFollows
        <4>2. AbstractGuard = "idle" /\ AbstractGuard' = "armed"
          BY <4>1 DEF AbstractGuard
        <4>3. Token!Arm("guard")
          BY <3>2, <4>1, <4>2 DEF Token!Arm, Requested
        <4> QED
          BY <4>3 DEF Token!Next
      <3> QED
        BY <3>1, <3>2
    <2>4. CASE Disarm \/ DropGuard
      <3>1. DisarmGuard /\ UNCHANGED scope
        BY <2>4 DEF Disarm, DropGuard, ReceiverMoves
      <3>2. AbstractGuard = "armed" <=> guard = "armed"
        BY <3>1 DEF DisarmGuard, ScopeFree, AbstractGuard, IInv, GuardFollows
      <3>3. AbstractGuard' = IF AbstractGuard = "armed" THEN "stopped" ELSE AbstractGuard
        BY <3>1, <3>2 DEF DisarmGuard, AbstractGuard
      <3>4. disarms' = disarms \union {AbstractGuard = "armed"}
        BY <3>1, <3>2 DEF DisarmGuard
      <3>5. Token!Disarm("guard")
        BY <3>1, <3>3, <3>4 DEF Token!Disarm, Requested
      <3> QED
        BY <3>5 DEF Token!Next
    <2>5. CASE Cancel
      <3>1. guard # "fired" /\ scope = "live"
        BY <2>5 DEF Cancel, IInv, GuardFollows
      <3>2. UNCHANGED AbstractGuard /\ Requested' /\ UNCHANGED disarms
        BY <2>5, <3>1 DEF Cancel, AbstractGuard, Requested
      <3>3. Token!Request
        BY <3>2 DEF Token!Request
      <3> QED
        BY <3>3 DEF Token!Next
    <2>6. CASE Callback \/ CancelWakes \/ CancelUnlock
      <3>1. guard = "fired" /\ Requested /\ UNCHANGED <<guard, disarms, Requested>>
        BY <2>6 DEF Callback, CancelWakes, CancelUnlock, guarding, IInv, GuardFollows,
           ScopeFree, Requested
      <3>2. CASE AbstractGuard' = AbstractGuard
        BY <3>1, <3>2 DEF Token!tokenVars
      <3>3. CASE AbstractGuard' # AbstractGuard
        <4>1. AbstractGuard = "armed" /\ AbstractGuard' = "ran"
          BY <2>6, <3>1, <3>3 DEF Callback, CancelWakes, CancelUnlock, AbstractGuard
        <4>2. Token!Run("guard")
          BY <3>1, <4>1 DEF Token!Run
        <4> QED
          BY <4>2 DEF Token!Next
      <3> QED
        BY <3>2, <3>3
    <2> QED
      BY <2>2, <2>3, <2>4, <2>5, <2>6 DEF Next, ReceiverStep, CancelStep
  <1> QED
    BY Invariance, <1>1, <1>2, PTL DEF Spec, UsesToken, Token!Spec

(* The channel implements the safety part of Await: the coroutine suspends *)
(* once per co_await, is scheduled once, by whoever took its handle, and   *)
(* runs again.                                                             *)
THEOREM KeepsPromise == Spec => Promise!Spec
  <1> DEFINE Moved(from, to) ==
               Phase = from /\ Phase' = to /\ (Requested' <=> Requested)
             Still == Phase' = Phase /\ (Requested' <=> Requested)
  <1>1. Init => Promise!Init
    <2> SUFFICES ASSUME Init PROVE Promise!Init
      OBVIOUS
    <2>1. Phase = "running" /\ ~Requested
      BY DEF Init, Phase, Requested
    <2> QED
      BY <2>1 DEF Promise!Init
  <1>2. ASSUME NEW from, NEW to, Moved(from, to)
        PROVE  Promise!Moves("receiver", from, to)
    BY <1>2 DEF Promise!Moves
  <1>3. ASSUME Still PROVE UNCHANGED Promise!vars
    BY <1>3 DEF Promise!vars
  <1>4. IInv /\ [Next]_vars => [Promise!Next]_(Promise!vars)
    <2> SUFFICES ASSUME IInv, [Next]_vars
                 PROVE  [Promise!Next]_(Promise!vars)
      OBVIOUS
    <2> USE DEF Phase, Requested
    <2>0. scheduled \in 0..1
      BY DEF IInv, TypeOK
    <2>1. CASE Suspend
      <3>1. scheduled = 0 /\ scheduled' = 0
        BY <2>0, <2>1 DEF Suspend, ReceiverMoves, IInv, TypeOK, WokenOnce, Wakeups
      <3>2. CASE Stays
        <4>1. Moved("running", "suspended")
          BY <2>1, <3>1, <3>2 DEF Suspend, ReceiverMoves
        <4> QED
          BY <1>2, <4>1 DEF Promise!Next, Promise!Suspend
      <3>3. CASE ~Stays
        <4>1. Still
          BY <2>1, <3>1, <3>3 DEF Suspend, ReceiverMoves
        <4> QED
          BY <1>3, <4>1
      <3> QED
        BY <3>2, <3>3
    <2>2. CASE SenderWakes \/ CancelWakes
      <3>1. receiver = "suspended" /\ scheduled = 0 /\ scheduled' = 1
        BY <2>0, <2>2 DEF SenderWakes, CancelWakes, IInv, TypeOK, WokenOnce, Wakeups
      <3>2. Moved("suspended", "woken")
        BY <2>2, <3>1 DEF SenderWakes, CancelWakes
      <3> QED
        BY <1>2, <3>2 DEF Promise!Next, Promise!Wake
    <2>3. CASE Resume
      <3>1. scheduled = 1 /\ scheduled' = 0 /\ receiver' = "resuming" /\ UNCHANGED scope
        BY <2>0, <2>3 DEF Resume
      <3>2. Moved("woken", "running")
        BY <3>1
      <3> QED
        BY <1>2, <3>2 DEF Promise!Next, Promise!Resume
    <2>4. CASE Cancel
      <3>1. ~Requested /\ Requested' /\ Phase' = Phase
        BY <2>4 DEF Cancel
      <3>2. Promise!Cancel("receiver")
        BY <3>1 DEF Promise!Cancel
      <3> QED
        BY <3>2 DEF Promise!Next
    <2>5. CASE Callback \/ CancelUnlock
      <3>1. Still
        BY <2>5 DEF Callback, CancelUnlock
      <3> QED
        BY <1>3, <3>1
    <2>6. CASE \/ \E v \in Values : Send(v)
               \/ DropSender \/ UNCHANGED vars
      <3>1. Still
        BY <2>6 DEF Send, DropSender, vars
      <3> QED
        BY <1>3, <3>1
    <2>7. CASE \/ DropReceiver \/ TestScope \/ TestChannel \/ Arm
               \/ Disarm \/ Read \/ DropAwaiter \/ DropGuard
      <3>1. UNCHANGED <<scope, scheduled>> /\ receiver # "suspended" /\ receiver' # "suspended"
        BY <2>7 DEF DropReceiver, TestScope, TestChannel, Arm, Disarm, Read, DropAwaiter,
           DropGuard, ReceiverMoves
      <3>2. Still
        BY <3>1
      <3> QED
        BY <1>3, <3>2
    <2> QED
      BY <2>1, <2>2, <2>3, <2>4, <2>5, <2>6, <2>7 DEF Next, ReceiverStep, CancelStep
  <1> QED
    BY Invariance, <1>1, <1>4, PTL DEF Spec, Promise!Spec
=============================================================================
