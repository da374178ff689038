------------------------- MODULE CancelScopeProofs -------------------------
(***************************************************************************)
(* CancelScope keeps its contract for any number of guards and of          *)
(* cancelling threads, and implements CancelToken.                         *)
(***************************************************************************)
EXTENDS CancelScope, TLAPS

(* The list holds exactly the armed guards of the scope. *)
LinkedIsArmed == linked = {g \in Scoped : state[g] = "armed"}

(* The holder of mtx_ is the one thread inside the sweep. *)
HolderSweeps ==
    /\ \A c \in Cancellers : pc[c] = "sweeping" <=> mtx = c
    /\ mtx # NoThread => cancelled

(* A guard between unlink_locked() and the end of its callback. *)
FiringIsPending ==
    \A c \in Cancellers : firing[c] # NoGuard =>
        /\ pc[c] = "sweeping"
        /\ firing[c] \in Scoped
        /\ state[firing[c]] = "fired"
        /\ calls[firing[c]] = 0
        /\ owner[firing[c]] # "gone"

PendingIsFiring ==
    \A g \in Guards : state[g] = "fired" /\ calls[g] = 0 =>
        \E c \in Cancellers : firing[c] = g

(* Only a sweep fires a guard, and only a guard bound to the scope. *)
CalledIsFired ==
    \A g \in Guards :
        /\ calls[g] = 1 => state[g] = "fired"
        /\ state[g] = "fired" => g \in Scoped

(* What disarm() has answered agrees with the state of the guard. *)
AnswersMatch ==
    \A g \in Guards :
        /\ TRUE \in answers[g] => state[g] = "disarmed"
        /\ FALSE \in answers[g] /\ state[g] = "fired" => calls[g] = 1

(* The awaiter arms once, and disarms only afterwards. *)
OwnerMatches ==
    \A g \in Guards :
        /\ state[g] = "armed" => owner[g] = "waiting"
        /\ owner[g] \in {"bound", "refused"} => state[g] = "idle"
        /\ owner[g] \in {"bound", "waiting", "refused"} => answers[g] = {}

SweptClean == cancelled /\ mtx = NoThread => linked = {}

IInv ==
    /\ TypeOK
    /\ LinkedIsArmed
    /\ HolderSweeps
    /\ FiringIsPending
    /\ PendingIsFiring
    /\ CalledIsFired
    /\ AnswersMatch
    /\ OwnerMatches
    /\ SweptClean

-----------------------------------------------------------------------------
LEMMA InitIInv == Init => IInv
  <1> SUFFICES ASSUME Init PROVE IInv
    OBVIOUS
  <1> USE ScopeAssumption DEF Init
  <1>1. TypeOK
    <2>1. answers \in [Guards -> SUBSET BOOLEAN]
      OBVIOUS
    <2>2. calls \in [Guards -> 0..1] /\ pc \in [Cancellers -> CancelSteps]
      BY DEF CancelSteps
    <2>3. firing \in [Cancellers -> Guards \union {NoGuard}]
      OBVIOUS
    <2> QED
      BY <2>1, <2>2, <2>3 DEF TypeOK, GuardStates, OwnerPhases
  <1>2. LinkedIsArmed /\ HolderSweeps /\ SweptClean
    BY DEF LinkedIsArmed, HolderSweeps, SweptClean
  <1>3. FiringIsPending /\ PendingIsFiring /\ CalledIsFired
    BY DEF FiringIsPending, PendingIsFiring, CalledIsFired
  <1>4. AnswersMatch /\ OwnerMatches
    BY DEF AnswersMatch, OwnerMatches
  <1> QED
    BY <1>1, <1>2, <1>3, <1>4 DEF IInv

LEMMA ArmIInv ==
  ASSUME IInv, NEW g \in Guards, Arm(g)
  PROVE  IInv'
  <1> USE ScopeAssumption DEF IInv, Arm, MayLock, Refused
  <1>1. TypeOK'
    BY DEF TypeOK, GuardStates, OwnerPhases
  <1>2. LinkedIsArmed' /\ SweptClean'
    BY DEF TypeOK, LinkedIsArmed, SweptClean, HolderSweeps
  <1>3. HolderSweeps'
    BY DEF HolderSweeps
  <1>4. FiringIsPending' /\ PendingIsFiring' /\ CalledIsFired'
    <2>1. FiringIsPending'
      BY DEF TypeOK, FiringIsPending, OwnerMatches
    <2>2. PendingIsFiring'
      BY DEF TypeOK, PendingIsFiring
    <2>3. CalledIsFired'
      BY DEF TypeOK, CalledIsFired, OwnerMatches
    <2> QED
      BY <2>1, <2>2, <2>3
  <1>5. AnswersMatch'
    BY DEF TypeOK, AnswersMatch, OwnerMatches
  <1>6. OwnerMatches'
    BY DEF TypeOK, OwnerMatches
  <1> QED
    BY <1>1, <1>2, <1>3, <1>4, <1>5, <1>6

LEMMA DisarmEffectIInv ==
  ASSUME IInv, NEW g \in Guards, DisarmEffect(g),
         NEW phase \in {"resumed", "gone"},
         owner' = [owner EXCEPT ![g] = phase],
         UNCHANGED <<cancelled, mtx, calls, pc, firing>>
  PROVE  IInv'
  <1> USE ScopeAssumption DEF IInv, DisarmEffect, MayLock
  <1>1. TypeOK'
    BY DEF TypeOK, GuardStates, OwnerPhases
  <1>2. LinkedIsArmed' /\ SweptClean'
    BY DEF TypeOK, LinkedIsArmed, SweptClean
  <1>3. HolderSweeps'
    BY DEF HolderSweeps
  <1>a. g \in Scoped => \A c \in Cancellers : firing[c] = NoGuard
    BY DEF TypeOK, FiringIsPending, HolderSweeps
  <1>b. state[g] = "fired" => g \in Scoped /\ calls[g] = 1
    BY <1>a DEF TypeOK, PendingIsFiring, CalledIsFired
  <1>4. FiringIsPending' /\ PendingIsFiring' /\ CalledIsFired'
    <2>1. FiringIsPending'
      BY <1>a, <1>b DEF TypeOK, FiringIsPending
    <2>2. PendingIsFiring'
      BY <1>a, <1>b DEF TypeOK, PendingIsFiring
    <2>3. CalledIsFired'
      BY <1>a, <1>b DEF TypeOK, CalledIsFired
    <2> QED
      BY <2>1, <2>2, <2>3
  <1>5. AnswersMatch'
    <2> SUFFICES ASSUME NEW h \in Guards
                 PROVE  /\ TRUE \in answers'[h] => state'[h] = "disarmed"
                        /\ FALSE \in answers'[h] /\ state'[h] = "fired" => calls'[h] = 1
      BY DEF AnswersMatch
    <2>1. CASE h = g
      <3>1. answers'[g] = answers[g] \union {state[g] = "armed"}
        BY DEF TypeOK
      <3>2. CASE state[g] = "armed"
        BY <2>1, <3>1, <3>2 DEF TypeOK, AnswersMatch
      <3>3. CASE state[g] # "armed"
        <4>1. TRUE \in answers'[g] => TRUE \in answers[g]
          BY <3>1, <3>3
        <4> QED
          BY <2>1, <3>3, <4>1, <1>b DEF TypeOK, AnswersMatch
      <3> QED
        BY <3>2, <3>3
    <2>2. CASE h # g
      BY <2>2 DEF TypeOK, AnswersMatch
    <2> QED
      BY <2>1, <2>2
  <1>6. OwnerMatches'
    BY DEF TypeOK, OwnerMatches
  <1> QED
    BY <1>1, <1>2, <1>3, <1>4, <1>5, <1>6

LEMMA CancelLockIInv ==
  ASSUME IInv, NEW c \in Cancellers, CancelCheck(c) \/ CancelLock(c)
  PROVE  IInv'
  <1> USE ScopeAssumption DEF IInv, CancelCheck, CancelLock
  <1>1. TypeOK'
    <2>1. pc' \in [Cancellers -> CancelSteps]
      BY DEF TypeOK, CancelSteps
    <2>2. cancelled' \in BOOLEAN /\ mtx' \in Cancellers \union {NoThread}
      BY DEF TypeOK
    <2>3. UNCHANGED <<linked, state, owner, answers, calls, firing>>
      OBVIOUS
    <2> QED
      BY <2>1, <2>2, <2>3 DEF TypeOK
  <1>2. HolderSweeps' /\ SweptClean'
    BY DEF TypeOK, HolderSweeps, SweptClean
  <1>3. FiringIsPending' /\ PendingIsFiring'
    BY DEF TypeOK, FiringIsPending, PendingIsFiring
  <1>4. LinkedIsArmed' /\ CalledIsFired'
    BY DEF LinkedIsArmed, CalledIsFired
  <1>5. AnswersMatch' /\ OwnerMatches'
    BY DEF AnswersMatch, OwnerMatches
  <1> QED
    BY <1>1, <1>2, <1>3, <1>4, <1>5

LEMMA CancelPopIInv ==
  ASSUME IInv, NEW c \in Cancellers, NEW g \in Guards, CancelPop(c, g)
  PROVE  IInv'
  <1> USE ScopeAssumption DEF IInv, CancelPop, Unlinked
  <1>1. TypeOK'
    <2>1. state' \in [Guards -> GuardStates]
      BY DEF TypeOK, GuardStates
    <2>2. firing' \in [Cancellers -> Guards \union {NoGuard}]
      BY DEF TypeOK
    <2>3. linked' \subseteq Scoped
      BY DEF TypeOK
    <2>4. UNCHANGED <<cancelled, mtx, owner, answers, calls, pc>>
      OBVIOUS
    <2> QED
      BY <2>1, <2>2, <2>3, <2>4 DEF TypeOK
  <1>2. LinkedIsArmed' /\ SweptClean' /\ HolderSweeps'
    BY DEF TypeOK, LinkedIsArmed, SweptClean, HolderSweeps
  <1>3. state[g] = "armed" /\ owner[g] = "waiting" /\ answers[g] = {} /\ calls[g] = 0
    BY DEF TypeOK, LinkedIsArmed, OwnerMatches, CalledIsFired
  <1>4. FiringIsPending'
    BY <1>3 DEF TypeOK, FiringIsPending
  <1>5. PendingIsFiring'
    BY <1>3 DEF TypeOK, PendingIsFiring
  <1>6. CalledIsFired'
    BY <1>3 DEF TypeOK, CalledIsFired
  <1>7. AnswersMatch'
    BY <1>3 DEF TypeOK, AnswersMatch
  <1>8. OwnerMatches'
    BY <1>3 DEF TypeOK, OwnerMatches
  <1> QED
    BY <1>1, <1>2, <1>4, <1>5, <1>6, <1>7, <1>8

LEMMA CancelCallIInv ==
  ASSUME IInv, NEW c \in Cancellers, CancelCall(c)
  PROVE  IInv'
  <1> USE ScopeAssumption DEF IInv, CancelCall
  <1> DEFINE g == firing[c]
  <1>1. g \in Guards /\ calls[g] = 0 /\ state[g] = "fired" /\ mtx = c
    BY DEF TypeOK, FiringIsPending, HolderSweeps
  <1>2. TypeOK'
    BY <1>1 DEF TypeOK
  <1>3. \A d \in Cancellers : firing[d] # NoGuard => d = c
    BY <1>1 DEF FiringIsPending, HolderSweeps
  <1>4. FiringIsPending' /\ PendingIsFiring'
    BY <1>1, <1>3 DEF TypeOK, FiringIsPending, PendingIsFiring
  <1>5. CalledIsFired' /\ AnswersMatch'
    <2>1. calls' = [calls EXCEPT ![g] = 1]
      BY <1>1 DEF TypeOK
    <2>2. CalledIsFired'
      BY <1>1, <2>1 DEF TypeOK, CalledIsFired
    <2>3. AnswersMatch'
      BY <1>1, <2>1 DEF TypeOK, AnswersMatch
    <2> QED
      BY <2>2, <2>3
  <1>6. LinkedIsArmed' /\ HolderSweeps' /\ OwnerMatches' /\ SweptClean'
    BY DEF LinkedIsArmed, HolderSweeps, OwnerMatches, SweptClean
  <1> QED
    BY <1>2, <1>4, <1>5, <1>6

LEMMA CancelUnlockIInv ==
  ASSUME IInv, NEW c \in Cancellers, CancelUnlock(c)
  PROVE  IInv'
  <1> USE ScopeAssumption DEF IInv, CancelUnlock, SweepDone
  <1>1. TypeOK'
    BY DEF TypeOK, CancelSteps
  <1>2. HolderSweeps' /\ SweptClean'
    BY DEF TypeOK, HolderSweeps, SweptClean
  <1>3. FiringIsPending' /\ PendingIsFiring'
    BY DEF TypeOK, FiringIsPending, PendingIsFiring
  <1>4. LinkedIsArmed' /\ CalledIsFired' /\ AnswersMatch' /\ OwnerMatches'
    BY DEF LinkedIsArmed, CalledIsFired, AnswersMatch, OwnerMatches
  <1> QED
    BY <1>1, <1>2, <1>3, <1>4

LEMMA NextIInv == IInv /\ [Next]_vars => IInv'
  <1> SUFFICES ASSUME IInv, [Next]_vars
               PROVE  IInv'
    OBVIOUS
  <1>1. ASSUME NEW g \in Guards, Arm(g)
        PROVE  IInv'
    BY <1>1, ArmIInv
  <1>2. ASSUME NEW g \in Guards, Disarm(g)
        PROVE  IInv'
    BY <1>2, DisarmEffectIInv DEF Disarm
  <1>3. ASSUME NEW g \in Guards, Destroy(g)
        PROVE  IInv'
    BY <1>3, DisarmEffectIInv DEF Destroy
  <1>4. ASSUME NEW c \in Cancellers, CancelCheck(c) \/ CancelLock(c)
        PROVE  IInv'
    BY <1>4, CancelLockIInv
  <1>5. ASSUME NEW c \in Cancellers, NEW g \in Guards, CancelPop(c, g)
        PROVE  IInv'
    BY <1>5, CancelPopIInv
  <1>6. ASSUME NEW c \in Cancellers, CancelCall(c)
        PROVE  IInv'
    BY <1>6, CancelCallIInv
  <1>7. ASSUME NEW c \in Cancellers, CancelUnlock(c)
        PROVE  IInv'
    BY <1>7, CancelUnlockIInv
  <1>8. CASE UNCHANGED vars
    <2> USE <1>8 DEF vars
    <2>1. TypeOK' /\ LinkedIsArmed' /\ HolderSweeps' /\ SweptClean'
      BY DEF IInv, TypeOK, LinkedIsArmed, HolderSweeps, SweptClean
    <2>2. FiringIsPending' /\ PendingIsFiring' /\ CalledIsFired'
      BY DEF IInv, FiringIsPending, PendingIsFiring, CalledIsFired
    <2>3. AnswersMatch' /\ OwnerMatches'
      BY DEF IInv, AnswersMatch, OwnerMatches
    <2> QED
      BY <2>1, <2>2, <2>3 DEF IInv
  <1> QED
    BY <1>1, <1>2, <1>3, <1>4, <1>5, <1>6, <1>7, <1>8 DEF Next, CancelStep
-----------------------------------------------------------------------------
LEMMA Invariance == Spec => []IInv
  BY InitIInv, NextIInv, PTL DEF Spec

(* The scope's variables keep the values of their types and no callback    *)
(* ever runs twice (cancel_scope.hpp, cancel()). *)
THEOREM TypeCorrect == Spec => []TypeOK
  <1>1. IInv => TypeOK
    BY DEF IInv
  <1> QED
    BY Invariance, <1>1, PTL

(* The contract that cancel_scope.hpp states above disarm(): true means    *)
(* the callback never runs, false after firing means it is over. *)
THEOREM ContractKept == Spec => []CallbackContract
  <1>1. IInv => CallbackContract
    <2> SUFFICES ASSUME IInv, NEW g \in Guards
                 PROVE  /\ TRUE \in answers[g] => calls[g] = 0
                        /\ FALSE \in answers[g] /\ state[g] = "fired" => calls[g] = 1
      BY DEF CallbackContract
    <2>1. calls[g] \in {0, 1}
      BY DEF IInv, TypeOK
    <2>2. TRUE \in answers[g] => calls[g] # 1
      BY DEF IInv, AnswersMatch, CalledIsFired
    <2> QED
      BY <2>1, <2>2 DEF IInv, AnswersMatch
  <1> QED
    BY Invariance, <1>1, PTL

(* A sweep reaches no guard whose awaiter is gone: unlinking under the     *)
(* same mutex is what makes ~cancel_guard() safe. *)
THEOREM NeverDangling == Spec => []NoDanglingGuard
  <1>1. IInv => NoDanglingGuard
    BY ScopeAssumption DEF IInv, LinkedIsArmed, OwnerMatches, FiringIsPending, NoDanglingGuard
  <1> QED
    BY Invariance, <1>1, PTL

(* No cancellation is lost between arm() and cancel(). *)
THEOREM NoLostCancellation == Spec => []NoneLeftArmed
  <1>1. IInv => NoneLeftArmed
    BY DEF IInv, LinkedIsArmed, SweptClean, NoneLeftArmed
  <1> QED
    BY Invariance, <1>1, PTL

-----------------------------------------------------------------------------
(* The refinement: each critical section of cancel(), arm() and disarm()   *)
(* is one step, or a stutter, of the one-shot tokens. *)
abstractToken == [g \in Guards |-> AbstractToken(g)]

LEMMA InitRefines == Init => Token!Init
  BY DEF Init, Token!Init, AbstractToken

LEMMA ArmRefines ==
  ASSUME IInv, NEW g \in Guards, Arm(g)
  PROVE  [Token!Next]_(Token!tokenVars)
  <1> USE DEF Arm, MayLock, Refused
  <1>1. CASE Refused(g)
    BY <1>1 DEF Token!tokenVars, AbstractToken
  <1>2. CASE ~Refused(g)
    <2>1. state[g] = "idle" /\ answers[g] = {} /\ calls[g] = 0
      BY DEF IInv, TypeOK, OwnerMatches, CalledIsFired
    <2>2. state' = [state EXCEPT ![g] = "armed"] /\ UNCHANGED <<answers, calls, cancelled>>
      BY <1>2
    <2>3. AbstractToken(g) = "idle" /\ AbstractToken(g)' = "armed"
      BY <2>1, <2>2 DEF AbstractToken, IInv, TypeOK
    <2>4. \A h \in Guards \ {g} : AbstractToken(h)' = AbstractToken(h)
      BY <2>2 DEF AbstractToken, IInv, TypeOK
    <2>5. abstractToken' = [abstractToken EXCEPT ![g] = "armed"]
      BY <2>3, <2>4 DEF abstractToken
    <2> QED
      BY <1>2, <2>2, <2>3, <2>5 DEF Token!Next, Token!Arm, abstractToken
  <1> QED
    BY <1>1, <1>2

LEMMA DisarmRefines ==
  ASSUME IInv, NEW g \in Guards, DisarmEffect(g), UNCHANGED <<cancelled, calls, pc, firing>>
  PROVE  Token!Disarm(g)
  <1> USE ScopeAssumption DEF DisarmEffect, MayLock
  <1>1. state[g] = "fired" => g \in Scoped /\ calls[g] = 1
    BY DEF IInv, TypeOK, CalledIsFired, PendingIsFiring, FiringIsPending, HolderSweeps
  <1>2. AbstractToken(g) = "armed" <=> state[g] = "armed"
    BY <1>1 DEF AbstractToken, IInv, TypeOK, CalledIsFired
  <1>3. answers' = [answers EXCEPT ![g] = @ \union {AbstractToken(g) = "armed"}]
    BY <1>2
  <1>4. AbstractToken(g)' = IF AbstractToken(g) = "armed" THEN "stopped" ELSE AbstractToken(g)
    <2>1. answers'[g] = answers[g] \union {state[g] = "armed"}
      BY DEF IInv, TypeOK
    <2>2. CASE state[g] = "armed"
      BY <1>2, <2>1, <2>2 DEF AbstractToken, IInv, TypeOK, CalledIsFired
    <2>3. CASE state[g] = "fired"
      BY <1>1, <1>2, <2>3 DEF AbstractToken, IInv, TypeOK
    <2>4. CASE state[g] \in {"idle", "disarmed"}
      <3>1. TRUE \in answers'[g] <=> TRUE \in answers[g]
        BY <2>1, <2>4
      <3>2. calls[g] = 0 /\ calls'[g] = 0 /\ state'[g] \in {"idle", "disarmed"}
        BY <2>4 DEF IInv, TypeOK, CalledIsFired
      <3> QED
        BY <1>2, <2>4, <3>1, <3>2 DEF AbstractToken
    <2> QED
      BY <2>2, <2>3, <2>4 DEF IInv, TypeOK, GuardStates
  <1>5. \A h \in Guards \ {g} : AbstractToken(h)' = AbstractToken(h)
    BY DEF AbstractToken, IInv, TypeOK
  <1>6. abstractToken' = [abstractToken EXCEPT ![g] = IF @ = "armed" THEN "stopped" ELSE @]
    BY <1>4, <1>5 DEF abstractToken
  <1> QED
    BY <1>3, <1>6 DEF Token!Disarm, abstractToken

LEMMA CancelLockRefines ==
  ASSUME IInv, NEW c \in Cancellers, CancelCheck(c) \/ CancelLock(c) \/ CancelUnlock(c)
  PROVE  [Token!Next]_(Token!tokenVars)
  <1>1. UNCHANGED <<state, answers, calls>> /\ (cancelled' = cancelled \/ cancelled' = TRUE)
    BY DEF CancelCheck, CancelLock, CancelUnlock
  <1>2. \A g \in Guards : AbstractToken(g)' = AbstractToken(g)
    BY <1>1 DEF AbstractToken
  <1>3. abstractToken' = abstractToken
    BY <1>2 DEF abstractToken
  <1>4. CASE cancelled' = cancelled
    BY <1>1, <1>3, <1>4 DEF Token!tokenVars, abstractToken
  <1>5. CASE cancelled' = TRUE
    <2>1. Token!Request
      BY <1>1, <1>3, <1>5 DEF Token!Request, abstractToken
    <2> QED
      BY <2>1 DEF Token!Next
  <1> QED
    BY <1>1, <1>4, <1>5

LEMMA CancelPopRefines ==
  ASSUME IInv, NEW c \in Cancellers, NEW g \in Guards, CancelPop(c, g)
  PROVE  UNCHANGED Token!tokenVars
  <1>1. state[g] = "armed"
    BY DEF CancelPop, IInv, LinkedIsArmed
  <1>2. state' = [state EXCEPT ![g] = "fired"] /\ UNCHANGED <<answers, calls, cancelled>>
    BY DEF CancelPop
  <1>3. \A h \in Guards : AbstractToken(h)' = AbstractToken(h)
    BY <1>1, <1>2 DEF AbstractToken, IInv, TypeOK
  <1>4. abstractToken' = abstractToken
    BY <1>3 DEF abstractToken
  <1> QED
    BY <1>2, <1>4 DEF Token!tokenVars, abstractToken

LEMMA CancelCallRefines ==
  ASSUME IInv, NEW c \in Cancellers, NEW g \in Guards, firing[c] = g, CancelCall(c)
  PROVE  Token!Run(g)
  <1>1. g \in Scoped /\ calls[g] = 0 /\ state[g] = "fired" /\ cancelled
    BY ScopeAssumption
       DEF CancelCall, IInv, TypeOK, FiringIsPending, HolderSweeps
  <1>2. calls' = [calls EXCEPT ![g] = 1] /\ UNCHANGED <<state, answers, cancelled>>
    BY <1>1 DEF CancelCall, IInv, TypeOK
  <1>3. AbstractToken(g) = "armed" /\ AbstractToken(g)' = "ran"
    BY <1>1, <1>2 DEF AbstractToken, IInv, TypeOK
  <1>4. \A h \in Guards \ {g} : AbstractToken(h)' = AbstractToken(h)
    BY <1>2 DEF AbstractToken, IInv, TypeOK
  <1>5. abstractToken' = [abstractToken EXCEPT ![g] = "ran"]
    BY <1>3, <1>4 DEF abstractToken
  <1> QED
    BY <1>1, <1>2, <1>3, <1>5 DEF Token!Run, abstractToken

(* Whatever the number of guards and of cancelling threads, the mutex, the *)
(* list and the sweep of cancel_scope implement one-shot tokens. *)
THEOREM Refinement == Spec => ImplementsToken
  <1>1. IInv /\ [Next]_vars => [Token!Next]_(Token!tokenVars)
    <2> SUFFICES ASSUME IInv, [Next]_vars
                 PROVE  [Token!Next]_(Token!tokenVars)
      OBVIOUS
    <2>1. ASSUME NEW g \in Guards, Arm(g)
          PROVE  [Token!Next]_(Token!tokenVars)
      BY <2>1, ArmRefines
    <2>2. ASSUME NEW g \in Guards, Disarm(g) \/ Destroy(g)
          PROVE  [Token!Next]_(Token!tokenVars)
      <3>1. DisarmEffect(g) /\ UNCHANGED <<cancelled, calls, pc, firing>>
        BY <2>2 DEF Disarm, Destroy
      <3> QED
        BY <3>1, DisarmRefines DEF Token!Next
    <2>3. ASSUME NEW c \in Cancellers, CancelCheck(c) \/ CancelLock(c) \/ CancelUnlock(c)
          PROVE  [Token!Next]_(Token!tokenVars)
      BY <2>3, CancelLockRefines
    <2>4. ASSUME NEW c \in Cancellers, NEW g \in Guards, CancelPop(c, g)
          PROVE  [Token!Next]_(Token!tokenVars)
      BY <2>4, CancelPopRefines
    <2>5. ASSUME NEW c \in Cancellers, CancelCall(c)
          PROVE  [Token!Next]_(Token!tokenVars)
      <3>1. firing[c] \in Guards
        BY <2>5 DEF CancelCall, IInv, TypeOK
      <3> QED
        BY <2>5, <3>1, CancelCallRefines DEF Token!Next
    <2>6. CASE UNCHANGED vars
      <3>1. \A g \in Guards : AbstractToken(g)' = AbstractToken(g)
        BY <2>6 DEF vars, AbstractToken
      <3>2. abstractToken' = abstractToken
        BY <3>1 DEF abstractToken
      <3> QED
        BY <2>6, <3>2 DEF vars, Token!tokenVars, abstractToken
    <2> QED
      BY <2>1, <2>2, <2>3, <2>4, <2>5, <2>6 DEF Next, CancelStep
  <1> QED
    BY Invariance, InitRefines, <1>1, PTL DEF Spec, ImplementsToken, Token!Spec
=============================================================================
