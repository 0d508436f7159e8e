----------------------------- MODULE HealthProofs -----------------------------
EXTENDS HealthChecks, TLAPS

(* The safety of the recovery chain, for any number of checks, any actions,    *)
(* threshold and cooldown, and any number of faults and operations.  A step    *)
(* moves one check at a time: OneCheckMoves says what it owes to the others,   *)
(* and one lemma per group of actions shows what that action does.             *)

-----------------------------------------------------------------------------
\* The part of HealthInv that is about the checks, and the part about the rest.
CheckType == [pc : {"idle", "probing"} \cup Acting, at : Nat]
ResultType == [fails : Nat, until : Nat]

CheckOK(c) ==
    /\ checkResult[c].until <= healthClock + Cooldown
    /\ checker[c].pc \in Acting => checker[c].at \in 1..Len(ActionsOf[c])
    /\ CheckInv(c)

CheckTypes ==
    /\ healthClock \in Nat
    /\ checkResult \in [Checks -> ResultType] /\ checker \in [Checks -> CheckType]
    /\ earned \in [Checks -> Nat] /\ heldUntil \in [Checks -> Nat]

ChecksOK == CheckTypes /\ \A c \in Checks : CheckOK(c)

RestOK ==
    /\ wanLink \in {"up", "down"} /\ pppd \in {"up", "down"}
    /\ usb \in [enabled : BOOLEAN, auto : BOOLEAN, phone : BOOLEAN, route : BOOLEAN, active : BOOLEAN]
    /\ cancelled \in BOOLEAN /\ rebooting \in BOOLEAN /\ movedAgainst \in BOOLEAN /\ ~movedAgainst

\* A failover under way began with both switches on; one that is off was turned off since.
FailoverOK == \A c \in Checks : InFailover(c) => (usb.enabled /\ usb.auto) \/ c \in tooLate

\* HealthInv is those three, and what holds of the interface.
LEMMA HealthParts == HealthInv <=> ChecksOK /\ RestOK /\ DownIsTemporary /\ FailoverOK
  BY DEF HealthInv, HealthTypeOK, ChecksOK, CheckOK, CheckTypes, CheckType, ResultType,
         RestOK, FailoverOnlyAllowed, FailoverOK

\* The same holds of the next state.
LEMMA HealthPartsNext == HealthInv' <=> ChecksOK' /\ RestOK' /\ DownIsTemporary' /\ FailoverOK'
  BY HealthParts, PTL

\* The constants are numbers, and every check's actions are a sequence.
LEMMA HealthConstants ==
    /\ Cooldown \in Nat /\ FailureThreshold \in Nat
    /\ \A c \in Checks : Len(ActionsOf[c]) \in Nat /\ (ActionsOf[c] # <<>> => Len(ActionsOf[c]) > 0)
<1>1. Cooldown \in Nat /\ FailureThreshold \in Nat
  BY HealthAssumption
<1>2. ASSUME NEW c \in Checks
      PROVE  Len(ActionsOf[c]) \in Nat /\ (ActionsOf[c] # <<>> => Len(ActionsOf[c]) > 0)
  BY HealthAssumption
<1>. QED BY <1>1, <1>2

\* A step of one check, to a state and counters that are in order.
LEMMA OneCheckMoves ==
    ASSUME ChecksOK, healthClock' = healthClock, NEW c \in Checks, CheckTypes', CheckOK(c)',
           \A d \in Checks \ {c} :
              /\ checker'[d] = checker[d] /\ checkResult'[d] = checkResult[d]
              /\ earned'[d] = earned[d] /\ heldUntil'[d] = heldUntil[d]
    PROVE  ChecksOK'
<1>1. ASSUME NEW d \in Checks \ {c} PROVE CheckOK(d)'
  BY <1>1 DEF ChecksOK, CheckOK, CheckInv
<1>. QED BY <1>1 DEF ChecksOK

\* A step of no check, in which time may pass.
LEMMA NoCheckMoves ==
    ASSUME ChecksOK, healthClock' \in {healthClock, healthClock + 1},
           UNCHANGED <<checker, checkResult, earned, heldUntil>>
    PROVE  ChecksOK'
<1>1. healthClock \in Nat /\ healthClock' \in Nat /\ healthClock' >= healthClock
  BY DEF ChecksOK, CheckTypes
<1>2. ASSUME NEW d \in Checks PROVE CheckOK(d)'
  <2>1. checkResult[d].until \in Nat /\ heldUntil[d] \in Nat
    BY DEF ChecksOK, CheckTypes, ResultType
  <2>2. CheckOK(d)
    BY DEF ChecksOK
  <2>. QED BY <1>1, <2>1, <2>2, HealthConstants DEF CheckOK, CheckInv
<1>. QED BY <1>1, <1>2 DEF ChecksOK, CheckTypes

\* The interface stays as it was, and the check that moves was not restarting it.
LEMMA DownKept ==
    ASSUME ChecksOK, DownIsTemporary, UNCHANGED <<wanLink, cutShort>>, NEW c \in Checks, NEW k,
           checker' = [checker EXCEPT ![c] = k],
           ~(checker[c].pc = "between" /\ ActionsOf[c][checker[c].at] = "restartInterface")
    PROVE  DownIsTemporary'
  BY DEF ChecksOK, CheckTypes, DownIsTemporary

\* A step that moves no check and not the interface.
LEMMA DownStays ==
    ASSUME DownIsTemporary, UNCHANGED <<wanLink, cutShort, checker>>
    PROVE  DownIsTemporary'
  BY DEF DownIsTemporary

\* A step of one check that leaves the switches alone, and after which it is in no
\* failover that the switches forbade when it began.
LEMMA FailoverKept ==
    ASSUME FailoverOK, NEW c \in Checks, usb'.enabled = usb.enabled, usb'.auto = usb.auto,
           tooLate \ {c} \subseteq tooLate', \A d \in Checks \ {c} : checker'[d] = checker[d],
           InFailover(c)' => (usb.enabled /\ usb.auto) \/ c \in tooLate'
    PROVE  FailoverOK'
<1>1. ASSUME NEW d \in Checks, InFailover(d)' PROVE (usb'.enabled /\ usb'.auto) \/ d \in tooLate'
  <2>1. CASE d = c
    BY <1>1, <2>1
  <2>2. CASE d # c
    <3>1. checker'[d] = checker[d]
      BY <2>2
    <3>2. InFailover(d)
      BY <1>1, <3>1 DEF InFailover
    <3>. QED BY <2>2, <3>2 DEF FailoverOK
  <2>. QED BY <2>1, <2>2
<1>. QED BY <1>1 DEF FailoverOK

\* The operator turns a switch: every failover under way is too late for it to stop.
LEMMA SwitchKeeps ==
    ASSUME FailoverOK, RestOK, UNCHANGED checker, NEW b \in BOOLEAN, SwitchComes(b),
           SetEnabled(b) \/ SetAutoFailover(b)
    PROVE  FailoverOK'
<1>1. ASSUME NEW d \in Checks, InFailover(d)' PROVE (usb'.enabled /\ usb'.auto) \/ d \in tooLate'
  <2>1. InFailover(d)
    BY <1>1 DEF InFailover
  <2>2. CASE b = FALSE
    BY <2>1, <2>2 DEF SwitchComes
  <2>3. CASE b = TRUE
    <3>1. usb' = [usb EXCEPT !.enabled = TRUE] \/ usb' = [usb EXCEPT !.auto = TRUE]
      BY <2>3 DEF SetEnabled, SetAutoFailover
    <3>2. usb.enabled /\ usb.auto => usb'.enabled /\ usb'.auto
      BY <3>1 DEF RestOK
    <3>3. tooLate' = tooLate
      BY <2>3 DEF SwitchComes
    <3>. QED BY <2>1, <3>2, <3>3 DEF FailoverOK
  <2>. QED BY <2>2, <2>3
<1>. QED BY <1>1 DEF FailoverOK

-----------------------------------------------------------------------------
(* The steps of a check.                                                       *)

\* What is known of one check.
LEMMA CheckFacts ==
    ASSUME ChecksOK, NEW c \in Checks
    PROVE  /\ CheckTypes /\ CheckOK(c)
           /\ checker[c] \in CheckType /\ checker[c].pc \in {"idle", "probing"} \cup Acting
           /\ checker[c].at \in Nat
           /\ checkResult[c] \in ResultType /\ checkResult[c].fails \in Nat /\ checkResult[c].until \in Nat
           /\ earned[c] \in Nat /\ heldUntil[c] \in Nat /\ healthClock \in Nat
  BY DEF ChecksOK, CheckTypes, CheckType, ResultType

\* A check that goes idle, with its counters as they are.
LEMMA GoesIdle ==
    ASSUME ChecksOK, NEW c \in Checks, checker' = [checker EXCEPT ![c] = CheckIdle],
           UNCHANGED <<healthClock, checkResult, earned, heldUntil>>
    PROVE  ChecksOK'
<1>1. CheckIdle \in CheckType /\ CheckIdle.pc = "idle" /\ CheckIdle.pc \notin Acting
  BY DEF CheckIdle, CheckType, Acting
<1>2. CheckTypes' /\ checker'[c] = CheckIdle
  BY <1>1, CheckFacts DEF CheckTypes
<1>3. CheckOK(c)'
  BY <1>1, <1>2, CheckFacts DEF CheckOK, CheckInv
<1>4. \A d \in Checks \ {c} : checker'[d] = checker[d]
  BY CheckFacts DEF CheckTypes
<1>. QED BY <1>2, <1>3, <1>4, OneCheckMoves

\* A check that acts and goes on acting.
LEMMA GoesOnActing ==
    ASSUME ChecksOK, NEW c \in Checks, checker[c].pc \in Acting,
           NEW p \in Acting, NEW i \in 1..Len(ActionsOf[c]),
           checker' = [checker EXCEPT ![c] = [pc |-> p, at |-> i]],
           UNCHANGED <<healthClock, checkResult, earned, heldUntil>>
    PROVE  ChecksOK'
<1>1. i \in Nat /\ checker[c].pc # "idle"
  BY HealthConstants DEF Acting
<1>2. CheckTypes' /\ checker'[c].pc = p /\ checker'[c].at = i
  BY <1>1, CheckFacts DEF CheckTypes, CheckType
<1>3. CheckOK(c)'
  BY <1>1, <1>2, CheckFacts DEF CheckOK, CheckInv
<1>4. \A d \in Checks \ {c} : checker'[d] = checker[d]
  BY CheckFacts DEF CheckTypes
<1>. QED BY <1>2, <1>3, <1>4, OneCheckMoves

\* NextAction: the next action of the chain, or none.
LEMMA NextActionStep ==
    ASSUME ChecksOK, NEW c \in Checks, checker[c].pc \in Acting, healthClock' = healthClock, NextAction(c)
    PROVE  ChecksOK'
<1>1. CASE checker[c].at < Len(ActionsOf[c])
  <2>1. checker[c].at + 1 \in 1..Len(ActionsOf[c])
    BY <1>1, CheckFacts, HealthConstants
  <2>2. checker' = [checker EXCEPT ![c] = [pc |-> "delay", at |-> checker[c].at + 1]]
    BY <1>1 DEF NextAction
  <2>3. "delay" \in Acting
    BY DEF Acting
  <2>. QED BY <2>1, <2>2, <2>3, GoesOnActing, Zenon DEF NextAction
<1>2. CASE ~(checker[c].at < Len(ActionsOf[c]))
  BY <1>2, GoesIdle, Zenon DEF NextAction
<1>. QED BY <1>1, <1>2

\* ActionSleeps: the action waits between its two commands.
LEMMA ActionSleepsStep ==
    ASSUME ChecksOK, NEW c \in Checks, checker[c].pc \in Acting, healthClock' = healthClock, ActionSleeps(c)
    PROVE  ChecksOK' /\ checker'[c] = [checker[c] EXCEPT !.pc = "between"]
<1>1. checker'[c] = [checker[c] EXCEPT !.pc = "between"]
  BY CheckFacts DEF ActionSleeps, CheckTypes
<1>2. /\ checker'[c] \in CheckType /\ checker'[c].pc = "between" /\ checker'[c].at = checker[c].at
      /\ checker[c].pc # "idle"
  BY <1>1, CheckFacts DEF CheckType, Acting
<1>3. CheckTypes'
  BY <1>2, CheckFacts DEF CheckTypes, ActionSleeps
<1>4. CheckOK(c)'
  BY <1>2, CheckFacts DEF CheckOK, CheckInv, ActionSleeps
<1>5. \A d \in Checks \ {c} : checker'[d] = checker[d]
  BY CheckFacts DEF CheckTypes, ActionSleeps
<1>. QED BY <1>1, <1>3, <1>4, <1>5, OneCheckMoves DEF ActionSleeps

\* RecordAction: the cooldown starts and nothing counts any more.
LEMMA RecordActionStep ==
    ASSUME ChecksOK, NEW c \in Checks, healthClock' = healthClock, RecordAction(c)
    PROVE  ChecksOK'
<1>1. healthClock + Cooldown \in Nat
  BY CheckFacts, HealthConstants
<1>2. CheckIdle \in CheckType /\ CheckIdle.pc = "idle" /\ CheckIdle.pc \notin Acting
  BY DEF CheckIdle, CheckType, Acting
<1>3. /\ checker'[c] = CheckIdle /\ checkResult'[c] = [fails |-> 0, until |-> healthClock + Cooldown]
      /\ earned'[c] = 0 /\ heldUntil'[c] = healthClock + Cooldown
  BY CheckFacts DEF RecordAction, StartCooldown, CheckTypes
<1>4. CheckTypes'
  BY <1>1, <1>2, CheckFacts DEF RecordAction, StartCooldown, CheckTypes, ResultType
<1>5. CheckOK(c)'
  BY <1>1, <1>2, <1>3 DEF CheckOK, CheckInv
<1>6. \A d \in Checks \ {c} :
        /\ checker'[d] = checker[d] /\ checkResult'[d] = checkResult[d]
        /\ earned'[d] = earned[d] /\ heldUntil'[d] = heldUntil[d]
  BY CheckFacts DEF RecordAction, StartCooldown, CheckTypes
<1>. QED BY <1>4, <1>5, <1>6, OneCheckMoves

\* CheckTick: a check probes only when its cooldown is over.
LEMMA CheckTickStep ==
    ASSUME ChecksOK, NEW c \in Checks, CheckTick(c)
    PROVE  ChecksOK'
<1>. USE DEF CheckTick, healthHistory
<1>1. checker'[c] = [checker[c] EXCEPT !.pc = "probing"]
  BY CheckFacts DEF CheckTypes
<1>2. checker'[c] \in CheckType /\ checker'[c].pc = "probing" /\ checker'[c].pc \notin Acting
  BY <1>1, CheckFacts DEF CheckType, Acting
<1>3. healthClock >= heldUntil[c]
  BY CheckFacts DEF InCooldown, CheckOK, CheckInv
<1>4. CheckTypes'
  BY <1>2, CheckFacts DEF CheckTypes
<1>5. CheckOK(c)'
  BY <1>2, <1>3, CheckFacts DEF CheckOK, CheckInv
<1>6. \A d \in Checks \ {c} : checker'[d] = checker[d]
  BY CheckFacts DEF CheckTypes
<1>. QED BY <1>4, <1>5, <1>6, OneCheckMoves

\* ProbeOk: a target answered, and the failures so far no longer count.
LEMMA ProbeOkStep ==
    ASSUME ChecksOK, NEW c \in Checks, ProbeOk(c)
    PROVE  ChecksOK'
<1>. USE DEF ProbeOk
<1>1. CheckIdle \in CheckType /\ CheckIdle.pc = "idle" /\ CheckIdle.pc \notin Acting
  BY DEF CheckIdle, CheckType, Acting
<1>2. /\ checker'[c] = CheckIdle /\ checkResult'[c] = [checkResult[c] EXCEPT !.fails = 0] /\ earned'[c] = 0
  BY CheckFacts DEF CheckTypes
<1>3. /\ checkResult'[c] \in ResultType /\ checkResult'[c].fails = 0
      /\ checkResult'[c].until = checkResult[c].until
  BY <1>2, CheckFacts DEF ResultType
<1>4. CheckTypes'
  BY <1>1, <1>3, CheckFacts DEF CheckTypes
<1>5. CheckOK(c)'
  BY <1>1, <1>2, <1>3, CheckFacts DEF CheckOK, CheckInv
<1>6. \A d \in Checks \ {c} :
        checker'[d] = checker[d] /\ checkResult'[d] = checkResult[d] /\ earned'[d] = earned[d]
  BY CheckFacts DEF CheckTypes
<1>. QED BY <1>4, <1>5, <1>6, OneCheckMoves

\* ProbeFails: the chain starts when FailureThreshold failures were earned.
LEMMA ProbeFailsStep ==
    ASSUME ChecksOK, NEW c \in Checks, ProbeFails(c)
    PROVE  ChecksOK'
<1>. DEFINE n == checkResult[c].fails + 1
           acts == FailureThreshold > 0 /\ n >= FailureThreshold /\ ActionsOf[c] # <<>>
<1>. USE DEF ProbeFails
<1>1. /\ checkResult'[c] = [checkResult[c] EXCEPT !.fails = n]
      /\ earned'[c] = IF earned[c] < FailureThreshold THEN earned[c] + 1 ELSE earned[c]
      /\ checker'[c] = IF acts THEN [pc |-> "delay", at |-> 1] ELSE CheckIdle
  BY CheckFacts, Zenon DEF CheckTypes
<1>2. /\ n \in Nat /\ checkResult'[c] \in ResultType /\ checkResult'[c].fails = n
      /\ checkResult'[c].until = checkResult[c].until
  BY <1>1, CheckFacts DEF ResultType
<1>3. earned'[c] \in Nat /\ (earned'[c] >= FailureThreshold \/ n <= earned'[c])
  BY <1>1, CheckFacts, HealthConstants DEF CheckOK, CheckInv
<1>4. checker'[c] \in CheckType
  BY <1>1 DEF CheckType, CheckIdle, Acting
<1>5. checker'[c].pc \in Acting => n >= FailureThreshold /\ checker'[c].at \in 1..Len(ActionsOf[c])
  <2>1. CASE acts
    BY <1>1, <2>1, HealthConstants
  <2>2. CASE ~acts
    BY <1>1, <2>2 DEF CheckIdle, Acting
  <2>. QED BY <2>1, <2>2
<1>6. healthClock >= heldUntil[c] /\ UNCHANGED <<healthClock, heldUntil>>
  BY CheckFacts DEF CheckOK, CheckInv
<1>7. CheckTypes'
  BY <1>2, <1>3, <1>4, CheckFacts, Zenon DEF CheckTypes
<1>8. \A d \in Checks \ {c} :
        checker'[d] = checker[d] /\ checkResult'[d] = checkResult[d] /\ earned'[d] = earned[d]
  BY CheckFacts DEF CheckTypes
<1>. HIDE DEF n, acts, ProbeFails
<1>9. CheckOK(c)'
  BY <1>2, <1>3, <1>5, <1>6, CheckFacts, HealthConstants DEF CheckOK, CheckInv
<1>. QED BY <1>6, <1>7, <1>8, <1>9, OneCheckMoves

\* HandleReset: the operator forgets the failures and the cooldown.
LEMMA HandleResetStep ==
    ASSUME ChecksOK, NEW c \in Checks, HandleReset(c)
    PROVE  ChecksOK'
<1>. USE DEF HandleReset, ResetCounter
<1>1. checkResult'[c] = [fails |-> 0, until |-> 0] /\ heldUntil'[c] = 0
  BY CheckFacts DEF CheckTypes
<1>2. CheckTypes'
  BY CheckFacts DEF CheckTypes, ResultType
<1>3. CheckOK(c)'
  BY <1>1, CheckFacts, HealthConstants DEF CheckOK, CheckInv
<1>4. \A d \in Checks \ {c} : checkResult'[d] = checkResult[d] /\ heldUntil'[d] = heldUntil[d]
  BY CheckFacts DEF CheckTypes
<1>. QED BY <1>2, <1>3, <1>4, OneCheckMoves

\* ActionDelay: the wait before an action, which a stop ends.
LEMMA ActionDelayStep ==
    ASSUME ChecksOK, NEW c \in Checks, ActionDelay(c)
    PROVE  ChecksOK'
<1>. USE DEF ActionDelay, healthHistory
<1>1. CASE cancelled
  BY <1>1, GoesIdle, Zenon
<1>2. CASE ~cancelled
  <2>1. checker' = [checker EXCEPT ![c] = [checker[c] EXCEPT !.pc = "run"]]
    BY <1>2
  <2>2. [checker[c] EXCEPT !.pc = "run"] = [pc |-> "run", at |-> checker[c].at]
    BY CheckFacts DEF CheckType
  <2>3. "run" \in Acting /\ checker[c].pc \in Acting
    BY DEF Acting
  <2>4. checker[c].at \in 1..Len(ActionsOf[c])
    BY <2>3, CheckFacts DEF CheckOK
  <2>. QED BY <2>1, <2>2, <2>3, <2>4, GoesOnActing, Zenon
<1>. QED BY <1>1, <1>2

-----------------------------------------------------------------------------
(* The actions as a whole: the check, the interface and the rest.              *)

\* The check that moves was not restarting the interface, and every step of the
\* chain is a step of its check alone.
LEMMA ChainMoves ==
    ASSUME NEW c \in Checks, NextAction(c) \/ ActionSleeps(c) \/ RecordAction(c)
    PROVE  \E k : checker' = [checker EXCEPT ![c] = k]
  BY DEF NextAction, ActionSleeps, RecordAction

\* Where such a step leaves its check, and that it leaves the others alone.
LEMMA ChainEnds ==
    ASSUME ChecksOK, NEW c \in Checks, NextAction(c) \/ RecordAction(c)
    PROVE  checker'[c].pc # "between" /\ \A d \in Checks \ {c} : checker'[d] = checker[d]
<1>1. checker'[c].pc \in {"idle", "delay"}
  BY CheckFacts DEF NextAction, RecordAction, CheckTypes, CheckIdle
<1>2. \A d \in Checks \ {c} : checker'[d] = checker[d]
  BY CheckFacts DEF NextAction, RecordAction, CheckTypes
<1>. QED BY <1>1, <1>2

LEMMA ChainSleeps ==
    ASSUME ChecksOK, NEW c \in Checks, ActionSleeps(c)
    PROVE  checker'[c].at = checker[c].at /\ \A d \in Checks \ {c} : checker'[d] = checker[d]
  BY CheckFacts DEF ActionSleeps, CheckTypes, CheckType

\* A step of the chain that is no failover.
LEMMA FailoverOther ==
    ASSUME ChecksOK, FailoverOK, NEW c \in Checks, UNCHANGED <<usb, tooLate>>,
           NextAction(c) \/ RecordAction(c) \/ (ActionSleeps(c) /\ ActionsOf[c][checker[c].at] # "failoverUsb")
    PROVE  FailoverOK'
<1>1. ~InFailover(c)'
  BY ChainEnds, ChainSleeps DEF InFailover
<1>2. \A d \in Checks \ {c} : checker'[d] = checker[d]
  BY ChainEnds, ChainSleeps
<1>. QED BY <1>1, <1>2, FailoverKept

\* A probe or the wait before an action.
LEMMA ProbeInv ==
    ASSUME HealthInv, NEW c \in Checks, ExecuteCheck(c) \/ ActionDelay(c) PROVE HealthInv'
<1>1. ChecksOK /\ RestOK /\ DownIsTemporary /\ FailoverOK
  BY HealthParts
<1>2. ChecksOK'
  BY <1>1, CheckTickStep, ProbeOkStep, ProbeFailsStep, ActionDelayStep DEF ExecuteCheck
<1>3. /\ UNCHANGED <<wanLink, pppd, usb, cancelled, rebooting, movedAgainst, cutShort, tooLate>>
      /\ checker[c].pc # "between" /\ \E k : checker' = [checker EXCEPT ![c] = k]
  BY DEF ExecuteCheck, CheckTick, ProbeOk, ProbeFails, ActionDelay, healthLinkVars, healthHistory
<1>4. RestOK'
  BY <1>1, <1>3 DEF RestOK
<1>5. DownIsTemporary'
  BY <1>1, <1>3, DownKept, Zenon
<1>6. checker'[c].pc # "between" /\ \A d \in Checks \ {c} : checker'[d] = checker[d]
  <2>1. CASE CheckTick(c) \/ ActionDelay(c)
    BY <1>1, <2>1, CheckFacts DEF CheckTick, ActionDelay, CheckTypes, CheckType, CheckIdle
  <2>2. CASE ProbeOk(c) \/ ProbeFails(c)
    BY <1>1, <2>2, CheckFacts DEF ProbeOk, ProbeFails, CheckTypes, CheckIdle
  <2>. QED BY <2>1, <2>2 DEF ExecuteCheck
<1>7. FailoverOK'
  BY <1>1, <1>3, <1>6, FailoverKept DEF InFailover
<1>. QED BY <1>2, <1>4, <1>5, <1>7, HealthPartsNext

\* actionRestartInterface: who takes the interface down brings it up again.
LEMMA RestartInterfaceInv ==
    ASSUME HealthInv, NEW c \in Checks, ActionRestartInterface(c) PROVE HealthInv'
<1>1. ChecksOK /\ RestOK /\ DownIsTemporary /\ FailoverOK
  BY HealthParts
<1>2. checker[c].pc \in Acting
  BY DEF ActionRestartInterface, RestartInterfaceDown, RestartInterfaceUp, RunsAction, Acting
<1>3. RestOK'
  BY <1>1 DEF ActionRestartInterface, RestartInterfaceDown, RestartInterfaceUp, RestOK
<1>6. FailoverOK'
  BY <1>1, FailoverOther
  DEF ActionRestartInterface, RestartInterfaceDown, RestartInterfaceUp, RunsAction
<1>4. CASE RestartInterfaceDown(c)
  <2>1. ChecksOK' /\ checker'[c] = [checker[c] EXCEPT !.pc = "between"]
    BY <1>1, <1>2, <1>4, ActionSleepsStep DEF RestartInterfaceDown
  <2>2. checker'[c].pc = "between" /\ checker'[c].at = checker[c].at
    BY <1>1, <2>1, CheckFacts DEF CheckType
  <2>3. DownIsTemporary'
    BY <1>4, <2>2 DEF RestartInterfaceDown, RunsAction, DownIsTemporary
  <2>. QED BY <1>3, <1>6, <2>1, <2>3, HealthPartsNext
<1>5. CASE RestartInterfaceUp(c)
  <2>1. ChecksOK'
    BY <1>1, <1>2, <1>5, RecordActionStep, NextActionStep DEF RestartInterfaceUp
  <2>2. DownIsTemporary'
    BY <1>5 DEF RestartInterfaceUp, DownIsTemporary
  <2>. QED BY <1>3, <1>6, <2>1, <2>2, HealthPartsNext
<1>. QED BY <1>4, <1>5 DEF ActionRestartInterface

\* The other actions leave the interface alone.
LEMMA OtherActionInv ==
    ASSUME HealthInv, NEW c \in Checks,
           ActionRestartPPPoE(c) \/ ActionFailoverUSB(c) \/ ActionReboot(c) \/ ActionUnknown(c)
    PROVE  HealthInv'
<1>. USE DEF ActionRestartPPPoE, RestartPPPoEKill, RestartPPPoECall, ActionFailoverUSB,
             FailoverUSBLease, FailoverUSBRoute, ActionReboot, ActionUnknown
<1>1. ChecksOK /\ RestOK /\ DownIsTemporary /\ FailoverOK
  BY HealthParts
<1>2. checker[c].pc \in Acting
  BY DEF RunsAction, InFailover, Acting
<1>3. healthClock' = healthClock /\ (NextAction(c) \/ ActionSleeps(c) \/ RecordAction(c))
  OBVIOUS
<1>4. ChecksOK'
  BY <1>1, <1>2, <1>3, NextActionStep, ActionSleepsStep, RecordActionStep, Zenon
<1>5. UNCHANGED <<wanLink, cutShort>>
  BY DEF healthLinkVars
<1>6. ~(checker[c].pc = "between" /\ ActionsOf[c][checker[c].at] = "restartInterface")
  BY DEF RunsAction, InFailover
<1>7. DownIsTemporary'
  BY <1>1, <1>3, <1>5, <1>6, ChainMoves, DownKept
<1>8. RestOK'
  <2>1. CASE FailoverUSBLease(c)
    BY <1>1, <2>1 DEF RestOK, healthLinkVars
  <2>2. CASE FailoverUSBRoute(c)
    <3>1. usb' \in [enabled : BOOLEAN, auto : BOOLEAN, phone : BOOLEAN, route : BOOLEAN, active : BOOLEAN]
      BY <1>1, <2>2, Zenon DEF RestOK
    <3>2. (usb.enabled /\ usb.auto) \/ c \in tooLate
      BY <1>1, <2>2 DEF FailoverOK
    <3>3. \/ movedAgainst' = (movedAgainst \/ (~(usb.enabled /\ usb.auto) /\ c \notin tooLate))
          \/ movedAgainst' = movedAgainst
      BY <2>2
    <3>4. ~movedAgainst /\ movedAgainst \in BOOLEAN
      BY <1>1 DEF RestOK
    <3>5. movedAgainst' \in BOOLEAN
      BY ONLY <3>3, <3>4
    <3>6. ~movedAgainst'
      BY ONLY <3>2, <3>3, <3>4
    <3>. QED BY <1>1, <2>2, <3>1, <3>5, <3>6 DEF RestOK, healthLinkVars
  <2>3. CASE ActionReboot(c)
    <3>1. rebooting' \in BOOLEAN
      BY <1>1, <2>3, Zenon DEF RestOK
    <3>. QED BY <1>1, <2>3, <3>1 DEF RestOK
  <2>4. CASE RestartPPPoEKill(c) \/ RestartPPPoECall(c)
    BY <1>1, <2>4 DEF RestOK
  <2>5. CASE ActionUnknown(c)
    BY <1>1, <2>5 DEF RestOK, healthLinkVars
  <2>. QED BY <2>1, <2>2, <2>3, <2>4, <2>5, Zenon
<1>9. FailoverOK'
  <2>1. CASE FailoverUSBLease(c)
    <3>1. CASE ActionSleeps(c) /\ FailoverAllowed
      BY <1>1, <2>1, <3>1, ChainSleeps, FailoverKept DEF FailoverAllowed
    <3>2. CASE NextAction(c)
      BY <1>1, <2>1, <3>2, FailoverOther
    <3>. QED BY <2>1, <3>1, <3>2
  <2>2. CASE FailoverUSBRoute(c)
    <3>1. usb'.enabled = usb.enabled /\ usb'.auto = usb.auto
      BY <1>1, <2>2 DEF RestOK
    <3>2. NextAction(c) \/ RecordAction(c)
      BY <2>2
    <3>3. ~InFailover(c)' /\ \A d \in Checks \ {c} : checker'[d] = checker[d]
      BY <1>1, <3>2, ChainEnds DEF InFailover
    <3>. QED BY <1>1, <2>2, <3>1, <3>3, FailoverKept
  <2>3. CASE ActionReboot(c) \/ RestartPPPoEKill(c) \/ RestartPPPoECall(c) \/ ActionUnknown(c)
    BY <1>1, <2>3, FailoverOther DEF RunsAction
  <2>. QED BY <2>1, <2>2, <2>3, Zenon
<1>. QED BY <1>4, <1>7, <1>8, <1>9, HealthPartsNext

\* The operator, the phone, the clock and the stop of the server.
LEMMA OutsideInv ==
    ASSUME HealthInv,
           \/ HealthTick \/ HealthStop \/ PhonePlug \/ Activate \/ Deactivate \/ UNCHANGED healthVars
           \/ \E b \in BOOLEAN : SetUSBEnabled(b) \/ HandleUSBAutoFailover(b)
    PROVE  HealthInv'
<1>. USE DEF HealthTick, HealthStop, PhonePlug, Activate, ActivateLease, ActivateRoute, ActivateFlag,
             Deactivate, DeactivateRoute, DeactivateFlag, SetUSBEnabled, SetEnabled,
             HandleUSBAutoFailover, SetAutoFailover, healthLinkVars, healthHistory, healthVars
<1>1. ChecksOK /\ RestOK /\ DownIsTemporary /\ FailoverOK
  BY HealthParts
<1>2. /\ UNCHANGED <<checker, checkResult, earned, heldUntil, wanLink, pppd, rebooting, cutShort, movedAgainst>>
      /\ healthClock' \in {healthClock, healthClock + 1}
  OBVIOUS
<1>3. cancelled' \in BOOLEAN
  BY <1>1, Zenon DEF RestOK
<1>4. usb' \in [enabled : BOOLEAN, auto : BOOLEAN, phone : BOOLEAN, route : BOOLEAN, active : BOOLEAN]
  BY <1>1, Zenon DEF RestOK
<1>5. RestOK'
  BY ONLY <1>1, <1>2, <1>3, <1>4 DEF RestOK
<1>6. FailoverOK'
  <2>1. CASE \E b \in BOOLEAN : SetUSBEnabled(b) \/ HandleUSBAutoFailover(b)
    BY <1>1, <1>2, <2>1, SwitchKeeps, Zenon
  <2>2. CASE ~\E b \in BOOLEAN : SetUSBEnabled(b) \/ HandleUSBAutoFailover(b)
    <3>1. tooLate' = tooLate /\ usb'.enabled = usb.enabled /\ usb'.auto = usb.auto
      BY <1>1, <2>2 DEF RestOK
    <3>. QED BY <1>1, <1>2, <3>1 DEF FailoverOK, InFailover
  <2>. QED BY <2>1, <2>2
<1>. QED BY <1>1, <1>2, <1>5, <1>6, NoCheckMoves, DownStays, HealthPartsNext

\* HandleReset touches the counters of one check.
LEMMA ResetInv ==
    ASSUME HealthInv, NEW c \in Checks, HandleReset(c) PROVE HealthInv'
<1>1. ChecksOK /\ RestOK /\ DownIsTemporary /\ FailoverOK
  BY HealthParts
<1>2. UNCHANGED <<wanLink, pppd, usb, cancelled, rebooting, cutShort, tooLate, movedAgainst, checker>>
  BY DEF HandleReset, healthLinkVars
<1>3. RestOK'
  BY <1>1, <1>2 DEF RestOK
<1>4. FailoverOK'
  BY <1>1, <1>2 DEF FailoverOK, InFailover
<1>. QED BY <1>1, <1>2, <1>3, <1>4, HandleResetStep, DownStays, HealthPartsNext

\* A service that has just started has counted nothing.
LEMMA HealthStart == HealthInit => HealthInv
<1>. SUFFICES ASSUME HealthInit PROVE HealthInv
  OBVIOUS
<1>1. \A c \in Checks : checker[c] = [pc |-> "idle", at |-> 1] /\ checkResult[c] = [fails |-> 0, until |-> 0]
  BY Zenon DEF HealthInit, CheckIdle
<1>2. CheckTypes
  BY DEF HealthInit, CheckIdle, CheckTypes, CheckType, ResultType
<1>3. ASSUME NEW c \in Checks PROVE CheckOK(c)
  <2>1. /\ checker[c].pc = "idle" /\ checkResult[c].fails = 0 /\ checkResult[c].until = 0
        /\ earned[c] = 0 /\ heldUntil[c] = 0 /\ healthClock = 0
    BY <1>1 DEF HealthInit
  <2>. QED BY ONLY <2>1, HealthConstants DEF CheckOK, CheckInv, Acting
<1>4. RestOK
  BY Zenon DEF HealthInit, RestOK
<1>5. DownIsTemporary
  BY DEF HealthInit, DownIsTemporary
<1>6. FailoverOK
  BY <1>1 DEF FailoverOK, InFailover
<1>. QED BY <1>2, <1>3, <1>4, <1>5, <1>6, HealthParts DEF ChecksOK

\* HealthInv is inductive.
LEMMA HealthInvariance == HealthSpec => []HealthInv
<1>1. HealthInv /\ [HealthNext]_healthVars => HealthInv'
  BY ProbeInv, RestartInterfaceInv, OtherActionInv, OutsideInv, ResetInv
  DEF HealthNext, ExecuteActions, RunAction
<1>. QED BY <1>1, HealthStart, PTL DEF HealthSpec

\* Whatever the checks, the operator and the phone do, a check acts only on
\* failures it counted since the last action that worked, rests through its
\* cooldown, brings the interface up again that it took down, and takes the
\* phone's link only when that was allowed as the failover began, or is still
\* (executeCheck, executeActions, actionFailoverUSB).
THEOREM RecoveryIsSound == HealthSpec => []HealthSound
<1>1. HealthInv => HealthSound
  BY DEF HealthInv, HealthSound, ActionsEarned, CooldownHolds, CheckInv
<1>. QED BY <1>1, HealthInvariance, PTL

\* The type invariant holds as well: executeActions stays within the actions of
\* its check, and no cooldown is longer than the configured one.
THEOREM RecoveryTypes == HealthSpec => []HealthTypeOK
<1>1. HealthInv => HealthTypeOK
  BY DEF HealthInv
<1>. QED BY <1>1, HealthInvariance, PTL

=============================================================================
