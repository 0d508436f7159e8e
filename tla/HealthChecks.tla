---------------------------- MODULE HealthChecks ----------------------------
(* The health checks and their recovery actions (internal/services/              *)
(* healthcheck.go), and the USB failover they share with the operator            *)
(* (internal/services/usbtethering.go, handlers/network.go).                     *)
(*                                                                               *)
(* Every check has a goroutine that probes on each tick of its ticker.  The      *)
(* operator resets counters, switches the failover and moves the route.          *)
EXTENDS Naturals, Sequences

CONSTANTS
    Checks,            \* names of the configured checks
    ActionsOf,         \* the actions of each check, in order
    HasInterface,      \* the checks whose interface is configured
    FailureThreshold, Cooldown,
    MaxHealthTime,     \* bound: instants
    MaxHealthFaults,   \* bound: commands that fail
    MaxUSBEdits        \* bound: operations of the operator

ASSUME HealthAssumption ==
    /\ ActionsOf \in [Checks -> Seq({"restartInterface", "restartPppoe", "failoverUsb", "rebootSystem", "other"})]
    /\ HasInterface \subseteq Checks
    /\ {FailureThreshold, Cooldown, MaxHealthTime, MaxHealthFaults, MaxUSBEdits} \subseteq Nat

VARIABLES
    healthClock,
    checkResult,        \* per check: FailureCount and cooldownUntil
    checker,       \* per check: where its goroutine is, and at which action
    wanLink,       \* the interface the checks restart
    pppd,          \* the PPPoE daemon
    usb,           \* USBTether's switches, the phone, its default route and `active`
    activating, deactivating,   \* handlers in flight
    cancelled,     \* the context of Start
    rebooting,
    usbEdits, healthFaults,
    earned,        \* history: failed probes of a check since one succeeded or an action did
    heldUntil,     \* history: the end of the cooldown the operator has not reset
    cutShort,      \* history: the interface was left down by a failed command or a stop
    tooLate,       \* history: checks whose failover was under way when the operator turned a switch off
    movedAgainst   \* history: a failover moved the route with a switch off that was off when it began

healthVars == <<healthClock, checkResult, checker, wanLink, pppd, usb, activating, deactivating,
                cancelled, rebooting, usbEdits, healthFaults, earned, heldUntil, cutShort, tooLate, movedAgainst>>

CheckIdle == [pc |-> "idle", at |-> 1]

HealthInit ==
    /\ healthClock = 0
    /\ checkResult = [c \in Checks |-> [fails |-> 0, until |-> 0]]
    /\ checker = [c \in Checks |-> CheckIdle]
    /\ wanLink = "up" /\ pppd = "up"
    /\ usb \in [enabled : BOOLEAN, auto : BOOLEAN, phone : {TRUE}, route : {FALSE}, active : {FALSE}]
    /\ activating = "none" /\ deactivating = "none"
    /\ cancelled = FALSE /\ rebooting = FALSE
    /\ usbEdits = 0 /\ healthFaults = 0
    /\ earned = [c \in Checks |-> 0] /\ heldUntil = [c \in Checks |-> 0]
    /\ cutShort = FALSE /\ tooLate = {} /\ movedAgainst = FALSE

operatorVars == <<activating, deactivating, usbEdits>>
healthLinkVars == <<wanLink, pppd, rebooting>>
healthHistory == <<earned, heldUntil, cutShort, tooLate, movedAgainst>>

\* netutil.Run under the context of Start: it fails once that is cancelled.
CommandRuns == ~cancelled /\ UNCHANGED healthFaults
CommandFails ==
    \/ cancelled /\ UNCHANGED healthFaults
    \/ ~cancelled /\ healthFaults < MaxHealthFaults /\ healthFaults' = healthFaults + 1

HealthTick ==
    /\ healthClock < MaxHealthTime /\ healthClock' = healthClock + 1
    /\ UNCHANGED <<checkResult, checker, healthLinkVars, usb, operatorVars, cancelled, healthFaults, healthHistory>>

-----------------------------------------------------------------------------
(* One tick of a check: runCheck and executeCheck.                               *)

InCooldown(c) == healthClock < checkResult[c].until

\* executeCheck looks at the cooldown and starts to probe.
CheckTick(c) ==
    /\ checker[c].pc = "idle" /\ ~cancelled /\ ~InCooldown(c)
    /\ checker' = [checker EXCEPT ![c].pc = "probing"]
    /\ UNCHANGED <<healthClock, checkResult, healthLinkVars, usb, operatorVars, cancelled, healthFaults, healthHistory>>

\* probeTargets: some target answered.
ProbeOk(c) ==
    /\ checker[c].pc = "probing" /\ ~cancelled
    /\ checkResult' = [checkResult EXCEPT ![c].fails = 0]
    /\ checker' = [checker EXCEPT ![c] = CheckIdle]
    /\ earned' = [earned EXCEPT ![c] = 0]
    /\ UNCHANGED <<healthClock, healthLinkVars, usb, operatorVars, cancelled, healthFaults, heldUntil, cutShort, tooLate, movedAgainst>>

\* No target answered; a cancelled probe counts as well.
ProbeFails(c) ==
    LET n == checkResult[c].fails + 1
    IN  /\ checker[c].pc = "probing"
        /\ checkResult' = [checkResult EXCEPT ![c].fails = n]
        /\ earned' = [earned EXCEPT ![c] = IF @ < FailureThreshold THEN @ + 1 ELSE @]
        /\ checker' = [checker EXCEPT ![c] =
              IF FailureThreshold > 0 /\ n >= FailureThreshold /\ ActionsOf[c] # <<>>
              THEN [pc |-> "delay", at |-> 1] ELSE CheckIdle]
        /\ UNCHANGED <<healthClock, healthLinkVars, usb, operatorVars, cancelled, healthFaults, heldUntil, cutShort, tooLate, movedAgainst>>

ExecuteCheck(c) == CheckTick(c) \/ ProbeOk(c) \/ ProbeFails(c)

-----------------------------------------------------------------------------
(* executeActions: the first action that succeeds ends it with a cooldown.       *)

\* waitActionDelay.
ActionDelay(c) ==
    /\ checker[c].pc = "delay"
    /\ checker' = [checker EXCEPT ![c] = IF cancelled THEN CheckIdle ELSE [@ EXCEPT !.pc = "run"]]
    /\ UNCHANGED <<healthClock, checkResult, healthLinkVars, usb, operatorVars, cancelled, healthFaults, healthHistory>>

RunsAction(c, type) == checker[c].pc = "run" /\ ActionsOf[c][checker[c].at] = type

\* Variant: the counter keeps its value through the cooldown.
StartCooldownKeeps(c) == checkResult' = [checkResult EXCEPT ![c].until = healthClock + Cooldown]
StartCooldown(c) == checkResult' = [checkResult EXCEPT ![c] = [fails |-> 0, until |-> healthClock + Cooldown]]

RecordAction(c) ==
    /\ checker' = [checker EXCEPT ![c] = CheckIdle]
    /\ StartCooldown(c)
    /\ heldUntil' = [heldUntil EXCEPT ![c] = healthClock + Cooldown]
    /\ earned' = [earned EXCEPT ![c] = 0]
NextAction(c) ==
    /\ checker' = [checker EXCEPT ![c] =
          IF @.at < Len(ActionsOf[c]) THEN [pc |-> "delay", at |-> @.at + 1] ELSE CheckIdle]
    /\ UNCHANGED <<checkResult, heldUntil, earned>>
ActionSleeps(c) == checker' = [checker EXCEPT ![c].pc = "between"] /\ UNCHANGED <<checkResult, heldUntil, earned>>

\* actionRestartInterface: down, a sleep, up.
RestartInterfaceDown(c) ==
    /\ RunsAction(c, "restartInterface") /\ c \in HasInterface
    /\ \/ CommandRuns /\ wanLink' = "down"
       \/ CommandFails /\ UNCHANGED wanLink
    /\ ActionSleeps(c)
    /\ UNCHANGED <<healthClock, pppd, rebooting, usb, operatorVars, cancelled, cutShort, tooLate, movedAgainst>>
RestartInterfaceUp(c) ==
    /\ checker[c].pc = "between" /\ ActionsOf[c][checker[c].at] = "restartInterface"
    /\ \/ CommandRuns /\ wanLink' = "up" /\ cutShort' = FALSE /\ RecordAction(c)
       \/ CommandFails /\ cutShort' = TRUE /\ UNCHANGED wanLink /\ NextAction(c)
    /\ UNCHANGED <<healthClock, pppd, rebooting, usb, operatorVars, cancelled, tooLate, movedAgainst>>

ActionRestartInterface(c) == RestartInterfaceDown(c) \/ RestartInterfaceUp(c)

\* actionRestartPPPoE: killall, a sleep, pppd call wan.
RestartPPPoEKill(c) ==
    /\ RunsAction(c, "restartPppoe")
    /\ \/ CommandRuns /\ pppd' = "down"
       \/ CommandFails /\ UNCHANGED pppd
    /\ ActionSleeps(c)
    /\ UNCHANGED <<healthClock, wanLink, rebooting, usb, operatorVars, cancelled, cutShort, tooLate, movedAgainst>>
RestartPPPoECall(c) ==
    /\ checker[c].pc = "between" /\ ActionsOf[c][checker[c].at] = "restartPppoe"
    /\ \/ CommandRuns /\ pppd' = "up" /\ RecordAction(c)
       \/ CommandFails /\ UNCHANGED pppd /\ NextAction(c)
    /\ UNCHANGED <<healthClock, wanLink, rebooting, usb, operatorVars, cancelled, cutShort, tooLate, movedAgainst>>

ActionRestartPPPoE(c) == RestartPPPoEKill(c) \/ RestartPPPoECall(c)

IsPhoneConnected == usb.phone
\* actionFailoverUSB looks at both switches and the phone once, before it asks for a lease.
FailoverAllowed == usb.enabled /\ usb.auto /\ IsPhoneConnected
InFailover(c) == checker[c].pc = "between" /\ ActionsOf[c][checker[c].at] = "failoverUsb"

FailoverUSBLease(c) ==
    /\ RunsAction(c, "failoverUsb")
    /\ \/ FailoverAllowed /\ CommandRuns /\ ActionSleeps(c)
       \/ FailoverAllowed /\ CommandFails /\ NextAction(c)
       \/ ~FailoverAllowed /\ NextAction(c) /\ UNCHANGED healthFaults
    /\ UNCHANGED <<healthClock, healthLinkVars, usb, operatorVars, cancelled, cutShort, tooLate, movedAgainst>>
\* The lease is there and the route moves, whatever the switches say by now.
FailoverUSBRoute(c) ==
    /\ InFailover(c) /\ tooLate' = tooLate \ {c}
    /\ \/ /\ usb.phone /\ CommandRuns /\ usb' = [usb EXCEPT !.route = TRUE] /\ RecordAction(c)
          /\ movedAgainst' = (movedAgainst \/ (~(usb.enabled /\ usb.auto) /\ c \notin tooLate))
       \/ /\ IF usb.phone THEN CommandFails ELSE UNCHANGED healthFaults
          /\ NextAction(c) /\ UNCHANGED <<usb, movedAgainst>>
    /\ UNCHANGED <<healthClock, healthLinkVars, operatorVars, cancelled, cutShort>>

ActionFailoverUSB(c) == FailoverUSBLease(c) \/ FailoverUSBRoute(c)

ActionReboot(c) ==
    /\ RunsAction(c, "rebootSystem")
    /\ \/ CommandRuns /\ rebooting' = TRUE /\ RecordAction(c)
       \/ CommandFails /\ UNCHANGED rebooting /\ NextAction(c)
    /\ UNCHANGED <<healthClock, wanLink, pppd, usb, operatorVars, cancelled, cutShort, tooLate, movedAgainst>>

\* runAction of a type no handler implements, or of an interface not configured.
ActionUnknown(c) ==
    /\ RunsAction(c, "other") \/ (RunsAction(c, "restartInterface") /\ c \notin HasInterface)
    /\ NextAction(c)
    /\ UNCHANGED <<healthClock, healthLinkVars, usb, operatorVars, cancelled, healthFaults, cutShort, tooLate, movedAgainst>>

RunAction(c) ==
    ActionRestartInterface(c) \/ ActionRestartPPPoE(c) \/ ActionFailoverUSB(c) \/ ActionReboot(c)
    \/ ActionUnknown(c)
ExecuteActions(c) == ActionDelay(c) \/ RunAction(c)

-----------------------------------------------------------------------------
(* The operator.                                                                     *)

UEdit == usbEdits < MaxUSBEdits /\ usbEdits' = usbEdits + 1

ResetCounter(c) == checkResult' = [checkResult EXCEPT ![c] = [fails |-> 0, until |-> 0]]
HandleReset(c) ==
    /\ UEdit
    /\ ResetCounter(c)
    /\ heldUntil' = [heldUntil EXCEPT ![c] = 0]
    /\ UNCHANGED <<healthClock, checker, healthLinkVars, usb, activating, deactivating, cancelled, healthFaults, earned, cutShort, tooLate, movedAgainst>>

\* A switch turned off comes too late for a failover that has looked at it.
SwitchComes(b) == tooLate' = IF b THEN tooLate ELSE tooLate \cup {c \in Checks : InFailover(c)}
SetEnabled(b) == usb' = [usb EXCEPT !.enabled = b]
\* HandleUSBEnable and HandleUSBDisable.
SetUSBEnabled(b) ==
    /\ UEdit /\ SetEnabled(b) /\ SwitchComes(b)
    /\ UNCHANGED <<healthClock, checkResult, checker, healthLinkVars, activating, deactivating, cancelled, healthFaults,
                   earned, heldUntil, cutShort, movedAgainst>>
SetAutoFailover(b) == usb' = [usb EXCEPT !.auto = b]
HandleUSBAutoFailover(b) ==
    /\ UEdit /\ SetAutoFailover(b) /\ SwitchComes(b)
    /\ UNCHANGED <<healthClock, checkResult, checker, healthLinkVars, activating, deactivating, cancelled, healthFaults,
                   earned, heldUntil, cutShort, movedAgainst>>

\* Activate: the phone, its lease, the route and the flag.
ActivateLease ==
    /\ activating = "none" /\ usb.phone /\ UEdit
    /\ activating' = "route"
    /\ UNCHANGED <<healthClock, checkResult, checker, healthLinkVars, usb, deactivating, cancelled, healthFaults, healthHistory>>
ActivateRoute ==
    /\ activating = "route"
    /\ IF usb.phone THEN usb' = [usb EXCEPT !.route = TRUE] /\ activating' = "flag"
       ELSE UNCHANGED usb /\ activating' = "none"
    /\ UNCHANGED <<healthClock, checkResult, checker, healthLinkVars, deactivating, usbEdits, cancelled, healthFaults, healthHistory>>
ActivateFlag ==
    /\ activating = "flag" /\ activating' = "none"
    /\ usb' = [usb EXCEPT !.active = TRUE]
    /\ UNCHANGED <<healthClock, checkResult, checker, healthLinkVars, deactivating, usbEdits, cancelled, healthFaults, healthHistory>>

Activate == ActivateLease \/ ActivateRoute \/ ActivateFlag

\* Deactivate: the route, then the flag.
DeactivateRoute ==
    /\ deactivating = "none" /\ UEdit
    /\ deactivating' = "flag"
    /\ usb' = [usb EXCEPT !.route = FALSE]
    /\ UNCHANGED <<healthClock, checkResult, checker, healthLinkVars, activating, cancelled, healthFaults, healthHistory>>
DeactivateFlag ==
    /\ deactivating = "flag" /\ deactivating' = "none"
    /\ usb' = [usb EXCEPT !.active = FALSE]
    /\ UNCHANGED <<healthClock, checkResult, checker, healthLinkVars, activating, usbEdits, cancelled, healthFaults, healthHistory>>

Deactivate == DeactivateRoute \/ DeactivateFlag

\* The cable: the kernel drops the interface's routes with it.  It moves at any time
\* between an activation's lease and its route, so these moves are not counted.
PhonePlug ==
    /\ UEdit \/ (activating = "route" /\ UNCHANGED usbEdits)
    /\ usb' = [usb EXCEPT !.phone = ~@, !.route = @ /\ ~usb.phone]
    /\ UNCHANGED <<healthClock, checkResult, checker, healthLinkVars, activating, deactivating, cancelled, healthFaults, healthHistory>>

\* The server stops: every check's context ends.
HealthStop ==
    /\ ~cancelled /\ cancelled' = TRUE
    /\ UNCHANGED <<healthClock, checkResult, checker, healthLinkVars, usb, operatorVars, healthFaults, healthHistory>>

HealthNext ==
    \/ HealthTick \/ HealthStop \/ PhonePlug
    \/ \E c \in Checks :
          ExecuteCheck(c) \/ ExecuteActions(c) \/ HandleReset(c)
    \/ \E b \in BOOLEAN : SetUSBEnabled(b) \/ HandleUSBAutoFailover(b)
    \/ Activate \/ Deactivate

HealthSpec == HealthInit /\ [][HealthNext]_healthVars

-----------------------------------------------------------------------------
Acting == {"delay", "run", "between"}

\* Among the types: executeActions stays within the actions of its check, and no
\* cooldown is longer than the configured one.
HealthTypeOK ==
    /\ healthClock \in Nat
    /\ checkResult \in [Checks -> [fails : Nat, until : Nat]]
    /\ checker \in [Checks -> [pc : {"idle", "probing"} \cup Acting, at : Nat]]
    /\ \A c \in Checks :
          /\ checkResult[c].until <= healthClock + Cooldown
          /\ checker[c].pc \in Acting => checker[c].at \in 1..Len(ActionsOf[c])
    /\ wanLink \in {"up", "down"} /\ pppd \in {"up", "down"}
    /\ usb \in [enabled : BOOLEAN, auto : BOOLEAN, phone : BOOLEAN, route : BOOLEAN, active : BOOLEAN]
    /\ cancelled \in BOOLEAN /\ rebooting \in BOOLEAN

\* A check acts only after FailureThreshold probes failed in a row, all of them
\* after the last action that worked: an action never brings the next one closer.
ActionsEarned ==
    \A c \in Checks : checker[c].pc \in Acting => earned[c] >= FailureThreshold

\* After an action worked the check is left alone until the cooldown has passed
\* or the operator resets it.
CooldownHolds ==
    \A c \in Checks : checker[c].pc # "idle" => healthClock >= heldUntil[c]

\* The interface is down only while some check is about to bring it up again,
\* also when two checks restart it at the same time; unless the command failed or
\* the server stopped in between.
DownIsTemporary ==
    wanLink = "down" =>
        \/ cutShort
        \/ \E c \in Checks : checker[c].pc = "between" /\ ActionsOf[c][checker[c].at] = "restartInterface"

\* "The operator's switches decide whether the chain may move the default route":
\* it moves with a switch off only when the operator turned it off while that very
\* failover was waiting for its lease. A later failover, of this check or another, a
\* switch turned off before it began or a chain that skipped actions does not.
FailoverOnlyAllowed == ~movedAgainst

\* What the recovery chain promises together.
HealthSound == ActionsEarned /\ CooldownHolds /\ DownIsTemporary /\ FailoverOnlyAllowed

\* Why it is so, for one check: a counted failure was earned, up to the threshold,
\* and the cooldown that is held is the one executeCheck looks at.
CheckInv(c) ==
    /\ earned[c] >= FailureThreshold \/ checkResult[c].fails <= earned[c]
    /\ checker[c].pc \in Acting => earned[c] >= FailureThreshold
    /\ heldUntil[c] <= checkResult[c].until
    /\ checker[c].pc # "idle" => healthClock >= heldUntil[c]

HealthInv ==
    /\ HealthTypeOK /\ DownIsTemporary /\ FailoverOnlyAllowed /\ movedAgainst \in BOOLEAN
    /\ \A c \in Checks : InFailover(c) => (usb.enabled /\ usb.auto) \/ c \in tooLate
    /\ earned \in [Checks -> Nat] /\ heldUntil \in [Checks -> Nat]
    /\ \A c \in Checks : CheckInv(c)

=============================================================================
