---------------------------- MODULE UpdateGuard -----------------------------
(* Over-the-air updates: UpdateService (internal/services/update.go), which   *)
(* installs a release and waits for the operator, and the guard               *)
(* (cmd/lankeeper/update_guard.go), a transient systemd unit that runs the    *)
(* backed-up binary and puts it back when nobody confirmed in time.           *)
(*                                                                            *)
(* The service's operations run under UpdateService.mu, but the guard is      *)
(* another process and takes no lock, and an update ends by restarting the    *)
(* service that performs it: every command an operation issues is a step.     *)
EXTENDS Naturals

CONSTANTS
    MaxVersion,   \* bound: releases are the versions 1..MaxVersion
    NotStarting,  \* releases that install, report their version and never serve
    Faults        \* what a run lets go wrong, a subset of FaultKinds

\* "late": the operator acts while the guard is at work; "second": a newer
\* release is applied while one is pending; "cmd": a command of the agent (cp,
\* rm, systemctl) fails; "disk": a write, copy or removal by the service or the
\* guard itself fails; "torn": a copy cut short leaves half a binary; "gap": the
\* web process dies; "reboot": the device restarts.
FaultKinds == {"late", "second", "cmd", "disk", "torn", "gap", "reboot"}

Versions == 1..MaxVersion

ASSUME UpdateAssumption ==
    /\ MaxVersion \in Nat \ {0}
    /\ NotStarting \subseteq Versions \ {1}
    /\ Faults \subseteq FaultKinds

VARIABLES
    bin,       \* /usr/local/bin/lankeeper
    bak,       \* /usr/local/bin/lankeeper.bak
    state,     \* update-state.json
    archives,  \* versions whose pre-update config snapshot is on disk
    running,   \* version of the web process, None while it is down
    mem,       \* its pendingVersion and configSnapshot fields
    op,        \* where the holder of UpdateService.mu is
    target,    \* the update ApplyUpdate is installing
    unit,      \* the transient unit: "idle", "armed", "fired" or "failed"
    guard,     \* the guard's next step
    copy,      \* the temporary file replaceFile fills from the backup
    accepted   \* history: the version the operator last accepted

files == <<bin, bak, state, archives>>
service == <<running, mem, op, target>>
systemd == <<unit, guard, copy>>
vars == <<files, service, systemd, accepted>>

None == 0
Partial == MaxVersion + 1
Binaries == Versions \cup {None, Partial}

\* An updateState: the version, and whether a config snapshot was exported.
Update(v, exported) == [version |-> v, exported |-> exported]
Updates == {Update(v, e) : v \in Versions, e \in BOOLEAN}
NoUpdate == Update(None, FALSE)
TornUpdate == Update(Partial, FALSE)

May(fault, outcomes) == IF fault \in Faults THEN outcomes ELSE {}

\* What cp -f from a to b leaves in b: when it succeeds, and when it fails.
Copied(a) == IF a = None THEN {} ELSE {a}
NotCopied(a, b) ==
    IF a = None THEN {b} ELSE May("cmd", {b} \cup May("torn", {Partial}))

\* restoreBinary forgotten: what was installed stays.
RestoredNot(b) == {b}

\* restoreBinary with b installed: best effort.
Restored(b) == Copied(bak) \cup NotCopied(bak, b)

\* rm -f, whose failure is logged.
Removed(new, old) == {new} \cup May("cmd", {old})

Init ==
    /\ bin = 1 /\ bak = None /\ state = NoUpdate /\ archives = {}
    /\ running = 1 /\ mem = NoUpdate /\ op = "idle" /\ target = NoUpdate
    /\ unit = "idle" /\ guard = "idle" /\ copy = None
    /\ accepted = 1

\* A request can take UpdateService.mu; the guard is not at work, or the run
\* lets the operator be late.
CanLock ==
    /\ running # None /\ op = "idle"
    /\ unit = "fired" => "late" \in Faults

-----------------------------------------------------------------------------
(* ApplyUpdate.  The page offers a release newer than the running version and *)
(* does not look for a pending one.                                           *)

Offered(v) == CanLock /\ v > running /\ (mem # NoUpdate => "second" \in Faults)

\* snapshotConfig: a failed export removes what it wrote, and the update goes on.
SnapshotConfig(v, exported) ==
    IF exported THEN archives' = archives \cup {v}
    ELSE archives' \in {archives \ {v}} \cup May("cmd", {archives \cup {v}})

\* The download, the checksum or the extraction fails after the snapshot.
ApplyRefused(v, exported) ==
    /\ Offered(v)
    /\ SnapshotConfig(v, exported)
    /\ UNCHANGED <<bin, bak, state, service, systemd, accepted>>

\* installBinary: the installed binary is copied to the backup path.
ApplyBackup(v, exported) ==
    /\ Offered(v)
    /\ SnapshotConfig(v, exported)
    /\ \/ bak' \in Copied(bin) /\ op' = "apply.backed" /\ target' = Update(v, exported)
       \/ bak' \in NotCopied(bin, bak) /\ UNCHANGED <<op, target>>
    /\ UNCHANGED <<bin, state, running, mem, systemd, accepted>>

\* The new binary is copied over it; a failure restores the backup.
ApplyInstall ==
    /\ op = "apply.backed"
    /\ \/ bin' = target.version /\ op' = "apply.installed"
       \/ /\ bin' \in Restored(bin) \cup May("torn", Restored(Partial))
          /\ op' = "idle"
    /\ UNCHANGED <<bak, state, archives, running, mem, target, systemd, accepted>>

\* chmod and the version check; a failure restores the backup.
ApplyVerify ==
    /\ op = "apply.installed"
    /\ \/ bin = target.version /\ op' = "apply.verified" /\ UNCHANGED bin
       \/ bin' \in Restored(bin) /\ op' = "idle"
    /\ UNCHANGED <<bak, state, archives, running, mem, target, systemd, accepted>>

\* saveUpdateState, then the fields; a failure restores the backup.
ApplySave ==
    /\ op = "apply.verified"
    /\ \/ /\ state' = target /\ mem' = target
          /\ op' = "apply.saved"
          /\ UNCHANGED bin
       \/ /\ state' \in {state} \cup May("disk", {TornUpdate})
          /\ bin' \in Restored(bin)
          /\ op' = "idle"
          /\ UNCHANGED mem
    /\ UNCHANGED <<bak, archives, running, target, systemd, accepted>>

\* armUpdateGuard: systemd-run fails while a unit of that name is loaded (or for
\* a reason of its own).  A failure restores the backup and forgets the update.
ApplyArm ==
    /\ op = "apply.saved"
    /\ \/ /\ unit = "idle" /\ unit' = "armed"
          /\ op' = "apply.armed"
          /\ UNCHANGED <<bin, state, mem>>
       \/ /\ bin' \in Restored(bin)
          /\ state' \in {NoUpdate} \cup May("disk", {state})
          /\ mem' = NoUpdate
          /\ op' = "idle"
          /\ UNCHANGED unit
    /\ UNCHANGED <<bak, archives, running, target, guard, copy, accepted>>

\* The process stops, and a cp its request started is killed with the agent's
\* control group.
Stopped ==
    /\ running' = None /\ mem' = NoUpdate /\ op' = "idle"
    /\ bin' \in {bin} \cup (IF op \in {"apply.backed", "rollback.stopped"}
                            THEN May("torn", {Partial}) ELSE {})

\* systemctl restart, the last command of ApplyUpdate and of Rollback; a
\* failure is logged.
Restart ==
    /\ op \in {"apply.armed", "rollback.cleared"}
    /\ \/ Stopped
       \/ "cmd" \in Faults /\ op' = "idle" /\ UNCHANGED <<running, mem, bin>>
    /\ UNCHANGED <<bak, state, archives, target, systemd, accepted>>

\* systemd starts the installed binary; restorePendingUpdate reads the state.
Start ==
    /\ running = None
    /\ bin \in Versions \ NotStarting
    /\ running' = bin
    /\ mem' = IF state \in Updates THEN state ELSE NoUpdate
    /\ UNCHANGED <<files, op, target, systemd, accepted>>

-----------------------------------------------------------------------------
(* ConfirmUpdate, which does not ask whether an update is pending, and        *)
(* Rollback, which does.                                                      *)

\* stopUpdateGuard that would also stop a guard already running.
StopTimerAndGuard == unit' = "idle"

\* stopUpdateGuard stops the timer, not a guard that already runs; a failure is
\* logged.
StopTimer ==
    unit' \in Removed(IF unit = "armed" THEN "idle" ELSE unit, unit)

ConfirmStop ==
    /\ CanLock
    /\ StopTimer
    /\ op' = "confirm.stopped"
    /\ UNCHANGED <<files, running, mem, target, guard, copy, accepted>>

\* The backup and the config snapshot of the pending update are removed.
RemoveBackup ==
    /\ bak' \in Removed(None, bak)
    /\ archives' \in IF mem.exported THEN Removed(archives \ {mem.version}, archives)
                     ELSE {archives}

ConfirmRemove ==
    /\ op = "confirm.stopped"
    /\ IF mem = NoUpdate THEN UNCHANGED <<bak, archives>> ELSE RemoveBackup
    /\ op' = "confirm.removed"
    /\ UNCHANGED <<bin, state, running, mem, target, systemd, accepted>>

\* clearUpdateState and resetPendingUpdate: the update is accepted.
ConfirmClear ==
    /\ op = "confirm.removed"
    /\ state' \in {NoUpdate} \cup May("disk", {state})
    /\ mem' = NoUpdate
    /\ accepted' = IF mem = NoUpdate THEN accepted ELSE mem.version
    /\ op' = "idle"
    /\ UNCHANGED <<bin, bak, archives, running, target, systemd>>

RollbackStop ==
    /\ CanLock
    /\ mem # NoUpdate
    /\ StopTimer
    /\ op' = "rollback.stopped"
    /\ UNCHANGED <<files, running, mem, target, guard, copy, accepted>>

\* The backup is copied over the binary; a failure ends the request with the
\* timer stopped and the update still pending.
RollbackCopy ==
    /\ op = "rollback.stopped"
    /\ \/ bin' \in Copied(bak) /\ op' = "rollback.copied"
       \/ bin' \in NotCopied(bak, bin) /\ op' = "idle"
    /\ UNCHANGED <<bak, state, archives, running, mem, target, systemd, accepted>>

RollbackRemove ==
    /\ op = "rollback.copied"
    /\ RemoveBackup
    /\ op' = "rollback.removed"
    /\ UNCHANGED <<bin, state, running, mem, target, systemd, accepted>>

\* RollbackClear that forgets the update in memory only.
RollbackClearMemory ==
    /\ op = "rollback.removed"
    /\ mem' = NoUpdate
    /\ op' = "rollback.cleared"
    /\ UNCHANGED <<files, running, target, systemd, accepted>>

\* clearUpdateState and resetPendingUpdate.
RollbackClear ==
    /\ op = "rollback.removed"
    /\ state' \in {NoUpdate} \cup May("disk", {state})
    /\ mem' = NoUpdate
    /\ op' = "rollback.cleared"
    /\ UNCHANGED <<bin, bak, archives, running, target, systemd, accepted>>

-----------------------------------------------------------------------------
(* The guard.  A unit that fails stays loaded until the next boot.            *)

\* UnitFires when the unit ran the installed binary instead of the backup.
UnitFiresInstalled ==
    /\ unit = "armed"
    /\ IF bin \in Versions \ NotStarting
       THEN unit' = "fired" /\ guard' = "stat"
       ELSE unit' = "failed" /\ UNCHANGED guard
    /\ UNCHANGED <<files, service, copy, accepted>>

\* The timer elapses: systemd runs the backup binary with update-guard.
UnitFires ==
    /\ unit = "armed"
    /\ IF bak \in Versions \ NotStarting
       THEN unit' = "fired" /\ guard' = "stat"
       ELSE unit' = "failed" /\ UNCHANGED guard
    /\ UNCHANGED <<files, service, copy, accepted>>

GuardExits(result) == unit' = result /\ guard' = "idle"

\* rollbackUnconfirmedUpdate: no state file means the update was accepted.
GuardStat ==
    /\ guard = "stat"
    /\ IF state = NoUpdate THEN GuardExits("idle") ELSE guard' = "open" /\ UNCHANGED unit
    /\ UNCHANGED <<files, service, copy, accepted>>

\* replaceFile: the backup is opened and copied to a temporary file ...
GuardOpen ==
    /\ guard = "open"
    /\ \/ bak # None /\ guard' = "rename" /\ copy' = bak /\ UNCHANGED unit
       \/ (bak = None \/ "disk" \in Faults) /\ GuardExits("failed") /\ UNCHANGED copy
    /\ UNCHANGED <<files, service, accepted>>

\* ... which is renamed over the binary.
GuardRename ==
    /\ guard = "rename"
    /\ bin' = copy /\ copy' = None
    /\ guard' = "removeBackup"
    /\ UNCHANGED <<bak, state, archives, service, unit, accepted>>

GuardRemoveBackup ==
    /\ guard = "removeBackup"
    /\ bak' \in {None} \cup May("disk", {bak})
    /\ guard' = "removeState"
    /\ UNCHANGED <<bin, state, archives, service, unit, copy, accepted>>

GuardRemoveState ==
    /\ guard = "removeState"
    /\ state' \in {NoUpdate} \cup May("disk", {state})
    /\ guard' = "restart"
    /\ UNCHANGED <<bin, bak, archives, service, unit, copy, accepted>>

\* restartTarget: systemctl restart lankeeper.target.
GuardRestart ==
    /\ guard = "restart"
    /\ \/ GuardExits("idle") /\ Stopped
       \/ "cmd" \in Faults /\ GuardExits("failed") /\ UNCHANGED <<running, mem, op, bin>>
    /\ UNCHANGED <<bak, state, archives, target, copy, accepted>>

-----------------------------------------------------------------------------

Crash ==
    /\ "gap" \in Faults
    /\ running # None
    /\ Stopped
    /\ UNCHANGED <<bak, state, archives, target, systemd, accepted>>

\* A transient unit does not survive the boot.
Reboot ==
    /\ "reboot" \in Faults
    /\ Stopped
    /\ unit' = "idle" /\ guard' = "idle" /\ copy' = None
    /\ UNCHANGED <<bak, state, archives, target, accepted>>

ServiceStep ==
    \/ ApplyInstall \/ ApplyVerify \/ ApplySave \/ ApplyArm \/ Restart
    \/ ConfirmRemove \/ ConfirmClear
    \/ RollbackCopy \/ RollbackRemove \/ RollbackClear

GuardStep ==
    \/ GuardStat \/ GuardOpen \/ GuardRename
    \/ GuardRemoveBackup \/ GuardRemoveState \/ GuardRestart

Next ==
    \/ \E v \in Versions, exported \in BOOLEAN : ApplyRefused(v, exported) \/ ApplyBackup(v, exported)
    \/ ConfirmStop \/ RollbackStop
    \/ ServiceStep
    \/ UnitFires \/ GuardStep
    \/ Start \/ Crash \/ Reboot

\* Requests and the guard go on once started, the timer elapses, and systemd
\* starts a binary that can start (Restart=always).  The operator may never act.
Fairness ==
    /\ WF_vars(ServiceStep) /\ WF_vars(GuardStep)
    /\ WF_vars(UnitFires) /\ WF_vars(Start)

Spec == Init /\ [][Next]_vars
FairSpec == Spec /\ Fairness

-----------------------------------------------------------------------------
(* Properties.                                                                *)

Ops == {"idle", "apply.backed", "apply.installed", "apply.verified", "apply.saved",
        "apply.armed", "confirm.stopped", "confirm.removed", "rollback.stopped",
        "rollback.copied", "rollback.removed", "rollback.cleared"}
GuardSteps == {"idle", "stat", "open", "rename", "removeBackup", "removeState", "restart"}

\* Every variable keeps its type; the guard runs exactly while its unit is
\* active, a process that is down holds neither the lock nor an update, and
\* what is being installed is a release.
TypeOK ==
    /\ bin \in Binaries \ {None} /\ bak \in Binaries
    /\ state \in Updates \cup {NoUpdate, TornUpdate} /\ archives \subseteq Versions
    /\ running \in (Versions \ NotStarting) \cup {None}
    /\ mem \in Updates \cup {NoUpdate} /\ target \in Updates \cup {NoUpdate}
    /\ op \in Ops /\ guard \in GuardSteps /\ copy \in Binaries
    /\ unit \in {"idle", "armed", "fired", "failed"}
    /\ accepted \in Versions
    /\ guard # "idle" <=> unit = "fired"
    /\ guard = "rename" <=> copy # None
    /\ running = None => op = "idle" /\ mem = NoUpdate
    /\ op \in {"apply.backed", "apply.installed", "apply.verified"} => target \in Updates

\* Nobody is in the middle of an update, a confirmation or a rollback.
Quiet == op = "idle" /\ guard = "idle"

\* "a pending version always comes with the backup that belongs to it"
\* (Rollback): between operations, a recorded update has as its backup the
\* version the operator last accepted.
PendingHasBackup == Quiet /\ state # NoUpdate => bak = accepted

\* An installed release the operator has not accepted is watched: its guard is
\* armed or at work, or the operation that will arm or undo it is still going
\* ("A transient systemd unit running the previous binary survives the restart
\* and owns the rollback", ApplyUpdate).
UnconfirmedIsWatched == Quiet /\ bin # accepted => unit = "armed"

\* An unconfirmed update has its backup and its guard (ApplyUpdate, Rollback).
UpdateIsGuarded == PendingHasBackup /\ UnconfirmedIsWatched

\* The commands work, no process dies, and the operator neither is late nor
\* applies a second release; a copy may still be cut short.
Protected == Faults \subseteq {"torn"}

\* The recorded update is installed and its backup is the accepted version.
OnTrial == state \in Updates /\ bin = state.version /\ bak = accepted

\* What the holder of UpdateService.mu relies on at each of its commands.
ServiceInv ==
    /\ op = "idle" /\ unit # "fired" => running \in {None, bin}
    /\ op = "idle" /\ unit = "idle" => bin = accepted /\ state = NoUpdate /\ mem = NoUpdate
    /\ op = "idle" /\ unit = "armed" => OnTrial /\ (running # None => mem = state)
    /\ op \in {"apply.backed", "apply.installed", "apply.verified"} =>
          /\ running = accepted /\ bak = accepted /\ state = NoUpdate /\ mem = NoUpdate
          /\ bin = IF op = "apply.backed" THEN accepted ELSE target.version
    /\ op = "apply.saved" => OnTrial /\ mem = state /\ running = accepted
    /\ op = "apply.armed" => unit # "idle" /\ (unit = "armed" => OnTrial)
    /\ op \in {"confirm.stopped", "confirm.removed"} =>
          /\ running = bin /\ mem = state
          /\ bin = IF mem = NoUpdate THEN accepted ELSE mem.version
    /\ op = "rollback.stopped" => OnTrial
    /\ op \in {"rollback.copied", "rollback.removed", "rollback.cleared"} => bin = accepted
    /\ op = "rollback.cleared" => state = NoUpdate

\* What the guard relies on: the unit is loaded only while the service waits,
\* its binary can run, and each of its commands finds what the one before left.
GuardInv ==
    /\ unit # "failed" /\ accepted \notin NotStarting
    /\ unit # "idle" => op \in {"idle", "apply.armed"}
    /\ guard \in {"stat", "open"} => OnTrial
    /\ guard = "rename" => copy = accepted
    /\ guard \in {"removeBackup", "removeState", "restart"} => bin = accepted
    /\ guard = "restart" => state = NoUpdate

\* The inductive invariant behind UpdateIsGuarded and ImplementsTrial.
IInv == TypeOK /\ (Protected => ServiceInv /\ GuardInv)

\* The guard never replaces the binary once the update was accepted: "The guard
\* also does nothing once the state file is gone" (stopUpdateGuard).
AcceptedIsLeftAlone == [][guard = "rename" /\ guard' = "removeBackup" => state # NoUpdate]_vars

\* The config archive is "removed once the update is settled" (snapshotConfig):
\* when the guard has undone an update, that update's archive is gone.
SettledLeavesNoArchive ==
    [][guard = "removeState" /\ guard' = "restart" => state.version \notin archives']_vars

\* A release the operator has not accepted does not stay: it is accepted or the
\* previous binary is put back.
EventuallySettled == (bin # accepted) ~> (bin = accepted)

\* The web process comes back after every update, also after one to a release
\* that cannot start ("runs even when the new release cannot start",
\* runUpdateGuard).
ServesAgain == (running = None) ~> (running # None)

Trial == INSTANCE GuardedTrial WITH Choices <- Versions, live <- bin, settled <- accepted

\* An update is a guarded trial: no release is installed on top of one that is
\* not settled, and what is put back is the version last accepted.
ImplementsTrial == Trial!Spec

=============================================================================
