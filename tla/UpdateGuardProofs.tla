------------------------- MODULE UpdateGuardProofs --------------------------
EXTENDS UpdateGuard, TLAPS

(* IInv is inductive: TypeOK whatever goes wrong, ServiceInv and GuardInv      *)
(* when only a copy may be cut short.  From it follow UpdateIsGuarded and the  *)
(* refinement of GuardedTrial, for any number of releases and whichever of     *)
(* them cannot start.  One lemma per action shows that it preserves IInv.      *)

-----------------------------------------------------------------------------

\* The versions, the missing binary and the half binary are told apart, and so
\* are the recorded updates, no update and a torn state file (updateState).
LEMMA UpdateFacts ==
    /\ None \notin Versions /\ Partial \notin Versions /\ None # Partial
    /\ 1 \in Versions
    /\ \A u \in Updates : u.version \in Versions /\ u.exported \in BOOLEAN
    /\ NoUpdate \notin Updates /\ TornUpdate \notin Updates /\ NoUpdate # TornUpdate
    /\ \A v \in Versions, e \in BOOLEAN : Update(v, e) \in Updates
<1>1. /\ None \notin Versions /\ Partial \notin Versions /\ None # Partial
      /\ 1 \in Versions
  BY UpdateAssumption DEF Versions, None, Partial
<1>2. \A u \in Updates : u.version \in Versions /\ u.exported \in BOOLEAN
  BY DEF Updates, Update
<1>3. NoUpdate.version = None /\ TornUpdate.version = Partial
  BY DEF NoUpdate, TornUpdate, Update
<1>. QED BY <1>1, <1>2, <1>3 DEF Updates

\* The outcomes of cp -f and of restoreBinary with a backup that is there.
LEMMA CopyFacts ==
    ASSUME NEW a \in Binaries, NEW b \in Binaries
    PROVE  /\ Copied(a) \subseteq Binaries \ {None}
           /\ NotCopied(a, b) \subseteq {b, Partial}
           /\ a # None /\ Protected => Copied(a) = {a} /\ NotCopied(a, b) = {}
<1>1. Protected => "cmd" \notin Faults
  BY DEF Protected
<1>. QED BY <1>1, UpdateFacts DEF Copied, NotCopied, May, Binaries

LEMMA RestoreFacts ==
    ASSUME TypeOK, NEW b \in Binaries
    PROVE  /\ Restored(b) \subseteq {bak, b, Partial}
           /\ None \in Restored(b) => b = None
           /\ bak # None /\ Protected => Restored(b) = {bak}
<1>1. bak \in Binaries
  BY DEF TypeOK
<1>2. Copied(bak) \subseteq {bak} \ {None}
  BY DEF Copied
<1>. QED BY <1>1, <1>2, CopyFacts, UpdateFacts DEF Restored

\* The config snapshot is one of the versions' (snapshotConfig).
LEMMA SnapshotFacts ==
    ASSUME TypeOK, NEW v \in Versions, NEW exported \in BOOLEAN, SnapshotConfig(v, exported)
    PROVE  archives' \subseteq Versions
<1>1. CASE exported
  BY <1>1 DEF SnapshotConfig, TypeOK
<1>2. CASE ~exported
  BY <1>2 DEF SnapshotConfig, TypeOK, May
<1>. QED BY <1>1, <1>2

\* A stop leaves a binary or half of one.
LEMMA StoppedFacts ==
    ASSUME TypeOK, Stopped
    PROVE  bin' \in Binaries \ {None}
  BY UpdateFacts DEF TypeOK, Stopped, May, Binaries


\* A refused download changes the archives only.
LEMMA ApplyRefusedStep ==
    ASSUME IInv, NEW v \in Versions, NEW exported \in BOOLEAN, ApplyRefused(v, exported)
    PROVE  IInv'
<1>0. archives' \subseteq Versions
  BY SnapshotFacts DEF IInv, ApplyRefused
<1>. USE DEF IInv, TypeOK, ApplyRefused, Offered, CanLock, service, systemd
<1>1. TypeOK'
  BY <1>0, UpdateFacts DEF Ops, GuardSteps, Binaries
<1>2. ASSUME Protected PROVE ServiceInv'
  BY <1>2, <1>0, UpdateFacts DEF Protected, ServiceInv, GuardInv, OnTrial, May
<1>3. ASSUME Protected PROVE GuardInv'
  BY <1>3, <1>0, UpdateFacts DEF Protected, ServiceInv, GuardInv, OnTrial, May
<1>. QED BY <1>1, <1>2, <1>3 DEF Protected

\* The backup is taken of the accepted binary, because nothing is pending.
LEMMA ApplyBackupStep ==
    ASSUME IInv, NEW v \in Versions, NEW exported \in BOOLEAN, ApplyBackup(v, exported)
    PROVE  IInv'
<1>0. /\ archives' \subseteq Versions
      /\ Copied(bin) \subseteq Binaries \ {None} /\ NotCopied(bin, bak) \subseteq Binaries
      /\ Protected => Copied(bin) = {bin} /\ NotCopied(bin, bak) = {}
  <2>1. bin \in Binaries \ {None} /\ bak \in Binaries /\ Partial \in Binaries
    BY DEF IInv, TypeOK, Binaries
  <2>. QED BY <2>1, SnapshotFacts, CopyFacts DEF IInv, ApplyBackup
<1>. USE DEF IInv, TypeOK, ApplyBackup, Offered, CanLock, systemd
<1>1. TypeOK'
  BY <1>0, UpdateFacts, Zenon DEF Ops, GuardSteps, May
<1>2. ASSUME Protected PROVE ServiceInv'
  BY <1>2, <1>0, UpdateFacts, Zenon DEF Protected, ServiceInv, GuardInv, OnTrial, May
<1>3. ASSUME Protected PROVE GuardInv'
  BY <1>3, <1>0, UpdateFacts, Zenon DEF Protected, ServiceInv, GuardInv, OnTrial, May
<1>. QED BY <1>1, <1>2, <1>3 DEF Protected

\* A failed installation puts the backup back.
LEMMA ApplyInstallStep ==
    ASSUME IInv, ApplyInstall
    PROVE  IInv'
<1>0. /\ \A b \in {bin, Partial} : Restored(b) \subseteq Binaries \ {None}
      /\ bak # None /\ Protected => \A b \in {bin, Partial} : Restored(b) = {bak}
  <2>1. bin \in Binaries \ {None} /\ Partial \in Binaries \ {None} /\ bak \in Binaries
    BY UpdateFacts DEF IInv, TypeOK, Binaries
  <2>. QED BY <2>1, RestoreFacts DEF IInv
<1>. USE DEF IInv, TypeOK, ApplyInstall, systemd
<1>1. TypeOK'
  <2>1. bin' \in Binaries \ {None}
    BY <1>0, UpdateFacts DEF Binaries, May
  <2>. QED BY <2>1 DEF Ops
<1>2. ASSUME Protected PROVE ServiceInv'
  BY <1>2, <1>0, UpdateFacts DEF Protected, ServiceInv, GuardInv, OnTrial, May
<1>3. ASSUME Protected PROVE GuardInv'
  BY <1>3, <1>0, UpdateFacts DEF Protected, ServiceInv, GuardInv, OnTrial, May
<1>. QED BY <1>1, <1>2, <1>3 DEF Protected

\* A binary that does not report its version is replaced by the backup.
LEMMA ApplyVerifyStep ==
    ASSUME IInv, ApplyVerify
    PROVE  IInv'
<1>0. /\ \A b \in {bin, Partial} : Restored(b) \subseteq Binaries \ {None}
      /\ bak # None /\ Protected => \A b \in {bin, Partial} : Restored(b) = {bak}
  <2>1. bin \in Binaries \ {None} /\ Partial \in Binaries \ {None} /\ bak \in Binaries
    BY UpdateFacts DEF IInv, TypeOK, Binaries
  <2>. QED BY <2>1, RestoreFacts DEF IInv
<1>. USE DEF IInv, TypeOK, ApplyVerify, systemd
<1>1. TypeOK'
  <2>1. bin' \in Binaries \ {None}
    BY <1>0, UpdateFacts DEF Binaries, May
  <2>. QED BY <2>1 DEF Ops
<1>2. ASSUME Protected PROVE ServiceInv'
  BY <1>2, <1>0, UpdateFacts, Zenon DEF Protected, ServiceInv, GuardInv, OnTrial, May
<1>3. ASSUME Protected PROVE GuardInv'
  BY <1>3, <1>0, UpdateFacts DEF Protected, ServiceInv, GuardInv, OnTrial, May
<1>. QED BY <1>1, <1>2, <1>3 DEF Protected

\* The update is recorded before its guard is armed.
LEMMA ApplySaveStep ==
    ASSUME IInv, ApplySave
    PROVE  IInv'
<1>0. /\ \A b \in {bin, Partial} : Restored(b) \subseteq Binaries \ {None}
      /\ bak # None /\ Protected => \A b \in {bin, Partial} : Restored(b) = {bak}
  <2>1. bin \in Binaries \ {None} /\ Partial \in Binaries \ {None} /\ bak \in Binaries
    BY UpdateFacts DEF IInv, TypeOK, Binaries
  <2>. QED BY <2>1, RestoreFacts DEF IInv
<1>. USE DEF IInv, TypeOK, ApplySave, systemd
<1>1. TypeOK'
  <2>1. bin' \in Binaries \ {None}
    BY <1>0, UpdateFacts DEF Binaries, May
  <2>2. state' \in Updates \cup {NoUpdate, TornUpdate}
    BY UpdateFacts DEF May
  <2>. QED BY <2>1, <2>2 DEF Ops
<1>2. ASSUME Protected PROVE ServiceInv'
  BY <1>2, <1>0, UpdateFacts, Zenon DEF Protected, ServiceInv, GuardInv, OnTrial, May
<1>3. ASSUME Protected PROVE GuardInv'
  BY <1>3, <1>0, UpdateFacts DEF Protected, ServiceInv, GuardInv, OnTrial, May
<1>. QED BY <1>1, <1>2, <1>3 DEF Protected

\* The guard is armed, or the update is undone and forgotten.
LEMMA ApplyArmStep ==
    ASSUME IInv, ApplyArm
    PROVE  IInv'
<1>0. /\ \A b \in {bin, Partial} : Restored(b) \subseteq Binaries \ {None}
      /\ bak # None /\ Protected => \A b \in {bin, Partial} : Restored(b) = {bak}
  <2>1. bin \in Binaries \ {None} /\ Partial \in Binaries \ {None} /\ bak \in Binaries
    BY UpdateFacts DEF IInv, TypeOK, Binaries
  <2>. QED BY <2>1, RestoreFacts DEF IInv
<1>. USE DEF IInv, TypeOK, ApplyArm
<1>1. TypeOK'
  <2>1. bin' \in Binaries \ {None}
    BY <1>0, UpdateFacts DEF Binaries, May
  <2>2. state' \in Updates \cup {NoUpdate, TornUpdate}
    BY UpdateFacts DEF May
  <2>. QED BY <2>1, <2>2 DEF Ops
<1>2. ASSUME Protected PROVE ServiceInv'
  BY <1>2, <1>0, UpdateFacts, Zenon DEF Protected, ServiceInv, GuardInv, OnTrial, May
<1>3. ASSUME Protected PROVE GuardInv'
  BY <1>3, <1>0, UpdateFacts DEF Protected, ServiceInv, GuardInv, OnTrial, May
<1>. QED BY <1>1, <1>2, <1>3 DEF Protected

\* The restart leaves a recorded update to its guard.
LEMMA RestartStep ==
    ASSUME IInv, Restart
    PROVE  IInv'
<1>0. bin' \in Binaries \ {None}
  BY StoppedFacts DEF IInv, TypeOK, Restart
<1>. USE DEF IInv, TypeOK, Restart, Stopped, systemd
<1>1. TypeOK'
  BY <1>0 DEF Ops
<1>2. ASSUME Protected PROVE ServiceInv'
  BY <1>2, <1>0, UpdateFacts, Zenon DEF Protected, ServiceInv, GuardInv, OnTrial, May
<1>3. ASSUME Protected PROVE GuardInv'
  BY <1>3, <1>0, UpdateFacts DEF Protected, ServiceInv, GuardInv, OnTrial, May
<1>. QED BY <1>1, <1>2, <1>3 DEF Protected

\* restorePendingUpdate reads what is recorded.
LEMMA StartStep ==
    ASSUME IInv, Start
    PROVE  IInv'
<1>. USE DEF IInv, TypeOK, Start, files, systemd
<1>1. TypeOK'
  BY UpdateFacts DEF Ops, GuardSteps, Binaries, May
<1>2. ASSUME Protected PROVE ServiceInv'
  BY <1>2, UpdateFacts DEF Protected, ServiceInv, GuardInv, OnTrial, May
<1>3. ASSUME Protected PROVE GuardInv'
  BY <1>3, UpdateFacts DEF Protected, ServiceInv, GuardInv, OnTrial, May
<1>. QED BY <1>1, <1>2, <1>3 DEF Protected

\* Confirming starts by stopping the timer.
LEMMA ConfirmStopStep ==
    ASSUME IInv, ConfirmStop
    PROVE  IInv'
<1>. USE DEF IInv, TypeOK, ConfirmStop, CanLock, StopTimer, Removed, files
<1>1. TypeOK'
  BY UpdateFacts DEF Ops, GuardSteps, Binaries, May
<1>2. ASSUME Protected PROVE ServiceInv'
  BY <1>2, UpdateFacts DEF Protected, ServiceInv, GuardInv, OnTrial, May
<1>3. ASSUME Protected PROVE GuardInv'
  BY <1>3, UpdateFacts DEF Protected, ServiceInv, GuardInv, OnTrial, May
<1>. QED BY <1>1, <1>2, <1>3 DEF Protected

\* The backup of an update being confirmed is not needed any more.
LEMMA ConfirmRemoveStep ==
    ASSUME IInv, ConfirmRemove
    PROVE  IInv'
<1>. USE DEF IInv, TypeOK, ConfirmRemove, RemoveBackup, Removed, systemd
<1>1. TypeOK'
  BY UpdateFacts DEF Ops, GuardSteps, Binaries, May
<1>2. ASSUME Protected PROVE ServiceInv'
  BY <1>2, UpdateFacts DEF Protected, ServiceInv, GuardInv, OnTrial, May
<1>3. ASSUME Protected PROVE GuardInv'
  BY <1>3, UpdateFacts DEF Protected, ServiceInv, GuardInv, OnTrial, May
<1>. QED BY <1>1, <1>2, <1>3 DEF Protected

\* The installed version becomes the accepted one.
LEMMA ConfirmClearStep ==
    ASSUME IInv, ConfirmClear
    PROVE  IInv'
<1>. USE DEF IInv, TypeOK, ConfirmClear, systemd
<1>1. TypeOK'
  BY UpdateFacts DEF Ops, GuardSteps, Binaries, May
<1>2. ASSUME Protected PROVE ServiceInv'
  BY <1>2, UpdateFacts DEF Protected, ServiceInv, GuardInv, OnTrial, May
<1>3. ASSUME Protected PROVE GuardInv'
  BY <1>3, UpdateFacts DEF Protected, ServiceInv, GuardInv, OnTrial, May
<1>. QED BY <1>1, <1>2, <1>3 DEF Protected

\* A rollback starts with the backup in place.
LEMMA RollbackStopStep ==
    ASSUME IInv, RollbackStop
    PROVE  IInv'
<1>. USE DEF IInv, TypeOK, RollbackStop, CanLock, StopTimer, Removed, files
<1>1. TypeOK'
  BY UpdateFacts DEF Ops, GuardSteps, Binaries, May
<1>2. ASSUME Protected PROVE ServiceInv'
  BY <1>2, UpdateFacts DEF Protected, ServiceInv, GuardInv, OnTrial, May
<1>3. ASSUME Protected PROVE GuardInv'
  BY <1>3, UpdateFacts DEF Protected, ServiceInv, GuardInv, OnTrial, May
<1>. QED BY <1>1, <1>2, <1>3 DEF Protected

\* The backup is the accepted version.
LEMMA RollbackCopyStep ==
    ASSUME IInv, RollbackCopy
    PROVE  IInv'
<1>0. /\ Copied(bak) \subseteq Binaries \ {None} /\ NotCopied(bak, bin) \subseteq Binaries \ {None}
      /\ bak # None /\ Protected => Copied(bak) = {bak} /\ NotCopied(bak, bin) = {}
  <2>1. bin \in Binaries \ {None} /\ bak \in Binaries /\ Partial \in Binaries \ {None}
    BY UpdateFacts DEF IInv, TypeOK, Binaries
  <2>. QED BY <2>1, CopyFacts
<1>. USE DEF IInv, TypeOK, RollbackCopy, systemd
<1>1. TypeOK'
  BY <1>0, UpdateFacts DEF Ops, GuardSteps, May
<1>2. ASSUME Protected PROVE ServiceInv'
  BY <1>2, <1>0, UpdateFacts, Zenon DEF Protected, ServiceInv, GuardInv, OnTrial, May
<1>3. ASSUME Protected PROVE GuardInv'
  BY <1>3, <1>0, UpdateFacts, Zenon DEF Protected, ServiceInv, GuardInv, OnTrial, May
<1>. QED BY <1>1, <1>2, <1>3 DEF Protected

\* The backup is removed once it is installed.
LEMMA RollbackRemoveStep ==
    ASSUME IInv, RollbackRemove
    PROVE  IInv'
<1>. USE DEF IInv, TypeOK, RollbackRemove, RemoveBackup, Removed, systemd
<1>1. TypeOK'
  BY UpdateFacts DEF Ops, GuardSteps, Binaries, May
<1>2. ASSUME Protected PROVE ServiceInv'
  BY <1>2, UpdateFacts DEF Protected, ServiceInv, GuardInv, OnTrial, May
<1>3. ASSUME Protected PROVE GuardInv'
  BY <1>3, UpdateFacts DEF Protected, ServiceInv, GuardInv, OnTrial, May
<1>. QED BY <1>1, <1>2, <1>3 DEF Protected

\* The record goes before the restart.
LEMMA RollbackClearStep ==
    ASSUME IInv, RollbackClear
    PROVE  IInv'
<1>. USE DEF IInv, TypeOK, RollbackClear, systemd
<1>1. TypeOK'
  BY UpdateFacts DEF Ops, GuardSteps, Binaries, May
<1>2. ASSUME Protected PROVE ServiceInv'
  BY <1>2, UpdateFacts DEF Protected, ServiceInv, GuardInv, OnTrial, May
<1>3. ASSUME Protected PROVE GuardInv'
  BY <1>3, UpdateFacts, Zenon DEF Protected, ServiceInv, GuardInv, OnTrial, May
<1>. QED BY <1>1, <1>2, <1>3 DEF Protected

\* The backup can run, because it has been accepted.
LEMMA UnitFiresStep ==
    ASSUME IInv, UnitFires
    PROVE  IInv'
<1>. USE DEF IInv, TypeOK, UnitFires, files, service
<1>1. TypeOK'
  BY DEF Ops, GuardSteps
<1>2. ASSUME Protected PROVE ServiceInv'
  BY <1>2, UpdateFacts DEF Protected, ServiceInv, GuardInv, OnTrial, May
<1>3. ASSUME Protected PROVE GuardInv'
  BY <1>3, UpdateFacts, Zenon DEF Protected, ServiceInv, GuardInv, OnTrial, May
<1>. QED BY <1>1, <1>2, <1>3 DEF Protected

\* The guard finds the record of the update it was armed for.
LEMMA GuardStatStep ==
    ASSUME IInv, GuardStat
    PROVE  IInv'
<1>. USE DEF IInv, TypeOK, GuardStat, GuardExits, files, service
<1>1. TypeOK'
  BY DEF Ops, GuardSteps
<1>2. ASSUME Protected PROVE ServiceInv'
  BY <1>2, UpdateFacts DEF Protected, ServiceInv, GuardInv, OnTrial, May
<1>3. ASSUME Protected PROVE GuardInv'
  BY <1>3, UpdateFacts, Zenon DEF Protected, ServiceInv, GuardInv, OnTrial, May
<1>. QED BY <1>1, <1>2, <1>3 DEF Protected

\* The guard copies the accepted version.
LEMMA GuardOpenStep ==
    ASSUME IInv, GuardOpen
    PROVE  IInv'
<1>. USE DEF IInv, TypeOK, GuardOpen, GuardExits, files, service
<1>1. TypeOK'
  BY DEF Ops, GuardSteps
<1>2. ASSUME Protected PROVE ServiceInv'
  BY <1>2, UpdateFacts, Zenon DEF Protected, ServiceInv, GuardInv, OnTrial, May
<1>3. ASSUME Protected PROVE GuardInv'
  BY <1>3, UpdateFacts, Zenon DEF Protected, ServiceInv, GuardInv, OnTrial, May
<1>. QED BY <1>1, <1>2, <1>3 DEF Protected

\* The guard installs the accepted version.
LEMMA GuardRenameStep ==
    ASSUME IInv, GuardRename
    PROVE  IInv'
<1>. USE DEF IInv, TypeOK, GuardRename, service
<1>1. TypeOK'
  BY UpdateFacts DEF Ops, GuardSteps, Binaries, May
<1>2. ASSUME Protected PROVE ServiceInv'
  BY <1>2, UpdateFacts, Zenon DEF Protected, ServiceInv, GuardInv, OnTrial, May
<1>3. ASSUME Protected PROVE GuardInv'
  BY <1>3, UpdateFacts DEF Protected, ServiceInv, GuardInv, OnTrial, May
<1>. QED BY <1>1, <1>2, <1>3 DEF Protected

\* The backup is removed once it is installed.
LEMMA GuardRemoveBackupStep ==
    ASSUME IInv, GuardRemoveBackup
    PROVE  IInv'
<1>. USE DEF IInv, TypeOK, GuardRemoveBackup, service
<1>1. TypeOK'
  BY UpdateFacts DEF Ops, GuardSteps, Binaries, May
<1>2. ASSUME Protected PROVE ServiceInv'
  BY <1>2, UpdateFacts DEF Protected, ServiceInv, GuardInv, OnTrial, May
<1>3. ASSUME Protected PROVE GuardInv'
  BY <1>3, UpdateFacts DEF Protected, ServiceInv, GuardInv, OnTrial, May
<1>. QED BY <1>1, <1>2, <1>3 DEF Protected

\* The record is removed after the backup.
LEMMA GuardRemoveStateStep ==
    ASSUME IInv, GuardRemoveState
    PROVE  IInv'
<1>. USE DEF IInv, TypeOK, GuardRemoveState, service
<1>1. TypeOK'
  BY UpdateFacts DEF Ops, GuardSteps, Binaries, May
<1>2. ASSUME Protected PROVE ServiceInv'
  BY <1>2, UpdateFacts DEF Protected, ServiceInv, GuardInv, OnTrial, May
<1>3. ASSUME Protected PROVE GuardInv'
  BY <1>3, UpdateFacts DEF Protected, ServiceInv, GuardInv, OnTrial, May
<1>. QED BY <1>1, <1>2, <1>3 DEF Protected

\* The restart ends the trial: nothing is recorded and the accepted version is installed.
LEMMA GuardRestartStep ==
    ASSUME IInv, GuardRestart
    PROVE  IInv'
<1>0. GuardExits("idle") /\ Stopped => bin' \in Binaries \ {None}
  BY StoppedFacts DEF IInv
<1>1. TypeOK'
  <2>1. CASE GuardExits("idle") /\ Stopped
    BY <1>0, <2>1 DEF IInv, TypeOK, GuardRestart, GuardExits, Stopped, Ops, GuardSteps
  <2>2. CASE GuardExits("failed") /\ UNCHANGED <<running, mem, op, bin>>
    BY <2>2 DEF IInv, TypeOK, GuardRestart, GuardExits, Ops, GuardSteps
  <2>. QED BY <2>1, <2>2 DEF GuardRestart
<1>2. ASSUME Protected
      PROVE  /\ unit' = "idle" /\ guard' = "idle" /\ running' = None /\ mem' = NoUpdate /\ op' = "idle"
             /\ bin' = bin /\ UNCHANGED <<bak, state, archives, target, copy, accepted>>
             /\ bin = accepted /\ state = NoUpdate
  <2>1. GuardInv /\ guard = "restart" /\ unit = "fired"
    BY <1>2 DEF IInv, TypeOK, GuardRestart
  <2>2. GuardExits("idle") /\ Stopped
    BY <1>2 DEF GuardRestart, Protected
  <2>3. bin' = bin
    BY <1>2, <2>1, <2>2 DEF GuardInv, Stopped, May, Protected
  <2>4. bin = accepted /\ state = NoUpdate
    BY <2>1 DEF GuardInv
  <2>. QED BY <2>2, <2>3, <2>4 DEF GuardRestart, GuardExits, Stopped
<1>3. ASSUME Protected PROVE ServiceInv'
  BY <1>2, <1>3 DEF ServiceInv
<1>4. ASSUME Protected PROVE GuardInv'
  <2>1. GuardInv
    BY <1>4 DEF IInv
  <2>. QED BY <1>2, <1>4, <2>1, UpdateFacts DEF IInv, TypeOK, GuardInv
<1>. QED BY <1>1, <1>3, <1>4 DEF IInv

\* A crash is outside Protected; the types hold.
LEMMA CrashStep ==
    ASSUME IInv, Crash
    PROVE  IInv'
<1>0. bin' \in Binaries \ {None}
  BY StoppedFacts DEF IInv, Crash
<1>. USE DEF IInv, TypeOK, Crash, Stopped, systemd
<1>1. TypeOK'
  BY <1>0 DEF Ops, GuardSteps
<1>2. ASSUME Protected PROVE ServiceInv'
  BY <1>2, <1>0, UpdateFacts DEF Protected, ServiceInv, GuardInv, OnTrial, May
<1>3. ASSUME Protected PROVE GuardInv'
  BY <1>3, <1>0, UpdateFacts DEF Protected, ServiceInv, GuardInv, OnTrial, May
<1>. QED BY <1>1, <1>2, <1>3 DEF Protected

\* A reboot is outside Protected; the types hold.
LEMMA RebootStep ==
    ASSUME IInv, Reboot
    PROVE  IInv'
<1>0. bin' \in Binaries \ {None}
  BY StoppedFacts DEF IInv, Reboot
<1>. USE DEF IInv, TypeOK, Reboot, Stopped
<1>1. TypeOK'
  BY <1>0, UpdateFacts DEF Ops, GuardSteps, Binaries
<1>2. ASSUME Protected PROVE ServiceInv'
  BY <1>2, <1>0, UpdateFacts DEF Protected, ServiceInv, GuardInv, OnTrial, May
<1>3. ASSUME Protected PROVE GuardInv'
  BY <1>3, <1>0, UpdateFacts DEF Protected, ServiceInv, GuardInv, OnTrial, May
<1>. QED BY <1>1, <1>2, <1>3 DEF Protected

-----------------------------------------------------------------------------

\* A fresh device runs the installed version, with nothing pending.
LEMMA InitIInv == Init => IInv
<1>. SUFFICES ASSUME Init PROVE IInv
  OBVIOUS
<1>1. TypeOK
  BY UpdateFacts, UpdateAssumption DEF Init, TypeOK, Ops, GuardSteps, Binaries
<1>2. ServiceInv /\ GuardInv
  BY UpdateFacts, UpdateAssumption DEF Init, ServiceInv, GuardInv, OnTrial
<1>. QED BY <1>1, <1>2 DEF IInv

\* Every step of the service, the guard, systemd and the device preserves IInv.
LEMMA NextIInv == IInv /\ [Next]_vars => IInv'
<1>. SUFFICES ASSUME IInv, [Next]_vars PROVE IInv'
  OBVIOUS
<1>1. ASSUME NEW v \in Versions, NEW exported \in BOOLEAN,
             ApplyRefused(v, exported) \/ ApplyBackup(v, exported)
      PROVE  IInv'
  BY <1>1, ApplyRefusedStep, ApplyBackupStep
<1>2. CASE ConfirmStop \/ RollbackStop
  BY <1>2, ConfirmStopStep, RollbackStopStep
<1>3. CASE ServiceStep
  BY <1>3, ApplyInstallStep, ApplyVerifyStep, ApplySaveStep, ApplyArmStep, RestartStep,
     ConfirmRemoveStep, ConfirmClearStep, RollbackCopyStep, RollbackRemoveStep,
     RollbackClearStep DEF ServiceStep
<1>4. CASE UnitFires \/ GuardStep
  BY <1>4, UnitFiresStep, GuardStatStep, GuardOpenStep, GuardRenameStep,
     GuardRemoveBackupStep, GuardRemoveStateStep, GuardRestartStep DEF GuardStep
<1>5. CASE Start \/ Crash \/ Reboot
  BY <1>5, StartStep, CrashStep, RebootStep
<1>6. CASE UNCHANGED vars
  <2>. USE <1>6 DEF vars, files, service, systemd
  <2>1. TypeOK'
    BY DEF IInv, TypeOK
  <2>2. ServiceInv /\ GuardInv => ServiceInv' /\ GuardInv'
    BY DEF ServiceInv, GuardInv, OnTrial
  <2>. QED BY <2>1, <2>2 DEF IInv, Protected
<1>. QED BY <1>1, <1>2, <1>3, <1>4, <1>5, <1>6 DEF Next

\* IInv holds in every reachable state, whatever goes wrong.
THEOREM UpdateInvariant == Spec => []IInv
  BY InitIInv, NextIInv, PTL DEF Spec

\* Every variable keeps its type whatever fails, in particular the guard's
\* process and its unit agree, and a process that is down holds no lock.
THEOREM UpdateTypes == Spec => []TypeOK
<1>1. IInv => TypeOK
  BY DEF IInv
<1>. QED BY <1>1, UpdateInvariant, PTL

\* While the commands work, an unconfirmed update has the accepted version as
\* its backup and a guard that is armed (ApplyUpdate, Rollback, ConfirmUpdate).
THEOREM UpdatesAreGuarded ==
    ASSUME Protected
    PROVE  Spec => []UpdateIsGuarded
<1>1. IInv => UpdateIsGuarded
  BY Protected DEF IInv, TypeOK, ServiceInv, GuardInv, OnTrial, UpdateIsGuarded,
                   PendingHasBackup, UnconfirmedIsWatched, Quiet
<1>. QED BY <1>1, UpdateInvariant, PTL

\* The installed binary changes by installing a release over the accepted
\* version, by accepting what is installed or by going back (installBinary,
\* ConfirmUpdate, restoreBinary, rollbackUnconfirmedUpdate).
LEMMA TrialSteps ==
    ASSUME Protected, IInv, [Next]_vars
    PROVE  \/ bin' = bin /\ accepted' = accepted
           \/ bin = accepted /\ bin' \in Versions /\ accepted' = accepted
           \/ accepted' = bin /\ bin' = bin
           \/ bin' = accepted /\ accepted' = accepted
<1>. DEFINE Goal == \/ bin' = bin /\ accepted' = accepted
                    \/ bin = accepted /\ bin' \in Versions /\ accepted' = accepted
                    \/ accepted' = bin /\ bin' = bin
                    \/ bin' = accepted /\ accepted' = accepted
<1>. SUFFICES Goal
  OBVIOUS
<1>0. /\ \A b \in {bin, Partial} : Restored(b) = Copied(bak) \cup NotCopied(bak, b)
      /\ bak # None => /\ Copied(bak) = {bak}
                       /\ \A b \in {bin, Partial} : NotCopied(bak, b) = {}
  BY CopyFacts DEF Restored, IInv, TypeOK, Binaries
<1>1. ASSUME NEW v \in Versions, NEW exported \in BOOLEAN,
             ApplyRefused(v, exported) \/ ApplyBackup(v, exported)
      PROVE  Goal
  BY <1>1 DEF ApplyRefused, ApplyBackup
<1>2. CASE ConfirmStop \/ RollbackStop
  BY <1>2 DEF ConfirmStop, RollbackStop, files
<1>3. CASE ApplyInstall \/ ApplyVerify \/ ApplySave \/ ApplyArm
  <2>1. op \in {"apply.backed", "apply.installed", "apply.verified", "apply.saved"} => bak = accepted
    BY Protected DEF IInv, ServiceInv, OnTrial
  <2>2. op = "apply.backed" => bin = accepted /\ target.version \in Versions
    BY Protected, UpdateFacts DEF IInv, TypeOK, ServiceInv
  <2>3. bak = accepted => Restored(bin) = {accepted} /\ May("torn", Restored(Partial)) \subseteq {accepted}
    <3>1. accepted # None
      BY UpdateFacts DEF IInv, TypeOK
    <3>. QED BY <1>0, <3>1 DEF May
  <2>4. CASE ApplyInstall
    BY <2>1, <2>2, <2>3, <2>4 DEF ApplyInstall
  <2>5. CASE ApplyVerify
    BY <2>1, <2>3, <2>5 DEF ApplyVerify
  <2>6. CASE ApplySave
    BY <2>1, <2>3, <2>6 DEF ApplySave
  <2>7. CASE ApplyArm
    BY <2>1, <2>3, <2>7 DEF ApplyArm
  <2>. QED BY <1>3, <2>4, <2>5, <2>6, <2>7
<1>4. CASE Restart \/ GuardRestart
  BY <1>4 DEF Restart, GuardRestart, Stopped, IInv, GuardInv, TypeOK
<1>5. CASE ConfirmRemove \/ ConfirmClear \/ RollbackRemove \/ RollbackClear
  BY <1>5 DEF ConfirmRemove, ConfirmClear, RollbackRemove, RollbackClear, IInv, ServiceInv
<1>6. CASE RollbackCopy
  BY <1>6, <1>0, UpdateFacts DEF RollbackCopy, IInv, TypeOK, ServiceInv, OnTrial
<1>7. CASE UnitFires \/ GuardStat \/ GuardOpen \/ GuardRename \/ GuardRemoveBackup
           \/ GuardRemoveState
  BY <1>7 DEF UnitFires, GuardStat, GuardOpen, GuardRename, GuardRemoveBackup,
              GuardRemoveState, files, IInv, GuardInv
<1>8. CASE Start \/ Crash \/ Reboot
  BY <1>8 DEF Start, Crash, Reboot, files, Protected
<1>9. CASE UNCHANGED vars
  BY <1>9 DEF vars, files
<1>. QED BY <1>1, <1>2, <1>3, <1>4, <1>5, <1>6, <1>7, <1>8, <1>9
        DEF Next, ServiceStep, GuardStep

\* An update is a guarded trial while the commands work: with the installed
\* binary as the live choice and the accepted version as the settled one, every
\* step of the service and of the guard is a step of GuardedTrial.
THEOREM UpdateImplementsTrial ==
    ASSUME Protected
    PROVE  Spec => ImplementsTrial
<1>1. Init => Trial!Init
  BY UpdateFacts DEF Init, Trial!Init
<1>2. ASSUME IInv, [Next]_vars PROVE [Trial!Next]_(Trial!vars)
  BY <1>2, Protected, TrialSteps
     DEF Trial!Next, Trial!Try, Trial!Keep, Trial!Revert, Trial!vars
<1>. QED BY <1>1, <1>2, UpdateInvariant, PTL DEF Spec, ImplementsTrial, Trial!Spec

=============================================================================
