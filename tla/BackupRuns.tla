------------------------------ MODULE BackupRuns ------------------------------
(* A backup run (internal/services/backup_orchestration.go) and its targets      *)
(* (backup_local.go, backup_sftp.go, backup_s3.go): the settings a run works     *)
(* with, the export, one upload after the other with the retention of that       *)
(* target, and the history.  Handlers edit the settings while a run is on.       *)
(*                                                                               *)
(* An archive is named for the moment its run started.  A target is a directory  *)
(* or a bucket: its finished archives with their time, and its .tmp files.       *)
EXTENDS Integers, Sequences, FiniteSets, SequencesExt

CONSTANTS
    Targets,       \* target names
    Kind,          \* per target: local, sftp or s3
    Retentions,    \* values of the retention field of the form
    DefaultKeep,   \* retentionOrDefault's seven
    MaxHistory,    \* MaxBackupHistory
    MaxRuns,       \* bound: how many runs are started
    MaxBackupEdits \* bound: how many edits, crashes and failed steps there are

ASSUME BackupAssumption ==
    /\ Kind \in [Targets -> {"local", "sftp", "s3"}]
    /\ Retentions \subseteq Int /\ DefaultKeep \in Nat \ {0} /\ MaxHistory \in Nat \ {0}

VARIABLES
    backup,       \* cfg.Backup: passphrase set, targets in order, retention, history, last run
    savedBackup,  \* the same in router.yaml
    run,          \* the run that holds runMu, or NoRun
    backupClock,        \* moments: every start and every finished upload has its own
    runs,         \* how many runs were started
    backupArchives,     \* per target: the finished archives, name and time
    leftovers,    \* per target: names of .tmp files
    exported,     \* the archive under /tmp, or none
    backupEdits,
    ended,        \* history: the start of the last run that ended
    took,         \* history: per target, when it last took an archive
    unsaved       \* history: the last save failed

backupVars == <<backup, savedBackup, run, backupClock, runs, backupArchives, leftovers, exported,
                backupEdits, ended, took, unsaved>>
world == <<backupClock, runs, backupArchives, leftovers, exported, took>>

NoRun == [pc |-> "none"]

BackupInit ==
    /\ \E p \in BOOLEAN, ts \in {s \in SeqOf(Targets, Cardinality(Targets)) : IsInjective(s)} :
          backup = [pass |-> p, targets |-> ts, keep |-> 1, history |-> << >>, last |-> 0]
    /\ savedBackup = backup /\ run = NoRun /\ backupClock = 0 /\ runs = 0 /\ exported = 0
    /\ backupArchives = [t \in Targets |-> {}] /\ leftovers = [t \in Targets |-> {}]
    /\ backupEdits = 0 /\ ended = 0 /\ took = [t \in Targets |-> 0] /\ unsaved = FALSE

\* save, which may fail: memory is changed either way.
SaveBackup(b) ==
    /\ backup' = b
    /\ \/ savedBackup' = b /\ unsaved' = FALSE
       \/ savedBackup' = savedBackup /\ unsaved' = TRUE

BackupEdit == backupEdits < MaxBackupEdits /\ backupEdits' = backupEdits + 1

-----------------------------------------------------------------------------
(* The settings forms; mu spans the change and its save.                         *)

\* HandleSaveSchedule and runOnce turn a retention below one into seven.
RetentionOrDefault(n) == IF n < 1 THEN DefaultKeep ELSE n

\* SaveSchedule: an empty passphrase keeps the stored one.
SaveSettings(retention, pass) == SaveBackup([backup EXCEPT !.keep = retention, !.pass = @ \/ pass])
HandleSaveSchedule(retention, pass) ==
    /\ BackupEdit /\ SaveSettings(RetentionOrDefault(retention), pass)
    /\ UNCHANGED <<run, world, ended>>
\* A name is taken once.
AddTarget(t) == ~Contains(backup.targets, t) /\ SaveBackup([backup EXCEPT !.targets = Append(@, t)])
HandleAddTarget(t) == BackupEdit /\ AddTarget(t) /\ UNCHANGED <<run, world, ended>>
RemoveTarget(t) == Contains(backup.targets, t) /\ SaveBackup([backup EXCEPT !.targets = Remove(@, t)])
HandleDeleteTarget(t) == BackupEdit /\ RemoveTarget(t) /\ UNCHANGED <<run, world, ended>>

-----------------------------------------------------------------------------
(* runOnce, under runMu.                                                         *)

\* The history keeps its newest entries.
Trimmed(h) == IF Len(h) > MaxHistory THEN SubSeq(h, Len(h) - MaxHistory + 1, Len(h)) ELSE h

\* runStatus.
RunStatus(ok, failed) == IF ok = {} THEN "error" ELSE IF failed = {} THEN "ok" ELSE "partial"

\* recordHistory; its save is best effort.
RecordHistory(started, ok, status) ==
    /\ SaveBackup([backup EXCEPT !.last = started,
                           !.history = Trimmed(Append(@, [at |-> started, ok |-> ok, status |-> status]))])
    /\ ended' = started

\* failRun: "Every abort has to leave a trace".
FailRun(started) == RecordHistory(started, {}, "error")

\* runOnce takes the lock and copies the settings; without a passphrase or a
\* target failRun records the failure at once.
RunOnce ==
    /\ run = NoRun /\ runs < MaxRuns
    /\ runs' = runs + 1 /\ backupClock' = backupClock + 1
    /\ IF ~backup.pass \/ backup.targets = << >>
       THEN FailRun(backupClock') /\ UNCHANGED run
       ELSE /\ run' = [pc |-> "export", started |-> backupClock', todo |-> backup.targets,
                       keep |-> RetentionOrDefault(backup.keep), ok |-> {}, failed |-> {}]
            /\ UNCHANGED <<backup, savedBackup, ended, unsaved>>
    /\ UNCHANGED <<backupArchives, leftovers, exported, backupEdits, took>>

\* Export writes the archive under /tmp, or fails and is recorded by failRun.
RunExport ==
    /\ run.pc = "export"
    /\ exported' = run.started /\ run' = [run EXCEPT !.pc = "next"]
    /\ UNCHANGED <<backup, savedBackup, backupClock, runs, backupArchives, leftovers, backupEdits, ended, took, unsaved>>
RunExportFails ==
    /\ run.pc = "export" /\ BackupEdit
    /\ FailRun(run.started)
    /\ exported' = 0 /\ run' = NoRun
    /\ UNCHANGED <<backupClock, runs, backupArchives, leftovers, took>>

CurrentTarget == Head(run.todo)
NextTarget(ok) ==
    [run EXCEPT !.pc = "next", !.todo = Tail(@),
                !.ok = IF ok THEN @ \cup {CurrentTarget} ELSE @,
                !.failed = IF ok THEN @ ELSE @ \cup {CurrentTarget}]

\* The archive arrives whole, and a later time than all before.
Arrives ==
    /\ backupClock' = backupClock + 1
    /\ backupArchives' = [backupArchives EXCEPT ![CurrentTarget] = {a \in @ : a.name # run.started}
                                                   \cup {[name |-> run.started, time |-> backupClock']}]
    /\ took' = [took EXCEPT ![CurrentTarget] = backupClock']

UploadUnchanged == UNCHANGED <<backup, savedBackup, runs, exported, ended, unsaved>>

\* uploadLocal and uploadSFTP write a .tmp file first.
UploadTmp ==
    /\ run.pc = "next" /\ run.todo # << >> /\ Kind[CurrentTarget] # "s3"
    /\ leftovers' = [leftovers EXCEPT ![CurrentTarget] = @ \cup {run.started}]
    /\ run' = [run EXCEPT !.pc = "copy"]
    /\ UploadUnchanged /\ UNCHANGED <<backupClock, backupArchives, backupEdits, took>>
UploadRename ==
    /\ run.pc = "copy"
    /\ Arrives
    /\ leftovers' = [leftovers EXCEPT ![CurrentTarget] = @ \ {run.started}]
    /\ run' = [run EXCEPT !.pc = "retain"]
    /\ UploadUnchanged /\ UNCHANGED backupEdits
UploadLocal == run.pc # "none" /\ run.todo # << >> /\ Kind[CurrentTarget] = "local" /\ (UploadTmp \/ UploadRename)
UploadSFTP == run.pc # "none" /\ run.todo # << >> /\ Kind[CurrentTarget] = "sftp" /\ (UploadTmp \/ UploadRename)
\* uploadS3: putObject shows the object when it is complete.
UploadS3 ==
    /\ run.pc = "next" /\ run.todo # << >> /\ Kind[CurrentTarget] = "s3"
    /\ Arrives
    /\ run' = [run EXCEPT !.pc = "retain"]
    /\ UploadUnchanged /\ UNCHANGED <<leftovers, backupEdits>>

\* An upload fails and the run goes on with the next target.  The .tmp file is
\* removed, unless the session it would be removed through is the one that died.
UploadFails ==
    /\ \/ run.pc = "copy"
       \/ run.pc = "next" /\ run.todo # << >>
    /\ BackupEdit
    /\ \/ leftovers' = [leftovers EXCEPT ![CurrentTarget] = @ \ {run.started}]
       \/ Kind[CurrentTarget] = "sftp" /\ UNCHANGED leftovers
    /\ run' = NextTarget(FALSE)
    /\ UploadUnchanged /\ UNCHANGED <<backupClock, backupArchives, took>>

\* The archives cleanupLocal, cleanupSFTP and cleanupS3 leave: the newest by time.
Kept(as, n) == {a \in as : Cardinality({b \in as : b.time > a.time}) < n}

\* The retention of the target, newest first: the first archive that cannot be
\* removed ends it, so what remains beside the kept ones are the oldest.
Retain ==
    /\ run.pc = "retain"
    /\ LET old == backupArchives[CurrentTarget] \ Kept(backupArchives[CurrentTarget], run.keep)
       IN  \/ /\ backupArchives' = [backupArchives EXCEPT ![CurrentTarget] = @ \ old]
              /\ UNCHANGED backupEdits
           \/ \E stop \in old :
                 /\ BackupEdit
                 /\ backupArchives' = [backupArchives EXCEPT ![CurrentTarget] = @ \ {a \in old : a.time > stop.time}]
    /\ run' = NextTarget(TRUE)
    /\ UploadUnchanged /\ UNCHANGED <<backupClock, leftovers, took>>

CleanupLocal == run.pc = "retain" /\ Kind[CurrentTarget] = "local" /\ Retain
CleanupSFTP == run.pc = "retain" /\ Kind[CurrentTarget] = "sftp" /\ Retain
CleanupS3 == run.pc = "retain" /\ Kind[CurrentTarget] = "s3" /\ Retain
UploadOne ==
    \/ UploadLocal \/ UploadSFTP \/ UploadS3 \/ UploadFails
    \/ CleanupLocal \/ CleanupSFTP \/ CleanupS3

\* Every target was tried: the history, the deferred removal of the export.
RunRecord ==
    /\ run.pc = "next" /\ run.todo = << >>
    /\ RecordHistory(run.started, run.ok, RunStatus(run.ok, run.failed))
    /\ exported' = 0 /\ run' = NoRun
    /\ UNCHANGED <<backupClock, runs, backupArchives, leftovers, backupEdits, took>>

\* The process dies and starts again; what it had not saved is gone.
BackupCrash ==
    /\ BackupEdit
    /\ backup' = savedBackup /\ run' = NoRun
    /\ unsaved' = FALSE /\ ended' = savedBackup.last
    /\ UNCHANGED <<savedBackup, world>>

BackupNext ==
    \/ \E n \in Retentions, p \in BOOLEAN : HandleSaveSchedule(n, p)
    \/ \E t \in Targets : HandleAddTarget(t) \/ HandleDeleteTarget(t)
    \/ RunOnce \/ RunExport \/ RunExportFails \/ UploadOne \/ RunRecord
    \/ BackupCrash

\* A run is a goroutine that is scheduled, and every step of it has a deadline.
BackupFair == WF_backupVars(RunExport) /\ WF_backupVars(UploadTmp) /\ WF_backupVars(UploadRename)
              /\ WF_backupVars(UploadS3) /\ WF_backupVars(Retain) /\ WF_backupVars(RunRecord)

BackupSpec == BackupInit /\ [][BackupNext]_backupVars /\ BackupFair

-----------------------------------------------------------------------------
BackupTypeOK ==
    /\ \A b \in {backup, savedBackup} :
          /\ b.pass \in BOOLEAN /\ b.keep \in Nat \ {0} /\ b.last \in 0..backupClock
          /\ IsInjective(b.targets) /\ Range(b.targets) \subseteq Targets
          /\ Len(b.history) <= MaxHistory
    /\ run.pc \in {"none", "export", "next", "copy", "retain"}
    /\ exported \in 0..backupClock /\ ended \in 0..backupClock
    /\ \A t \in Targets : backupArchives[t] \subseteq [name : 1..backupClock, time : 1..backupClock]
                             /\ leftovers[t] \subseteq 1..backupClock

\* Retention never takes the newest backup: a target that ever took an archive
\* holds one at least as recent as the last it took, through edits of the
\* retention, removed targets, removals that fail and crashes at any point; and
\* what retention sorts is whole, never the file of an upload that broke off.
NewestSurvives ==
    \A t \in Targets :
        /\ took[t] # 0 => \E a \in backupArchives[t] : a.time >= took[t]
        /\ \A a \in backupArchives[t] : a.time <= took[t]

\* Every run leaves a trace (failRun: "Every abort has to leave a trace"): the
\* newest entry and LastRun are those of the last run that ended, and an entry
\* claims a target only if it took that run's archive.
EveryRunRecorded ==
    /\ backup.last = ended
    /\ ended # 0 => Last(backup.history).at = ended
    /\ \A i \in DOMAIN backup.history : \A t \in backup.history[i].ok :
          took[t] > backup.history[i].at

\* The settings forms and the history writer share one config and one file: the
\* file never misses a change the memory has, unless the last save failed.
SavedUnlessFailed == ~unsaved => savedBackup = backup

\* What runOnce, the retention and the settings forms promise together.
BackupsSound == NewestSurvives /\ EveryRunRecorded /\ SavedUnlessFailed

=============================================================================
