------------------------------ MODULE MCSystem ------------------------------
(* Small instances of the modules about the router's own state: router.yaml,  *)
(* the certificate, the health checks, the backups, the settings of its       *)
(* daemons, and who may sign in.  They share no state, so one behaviour runs  *)
(* one of them (part) while the others rest in an initial state: the states   *)
(* of the run are the sum of theirs, not the product.                         *)
EXTENDS ConfigStore, Certificates, HealthChecks, BackupRuns, BackupSchedule,
        DaemonSettings, NAS, Access, TLC

CONSTANTS check1, check2, sftp, s3, disk, source, secret1, l1, l2, l3, change1, change2, host1

VARIABLE part

MCActions ==
    check1 :> <<"failoverUsb", "restartInterface">> @@
    check2 :> <<"other", "restartPppoe", "restartInterface", "rebootSystem">>

MCTargets == {sftp, s3, disk}
MCKind == sftp :> "sftp" @@ s3 :> "s3" @@ disk :> "local"

\* Schedules: off, every minute, every other minute, by day of month or of week,
\* and one with a field out of range.
AnyTime == {[star |-> TRUE, lo |-> 0, hi |-> 0, step |-> 1]}
EveryOther == {[star |-> TRUE, lo |-> 0, hi |-> 0, step |-> 2]}
At(n) == {[star |-> FALSE, lo |-> n, hi |-> n, step |-> 1]}
MCSchedules ==
    {<<>>, <<AnyTime, AnyTime, AnyTime, AnyTime, AnyTime>>,
     <<EveryOther, AnyTime, AnyTime, AnyTime, AnyTime>>,
     <<At(1), AnyTime, At(2), AnyTime, At(0)>>,
     <<At(9), AnyTime, AnyTime, AnyTime, AnyTime>>}

MCScheduleOf == source :> 2

\* From Threshold + DurationBits failures on the shift leaves nothing.
ASSUME MCLockouts == LockoutsGrowOver(0..(Threshold + DurationBits))

-----------------------------------------------------------------------------
\* The passwords are interchangeable: one choice stands for the other.
SystemInit ==
    /\ part \in {"store", "cert", "health", "backup", "schedule", "setting", "nas", "login", "rate"}
    /\ StoreInit /\ (part = "store" \/ storeMem = DefaultConfig)
    /\ CertInit /\ (part = "cert" \/ (tlsMem.mode = "self-signed" /\ pairsMade = 0))
    /\ HealthInit /\ (part = "health" \/ ~(usb.enabled \/ usb.auto))
    /\ BackupInit /\ (part = "backup" \/ (backup.targets = <<>> /\ ~backup.pass))
    /\ SchedInit
    /\ part = "schedule" \/ (backupPlan.schedule = <<>> /\ ~backupPlan.enabled)
    /\ SettingInit /\ NASInit /\ LoginInit /\ savedHash = secret1 /\ RateInit

-----------------------------------------------------------------------------
(* Scope.  What bounds the product of two things that do not meet: the second *)
(* pair and the third archive are made in runs without a fault, shares and    *)
(* playlists are changed apart, and the clock stands still during a restart   *)
(* or a change of password.  Logins are interchangeable and made once, so     *)
(* they start in order; changes of password too.  Three logins come from one  *)
(* host.  The longest sequences of operations are free of failing steps.      *)

SharesOnly == minute = 0 /\ clicked = 0 /\ syncs = {}
PlaylistsOnly ==
    /\ shares = <<>> /\ smbConf = <<>> /\ smbd = <<>>
    /\ \A r \in NASRequests : nasJob[r].step = "idle"

LoginStarted(r) == attempt[r].pc # "new"
ChangeStarted(k) == passwordChange[k].pc # "new"
InOrderOfStart ==
    /\ LoginStarted(l3) => LoginStarted(l2)
    /\ LoginStarted(l2) => LoginStarted(l1)
    /\ ChangeStarted(change2) => ChangeStarted(change1)
LoginsOnly == loginRestarts = 0 /\ ~\E k \in PasswordChanges : ChangeStarted(k)
OneHost ==
    \A c \in LoginClients \ {host1} :
        loginGuard[c] = NoRecord /\ \A r \in Logins : attempt[r].ip # c
FewLogins == loginTime = 0 /\ ~LoginStarted(l3)

Scope ==
    /\ part = "cert" => pairsMade <= 1 \/ tlsFaults = 0
    /\ part = "store" => Cardinality(uploads) <= 2 \/ storeFaults = 0
    /\ part = "health" => usbEdits = 0 \/ healthFaults = 0
    /\ part = "setting" => settingOps <= 2 \/ settingFaults = 0
    /\ part = "backup" => runs <= 1 \/ backupEdits <= 1
    /\ part = "nas" => SharesOnly \/ PlaylistsOnly
    /\ part = "login" => InOrderOfStart /\ (LoginStarted(l3) => OneHost) /\ (FewLogins \/ LoginsOnly)

-----------------------------------------------------------------------------
SystemNext ==
    /\ part' = part
    /\ \/ /\ part = "store"
          /\ UNCHANGED <<certVars, healthVars, backupVars, schedVars, settingVars,
                         nasVars, loginVars, rateVars>>
          /\ StoreNext
       \/ /\ part = "cert"
          /\ UNCHANGED <<storeVars, healthVars, backupVars, schedVars, settingVars,
                         nasVars, loginVars, rateVars>>
          /\ CertNext
       \/ /\ part = "health"
          /\ UNCHANGED <<storeVars, certVars, backupVars, schedVars, settingVars,
                         nasVars, loginVars, rateVars>>
          /\ HealthNext
       \/ /\ part = "backup"
          /\ UNCHANGED <<storeVars, certVars, healthVars, schedVars, settingVars,
                         nasVars, loginVars, rateVars>>
          /\ BackupNext
       \/ /\ part = "schedule"
          /\ UNCHANGED <<storeVars, certVars, healthVars, backupVars, settingVars,
                         nasVars, loginVars, rateVars>>
          /\ SchedNext
       \/ /\ part = "setting"
          /\ UNCHANGED <<storeVars, certVars, healthVars, backupVars, schedVars,
                         nasVars, loginVars, rateVars>>
          /\ SettingNext
       \/ /\ part = "nas"
          /\ UNCHANGED <<storeVars, certVars, healthVars, backupVars, schedVars,
                         settingVars, loginVars, rateVars>>
          /\ NASNext
       \/ /\ part = "login"
          /\ UNCHANGED <<storeVars, certVars, healthVars, backupVars, schedVars,
                         settingVars, nasVars, rateVars>>
          /\ LoginNext
       \/ /\ part = "rate"
          /\ UNCHANGED <<storeVars, certVars, healthVars, backupVars, schedVars,
                         settingVars, nasVars, loginVars>>
          /\ RateNext
    /\ Scope'

systemVars ==
    <<part, storeVars, certVars, healthVars, backupVars, schedVars, settingVars, nasVars,
      loginVars, rateVars>>
SystemSpec == SystemInit /\ [][SystemNext]_systemVars

-----------------------------------------------------------------------------
\* Two states with the same running part differ in its variables only.
Running ==
    CASE part = "store" -> <<part, storeVars>>
      [] part = "cert" -> <<part, certVars>>
      [] part = "health" -> <<part, healthVars>>
      [] part = "backup" -> <<part, backupVars>>
      [] part = "schedule" -> <<part, schedVars>>
      [] part = "setting" -> <<part, settingVars>>
      [] part = "nas" -> <<part, nasVars>>
      [] part = "login" -> <<part, loginVars>>
      [] part = "rate" -> <<part, rateVars>>

\* Every variable of the part that runs stays within its type.
SystemTypesOK ==
    CASE part = "store" -> StoreTypeOK
      [] part = "cert" -> CertTypeOK /\ CertInv
      [] part = "health" -> HealthTypeOK
      [] part = "backup" -> BackupTypeOK
      [] part = "schedule" -> SchedTypeOK
      [] part = "setting" -> SettingTypeOK
      [] part = "nas" -> NASTypeOK
      [] part = "login" -> LoginTypeOK
      [] part = "rate" -> RateTypeOK

-----------------------------------------------------------------------------
\* Backups happen when the plan says, and none is lost: the scheduler covers
\* every slot once (BackupSchedule), and a run keeps the newest archives and is
\* recorded (BackupRuns).
BackupPlanSound == [](part = "backup" => BackupsSound) /\ ScheduleSound

\* A daemon runs with what its handler said it saved (DaemonSettings), and
\* Samba and the playlist sync with the shares and sources in force (NAS).
DaemonsSound == (part = "setting" => SettingsLive) /\ (part = "nas" => NASSound)

=============================================================================
