----------------------------- MODULE ConfigStore -----------------------------
(* router.yaml and the key of its secrets: config.Load and Save (internal/       *)
(* config), the export and import of archives and the factory reset (internal/   *)
(* services/backup.go), and the handlers that start them (handlers/system.go).   *)
(*                                                                               *)
(* A config is its settings, named by a number, a credential and the session     *)
(* secret.  A file holds both secrets under one key; Decrypt succeeds with the   *)
(* key they were encrypted with and fails with any other.                        *)
EXTENDS Naturals, FiniteSets

CONSTANTS
    ConfigKeys,       \* credential keys
    Foreign,          \* the key of an archive made on another device
    NoConfigKey,
    Passphrases,      \* passphrases typed into the forms
    NoPassphrase,     \* the empty one: a plain archive, without the key
    MaxConfigs,       \* bound: how many different settings are made
    MaxArchives,      \* bound: how many archives there are
    MaxStoreFaults    \* bound: crashes, failed writes and refused reads

ASSUME StoreAssumption ==
    Foreign \in ConfigKeys /\ NoConfigKey \notin ConfigKeys /\ NoPassphrase \in Passphrases
    /\ MaxConfigs \in Nat \ {0} /\ {MaxArchives, MaxStoreFaults} \subseteq Nat

VARIABLES
    storeMem,          \* the running process's config
    yaml,         \* router.yaml
    keyFile,      \* config.key
    saving,       \* the save that holds configMu: none, wanted, or with its key
    exporting,    \* Export: none, or the router.yaml that tar read
    uploads,      \* archives that exist, encrypted with a passphrase
    importing,    \* Import: where it is, with which archive
    restartDue,   \* restartAfterImport or Reboot is on its way
    settingsMade, \* how many settings were made
    storeFaults,
    written,      \* history: the config last written to router.yaml
    fileTorn,     \* history: why router.yaml and the key may not belong together
    meddled       \* history: a key or an import came between the halves of an export

storeVars == <<storeMem, yaml, keyFile, saving, exporting, uploads, importing, restartDue,
               settingsMade, storeFaults, written, fileTorn, meddled>>

StoredConfig(n, c, s) == [id |-> n, cred |-> c, session |-> s]
DefaultConfig == StoredConfig(0, FALSE, FALSE)
ConfigFile(c, k) == [valid |-> TRUE, id |-> c.id, cred |-> c.cred, session |-> c.session, key |-> k]
NoImport == [pc |-> "none"]
NoExport == [none |-> TRUE]
StoreFault == storeFaults < MaxStoreFaults /\ storeFaults' = storeFaults + 1

-----------------------------------------------------------------------------
(* Secrets: internal/config/secrets.go and crypto.go.                            *)

HasSecrets(c) == c.cred \/ c.session

\* withEncryptedSecrets: every secret under the one key; no secret, no key.
WithEncryptedSecrets(c, k) == ConfigFile(c, IF HasSecrets(c) THEN k ELSE NoConfigKey)

\* What cannot be decrypted is cleared.
DecryptInPlace(secret, under, k) == secret /\ under \in {NoConfigKey, k}
DecryptSecretsInPlace(f, k) ==
    StoredConfig(f.id, DecryptInPlace(f.cred, f.key, k), DecryptInPlace(f.session, f.key, k))

\* Load, of a file Validate accepts.
LoadConfig(f, k) == DecryptSecretsInPlace(f, k)

StoreInit ==
    /\ \/ storeMem = DefaultConfig /\ keyFile = NoConfigKey
       \/ storeMem = StoredConfig(0, FALSE, TRUE) /\ keyFile \in ConfigKeys \ {Foreign}
    /\ yaml = WithEncryptedSecrets(storeMem, keyFile)
    /\ saving = "none" /\ exporting = NoExport /\ importing = NoImport
    /\ uploads = {[pass |-> p, file |-> WithEncryptedSecrets(StoredConfig(1, TRUE, TRUE), Foreign),
                   key |-> Foreign, of |-> StoredConfig(1, TRUE, TRUE), whole |-> TRUE] :
                      p \in Passphrases \ {NoPassphrase}}
                 \cup {[pass |-> NoPassphrase, file |-> [ConfigFile(DefaultConfig, NoConfigKey) EXCEPT !.valid = FALSE],
                        key |-> NoConfigKey, of |-> DefaultConfig, whole |-> FALSE]}
    /\ restartDue = FALSE /\ settingsMade = 1 /\ storeFaults = 0
    /\ written = storeMem /\ fileTorn = FALSE /\ meddled = FALSE

storeFiles == <<yaml, keyFile>>
storeHistory == <<written, fileTorn, meddled>>

-----------------------------------------------------------------------------
(* Save.  A handler changes the config in memory and saves it.                   *)

\* A handler stores new settings, with or without a credential.
EditConfig(cred) ==
    /\ saving = "none" /\ settingsMade < MaxConfigs
    /\ settingsMade' = settingsMade + 1
    /\ storeMem' = StoredConfig(settingsMade', cred, storeMem.session)
    /\ saving' = "wanted"
    /\ UNCHANGED <<storeFiles, exporting, uploads, importing, restartDue, storeFaults, storeHistory>>

\* ensureSessionSecret at the start of the process.
EnsureSecret ==
    /\ ~storeMem.session /\ saving = "none"
    /\ storeMem' = [storeMem EXCEPT !.session = TRUE]
    /\ saving' = "wanted"
    /\ UNCHANGED <<storeFiles, exporting, uploads, importing, restartDue, settingsMade, storeFaults, storeHistory>>

\* loadOrCreateConfigKey: the key on file, or a fresh one when there is no file.
LoadOrCreateConfigKey ==
    /\ saving = "wanted" /\ HasSecrets(storeMem)
    /\ IF keyFile # NoConfigKey THEN saving' = keyFile /\ UNCHANGED <<keyFile, meddled>>
       ELSE /\ \E k \in ConfigKeys \ {Foreign} : saving' = k /\ keyFile' = k
            /\ meddled' = (meddled \/ exporting # NoExport)
    /\ UNCHANGED <<storeMem, yaml, exporting, uploads, importing, restartDue, settingsMade, storeFaults, written, fileTorn>>

\* A key that cannot be read or written fails the save before it writes anything.
KeyUnavailable ==
    /\ saving = "wanted" /\ HasSecrets(storeMem) /\ StoreFault
    /\ saving' = "none"
    /\ UNCHANGED <<storeMem, storeFiles, exporting, uploads, importing, restartDue, settingsMade, storeHistory>>

ImportWriting == importing.pc \in {"file", "key"}

AtomicWrite(f) == yaml' = f
\* Save: the file is replaced whole.
SaveWrite ==
    /\ saving \in ConfigKeys \/ (saving = "wanted" /\ ~HasSecrets(storeMem))
    /\ saving' = "none"
    /\ AtomicWrite(WithEncryptedSecrets(storeMem, saving))
    /\ written' = storeMem
    /\ fileTorn' = (ImportWriting \/ yaml'.key \notin {NoConfigKey, keyFile})
    /\ UNCHANGED <<storeMem, keyFile, exporting, uploads, importing, restartDue, settingsMade, storeFaults, meddled>>
SaveWriteFails ==
    /\ saving \in ConfigKeys \/ (saving = "wanted" /\ ~HasSecrets(storeMem))
    /\ StoreFault
    /\ saving' = "none"
    /\ UNCHANGED <<storeMem, storeFiles, exporting, uploads, importing, restartDue, settingsMade, storeHistory>>
SaveToFile == LoadOrCreateConfigKey \/ KeyUnavailable \/ SaveWrite \/ SaveWriteFails

-----------------------------------------------------------------------------
(* Export: the agent's tar reads the files, then this process reads the key.     *)

ExportTar ==
    /\ exporting = NoExport /\ Cardinality(uploads) < MaxArchives
    /\ exporting' = [file |-> yaml, of |-> written]
    /\ meddled' = (fileTorn \/ ImportWriting)
    /\ UNCHANGED <<storeMem, storeFiles, saving, uploads, importing, restartDue, settingsMade, storeFaults, written, fileTorn>>

ArchiveOf(p, k) == [pass |-> p, file |-> exporting.file, key |-> k, of |-> exporting.of, whole |-> ~meddled]

\* Variant: the key stays out of the archive.
AppendConfigKeyNot(p) == ArchiveOf(p, NoConfigKey)
\* appendConfigKey: an encrypted archive carries the key of its secrets.
AppendConfigKey(p) == ArchiveOf(p, keyFile)

\* exportPlain ends with tar; exportEncrypted appends the key and encrypts.
ExportEnds(p) ==
    /\ exporting # NoExport
    /\ exporting' = NoExport
    /\ uploads' = uploads \cup {IF p = NoPassphrase THEN ArchiveOf(p, NoConfigKey) ELSE AppendConfigKey(p)}
    /\ UNCHANGED <<storeMem, storeFiles, saving, importing, restartDue, settingsMade, storeFaults, storeHistory>>

\* tar, the key or the write fails.
ExportFails ==
    /\ exporting # NoExport /\ StoreFault
    /\ exporting' = NoExport
    /\ UNCHANGED <<storeMem, storeFiles, saving, uploads, importing, restartDue, settingsMade, storeHistory>>

HandleExport(p) == ExportTar \/ ExportEnds(p) \/ ExportFails

-----------------------------------------------------------------------------
(* Import.                                                                       *)

\* An archive opens with its passphrase only, and a router.yaml the next start
\* would refuse is refused here.
DecryptBackup(a, p) == p = a.pass
ValidateStagedConfig(a) == a.file.valid
StageArchive(a) == importing' = [pc |-> "staged", archive |-> a]

\* HandleImport: a refused archive changes nothing, an accepted one is staged.
\* One import is modelled at a time.
HandleImport(a, p) ==
    /\ importing = NoImport
    /\ DecryptBackup(a, p) /\ ValidateStagedConfig(a)
    /\ StageArchive(a)
    /\ UNCHANGED <<storeMem, storeFiles, saving, exporting, uploads, restartDue, settingsMade, storeFaults, storeHistory>>

InstallMember(f) == yaml' = f
\* restoreArchive: router.yaml first.
InstallConfig ==
    /\ importing.pc = "staged"
    /\ InstallMember(importing.archive.file)
    /\ written' = importing.archive.of
    /\ importing' = [importing EXCEPT !.pc = "file"]
    /\ fileTorn' = TRUE /\ meddled' = (meddled \/ exporting # NoExport)
    /\ UNCHANGED <<storeMem, keyFile, saving, exporting, uploads, restartDue, settingsMade, storeFaults>>

\* Then the files of the daemons.
InstallOthers ==
    /\ importing.pc = "file"
    /\ importing' = [importing EXCEPT !.pc = "key"]
    /\ UNCHANGED <<storeMem, storeFiles, saving, exporting, uploads, restartDue, settingsMade, storeFaults, storeHistory>>

\* A write that fails ends the import where it is.
InstallFails ==
    /\ importing.pc \in {"staged", "file", "key"} /\ StoreFault
    /\ importing' = NoImport
    /\ UNCHANGED <<storeMem, storeFiles, saving, exporting, uploads, restartDue, settingsMade, storeHistory>>

RestoreArchive == InstallConfig \/ InstallOthers \/ InstallFails

RestoreConfigKey(k) == keyFile' = k
\* The key of the archive, if it carries one, then the restart.
InstallArchivedKey ==
    LET a == importing.archive
    IN  /\ importing.pc = "key"
        /\ IF a.key = NoConfigKey THEN UNCHANGED keyFile ELSE RestoreConfigKey(a.key)
        /\ importing' = NoImport
        /\ restartDue' = TRUE
        /\ fileTorn' = (\/ written # a.of \/ yaml # a.file \/ ~a.whole
                        \/ a.key = NoConfigKey /\ a.file.key \notin {NoConfigKey, keyFile})
        /\ meddled' = (meddled \/ exporting # NoExport)
        /\ UNCHANGED <<storeMem, yaml, saving, exporting, uploads, settingsMade, storeFaults, written>>

FactoryReset == yaml' = ConfigFile(DefaultConfig, NoConfigKey) /\ written' = DefaultConfig
\* FactoryReset writes the shipped files; when one of the others could not be
\* written it reports that, and the handler does not reboot.
HandleFactoryReset ==
    /\ FactoryReset
    /\ fileTorn' = FALSE
    /\ \/ restartDue' = TRUE /\ UNCHANGED storeFaults
       \/ StoreFault /\ UNCHANGED restartDue
    /\ UNCHANGED <<storeMem, keyFile, saving, exporting, uploads, importing, settingsMade, meddled>>

\* The process starts again and loads what is on disk; k is the key it can read.
ProcessRestarts(k) ==
    /\ storeMem' = LoadConfig(yaml, k)
    /\ saving' = "none" /\ exporting' = NoExport /\ importing' = NoImport /\ restartDue' = FALSE
    /\ UNCHANGED <<storeFiles, uploads, settingsMade, written, fileTorn, meddled>>

\* restartAfterImport and the reboot of the reset.
RestartAfterImport == restartDue /\ ProcessRestarts(keyFile) /\ UNCHANGED storeFaults
\* A crash; the start after it may find a key it cannot read, and clears what is encrypted.
StoreCrash == StoreFault /\ \E k \in {keyFile, NoConfigKey} : ProcessRestarts(k)

StoreNext ==
    \/ \E c \in BOOLEAN : EditConfig(c)
    \/ EnsureSecret \/ SaveToFile
    \/ \E p \in Passphrases : HandleExport(p)
    \/ \E a \in uploads, p \in Passphrases : HandleImport(a, p)
    \/ RestoreArchive \/ InstallArchivedKey
    \/ HandleFactoryReset \/ RestartAfterImport \/ StoreCrash

StoreSpec == StoreInit /\ [][StoreNext]_storeVars

-----------------------------------------------------------------------------
StoreFileType == [valid : BOOLEAN, id : 0..MaxConfigs, cred : BOOLEAN, session : BOOLEAN, key : ConfigKeys \cup {NoConfigKey}]
StoreConfigs == [id : 0..MaxConfigs, cred : BOOLEAN, session : BOOLEAN]

\* Among the types: no file the next start would refuse is ever router.yaml.
StoreTypeOK ==
    /\ storeMem \in StoreConfigs /\ written \in StoreConfigs
    /\ yaml \in StoreFileType /\ yaml.valid
    /\ keyFile \in ConfigKeys \cup {NoConfigKey} /\ saving \in ConfigKeys \cup {"none", "wanted"}
    /\ importing.pc \in {"none", "staged", "file", "key"}
    /\ restartDue \in BOOLEAN /\ fileTorn \in BOOLEAN /\ meddled \in BOOLEAN

\* What the next start loads is the config last written, its secrets included,
\* whoever wrote it: a save, an import or the reset.  Except (fileTorn) after an
\* import that broke off between router.yaml and the key, and after a save whose file
\* was written, or whose key was read, while an import replaced both.
NextStartLoadsLast == ~fileTorn => LoadConfig(yaml, keyFile) = written

\* An encrypted archive restores, on any device, the config it was made of: the
\* key it carries opens the file it carries, unless an import or a first key came
\* between the two reads of the export.
ArchivesRestore ==
    \A a \in uploads : a.whole /\ a.pass # NoPassphrase => LoadConfig(a.file, a.key) = a.of

\* The key of the stored secrets is replaced by an import and by nothing else,
\* not by a save that could not read it.
KeyKept ==
    [][keyFile # NoConfigKey /\ keyFile' # keyFile => importing.pc = "key"]_storeVars

\* What Save, Export, Import and the factory reset promise together.
StoreSound == [](NextStartLoadsLast /\ ArchivesRestore) /\ KeyKept

\* Why it is so: a file and a key belong together when the key opens the file, and
\* the file then holds c.  They do on disk, in an archive that is whole, and for an
\* export whose second half is still to come.
Contents(f) == StoredConfig(f.id, f.cred, f.session)
Fits(f, k, c) == f.key \in {NoConfigKey, k} /\ Contents(f) = c

ArchiveType ==
    [pass : Passphrases, file : StoreFileType, key : ConfigKeys \cup {NoConfigKey}, of : StoreConfigs,
     whole : BOOLEAN]
ArchiveInv(a) ==
    /\ a \in ArchiveType /\ (a.pass = NoPassphrase => a.key = NoConfigKey)
    /\ a.whole => Contents(a.file) = a.of
    /\ a.whole /\ a.pass # NoPassphrase => Fits(a.file, a.key, a.of)

StoreInv ==
    /\ StoreTypeOK /\ settingsMade \in 1..MaxConfigs
    /\ exporting \in {NoExport} \cup [file : StoreFileType, of : StoreConfigs]
    /\ importing \in {NoImport} \cup [pc : {"staged", "file", "key"}, archive : uploads]
    /\ importing # NoImport => importing.archive.file.valid
    /\ \A a \in uploads : ArchiveInv(a)
    /\ ~fileTorn => Fits(yaml, keyFile, written)
    /\ exporting # NoExport /\ ~meddled => Fits(exporting.file, keyFile, exporting.of)

=============================================================================
