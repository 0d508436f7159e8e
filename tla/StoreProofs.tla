------------------------------ MODULE StoreProofs ------------------------------
EXTENDS ConfigStore, TLAPS

(* What router.yaml, its key and the archives promise, for any keys,           *)
(* passphrases and settings and any number of faults.  StoreInv says which     *)
(* file and which key belong together; the proof that it is inductive has one  *)
(* lemma per group of handlers, and the theorems follow from it and from what  *)
(* Decrypt does with a key that fits.                                          *)

-----------------------------------------------------------------------------
(* Files and keys.                                                             *)

\* A file is written with the secrets of its config under one key.
LEMMA FileFacts ==
    ASSUME NEW c \in StoreConfigs, NEW k,
           HasSecrets(c) => k \in ConfigKeys
    PROVE  LET f == WithEncryptedSecrets(c, k)
           IN  /\ f \in StoreFileType /\ f.valid /\ Contents(f) = c
               /\ f.key \in {NoConfigKey, k}
<1>. DEFINE q == IF HasSecrets(c) THEN k ELSE NoConfigKey
           f == [valid |-> TRUE, id |-> c.id, cred |-> c.cred, session |-> c.session, key |-> q]
<1>1. WithEncryptedSecrets(c, k) = f
  BY DEF WithEncryptedSecrets, ConfigFile
<1>2. q \in {NoConfigKey, k} /\ q \in ConfigKeys \cup {NoConfigKey}
  OBVIOUS
<1>. HIDE DEF q
<1>3. /\ c.id \in 0..MaxConfigs /\ c.cred \in BOOLEAN /\ c.session \in BOOLEAN
      /\ c = [id |-> c.id, cred |-> c.cred, session |-> c.session]
  BY DEF StoreConfigs
<1>4. f \in StoreFileType /\ f.valid /\ f.key = q
  BY <1>2, <1>3 DEF StoreFileType
<1>5. Contents(f) = c
  BY <1>3 DEF Contents, StoredConfig
<1>. QED BY <1>1, <1>2, <1>4, <1>5

\* What a file holds is a config.
LEMMA ContentsType ==
    ASSUME NEW f \in StoreFileType PROVE Contents(f) \in StoreConfigs
  BY DEF StoreFileType, Contents, StoredConfig, StoreConfigs

\* Load gives back everything in the file when the key opens it.
LEMMA LoadFits ==
    ASSUME NEW f \in StoreFileType, NEW k, NEW c, Fits(f, k, c)
    PROVE  LoadConfig(f, k) = c
<1>1. f.cred \in BOOLEAN /\ f.session \in BOOLEAN
  BY DEF StoreFileType
<1>2. DecryptInPlace(f.cred, f.key, k) = f.cred
  BY <1>1 DEF DecryptInPlace, Fits
<1>3. DecryptInPlace(f.session, f.key, k) = f.session
  BY <1>1 DEF DecryptInPlace, Fits
<1>. QED BY <1>2, <1>3 DEF LoadConfig, DecryptSecretsInPlace, Fits, Contents

\* What Load makes of any file is a config.
LEMMA LoadType ==
    ASSUME NEW f \in StoreFileType, NEW k PROVE LoadConfig(f, k) \in StoreConfigs
<1>1. DecryptInPlace(f.cred, f.key, k) \in BOOLEAN /\ DecryptInPlace(f.session, f.key, k) \in BOOLEAN
  BY DEF DecryptInPlace
<1>2. f.id \in 0..MaxConfigs
  BY DEF StoreFileType
<1>. QED BY <1>1, <1>2 DEF LoadConfig, DecryptSecretsInPlace, StoredConfig, StoreConfigs

\* The shipped config, and what no export and no import are told apart by.
LEMMA Constants ==
    /\ DefaultConfig \in StoreConfigs /\ ~HasSecrets(DefaultConfig)
    /\ StoredConfig(0, FALSE, TRUE) \in StoreConfigs /\ StoredConfig(1, TRUE, TRUE) \in StoreConfigs
    /\ ConfigFile(DefaultConfig, NoConfigKey) \in StoreFileType
    /\ ConfigFile(DefaultConfig, NoConfigKey).valid
    /\ Fits(ConfigFile(DefaultConfig, NoConfigKey), NoConfigKey, DefaultConfig)
    /\ \A k : Fits(ConfigFile(DefaultConfig, NoConfigKey), k, DefaultConfig)
    /\ NoImport.pc = "none"
  BY StoreAssumption
  DEF DefaultConfig, StoredConfig, StoreConfigs, HasSecrets, ConfigFile, StoreFileType, Fits, Contents,
      NoImport

-----------------------------------------------------------------------------
(* The steps.                                                                  *)

\* The part of StoreInv that no save and no export touches: the archives and the
\* import, which stay as they are.
LEMMA StoreFacts ==
    ASSUME StoreInv
    PROVE  /\ StoreTypeOK /\ settingsMade \in 1..MaxConfigs
           /\ exporting \in {NoExport} \cup [file : StoreFileType, of : StoreConfigs]
           /\ importing \in {NoImport} \cup [pc : {"staged", "file", "key"}, archive : uploads]
           /\ importing # NoImport => importing.archive.file.valid
           /\ \A a \in uploads : ArchiveInv(a)
           /\ ~fileTorn => Fits(yaml, keyFile, written)
           /\ exporting # NoExport /\ ~meddled => Fits(exporting.file, keyFile, exporting.of)
  BY DEF StoreInv

\* A handler, or the start of the process, changes the config in memory.
LEMMA EditStep ==
    ASSUME StoreInv, NEW c \in BOOLEAN, EditConfig(c) \/ EnsureSecret PROVE StoreInv'
<1>1. settingsMade' \in 1..MaxConfigs
  BY StoreAssumption DEF StoreInv, EditConfig, EnsureSecret
<1>2. storeMem' \in StoreConfigs
  <2>1. CASE EditConfig(c)
    <3>1. settingsMade' \in 0..MaxConfigs /\ storeMem.session \in BOOLEAN
      BY <1>1, StoreAssumption DEF StoreInv, StoreTypeOK, StoreConfigs
    <3>. QED BY <2>1, <3>1 DEF EditConfig, StoredConfig, StoreConfigs
  <2>2. CASE EnsureSecret
    BY <2>2, Zenon DEF EnsureSecret, StoreInv, StoreTypeOK, StoreConfigs
  <2>. QED BY <2>1, <2>2
<1>3. /\ saving' = "wanted"
      /\ UNCHANGED <<yaml, keyFile, exporting, uploads, importing, restartDue, written, fileTorn, meddled>>
  BY DEF EditConfig, EnsureSecret, storeFiles, storeHistory
<1>4. StoreTypeOK'
  BY <1>2, <1>3 DEF StoreInv, StoreTypeOK
<1>. QED BY <1>1, <1>3, <1>4 DEF StoreInv

\* loadOrCreateConfigKey: a first key opens what was written without one.
LEMMA KeyStep ==
    ASSUME StoreInv, LoadOrCreateConfigKey PROVE StoreInv'
<1>1. UNCHANGED <<storeMem, yaml, exporting, uploads, importing, restartDue, settingsMade, written, fileTorn>>
  BY DEF LoadOrCreateConfigKey
<1>2. CASE keyFile # NoConfigKey
  <2>1. saving' = keyFile /\ keyFile' = keyFile /\ meddled' = meddled /\ keyFile \in ConfigKeys
    BY <1>2 DEF LoadOrCreateConfigKey, StoreInv, StoreTypeOK
  <2>2. StoreTypeOK'
    BY <1>1, <2>1 DEF StoreInv, StoreTypeOK
  <2>. QED BY <1>1, <2>1, <2>2 DEF StoreInv
<1>3. CASE keyFile = NoConfigKey
  <2>1. PICK k \in ConfigKeys \ {Foreign} : saving' = k /\ keyFile' = k
    BY <1>3 DEF LoadOrCreateConfigKey
  <2>2. meddled' = (meddled \/ exporting # NoExport)
    BY <1>3 DEF LoadOrCreateConfigKey
  <2>3. meddled' \in BOOLEAN /\ (exporting # NoExport => meddled')
    BY <2>2, Zenon
  <2>4. StoreTypeOK'
    BY <1>1, <2>1, <2>3 DEF StoreInv, StoreTypeOK
  <2>5. ~fileTorn' => Fits(yaml', keyFile', written')
    BY <1>1, <1>3 DEF StoreInv, Fits
  <2>. QED BY <1>1, <2>3, <2>4, <2>5 DEF StoreInv
<1>. QED BY <1>2, <1>3

\* A step that fails, and changes nothing but what was in progress.
LEMMA FailStep ==
    ASSUME StoreInv, KeyUnavailable \/ SaveWriteFails \/ ExportFails \/ InstallFails PROVE StoreInv'
<1>. USE DEF KeyUnavailable, SaveWriteFails, ExportFails, InstallFails, storeFiles, storeHistory
<1>1. UNCHANGED <<storeMem, yaml, keyFile, uploads, restartDue, settingsMade, written, fileTorn, meddled>>
  OBVIOUS
<1>2. /\ saving' \in {saving, "none"} /\ exporting' \in {exporting, NoExport}
      /\ importing' \in {importing, NoImport}
  OBVIOUS
<1>3. StoreTypeOK'
  BY ONLY <1>1, <1>2, Constants, StoreFacts, StoreInv DEF StoreTypeOK
<1>. QED BY ONLY <1>1, <1>2, <1>3, StoreInv DEF StoreInv

\* Save: router.yaml is what the config in memory is, under the key the save read.
LEMMA SaveStep ==
    ASSUME StoreInv, SaveWrite PROVE StoreInv'
<1>1. UNCHANGED <<storeMem, keyFile, exporting, uploads, importing, restartDue, settingsMade, meddled>>
  BY DEF SaveWrite
<1>2. /\ saving' = "none" /\ yaml' = WithEncryptedSecrets(storeMem, saving) /\ written' = storeMem
      /\ fileTorn' = (ImportWriting \/ yaml'.key \notin {NoConfigKey, keyFile})
      /\ HasSecrets(storeMem) => saving \in ConfigKeys
  BY DEF SaveWrite, AtomicWrite
<1>3. storeMem \in StoreConfigs
  BY DEF StoreInv, StoreTypeOK
<1>4. yaml' \in StoreFileType /\ yaml'.valid /\ Contents(yaml') = storeMem
  BY <1>2, <1>3, FileFacts
<1>5. fileTorn' \in BOOLEAN /\ (~fileTorn' => yaml'.key \in {NoConfigKey, keyFile})
  BY <1>2, Zenon
<1>6. StoreTypeOK'
  BY <1>1, <1>2, <1>3, <1>4, <1>5 DEF StoreInv, StoreTypeOK
<1>7. ~fileTorn' => Fits(yaml', keyFile', written')
  BY <1>1, <1>2, <1>4, <1>5 DEF Fits
<1>. QED BY <1>1, <1>6, <1>7 DEF StoreInv

\* The first half of an export: tar reads router.yaml.
LEMMA ExportTarStep ==
    ASSUME StoreInv, ExportTar PROVE StoreInv'
<1>1. UNCHANGED <<storeMem, yaml, keyFile, saving, uploads, importing, restartDue, settingsMade, written, fileTorn>>
  BY DEF ExportTar, storeFiles
<1>2. exporting' = [file |-> yaml, of |-> written] /\ meddled' = (fileTorn \/ ImportWriting)
  BY DEF ExportTar
<1>3. meddled' \in BOOLEAN /\ (~meddled' => ~fileTorn)
  BY <1>2, Zenon
<1>4. /\ exporting' \in [file : StoreFileType, of : StoreConfigs]
      /\ exporting'.file = yaml /\ exporting'.of = written
  BY <1>2 DEF StoreInv, StoreTypeOK
<1>5. StoreTypeOK'
  BY <1>1, <1>3 DEF StoreInv, StoreTypeOK
<1>6. ~meddled' => Fits(exporting'.file, keyFile', exporting'.of)
  BY <1>1, <1>3, <1>4 DEF StoreInv
<1>. QED BY <1>1, <1>4, <1>5, <1>6 DEF StoreInv

\* The second half: an encrypted archive carries the key of its secrets.
LEMMA ExportEndsStep ==
    ASSUME StoreInv, NEW p \in Passphrases, ExportEnds(p) PROVE StoreInv'
<1>1. /\ UNCHANGED <<storeMem, yaml, keyFile, saving, importing, restartDue, settingsMade, written, fileTorn, meddled>>
      /\ exporting' = NoExport
  BY DEF ExportEnds, storeFiles, storeHistory
<1>2. exporting \in [file : StoreFileType, of : StoreConfigs]
  BY DEF ExportEnds, StoreInv
<1>3. PICK k : /\ uploads' = uploads \cup {ArchiveOf(p, k)} /\ k \in ConfigKeys \cup {NoConfigKey}
               /\ IF p = NoPassphrase THEN k = NoConfigKey ELSE k = keyFile
  <2>1. CASE p = NoPassphrase
    BY <2>1 DEF ExportEnds
  <2>2. CASE p # NoPassphrase
    BY <2>2 DEF ExportEnds, AppendConfigKey, StoreInv, StoreTypeOK
  <2>. QED BY <2>1, <2>2
<1>. DEFINE a == ArchiveOf(p, k)
<1>4. (~meddled) \in BOOLEAN
  OBVIOUS
<1>5. /\ a \in ArchiveType /\ a.pass = p /\ a.key = k /\ a.file = exporting.file /\ a.of = exporting.of
      /\ a.whole = ~meddled
  BY <1>2, <1>3, <1>4 DEF ArchiveOf, ArchiveType
<1>6. a.whole => Fits(a.file, keyFile, a.of)
  BY <1>5, Zenon DEF ExportEnds, StoreInv
<1>7. ArchiveInv(a)
  BY <1>3, <1>5, <1>6 DEF ArchiveInv, Fits
<1>8. \A b \in uploads' : ArchiveInv(b)
  BY <1>3, <1>7 DEF StoreInv
<1>9. importing' \in {NoImport} \cup [pc : {"staged", "file", "key"}, archive : uploads']
  BY <1>1, <1>3 DEF StoreInv
<1>10. StoreTypeOK'
  BY <1>1 DEF StoreInv, StoreTypeOK
<1>. QED BY <1>1, <1>8, <1>9, <1>10 DEF StoreInv

\* The archive an import works with is one of those that exist.
LEMMA ImportFacts ==
    ASSUME StoreInv, importing.pc # "none"
    PROVE  /\ importing \in [pc : {"staged", "file", "key"}, archive : uploads]
           /\ importing.archive \in uploads /\ ArchiveInv(importing.archive)
           /\ importing.archive \in ArchiveType /\ importing.archive.file \in StoreFileType
           /\ importing.archive.of \in StoreConfigs /\ importing.archive.file.valid
           /\ importing.archive.key \in ConfigKeys \cup {NoConfigKey}
           /\ importing # NoImport
<1>1. importing # NoImport
  BY Constants
<1>2. importing \in [pc : {"staged", "file", "key"}, archive : uploads]
  BY <1>1 DEF StoreInv
<1>3. importing.archive \in uploads /\ importing.archive.file.valid
  BY <1>1, <1>2 DEF StoreInv
<1>4. ArchiveInv(importing.archive)
  BY <1>3 DEF StoreInv
<1>. QED BY <1>1, <1>2, <1>3, <1>4 DEF ArchiveInv, ArchiveType

\* HandleImport stages an archive the next start would accept.
LEMMA StageStep ==
    ASSUME StoreInv, NEW a \in uploads, NEW p, HandleImport(a, p) PROVE StoreInv'
<1>1. /\ UNCHANGED <<storeMem, yaml, keyFile, saving, exporting, uploads, restartDue, settingsMade, written, fileTorn, meddled>>
      /\ importing' = [pc |-> "staged", archive |-> a] /\ a.file.valid
  BY DEF HandleImport, StageArchive, ValidateStagedConfig, storeFiles, storeHistory
<1>2. /\ importing' \in [pc : {"staged", "file", "key"}, archive : uploads']
      /\ importing'.pc = "staged" /\ importing'.archive = a
  BY <1>1
<1>3. StoreTypeOK'
  BY <1>1, <1>2 DEF StoreInv, StoreTypeOK
<1>. QED BY <1>1, <1>2, <1>3 DEF StoreInv

\* restoreArchive: router.yaml first; until the key follows they may not fit.
LEMMA InstallStep ==
    ASSUME StoreInv, InstallConfig \/ InstallOthers PROVE StoreInv'
<1>1. importing.pc # "none"
  BY DEF InstallConfig, InstallOthers
<1>2. /\ UNCHANGED <<storeMem, keyFile, saving, exporting, uploads, restartDue, settingsMade>>
      /\ \E q \in {"file", "key"} : importing' = [importing EXCEPT !.pc = q]
  BY DEF InstallConfig, InstallOthers, storeFiles
<1>3. /\ importing' \in [pc : {"staged", "file", "key"}, archive : uploads']
      /\ importing'.archive = importing.archive /\ importing'.pc \in {"file", "key"}
  BY <1>1, <1>2, ImportFacts
<1>4. importing'.archive.file.valid
  BY <1>1, <1>3, ImportFacts
<1>5. CASE InstallConfig
  <2>1. /\ yaml' = importing.archive.file /\ written' = importing.archive.of /\ fileTorn' = TRUE
        /\ meddled' = (meddled \/ exporting # NoExport)
    BY <1>5 DEF InstallConfig, InstallMember
  <2>2. fileTorn' \in BOOLEAN /\ fileTorn' /\ meddled' \in BOOLEAN /\ (exporting # NoExport => meddled')
    BY <2>1, Zenon
  <2>3. yaml' \in StoreFileType /\ yaml'.valid /\ written' \in StoreConfigs
    BY <1>1, <2>1, ImportFacts
  <2>4. StoreTypeOK'
    BY <1>2, <1>3, <2>2, <2>3 DEF StoreInv, StoreTypeOK
  <2>. QED BY <1>2, <1>3, <1>4, <2>2, <2>4 DEF StoreInv
<1>6. CASE InstallOthers
  <2>1. UNCHANGED <<yaml, written, fileTorn, meddled>>
    BY <1>6 DEF InstallOthers, storeFiles, storeHistory
  <2>2. StoreTypeOK'
    BY <1>2, <1>3, <2>1 DEF StoreInv, StoreTypeOK
  <2>. QED BY <1>2, <1>3, <1>4, <2>1, <2>2 DEF StoreInv
<1>. QED BY <1>5, <1>6

\* restoreConfigKey: the key of the archive arrives, and fits if the file is still
\* the archive's and the archive was whole.
LEMMA InstallKeyStep ==
    ASSUME StoreInv, InstallArchivedKey PROVE StoreInv'
<1>. DEFINE a == importing.archive
<1>1. importing.pc # "none"
  BY DEF InstallArchivedKey
<1>2. ArchiveInv(a) /\ a \in ArchiveType /\ a.key \in ConfigKeys \cup {NoConfigKey} /\ a.whole \in BOOLEAN
  BY <1>1, ImportFacts DEF ArchiveType
<1>3. /\ UNCHANGED <<storeMem, yaml, saving, exporting, uploads, settingsMade, written>>
      /\ importing' = NoImport /\ restartDue' = TRUE
      /\ IF a.key = NoConfigKey THEN keyFile' = keyFile ELSE keyFile' = a.key
      /\ fileTorn' = (\/ written # a.of \/ yaml # a.file \/ ~a.whole
                      \/ a.key = NoConfigKey /\ a.file.key \notin {NoConfigKey, keyFile})
      /\ meddled' = (meddled \/ exporting # NoExport)
  BY DEF InstallArchivedKey, RestoreConfigKey
<1>. HIDE DEF a
<1>4. /\ restartDue' \in BOOLEAN /\ fileTorn' \in BOOLEAN /\ meddled' \in BOOLEAN
      /\ exporting # NoExport => meddled'
      /\ ~fileTorn' => /\ written = a.of /\ yaml = a.file /\ a.whole
                       /\ a.key = NoConfigKey => a.file.key \in {NoConfigKey, keyFile}
  BY <1>3, Zenon
<1>5. keyFile' \in ConfigKeys \cup {NoConfigKey}
  BY <1>2, <1>3 DEF StoreInv, StoreTypeOK
<1>6. StoreTypeOK'
  BY <1>3, <1>4, <1>5, Constants DEF StoreInv, StoreTypeOK
<1>7. ~fileTorn' => Fits(yaml', keyFile', written')
  <2>. SUFFICES ASSUME ~fileTorn' PROVE Fits(yaml, keyFile', written)
    BY <1>3
  <2>1. Contents(a.file) = a.of
    BY <1>2, <1>4 DEF ArchiveInv
  <2>2. a.file.key \in {NoConfigKey, keyFile'}
    <3>1. CASE a.key = NoConfigKey
      BY <1>3, <1>4, <3>1
    <3>2. CASE a.key # NoConfigKey
      BY <1>2, <1>3, <1>4, <3>2 DEF ArchiveInv, Fits
    <3>. QED BY <3>1, <3>2
  <2>. QED BY <1>4, <2>1, <2>2 DEF Fits
<1>. QED BY <1>3, <1>4, <1>6, <1>7 DEF StoreInv

\* The factory reset writes a file that needs no key.
LEMMA ResetStep ==
    ASSUME StoreInv, HandleFactoryReset PROVE StoreInv'
<1>1. /\ UNCHANGED <<storeMem, keyFile, saving, exporting, uploads, importing, settingsMade, meddled>>
      /\ yaml' = ConfigFile(DefaultConfig, NoConfigKey) /\ written' = DefaultConfig
  BY DEF HandleFactoryReset, FactoryReset
<1>2. fileTorn' \in BOOLEAN /\ restartDue' \in BOOLEAN
  BY Zenon DEF HandleFactoryReset, StoreInv, StoreTypeOK
<1>3. StoreTypeOK'
  BY <1>1, <1>2, Constants DEF StoreInv, StoreTypeOK
<1>4. Fits(yaml', keyFile', written')
  BY <1>1, Constants
<1>. QED BY <1>1, <1>3, <1>4 DEF StoreInv

\* A restart forgets what was in progress and loads what is on disk.
LEMMA RestartStep ==
    ASSUME StoreInv, RestartAfterImport \/ StoreCrash PROVE StoreInv'
<1>1. /\ UNCHANGED <<yaml, keyFile, uploads, settingsMade, written, fileTorn, meddled>>
      /\ storeMem' \in {LoadConfig(yaml, keyFile), LoadConfig(yaml, NoConfigKey)}
      /\ saving' = "none" /\ exporting' = NoExport
      /\ importing' = NoImport /\ restartDue' = FALSE
  BY DEF RestartAfterImport, StoreCrash, ProcessRestarts, storeFiles
<1>2. storeMem' \in StoreConfigs /\ restartDue' \in BOOLEAN
  BY <1>1, LoadType, Zenon DEF StoreInv, StoreTypeOK
<1>3. StoreTypeOK'
  BY <1>1, <1>2, Constants DEF StoreInv, StoreTypeOK
<1>. QED BY <1>1, <1>3 DEF StoreInv

\* StoreInv is preserved by every step.
LEMMA StoreStep == StoreInv /\ [StoreNext]_storeVars => StoreInv'
<1>1. StoreInv /\ UNCHANGED storeVars => StoreInv'
  BY DEF storeVars, StoreInv, StoreTypeOK
<1>. QED
  BY <1>1, EditStep, KeyStep, FailStep, SaveStep, ExportTarStep, ExportEndsStep, StageStep, InstallStep,
     InstallKeyStep, ResetStep, RestartStep, Zenon
  DEF StoreNext, SaveToFile, HandleExport, RestoreArchive

\* A device starts with the shipped config or with a session secret of its own, and
\* with archives of another device at hand.
LEMMA StoreStart == StoreInit => StoreInv
<1>. SUFFICES ASSUME StoreInit PROVE StoreInv
  OBVIOUS
<1>1. /\ storeMem \in StoreConfigs /\ (HasSecrets(storeMem) => keyFile \in ConfigKeys)
      /\ keyFile \in ConfigKeys \cup {NoConfigKey}
  BY Constants, Zenon DEF StoreInit
<1>2. /\ yaml \in StoreFileType /\ yaml.valid /\ Fits(yaml, keyFile, written) /\ written \in StoreConfigs
  BY <1>1, FileFacts DEF StoreInit, Fits
<1>3. StoreTypeOK
  BY <1>1, <1>2, Constants, Zenon DEF StoreInit, StoreTypeOK
<1>4. \A a \in uploads : ArchiveInv(a)
  <2>. DEFINE file == WithEncryptedSecrets(StoredConfig(1, TRUE, TRUE), Foreign)
             of == StoredConfig(1, TRUE, TRUE)
             bad == [ConfigFile(DefaultConfig, NoConfigKey) EXCEPT !.valid = FALSE]
  <2>1. file \in StoreFileType /\ Contents(file) = of /\ file.key \in {NoConfigKey, Foreign} /\ of \in StoreConfigs
    BY FileFacts, Constants, StoreAssumption, Zenon
  <2>2. bad \in StoreFileType
    BY Constants, Zenon DEF StoreFileType
  <2>. HIDE DEF file, of, bad
  <2>3. ASSUME NEW p \in Passphrases \ {NoPassphrase}
        PROVE  ArchiveInv([pass |-> p, file |-> file, key |-> Foreign, of |-> of, whole |-> TRUE])
    BY <2>1, StoreAssumption DEF ArchiveInv, ArchiveType, Fits
  <2>4. ArchiveInv([pass |-> NoPassphrase, file |-> bad, key |-> NoConfigKey, of |-> DefaultConfig,
                    whole |-> FALSE])
    BY <2>2, Constants, StoreAssumption DEF ArchiveInv, ArchiveType
  <2>5. uploads = {[pass |-> p, file |-> file, key |-> Foreign, of |-> of, whole |-> TRUE] :
                      p \in Passphrases \ {NoPassphrase}}
                  \cup {[pass |-> NoPassphrase, file |-> bad, key |-> NoConfigKey, of |-> DefaultConfig,
                         whole |-> FALSE]}
    BY DEF StoreInit, file, of, bad
  <2>. QED BY <2>3, <2>4, <2>5, Zenon
<1>5. settingsMade \in 1..MaxConfigs /\ exporting = NoExport /\ importing = NoImport
  BY StoreAssumption DEF StoreInit
<1>. QED BY <1>2, <1>3, <1>4, <1>5 DEF StoreInv

\* StoreInv is inductive.
LEMMA StoreInvariance == StoreSpec => []StoreInv
  BY StoreStart, StoreStep, PTL DEF StoreSpec

\* Only the restore of an archive's key replaces a key.
LEMMA OnlyImportReplacesKey ==
    ASSUME StoreNext, keyFile # NoConfigKey, keyFile' # keyFile
    PROVE  importing.pc = "key"
  BY Zenon DEF StoreNext, EditConfig, EnsureSecret, SaveToFile, LoadOrCreateConfigKey, KeyUnavailable, SaveWrite,
         SaveWriteFails, HandleExport, ExportTar, ExportEnds, ExportFails, HandleImport, RestoreArchive,
         InstallConfig, InstallOthers, InstallFails, InstallArchivedKey, HandleFactoryReset,
         RestartAfterImport, StoreCrash, ProcessRestarts, storeFiles

\* The type invariant: what the next start finds as router.yaml is a file it
\* accepts (Save, restoreArchive, FactoryReset).
THEOREM StoreTypes == StoreSpec => []StoreTypeOK
<1>1. StoreInv => StoreTypeOK
  BY DEF StoreInv
<1>. QED BY <1>1, StoreInvariance, PTL

\* What Save, Export, Import and the factory reset promise, in any order and with
\* any of their steps failing: the next start loads the config last written, an
\* archive restores the config it was made of, and a key is replaced by an import
\* only.
THEOREM StoreIsSound == StoreSpec => StoreSound
<1>1. StoreInv => NextStartLoadsLast
  BY LoadFits DEF StoreInv, StoreTypeOK, NextStartLoadsLast
<1>2. StoreInv => ArchivesRestore
  <2>. SUFFICES ASSUME StoreInv, NEW a \in uploads, a.whole, a.pass # NoPassphrase
       PROVE  LoadConfig(a.file, a.key) = a.of
    BY DEF ArchivesRestore
  <2>1. ArchiveInv(a)
    BY DEF StoreInv
  <2>2. a.file \in StoreFileType /\ Fits(a.file, a.key, a.of)
    BY <2>1 DEF ArchiveInv, ArchiveType
  <2>. QED BY <2>2, LoadFits
<1>3. [StoreNext]_storeVars => [keyFile # NoConfigKey /\ keyFile' # keyFile => importing.pc = "key"]_storeVars
  BY OnlyImportReplacesKey
<1>4. StoreSpec => KeyKept
  BY <1>3, PTL DEF StoreSpec, KeyKept
<1>5. StoreSpec => [](NextStartLoadsLast /\ ArchivesRestore)
  BY <1>1, <1>2, StoreInvariance, PTL
<1>. QED BY <1>4, <1>5 DEF StoreSound

=============================================================================
