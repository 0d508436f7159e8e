----------------------- MODULE FirewallWatchdogProofs -----------------------
EXTENDS FirewallWatchdog, TLAPS

(* IInv is inductive, so the safety properties of FirewallWatchdog hold for   *)
(* every set of configs and changes, every window and any number of crashes.  *)
(* One lemma per action shows that the action preserves IInv.                 *)

-----------------------------------------------------------------------------

\* The texts the service tells apart are different, every ruleset has a
\* snapshot, and loading the snapshot of a ruleset gives the ruleset back
\* (AtomicChange.Snapshot and Rollback).
LEMMA TextFacts ==
    /\ InstallerRuleset \in Rulesets /\ EmptyRuleset \in Rulesets
    /\ \A c \in Configs : RenderConfig(c) \in Rulesets
    /\ NoText \notin Snapshots /\ TornText \notin Snapshots /\ NoText # TornText
    /\ NoText \notin Rulesets
    /\ \A k \in Rulesets : Snapshot(k) \in Snapshots /\ LoadSnapshot(Snapshot(k)) = k
    /\ \A t \in Snapshots : LoadSnapshot(t) \in Rulesets /\ HoldsSnapshot(t)
    /\ ~HoldsSnapshot(NoText) /\ ~HoldsSnapshot(TornText)
    /\ \A t \in Snapshots \cup {NoText, TornText} : HoldsSnapshot(t) => t \in Snapshots
<1>1. /\ InstallerRuleset \in Rulesets /\ EmptyRuleset \in Rulesets
      /\ \A c \in Configs : RenderConfig(c) \in Rulesets
  BY DEF Rulesets
<1>2. /\ NoText \notin Snapshots /\ TornText \notin Snapshots /\ NoText # TornText
      /\ NoText \notin Rulesets
  BY Zenon DEF Snapshots, Rulesets, NoText, TornText, EmptyRulesetSnapshot, RenderConfig,
         InstallerRuleset, EmptyRuleset, Text
<1>3. EmptyRulesetSnapshot \notin Rulesets
  BY Zenon DEF Rulesets, EmptyRulesetSnapshot, RenderConfig, InstallerRuleset, EmptyRuleset, Text
<1>4. \A k \in Rulesets : Snapshot(k) \in Snapshots /\ LoadSnapshot(Snapshot(k)) = k
  BY <1>2, <1>3 DEF Snapshot, LoadSnapshot, ListRuleset, Snapshots
<1>5. \A t \in Snapshots : LoadSnapshot(t) \in Rulesets /\ HoldsSnapshot(t)
  BY <1>1, <1>2 DEF LoadSnapshot, Snapshots, HoldsSnapshot
<1>6. /\ ~HoldsSnapshot(NoText) /\ ~HoldsSnapshot(TornText)
      /\ \A t \in Snapshots \cup {NoText, TornText} : HoldsSnapshot(t) => t \in Snapshots
  BY DEF HoldsSnapshot
<1>. QED BY <1>1, <1>2, <1>4, <1>5, <1>6

\* A rollback leaves a ruleset in the kernel, and without unprotected faults
\* the one its snapshot was taken of (AtomicChange.Rollback).
LEMMA RollbackFacts ==
    ASSUME TypeOK, NEW t \in Snapshots, NEW o \in RollbackOutcomes(t)
    PROVE  o[1] \in Rulesets /\ o[2] \in BOOLEAN /\ (Protected => o[1] = LoadSnapshot(t))
<1>1. o = <<LoadSnapshot(t), FALSE>> \/ (o = <<kernel, chains>> /\ "nft" \in Faults)
  BY TextFacts, Zenon DEF RollbackOutcomes
<1>2. CASE o = <<LoadSnapshot(t), FALSE>>
  BY <1>2, TextFacts
<1>3. CASE o = <<kernel, chains>> /\ "nft" \in Faults
  <2>1. o[1] = kernel /\ o[2] = chains
    BY <1>3
  <2>2. ~Protected
    BY <1>3 DEF Protected
  <2>. QED BY <2>1, <2>2 DEF TypeOK
<1>. QED BY <1>1, <1>2, <1>3, Zenon

\* mutate changes the config only.
LEMMA EditStep ==
    ASSUME IInv, NEW c \in Configs, Edit(c)
    PROVE  IInv'
<1>. USE ConstantsAssumption DEF IInv, TypeOK, Edit, CanLock, disk, nft, history
<1>1. TypeOK'
  BY TextFacts DEF Crits, Callers, Off, LockInv, Applying
<1>2. LockInv'
  BY DEF LockInv, Applying, Confirming, Reverted, Cleared
<1>3. TimerInv' /\ OnlyPendingArmed'
  BY DEF TimerInv, OnlyPendingArmed, LockInv, Applying, Off
<1>4. WindowNeverExtended'
  BY DEF WindowNeverExtended, LockInv, Applying, Off
<1>5. (RecordInv /\ RollsBackToGood /\ NothingStranded)'
  BY TextFacts DEF RecordInv, RollsBackToGood, NothingStranded, Pending, LockInv, Applying, Confirming, Reverted, Cleared
<1>6. ChainsInv'
  BY DEF ChainsInv, Confirming
<1>. QED BY <1>1, <1>2, <1>3, <1>4, <1>5, <1>6

\* Apply starts from a settled ruleset and snapshots it.
LEMMA AnsweredStep ==
    ASSUME IInv, NEW who \in Callers, ApplyLoad(who), LoadAnswered(who)
    PROVE  IInv'
<1>. USE ConstantsAssumption DEF IInv, TypeOK, ApplyLoad, LoadAnswered, CanLock, FreeChanges, disk
<1>1. TypeOK'
  BY TextFacts, Zenon DEF Crits, Callers, Off, LockInv, Applying
<1>2. LockInv'
  BY DEF LockInv, Applying, Confirming, Reverted, Cleared
<1>3. TimerInv' /\ OnlyPendingArmed'
  BY DEF TimerInv, OnlyPendingArmed, LockInv, Applying, Off
<1>4. WindowNeverExtended'
  BY DEF WindowNeverExtended, LockInv, Applying, Off
<1>5. (RecordInv /\ RollsBackToGood /\ NothingStranded)'
  BY TextFacts DEF RecordInv, RollsBackToGood, NothingStranded, Pending, LockInv, Applying, Confirming, Reverted, Cleared
<1>6. ChainsInv'
  BY DEF ChainsInv, Confirming
<1>. QED BY <1>1, <1>2, <1>3, <1>4, <1>5, <1>6

\* A load without an answer happens only outside Protected.
LEMMA UnansweredStep ==
    ASSUME IInv, NEW who \in Callers, ApplyLoad(who), LoadUnanswered(who)
    PROVE  IInv'
<1>. USE ConstantsAssumption DEF IInv, TypeOK, ApplyLoad, LoadUnanswered, CanLock, disk, Protected
<1>1. TypeOK'
  BY TextFacts, Zenon DEF Crits, Callers, Off, LockInv, Applying
<1>2. LockInv'
  BY DEF LockInv, Applying, Confirming, Reverted, Cleared
<1>3. TimerInv' /\ OnlyPendingArmed'
  BY DEF TimerInv, OnlyPendingArmed, LockInv, Applying, Off
<1>4. WindowNeverExtended'
  BY DEF WindowNeverExtended, LockInv, Applying, Off
<1>5. (RecordInv /\ RollsBackToGood /\ NothingStranded)'
  BY TextFacts DEF RecordInv, RollsBackToGood, NothingStranded, Pending, LockInv, Applying, Confirming, Reverted, Cleared
<1>6. ChainsInv'
  BY DEF ChainsInv, Confirming
<1>. QED BY <1>1, <1>2, <1>3, <1>4, <1>5, <1>6

LEMMA ApplyLoadStep ==
    ASSUME IInv, NEW who \in Callers, ApplyLoad(who)
    PROVE  IInv'
BY AnsweredStep, UnansweredStep, Zenon DEF ApplyLoad

\* persistPendingState records the snapshot and armWatchdog starts the timer.
LEMMA ApplyRecordStep ==
    ASSUME IInv, ApplyRecord
    PROVE  IInv'
<1>. USE ConstantsAssumption DEF IInv, TypeOK, ApplyRecord, Written, TornWrite, nft, history, Protected
<1>1. TypeOK'
  BY TextFacts DEF Crits, Callers, Off, LockInv, Applying
<1>2. LockInv'
  BY DEF LockInv, Applying, Confirming, Reverted, Cleared
<1>3. TimerInv' /\ OnlyPendingArmed'
  BY DEF TimerInv, OnlyPendingArmed, LockInv, Applying, Off
<1>4. WindowNeverExtended'
  BY DEF WindowNeverExtended, LockInv, Applying, Off
<1>5. (RecordInv /\ RollsBackToGood /\ NothingStranded)'
  BY TextFacts DEF RecordInv, RollsBackToGood, NothingStranded, Pending, LockInv, Applying, Confirming, Reverted, Cleared
<1>6. ChainsInv'
  BY DEF ChainsInv, Confirming
<1>. QED BY <1>1, <1>2, <1>3, <1>4, <1>5, <1>6

\* Apply ends by putting the chains back.
LEMMA ApplyFinishStep ==
    ASSUME IInv, ApplyFinish
    PROVE  IInv'
<1>. USE ConstantsAssumption DEF IInv, TypeOK, ApplyFinish, ReloadOutcomes, disk, history
<1>1. TypeOK'
  BY TextFacts, Zenon DEF Crits, Callers, Off, LockInv, Applying
<1>2. LockInv'
  BY DEF LockInv, Applying, Confirming, Reverted, Cleared
<1>3. TimerInv' /\ OnlyPendingArmed'
  BY DEF TimerInv, OnlyPendingArmed, LockInv, Applying, Off
<1>4. WindowNeverExtended'
  BY DEF WindowNeverExtended, LockInv, Applying, Off
<1>5. (RecordInv /\ RollsBackToGood /\ NothingStranded)'
  BY TextFacts DEF RecordInv, RollsBackToGood, NothingStranded, Pending, LockInv, Applying, Confirming, Reverted, Cleared
<1>6. ChainsInv'
  BY Zenon DEF ChainsInv, Confirming
<1>. QED BY <1>1, <1>2, <1>3, <1>4, <1>5, <1>6

\* Confirm stops the timer before it drops the change.
LEMMA ConfirmBootStep ==
    ASSUME IInv, NEW who \in Callers, ConfirmBoot(who)
    PROVE  IInv'
<1>. USE ConstantsAssumption DEF IInv, TypeOK, ConfirmBoot, CanLock, Written, ConfirmedRuleset, HookAfterConfirm, nft
<1>1. TypeOK'
  BY TextFacts DEF Crits, Callers, Off, LockInv, Applying
<1>2. LockInv'
  BY DEF LockInv, Applying, Confirming, Reverted, Cleared
<1>3. TimerInv' /\ OnlyPendingArmed'
  BY DEF TimerInv, OnlyPendingArmed, LockInv, Applying, Off
<1>4. WindowNeverExtended'
  BY DEF WindowNeverExtended, LockInv, Applying, Off
<1>5. (RecordInv /\ RollsBackToGood /\ NothingStranded)'
  BY TextFacts DEF RecordInv, RollsBackToGood, NothingStranded, Pending, LockInv, Applying, Confirming, Reverted, Cleared
<1>6. ChainsInv'
  BY DEF ChainsInv, Confirming
<1>. QED BY <1>1, <1>2, <1>3, <1>4, <1>5, <1>6

\* clearRolledBack touches the marker only.
LEMMA ConfirmUnmarkStep ==
    ASSUME IInv, ConfirmUnmark
    PROVE  IInv'
<1>. USE ConstantsAssumption DEF IInv, TypeOK, ConfirmUnmark, nft, history
<1>0. marker' \in BOOLEAN
  BY Zenon DEF Written
<1>1. TypeOK'
  BY <1>0, TextFacts DEF Crits, Callers, Off, LockInv, Applying
<1>2. LockInv'
  BY DEF LockInv, Applying, Confirming, Reverted, Cleared
<1>3. TimerInv' /\ OnlyPendingArmed'
  BY DEF TimerInv, OnlyPendingArmed, LockInv, Applying, Off
<1>4. WindowNeverExtended'
  BY DEF WindowNeverExtended, LockInv, Applying, Off
<1>5. (RecordInv /\ RollsBackToGood /\ NothingStranded)'
  BY TextFacts DEF RecordInv, RollsBackToGood, NothingStranded, Pending, LockInv, Applying, Confirming, Reverted, Cleared
<1>6. ChainsInv'
  BY DEF ChainsInv, Confirming
<1>. QED BY <1>1, <1>2, <1>3, <1>4, <1>5, <1>6

\* clearPendingState settles the confirmed ruleset.
LEMMA ConfirmClearStep ==
    ASSUME IInv, ConfirmClear
    PROVE  IInv'
<1>. USE ConstantsAssumption DEF IInv, TypeOK, ConfirmClear, Written, nft, Protected
<1>1. TypeOK'
  BY TextFacts DEF Crits, Callers, Off, LockInv, Applying
<1>2. LockInv'
  BY DEF LockInv, Applying, Confirming, Reverted, Cleared
<1>3. TimerInv' /\ OnlyPendingArmed'
  BY DEF TimerInv, OnlyPendingArmed, LockInv, Applying, Off
<1>4. WindowNeverExtended'
  BY DEF WindowNeverExtended, LockInv, Applying, Off
<1>5. (RecordInv /\ RollsBackToGood /\ NothingStranded)'
  BY TextFacts DEF RecordInv, RollsBackToGood, NothingStranded, Pending, LockInv, Applying, Confirming, Reverted, Cleared
<1>6. ChainsInv'
  BY DEF ChainsInv, Confirming
<1>. QED BY <1>1, <1>2, <1>3, <1>4, <1>5, <1>6

\* Confirm with nothing pending finds no record to lose.
LEMMA ConfirmNothingStep ==
    ASSUME IInv, NEW who \in Callers, ConfirmNothing(who)
    PROVE  IInv'
<1>. USE ConstantsAssumption DEF IInv, TypeOK, ConfirmNothing, CanLock, Written, HookAfterConfirm, nft, history, Protected
<1>1. TypeOK'
  BY TextFacts DEF Crits, Callers, Off, LockInv, Applying
<1>2. LockInv'
  BY DEF LockInv, Applying, Confirming, Reverted, Cleared
<1>3. TimerInv' /\ OnlyPendingArmed'
  BY DEF TimerInv, OnlyPendingArmed, LockInv, Applying, Off
<1>4. WindowNeverExtended'
  BY DEF WindowNeverExtended, LockInv, Applying, Off
<1>5. (RecordInv /\ RollsBackToGood /\ NothingStranded)'
  BY TextFacts DEF RecordInv, RollsBackToGood, NothingStranded, Pending, LockInv, Applying, Confirming, Reverted, Cleared
<1>6. ChainsInv'
  BY DEF ChainsInv, Confirming
<1>. QED BY <1>1, <1>2, <1>3, <1>4, <1>5, <1>6

\* The operator's rollback restores the settled ruleset.
LEMMA RollbackRevertStep ==
    ASSUME IInv, RollbackRevert
    PROVE  IInv'
<1>. USE ConstantsAssumption DEF IInv, TypeOK, RollbackRevert, CanLock, disk, history
<1>0. /\ kernel' \in Rulesets /\ chains' \in BOOLEAN
      /\ Protected => kernel' = LoadSnapshot(snap[change])
  BY RollbackFacts
<1>1. TypeOK'
  BY <1>0, TextFacts DEF Crits, Callers, Off, LockInv, Applying
<1>2. LockInv'
  BY DEF LockInv, Applying, Confirming, Reverted, Cleared
<1>3. TimerInv' /\ OnlyPendingArmed'
  BY DEF TimerInv, OnlyPendingArmed, LockInv, Applying, Off
<1>4. WindowNeverExtended'
  BY DEF WindowNeverExtended, LockInv, Applying, Off
<1>5. (RecordInv /\ RollsBackToGood /\ NothingStranded)'
  BY <1>0, TextFacts DEF RecordInv, RollsBackToGood, NothingStranded, Pending, LockInv, Applying, Confirming, Reverted, Cleared
<1>6. ChainsInv'
  BY DEF ChainsInv, Confirming
<1>. QED BY <1>1, <1>2, <1>3, <1>4, <1>5, <1>6

\* The record goes once the kernel is back on the settled ruleset.
LEMMA RollbackClearStep ==
    ASSUME IInv, RollbackClear
    PROVE  IInv'
<1>. USE ConstantsAssumption DEF IInv, TypeOK, RollbackClear, Written, nft, history, Protected
<1>1. TypeOK'
  BY TextFacts DEF Crits, Callers, Off, LockInv, Applying
<1>2. LockInv'
  BY DEF LockInv, Applying, Confirming, Reverted, Cleared
<1>3. TimerInv' /\ OnlyPendingArmed'
  BY DEF TimerInv, OnlyPendingArmed, LockInv, Applying, Off
<1>4. WindowNeverExtended'
  BY DEF WindowNeverExtended, LockInv, Applying, Off
<1>5. (RecordInv /\ RollsBackToGood /\ NothingStranded)'
  BY TextFacts DEF RecordInv, RollsBackToGood, NothingStranded, Pending, LockInv, Applying, Confirming, Reverted, Cleared
<1>6. ChainsInv'
  BY DEF ChainsInv, Confirming
<1>. QED BY <1>1, <1>2, <1>3, <1>4, <1>5, <1>6

\* A rollback ends by putting the chains back.
LEMMA RollbackFinishStep ==
    ASSUME IInv, RollbackFinish
    PROVE  IInv'
<1>. USE ConstantsAssumption DEF IInv, RollbackFinish, ReloadOutcomes, disk, history
<1>1. TypeOK'
  <2>1. chains' \in BOOLEAN
    BY Zenon
  <2>2. crit' \in Crits
    BY DEF Crits
  <2>. QED BY <2>1, <2>2 DEF TypeOK
<1>. USE DEF TypeOK
<1>2. LockInv'
  BY DEF LockInv, Applying, Confirming, Reverted, Cleared
<1>3. TimerInv' /\ OnlyPendingArmed'
  BY DEF TimerInv, OnlyPendingArmed, LockInv, Applying, Off
<1>4. WindowNeverExtended'
  BY DEF WindowNeverExtended, LockInv, Applying, Off
<1>5. (RecordInv /\ RollsBackToGood /\ NothingStranded)'
  BY TextFacts DEF RecordInv, RollsBackToGood, NothingStranded, Pending, LockInv, Applying, Confirming, Reverted, Cleared
<1>6. ChainsInv'
  BY Zenon DEF ChainsInv, Confirming
<1>. QED BY <1>1, <1>2, <1>3, <1>4, <1>5, <1>6

\* An expired timer becomes a waiting callback.
LEMMA FireStep ==
    ASSUME IInv, NEW ac \in Changes, Fire(ac)
    PROVE  IInv'
<1>. USE ConstantsAssumption DEF IInv, TypeOK, Fire, disk, nft, history
<1>1. TypeOK'
  BY TextFacts DEF Crits, Callers, Off, LockInv, Applying
<1>2. LockInv'
  BY DEF LockInv, Applying, Confirming, Reverted, Cleared
<1>3. TimerInv' /\ OnlyPendingArmed'
  BY DEF TimerInv, OnlyPendingArmed, LockInv, Applying, Off
<1>4. WindowNeverExtended'
  BY DEF WindowNeverExtended, LockInv, Applying, Off
<1>5. (RecordInv /\ RollsBackToGood /\ NothingStranded)'
  BY TextFacts DEF RecordInv, RollsBackToGood, NothingStranded, Pending, LockInv, Applying, Confirming, Reverted, Cleared
<1>6. ChainsInv'
  BY DEF ChainsInv, Confirming
<1>. QED BY <1>1, <1>2, <1>3, <1>4, <1>5, <1>6

\* The watchdog restores the settled ruleset.
LEMMA WatchdogRevertStep ==
    ASSUME IInv, NEW ac \in Changes, WatchdogRevert(ac)
    PROVE  IInv'
<1>. USE ConstantsAssumption DEF IInv, TypeOK, WatchdogRevert, disk
<1>0. /\ kernel' \in Rulesets /\ chains' \in BOOLEAN
      /\ Protected => kernel' = LoadSnapshot(snap[ac])
  BY RollbackFacts
<1>1. TypeOK'
  BY <1>0, TextFacts DEF Crits, Callers, Off, LockInv, Applying
<1>2. LockInv'
  BY DEF LockInv, Applying, Confirming, Reverted, Cleared
<1>3. TimerInv' /\ OnlyPendingArmed'
  BY DEF TimerInv, OnlyPendingArmed, LockInv, Applying, Off
<1>4. WindowNeverExtended'
  BY DEF WindowNeverExtended, LockInv, Applying, Off
<1>5. (RecordInv /\ RollsBackToGood /\ NothingStranded)'
  BY <1>0, TextFacts DEF RecordInv, RollsBackToGood, NothingStranded, Pending, LockInv, Applying, Confirming, Reverted, Cleared
<1>6. ChainsInv'
  BY DEF ChainsInv, Confirming
<1>. QED BY <1>1, <1>2, <1>3, <1>4, <1>5, <1>6

\* A callback whose change is settled does nothing.
LEMMA WatchdogStaleStep ==
    ASSUME IInv, NEW ac \in Changes, WatchdogStale(ac)
    PROVE  IInv'
<1>. USE ConstantsAssumption DEF IInv, TypeOK, WatchdogStale, disk, nft, history
<1>1. TypeOK'
  BY TextFacts DEF Crits, Callers, Off, LockInv, Applying
<1>2. LockInv'
  BY DEF LockInv, Applying, Confirming, Reverted, Cleared
<1>3. TimerInv' /\ OnlyPendingArmed'
  BY DEF TimerInv, OnlyPendingArmed, LockInv, Applying, Off
<1>4. WindowNeverExtended'
  BY DEF WindowNeverExtended, LockInv, Applying, Off
<1>5. (RecordInv /\ RollsBackToGood /\ NothingStranded)'
  BY TextFacts DEF RecordInv, RollsBackToGood, NothingStranded, Pending, LockInv, Applying, Confirming, Reverted, Cleared
<1>6. ChainsInv'
  BY DEF ChainsInv, Confirming
<1>. QED BY <1>1, <1>2, <1>3, <1>4, <1>5, <1>6

\* markRolledBack touches the marker only.
LEMMA WatchdogMarkStep ==
    ASSUME IInv, WatchdogMark
    PROVE  IInv'
<1>. USE ConstantsAssumption DEF IInv, TypeOK, WatchdogMark, nft, history
<1>0. marker' \in BOOLEAN
  BY Zenon DEF Written
<1>1. TypeOK'
  BY <1>0, TextFacts DEF Crits, Callers, Off, LockInv, Applying
<1>2. LockInv'
  BY DEF LockInv, Applying, Confirming, Reverted, Cleared
<1>3. TimerInv' /\ OnlyPendingArmed'
  BY DEF TimerInv, OnlyPendingArmed, LockInv, Applying, Off
<1>4. WindowNeverExtended'
  BY DEF WindowNeverExtended, LockInv, Applying, Off
<1>5. (RecordInv /\ RollsBackToGood /\ NothingStranded)'
  BY TextFacts DEF RecordInv, RollsBackToGood, NothingStranded, Pending, LockInv, Applying, Confirming, Reverted, Cleared
<1>6. ChainsInv'
  BY DEF ChainsInv, Confirming
<1>. QED BY <1>1, <1>2, <1>3, <1>4, <1>5, <1>6

\* Time takes from every timer what it adds to the age of the record.
LEMMA TickStep ==
    ASSUME IInv, Tick
    PROVE  IInv'
<1>. USE ConstantsAssumption DEF IInv, TypeOK, Tick, disk, nft, history
<1>1. TypeOK'
  BY TextFacts DEF Crits, Callers, Off, LockInv, Applying
<1>2. LockInv'
  BY DEF LockInv, Applying, Confirming, Reverted, Cleared
<1>3. TimerInv' /\ OnlyPendingArmed'
  BY DEF TimerInv, OnlyPendingArmed, LockInv, Applying, Off
<1>4. WindowNeverExtended'
  BY DEF WindowNeverExtended, LockInv, Applying, Off
<1>5. (RecordInv /\ RollsBackToGood /\ NothingStranded)'
  BY TextFacts DEF RecordInv, RollsBackToGood, NothingStranded, Pending, LockInv, Applying, Confirming, Reverted, Cleared
<1>6. ChainsInv'
  BY DEF ChainsInv, Confirming
<1>. QED BY <1>1, <1>2, <1>3, <1>4, <1>5, <1>6

\* The lease hook only reads the marker.
LEMMA HookCheckStep ==
    ASSUME IInv, HookCheck
    PROVE  IInv'
<1>. USE ConstantsAssumption DEF IInv, TypeOK, HookCheck, disk, nft, history
<1>1. TypeOK'
  BY TextFacts DEF Crits, Callers, Off, LockInv, Applying
<1>2. LockInv'
  BY DEF LockInv, Applying, Confirming, Reverted, Cleared
<1>3. TimerInv' /\ OnlyPendingArmed'
  BY DEF TimerInv, OnlyPendingArmed, LockInv, Applying, Off
<1>4. WindowNeverExtended'
  BY DEF WindowNeverExtended, LockInv, Applying, Off
<1>5. (RecordInv /\ RollsBackToGood /\ NothingStranded)'
  BY TextFacts DEF RecordInv, RollsBackToGood, NothingStranded, Pending, LockInv, Applying, Confirming, Reverted, Cleared
<1>6. ChainsInv'
  BY DEF ChainsInv, Confirming
<1>. QED BY <1>1, <1>2, <1>3, <1>4, <1>5, <1>6

\* A refused background apply changes nothing.
LEMMA HookGivesUpStep ==
    ASSUME IInv, HookGivesUp
    PROVE  IInv'
<1>. USE ConstantsAssumption DEF IInv, TypeOK, HookGivesUp, disk, nft, history
<1>1. TypeOK'
  BY TextFacts DEF Crits, Callers, Off, LockInv, Applying
<1>2. LockInv'
  BY DEF LockInv, Applying, Confirming, Reverted, Cleared
<1>3. TimerInv' /\ OnlyPendingArmed'
  BY DEF TimerInv, OnlyPendingArmed, LockInv, Applying, Off
<1>4. WindowNeverExtended'
  BY DEF WindowNeverExtended, LockInv, Applying, Off
<1>5. (RecordInv /\ RollsBackToGood /\ NothingStranded)'
  BY TextFacts DEF RecordInv, RollsBackToGood, NothingStranded, Pending, LockInv, Applying, Confirming, Reverted, Cleared
<1>6. ChainsInv'
  BY DEF ChainsInv, Confirming
<1>. QED BY <1>1, <1>2, <1>3, <1>4, <1>5, <1>6

\* The record outlives the process.
LEMMA CrashStep ==
    ASSUME IInv, Crash
    PROVE  IInv'
<1>. USE ConstantsAssumption DEF IInv, TypeOK, Crash, RecordAfterCrash, nft, history
<1>1. TypeOK'
  BY TextFacts, SMTT(40) DEF Crits, Callers, Off, LockInv, Applying
<1>2. LockInv'
  BY DEF LockInv, Applying, Confirming, Reverted, Cleared
<1>3. TimerInv' /\ OnlyPendingArmed'
  BY DEF TimerInv, OnlyPendingArmed, LockInv, Applying, Off
<1>4. WindowNeverExtended'
  BY DEF WindowNeverExtended, LockInv, Applying, Off
<1>0. Protected => record' = record /\ crit # "apply.loaded"
  BY DEF Protected
<1>5. (RecordInv /\ RollsBackToGood /\ NothingStranded)'
  BY <1>0, TextFacts DEF Crits, RecordInv, RollsBackToGood, NothingStranded, Pending, LockInv, Applying, Confirming, Reverted, Cleared
<1>6. ChainsInv'
  BY DEF ChainsInv, Confirming
<1>. QED BY <1>1, <1>2, <1>3, <1>4, <1>5, <1>6

\* restorePendingChange re-arms what the record holds.
LEMMA StartStep ==
    ASSUME IInv, Start
    PROVE  IInv'
<1>. USE ConstantsAssumption DEF IInv, TypeOK, Start, Remaining, disk, nft, history
<1>0. /\ change' \in Changes \cup {Nil}
      /\ snap' \in [Changes -> Snapshots \cup {NoText}]
      /\ timer' \in [Changes -> 0..Off]
      /\ change' # Nil => snap'[change'] \in Snapshots
  <2>1. CASE HoldsSnapshot(record)
    <3>1. record \in Snapshots
      BY <2>1, TextFacts
    <3>2. Remaining(age) \in 0..Off
      BY DEF Off
    <3>3. PICK ac \in Changes : /\ change' = ac
                               /\ snap' = [snap EXCEPT ![ac] = record]
                               /\ timer' = [timer EXCEPT ![ac] = Remaining(age)]
      BY <2>1
    <3>. HIDE DEF Remaining
    <3>. QED BY <3>1, <3>2, <3>3
  <2>2. CASE ~HoldsSnapshot(record)
    BY <2>2
  <2>. QED BY <2>1, <2>2
<1>1. TypeOK'
  BY <1>0 DEF Callers
<1>2. LockInv'
  BY DEF LockInv, Applying, Confirming, Reverted, Cleared
<1>3. TimerInv' /\ OnlyPendingArmed'
  BY DEF TimerInv, OnlyPendingArmed, LockInv, Applying, Off
<1>4. WindowNeverExtended'
  BY DEF WindowNeverExtended, LockInv, Applying, Off
<1>5. (RecordInv /\ RollsBackToGood /\ NothingStranded)'
  BY TextFacts DEF RecordInv, RollsBackToGood, NothingStranded, Pending, LockInv, Applying, Confirming, Reverted, Cleared
<1>6. ChainsInv'
  BY DEF ChainsInv, Confirming
<1>. QED BY <1>1, <1>2, <1>3, <1>4, <1>5, <1>6

\* The start ends by putting the chains back.
LEMMA LoadSavedStateStep ==
    ASSUME IInv, LoadSavedState
    PROVE  IInv'
<1>. USE ConstantsAssumption DEF IInv, TypeOK, LoadSavedState, disk, history
<1>0. chains' \in BOOLEAN
  BY Zenon DEF ReloadOutcomes
<1>1. TypeOK'
  BY <1>0, TextFacts, SMTT(40) DEF Crits, Callers, Off, LockInv, Applying
<1>2. LockInv'
  BY DEF LockInv, Applying, Confirming, Reverted, Cleared
<1>3. TimerInv' /\ OnlyPendingArmed'
  BY DEF TimerInv, OnlyPendingArmed, LockInv, Applying, Off
<1>4. WindowNeverExtended'
  BY DEF WindowNeverExtended, LockInv, Applying, Off
<1>5. (RecordInv /\ RollsBackToGood /\ NothingStranded)'
  BY TextFacts DEF RecordInv, RollsBackToGood, NothingStranded, Pending, LockInv, Applying, Confirming, Reverted, Cleared
<1>6. ChainsInv'
  BY Zenon DEF ReloadOutcomes, ChainsInv, Confirming
<1>. QED BY <1>1, <1>2, <1>3, <1>4, <1>5, <1>6

-----------------------------------------------------------------------------

\* The initial states: nothing pending, and the kernel's ruleset is the settled
\* one.
LEMMA InitIInv == Init => IInv
<1>. SUFFICES ASSUME Init PROVE IInv
  OBVIOUS
<1>. USE ConstantsAssumption DEF Init
<1>1. TypeOK
  <2>1. /\ kernel \in Rulesets /\ boot \in Rulesets /\ good \in Rulesets
        /\ timer \in [Changes -> 0..Off] /\ age \in 0..Window /\ crashes \in 0..MaxCrashes
    BY TextFacts DEF Off
  <2>2. chains \in BOOLEAN /\ marker \in BOOLEAN
    BY Zenon
  <2>. QED BY <2>1, <2>2 DEF TypeOK, Crits, Callers
<1>2. LockInv /\ TimerInv /\ OnlyPendingArmed /\ WindowNeverExtended
  BY DEF LockInv, TimerInv, OnlyPendingArmed, WindowNeverExtended, Applying, Confirming,
         Reverted, Cleared
<1>3. RecordInv /\ RollsBackToGood /\ NothingStranded /\ ChainsInv
  BY TextFacts DEF RecordInv, RollsBackToGood, NothingStranded, ChainsInv, Confirming,
                   Reverted, Cleared
<1>. QED BY <1>1, <1>2, <1>3 DEF IInv

\* Every step of the system preserves IInv.
LEMMA NextIInv == IInv /\ [Next]_vars => IInv'
<1>. SUFFICES ASSUME IInv, [Next]_vars PROVE IInv'
  OBVIOUS
<1>1. ASSUME NEW c \in Configs, Edit(c) PROVE IInv'
  BY <1>1, EditStep
<1>2. ASSUME NEW who \in Callers,
             ApplyLoad(who) \/ ConfirmBoot(who) \/ ConfirmNothing(who)
      PROVE  IInv'
  BY <1>2, ApplyLoadStep, ConfirmBootStep, ConfirmNothingStep
<1>3. CASE RollbackRevert
  BY <1>3, RollbackRevertStep
<1>4. CASE Settle
  BY <1>4, ApplyRecordStep, ApplyFinishStep, ConfirmUnmarkStep, ConfirmClearStep,
     RollbackClearStep, WatchdogMarkStep, RollbackFinishStep DEF Settle
<1>5. ASSUME NEW ac \in Changes, Fire(ac) \/ WatchdogRevert(ac) \/ WatchdogStale(ac)
      PROVE  IInv'
  BY <1>5, FireStep, WatchdogRevertStep, WatchdogStaleStep
<1>6. CASE Tick \/ HookCheck \/ HookGivesUp
  BY <1>6, TickStep, HookCheckStep, HookGivesUpStep
<1>7. CASE Crash \/ Start \/ LoadSavedState
  BY <1>7, CrashStep, StartStep, LoadSavedStateStep
<1>8. CASE UNCHANGED vars
  <2>. USE <1>8 DEF vars, disk, nft, memory, history
  <2>1. TypeOK'
    BY SMTT(40) DEF IInv, TypeOK, Pending
  <2>2. LockInv'
    BY DEF IInv, LockInv, Applying, Confirming, Reverted, Cleared
  <2>3. TimerInv'
    BY DEF IInv, TimerInv
  <2>4. OnlyPendingArmed' /\ WindowNeverExtended'
    BY DEF IInv, OnlyPendingArmed, WindowNeverExtended, Pending, Applying
  <2>5. RecordInv'
    BY DEF IInv, RecordInv, Confirming, Reverted, Cleared, HoldsSnapshot
  <2>6. RollsBackToGood'
    BY DEF IInv, RollsBackToGood, Pending, Confirming, Reverted, Cleared, HoldsSnapshot
  <2>7. NothingStranded'
    BY DEF IInv, NothingStranded, Pending, Confirming, Reverted, Cleared, HoldsSnapshot
  <2>8. ChainsInv'
    BY DEF IInv, ChainsInv, Confirming
  <2>. QED BY <2>1, <2>2, <2>3, <2>4, <2>5, <2>6, <2>7, <2>8 DEF IInv
<1>. QED BY <1>1, <1>2, <1>3, <1>4, <1>5, <1>6, <1>7, <1>8 DEF Next

\* IInv holds in every reachable state.
THEOREM Invariance == Spec => []IInv
  BY InitIInv, NextIInv, PTL DEF Spec

\* Every variable keeps its type, and a live change always has a snapshot its
\* rollback can load.
THEOREM TypeCorrect == Spec => []TypeOK
<1>1. IInv => TypeOK
  BY DEF IInv
<1>. QED BY <1>1, Invariance, PTL

\* The window: an unconfirmed ruleset is reverted no later than Window ticks
\* after its load, across restarts (restorePendingChange).
THEOREM WatchdogTimers == Spec => []WindowNeverExtended
<1>1. IInv => WindowNeverExtended
  BY DEF IInv
<1>. QED BY <1>1, Invariance, PTL

\* Only the pending change has a timer running, so no timer of a settled change
\* is left to revert a later ruleset (armWatchdog, Confirm, Rollback).
THEOREM NoTimerLeftBehind == Spec => []OnlyPendingArmed
<1>1. IInv => OnlyPendingArmed
  BY DEF IInv
<1>. QED BY <1>1, Invariance, PTL

\* A rollback, from memory or from the record after a restart, always leads to
\* the ruleset last settled.
THEOREM RollbackTarget == Spec => []RollsBackToGood
<1>1. IInv => RollsBackToGood
  BY DEF IInv
<1>. QED BY <1>1, Invariance, PTL

\* No sequence of applies, edits, timers, background confirmations, crashes and
\* restarts leaves an unsettled ruleset in force with nothing pending.
THEOREM NeverStranded == Spec => []NothingStranded
<1>1. IInv => NothingStranded
  BY DEF IInv
<1>. QED BY <1>1, Invariance, PTL

\* The chains of the routing service are back after every load and every start.
THEOREM ChainsBack == Spec => []ChainsRestored
<1>1. IInv => ChainsRestored
  BY DEF IInv, ChainsInv, ChainsRestored
<1>. QED BY <1>1, Invariance, PTL

-----------------------------------------------------------------------------

\* BootInv holds at first and every step preserves it: only an apply, which
\* keeps the text it loads, puts a ruleset in force while a change is pending.
LEMMA BootSteps == IInv /\ BootInv /\ [Next]_vars => BootInv'
<1>. SUFFICES ASSUME IInv, BootInv, [Next]_vars, crashes' = 0
              PROVE  /\ proc' = "up" /\ boot' \in confirmed' \cup {InstallerRuleset}
                     /\ change' # Nil => applied' = kernel'
  BY DEF BootInv
<1>0. crashes \in Nat
  BY ConstantsAssumption DEF IInv, TypeOK
<1>1. ~Crash
  BY <1>0 DEF Crash
<1>2. crashes = 0
  <2>1. crashes' = crashes
    BY <1>1, Zenon DEF Next, Edit, ApplyLoad, LoadAnswered, LoadUnanswered, ConfirmBoot, ConfirmNothing, RollbackRevert,
                Settle, ApplyRecord, ApplyFinish, ConfirmUnmark, ConfirmClear, RollbackClear,
                WatchdogMark, RollbackFinish, Fire, WatchdogRevert, WatchdogStale, Tick,
                HookCheck, HookGivesUp, Start, LoadSavedState, vars, memory
  <2>. QED BY <2>1
<1>. USE <1>2 DEF BootInv, disk, nft, history
<1>3. ASSUME NEW c \in Configs, Edit(c)
      PROVE  proc' = "up" /\ BootInv'
  BY <1>3 DEF Edit
<1>4. ASSUME NEW who \in Callers, ApplyLoad(who)
      PROVE  BootInv'
  BY <1>4 DEF ApplyLoad, LoadAnswered, LoadUnanswered
<1>5. ASSUME NEW who \in Callers, ConfirmBoot(who)
      PROVE  BootInv'
  <2>1. ConfirmedRuleset = kernel
    BY <1>5, TextFacts DEF ConfirmBoot, ConfirmedRuleset, IInv, TypeOK
  <2>. QED BY <1>5, <2>1 DEF ConfirmBoot, Written
<1>6. ASSUME NEW who \in Callers, ConfirmNothing(who)
      PROVE  BootInv'
  BY <1>6 DEF ConfirmNothing
<1>7. CASE RollbackRevert
  BY <1>7 DEF RollbackRevert
<1>8. CASE Settle
  BY <1>8, Zenon DEF Settle, ApplyRecord, ApplyFinish, ConfirmUnmark, ConfirmClear, RollbackClear,
              WatchdogMark, RollbackFinish
<1>9. ASSUME NEW ac \in Changes, Fire(ac) \/ WatchdogRevert(ac) \/ WatchdogStale(ac)
      PROVE  BootInv'
  BY <1>9, Zenon DEF Fire, WatchdogRevert, WatchdogStale
<1>10. CASE Tick \/ HookCheck \/ HookGivesUp \/ Start \/ LoadSavedState
  BY <1>10 DEF Tick, HookCheck, HookGivesUp, Start, LoadSavedState
<1>11. CASE UNCHANGED vars
  BY <1>11 DEF vars, memory
<1>. QED BY <1>1, <1>3, <1>4, <1>5, <1>6, <1>7, <1>8, <1>9, <1>10, <1>11 DEF Next

\* Until the first restart the boot file holds the installer's ruleset or one
\* that somebody confirmed, however the config is edited meanwhile and whatever
\* write fails (Confirm, appliedRuleset).
THEOREM ConfirmedBoots == Spec => []BootUntilRestart
<1>1. Init => BootInv
  BY DEF Init, BootInv
<1>2. BootInv => BootUntilRestart
  BY DEF BootInv, BootUntilRestart, BootOnlyConfirmed
<1>. QED BY <1>1, <1>2, BootSteps, Invariance, PTL DEF Spec

-----------------------------------------------------------------------------

\* What each step does to the kernel: a load of the current config with nothing
\* pending, a rollback of the pending change, or nothing.
LEMMA KernelSteps ==
    ASSUME IInv, [Next]_vars
    PROVE  \/ kernel' = kernel
           \/ change = Nil /\ crit = "free" /\ proc = "up" /\ kernel' = RenderConfig(cfg)
           \/ change # Nil /\ (Protected => kernel' = LoadSnapshot(snap[change]))
<1>. USE DEF nft
<1>1. ASSUME NEW c \in Configs, Edit(c) PROVE kernel' = kernel
  BY <1>1 DEF Edit
<1>2. ASSUME NEW who \in Callers, ApplyLoad(who)
      PROVE  change = Nil /\ crit = "free" /\ proc = "up" /\ kernel' = RenderConfig(cfg)
  BY <1>2 DEF ApplyLoad, CanLock
<1>3. ASSUME NEW who \in Callers, ConfirmBoot(who) \/ ConfirmNothing(who)
      PROVE  kernel' = kernel
  BY <1>3 DEF ConfirmBoot, ConfirmNothing
<1>4. ASSUME NEW ac \in Changes, change = ac,
             \E o \in RollbackOutcomes(snap[ac]) : kernel' = o[1] /\ chains' = o[2]
      PROVE  change # Nil /\ (Protected => kernel' = LoadSnapshot(snap[change]))
  BY <1>4, RollbackFacts, ConstantsAssumption DEF IInv, TypeOK
<1>5. CASE RollbackRevert
  BY <1>4, <1>5 DEF RollbackRevert, IInv, TypeOK
<1>6. ASSUME NEW ac \in Changes, WatchdogRevert(ac)
      PROVE  change # Nil /\ (Protected => kernel' = LoadSnapshot(snap[change]))
  BY <1>4, <1>6 DEF WatchdogRevert
<1>7. ASSUME NEW ac \in Changes, Fire(ac) \/ WatchdogStale(ac) PROVE kernel' = kernel
  BY <1>7 DEF Fire, WatchdogStale
<1>8. CASE Settle
  BY <1>8, Zenon DEF Settle, ApplyRecord, ApplyFinish, ConfirmUnmark, ConfirmClear, RollbackClear,
              WatchdogMark, RollbackFinish
<1>9. CASE Tick \/ HookCheck \/ HookGivesUp \/ Crash \/ Start \/ LoadSavedState
  BY <1>9 DEF Tick, HookCheck, HookGivesUp, Crash, Start, LoadSavedState
<1>10. CASE UNCHANGED vars
  BY <1>10 DEF vars
<1>. QED BY <1>1, <1>2, <1>3, <1>5, <1>6, <1>7, <1>8, <1>9, <1>10 DEF Next

\* A settled ruleset leaves the kernel only by a fresh load: no late callback
\* reverts it, whatever faults happen.
THEOREM SettledRulesetStays == Spec => SettledStays
<1>1. IInv /\ [Next]_vars
      => [crit = "free" /\ change = Nil /\ kernel' # kernel => kernel' = RenderConfig(cfg)]_vars
  BY KernelSteps
<1>. QED BY <1>1, Invariance, PTL DEF Spec, SettledStays

\* Only the end of Confirm changes which ruleset is the settled one, and it
\* takes the one in force (ConfirmClear).
LEMMA SettledSteps ==
    ASSUME [Next]_vars
    PROVE  good' = good \/ (good' = kernel /\ kernel' = kernel)
<1>. USE DEF nft, history
<1>1. ASSUME NEW c \in Configs, Edit(c) PROVE good' = good
  BY <1>1 DEF Edit
<1>2. ASSUME NEW who \in Callers,
             ApplyLoad(who) \/ ConfirmBoot(who) \/ ConfirmNothing(who)
      PROVE  good' = good
  BY <1>2 DEF ApplyLoad, LoadAnswered, LoadUnanswered, ConfirmBoot, ConfirmNothing
<1>3. CASE RollbackRevert
  BY <1>3 DEF RollbackRevert
<1>4. ASSUME NEW ac \in Changes, Fire(ac) \/ WatchdogRevert(ac) \/ WatchdogStale(ac)
      PROVE  good' = good
  BY <1>4, Zenon DEF Fire, WatchdogRevert, WatchdogStale
<1>5. CASE Settle
  BY <1>5, Zenon DEF Settle, ApplyRecord, ApplyFinish, ConfirmUnmark, ConfirmClear, RollbackClear,
              WatchdogMark, RollbackFinish
<1>6. CASE Tick \/ HookCheck \/ HookGivesUp \/ Crash \/ Start \/ LoadSavedState
  BY <1>6 DEF Tick, HookCheck, HookGivesUp, Crash, Start, LoadSavedState
<1>7. CASE UNCHANGED vars
  BY <1>7 DEF vars
<1>. QED BY <1>1, <1>2, <1>3, <1>4, <1>5, <1>6, <1>7 DEF Next

\* The service implements the guarded trial: with kernel as the live choice and
\* good as the settled one, every load starts from a settled ruleset and every
\* rollback returns to it.
THEOREM WatchdogImplementsTrial ==
    ASSUME Protected
    PROVE  Spec => ImplementsTrial
<1>1. Init => Trial!Init
  BY TextFacts DEF Init, Trial!Init
<1>2. ASSUME IInv, [Next]_vars PROVE [Trial!Next]_(Trial!vars)
  <2>1. CASE kernel' = kernel
    BY <2>1, <1>2, SettledSteps
       DEF Trial!Next, Trial!Keep, Trial!vars
  <2>2. CASE kernel' # kernel /\ change = Nil /\ crit = "free" /\ proc = "up"
             /\ kernel' = RenderConfig(cfg)
    <3>1. kernel = good
      BY <2>2, <1>2, Protected DEF IInv, NothingStranded, RecordInv, Pending
    <3>2. kernel' \in Rulesets
      BY <2>2, <1>2, TextFacts DEF IInv, TypeOK
    <3>. QED BY <2>2, <3>1, <3>2, <1>2, SettledSteps DEF Trial!Next, Trial!Try
  <2>3. CASE kernel' # kernel /\ change # Nil /\ kernel' = LoadSnapshot(snap[change])
    <3>1. kernel' = good
      BY <2>3, <1>2, Protected DEF IInv, RollsBackToGood
    <3>. QED BY <2>3, <3>1, <1>2, SettledSteps DEF Trial!Next, Trial!Revert
  <2>. QED BY <2>1, <2>2, <2>3, <1>2, KernelSteps, Protected
<1>. QED BY <1>1, <1>2, Invariance, PTL DEF Spec, ImplementsTrial, Trial!Spec

=============================================================================
