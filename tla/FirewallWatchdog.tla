-------------------------- MODULE FirewallWatchdog --------------------------
(* The firewall's apply / confirm / roll-back protocol: FirewallService       *)
(* (internal/services/firewall.go), the AtomicChange it drives                *)
(* (internal/netutil/atomic.go) and the IPv6 lease hook that re-applies the   *)
(* saved config in the background (internal/web/server.go).                   *)
(*                                                                            *)
(* Every operation runs under FirewallService.mu.  Inside one, a step of the  *)
(* model is one persistent effect (a kernel load, a file written or removed), *)
(* because the process can die between any two of them and because            *)
(* ApplyAndConfirm reads the rolled-back marker without the lock.             *)
EXTENDS Naturals, FiniteSets

CONSTANTS
    Configs,      \* values of the firewall section of router.yaml
    Changes,      \* identities (pointers) of AtomicChange values
    Nil,          \* the nil pointer; also "no config" in a text
    Window,       \* firewallConfirmWindow, in ticks
    MaxCrashes,   \* bound: how often the web process dies
    Faults        \* the faults a run lets happen, a subset of FaultKinds

FaultKinds == {"gap", "nft", "disk", "save", "hook"}

ASSUME ConstantsAssumption ==
    /\ Nil \notin Configs /\ Nil \notin Changes
    /\ Window \in Nat /\ MaxCrashes \in Nat
    /\ Faults \subseteq FaultKinds

VARIABLES
    cfg,         \* the in-memory firewall config
    saved,       \* the one in router.yaml
    kernel,      \* the ruleset in force, without the policy-routing chains
    chains,      \* whether the current policy-routing chains are in the kernel
    boot,        \* /etc/nftables.conf
    record,      \* firewall-pending.json: the snapshot it holds, if any
    marker,      \* whether firewall-pending.json.rolledback exists
    proc,        \* the web process: "down", "starting", "up"
    crashes,     \* how often it has died
    change,      \* FirewallService.change
    snap,        \* AtomicChange.snapshot
    applied,     \* FirewallService.appliedRuleset
    timer,       \* AtomicChange.timer: ticks to go, or Off
    callbacks,   \* changes whose timer fired and whose callback wants the lock
    age,         \* ticks since the record's AppliedAt (saturates at Window)
    crit,        \* where the holder of FirewallService.mu is, "free" if nobody
    hook,        \* the lease hook inside ApplyAndConfirm
    good,        \* history: the ruleset last settled (confirmed, or the first)
    owner,       \* history: who applied the change in progress
    confirmed,   \* history: every ruleset some caller confirmed
    reverted     \* history: rulesets the watchdog reverted since the operator
                 \*          last confirmed one

disk == <<saved, boot, record, marker>>
nft == <<kernel, chains>>
memory == <<cfg, change, snap, applied, timer, callbacks, crit, hook>>
history == <<good, owner, confirmed, reverted>>
vars == <<disk, nft, memory, history, proc, crashes, age>>

Off == Window + 1

-----------------------------------------------------------------------------
(* nft texts.  A config is rendered to a text; the installer ships one; the   *)
(* empty ruleset lists as the empty string.                                   *)

Text(kind, of) == [kind |-> kind, of |-> of]
RenderConfig(c) == Text("rendered", c)
InstallerRuleset == Text("installer", Nil)
EmptyRuleset == Text("empty", Nil)
NoText == Text("none", Nil)
EmptyRulesetSnapshot == Text("comment", Nil)
TornText == Text("torn", Nil)

Rulesets == {RenderConfig(c) : c \in Configs} \cup {InstallerRuleset, EmptyRuleset}
Snapshots == (Rulesets \ {EmptyRuleset}) \cup {EmptyRulesetSnapshot}

\* What `nft list ruleset` prints.
ListRuleset(k) == IF k = EmptyRuleset THEN NoText ELSE k

\* Snapshot without the replacement of an empty listing.
SnapshotKeepsEmpty(k) == ListRuleset(k)

\* AtomicChange.Snapshot: an empty listing is stored as a comment, so that it
\* is not mistaken for "no snapshot".
Snapshot(k) == IF ListRuleset(k) = NoText THEN EmptyRulesetSnapshot ELSE ListRuleset(k)

\* What loading "flush ruleset" followed by the snapshot leaves in the kernel.
LoadSnapshot(t) == IF t = EmptyRulesetSnapshot THEN EmptyRuleset ELSE t

HoldsSnapshot(r) == r \notin {NoText, TornText}

\* AtomicChange.Rollback: what it can leave in the kernel.  No snapshot is an
\* error and changes nothing; the flush and the load are one transaction, so a
\* failed load keeps the current ruleset.  A restored snapshot carries at best
\* the routing chains of the time it was taken.
RollbackOutcomes(t) ==
    IF t = NoText THEN {<<kernel, chains>>}
    ELSE {<<LoadSnapshot(t), FALSE>>}
         \cup (IF "nft" \in Faults THEN {<<kernel, chains>>} ELSE {})

\* ConfirmedRuleset without the text Apply kept.
ConfirmedRulesetRendersAgain == RenderConfig(cfg)

\* The ruleset Confirm writes to the boot file: the text Apply rendered, or a
\* fresh rendering when the change was restored after a restart.
ConfirmedRuleset == IF applied = NoText THEN RenderConfig(cfg) ELSE applied

\* Remaining that ignores the record's AppliedAt.
RemainingStartsOver(a) == Window

\* restorePendingChange: what is left of the window.
Remaining(a) == IF a > Window THEN 0 ELSE Window - a

\* Best-effort writes and removals: the new value, or, when the disk fails,
\* the old one.
Written(new, old) == {new} \cup (IF "disk" \in Faults THEN {old} ELSE {})

\* os.WriteFile truncates before it writes, so a failed one can also leave the
\* record cut short.
TornWrite == IF "disk" \in Faults THEN {TornText} ELSE {}

-----------------------------------------------------------------------------

Init ==
    /\ cfg \in Configs /\ saved = cfg
    /\ kernel \in {InstallerRuleset, EmptyRuleset} /\ chains = TRUE
    /\ boot = InstallerRuleset
    /\ record = NoText /\ marker = FALSE
    /\ proc = "up" /\ crashes = 0
    /\ change = Nil /\ applied = NoText
    /\ snap = [ac \in Changes |-> NoText]
    /\ timer = [ac \in Changes |-> Off]
    /\ callbacks = {} /\ age = Window
    /\ crit = "free" /\ hook = "idle"
    /\ good = kernel /\ owner = Nil /\ confirmed = {} /\ reverted = {}

\* A request can take FirewallService.mu.
CanLock == proc = "up" /\ crit = "free"

-----------------------------------------------------------------------------
(* Editing the config: AddOpenPort, RemoveRule, SetTTLFix and the others all  *)
(* go through mutate, which changes the config and saves it.  They are        *)
(* allowed while a change is pending.                                         *)

Edit(c) ==
    /\ CanLock
    /\ cfg' = c
    /\ saved' \in {c} \cup (IF "save" \in Faults THEN {saved} ELSE {})
    /\ UNCHANGED <<kernel, chains, boot, record, marker, proc, crashes, change, snap,
                   applied, timer, callbacks, age, crit, hook, history>>

-----------------------------------------------------------------------------
(* Apply, called by the operator's page or by ApplyAndConfirm.                *)

Callers == {"operator", "background"}

\* The caller is at the point where it calls Apply.
CallsApply(who) == who = "background" => hook = "checked"

FreeChanges == Changes \ ({change} \cup callbacks)

\* ApplyLoad without the ErrChangePending check: the new change replaces the
\* pending one.
ApplyLoadSupersedes(who) ==
    /\ CanLock /\ CallsApply(who)
    /\ \E ac \in FreeChanges :
        /\ change' = ac
        /\ snap' = [snap EXCEPT ![ac] = Snapshot(kernel)]
    /\ kernel' = RenderConfig(cfg) /\ chains' = FALSE
    /\ applied' = RenderConfig(cfg)
    /\ owner' = who
    /\ crit' = "apply.loaded"
    /\ UNCHANGED <<cfg, disk, proc, crashes, timer, callbacks, age, hook,
                   good, confirmed, reverted>>

\* `nft -f` answers: the change is pending, with the snapshot taken before the
\* load and the text that was loaded.
LoadAnswered(who) ==
    /\ \E ac \in FreeChanges :
        /\ change' = ac
        /\ snap' = [snap EXCEPT ![ac] = Snapshot(kernel)]
    /\ applied' = RenderConfig(cfg)
    /\ owner' = who
    /\ crit' = "apply.loaded"
    /\ UNCHANGED hook

\* The agent loads the file but its answer is lost: Apply returns the error and
\* keeps no trace of the load.
LoadUnanswered(who) ==
    /\ "gap" \in Faults
    /\ hook' = IF who = "background" THEN "idle" ELSE hook
    /\ UNCHANGED <<change, snap, applied, owner, crit>>

\* Apply up to and including `nft -f`: refused while a change is pending, else
\* the saved config is rendered, the kernel is snapshotted and the file loaded.
ApplyLoad(who) ==
    /\ CanLock /\ CallsApply(who)
    /\ change = Nil
    /\ kernel' = RenderConfig(cfg) /\ chains' = FALSE
    /\ LoadAnswered(who) \/ LoadUnanswered(who)
    /\ UNCHANGED <<cfg, disk, proc, crashes, timer, callbacks, age, good, confirmed, reverted>>

\* persistPendingState, then armWatchdog.
ApplyRecord ==
    /\ crit = "apply.loaded"
    /\ record' \in Written(snap[change], record) \cup TornWrite
    /\ age' = 0
    /\ timer' = [timer EXCEPT ![change] = Window]
    /\ crit' = "apply.recorded"
    /\ UNCHANGED <<cfg, saved, nft, boot, marker, proc, crashes, change, snap,
                   applied, callbacks, hook, history>>

\* runAfterReload: the routing service puts its chains back; a failure is
\* logged.
ReloadOutcomes == {TRUE} \cup (IF "hook" \in Faults THEN {FALSE} ELSE {})

ApplyFinish ==
    /\ crit = "apply.recorded"
    /\ chains' \in ReloadOutcomes
    /\ crit' = "free"
    /\ hook' = IF owner = "background" THEN "applied" ELSE hook
    /\ UNCHANGED <<cfg, disk, kernel, proc, crashes, change, snap, applied,
                   timer, callbacks, age, history>>

-----------------------------------------------------------------------------
(* Confirm.                                                                   *)

CallsConfirm(who) == who = "background" => hook = "applied"

\* The lease hook returns once its Confirm has run.
HookAfterConfirm(who) == IF who = "background" THEN "idle" ELSE hook

\* A pending change: its timer is stopped, the change is dropped and the
\* confirmed ruleset is written to the boot file.
ConfirmBoot(who) ==
    /\ CanLock /\ CallsConfirm(who)
    /\ change # Nil
    /\ timer' = [timer EXCEPT ![change] = Off]
    /\ change' = Nil
    /\ boot' \in Written(ConfirmedRuleset, boot)
    /\ applied' = NoText
    /\ crit' = "confirm.booted"
    /\ hook' = HookAfterConfirm(who)
    /\ confirmed' = confirmed \cup {kernel}
    /\ reverted' = IF who = "operator" THEN {} ELSE reverted
    /\ UNCHANGED <<cfg, saved, nft, record, marker, proc, crashes, snap,
                   callbacks, age, good, owner>>

\* clearRolledBack.
ConfirmUnmark ==
    /\ crit = "confirm.booted"
    /\ marker' \in Written(FALSE, marker)
    /\ crit' = "confirm.unmarked"
    /\ UNCHANGED <<cfg, saved, nft, boot, record, proc, crashes, change, snap,
                   applied, timer, callbacks, age, hook, history>>

\* clearPendingState: the change is settled.
ConfirmClear ==
    /\ crit = "confirm.unmarked"
    /\ record' \in Written(NoText, record)
    /\ good' = kernel
    /\ crit' = "free"
    /\ UNCHANGED <<cfg, saved, nft, boot, marker, proc, crashes, change, snap,
                   applied, timer, callbacks, age, hook, owner, confirmed, reverted>>

\* Confirm with nothing pending only removes the record.
ConfirmNothing(who) ==
    /\ CanLock /\ CallsConfirm(who)
    /\ change = Nil
    /\ record' \in Written(NoText, record)
    /\ hook' = HookAfterConfirm(who)
    /\ UNCHANGED <<cfg, saved, nft, boot, marker, proc, crashes, change, snap,
                   applied, timer, callbacks, age, crit, history>>

-----------------------------------------------------------------------------
(* Rollback on the operator's page.                                           *)

\* The timer is stopped, the snapshot is loaded and the change is dropped, even
\* when the load failed.
RollbackRevert ==
    /\ CanLock
    /\ change # Nil
    /\ timer' = [timer EXCEPT ![change] = Off]
    /\ \E o \in RollbackOutcomes(snap[change]) : kernel' = o[1] /\ chains' = o[2]
    /\ change' = Nil
    /\ crit' = "rollback.reverted"
    /\ UNCHANGED <<cfg, disk, proc, crashes, snap, applied, callbacks, age,
                   hook, history>>

\* clearPendingState, of a rollback by the operator or by the watchdog.
RollbackClear ==
    /\ crit \in {"rollback.reverted", "watchdog.reverted"}
    /\ record' \in Written(NoText, record)
    /\ crit' = IF crit = "rollback.reverted" THEN "rollback.cleared" ELSE "watchdog.cleared"
    /\ UNCHANGED <<cfg, saved, nft, boot, marker, proc, crashes, change, snap,
                   applied, timer, callbacks, age, hook, history>>

\* RollbackFinish without the hook.
RollbackFinishNoReload ==
    /\ crit \in {"rollback.cleared", "watchdog.marked"}
    /\ crit' = "free"
    /\ UNCHANGED <<cfg, disk, nft, proc, crashes, change, snap, applied,
                   timer, callbacks, age, hook, history>>

\* runAfterReload, of a rollback by the operator or by the watchdog.
RollbackFinish ==
    /\ crit \in {"rollback.cleared", "watchdog.marked"}
    /\ chains' \in ReloadOutcomes
    /\ crit' = "free"
    /\ UNCHANGED <<cfg, disk, kernel, proc, crashes, change, snap, applied,
                   timer, callbacks, age, hook, history>>

-----------------------------------------------------------------------------
(* The watchdog: a timer per change, and the callback it starts.              *)

\* The timer expires: time.AfterFunc starts the callback's goroutine.
Fire(ac) ==
    /\ proc # "down"
    /\ timer[ac] = 0
    /\ timer' = [timer EXCEPT ![ac] = Off]
    /\ callbacks' = callbacks \cup {ac}
    /\ UNCHANGED <<cfg, disk, nft, proc, crashes, change, snap, applied, age,
                   crit, hook, history>>

\* WatchdogRevert without the check that the change is still the pending one.
WatchdogRevertAlways(ac) ==
    /\ proc # "down" /\ crit = "free"
    /\ ac \in callbacks
    /\ change' = Nil
    /\ \E o \in RollbackOutcomes(snap[ac]) : kernel' = o[1] /\ chains' = o[2]
    /\ callbacks' = callbacks \ {ac}
    /\ crit' = "watchdog.reverted"
    /\ reverted' = reverted \cup {kernel}
    /\ UNCHANGED <<cfg, disk, proc, crashes, snap, applied, timer, age, hook,
                   good, owner, confirmed>>

\* The callback has the lock and its change is still the pending one: the
\* snapshot is loaded and the change is dropped, even when the load failed.
WatchdogRevert(ac) ==
    /\ proc # "down" /\ crit = "free"
    /\ ac \in callbacks
    /\ change = ac
    /\ change' = Nil
    /\ \E o \in RollbackOutcomes(snap[ac]) : kernel' = o[1] /\ chains' = o[2]
    /\ callbacks' = callbacks \ {ac}
    /\ crit' = "watchdog.reverted"
    /\ reverted' = reverted \cup {kernel}
    /\ UNCHANGED <<cfg, disk, proc, crashes, snap, applied, timer, age, hook,
                   good, owner, confirmed>>

\* The callback has the lock and its change was settled meanwhile.
WatchdogStale(ac) ==
    /\ proc # "down" /\ crit = "free"
    /\ ac \in callbacks
    /\ change # ac
    /\ callbacks' = callbacks \ {ac}
    /\ UNCHANGED <<cfg, disk, nft, proc, crashes, change, snap, applied, timer,
                   age, crit, hook, history>>

\* markRolledBack.
WatchdogMark ==
    /\ crit = "watchdog.cleared"
    /\ marker' \in Written(TRUE, marker)
    /\ crit' = "watchdog.marked"
    /\ UNCHANGED <<cfg, saved, nft, boot, record, proc, crashes, change, snap,
                   applied, timer, callbacks, age, hook, history>>

\* Time passes.  A timer that is due fires before the next tick.
Tick ==
    /\ \A ac \in Changes : timer[ac] # 0
    /\ age < Window \/ \E ac \in Changes : timer[ac] # Off
    /\ age' = IF age < Window THEN age + 1 ELSE age
    /\ timer' = [ac \in Changes |-> IF timer[ac] = Off THEN Off ELSE timer[ac] - 1]
    /\ UNCHANGED <<cfg, disk, nft, proc, crashes, change, snap, applied,
                   callbacks, crit, hook, history>>

-----------------------------------------------------------------------------
(* The IPv6 lease hook: ApplyAndConfirm.                                      *)

\* os.Stat of the marker, without the lock.
HookCheck ==
    /\ proc = "up"
    /\ hook = "idle"
    /\ ~marker
    /\ hook' = "checked"
    /\ UNCHANGED <<cfg, disk, nft, proc, crashes, change, snap, applied, timer,
                   callbacks, age, crit, history>>

\* Apply refuses (ErrChangePending), or fails before anything is loaded.
HookGivesUp ==
    /\ CanLock
    /\ hook = "checked"
    /\ hook' = "idle"
    /\ UNCHANGED <<cfg, disk, nft, proc, crashes, change, snap, applied, timer,
                   callbacks, age, crit, history>>

-----------------------------------------------------------------------------
(* The web process dies (a crash, a kill, an update's restart) and systemd    *)
(* starts it again.                                                           *)

\* Dying before persistPendingState has written the record leaves no record, or
\* one cut short, because os.WriteFile truncates and then writes.
RecordAfterCrash == IF crit = "apply.loaded" THEN {record, TornText} ELSE {record}

Crash ==
    /\ proc # "down"
    /\ crashes < MaxCrashes
    /\ crit = "apply.loaded" => "gap" \in Faults
    /\ proc' = "down" /\ crashes' = crashes + 1
    /\ record' \in RecordAfterCrash
    /\ change' = Nil /\ applied' = NoText
    /\ snap' = [ac \in Changes |-> NoText]
    /\ timer' = [ac \in Changes |-> Off]
    /\ callbacks' = {}
    /\ crit' = "free" /\ hook' = "idle"
    /\ UNCHANGED <<cfg, saved, nft, boot, marker, age, history>>

\* NewFirewallService: the config is read and restorePendingChange re-arms the
\* watchdog from a readable record.
Start ==
    /\ proc = "down"
    /\ proc' = "starting"
    /\ cfg' = saved
    /\ IF HoldsSnapshot(record)
       THEN \E ac \in Changes :
              /\ change' = ac
              /\ snap' = [snap EXCEPT ![ac] = record]
              /\ timer' = [timer EXCEPT ![ac] = Remaining(age)]
       ELSE UNCHANGED <<change, snap, timer>>
    /\ UNCHANGED <<disk, nft, crashes, applied, callbacks, age, crit, hook, history>>

\* loadSavedState puts the routing chains back, and the server then listens and
\* starts the lease watcher.
LoadSavedState ==
    /\ proc = "starting"
    /\ chains' \in ReloadOutcomes
    /\ proc' = "up"
    /\ UNCHANGED <<cfg, disk, kernel, crashes, change, snap, applied, timer,
                   callbacks, age, crit, hook, history>>

-----------------------------------------------------------------------------

Settle ==
    \/ ApplyRecord \/ ApplyFinish
    \/ ConfirmUnmark \/ ConfirmClear
    \/ RollbackClear \/ WatchdogMark \/ RollbackFinish

Next ==
    \/ \E c \in Configs : Edit(c)
    \/ \E who \in Callers : ApplyLoad(who) \/ ConfirmBoot(who) \/ ConfirmNothing(who)
    \/ RollbackRevert
    \/ Settle
    \/ \E ac \in Changes : Fire(ac) \/ WatchdogRevert(ac) \/ WatchdogStale(ac)
    \/ Tick
    \/ HookCheck \/ HookGivesUp
    \/ Crash \/ Start \/ LoadSavedState

\* The holder of the lock goes on, timers fire on time, a waiting callback gets
\* the lock (Go mutexes do not starve), systemd restarts the process, and the
\* lease hook, once past Apply, calls Confirm.  Nothing is assumed of the
\* operator or of the lease.
Fairness ==
    /\ WF_vars(Settle)
    /\ WF_vars(Tick)
    /\ \A ac \in Changes : WF_vars(Fire(ac)) /\ WF_vars(WatchdogRevert(ac) \/ WatchdogStale(ac))
    /\ WF_vars(ConfirmBoot("background") \/ ConfirmNothing("background"))
    /\ WF_vars(Start) /\ WF_vars(LoadSavedState)

Spec == Init /\ [][Next]_vars
FairSpec == Spec /\ Fairness

-----------------------------------------------------------------------------
(* Properties.                                                                *)

Crits == {"free", "apply.loaded", "apply.recorded", "confirm.booted", "confirm.unmarked",
          "rollback.reverted", "rollback.cleared", "watchdog.reverted", "watchdog.cleared",
          "watchdog.marked"}

\* Every variable keeps its type; in particular a live change always has an
\* applicable snapshot, so Rollback never meets "no snapshot to rollback to".
TypeOK ==
    /\ cfg \in Configs /\ saved \in Configs
    /\ kernel \in Rulesets /\ chains \in BOOLEAN
    /\ boot \in Rulesets
    /\ record \in Snapshots \cup {NoText, TornText} /\ marker \in BOOLEAN
    /\ proc \in {"down", "starting", "up"} /\ crashes \in 0..MaxCrashes
    /\ change \in Changes \cup {Nil}
    /\ snap \in [Changes -> Snapshots \cup {NoText}]
    /\ applied \in Rulesets \cup {NoText}
    /\ timer \in [Changes -> 0..Off]
    /\ callbacks \subseteq Changes
    /\ age \in 0..Window
    /\ crit \in Crits /\ hook \in {"idle", "checked", "applied"}
    /\ good \in Rulesets /\ owner \in Callers \cup {Nil}
    /\ confirmed \subseteq Rulesets /\ reverted \subseteq Rulesets
    /\ change # Nil => snap[change] \in Snapshots

\* No fault hits a step whose failure the code only logs.
Protected == Faults \cap {"gap", "nft", "disk"} = {}

\* A change is in progress: in memory, or in a record the next start restores.
Pending == change # Nil \/ HoldsSnapshot(record)

\* "a restart inside the window would strand a ruleset the watchdog exists to
\* revert" (firewallPendingState): whenever nobody is inside an operation and
\* nothing is pending, the ruleset in force is the one last settled, whatever
\* crashes, edits, late timers and background applies came before.
NothingStranded == Protected /\ crit = "free" /\ ~Pending => kernel = good

\* The snapshot a rollback would load, in memory or in the record, is always
\* the ruleset last settled, never another unconfirmed one: this is what
\* ErrChangePending is for.
RollsBackToGood ==
    Protected =>
        /\ change # Nil => LoadSnapshot(snap[change]) = good
        /\ HoldsSnapshot(record) => LoadSnapshot(record) = good

\* A pending change always has its rollback on the way: a timer that ends no
\* later than Window ticks after the load, restarts included
\* (restorePendingChange arms what is left of the window), or a callback that
\* already waits for the lock.
WindowNeverExtended ==
    change # Nil /\ crit # "apply.loaded" =>
        \/ change \in callbacks
        \/ timer[change] <= Window - age

\* Only the pending change has a timer running: a settled change never leaves
\* one behind to revert a later ruleset.
OnlyPendingArmed == \A ac \in Changes : timer[ac] # Off => ac = change

\* The chains other services keep inside the ruleset are there again whenever
\* the service is up and no operation is in progress, although every load
\* flushes them (SetAfterReload), unless the hook itself failed or the answer to
\* a load was lost.
ChainsRestored ==
    Faults \cap {"hook", "gap"} = {} /\ proc = "up" /\ crit = "free" => chains

\* With nothing pending and nobody inside an operation, the kernel only changes
\* by a fresh load of the saved config: a callback whose timer fired before
\* Confirm or Rollback stopped it never reverts a settled ruleset.
SettledStays ==
    [][crit = "free" /\ change = Nil /\ kernel' # kernel => kernel' = RenderConfig(cfg)]_vars

\* The boot file only ever holds the installer's ruleset or one that somebody
\* confirmed: "kept so Confirm can persist exactly what the operator confirmed"
\* (appliedRuleset).
BootOnlyConfirmed == boot \in confirmed \cup {InstallerRuleset}

\* What holds of it: until the first restart, however the config is edited while
\* a change is pending, Confirm persists what was confirmed.
BootUntilRestart == crashes = 0 => BootOnlyConfirmed

\* "A background apply-and-confirm must not re-install" a ruleset the watchdog
\* reverted until the operator confirms a change (ErrRolledBack).
RevertedStaysOut ==
    [][hook = "checked" /\ crit = "free" /\ crit' = "apply.loaded" /\ owner' = "background"
        => kernel' \notin reverted]_vars

\* A ruleset in force that is not the settled one does not stay: it is
\* eventually confirmed or reverted, also when the process dies meanwhile.
EventuallySettled == (kernel # good) ~> (kernel = good)

Trial == INSTANCE GuardedTrial WITH Choices <- Rulesets, live <- kernel, settled <- good

\* The protocol implements the one-trial-at-a-time promise: no load ever lands
\* on top of an unsettled ruleset, and every revert goes back to the settled
\* one.
ImplementsTrial == Trial!Spec

-----------------------------------------------------------------------------
(* The inductive invariant: why the properties above hold.                    *)

Applying == crit \in {"apply.loaded", "apply.recorded"}
Confirming == crit \in {"confirm.booted", "confirm.unmarked"}
Reverted == crit \in {"rollback.reverted", "watchdog.reverted"}
Cleared == crit \in {"rollback.cleared", "watchdog.cleared", "watchdog.marked"}

\* How the holder of the lock, the process and the change go together: a change
\* exists while Apply finishes and is gone while it is being settled, and a dead
\* process holds nothing.
LockInv ==
    /\ Applying => change # Nil
    /\ Confirming \/ Reverted \/ Cleared => change = Nil
    /\ proc = "down" => crit = "free" /\ change = Nil /\ callbacks = {}

\* A change has a timer or a waiting callback, never both, and a change that
\* Apply has just loaded has neither.
TimerInv ==
    /\ \A ac \in callbacks : timer[ac] = Off
    /\ crit = "apply.loaded" => timer[change] = Off /\ change \notin callbacks

\* Without unprotected faults the record stands by from armWatchdog until the
\* change is settled, it and the change lead back to the settled ruleset, and a
\* rollback that got as far as the kernel has restored that ruleset.
RecordInv ==
    Protected =>
        /\ record # TornText
        /\ change # Nil /\ crit # "apply.loaded" => HoldsSnapshot(record)
        /\ Confirming => HoldsSnapshot(record)
        /\ Reverted \/ Cleared => kernel = good
        /\ Cleared => record = NoText
        /\ change = Nil /\ crit = "free" /\ HoldsSnapshot(record) => proc = "down"

\* The chains are in the kernel whenever nobody is between a load and its hook.
ChainsInv ==
    Faults \cap {"hook", "gap"} = {} /\ proc = "up" /\ (crit = "free" \/ Confirming) => chains

\* The conjunction every step of FirewallService, its timers and its restarts
\* preserves.
IInv ==
    /\ TypeOK /\ LockInv /\ TimerInv /\ OnlyPendingArmed /\ WindowNeverExtended
    /\ RecordInv /\ RollsBackToGood /\ NothingStranded /\ ChainsInv

\* Until the first restart the text Apply keeps is the ruleset in force.
BootInv ==
    crashes = 0 =>
        /\ proc = "up" /\ boot \in confirmed \cup {InstallerRuleset}
        /\ change # Nil => applied = kernel

=============================================================================
