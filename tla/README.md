# LanKeeper: TLA+ models and proofs

LanKeeper is a router appliance. `lankeeper serve` is an unprivileged web process that holds all
services; everything that needs root goes as JSON-RPC over a Unix socket to `lankeeper agent`.
Two operations can cut the operator off or leave the device dead, and both are made on trial and
undone unless somebody confirms them: loading a firewall ruleset (30 s, a timer in the web
process, persisted) and installing a release (60 s, a transient systemd unit). Around these two
and the call path they use stand about twenty services, most of which follow one pattern: a
handler edits the configuration, saves it, renders a file and restarts a daemon, in several steps
that other handlers, loops and restarts interleave with.

`PROJECT.json` lists every part with its sources, every definition with the lines it models, and
every hazard with its line and the properties that would catch it.

## Modules

A step of a model is what the code does between two points where another goroutine, a crash or a
failing command can come in. Data are abstracted to what the properties tell apart: a ruleset, a
lease, a certificate or a password is a value, a rendered file is what it was rendered from.
Variables named *history* in a module exist for its properties only. Bounds of counters are
constants named `Max...` and appear in guards.

| Module | Code | State and steps |
|---|---|---|
| `GuardedTrial` | (promise) | what is in force and what was last accepted; *Try* replaces a settled value, *Keep* accepts, *Revert* goes back, and nothing is tried on top of an unsettled value |
| `FirewallWatchdog` | `services/firewall.go`, `netutil/atomic.go` | config, kernel ruleset, pending change with snapshot and timer, record, marker, boot file; `crit` says where the holder of the lock is, and a handler is split where a file is written or a command runs |
| `UpdateGuard` | `services/update.go`, `cmd/lankeeper/update_guard.go` | binaries, state file, archive, unit; one step per command of an operation (`op`) and per file operation of the guard (`guard`), which share no lock |
| `AgentRPC` | `agent/client.go`, `agent/server.go` | calls, the one connection behind the mutex, deadlines, cancellers, slots, running commands |
| `ConfigStore` | `config/config.go`, `config/secrets.go`, `services/backup.go` | `router.yaml`, its key, archives; load, save, export, import, factory reset, each with its crashes and failing writes |
| `Certificates` | `services/tls.go`, `acme*.go`, `config/tls.go`, `web/certreload.go` | the two files of the pair, settings in memory and on disk, requests and the renewal loop, the reloader |
| `HealthChecks` | `services/healthcheck.go`, `usbtethering.go` | one goroutine per check: probe, count, cooldown, the chain of actions step by step; the operator's reset and switches |
| `BackupRuns`, `BackupSchedule` | `services/backup_*.go` | a run with export, uploads, retention and history beside the forms; the cron dialect, `Next` and the scheduler's ticks |
| `DaemonSettings`, `NAS` | `services/ntp.go`, `syslog.go`, `nas.go` | requests that edit, save, render and restart; the M3U synchronisation |
| `AdminLogin`, `RateLimiter`, `Access` | `web/auth.go`, `login_guard.go`, `login_budget.go`, `middleware.go` | a login between its critical sections, sessions, lockout, budget, password change; the token bucket; both together |
| `WebServer` | `cmd/lankeeper/serve.go`, `web/server.go` | the process from start to drain |
| `SSEBroker`, `LeaseWatcher`, `QueryLog` | `web/sse.go`, `services/ipv6.go`, `services/dns*.go` | event streams; fsnotify, debounce and dispatch; the tail of a log that is rotated and cleared under it |
| `IPv6Link` | `services/ipv6.go`, `sixinfour.go`, `pppoe.go` | prefix delegation, 6in4 and the PPPoE hooks that drive both |
| `Segments` | `services/network.go`, `firstboot.go`, `ipv6.go` | interfaces, VLANs and their devices, the bridge of the first boot, shares of the prefix |
| `SiteLinks` | `services/vpn.go`, `vpn_s2s.go` | peers and the invite handshake of two routers whose operators carry the tokens |
| `NameService` | `services/dns.go`, `doh.go`, `dhcp.go` | records, leases and their mirror, the resolver plane, blocklists |
| `PolicyRouting`, `OpenVPN`, `QoS` | `services/routing.go`, `firewall.go`, `vpn.go`, `openvpn.go`, `qos*.go`, `metrics_collectors.go` | policies, `ip rule`s and domain sets beside the firewall's reload and outbound tunnels; certificates and revocation; shaping, the counters and their two samplers |

`FirewallWatchdogProofs`, `UpdateGuardProofs`, `AgentRPCProofs`, `StoreProofs`, `HealthProofs`,
`CertificateProofs`, `AccessProofs` and `WebProofs` hold theorems. `MCFirewallWatchdog` and
`MCAgentRPC` give constants to one module. `MCFaults`, `MCLive`, `MCSystem`, `MCNetwork` and
`MCWeb` each run several modules that share no variable: the variable `part` chooses one, the
others rest in an initial state, so the states of such a run are the sum of its parts' states.
`VIEW Running` drops the variables of the parts at rest. TLC counts the next-state relation of
such a run as one action; its line counts (`-coverage`) show that every branch of every action of
every part is taken, those of the update's faults in `faults`. The theorems are about the modules' own
specifications, not about these unions.

### Faults

A module names what may go wrong, so that a property is checked where the code promises it.

* Firewall: `gap` (the process dies, or the agent's answer is lost, between `nft -f` and the
  record), `nft` (a rollback load fails), `disk` (a best-effort write or removal fails), `save`
  (saving the config fails), `hook` (the routing chains cannot be put back). Dying anywhere else
  is always possible, up to `MaxCrashes` times. `Protected` excludes `gap`, `nft` and `disk`.
* Update: `late` (the operator acts while the guard works), `second` (an update on top of a
  pending one), `cmd`, `disk`, `torn`, `gap`, `reboot`. `Protected` allows `torn` only.
* Elsewhere failing commands, writes, reads and crashes are ordinary steps, counted by a
  `...Faults` variable up to its bound. Where the code does not keep a property after a certain
  failure or overlap, a history variable records that very cause (`lag`, `nameLag`, `chainLag`,
  `ruleless`, `crossed`, `adrift`, `tooLate`, ...), the property excludes it and nothing else, and
  a later step of the code that mends the state clears it.

## Runs

| Run | Bounds | Shows |
|---|---|---|
| `firewall_crash` | 2 configs, 2 changes, window 2, 2 crashes, `save` | nothing is stranded, rollbacks go to the settled ruleset, the window is never extended, settled rulesets stay, the boot file holds only confirmed rulesets until a restart, `GuardedTrial` is implemented; also the inductive invariant |
| `agent_safety` | 3 calls, 2 slots, 1 crash | own replies only, no command twice, slots bounded, the inductive invariant |
| `faults` | update: 2 releases, every fault; firewall: 1 config, 2 changes, window 1, 1 crash, every fault but `save` | what survives the faults the trials are not protected against |
| `live` | update: 3 releases, one that never serves; agent: 2 calls, 1 slot, 1 crash; firewall: 1 config, 2 changes, window 1, 1 crash | trials settle, the device serves again, calls return, abandoned commands stop; an update is guarded and implements `GuardedTrial` |
| `system` | 2 checks, 3 targets, 3 logins of 2 hosts, 2 password changes, 3 archives, 3 pairs; 2 faults of the health chain, 1 elsewhere; a calendar with 4 minutes to the hour, 2 days to the month and 3 to the week | the nine parts of `MCSystem` keep what they promise |
| `network` | 2 interfaces with 2 forms, 3 VLAN names with 2 forms, 2 routers, 2 requests per service, 2 policies, 1 connectable tunnel, 1 refresh, 1 fault | the eight parts of `MCNetwork` keep what they promise |
| `web` | 3 streams, 2 of them at once, buffer 1, 2 events; 3 lease writes; 3 log lines, 2 upsets of the log (`MaxLogUpsets` counts truncations, failed reads and the clears and rotations under way), 1 failed read | the process starts and ends in order, feeds are true, in order and delivered |
| `firewall_marker_race`, `firewall_boot_restart`, `update_guard_race`, `update_archive`, `agent_refused` | | violations: see Findings |

Two changes are enough for a stale callback beside a pending change; two configs for an edit that
differs from what was applied; window 2 for a restart in the middle of it; two crashes for a
crash during recovery. Three calls let one give up, one take over its connection and one wait;
other peers fill the slots. Three releases are the least for a second update on a pending one.
Two requests per service are enough for every order of two handlers. One fault is enough
for every single failing step; the health chain takes two, since an action that fails leads to the
next one. A buffer, a limit or a threshold of one or two is reached
and passed. Lockout, counter and SLA widths are small so that they wrap inside the run.

`Scope` in `MCSystem` and `MCNetwork` bounds products of things that do not meet, such as shares
and playlists, or shaping and sampling. It is the last conjunct of the next-state relation, so
nothing outside it is explored; each line of it is explained there. What it leaves out in earnest:
the longest sequences of operations together with a failing step (in `PolicyRouting` also with a
refresh), and in `SiteLinks` a manual peer beside an invitation, and two requests at once beside
an invitation.

Symmetry is used in `firewall_crash`, `agent_safety` and violation runs, none of which checks
liveness. Deadlock is not checked where the model comes to rest because calls, logins or
operations are bounded.

### Fairness

Firewall: the lock holder goes on, timers fire, a waiting callback gets the lock (Go mutexes
prevent starvation), systemd restarts the process (`Restart=always`), the lease hook calls
Confirm once its Apply returned. Update: requests and the guard go on, the timer elapses, a
binary that can start is started. Agent: runnable goroutines run, a killed command dies, systemd
restarts the agent; `Lock` is strongly fair for the same reason as above. Web: Serve, its loops'
start, the shutdown watcher and the drain go on; a publisher and a pump go on; the lease goroutine
and the tail of the query log run. Nothing is assumed of the operator, of leases, of peers, of
contexts ending, of a signal coming, or of a command or a loop's step ending by itself.

## Findings

Each is a run whose property states a sentence of the repository that the code does not keep.

* `firewall_marker_race`: the lease hook looks at the rolled-back marker without the lock.
* `firewall_boot_restart`: Confirm after a restart renders the config of now, not of the apply.
* `update_guard_race`: a guard past its stat undoes a confirmed update.
* `update_archive`: a rollback by the guard leaves the config archive.
* `agent_refused`: the connection of a refused call is used once more.

The models also reach, without a run of their own:

* With `Faults = {"second"}` and `NotStarting = {}` in `MCLive.cfg`, `ImplementsTrial` and
  `UpdateIsGuarded` fail: an update applied on top of a pending one backs up the unconfirmed
  binary, cannot arm a second guard, puts that unconfirmed binary back and clears the state, and
  the first guard finds nothing to do.
* With `Faults = {"reboot"}`, `UpdateIsGuarded` and `ServesAgain` fail: a transient unit does not
  survive a reboot.
* With `torn`, `cp -f` leaves half a binary; `README.md` of the repository says the release is
  swapped atomically.
* The lease hook's Confirm is a second critical section, so it can confirm a change the operator
  applied after rolling back the hook's own.
* The canceller of a call that has returned may still pick `ctx.Done` and expire the connection
  under the next call, which then fails although its own context is live.
* A login that was compared with the old hash adds its session after the password change has ended
  the others (`loginOverlap` in `SessionsJustified`).
* Certificates: a crash between the two files of a pair leaves a pair the server refuses
  (`pairTorn`); `EnsureTLSCert` looks at the certificate's date only, so a self-signed pair cut in
  half is not repaired before it is due. The comment at `services/tls.go:282` says the staged files
  are removed on every path out; the key stays when its removal fails or the process ends
  (`stagedLeft`). `services/acme.go:86` says CleanUp is called on every exit path; a record whose
  creation was answered with an error stays at the provider (`strayTXT`).
* Config: an import cut off between `router.yaml` and the key leaves secrets it cannot read
  (`fileTorn`). A start that cannot read the key clears the secrets in memory, and the next save
  writes them empty; in `SiteLinks` the WireGuard server then gets a new key (`LoadedPeers`).
* Site-to-site: two joins that are checked before either is stored can claim one network: the
  check is outside the lock (`SubnetsClaimedOnce` speaks of peers that were in the list).
* Segments: nothing locks the check and the edit of an interface, so two crossing requests can take
  the last LAN interface (`crossed`). The save of another handler can write a VLAN list that is
  then taken back (`leaked`). A VLAN whose ID is `lan` takes the LAN's entry of the subnet map.
* IPv6: pppd's redials and the restart by a health check do not run the hook, so the tunnel keeps
  its old local address (`lag["address"]`). The connect hook restarts dhcp6c although IPv6 is off
  (`StepRestart`). The hook of a disconnect that runs late stops the tunnel of the next connection.
* Health: a switch turned off while a failover waits for its lease does not stop that failover.
* Names: dnsmasq is sent SIGHUP, on which it does not read `dhcp-host` lines again, so the
  model compares the leases with dnsmasq.conf and not with what dnsmasq serves. Rendering and
  writing hold no lock, so an older unbound.conf can be written last. The mirror looks an index up
  and removes by it in two critical sections, so it can remove another record.
* NTP: the lists have no lock. Two requests can pass a limit together, one edit can be lost, and a
  removal can find its list shorter than it was checked (`RemovePanics`).
* Policies: elements of a domain set are not renewed by adding them again before kernel 6.12
  (Debian 12 has 6.1), so a set may be empty until the next refresh (`SetExpires`). Disconnecting a
  tunnel can take the rule of a policy (`ruleless`), and Applies that overlap can leave more than
  one rule (`rulesCrossed`).
* OpenVPN: a restart between the signature and the save leaves a valid certificate that the page
  does not list (`unlisted`). A failed `gen-crl` cannot be tried again for the same client
  (`unpublished`). When the unit dies, `running` stays true and a start does nothing; after a
  restart of the web process a stop does nothing.
* QoS: a redirect whose removal failed stays without its device (`ingressKept`). The sample of
  `/metrics` and that of the loop replace each other's previous reading.
* A lease whose read failed reaches the hook only with the next report (`LeaseSeen`).
* A poll of the query log that fails after it recorded lines records them again (`failedPolls`).

## Proofs

Every theorem below holds for every value of the constants that satisfies the module's named
assumption. An assumption names only what the code's constants satisfy: model values that differ
from one another, limits that are natural numbers or positive. Four say more, and the code's
values satisfy them: `Burst * Refill <= IdleWindow` (a bucket is forgotten only after the time in
which it would have filled), `LockoutBase <= LockoutMax <= IdleReset`, `LockoutMax` fits the
duration type, and the sets of counted and uncounted loops are disjoint.

| Theorem (module) | Says | Beyond the assumption |
|---|---|---|
| `Invariance`, `TypeCorrect`, `WatchdogTimers`, `NoTimerLeftBehind`, `RollbackTarget`, `NeverStranded`, `ChainsBack`, `ConfirmedBoots`, `SettledRulesetStays` (`FirewallWatchdogProofs`) | the invariants of `firewall_crash` and the action property `SettledStays`, under every set of faults | the properties name the faults they exclude |
| `WatchdogImplementsTrial` | `FirewallWatchdog` implements `GuardedTrial` | `Protected` |
| `UpdateInvariant`, `UpdateTypes` (`UpdateGuardProofs`) | the inductive invariant and the types, under every fault | |
| `UpdatesAreGuarded`, `UpdateImplementsTrial` | the backup belongs to the pending update and an unconfirmed release is watched; `UpdateGuard` implements `GuardedTrial` | `Protected` |
| `AgentInvariant`, `RepliesAreOwn`, `CommandsRunOnce`, `SlotsAreBounded` (`AgentRPCProofs`) | a call gets its own reply, no command runs twice, the slots are never overbooked | |
| `StoreTypes`, `StoreIsSound` (`StoreProofs`) | the next start loads what was last written, an archive restores, the key is replaced by imports only | |
| `CertificatesAreSound` (`CertificateProofs`) | the next start binds unless an install was cut, the reloader serves what it saw, a challenge record that is held is withdrawn, a staged key stays only after a failure or the end of the process, a renewal keeps the mode | |
| `RecoveryTypes`, `RecoveryIsSound` (`HealthProofs`) | actions are earned, cooldowns held, links taken down come up, failover with both switches on unless one was turned off while it waited | |
| `RateIsHeld` (`AccessProofs`) | the bound of the token bucket over every window, with cleanup | |
| `SignInIsSound` | sessions, hashes, lockout check and budget slots | |
| `AccessIsSound` | the two together, and that a lockout is never brought forward | `LockoutsGrow` |
| `LeaseIsSeen`, `StreamsAreOrdered`, `ServerStartsAndEnds`, `ServerIsSound`, `FeedsAreSound` (`WebProofs`) | nothing is served before the saved state is back, no counted loop is cut off; no send on a closed channel, events in order, the hook has the lease on disk | |

### The arguments

None of the properties is inductive alone. In each module a definition called `IInv` or `...Inv`
is, and TLC checked each of them before it was proved; those of the firewall and the agent are
invariants of a run. A proof has one lemma per action and one that combines them.

* Firewall. Whether a rollback goes to the settled ruleset depends on where the lock holder is:
  between `nft -f` and the record the snapshot exists only in memory, during Confirm the change is
  gone and the record still there, during a rollback the kernel is already back. `IInv` adds
  `LockInv` (what each value of `crit` implies for the change), `TimerInv` (timers and callbacks
  belong to changes of this process), `RecordInv` (what the record holds, by `crit`) and
  `ChainsInv`. `BootInv` says the same of the boot file until the first restart.
* Update. Service and guard share no lock, so `ServiceInv` says what the service relies on at each
  command and `GuardInv` what the guard does; the two fit because the unit is loaded only while
  the service waits. Both hold under `Protected`, the types under every fault.
* Agent. `ConnInv`, `CallInv` and `FlightInv` say that a connection carries one exchange at a time,
  that what is on it belongs to the call that waits, and that a call which gave up has left an
  expired or closed connection. Slots are counted, so `SlotsInv` also says that they are finite.
* Store. `Fits` relates a file, a key and a config; it holds on disk, in a whole archive and for
  the half of an export that has been read.
* Certificates. Pairs are numbered: `IssuerInv` puts what is being written above both files,
  `FilesInv` makes the two files equal unless an install was cut, and `ReloaderInv` keeps what is
  served between what was seen and what is on disk, so equal modification times mean equal pairs.
  `LeftInv` follows the staged key and the challenge records through every way a flow can end.
* Health. `CheckInv` ties the counter to the failures that were earned and the cooldown that the
  probe looks at to the one that was set; `HealthInv` adds that a check inside a failover sees both
  switches on or is in `tooLate`.
* Rate limiter. `Covered`: what was granted since any grant, and what the bucket holds, is covered
  by a full bucket and the time passed; a bucket is forgotten only once time alone covers it.
* Sign-in. `SessionInv` (a login past its read of the hash has read today's, or a change saw it),
  `HashInv` (how far a change has got), `SlotInv` (the next slot lies past all handed out) and
  `GuardInv` (a record is locked for what its last failure earned). That a lockout never shortens
  needs `LockoutsGrow`: the doubled duration, cut off at the maximum and taken as the maximum when
  the shift overflows, never falls back. This is a fact about the constants. The code's are 1 min,
  15 min and 64 bits: 6 * 10^10 ns is 2^11 times an odd number, so every overflowing shift is
  negative, larger than the maximum or, from 53 doublings on, zero, and the lockout goes 1, 2, 4,
  8, 15, 15, ... minutes. For the constants of `MCSystem.cfg` TLC evaluates it (`MCLockouts`).
  Other values could wrap to a small positive duration.
* Web. `ServerInv` follows Serve's order, `SSEInv` says that the broker holds the channels of the
  streams that pump or leave and that a channel not yet visited holds earlier events, `LeaseInv`
  that without a waiting report the digest is that of the lease on disk.

### Only model-checked, and why

* Liveness (`TrialsSettle`, `ServesAgain`, `CallsEnd`, `SignalEnds`, `VanishedLeaves`, the
  delivery part of `FeedsDeliver`): the prover has no rule for fairness and ENABLED.
* `QueryLogSound` and `ScheduleSound`: what a recursive function computes over a log or a calendar
  needs induction over data. So does `LoginTypeOK`, whose list of recent failures is filtered with
  `SelectSeq`; the rest of it is in `LoginInv`.
* `BackupRuns`, `DaemonSettings`, `NAS` and the modules of `MCNetwork`: not proved yet. The next
  ones in reach are `QoS` (`RedirectHasTarget`), `SiteLinks` (`NamesOnce`, `AckAnswersInvite`) and
  `IPv6Link`.
* `FaultsHold` restates for one instance what `Invariance`, `WatchdogTimers` and
  `SettledRulesetStays` prove for all.

## Not modelled

Text rendering, parsing of addresses, names and forms, the agent's argument tables, metrics,
monitor pages, translations, downloads and their signatures, storage read-outs, the protocols of
ACME, S3 and SFTP, and the single commands of the system page. Within modelled parts: a reboot and
a wall clock that steps (`FirewallWatchdog`), boot branding (`UpdateGuard`), frame limits and peer
credentials (`AgentRPC`), Samba users (`NAS`), edits of outbound WireGuard tunnels (`SiteLinks`), summer
time (`BackupSchedule`), a lease watcher that fails to start, which Serve only logs (`WebServer`),
the qdiscs that a redial of ppp0 drops (`QoS`), a change of the tunnel's device name (`IPv6Link`),
`TogglePolicy` and `RoutingService.Clear`, which nothing calls (`PolicyRouting`). The static leases
have no lock, and requests that edit them run one at a time (`NameService`); the unlocked lists of
`DaemonSettings` do race there.
