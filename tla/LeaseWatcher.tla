---------------------------- MODULE LeaseWatcher ----------------------------
(* The watcher of the dhcp6c lease file (StartLeaseWatcher and below in          *)
(* internal/services/ipv6.go) as Serve runs it: the hook script of dhcp6c        *)
(* replaces the file, fsnotify reports it, a debounce timer collapses the        *)
(* reports, and the state read then goes to the firewall's lease hook.           *)
EXTENDS Naturals

CONSTANTS
    Leases,          \* contents of the state file that differ in leaseHash
    NoLease,         \* no file, or an empty one
    MaxLeaseWrites,  \* bound: how often dhcp6c writes the file
    MaxReadFaults    \* bound: reads through the agent that fail

ASSUME LeaseAssumption == NoLease \notin Leases /\ {MaxLeaseWrites, MaxReadFaults} \subseteq Nat

VARIABLES
    leaseFile,
    fsEvents,       \* reports waiting in the fsnotify watcher
    debounceArmed,          \* the debounce timer runs
    watcherPc, leaseRead,
    lastLeaseHash,
    hookLease,      \* history: the state the callback was last given
    leaseWrites, readFaults,
    leaseMissed,         \* history: a read failed and no later report came
    leaseCtx        \* the server's context is alive

leaseVars == <<leaseFile, fsEvents, debounceArmed, watcherPc, leaseRead, lastLeaseHash, hookLease,
               leaseWrites, readFaults, leaseMissed, leaseCtx>>

\* The digest of a lease; the empty digest of a new service is no lease's.
LeaseHash(l) == <<l>>
NoHash == <<>>

LeaseInit ==
    /\ leaseFile \in Leases \cup {NoLease}
    /\ fsEvents = 0 /\ debounceArmed = FALSE
    /\ watcherPc = "off" /\ leaseRead = NoLease
    /\ lastLeaseHash = NoHash /\ hookLease = NoHash
    /\ leaseWrites = 0 /\ readFaults = 0 /\ leaseMissed = FALSE
    /\ leaseCtx = TRUE

Watching == watcherPc \notin {"off", "done"}

\* The hook script renames a new file into place: two reports, if anyone watches.
LeaseWrite(l) ==
    /\ leaseWrites < MaxLeaseWrites /\ leaseWrites' = leaseWrites + 1
    /\ leaseFile' = l
    /\ fsEvents' = IF Watching THEN fsEvents + 2 ELSE fsEvents
    /\ UNCHANGED <<debounceArmed, watcherPc, leaseRead, lastLeaseHash, hookLease, readFaults, leaseMissed, leaseCtx>>

\* StartLeaseWatcher watches the directory; the goroutine starts with a dispatch.
StartLeaseWatcher ==
    /\ watcherPc = "off" /\ leaseCtx
    /\ watcherPc' = "read"
    /\ UNCHANGED <<leaseFile, fsEvents, debounceArmed, leaseRead, lastLeaseHash, hookLease,
                   leaseWrites, readFaults, leaseMissed, leaseCtx>>

-----------------------------------------------------------------------------
(* runLeaseWatcher's loop.                                                       *)

\* leaseDebouncer.arm: a report starts the window, or starts it again.
Arm == debounceArmed' = TRUE

\* A report of the state file.
WatcherEvent ==
    /\ watcherPc = "loop" /\ fsEvents > 0
    /\ fsEvents' = fsEvents - 1
    /\ Arm
    /\ UNCHANGED <<leaseFile, watcherPc, leaseRead, lastLeaseHash, hookLease, leaseWrites, readFaults, leaseMissed, leaseCtx>>
DebounceFires ==
    /\ watcherPc = "loop" /\ debounceArmed
    /\ debounceArmed' = FALSE /\ watcherPc' = "read"
    /\ UNCHANGED <<leaseFile, fsEvents, leaseRead, lastLeaseHash, hookLease, leaseWrites, readFaults, leaseMissed, leaseCtx>>
WatcherStops ==
    /\ watcherPc = "loop" /\ ~leaseCtx
    /\ watcherPc' = "done" /\ debounceArmed' = FALSE /\ fsEvents' = 0
    /\ UNCHANGED <<leaseFile, leaseRead, lastLeaseHash, hookLease, leaseWrites, readFaults, leaseMissed, leaseCtx>>

RunLeaseWatcher == WatcherEvent \/ DebounceFires \/ WatcherStops

-----------------------------------------------------------------------------
(* dispatchLeaseLocked.                                                          *)

\* Status reads the file.
DispatchRead ==
    /\ watcherPc = "read"
    /\ watcherPc' = "compare" /\ leaseRead' = leaseFile /\ leaseMissed' = FALSE
    /\ UNCHANGED <<leaseFile, fsEvents, debounceArmed, lastLeaseHash, hookLease, leaseWrites, readFaults, leaseCtx>>
DispatchReadFails ==
    /\ watcherPc = "read" /\ readFaults < MaxReadFaults
    /\ readFaults' = readFaults + 1 /\ leaseMissed' = TRUE
    /\ watcherPc' = "loop"
    /\ UNCHANGED <<leaseFile, fsEvents, debounceArmed, leaseRead, lastLeaseHash, hookLease, leaseWrites, leaseCtx>>
\* The same digest as last time: nothing to do.
DispatchCompare ==
    /\ watcherPc = "compare"
    /\ IF LeaseHash(leaseRead) = lastLeaseHash THEN watcherPc' = "loop" /\ UNCHANGED lastLeaseHash
       ELSE watcherPc' = "refresh" /\ lastLeaseHash' = LeaseHash(leaseRead)
    /\ UNCHANGED <<leaseFile, fsEvents, debounceArmed, leaseRead, hookLease, leaseWrites, readFaults, leaseMissed, leaseCtx>>
\* refreshRADropIn; its errors are logged.
RefreshRADropIn ==
    /\ watcherPc = "refresh" /\ watcherPc' = "callback"
    /\ UNCHANGED <<leaseFile, fsEvents, debounceArmed, leaseRead, lastLeaseHash, hookLease, leaseWrites, readFaults, leaseMissed, leaseCtx>>
\* The callback: the firewall's ApplyAndConfirm.
DispatchCallback ==
    /\ watcherPc = "callback" /\ watcherPc' = "loop"
    /\ hookLease' = LeaseHash(leaseRead)
    /\ UNCHANGED <<leaseFile, fsEvents, debounceArmed, leaseRead, lastLeaseHash, leaseWrites, readFaults, leaseMissed, leaseCtx>>

DispatchLeaseLocked == DispatchRead \/ DispatchCompare \/ RefreshRADropIn \/ DispatchCallback

LeaseShutdown ==
    /\ leaseCtx /\ leaseCtx' = FALSE
    /\ UNCHANGED <<leaseFile, fsEvents, debounceArmed, watcherPc, leaseRead, lastLeaseHash, hookLease, leaseWrites, readFaults, leaseMissed>>

LeaseGoroutine == StartLeaseWatcher \/ RunLeaseWatcher \/ DispatchLeaseLocked
LeaseNext ==
    \/ LeaseGoroutine \/ DispatchReadFails \/ LeaseShutdown
    \/ \E l \in Leases \cup {NoLease} : LeaseWrite(l)

\* The goroutine runs, and its timer fires.
LeaseFair == WF_leaseVars(LeaseGoroutine)
LeaseSpec == LeaseInit /\ [][LeaseNext]_leaseVars /\ LeaseFair

-----------------------------------------------------------------------------
LeaseTypeOK ==
    /\ {leaseFile, leaseRead} \subseteq Leases \cup {NoLease}
    /\ watcherPc \in {"off", "read", "compare", "refresh", "callback", "loop", "done"}
    /\ debounceArmed \in BOOLEAN /\ leaseMissed \in BOOLEAN /\ leaseCtx \in BOOLEAN
    /\ debounceArmed \/ fsEvents > 0 => Watching

\* A watcher that waits with nothing pending has given the hook the lease that is
\* on disk: no write falls between the first read and the watch, or is swallowed
\* by the debounce or by the digest.  Except when the read failed.
LeaseSeen ==
    watcherPc = "loop" /\ fsEvents = 0 /\ ~debounceArmed /\ ~leaseMissed =>
        hookLease = LeaseHash(leaseFile) /\ lastLeaseHash = hookLease

\* Why it is seen: as long as no report waits, what the dispatch in progress has
\* read is on disk, and outside a dispatch the digest is that of the hook's lease.
LeaseInv ==
    /\ LeaseTypeOK /\ LeaseSeen /\ fsEvents \in Nat
    /\ watcherPc \in {"compare", "refresh", "callback"} /\ fsEvents = 0 /\ ~debounceArmed => leaseRead = leaseFile
    /\ watcherPc \in {"refresh", "callback"} => lastLeaseHash = LeaseHash(leaseRead)
    /\ watcherPc \notin {"refresh", "callback"} => lastLeaseHash = hookLease

\* A lease on disk reaches the hook, unless its read fails or the server stops.
LeaseDelivered ==
    \A l \in Leases \cup {NoLease} :
        leaseFile = l ~> (hookLease = LeaseHash(l) \/ leaseFile # l \/ leaseMissed \/ ~leaseCtx)

=============================================================================
