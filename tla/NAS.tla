-------------------------------- MODULE NAS --------------------------------
(* The file server: shares, Samba's configuration and daemons, and the M3U      *)
(* synchronisation (internal/services/nas.go and the NAS handler). A request    *)
(* edits the shares under the service's mutex and then applies them outside it; *)
(* a synchronisation is started by the button or by the scheduler and runs      *)
(* alone.                                                                       *)
EXTENDS Naturals, Sequences, SequencesExt, FiniteSets

CONSTANTS
    NASRequests, ShareNames,
    M3USources, ScheduleOf,   \* ScheduleOf[s]: minutes between two runs, or 0 for no schedule or one that does not parse
    MaxShares, MaxClicks, MaxNASFaults, MaxMinutes   \* bounds

ASSUME NASAssumption ==
    /\ ScheduleOf \in [M3USources -> Nat] /\ {MaxShares, MaxClicks, MaxNASFaults, MaxMinutes} \subseteq Nat

VARIABLES
    shares,          \* cfg.NAS.Shares, by name
    smbConf,         \* what smb.conf was rendered from
    smbd,            \* what Samba serves; <<>> when it is stopped
    nasJob,          \* what each request is doing
    m3uRunning,      \* m3uStatus.Running
    syncs,           \* the synchronisations past the check, each with the sources left
    clicked,         \* goroutines HandleSyncM3U started that have not reached the check
    m3uNext,         \* next: fire time of every source the scheduler knows
    minute,          \* time of the scheduler's last tick
    ticking,         \* sources the tick has still to look at
    nasFaults,
    nasOverlapped,   \* history: two requests were under way at once
    applyFailed      \* history: a save or an apply failed, and none succeeded since

shareVars == <<shares, smbConf, smbd, nasJob, nasOverlapped, applyFailed>>
m3uVars == <<m3uRunning, syncs, clicked, m3uNext, minute, ticking>>
nasVars == <<shareVars, m3uVars, nasFaults>>

NoNASJob == [step |-> "idle", rendered |-> <<>>]
Syncers == {"button", "scheduler"}

NASInit ==
    /\ shares = <<>> /\ smbConf = <<>> /\ smbd = <<>> /\ nasJob = [r \in NASRequests |-> NoNASJob] /\ nasOverlapped = FALSE /\ applyFailed = FALSE
    /\ m3uRunning = FALSE /\ syncs = {} /\ clicked = 0 /\ m3uNext = <<>> /\ minute = 0 /\ ticking = {}
    /\ nasFaults = 0

NASFault == nasFaults < MaxNASFaults /\ nasFaults' = nasFaults + 1

-----------------------------------------------------------------------------
(* Shares.                                                                      *)

\* After the edit the handler applies; a save that failed returns instead, the edit staying in memory.
ThenApplyShares(r) ==
    /\ nasJob[r].step = "idle" /\ nasOverlapped' = (nasOverlapped \/ \E o \in NASRequests : nasJob[o].step # "idle")
    /\ \/ nasJob' = [nasJob EXCEPT ![r].step = "render"] /\ UNCHANGED <<nasFaults, applyFailed>>
       \/ NASFault /\ applyFailed' = TRUE /\ UNCHANGED nasJob
    /\ UNCHANGED <<smbConf, smbd, m3uVars>>
AddShare(n) == Len(shares) < MaxShares /\ shares' = Append(shares, n)
RemoveShare(n) ==
    /\ \E i \in 1..Len(shares) : shares[i] = n
    /\ shares' = RemoveAt(shares, SelectInSeq(shares, LAMBDA s : s = n))
HandleAddShare(r, n) == AddShare(n) /\ ThenApplyShares(r)
HandleDeleteShare(r, n) == RemoveShare(n) /\ ThenApplyShares(r)

\* ApplyConfig: render, write, then start or stop the daemons by the shares as they are now, and reload.
RenderSmb(r) ==
    /\ nasJob[r].step = "render" /\ nasJob' = [nasJob EXCEPT ![r] = [step |-> "write", rendered |-> shares]]
    /\ UNCHANGED <<shares, smbConf, smbd, nasOverlapped, applyFailed, m3uVars, nasFaults>>
WriteSmb(r) ==
    /\ nasJob[r].step = "write" /\ smbConf' = nasJob[r].rendered
    /\ nasJob' = [nasJob EXCEPT ![r].step = "units"]
    /\ UNCHANGED <<shares, smbd, nasOverlapped, applyFailed, m3uVars, nasFaults>>
\* enable --now starts a stopped daemon with the file; a running one keeps what it serves until the reload.
UnitsVerb == smbd' = IF shares = <<>> THEN <<>> ELSE IF smbd = <<>> THEN smbConf ELSE smbd
SambaUnits(r) ==
    /\ nasJob[r].step = "units" /\ UnitsVerb
    /\ \/ shares = <<>> /\ nasJob' = [nasJob EXCEPT ![r] = NoNASJob] /\ applyFailed' = FALSE
       \/ shares # <<>> /\ nasJob' = [nasJob EXCEPT ![r].step = "reload"] /\ UNCHANGED applyFailed
    /\ UNCHANGED <<shares, smbConf, nasOverlapped, m3uVars, nasFaults>>
ReloadSamba(r) ==
    /\ nasJob[r].step = "reload" /\ smbd' = smbConf /\ nasJob' = [nasJob EXCEPT ![r] = NoNASJob] /\ applyFailed' = FALSE
    /\ UNCHANGED <<shares, smbConf, nasOverlapped, m3uVars, nasFaults>>
\* A write, a unit or the reload fails, a unit perhaps after it has started or stopped: the handler logs it and
\* answers as if it had not.
ApplySharesFails(r) ==
    /\ nasJob[r].step \in {"write", "units", "reload"} /\ NASFault /\ nasJob' = [nasJob EXCEPT ![r] = NoNASJob]
    /\ applyFailed' = TRUE
    /\ UNCHANGED smbd \/ (nasJob[r].step = "units" /\ UnitsVerb)
    /\ UNCHANGED <<shares, smbConf, nasOverlapped, m3uVars>>

-----------------------------------------------------------------------------
(* M3U synchronisation.                                                         *)

\* The button looks at the flag, and its goroutine takes it some time later.
HandleSyncM3U ==
    /\ ~m3uRunning /\ clicked < MaxClicks /\ clicked' = clicked + 1
    /\ UNCHANGED <<shareVars, m3uRunning, syncs, m3uNext, minute, ticking, nasFaults>>
\* Variant: the flag the handler looked at is not looked at again.
SyncStartsAnyway(who, sources) == m3uRunning' = TRUE /\ syncs' = syncs \union {[by |-> who, left |-> sources, no |-> Cardinality(syncs)]}
\* syncSources: refused while another run has the flag.
SyncStarts(who, sources) ==
    \/ m3uRunning /\ UNCHANGED <<m3uRunning, syncs>>
    \/ ~m3uRunning /\ m3uRunning' = TRUE /\ syncs' = syncs \union {[by |-> who, left |-> sources, no |-> Cardinality(syncs)]}
SyncM3U ==
    /\ clicked > 0 /\ clicked' = clicked - 1 /\ SyncStarts("button", M3USources)
    /\ UNCHANGED <<shareVars, m3uNext, minute, ticking, nasFaults>>
\* Each source writes its .strm files; errors are only counted. The last one gives the flag back.
SyncM3USource(run) ==
    /\ run.left # {}
    /\ \E s \in run.left : syncs' = (syncs \ {run}) \union {[run EXCEPT !.left = @ \ {s}]}
    /\ UNCHANGED <<shareVars, m3uRunning, clicked, m3uNext, minute, ticking, nasFaults>>
SyncEnds(run) ==
    /\ run.left = {} /\ syncs' = syncs \ {run} /\ m3uRunning' = FALSE
    /\ UNCHANGED <<shareVars, clicked, m3uNext, minute, ticking, nasFaults>>

Scheduled == {s \in M3USources : ScheduleOf[s] # 0}
NextRun(s) == (minute \div ScheduleOf[s] + 1) * ScheduleOf[s]
\* A tick waits for the run it started: the ticker drops the ticks it cannot deliver.
M3UScheduleTick ==
    /\ ticking = {} /\ (\A run \in syncs : run.by # "scheduler") /\ minute < MaxMinutes
    /\ minute' \in minute + 1 .. MaxMinutes /\ ticking' = Scheduled
    /\ UNCHANGED <<shareVars, m3uRunning, syncs, clicked, m3uNext, nasFaults>>
M3USourceTick(s) ==
    /\ s \in ticking /\ (\A run \in syncs : run.by # "scheduler") /\ ticking' = ticking \ {s}
    /\ \/ /\ s \in DOMAIN m3uNext /\ minute < m3uNext[s] /\ UNCHANGED <<m3uRunning, syncs, m3uNext>>
       \/ /\ s \notin DOMAIN m3uNext /\ UNCHANGED <<m3uRunning, syncs>>
          /\ m3uNext' = [k \in DOMAIN m3uNext \union {s} |-> IF k = s THEN NextRun(s) ELSE m3uNext[k]]
       \/ /\ s \in DOMAIN m3uNext /\ minute >= m3uNext[s] /\ SyncStarts("scheduler", {s})
          /\ m3uNext' = [m3uNext EXCEPT ![s] = NextRun(s)]
    /\ UNCHANGED <<shareVars, clicked, minute, nasFaults>>

NASNext ==
    \/ \E r \in NASRequests :
        \/ \E n \in ShareNames : HandleAddShare(r, n) \/ HandleDeleteShare(r, n)
        \/ RenderSmb(r) \/ WriteSmb(r) \/ SambaUnits(r) \/ ReloadSamba(r) \/ ApplySharesFails(r)
    \/ HandleSyncM3U \/ SyncM3U \/ M3UScheduleTick
    \/ \E run \in syncs : SyncM3USource(run) \/ SyncEnds(run)
    \/ \E s \in M3USources : M3USourceTick(s)

NASSpec == NASInit /\ [][NASNext]_nasVars

-----------------------------------------------------------------------------
NASTypeOK ==
    /\ shares \in SeqOf(ShareNames, MaxShares) /\ smbConf \in SeqOf(ShareNames, MaxShares) /\ smbd \in SeqOf(ShareNames, MaxShares)
    /\ m3uRunning \in BOOLEAN /\ \A run \in syncs : run.by \in Syncers /\ run.left \subseteq M3USources
    /\ DOMAIN m3uNext \subseteq Scheduled /\ \A s \in DOMAIN m3uNext : m3uNext[s] > 0

\* "Two syncs would write the same .strm files and interleave their counts": at most one synchronisation is past
\* the check, and the flag says so, however clicks and scheduled runs come.
OneSync == Cardinality(syncs) <= 1 /\ (m3uRunning = (syncs # {}))

\* "runs Samba only while a share exists": with no request under way and none overlapping another, Samba serves
\* exactly the configured shares, and is stopped when there are none. A save or an apply that failed, which the
\* handler only logs, is made good by the next one that does not, whatever it left half done.
SambaServesShares ==
    (\A r \in NASRequests : nasJob[r] = NoNASJob) /\ ~nasOverlapped /\ ~applyFailed => smbd = shares /\ smbConf = shares

\* What ApplyConfig and syncSources promise together.
NASSound == OneSync /\ SambaServesShares
=============================================================================
