-------------------------------- MODULE QoS --------------------------------
(* Traffic shaping and per-client counters: QoSService (internal/services/     *)
(* qos.go, qos_clients.go) and the QoS handler. Apply and Clear issue their tc  *)
(* and ip commands one by one under the service's mutex, while the             *)
(* configuration they read is written by the handlers without it. The sampler   *)
(* loop rebuilds a table of counters from the leases, which starts every        *)
(* counter from zero, and turns counter readings into rates.                    *)
EXTENDS Naturals, FiniteSets, FiniteSetsExt

CONSTANTS
    QoSRequests, QoSClients,
    MaxQoSClients,     \* the ceiling of dedupAndCap
    ResyncEvery,       \* ticks between two rebuilds
    CounterSize,       \* what an unsigned counter wraps at
    MaxQoSBytes, MaxQoSOps, MaxQoSFaults, MaxSamplerTicks   \* bounds

ASSUME QoSAssumption ==
    /\ MaxQoSClients \in Nat /\ ResyncEvery \in Nat \ {0} /\ CounterSize > MaxQoSBytes
    /\ {MaxQoSBytes, MaxQoSOps, MaxQoSFaults, MaxSamplerTicks} \subseteq Nat

VARIABLES
    qos,             \* cfg.QoS: enabled and profile
    egressQdisc,          \* root qdisc of the WAN device
    ingressRedirect,        \* the ingress qdisc's filter sends packets to ifb0
    ingressQdisc,    \* the WAN device has its ingress qdisc
    ifbState,             \* ifb0: "absent", "down", "up" or "shaped"
    qosJob,          \* what each request is doing
    qosLock,         \* s.mu: the requests holding it
    qosLeases,          \* what the lease provider returns
    qosCounters,        \* the lankeeper_qos table: bytes of each client it counts
    clientLeases,    \* clients of the last rebuild
    lastCounters,    \* readings of the previous sample
    clientRates,           \* the last published sample
    samplerTicks,            \* ticks of the sampler loop; 0 before its first rebuild
    sampling,         \* the sample each caller of SamplePerClient is taking
    totalBytes,       \* history: bytes each client moved
    lastTotal,        \* history: what totalBytes was when lastCounters were read
    ingressKept,          \* history: deleting the ingress qdisc failed, and has not succeeded since
    qosOps, qosFaults, qosOverlapped

QoSDevices == <<egressQdisc, ingressRedirect, ingressQdisc, ifbState, ingressKept>>
shapingVars == <<qos, QoSDevices, qosJob, qosLock, qosOps, qosOverlapped>>
samplingVars == <<qosLeases, qosCounters, clientLeases, lastCounters, lastTotal, clientRates, samplerTicks, sampling, totalBytes>>
qosVars == <<shapingVars, samplingVars, qosFaults>>

QoSProfiles == {"cake", "fq_codel", "none"}
\* The callers of SamplePerClient: the sampler loop and the /metrics handler.
Samplers == {"loop", "scrape"}
\* A reading of the counters, with what had moved by then and whether no other sample was stored since.
NoSample == [step |-> "idle", table |-> <<>>, total |-> <<>>, fresh |-> FALSE]

QoSInit ==
    /\ qos = [enabled |-> FALSE, profile |-> "cake"] /\ egressQdisc = "none" /\ ingressRedirect = FALSE /\ ingressQdisc = FALSE
    /\ ifbState = "absent" /\ ingressKept = FALSE /\ qosJob = [r \in QoSRequests |-> [step |-> "idle", apply |-> FALSE]] /\ qosLock = {}
    /\ qosLeases \in SUBSET QoSClients /\ qosCounters = <<>> /\ clientLeases = {} /\ lastCounters = <<>> /\ clientRates = <<>>
    /\ samplerTicks = 0 /\ sampling = [s \in Samplers |-> NoSample]
    /\ totalBytes = [c \in QoSClients |-> 0] /\ lastTotal = totalBytes
    /\ qosOps = 0 /\ qosFaults = 0 /\ qosOverlapped = FALSE

QoSFault == qosFaults < MaxQoSFaults /\ qosFaults' = qosFaults + 1

-----------------------------------------------------------------------------
(* The handlers.                                                                *)

QoSRequest(r, step, apply) ==
    /\ qosJob[r].step = "idle" /\ qosOps < MaxQoSOps /\ qosOps' = qosOps + 1
    /\ qosOverlapped' = (qosOverlapped \/ \E o \in QoSRequests : qosJob[o].step # "idle")
    /\ qosJob' = [qosJob EXCEPT ![r] = [step |-> step, apply |-> apply]]
\* The form is assigned and saved before Apply; a failed save leaves it in memory.
HandleApplyQoS(r, on, profile) ==
    /\ qos' = [enabled |-> on, profile |-> profile]
    /\ \/ QoSRequest(r, "lock", TRUE) /\ UNCHANGED qosFaults
       \/ QoSFault /\ QoSRequest(r, "idle", TRUE)
    /\ UNCHANGED <<QoSDevices, qosLock, samplingVars>>
HandleClearQoS(r) == QoSRequest(r, "lock", FALSE) /\ UNCHANGED <<qos, QoSDevices, qosLock, samplingVars, qosFaults>>
ClearedQoS(r) ==
    /\ qosJob[r].step = "cleared" /\ qosJob' = [qosJob EXCEPT ![r].step = "idle"] /\ qos' = [qos EXCEPT !.enabled = FALSE]
    /\ UNCHANGED <<QoSDevices, qosLock, samplingVars, qosFaults, qosOps, qosOverlapped>>

-----------------------------------------------------------------------------
(* Apply and Clear, command by command.                                         *)

LockQoS(r) ==
    /\ qosLock = {} /\ qosLock' = {r}
    /\ qosJob[r].step = "lock" /\ qosJob' = [qosJob EXCEPT ![r].step = "clearEgress"]
    /\ UNCHANGED <<qos, QoSDevices, samplingVars, qosFaults, qosOps, qosOverlapped>>

QoSStep(r, from, to) == qosJob[r].step = from /\ qosJob' = [qosJob EXCEPT ![r].step = to] /\ UNCHANGED qosLock
QoSReturn(r, from, to) == qosJob[r].step = from /\ qosJob' = [qosJob EXCEPT ![r].step = to] /\ qosLock' = {}

\* The commands of clear. One that fails is ignored: its device stays as it was, ifb0 perhaps without its qdisc or down.
DelRootQdisc == \/ egressQdisc' = "none" /\ UNCHANGED qosFaults
                \/ QoSFault /\ UNCHANGED egressQdisc
DelIngressQdisc == \/ ingressRedirect' = FALSE /\ ingressQdisc' = FALSE /\ ingressKept' = FALSE /\ UNCHANGED qosFaults
                   \/ QoSFault /\ ingressKept' = ingressQdisc /\ UNCHANGED <<ingressRedirect, ingressQdisc>>
DelIfb == \/ ifbState' = "absent" /\ UNCHANGED qosFaults
          \/ QoSFault /\ ifbState' \in IF ifbState = "absent" THEN {"absent"} ELSE {ifbState, "up", "down"}
\* clear is done: Apply goes on, Clear returns.
ClearReturns(r, from) ==
    \/ qosJob[r].apply /\ QoSStep(r, from, "start")
    \/ ~qosJob[r].apply /\ QoSReturn(r, from, "cleared")

\* clear: the root qdisc, the ingress qdisc with its filter, then ifb0. A device or qdisc that is not there is no error.
ClearQoS(r) ==
    \/ QoSStep(r, "clearEgress", "clearIngress") /\ DelRootQdisc /\ UNCHANGED <<ingressRedirect, ingressQdisc, ingressKept, ifbState>>
    \/ QoSStep(r, "clearIngress", "clearIfb") /\ DelIngressQdisc /\ UNCHANGED <<egressQdisc, ifbState>>
    \/ ClearReturns(r, "clearIfb") /\ DelIfb /\ UNCHANGED <<egressQdisc, ingressRedirect, ingressQdisc, ingressKept>>

\* The profile is read here, after the clear; congestion control can fail.
StartProfile(r) ==
    /\ \/ ~qos.enabled /\ QoSReturn(r, "start", "idle")
       \/ qos.enabled /\ qos.profile = "none" /\ QoSReturn(r, "start", "idle")
       \/ qos.enabled /\ qos.profile # "none" /\ QoSStep(r, "start", qos.profile)
    /\ UNCHANGED QoSDevices
ApplyFqCodel(r) ==
    /\ QoSReturn(r, "fq_codel", "idle") /\ egressQdisc' = "fq_codel"
    /\ UNCHANGED <<ingressRedirect, ingressQdisc, ifbState, ingressKept>>
\* Adding ifb0 fails when it is there, and that it failed is ignored; setting it up is what counts.
IfbAdd(r) ==
    /\ QoSStep(r, "ifbAdd", "ifbUp")
    /\ \/ ifbState' = (IF ifbState = "absent" THEN "down" ELSE ifbState) /\ UNCHANGED qosFaults
       \/ QoSFault /\ UNCHANGED ifbState
    /\ UNCHANGED <<egressQdisc, ingressRedirect, ingressQdisc, ingressKept>>
IfbUp(r) ==
    /\ \/ ifbState = "absent" /\ QoSReturn(r, "ifbUp", "idle") /\ UNCHANGED ifbState
       \/ /\ ifbState # "absent" /\ QoSStep(r, "ifbUp", "ingress")
          /\ ifbState' = (IF ifbState = "down" THEN "up" ELSE ifbState)
    /\ UNCHANGED <<egressQdisc, ingressRedirect, ingressQdisc, ingressKept>>
ApplyCake(r) ==
    \/ QoSStep(r, "cake", "ifbAdd") /\ egressQdisc' = "cake" /\ UNCHANGED <<ingressRedirect, ingressQdisc, ifbState, ingressKept>>
    \/ IfbUp(r)
    \/ QoSStep(r, "ingress", "filter") /\ ingressQdisc' = TRUE /\ UNCHANGED <<egressQdisc, ingressRedirect, ifbState, ingressKept>>
    \/ QoSStep(r, "filter", "ifbCake") /\ ingressRedirect' = TRUE /\ UNCHANGED <<egressQdisc, ingressQdisc, ifbState, ingressKept>>
    \/ QoSReturn(r, "ifbCake", "idle") /\ ifbState' = "shaped" /\ UNCHANGED <<egressQdisc, ingressRedirect, ingressQdisc, ingressKept>>
\* A command of Apply that fails ends it where it stands.
ApplyQoSFails(r) ==
    /\ \E step \in {"start", "cake", "fq_codel", "ifbUp", "ingress", "filter", "ifbCake"} : QoSReturn(r, step, "idle")
    /\ QoSFault /\ UNCHANGED QoSDevices
QoSCommand(r) ==
    /\ \/ ClearQoS(r) \/ IfbAdd(r)
       \/ (StartProfile(r) \/ ApplyFqCodel(r) \/ ApplyCake(r)) /\ UNCHANGED qosFaults
       \/ ApplyQoSFails(r)
    /\ UNCHANGED <<qos, samplingVars, qosOps, qosOverlapped>>

-----------------------------------------------------------------------------
(* The sampler.                                                                 *)

\* Variant: every address is kept.
DedupNoCap(macs) == {macs}
\* dedupAndCap keeps the first MaxQoSClients of the sorted addresses; here, any that many.
DedupAndCap(macs) == {kept \in SUBSET macs : Cardinality(kept) = Min({Cardinality(macs), MaxQoSClients})}
\* The new table replaces the old one whole and its counters start from zero; with nobody to count there is no table.
ApplyClientCounters(kept) == qosCounters' = [c \in kept |-> 0]
\* Under the mutex. A rebuild that fails, or whose leases cannot be read, is logged: the old table stays.
RebuildClientCounters ==
    \/ /\ qosLock = {} /\ UNCHANGED qosFaults
       /\ \E kept \in DedupAndCap(qosLeases) : ApplyClientCounters(kept) /\ clientLeases' = qosLeases
    \/ QoSFault /\ UNCHANGED <<qosCounters, clientLeases>>
CounterReading(table, c) == IF c \in DOMAIN table THEN table[c] ELSE 0
\* Variant: the unsigned difference is taken whatever the order of its operands.
BpsDeltaUnguarded(curr, prev) == (curr + CounterSize - prev) % CounterSize
\* The difference of two unsigned counters; zero when the counter was reset in between.
BpsDelta(curr, prev) == IF curr < prev THEN 0 ELSE (curr + CounterSize - prev) % CounterSize
ClientUsages(table) ==
    [c \in clientLeases |-> IF c \in DOMAIN lastCounters THEN BpsDelta(CounterReading(table, c), lastCounters[c]) ELSE 0]
StoreCounters(table) == lastCounters' = [c \in clientLeases |-> CounterReading(table, c)]

\* SamplePerClient reads the counters before it takes the mutex. Without a table it returns nothing; a listing that
\* fails, or does not parse, is an error that leaves everything as it was.
ReadCounters(s) ==
    /\ \/ /\ DOMAIN qosCounters # {} /\ UNCHANGED <<clientRates, qosFaults>>
          /\ sampling' = [sampling EXCEPT ![s] = [step |-> "read", table |-> qosCounters, total |-> totalBytes, fresh |-> TRUE]]
       \/ /\ DOMAIN qosCounters = {} /\ clientRates' = <<>> /\ UNCHANGED qosFaults
          /\ sampling' = [sampling EXCEPT ![s] = NoSample]
       \/ QoSFault /\ sampling' = [sampling EXCEPT ![s] = NoSample] /\ UNCHANGED clientRates
    /\ UNCHANGED <<shapingVars, qosLeases, qosCounters, clientLeases, lastCounters, lastTotal, samplerTicks, totalBytes>>
\* Under the mutex: the rates against the previous sample, whichever caller took it, and the counters for the next one.
StoreSample(s) ==
    /\ sampling[s].step = "read" /\ qosLock = {}
    /\ clientRates' = ClientUsages(sampling[s].table) /\ StoreCounters(sampling[s].table)
    /\ lastTotal' = sampling[s].total
    /\ sampling' = [o \in Samplers |-> IF o = s THEN NoSample ELSE [sampling[o] EXCEPT !.fresh = FALSE]]
    /\ UNCHANGED <<shapingVars, qosFaults, qosLeases, qosCounters, clientLeases, samplerTicks, totalBytes>>

FirstRebuild ==
    /\ samplerTicks = 0 /\ samplerTicks' = 1 /\ RebuildClientCounters
    /\ UNCHANGED <<shapingVars, qosLeases, lastCounters, lastTotal, clientRates, sampling, totalBytes>>
\* A tick: every ResyncEvery-th rebuilds the table first; then it samples.
SamplerTick ==
    /\ samplerTicks \in 1..MaxSamplerTicks /\ sampling["loop"].step = "idle" /\ samplerTicks' = samplerTicks + 1
    /\ IF samplerTicks % ResyncEvery = 0 THEN RebuildClientCounters ELSE UNCHANGED <<qosCounters, clientLeases, qosFaults>>
    /\ sampling' = [sampling EXCEPT !["loop"].step = "due"]
    /\ UNCHANGED <<shapingVars, qosLeases, lastCounters, lastTotal, clientRates, totalBytes>>
TickSample == sampling["loop"].step = "due" /\ ReadCounters("loop")
\* collectClientMetrics: a scrape of /metrics takes a sample of its own, at any time.
CollectClientMetrics == samplerTicks <= MaxSamplerTicks /\ sampling["scrape"].step = "idle" /\ ReadCounters("scrape")

\* The kernel counts a client's packets, and leases come and go.
CountBytes(c) ==
    /\ totalBytes[c] < MaxQoSBytes /\ totalBytes' = [totalBytes EXCEPT ![c] = @ + 1]
    /\ qosCounters' = [d \in DOMAIN qosCounters |-> IF d = c THEN qosCounters[d] + 1 ELSE qosCounters[d]]
    /\ UNCHANGED <<shapingVars, qosFaults, qosLeases, clientLeases, lastCounters, lastTotal, clientRates, samplerTicks, sampling>>
QoSLeaseChange(c) ==
    /\ qosLeases' = IF c \in qosLeases THEN qosLeases \ {c} ELSE qosLeases \union {c}
    /\ UNCHANGED <<shapingVars, qosFaults, qosCounters, clientLeases, lastCounters, lastTotal, clientRates, samplerTicks, sampling, totalBytes>>

ShapingNext ==
    \E r \in QoSRequests :
        \/ \E on \in BOOLEAN, p \in QoSProfiles : HandleApplyQoS(r, on, p)
        \/ HandleClearQoS(r) \/ ClearedQoS(r) \/ LockQoS(r) \/ QoSCommand(r)
SamplingNext ==
    \/ FirstRebuild \/ SamplerTick \/ TickSample \/ CollectClientMetrics
    \/ \E s \in Samplers : StoreSample(s)
    \/ \E c \in QoSClients : CountBytes(c) \/ QoSLeaseChange(c)
QoSNext == ShapingNext \/ SamplingNext

QoSSpec == QoSInit /\ [][QoSNext]_qosVars

-----------------------------------------------------------------------------
QoSTypeOK ==
    /\ qos \in [enabled : BOOLEAN, profile : QoSProfiles] /\ egressQdisc \in {"none", "cake", "fq_codel"}
    /\ ingressRedirect \in BOOLEAN /\ ingressQdisc \in BOOLEAN /\ ifbState \in {"absent", "down", "up", "shaped"}
    /\ ingressKept \in BOOLEAN /\ Cardinality(qosLock) <= 1 /\ Cardinality(DOMAIN qosCounters) <= MaxQoSClients

\* "Left behind after ifb0 is deleted, it sends every inbound WAN packet to a device that no longer exists": the
\* redirect is never there without ifb0 up, at any step of Apply or Clear and whichever of their commands failed, but
\* for the one that deletes the redirect itself, whose failure clear ignores.
RedirectHasTarget == ingressRedirect /\ ~ingressKept => ingressQdisc /\ ifbState \in {"up", "shaped"}

\* With no request under way, none ever overlapping another and no command failing, the kernel shapes what the
\* configuration says: HandleClear leaves nothing, Apply leaves its profile and nothing of the previous one.
ShapedAsConfigured ==
    (\A r \in QoSRequests : qosJob[r].step = "idle") /\ ~qosOverlapped /\ qosFaults = 0
        => LET on == IF qos.enabled THEN qos.profile ELSE "none"
           IN egressQdisc = on /\ ingressRedirect = (on = "cake") /\ ifbState = (IF on = "cake" THEN "shaped" ELSE "absent")

\* bpsDelta "protects against counter resets ... rather than a wrap-around value": no rate exceeds the counter it is
\* computed from, however the samples of the loop and of /metrics overlap and whenever the table was rebuilt. And a
\* sample with no other one stored since its reading counts no more than the client moved between the two readings it
\* compares, also when the table was rebuilt, the lease went away or the rebuild failed in between.
RatesTrue ==
    [][\A s \in Samplers : sampling[s].step = "read" /\ sampling'[s].step = "idle" =>
          \A c \in DOMAIN clientRates' :
              /\ clientRates'[c] <= CounterReading(sampling[s].table, c)
              /\ sampling[s].fresh => clientRates'[c] + lastTotal[c] <= sampling[s].total[c]]_qosVars

\* What Apply, Clear and the sampler promise together.
ShapingSound == [](RedirectHasTarget /\ ShapedAsConfigured) /\ RatesTrue
=============================================================================
