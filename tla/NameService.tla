---------------------------- MODULE NameService -----------------------------
(* The resolver and the names it serves: DNSService, DoHService and the mirror  *)
(* DHCPService keeps of its static leases (internal/services/dns.go, doh.go,    *)
(* dhcp.go, dns_blocklist_schedule.go), with the handlers of the DNS, DHCP and  *)
(* host name pages. A record is a name and its owner; unbound.conf is the list  *)
(* of records it was rendered with and whether it forwards to dnscrypt-proxy.   *)
(* dnsmasq.conf is the leases it was rendered with; the SIGHUP that follows it   *)
(* does not make dnsmasq read its dhcp-host lines, so what a running dnsmasq     *)
(* offers is that of its last start and is not modelled.                        *)
(* DHCPService has no lock, so at most one request edits the leases at a time.  *)
EXTENDS Naturals, Sequences, FiniteSetsExt

CONSTANTS
    NameRequests,   \* requests under way
    Hosts,          \* host names, of leases and of records
    Macs,           \* clients with a static lease
    Domains,        \* values of system.domain
    MaxRecords,     \* MaxStaticDNSRecords
    MaxNameOps,     \* bound: requests started
    MaxNameFaults   \* bound: saves, writes and daemon commands that fail

ASSUME NameAssumption == {MaxRecords, MaxNameOps, MaxNameFaults} \subseteq Nat

VARIABLES
    dnsRecords,          \* cfg.DNS.StaticRecords
    staticLeases,     \* cfg.DHCP.StaticLeases
    systemDomain,           \* cfg.System.Domain
    enableDoH,        \* cfg.DNS.EnableDoH
    unboundConf,      \* /etc/unbound/unbound.conf
    unbound,          \* what the running unbound loaded
    proxyUp,          \* dnscrypt-proxy runs
    dnsmasqConf,      \* /etc/dnsmasq.conf
    blocklistRunning, \* the compare-and-swap flag of UpdateBlocklist
    nameJob,          \* what each request is doing
    nameOps, nameFaults,
    namesOverlap,     \* history: of the requests since all was quiet, two ran at once
    nameLag           \* history: what was left behind by a failure or overtaken

nameConfig == <<dnsRecords, staticLeases, systemDomain, enableDoH>>
nameDaemons == <<unboundConf, unbound, proxyUp, dnsmasqConf>>
nameCounts == <<nameOps, nameFaults, namesOverlap, nameLag>>
nameVars == <<nameConfig, nameDaemons, blocklistRunning, nameJob, nameCounts>>

UnboundRendered == [records |-> dnsRecords, doh |-> enableDoH]
NoRecord == <<>>
NoConf == <<>>
NoNameJob == [todo |-> <<>>, host |-> "none", index |-> 0, seen |-> NoRecord, doh |-> FALSE, conf |-> NoConf, late |-> FALSE]
LagKinds == {"conf", "unbound", "proxy", "dnsmasq", "mirror"}

FQDN(host) == <<host, systemDomain>>
UserRecord(host) == [name |-> FQDN(host), source |-> "user"]
MirrorRecord(host) == [name |-> FQDN(host), source |-> "dhcp-static"]

\* A device that was set up before: perhaps a static lease with its mirrored
\* record, perhaps a record of the operator's.
NameInit ==
    /\ systemDomain \in Domains /\ enableDoH = FALSE
    /\ \E m \in Macs, h \in Hosts :
          /\ staticLeases \in {<<>>, <<[mac |-> m, host |-> h]>>}
          /\ \E u \in Hosts \ {h} :
                dnsRecords \in {own \o [k \in 1..Len(staticLeases) |-> MirrorRecord(h)] : own \in {<<>>, <<UserRecord(u)>>}}
    /\ unboundConf = UnboundRendered /\ unbound = UnboundRendered /\ proxyUp = FALSE /\ dnsmasqConf = staticLeases
    /\ blocklistRunning = FALSE
    /\ nameJob = [r \in NameRequests |-> NoNameJob]
    /\ nameOps = 0 /\ nameFaults = 0 /\ namesOverlap = FALSE /\ nameLag = {}

NameBusy == {r \in NameRequests : nameJob[r].todo # <<>>}
\* A request starts: its steps, in the handler's order.
NameStarts(r, job) ==
    /\ nameJob[r].todo = <<>> /\ nameOps < MaxNameOps
    /\ nameJob' = [nameJob EXCEPT ![r] = job]
    /\ nameOps' = nameOps + 1 /\ namesOverlap' = (NameBusy # {})
    /\ UNCHANGED <<nameConfig, nameDaemons, blocklistRunning, nameFaults, nameLag>>
NameStep(r, name) == nameJob[r].todo # <<>> /\ Head(nameJob[r].todo) = name
NameStepDone(r) == nameJob' = [nameJob EXCEPT ![r].todo = Tail(@)]
NameFault == nameFaults < MaxNameFaults /\ nameFaults' = nameFaults + 1
\* The jobs when a file or its content changes under those that have rendered it
\* and not written it yet.
Overtaken(jobs) ==
    [r \in NameRequests |->
        [jobs[r] EXCEPT !.late = @ \/ (jobs[r].todo # <<>> /\ Head(jobs[r].todo) \in {"write", "writeLeases"})]]
\* An error return: the rest of the handler is not reached.
NameAbort(r) == nameJob' = [nameJob EXCEPT ![r] = NoNameJob]
\* ... after the edit, which stays in memory and is not applied.
NameAbortEdited(r, lags) ==
    /\ NameFault
    /\ nameJob' = Overtaken([nameJob EXCEPT ![r] = NoNameJob])
    /\ nameLag' = nameLag \cup lags
NoNameFault == UNCHANGED <<nameFaults, nameLag>>
EditsLeases(r) == \E s \in {"lease", "unlease", "mirror", "find", "drop", "strip", "stripAt", "readd"} : s \in Range(nameJob[r].todo)

-----------------------------------------------------------------------------
(* The handlers.                                                                *)

\* DNSService.ApplyConfig, and DHCPService.ApplyConfig.
ApplySteps == <<"render", "write", "reload">>
DHCPSteps == <<"renderLeases", "writeLeases">>
HandleAddRecord(r, h) == NameStarts(r, [NoNameJob EXCEPT !.todo = <<"add">> \o ApplySteps, !.host = h])
HandleDeleteRecord(r, i) == NameStarts(r, [NoNameJob EXCEPT !.todo = <<"remove">> \o ApplySteps, !.index = i])
HandleAddStatic(r, h, m) ==
    /\ ~\E q \in NameRequests : EditsLeases(q)
    /\ NameStarts(r, [NoNameJob EXCEPT !.todo = <<"lease", "mirror">> \o DHCPSteps \o ApplySteps,
                               !.host = <<m, h>>])
HandleDeleteStatic(r, i) ==
    /\ ~\E q \in NameRequests : EditsLeases(q)
    /\ NameStarts(r, [NoNameJob EXCEPT !.todo = <<"unlease", "find", "drop">> \o DHCPSteps \o ApplySteps, !.index = i])
\* The save that ends it writes what the steps before have left; its failure changes nothing modelled.
HandleUpdateHostname(r, d) ==
    /\ ~\E q \in NameRequests : EditsLeases(q)
    /\ NameStarts(r, [NoNameJob EXCEPT !.todo = <<"domain", "strip", "stripAt", "readd">> \o ApplySteps, !.host = d])

\* applyDNSPlane: the proxy first on the way up, Unbound first on the way down.
ApplyDNSPlane(on) == IF on THEN <<"proxy">> \o ApplySteps ELSE ApplySteps \o <<"proxy">>
\* The modes encryptionMode lets through differ in whether Unbound forwards to the proxy.
HandleSaveDoT(r, on) == NameStarts(r, [NoNameJob EXCEPT !.todo = <<"mode">> \o ApplyDNSPlane(on), !.doh = on])
HandleUpdateBlocklist(r) == NameStarts(r, [NoNameJob EXCEPT !.todo = <<"blocklist", "download", "reload", "unblock">>])

-----------------------------------------------------------------------------
(* Static records, each operation under DNSService.mu.                          *)

\* append(list[:i], list[i+1:]...)
CutAt(list, i) == SubSeq(list, 1, i - 1) \o SubSeq(list, i + 1, Len(list))
\* A loop that returns at the first index it looks for, and 0 where there is none.
FirstIndex(indices) == IF indices # {} THEN Min(indices) ELSE 0

NameTaken(rec) == \E i \in 1..Len(dnsRecords) : dnsRecords[i].name = rec.name
\* The record is refused at the limit or for a name that is taken; a failed save leaves it in memory.
AddStaticRecord(rec) ==
    dnsRecords' = IF Len(dnsRecords) >= MaxRecords \/ NameTaken(rec) THEN dnsRecords ELSE Append(dnsRecords, rec)
RecordRefused(rec) == Len(dnsRecords) >= MaxRecords \/ NameTaken(rec)
RemoveStaticRecord(i) == dnsRecords' = IF i \in 1..Len(dnsRecords) THEN CutAt(dnsRecords, i) ELSE dnsRecords
FindStaticRecordIndexBySource(source, name) ==
    FirstIndex({i \in 1..Len(dnsRecords) : dnsRecords[i].source = source /\ dnsRecords[i].name = name})

\* The save that ends each edit succeeds, or fails and is counted.
MirrorSaved == UNCHANGED nameFaults \/ NameFault
EditLags == {"conf", "unbound"}
AddRecord(r) ==
    /\ NameStep(r, "add")
    /\ LET rec == UserRecord(nameJob[r].host)
       IN /\ AddStaticRecord(rec)
          /\ \/ ~RecordRefused(rec) /\ NameStepDone(r) /\ NoNameFault
             \/ ~RecordRefused(rec) /\ NameAbortEdited(r, EditLags)
             \/ RecordRefused(rec) /\ NameAbort(r) /\ NoNameFault
    /\ UNCHANGED <<staticLeases, systemDomain, enableDoH, nameDaemons, blocklistRunning, nameOps, namesOverlap>>
DeleteRecord(r) ==
    /\ NameStep(r, "remove")
    /\ RemoveStaticRecord(nameJob[r].index)
    /\ \/ nameJob[r].index \in 1..Len(dnsRecords) /\ NameStepDone(r) /\ NoNameFault
       \/ nameJob[r].index \in 1..Len(dnsRecords) /\ NameAbortEdited(r, EditLags)
       \/ nameJob[r].index \notin 1..Len(dnsRecords) /\ NameAbort(r) /\ NoNameFault
    /\ UNCHANGED <<staticLeases, systemDomain, enableDoH, nameDaemons, blocklistRunning, nameOps, namesOverlap>>

-----------------------------------------------------------------------------
(* The mirror of the static leases.                                             *)

\* AddStaticLease: a client with a lease is refused; an unsaved lease is not mirrored.
AddStaticLease(r) ==
    /\ NameStep(r, "lease")
    /\ LET lease == [mac |-> nameJob[r].host[1], host |-> nameJob[r].host[2]]
           taken == \E i \in 1..Len(staticLeases) : staticLeases[i].mac = lease.mac
       IN \/ taken /\ NameAbort(r) /\ UNCHANGED staticLeases /\ NoNameFault
          \/ ~taken /\ staticLeases' = Append(staticLeases, lease) /\ NoNameFault
                    /\ nameJob' = [nameJob EXCEPT ![r].todo = Tail(@), ![r].host = lease.host]
          \/ ~taken /\ staticLeases' = Append(staticLeases, lease) /\ NameAbortEdited(r, {"dnsmasq"})
    /\ UNCHANGED <<dnsRecords, systemDomain, enableDoH, nameDaemons, blocklistRunning, nameOps, namesOverlap>>
\* Its mirrored record; a record that cannot be added is logged.
MirrorAdd(r) ==
    /\ NameStep(r, "mirror") /\ AddStaticRecord(MirrorRecord(nameJob[r].host)) /\ MirrorSaved /\ NameStepDone(r)
    /\ UNCHANGED <<staticLeases, systemDomain, enableDoH, nameDaemons, blocklistRunning, nameOps, namesOverlap, nameLag>>

RemoveStaticLease(r) ==
    /\ NameStep(r, "unlease")
    /\ LET i == nameJob[r].index
       IN \/ i \notin 1..Len(staticLeases) /\ NameAbort(r) /\ UNCHANGED staticLeases /\ NoNameFault
          \/ /\ i \in 1..Len(staticLeases) /\ staticLeases' = CutAt(staticLeases, i)
             /\ nameJob' = [nameJob EXCEPT ![r].todo = Tail(@), ![r].host = staticLeases[i].host]
             /\ NoNameFault
          \/ /\ i \in 1..Len(staticLeases) /\ staticLeases' = CutAt(staticLeases, i)
             /\ NameAbortEdited(r, {"dnsmasq", "mirror"})
    /\ UNCHANGED <<dnsRecords, systemDomain, enableDoH, nameDaemons, blocklistRunning, nameOps, namesOverlap>>

RecordAt(i) == IF i \in 1..Len(dnsRecords) THEN dnsRecords[i] ELSE NoRecord
\* A look for a record under a read lock, which is released before what follows.
LookedUp(r, i) == nameJob' = [nameJob EXCEPT ![r].todo = Tail(@), ![r].index = i, ![r].seen = RecordAt(i)]
\* The removal hits another record than the one that was found: the list has moved.
Strayed(r) == IF RecordAt(nameJob[r].index) # nameJob[r].seen THEN {"mirror"} ELSE {}
MirrorFind(r) ==
    /\ NameStep(r, "find")
    /\ LookedUp(r, FindStaticRecordIndexBySource("dhcp-static", FQDN(nameJob[r].host)))
    /\ UNCHANGED <<nameConfig, nameDaemons, blocklistRunning, nameCounts>>
MirrorRemove(r) ==
    /\ NameStep(r, "drop") /\ NameStepDone(r)
    /\ IF nameJob[r].index = 0 THEN UNCHANGED dnsRecords /\ NoNameFault
       ELSE RemoveStaticRecord(nameJob[r].index) /\ MirrorSaved /\ nameLag' = nameLag \cup Strayed(r)
    /\ UNCHANGED <<staticLeases, systemDomain, enableDoH, nameDaemons, blocklistRunning, nameOps, namesOverlap>>

\* HandleUpdateHostname assigns the domain; only a change re-mirrors.
SetDomain(r) ==
    /\ NameStep(r, "domain")
    /\ systemDomain' = nameJob[r].host
    /\ IF systemDomain' # systemDomain THEN NameStepDone(r) ELSE NameAbort(r)
    /\ UNCHANGED <<dnsRecords, staticLeases, enableDoH, nameDaemons, blocklistRunning, nameCounts>>
\* SyncStaticDNSRecords, first loop: look for a mirrored record ...
StripFind(r) ==
    /\ NameStep(r, "strip")
    /\ LET i == FirstIndex({k \in 1..Len(dnsRecords) : dnsRecords[k].source = "dhcp-static"})
       IN IF i # 0 THEN LookedUp(r, i)
          ELSE nameJob' = [nameJob EXCEPT ![r].todo = Tail(Tail(@)), ![r].index = 0, ![r].seen = NoRecord]
    /\ UNCHANGED <<nameConfig, nameDaemons, blocklistRunning, nameCounts>>
\* ... and remove what is at its index now. An index past the end, or a removal
\* that cannot be saved, ends it, and the handler still saves and answers.
StripMirror(r) ==
    /\ NameStep(r, "stripAt")
    /\ LET i == nameJob[r].index
       IN \/ /\ i \in 1..Len(dnsRecords) /\ RemoveStaticRecord(i)
             /\ nameJob' = [nameJob EXCEPT ![r].todo = <<"strip">> \o @]
             /\ nameLag' = nameLag \cup Strayed(r) /\ UNCHANGED nameFaults
          \/ i \in 1..Len(dnsRecords) /\ RemoveStaticRecord(i) /\ NameAbortEdited(r, EditLags \cup {"mirror"})
          \/ /\ i \notin 1..Len(dnsRecords) /\ nameJob' = Overtaken([nameJob EXCEPT ![r] = NoNameJob])
             /\ nameLag' = nameLag \cup EditLags \cup {"mirror"} /\ UNCHANGED <<dnsRecords, nameFaults>>
    /\ UNCHANGED <<staticLeases, systemDomain, enableDoH, nameDaemons, blocklistRunning, nameOps, namesOverlap>>
\* Second loop: the lease at index + 1.
ReaddMirror(r) ==
    /\ NameStep(r, "readd")
    /\ LET i == nameJob[r].index + 1
       IN \/ i > Len(staticLeases) /\ NameStepDone(r) /\ UNCHANGED dnsRecords
          \/ /\ i <= Len(staticLeases) /\ AddStaticRecord(MirrorRecord(staticLeases[i].host))
             /\ nameJob' = [nameJob EXCEPT ![r].index = i]
    /\ UNCHANGED <<staticLeases, systemDomain, enableDoH, nameDaemons, blocklistRunning, nameCounts>>
\* SyncStaticDNSRecords ends, like every edit of a record, in DNSService.ApplyConfig.
SyncStaticDNSRecords(r) == StripFind(r) \/ StripMirror(r) \/ ReaddMirror(r)

-----------------------------------------------------------------------------
(* Applying.                                                                    *)

\* SaveDNSSettings; a save that fails ends the request with the mode in memory.
SaveDNSSettings(r) ==
    /\ NameStep(r, "mode") /\ enableDoH' = nameJob[r].doh
    /\ \/ NameStepDone(r) /\ NoNameFault
       \/ NameAbortEdited(r, EditLags \cup {"proxy"})
    /\ UNCHANGED <<dnsRecords, staticLeases, systemDomain, nameDaemons, blocklistRunning, nameOps, namesOverlap>>

\* RenderToDisk renders ...
Rendered(r, conf) ==
    /\ nameJob' = [nameJob EXCEPT ![r].todo = Tail(@), ![r].conf = conf, ![r].late = FALSE]
    /\ UNCHANGED <<nameConfig, nameDaemons, blocklistRunning, nameCounts>>
RenderUnbound(r) == NameStep(r, "render") /\ Rendered(r, UnboundRendered)
RenderDHCP(r) == NameStep(r, "renderLeases") /\ Rendered(r, staticLeases)
Written(r, todo) == nameJob' = Overtaken([nameJob EXCEPT ![r].todo = todo, ![r].conf = NoConf, ![r].late = FALSE])
\* ... and writes; when that fails the reload is not reached, and what follows
\* ApplyConfig still runs. Nothing keeps an older rendering from being written last.
WithoutReload(todo) == Tail(Tail(todo))
WriteUnbound(r) ==
    /\ NameStep(r, "write")
    /\ \/ /\ unboundConf' = nameJob[r].conf /\ Written(r, Tail(nameJob[r].todo)) /\ UNCHANGED nameFaults
          /\ nameLag' = IF nameJob[r].late THEN nameLag \cup EditLags ELSE nameLag \ {"conf"}
       \/ /\ NameFault /\ Written(r, WithoutReload(nameJob[r].todo)) /\ UNCHANGED unboundConf
          /\ nameLag' = nameLag \cup EditLags
    /\ UNCHANGED <<nameConfig, unbound, proxyUp, dnsmasqConf, blocklistRunning, nameOps, namesOverlap>>
ReloadUnbound(r) ==
    /\ NameStep(r, "reload") /\ NameStepDone(r)
    /\ \/ /\ unbound' = unboundConf /\ UNCHANGED nameFaults
          /\ nameLag' = IF "conf" \in nameLag THEN nameLag \cup {"unbound"} ELSE nameLag \ {"unbound"}
       \/ NameFault /\ nameLag' = nameLag \cup {"unbound"} /\ UNCHANGED unbound
    /\ UNCHANGED <<nameConfig, unboundConf, proxyUp, dnsmasqConf, blocklistRunning, nameOps, namesOverlap>>
\* DNSService.ApplyConfig.
ApplyDNSConfig(r) == RenderUnbound(r) \/ WriteUnbound(r) \/ ReloadUnbound(r)
\* DoHService.ApplyConfig: the unit follows the setting as it is now.
ApplyDoH(r) ==
    /\ NameStep(r, "proxy") /\ NameStepDone(r)
    /\ \/ proxyUp' = enableDoH /\ nameLag' = nameLag \ {"proxy"} /\ UNCHANGED nameFaults
       \/ NameFault /\ nameLag' = nameLag \cup {"proxy"} /\ UNCHANGED proxyUp
    /\ UNCHANGED <<nameConfig, unboundConf, unbound, dnsmasqConf, blocklistRunning, nameOps, namesOverlap>>
\* DHCPService.ApplyConfig; a failure is logged, and the signal changes nothing here.
WriteDHCP(r) ==
    /\ NameStep(r, "writeLeases")
    /\ Written(r, Tail(nameJob[r].todo))
    /\ \/ /\ dnsmasqConf' = nameJob[r].conf /\ UNCHANGED nameFaults
          /\ nameLag' = IF nameJob[r].late THEN nameLag \cup {"dnsmasq"} ELSE nameLag \ {"dnsmasq"}
       \/ NameFault /\ nameLag' = nameLag \cup {"dnsmasq"} /\ UNCHANGED dnsmasqConf
    /\ UNCHANGED <<nameConfig, unboundConf, unbound, proxyUp, blocklistRunning, nameOps, namesOverlap>>
ApplyDHCP(r) == RenderDHCP(r) \/ WriteDHCP(r)

\* The page or blocklistTick asks for an update: refused while another one runs.
BlocklistStart(r) ==
    /\ NameStep(r, "blocklist")
    /\ \/ ~blocklistRunning /\ blocklistRunning' = TRUE /\ NameStepDone(r)
       \/ blocklistRunning /\ NameAbort(r) /\ UNCHANGED blocklistRunning
    /\ UNCHANGED <<nameConfig, nameDaemons, nameCounts>>
\* The lists are downloaded and written; a write that fails skips the reload.
DownloadBlocklist(r) ==
    /\ NameStep(r, "download")
    /\ \/ NameStepDone(r) /\ UNCHANGED nameFaults
       \/ NameFault /\ nameJob' = [nameJob EXCEPT ![r].todo = <<"unblock">>]
    /\ UNCHANGED <<nameConfig, nameDaemons, blocklistRunning, nameOps, namesOverlap, nameLag>>
BlocklistDone(r) ==
    /\ NameStep(r, "unblock") /\ NameStepDone(r) /\ blocklistRunning' = FALSE
    /\ UNCHANGED <<nameConfig, nameDaemons, nameCounts>>
UpdateBlocklist(r) == BlocklistStart(r) \/ DownloadBlocklist(r) \/ BlocklistDone(r)

NameNext == \E r \in NameRequests :
    \/ \E h \in Hosts : HandleAddRecord(r, h) \/ \E m \in Macs : HandleAddStatic(r, h, m)
    \/ \E i \in 1..MaxRecords : HandleDeleteRecord(r, i) \/ HandleDeleteStatic(r, i)
    \/ \E d \in Domains : HandleUpdateHostname(r, d)
    \/ \E on \in BOOLEAN : HandleSaveDoT(r, on)
    \/ HandleUpdateBlocklist(r)
    \/ AddRecord(r) \/ DeleteRecord(r)
    \/ AddStaticLease(r) \/ MirrorAdd(r) \/ RemoveStaticLease(r) \/ MirrorFind(r) \/ MirrorRemove(r)
    \/ SetDomain(r) \/ SyncStaticDNSRecords(r)
    \/ SaveDNSSettings(r) \/ ApplyDNSConfig(r) \/ ApplyDoH(r) \/ ApplyDHCP(r)
    \/ UpdateBlocklist(r)

NameSpec == NameInit /\ [][NameNext]_nameVars

-----------------------------------------------------------------------------
RecordSources == {"user", "dhcp-static"}
NameTypeOK ==
    /\ Range(dnsRecords) \subseteq [name : Hosts \X Domains, source : RecordSources]
    /\ Range(staticLeases) \subseteq [mac : Macs, host : Hosts]
    /\ systemDomain \in Domains /\ {enableDoH, proxyUp, blocklistRunning, namesOverlap} \subseteq BOOLEAN
    /\ nameLag \subseteq LagKinds
    /\ \A r \in NameRequests : nameJob[r].index \in 0..MaxRecords + 1

\* However requests interleave, no two records carry one name and their number stays at its limit: the check
\* and the append of AddStaticRecord are one critical section, whoever calls it.
RecordNamesOnce ==
    /\ Len(dnsRecords) <= MaxRecords
    /\ \A i, j \in 1..Len(dnsRecords) : dnsRecords[i].name = dnsRecords[j].name => i = j

\* Once every request has finished, however they overlapped, each mirrored record belongs to a static lease
\* under the current domain, unless an index had moved between its look-up and the removal, or an edit could
\* not be saved.
MirrorOwned ==
    NameBusy = {} /\ "mirror" \notin nameLag =>
        \A i \in 1..Len(dnsRecords) : dnsRecords[i].source = "dhcp-static" =>
            \E k \in 1..Len(staticLeases) : dnsRecords[i].name = FQDN(staticLeases[k].host)

\* In the same states unbound serves the stored records and dnsmasq.conf has the stored leases, unless an
\* edit, a write or a reload failed, or a rendering was written after a later one; the next apply mends that.
StoredIsServed ==
    NameBusy = {} =>
        /\ "unbound" \notin nameLag => unbound = UnboundRendered
        /\ "dnsmasq" \notin nameLag => dnsmasqConf = staticLeases
        /\ "proxy" \notin nameLag => proxyUp = enableDoH

\* Unbound never forwards to a proxy that is not listening, at any step of a mode change that runs alone and
\* meets no failure: the order applyDNSPlane is written for.
ForwarderListens == unbound.doh /\ ~namesOverlap => proxyUp \/ nameLag \cap {"proxy", "unbound"} # {}

\* Two blocklist updates never run at once.
BlocklistOnce == \A r, q \in NameRequests :
    {"unblock"} \cap Range(nameJob[r].todo) \cap Range(nameJob[q].todo) # {}
        /\ ~NameStep(r, "blocklist") /\ ~NameStep(q, "blocklist") => r = q


=============================================================================
