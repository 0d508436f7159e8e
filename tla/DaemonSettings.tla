--------------------------- MODULE DaemonSettings ---------------------------
(* The settings pages of chrony and rsyslog (internal/services/ntp.go,          *)
(* syslog.go and their handlers): each request checks and edits the             *)
(* configuration, saves it, renders the daemon's file and restarts the daemon,  *)
(* and answers with an error when one of those fails. The services have no      *)
(* lock: checking, storing, rendering and writing are steps of their own, and   *)
(* a list is stored as an edit of what the check saw or of what is there now.   *)
EXTENDS Naturals, FiniteSets, Sequences, SequencesExt

CONSTANTS
    SettingRequests,
    NTPHosts, NTPSubnets, Facilities, FormValues,
    MaxNTPSources, MaxNTPAllowSubnets,
    MaxSettingOps,     \* bound: requests
    MaxSettingFaults   \* bound: saves, writes and restarts that fail

ASSUME SettingAssumption == {MaxNTPSources, MaxNTPAllowSubnets, MaxSettingOps, MaxSettingFaults} \subseteq Nat

VARIABLES
    ntp,             \* cfg.NTP: sources, allowSubnets and the scalar settings
    syslog,          \* cfg.Syslog: server and client with its facilities
    confFile,        \* what each daemon's file was rendered from
    settingLive,     \* what each daemon was last started with, or Stopped
    setting,         \* what each request is doing
    lastOK,          \* history: the units whose last request to reach an edit was answered with success
    settingOps, settingFaults,
    settingsOverlapped   \* history: the units two requests were under way for at once

settingCounts == <<settingOps, settingFaults, settingsOverlapped>>
settingVars == <<ntp, syslog, confFile, settingLive, setting, lastOK, settingCounts>>

Units == {"chrony", "rsyslog"}
ConfigOf(unit) == IF unit = "chrony" THEN ntp ELSE syslog
Stopped == <<>>
NoSetting == [pc |-> "idle", unit |-> "chrony", kind |-> "none", value |-> "none", seen |-> <<>>, rendered |-> <<>>]

SettingInit ==
    /\ ntp = [sources |-> <<>>, allow |-> <<>>, settings |-> "default"]
    /\ syslog = [server |-> "default", client |-> "default", facilities |-> <<>>]
    /\ confFile = [u \in Units |-> ConfigOf(u)] /\ settingLive = confFile /\ lastOK = Units
    /\ setting = [r \in SettingRequests |-> NoSetting]
    /\ settingOps = 0 /\ settingFaults = 0 /\ settingsOverlapped = {}

SettingFault == settingFaults < MaxSettingFaults /\ settingFaults' = settingFaults + 1
SettingEnds(r) == setting' = [setting EXCEPT ![r] = NoSetting]
\* The request answers with an error.
SettingFails(r) == SettingFault /\ SettingEnds(r) /\ lastOK' = lastOK \ {setting[r].unit}
UnderWay(unit) == {r \in SettingRequests : setting[r].pc # "idle" /\ setting[r].unit = unit}
Post(r, unit, kind, value) ==
    /\ setting[r].pc = "idle" /\ settingOps < MaxSettingOps /\ settingOps' = settingOps + 1
    /\ settingsOverlapped' = settingsOverlapped \cup (IF UnderWay(unit) = {} THEN {} ELSE {unit})
    /\ setting' = [setting EXCEPT ![r] = [NoSetting EXCEPT !.pc = "check", !.unit = unit, !.kind = kind, !.value = value]]
    /\ UNCHANGED <<ntp, syslog, confFile, settingLive, lastOK, settingFaults>>

-----------------------------------------------------------------------------
(* The forms.                                                                   *)

HandleAddSource(r, h) == Post(r, "chrony", "addSource", h)
HandleRemoveSource(r, i) == Post(r, "chrony", "removeSource", i)
HandleAddAllowSubnet(r, c) == Post(r, "chrony", "addSubnet", c)
HandleRemoveAllowSubnet(r, i) == Post(r, "chrony", "removeSubnet", i)
HandleSaveNTPSettings(r, v) == Post(r, "chrony", "settings", v)
HandleSaveServerConfig(r, v) == Post(r, "rsyslog", "server", v)
HandleSaveClientConfig(r, v) == Post(r, "rsyslog", "client", v)
HandleAddFacility(r, f) == Post(r, "rsyslog", "addFacility", f)
HandleRemoveFacility(r, i) == Post(r, "rsyslog", "removeFacility", i)

-----------------------------------------------------------------------------
(* The services.                                                                *)

MayAdd(list, v, limit) == Len(list) < limit /\ v \notin Range(list)
MayRemove(list, i) == i \in 1..Len(list)

\* The list a form edits. Facilities have no limit; the client form reads the whole client block, they with it.
ListOf(kind) ==
    CASE kind \in {"addSource", "removeSource"} -> ntp.sources
      [] kind \in {"addSubnet", "removeSubnet"} -> ntp.allow
      [] kind \in {"addFacility", "removeFacility", "client"} -> syslog.facilities
      [] OTHER -> <<>>
Accepted(kind, v) ==
    CASE kind = "addSource" -> MayAdd(ntp.sources, v, MaxNTPSources)
      [] kind = "addSubnet" -> MayAdd(ntp.allow, v, MaxNTPAllowSubnets)
      [] kind = "addFacility" -> v \notin Range(syslog.facilities)
      [] kind \in {"removeSource", "removeSubnet", "removeFacility"} -> MayRemove(ListOf(kind), v)
      [] OTHER -> TRUE
CheckSetting(r) ==
    /\ setting[r].pc = "check" /\ Accepted(setting[r].kind, setting[r].value)
    /\ setting' = [setting EXCEPT ![r].pc = "store", ![r].seen = ListOf(setting[r].kind)]
    /\ UNCHANGED <<ntp, syslog, confFile, settingLive, lastOK, settingCounts>>
\* A limit, a duplicate or an index past the end is refused.
RefuseSetting(r) ==
    /\ setting[r].pc = "check" /\ ~Accepted(setting[r].kind, setting[r].value)
    /\ SettingEnds(r)
    /\ UNCHANGED <<ntp, syslog, confFile, settingLive, lastOK, settingCounts>>

AddSource(list, h) == ntp' = [ntp EXCEPT !.sources = Append(list, h)]
RemoveSource(list, i) == ntp' = [ntp EXCEPT !.sources = RemoveAt(list, i)]
AddAllowSubnet(list, c) == ntp' = [ntp EXCEPT !.allow = Append(list, c)]
RemoveAllowSubnet(list, i) == ntp' = [ntp EXCEPT !.allow = RemoveAt(list, i)]
SaveNTPSettings(v) == ntp' = [ntp EXCEPT !.settings = v]
SaveServerConfig(v) == syslog' = [syslog EXCEPT !.server = v]
\* The client block is written back whole, with the facilities that were read.
SaveClientConfig(v, facilities) == syslog' = [syslog EXCEPT !.client = v, !.facilities = facilities]
AddFacility(list, f) == syslog' = [syslog EXCEPT !.facilities = Append(list, f)]
RemoveFacility(list, i) == syslog' = [syslog EXCEPT !.facilities = RemoveAt(list, i)]

Removes(r) == setting[r].kind \in {"removeSource", "removeSubnet", "removeFacility"}
EditOf(r, list) ==
    LET kind == setting[r].kind
        v == setting[r].value
    IN \/ /\ UNCHANGED syslog
          /\ \/ kind = "addSource" /\ AddSource(list, v)
             \/ kind = "removeSource" /\ RemoveSource(list, v)
             \/ kind = "addSubnet" /\ AddAllowSubnet(list, v)
             \/ kind = "removeSubnet" /\ RemoveAllowSubnet(list, v)
             \/ kind = "settings" /\ SaveNTPSettings(v)
       \/ /\ UNCHANGED ntp
          /\ \/ kind = "server" /\ SaveServerConfig(v)
             \/ kind = "client" /\ SaveClientConfig(v, setting[r].seen)
             \/ kind = "addFacility" /\ AddFacility(list, v)
             \/ kind = "removeFacility" /\ RemoveFacility(list, v)
\* The edit is stored and saved. A save that fails answers with an error, the edit staying in memory.
EditSetting(r) ==
    /\ setting[r].pc = "store"
    /\ \E list \in {setting[r].seen, ListOf(setting[r].kind)} :
          (Removes(r) => MayRemove(list, setting[r].value)) /\ EditOf(r, list)
    /\ \/ setting' = [setting EXCEPT ![r].pc = "render"] /\ UNCHANGED <<lastOK, settingFaults>>
       \/ SettingFails(r)
    /\ UNCHANGED <<confFile, settingLive, settingOps, settingsOverlapped>>
\* The list became shorter than the index that was checked: the slice expression panics, and the request ends.
RemovePanics(r) ==
    /\ setting[r].pc = "store" /\ Removes(r) /\ ~MayRemove(ListOf(setting[r].kind), setting[r].value)
    /\ SettingEnds(r)
    /\ UNCHANGED <<ntp, syslog, confFile, settingLive, lastOK, settingCounts>>

\* ApplyConfig: the file is rendered from the configuration as it is now, written, and the daemon restarted.
RenderSetting(r) ==
    /\ setting[r].pc = "render"
    /\ setting' = [setting EXCEPT ![r].pc = "write", ![r].rendered = ConfigOf(setting[r].unit)]
    /\ UNCHANGED <<ntp, syslog, confFile, settingLive, lastOK, settingCounts>>
WriteSetting(r) ==
    /\ setting[r].pc = "write"
    /\ \/ /\ confFile' = [confFile EXCEPT ![setting[r].unit] = setting[r].rendered]
          /\ setting' = [setting EXCEPT ![r].pc = "restart"] /\ UNCHANGED <<lastOK, settingFaults>>
       \/ SettingFails(r) /\ UNCHANGED confFile
    /\ UNCHANGED <<ntp, syslog, settingLive, settingOps, settingsOverlapped>>
\* A restart that fails has stopped the daemon and perhaps started it with the new file, or did not reach it.
RestartDaemon(r) ==
    LET unit == setting[r].unit
    IN  /\ setting[r].pc = "restart"
        /\ \/ /\ settingLive' = [settingLive EXCEPT ![unit] = confFile[unit]]
              /\ lastOK' = lastOK \cup {unit} /\ SettingEnds(r) /\ UNCHANGED settingFaults
           \/ /\ SettingFails(r)
              /\ \E now \in {settingLive[unit], confFile[unit], Stopped} : settingLive' = [settingLive EXCEPT ![unit] = now]
        /\ UNCHANGED <<ntp, syslog, confFile, settingOps, settingsOverlapped>>

SettingNext == \E r \in SettingRequests :
    \/ \E h \in NTPHosts : HandleAddSource(r, h)
    \/ \E c \in NTPSubnets : HandleAddAllowSubnet(r, c)
    \/ \E f \in Facilities : HandleAddFacility(r, f)
    \/ \E i \in 1..MaxNTPSources + 1 : HandleRemoveSource(r, i) \/ HandleRemoveAllowSubnet(r, i) \/ HandleRemoveFacility(r, i)
    \/ \E v \in FormValues : HandleSaveNTPSettings(r, v) \/ HandleSaveServerConfig(r, v) \/ HandleSaveClientConfig(r, v)
    \/ CheckSetting(r) \/ RefuseSetting(r) \/ EditSetting(r) \/ RemovePanics(r) \/ RenderSetting(r) \/ WriteSetting(r) \/ RestartDaemon(r)

SettingSpec == SettingInit /\ [][SettingNext]_settingVars

-----------------------------------------------------------------------------
SettingTypeOK ==
    /\ Range(ntp.sources) \subseteq NTPHosts /\ Range(ntp.allow) \subseteq NTPSubnets
    /\ Range(syslog.facilities) \subseteq Facilities /\ lastOK \subseteq Units
    /\ \A r \in SettingRequests :
          setting[r].pc \in {"idle", "check", "store", "render", "write", "restart"} /\ setting[r].unit \in Units

\* "Saved but not live: say so rather than report success": a daemon whose last edit was answered with success, with
\* no other request for it under way or overlapping, runs the configuration as it is, edits included that an earlier
\* request left in memory when its save, its write or its restart failed.
AnsweredIsLive ==
    \A u \in lastOK \ settingsOverlapped : UnderWay(u) = {} => settingLive[u] = ConfigOf(u) /\ confFile[u] = ConfigOf(u)

\* One request at a time, the lists of a daemon stay within their limits and name every entry once. Requests that
\* check before the others have stored can exceed a limit, by no more than there are others: the overrun does not grow.
ListsWithinLimits ==
    /\ "chrony" \notin settingsOverlapped =>
          /\ Len(ntp.sources) <= MaxNTPSources /\ Len(ntp.allow) <= MaxNTPAllowSubnets
          /\ IsInjective(ntp.sources) /\ IsInjective(ntp.allow)
    /\ "rsyslog" \notin settingsOverlapped => IsInjective(syslog.facilities)
    /\ Len(ntp.sources) < MaxNTPSources + Cardinality(SettingRequests)
    /\ Len(ntp.allow) < MaxNTPAllowSubnets + Cardinality(SettingRequests)

\* What AddSource, SaveClientConfig, ApplyConfig and the handlers around them promise together.
SettingsLive == AnsweredIsLive /\ ListsWithinLimits
=============================================================================
