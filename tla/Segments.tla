------------------------------ MODULE Segments ------------------------------
(* Interfaces and VLANs: internal/services/network.go with handlers/network.go   *)
(* and handlers/vlan.go, the first-boot bridge (firstboot.go), and the share of   *)
(* the delegated prefix each segment gets (buildPrefixInterfaces and the subnet   *)
(* map of ipv6.go).                                                              *)
(*                                                                               *)
(* SetInterface and RemoveInterface check and store without a lock: two steps.    *)
(* AddVLAN and RemoveVLAN hold the service's lock while they set the list and     *)
(* save it, but no other handler's save waits for that lock; the commands on the  *)
(* VLAN's device come after it.                                                  *)
EXTENDS Integers, Sequences, FiniteSets, SequencesExt

CONSTANTS
    IfaceIDs, Devices, VlanIDs, Vids,
    Forms,             \* requests to the interface form that may be in flight at once
    VlanForms,         \* requests to the VLAN forms that may be in flight at once
    Subnets,           \* networks; two of them do not overlap
    AddressOf,         \* the network of each interface
    VPNSubnets,        \* the networks of the WireGuard and OpenVPN servers
    NoSubnet, NoDevice,
    SLABits,           \* subnet bits of the delegated prefix
    LanKey,            \* the key "lan" of the subnet map; a VLAN may be called that, too
    MaxSegmentEdits,   \* bound: requests served
    MaxSegmentFaults   \* bound: failed saves and commands, and restarts

ASSUME SegmentsAssumption ==
    /\ {SLABits, MaxSegmentEdits, MaxSegmentFaults} \subseteq Nat
    /\ AddressOf \in [IfaceIDs -> Subnets] /\ VPNSubnets \subseteq Subnets
    /\ NoSubnet \notin Subnets /\ NoDevice \notin Devices

VARIABLES
    ifaces,       \* cfg.Interfaces
    vlans,        \* cfg.VLANs
    subnetMap,    \* cfg.IPv6.LAN.SubnetMap
    storedSegments,       \* the three in router.yaml
    ifaceForm,         \* per interface request: the edit that passed the checks
    vlanForm,     \* per VLAN request: the change being saved, or whose device is to follow
    vlanDevices,      \* VLAN devices in the kernel: parent device and VLAN ID |-> "bare" or "up"
    firstBoot,    \* the installer's marker
    bridged,      \* devices in the first-boot bridge
    segmentEdits, segmentFaults,
    adrift,       \* history: since the last boot a command failed or a parent was edited
    crossed,      \* history: an interface edit was stored between the check and the edit of another
    shown,        \* history: the VLAN list that is being saved went into the file by another save
    leaked        \* history: ... and was then taken back; no save came since

segmentVars == <<ifaces, vlans, subnetMap, storedSegments, ifaceForm, vlanForm, vlanDevices, firstBoot, bridged,
                 segmentEdits, segmentFaults, adrift, crossed, shown, leaked>>
saveVars == <<storedSegments, segmentFaults, shown, leaked>>
segmentLists == <<ifaces, vlans, subnetMap>>
bridgeVars == <<firstBoot, bridged>>

IfaceEntry(i, d, r) == [id |-> i, dev |-> d, role |-> r]
VlanEntries == [id : VlanIDs, parent : IfaceIDs, vid : Vids, net : Subnets \cup {NoSubnet}]
NoSegmentEdit == [op |-> "none"]
IdsOf(list) == {list[k].id : k \in DOMAIN list}

\* interfaceIndex; 0 when no entry has the ID.
EntryAt(list, i) == SelectInSeq(list, LAMBDA e : e.id = i)
\* parentDevice of the handler, and the loops of RestoreVLANs and buildPrefixInterfaces.
ParentDevice(list, i) ==
    IF i \in IdsOf(list) THEN list[EntryAt(list, i)].dev ELSE NoDevice
DeviceOf(list, v) == <<ParentDevice(list, v.parent), v.vid>>

CountLANExcept(i) == Len(SelectSeq(ifaces, LAMBDA e : e.id # i /\ e.role = "lan"))

SegmentsInit ==
    /\ \E l, w \in IfaceIDs, d, e \in Devices :
          l # w /\ d # e /\ ifaces = <<IfaceEntry(l, d, "lan"), IfaceEntry(w, e, "wan")>>
    /\ vlans = <<>> /\ subnetMap = <<>>
    /\ storedSegments = [ifaces |-> ifaces, vlans |-> vlans, subnetMap |-> subnetMap]
    /\ ifaceForm = [q \in Forms |-> NoSegmentEdit] /\ vlanForm = [q \in VlanForms |-> NoSegmentEdit]
    /\ vlanDevices = <<>>
    /\ firstBoot \in BOOLEAN /\ bridged = IF firstBoot THEN Devices ELSE {}
    /\ segmentEdits = 0 /\ segmentFaults = 0
    /\ adrift = FALSE /\ crossed = FALSE /\ shown = FALSE /\ leaked = FALSE

SegmentEdit == segmentEdits < MaxSegmentEdits /\ segmentEdits' = segmentEdits + 1
SegmentBreaks == segmentFaults < MaxSegmentFaults /\ segmentFaults' = segmentFaults + 1
\* NetworkService.mu is held: a request sets the VLAN list and saves it.
NetworkLocked == \E g \in VlanForms : vlanForm[g].op # "none" /\ vlanForm[g].stage = "save"
\* Config.SaveToFile writes all of the configuration, whoever calls it.
SaveToFile ==
    /\ storedSegments' = [ifaces |-> ifaces', vlans |-> vlans', subnetMap |-> subnetMap']
    /\ leaked' = FALSE /\ UNCHANGED segmentFaults
SegmentSaves == SaveToFile /\ shown' = NetworkLocked
SegmentSaveFails == SegmentBreaks /\ UNCHANGED <<storedSegments, shown, leaked>>

-----------------------------------------------------------------------------
(* Interfaces.                                                                   *)

\* Another entry already uses the device.
DeviceTaken(i, d) == \E k \in DOMAIN ifaces : ifaces[k].id # i /\ ifaces[k].dev = d

\* The edit would leave no LAN interface: ErrLastLANInterface.
LastLAN(i, role) ==
    ifaces[EntryAt(ifaces, i)].role = "lan" /\ role # "lan" /\ CountLANExcept(i) = 0

\* SetInterface, up to the assignment.
SetInterface(q, i, d, role) ==
    /\ ifaceForm[q] = NoSegmentEdit /\ SegmentEdit
    /\ ~DeviceTaken(i, d)
    /\ i \in IdsOf(ifaces) => ~LastLAN(i, role)
    /\ ifaceForm' = [ifaceForm EXCEPT ![q] = [op |-> "set", at |-> EntryAt(ifaces, i), entry |-> IfaceEntry(i, d, role)]]
    /\ UNCHANGED <<segmentLists, saveVars, vlanForm, vlanDevices, bridgeVars, adrift, crossed>>

\* RemoveInterface, up to the assignment.
RemoveInterface(q, i) ==
    /\ ifaceForm[q] = NoSegmentEdit /\ SegmentEdit
    /\ i \in IdsOf(ifaces) /\ ~LastLAN(i, "none")
    /\ ifaceForm' = [ifaceForm EXCEPT ![q] = [op |-> "remove", at |-> EntryAt(ifaces, i)]]
    /\ UNCHANGED <<segmentLists, saveVars, vlanForm, vlanDevices, bridgeVars, adrift, crossed>>

\* The assignment. A position past the end, because another request has
\* shortened the list meanwhile, panics and changes nothing.
EditedInterfaces(f) ==
    CASE f.op = "set" /\ f.at = 0 -> Append(ifaces, f.entry)
      [] f.op = "set" /\ f.at \in DOMAIN ifaces -> [ifaces EXCEPT ![f.at] = f.entry]
      [] f.op = "remove" /\ f.at \in DOMAIN ifaces -> RemoveAt(ifaces, f.at)
      [] OTHER -> ifaces

\* ... and the save; when it fails the edit stays in memory.
StoreInterface(q) ==
    /\ ifaceForm[q] # NoSegmentEdit
    /\ ifaceForm' = [ifaceForm EXCEPT ![q] = NoSegmentEdit]
    /\ crossed' = (crossed \/ \E p \in Forms \ {q} : ifaceForm[p] # NoSegmentEdit)
    /\ ifaces' = EditedInterfaces(ifaceForm[q]) /\ UNCHANGED <<vlans, subnetMap>>
    /\ SegmentSaves \/ SegmentSaveFails
    /\ adrift' = (adrift \/ \E v \in ToSet(vlans) \cup {vlanForm[g].vlan : g \in {g \in VlanForms : vlanForm[g] # NoSegmentEdit}} :
                                DeviceOf(ifaces', v) # DeviceOf(ifaces, v))
    /\ UNCHANGED <<vlanForm, vlanDevices, bridgeVars, segmentEdits>>

HandleSetInterface(q) ==
    \/ \E i \in IfaceIDs, d \in Devices, role \in {"lan", "wan"} : SetInterface(q, i, d, role)
    \/ StoreInterface(q)
HandleRemoveInterface(q) == (\E i \in IfaceIDs : RemoveInterface(q, i)) \/ StoreInterface(q)

-----------------------------------------------------------------------------
(* VLANs.                                                                        *)

ValidateVLANIdentity(v) ==
    /\ v.parent \in IdsOf(ifaces)
    /\ \A w \in ToSet(vlans) : w.id # v.id /\ <<w.parent, w.vid>> # <<v.parent, v.vid>>

ServedSubnets ==
    {AddressOf[e.id] : e \in {e \in ToSet(ifaces) : e.role = "lan"}}
        \cup {v.net : v \in ToSet(vlans)} \cup VPNSubnets
ValidateVLANSubnet(v) == v.net # NoSubnet => v.net \notin ServedSubnets
ValidateVLAN(v) == ValidateVLANIdentity(v) /\ ValidateVLANSubnet(v)

\* A request takes the mutex before it checks.
VLANRequest(g) == vlanForm[g] = NoSegmentEdit /\ ~NetworkLocked /\ SegmentEdit
\* storeVLANsLocked sets the list ...
StoreVLANs(g, op, v, next) ==
    /\ vlans' = next
    /\ vlanForm' = [vlanForm EXCEPT ![g] = [op |-> op, vlan |-> v, prev |-> vlans, stage |-> "save"]]
    /\ UNCHANGED <<ifaces, subnetMap, saveVars, ifaceForm, vlanDevices, bridgeVars, adrift, crossed>>
\* Variant: a failed save keeps the new list.
RestoredVLANsKeep(g) == vlans
RestoredVLANs(g) == vlanForm[g].prev
\* ... and saves it; a failed save restores the previous list, which ends the
\* request, and otherwise the device follows.
SaveVLANs(g) ==
    /\ vlanForm[g].op # "none" /\ vlanForm[g].stage = "save"
    /\ shown' = FALSE /\ UNCHANGED <<ifaces, subnetMap>>
    /\ \/ /\ UNCHANGED vlans /\ SaveToFile
          /\ vlanForm' = [vlanForm EXCEPT ![g].stage = "device", ![g].prev = <<>>]
       \/ /\ vlans' = RestoredVLANs(g) /\ SegmentBreaks /\ UNCHANGED storedSegments
          /\ leaked' = (leaked \/ shown)
          /\ vlanForm' = [vlanForm EXCEPT ![g] = NoSegmentEdit]
    /\ UNCHANGED <<ifaceForm, vlanDevices, bridgeVars, segmentEdits, adrift, crossed>>

AddVLAN(g, v) == VLANRequest(g) /\ ValidateVLAN(v) /\ StoreVLANs(g, "create", v, Append(vlans, v))
RemoveVLAN(g, i) ==
    LET at == EntryAt(vlans, i)
    IN  VLANRequest(g) /\ i \in IdsOf(vlans) /\ StoreVLANs(g, "delete", vlans[at], RemoveAt(vlans, at))

WithDevice(d, s) == [x \in DOMAIN vlanDevices \cup {d} |-> IF x = d THEN s ELSE vlanDevices[x]]
WithoutDevice(d) == [x \in DOMAIN vlanDevices \ {d} |-> vlanDevices[x]]

\* CreateVLAN: ip link add is refused when the device exists; a later command that
\* fails leaves the device without its address or down.
CreateVLAN(d) ==
    \/ /\ d \notin DOMAIN vlanDevices /\ vlanDevices' = WithDevice(d, "up") /\ UNCHANGED <<adrift, segmentFaults>>
    \/ /\ d \notin DOMAIN vlanDevices /\ SegmentBreaks /\ adrift' = TRUE
       /\ vlanDevices' \in {vlanDevices, WithDevice(d, "bare")}
    \/ /\ d \in DOMAIN vlanDevices /\ adrift' = TRUE /\ UNCHANGED <<vlanDevices, segmentFaults>>

\* DeleteVLAN: ip link delete is refused when there is no such device.
DeleteVLAN(d) ==
    \/ d \in DOMAIN vlanDevices /\ vlanDevices' = WithoutDevice(d) /\ UNCHANGED <<adrift, segmentFaults>>
    \/ d \in DOMAIN vlanDevices /\ SegmentBreaks /\ adrift' = TRUE /\ UNCHANGED vlanDevices
    \/ d \notin DOMAIN vlanDevices /\ adrift' = TRUE /\ UNCHANGED <<vlanDevices, segmentFaults>>

\* The rest of the two VLAN handlers: errors are logged, and a parent that is no
\* longer configured means no command at all.
VLANDevice(g) ==
    LET f == vlanForm[g]
        d == DeviceOf(ifaces, f.vlan)
    IN  /\ f.op # "none" /\ f.stage = "device" /\ vlanForm' = [vlanForm EXCEPT ![g] = NoSegmentEdit]
        /\ \/ f.vlan.parent \in IdsOf(ifaces) /\ f.op = "create" /\ CreateVLAN(d)
           \/ f.vlan.parent \in IdsOf(ifaces) /\ f.op = "delete" /\ DeleteVLAN(d)
           \/ f.vlan.parent \notin IdsOf(ifaces) /\ UNCHANGED <<vlanDevices, adrift, segmentFaults>>
        /\ UNCHANGED <<segmentLists, storedSegments, ifaceForm, bridgeVars, segmentEdits, crossed, shown, leaked>>

\* VLANHandler.HandleAdd and HandleDelete.
HandleAddVLAN(g) == (\E v \in VlanEntries : AddVLAN(g, v)) \/ SaveVLANs(g) \/ VLANDevice(g)
HandleDeleteVLAN(g) == (\E i \in VlanIDs : RemoveVLAN(g, i)) \/ SaveVLANs(g) \/ VLANDevice(g)

-----------------------------------------------------------------------------
(* The shares of the delegated prefix.                                           *)

PickSLA(key, default) == IF key \in DOMAIN subnetMap THEN subnetMap[key] ELSE default

\* The counter of the automatic numbers: it grows with every entry.
NextAuto(out) == Len(out)

\* A VLAN with no configured parent, or a number past the delegation, gets none.
AppendPrefix(out, v) ==
    LET sla == PickSLA(v.id, NextAuto(out))
    IN  IF v.parent \notin IdsOf(ifaces) \/ sla > 2 ^ SLABits - 1 THEN out
        ELSE Append(out, [name |-> v.id, sla |-> sla])
\* buildPrefixInterfaces
PrefixInterfaces ==
    LET lan == <<[name |-> LanKey, sla |-> PickSLA(LanKey, 0)]>>
    IN  IF SLABits = 0 THEN lan ELSE FoldLeft(AppendPrefix, lan, vlans)

\* ValidateSubnetMap
ValidateSubnetMap(m) ==
    /\ LanKey \in DOMAIN m => m[LanKey] = 0
    /\ DOMAIN m \ {LanKey} \subseteq IdsOf(vlans)
    /\ \A a, b \in DOMAIN m : a # b => m[a] # m[b]

\* A failed save keeps the map in memory.
SetSubnetMap(m) ==
    /\ ValidateSubnetMap(m)
    /\ subnetMap' = m /\ UNCHANGED <<ifaces, vlans>>
    /\ SegmentSaves \/ SegmentSaveFails
\* The names in their new order, the LAN first and none twice.
HandleSubnetMap(order) ==
    LET m == [n \in ToSet(order) |-> SelectInSeq(order, LAMBDA e : e = n) - 1]
    IN  /\ SegmentEdit
        /\ order # <<>> /\ Head(order) = LanKey /\ IsInjective(order)
        /\ SetSubnetMap(m)
        /\ UNCHANGED <<ifaceForm, vlanForm, vlanDevices, bridgeVars, adrift, crossed>>

-----------------------------------------------------------------------------
(* First boot and restarts.                                                      *)

\* runFirstBoot and Setup: every physical device that can be enslaved joins.
SetupBridge(left, joined) == IF firstBoot THEN left \cup joined ELSE left

WANDevices == {e.dev : e \in {e \in ToSet(ifaces) : e.role = "wan"}}
\* The WAN devices leave, best effort, and the marker goes; when it cannot be
\* removed first boot goes on.
CompleteBoot ==
    \/ bridged' = bridged \ WANDevices /\ firstBoot' = FALSE /\ UNCHANGED segmentFaults
    \/ SegmentBreaks /\ bridged' = bridged /\ firstBoot' = FALSE
    \/ SegmentBreaks /\ bridged' = bridged \ WANDevices /\ firstBoot' = TRUE
HandleCompleteFirstBoot ==
    /\ firstBoot /\ SegmentEdit
    /\ CompleteBoot
    /\ UNCHANGED <<segmentLists, storedSegments, ifaceForm, vlanForm, vlanDevices, adrift, crossed, shown, leaked>>

\* RestoreVLANs: the configured devices that are missing; some may fail.
RestoreVLANs(left, failed) ==
    [d \in DOMAIN left \cup ({DeviceOf(ifaces', v) : v \in {v \in ToSet(vlans') : v.parent \in IdsOf(ifaces')}} \ failed)
        |-> IF d \in DOMAIN left THEN left[d] ELSE "up"]

\* The web process starts again, with the machine or without it: config.Load,
\* runFirstBoot, restoreVLANs.
SegmentsRestart(reboot, joined, failed) ==
    /\ SegmentBreaks
    /\ ifaces' = storedSegments.ifaces /\ vlans' = storedSegments.vlans /\ subnetMap' = storedSegments.subnetMap
    /\ ifaceForm' = [q \in Forms |-> NoSegmentEdit] /\ vlanForm' = [g \in VlanForms |-> NoSegmentEdit]
    /\ vlanDevices' = RestoreVLANs(IF reboot THEN <<>> ELSE vlanDevices, failed)
    /\ bridged' = SetupBridge(IF reboot THEN {} ELSE bridged, joined)
    /\ adrift' = \/ failed # {}
                 \/ /\ ~reboot
                    /\ \/ adrift \/ leaked
                       \/ \E g \in VlanForms : vlanForm[g].op = "delete"
                       \/ \E v \in ToSet(vlans) : DeviceOf(ifaces', v) # DeviceOf(ifaces, v)
    /\ shown' = FALSE /\ leaked' = FALSE
    /\ UNCHANGED <<storedSegments, firstBoot, segmentEdits, crossed>>

-----------------------------------------------------------------------------
\* What the page can send: names, in some order.
SubnetOrders == {o \in SeqOf({LanKey} \cup VlanIDs, Cardinality({LanKey} \cup VlanIDs)) : IsInjective(o)}

SegmentsNext ==
    \/ \E q \in Forms : HandleSetInterface(q) \/ HandleRemoveInterface(q)
    \/ \E g \in VlanForms : HandleAddVLAN(g) \/ HandleDeleteVLAN(g)
    \/ \E order \in SubnetOrders : HandleSubnetMap(order)
    \/ HandleCompleteFirstBoot
    \/ \E reboot \in BOOLEAN, joined \in (IF firstBoot THEN SUBSET Devices ELSE {{}}),
          failed \in SUBSET {DeviceOf(storedSegments.ifaces, v) : v \in ToSet(storedSegments.vlans)} :
          SegmentsRestart(reboot, joined, failed)

SegmentsSpec == SegmentsInit /\ [][SegmentsNext]_segmentVars

-----------------------------------------------------------------------------
(* Properties.                                                                   *)

\* Types; a VLAN is on one device: no two share parent and VLAN ID.
SegmentsTypeOK ==
    /\ \A e \in ToSet(ifaces) : e.id \in IfaceIDs /\ e.dev \in Devices /\ e.role \in {"lan", "wan"}
    /\ ToSet(vlans) \subseteq VlanEntries
    /\ \A j, k \in DOMAIN vlans : j # k => <<vlans[j].parent, vlans[j].vid>> # <<vlans[k].parent, vlans[k].vid>>
    /\ DOMAIN subnetMap \subseteq {LanKey} \cup VlanIDs
    /\ \A d \in DOMAIN vlanDevices : vlanDevices[d] \in {"bare", "up"}
    /\ bridged \subseteq Devices /\ {firstBoot, adrift, crossed, shown, leaked} \subseteq BOOLEAN

\* Some interface stays a LAN interface, in memory and in router.yaml
\* (ErrLastLANInterface "guards the one edit that cannot be undone from the web UI").
\* Nothing locks the check and the edit, so the guard holds for every sequence of
\* requests in which no edit is stored between the check and the edit of another.
LastLANStays ==
    ~crossed =>
        /\ \E k \in DOMAIN ifaces : ifaces[k].role = "lan"
        /\ \E k \in DOMAIN storedSegments.ifaces : storedSegments.ifaces[k].role = "lan"

\* In the same sequences two entries never point at one device (SetInterface).
OneEntryPerDevice ==
    ~crossed => \A j, k \in DOMAIN ifaces : j # k => ifaces[j].dev # ifaces[k].dev

\* Between requests the running configuration holds the VLANs of the file, no more
\* and no less (storeVLANsLocked restores the list when the save fails), unless
\* another handler's save wrote the list that was then taken back; the next save
\* of any handler mends that.
VLANsAsStored == ~NetworkLocked /\ ~leaked => vlans = storedSegments.vlans

\* Two VLANs never share a network (validateVLANSubnet).
VLANSubnetsApart ==
    \A j, k \in DOMAIN vlans :
        j # k /\ vlans[j].net # NoSubnet => vlans[j].net # vlans[k].net

\* Once the VLAN requests are through, the kernel has the devices of the configured
\* VLANs, all up, and no other, whatever the order in which requests added and
\* deleted them; unless a command was refused or a parent edited, and then again
\* after a reboot (HandleAdd, HandleDelete, RestoreVLANs).
VLANDevicesMatch ==
    (~adrift /\ \A g \in VlanForms : vlanForm[g] = NoSegmentEdit) =>
        /\ DOMAIN vlanDevices = {DeviceOf(ifaces, v) : v \in {v \in ToSet(vlans) : v.parent \in IdsOf(ifaces)}}
        /\ \A d \in DOMAIN vlanDevices : vlanDevices[d] = "up"

\* Two segments are announced the same share of the prefix only when the subnet map
\* names one of them and not the other; the LAN shares with none but a VLAN that is
\* itself called "lan" and takes the LAN's entry of the map
\* (buildPrefixInterfaces, ValidateSubnetMap).
SharesApart ==
    LET shares == PrefixInterfaces
        Mapped(k) == shares[k].name \in DOMAIN subnetMap
        Lan(k) == shares[k].name = LanKey
    IN  \A j, k \in DOMAIN shares : j < k /\ shares[j].sla = shares[k].sla =>
            \/ Lan(j) /\ Lan(k) /\ Mapped(j)
            \/ ~Lan(j) /\ ~Lan(k) /\ Mapped(j) # Mapped(k)

\* Once first boot is completed no device joins the bridge again, whatever restarts
\* (Complete removes the marker "so the next start does not rebuild it").
CompletedStays == [][~firstBoot => ~firstBoot' /\ bridged' \subseteq bridged]_segmentVars

\* What the network pages promise together.
SegmentsSound ==
    [](LastLANStays /\ OneEntryPerDevice /\ VLANsAsStored /\ VLANSubnetsApart /\ VLANDevicesMatch /\ SharesApart)
    /\ CompletedStays

=============================================================================
