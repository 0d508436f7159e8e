----------------------------- MODULE MCNetwork ------------------------------
(* Small instances of the modules about the network the router serves: its    *)
(* IPv6 uplink, the LAN segments, the site-to-site links, the name service,   *)
(* policy routing, the OpenVPN server and traffic shaping.  They share no     *)
(* state, so one behaviour runs one of them (part) while the others rest in   *)
(* an initial state: the states of the run are the sum of theirs, not the     *)
(* product.                                                                   *)
EXTENDS IPv6Link, Segments, SiteLinks, NameService, PolicyRouting, OpenVPN, QoS, TLC

CONSTANTS i1, i2, e1, e2, site1, site2, lan1, lan2, home, office

VARIABLE part

MCAddress == [i \in IfaceIDs |-> lan1]
\* The fields of the page that the chosen plane reads take every value.
MCIPv6Forms ==
    [off : {FALSE}, mode : {"6in4"}, request : {TRUE}, auto : BOOLEAN] \cup
    [off : {FALSE}, mode : {"pd"}, request : BOOLEAN, auto : {TRUE}] \cup
    [off : {TRUE}, mode : {"pd", "6in4"}, request : {TRUE}, auto : {TRUE}]
MCLan == site1 :> {lan1} @@ site2 :> {lan2}

-----------------------------------------------------------------------------
\* Clients and host names are alike: the lease that is there at the start is one of them.
FirstLease == [mac |-> CHOOSE m \in Macs : TRUE, host |-> CHOOSE h \in Hosts : TRUE]
\* The policy of the file: one with domains, for a configured tunnel.
FirstPolicy == {<<>>} \cup {<<p>> : p \in [name : WithDomains, tunnel : VPNClients, enabled : BOOLEAN, priority : {10}]}
\* Interfaces, devices and domains are interchangeable: one choice stands for
\* every other.
NetworkInit ==
    /\ part \in {"ipv6", "segments", "links", "names", "policies", "openvpn", "shaping", "sampling"}
    /\ IPv6Init /\ (part = "ipv6" \/ (v6.mode = "pd" /\ v6.auto))
    /\ SegmentsInit /\ (part = "segments" \/ ~firstBoot)
    /\ ifaces = <<IfaceEntry(i1, e1, "lan"), IfaceEntry(i2, e2, "wan")>>
    /\ LinksInit /\ (part = "links" \/ \A r \in Routers : serverKey[r].made = 0)
    /\ NameInit /\ systemDomain = home /\ (part = "names" \/ dnsRecords \o staticLeases = <<>>)
    /\ \A i \in 1..Len(staticLeases) : staticLeases[i] = FirstLease
    /\ \A i \in 1..Len(dnsRecords) : (dnsRecords[i].source = "user") = (dnsRecords[i].name[1] # FirstLease.host)
    /\ PolicyInit /\ (part = "policies" \/ pbrPolicies = <<>>) /\ pbrPolicies \in FirstPolicy
    /\ pbrApply[CHOOSE r \in PBRRequests : TRUE].pc # "idle"
    /\ OVPNInit /\ (part = "openvpn" \/ ovpnPki = 0)
    /\ QoSInit /\ (part = "sampling" \/ qosLeases = {})

-----------------------------------------------------------------------------
(* Scope.  Manual peers and invitations are explored apart: they meet in the  *)
(* peer list, which both fill.  So are shaping and sampling, which meet in    *)
(* the mutex only.  The longest sequences of operations are free of failing   *)
(* commands, and one client moves bytes at a time.                            *)

LinksBusy == {q \in LinkRequests : linkReq[q] # NoLink}
PeersSeen ==
    UNION {ToSet(wgPeers[r]) : r \in Routers} \cup
    {linkReq[q].peer : q \in LinksBusy}

PeersOnly ==
    /\ \E p \in PeersSeen : p.ip # 0 \/ p.pub = ClientPub
    /\ linkTime = 0 /\ invites = {}
    /\ ~wgs0[site2].up /\ serverKey[site2].made = 0 /\ wgPeers[site2] = <<>>
InvitesOnly ==
    /\ \A p \in PeersSeen : p.pub # ClientPub
    /\ Cardinality(LinksBusy) <= 1
    /\ \A r \in Routers : Cardinality(ToSet(wgPeers[r])) <= 1

LinkScope ==
    /\ \A q \in LinksBusy :
          /\ linkReq[q].op # "join" => linkReq[q].router = site1
          /\ Cardinality(linkReq[q].peer.subnets) <= 1
    /\ PeersOnly \/ InvitesOnly

Scope ==
    /\ part = "links" => (linkOps <= 3 \/ linkFaults = 0) /\ LinkScope
    /\ part = "sampling" => Cardinality({c \in QoSClients : totalBytes[c] > 0}) <= 1
    /\ part = "ipv6" => ipv6Ops <= 2 \/ (ipv6Faults = 0 /\ \A h \in IPv6Handlers : ddnsUpdate[h] = NoUpdate)
    /\ part = "names" => nameOps <= 1 \/ nameFaults = 0
    /\ part = "segments" => segmentEdits <= 2 \/ segmentFaults = 0
    /\ part = "policies" => policyOps <= 1 \/ (policyFaults + pbrRefreshes = 0 /\ unfilled = {})
    /\ part = "openvpn" => ovpnOps <= 3 \/ ovpnFaults = 0

-----------------------------------------------------------------------------
NetworkNext ==
    /\ part' = part
    /\ \/ /\ part = "ipv6"
          /\ UNCHANGED <<segmentVars, linkVars, nameVars, pbrVars, ovpnVars, qosVars>>
          /\ IPv6Next
       \/ /\ part = "segments"
          /\ UNCHANGED <<ipv6Vars, linkVars, nameVars, pbrVars, ovpnVars, qosVars>>
          /\ SegmentsNext
       \/ /\ part = "links"
          /\ UNCHANGED <<ipv6Vars, segmentVars, nameVars, pbrVars, ovpnVars, qosVars>>
          /\ LinksNext
       \/ /\ part = "names"
          /\ UNCHANGED <<ipv6Vars, segmentVars, linkVars, pbrVars, ovpnVars, qosVars>>
          /\ NameNext
       \/ /\ part = "policies"
          /\ UNCHANGED <<ipv6Vars, segmentVars, linkVars, nameVars, ovpnVars, qosVars>>
          /\ PolicyNext
       \/ /\ part = "openvpn"
          /\ UNCHANGED <<ipv6Vars, segmentVars, linkVars, nameVars, pbrVars, qosVars>>
          /\ OVPNNext
       \/ /\ part = "shaping"
          /\ UNCHANGED <<ipv6Vars, segmentVars, linkVars, nameVars, pbrVars, ovpnVars>>
          /\ ShapingNext
       \/ /\ part = "sampling"
          /\ UNCHANGED <<ipv6Vars, segmentVars, linkVars, nameVars, pbrVars, ovpnVars>>
          /\ SamplingNext
    /\ Scope'

networkVars ==
    <<part, ipv6Vars, segmentVars, linkVars, nameVars, pbrVars, ovpnVars, qosVars>>
NetworkSpec == NetworkInit /\ [][NetworkNext]_networkVars

\* Two states with the same running part differ in its variables only.
Running ==
    CASE part = "ipv6" -> <<part, ipv6Vars>>
      [] part = "segments" -> <<part, segmentVars>>
      [] part = "links" -> <<part, linkVars>>
      [] part = "names" -> <<part, nameVars>>
      [] part = "policies" -> <<part, pbrVars>>
      [] part = "openvpn" -> <<part, ovpnVars>>
      [] part \in {"shaping", "sampling"} -> <<part, qosVars>>

\* Every variable of the part that runs stays within its type.
NetworkTypesOK ==
    CASE part = "ipv6" -> IPv6TypeOK
      [] part = "segments" -> SegmentsTypeOK
      [] part = "links" -> LinksTypeOK
      [] part = "names" -> NameTypeOK
      [] part = "policies" -> PolicyTypeOK
      [] part = "openvpn" -> OVPNTypeOK
      [] part \in {"shaping", "sampling"} -> QoSTypeOK


=============================================================================
