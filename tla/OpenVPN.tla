------------------------------ MODULE OpenVPN -------------------------------
(* The OpenVPN server, its certificates and the outbound clients                *)
(* (internal/services/openvpn.go and its handlers). easyrsa and openvpn are     *)
(* external: a request is signed unless a valid certificate of that name        *)
(* exists, revoking needs a valid one, and gen-crl publishes what is revoked at *)
(* that moment. The commands run outside the service's lock.                    *)
EXTENDS Naturals, Sequences, SequencesExt

CONSTANTS
    ClientNames,     \* names of road-warrior clients
    OutboundNames,        \* names of outbound clients
    OVPNRequests,    \* requests under way
    MaxOVPNOps,      \* bound: requests and restarts
    MaxOVPNFaults    \* bound: commands and writes that fail

ASSUME OVPNAssumption == {MaxOVPNOps, MaxOVPNFaults} \subseteq Nat

VARIABLES
    ovpnPki,            \* steps of InitPKI that are done; PKIReady when the PKI is usable
    ovpnIssued,         \* the state of each name's certificate
    ovpnCrl,            \* the names in the published revocation list
    ovpnClients,    \* cfg.OpenVPN.Server.Clients
    ovpnFile,       \* both lists of clients in router.yaml
    ccdFiles,            \* the client-config files
    serverConf,     \* the clients server.conf was rendered for
    ovpnRunning,    \* the running flag
    ovpnUnit,       \* openvpn@server is active
    outboundClients,       \* cfg.OpenVPN.Clients
    pidFile,        \* for each outbound client, the process its pid file names, 0 for none
    ovpnDaemons,      \* the outbound processes alive: client and pid
    ovpnJob,
    ovpnOps, ovpnFaults, ovpnPids,
    unsaved,        \* history: the clients added since the last save that succeeded, whose own save failed
    unlisted,       \* history: the clients whose entry a restart lost
    unpublished,    \* history: the clients that were revoked and gen-crl not reached
    ccdMissed       \* history: the clients whose client-config file could not be written

ovpnPKI == <<ovpnPki, ovpnIssued, ovpnCrl>>
ovpnServer == <<ccdFiles, serverConf, ovpnRunning, ovpnUnit>>
ovpnSaves == <<ovpnFile, unsaved>>
ovpnOut == <<outboundClients, pidFile, ovpnDaemons, ovpnPids>>
ovpnMarks == <<unlisted, unpublished, ccdMissed>>
ovpnVars == <<ovpnPKI, ovpnClients, ovpnServer, ovpnOut, ovpnSaves, ovpnJob, ovpnOps, ovpnFaults, ovpnMarks>>

PKIReady == 7
NoOVPNJob == [todo |-> <<>>, name |-> "none", pid |-> 0]
OVPNInit ==
    /\ ovpnPki \in {0, PKIReady} /\ ovpnIssued = [n \in ClientNames |-> "none"] /\ ovpnCrl = {}
    /\ ovpnClients = <<>> /\ ccdFiles = {} /\ serverConf = <<>> /\ ovpnRunning = FALSE /\ ovpnUnit = FALSE
    /\ outboundClients = {} /\ pidFile = [n \in OutboundNames |-> 0] /\ ovpnDaemons = {} /\ ovpnPids = 0
    /\ ovpnJob = [r \in OVPNRequests |-> NoOVPNJob] /\ ovpnOps = 0 /\ ovpnFaults = 0
    /\ ovpnFile = [clients |-> ovpnClients, outbound |-> outboundClients]
    /\ unsaved = {} /\ unlisted = {} /\ unpublished = {} /\ ccdMissed = {}

OVPNIdle == \A r \in OVPNRequests : ovpnJob[r].todo = <<>>
OVPNFault == ovpnFaults < MaxOVPNFaults /\ ovpnFaults' = ovpnFaults + 1
OVPNRequest(r, todo, name) ==
    /\ ovpnJob[r].todo = <<>> /\ ovpnOps < MaxOVPNOps /\ ovpnOps' = ovpnOps + 1
    /\ ovpnJob' = [ovpnJob EXCEPT ![r] = [todo |-> todo, name |-> name, pid |-> 0]]
    /\ UNCHANGED <<ovpnPKI, ovpnClients, ovpnServer, ovpnOut, ovpnSaves, ovpnFaults, ovpnMarks>>
OVPNStep(r, step) == ovpnJob[r].todo # <<>> /\ Head(ovpnJob[r].todo) = step
OVPNAdvance(r) == ovpnJob' = [ovpnJob EXCEPT ![r].todo = Tail(@)]
\* The command or the write fails and the handler returns.
OVPNStops(r) == ovpnJob' = [ovpnJob EXCEPT ![r] = NoOVPNJob]

\* persist: SaveToFile writes the whole configuration as it is then.
Persist(clients, outbound) == ovpnFile' = [clients |-> clients, outbound |-> outbound] /\ unsaved' = {}

-----------------------------------------------------------------------------
HandleInitPKI(r) == OVPNRequest(r, <<"init", "pki", "pki", "pki", "pki", "pki", "pki">>, "none")
\* init-pki empties the directory; the CA, the server certificate, dh, ta.key and the first CRL follow.
InitPKI(r) ==
    /\ \/ /\ OVPNStep(r, "init") /\ ovpnPki' = 1 /\ ovpnIssued' = [n \in ClientNames |-> "none"] /\ ovpnCrl' = {}
       \/ /\ OVPNStep(r, "pki") /\ ovpnPki' = IF ovpnPki < PKIReady THEN ovpnPki + 1 ELSE ovpnPki
          /\ UNCHANGED <<ovpnIssued, ovpnCrl>>
    /\ OVPNAdvance(r)
    /\ UNCHANGED <<ovpnClients, ovpnServer, ovpnOut, ovpnSaves, ovpnOps, ovpnFaults, ovpnMarks>>
OVPNCommandFails(r) ==
    /\ ovpnJob[r].todo # <<>> /\ Head(ovpnJob[r].todo) \in {"init", "pki", "sign", "revoke", "crl"}
    /\ OVPNFault /\ OVPNStops(r)
    /\ unpublished' = IF OVPNStep(r, "crl") THEN unpublished \cup {ovpnJob[r].name} ELSE unpublished
    /\ UNCHANGED <<ovpnPKI, ovpnClients, ovpnServer, ovpnOut, ovpnSaves, ovpnOps, unlisted, ccdMissed>>

HandleAddClient(r, n) == OVPNRequest(r, <<"sign", "append", "ccd", "save">>, n)
\* gen-req and sign-req.
SignClient(r) ==
    /\ OVPNStep(r, "sign")
    /\ IF ovpnPki = PKIReady /\ ovpnIssued[ovpnJob[r].name] # "valid"
       THEN ovpnIssued' = [ovpnIssued EXCEPT ![ovpnJob[r].name] = "valid"] /\ OVPNAdvance(r)
       ELSE UNCHANGED ovpnIssued /\ OVPNStops(r)
    /\ UNCHANGED <<ovpnPki, ovpnCrl, ovpnClients, ovpnServer, ovpnOut, ovpnSaves, ovpnOps, ovpnFaults, ovpnMarks>>
\* The entry, appended under the lock.
AppendClient(r) ==
    /\ OVPNStep(r, "append") /\ OVPNAdvance(r)
    /\ ovpnClients' = Append(ovpnClients, [name |-> ovpnJob[r].name, enabled |-> TRUE])
    /\ UNCHANGED <<ovpnPKI, ovpnServer, ovpnOut, ovpnSaves, ovpnOps, ovpnFaults, ovpnMarks>>
\* writeCCD, whose failure is logged.
CCDs(names) ==
    \/ ccdFiles' = ccdFiles \cup names /\ ccdMissed' = ccdMissed \ names /\ UNCHANGED ovpnFaults
    \/ names # {} /\ OVPNFault /\ ccdMissed' = ccdMissed \cup (names \ ccdFiles) /\ UNCHANGED ccdFiles
WriteCCD(r) ==
    /\ OVPNStep(r, "ccd") /\ OVPNAdvance(r) /\ CCDs({ovpnJob[r].name})
    /\ UNCHANGED <<ovpnPKI, ovpnClients, serverConf, ovpnRunning, ovpnUnit, ovpnOut, ovpnSaves, ovpnOps, unlisted, unpublished>>
\* The save that ends both requests; when it fails the change is in memory only.
SaveClients(r) ==
    /\ OVPNStep(r, "save") /\ OVPNAdvance(r)
    /\ \/ Persist(ovpnClients, outboundClients) /\ UNCHANGED ovpnFaults
       \/ OVPNFault /\ unsaved' = unsaved \cup {ovpnJob[r].name} /\ UNCHANGED ovpnFile
    /\ UNCHANGED <<ovpnPKI, ovpnClients, ovpnServer, ovpnOut, ovpnOps, ovpnMarks>>
AddClient(r) == SignClient(r) \/ AppendClient(r) \/ WriteCCD(r) \/ SaveClients(r)

HandleRevokeClient(r, n) == OVPNRequest(r, <<"revoke", "crl", "disable", "save">>, n)
RevokeCertificate(r) ==
    /\ OVPNStep(r, "revoke")
    /\ IF ovpnPki = PKIReady /\ ovpnIssued[ovpnJob[r].name] = "valid"
       THEN ovpnIssued' = [ovpnIssued EXCEPT ![ovpnJob[r].name] = "revoked"] /\ OVPNAdvance(r)
       ELSE UNCHANGED ovpnIssued /\ OVPNStops(r)
    /\ UNCHANGED <<ovpnPki, ovpnCrl, ovpnClients, ovpnServer, ovpnOut, ovpnSaves, ovpnOps, ovpnFaults, ovpnMarks>>
GenCRL(r) ==
    /\ OVPNStep(r, "crl")
    /\ IF ovpnPki = PKIReady
       THEN /\ ovpnCrl' = ovpnCrl \cup {n \in ClientNames : ovpnIssued[n] = "revoked"} /\ unpublished' = {}
            /\ OVPNAdvance(r)
       ELSE UNCHANGED <<ovpnCrl, unpublished>> /\ OVPNStops(r)
    /\ UNCHANGED <<ovpnPki, ovpnIssued, ovpnClients, ovpnServer, ovpnOut, ovpnSaves, ovpnOps, ovpnFaults, unlisted, ccdMissed>>
\* The first entry of that name.
DisableClient(r) ==
    /\ OVPNStep(r, "disable") /\ OVPNAdvance(r)
    /\ LET i == SelectInSeq(ovpnClients, LAMBDA c : c.name = ovpnJob[r].name)
       IN ovpnClients' = IF i = 0 THEN ovpnClients ELSE [ovpnClients EXCEPT ![i].enabled = FALSE]
    /\ UNCHANGED <<ovpnPKI, ovpnServer, ovpnOut, ovpnSaves, ovpnOps, ovpnFaults, ovpnMarks>>
RevokeClient(r) == RevokeCertificate(r) \/ GenCRL(r) \/ DisableClient(r)

-----------------------------------------------------------------------------
(* The server unit; each operation holds the lock throughout.                   *)

HandleOVPNStart(r) == OVPNRequest(r, <<"start">>, "none")
EnabledClients == {ovpnClients[i].name : i \in {k \in 1..Len(ovpnClients) : ovpnClients[k].enabled}}
\* RenderServerConfig writes server.conf, then writeEnabledCCDs.
RenderServerConfig == serverConf' = ovpnClients /\ CCDs(EnabledClients)
OVPNServerStart(r) ==
    /\ OVPNStep(r, "start") /\ OVPNAdvance(r)
    /\ \/ ovpnRunning /\ UNCHANGED <<ovpnServer, ovpnFaults, ccdMissed>>
       \/ ~ovpnRunning /\ RenderServerConfig /\ ovpnUnit' = TRUE /\ ovpnRunning' = TRUE
       \* server.conf could not be written
       \/ ~ovpnRunning /\ OVPNFault /\ UNCHANGED <<ovpnServer, ccdMissed>>
       \* systemctl failed
       \/ /\ ~ovpnRunning /\ OVPNFault /\ serverConf' = ovpnClients /\ ccdFiles' = ccdFiles \cup EnabledClients
          /\ ccdMissed' = ccdMissed \ EnabledClients /\ UNCHANGED <<ovpnUnit, ovpnRunning>>
    /\ UNCHANGED <<ovpnPKI, ovpnClients, ovpnOut, ovpnSaves, ovpnOps, unlisted, unpublished>>
HandleOVPNStop(r) == OVPNRequest(r, <<"stop">>, "none")
OVPNServerStop(r) ==
    /\ OVPNStep(r, "stop") /\ OVPNAdvance(r)
    /\ \/ ~ovpnRunning /\ UNCHANGED <<ovpnUnit, ovpnRunning, ovpnFaults>>
       \/ ovpnRunning /\ ovpnUnit' = FALSE /\ ovpnRunning' = FALSE /\ UNCHANGED ovpnFaults
       \/ ovpnRunning /\ OVPNFault /\ UNCHANGED <<ovpnUnit, ovpnRunning>>
    /\ UNCHANGED <<ovpnPKI, ovpnClients, ccdFiles, serverConf, ovpnOut, ovpnSaves, ovpnOps, ovpnMarks>>
\* openvpn@server ends by itself; nothing tells the service.
OVPNUnitDies ==
    /\ ovpnUnit /\ OVPNFault /\ ovpnUnit' = FALSE
    /\ UNCHANGED <<ovpnPKI, ovpnClients, ccdFiles, serverConf, ovpnRunning, ovpnOut, ovpnSaves, ovpnJob, ovpnOps, ovpnMarks>>

-----------------------------------------------------------------------------
(* Outbound clients.                                                            *)

\* AddOutboundClient appends and saves under the lock.
AddOutboundClient(r, n) ==
    /\ ovpnJob[r].todo = <<>> /\ ovpnOps < MaxOVPNOps /\ ovpnOps' = ovpnOps + 1
    /\ outboundClients' = outboundClients \cup {n}
    /\ \/ Persist(ovpnClients, outboundClients') /\ UNCHANGED ovpnFaults
       \/ OVPNFault /\ UNCHANGED ovpnSaves
    /\ UNCHANGED <<ovpnPKI, ovpnClients, ovpnServer, pidFile, ovpnDaemons, ovpnPids, ovpnJob, ovpnMarks>>
HandleConnectOutbound(r, n) == n \in outboundClients /\ OVPNRequest(r, <<"connect">>, n)
\* ConnectClient renders the file and starts a daemon, which writes its pid file.
ConnectOutbound(r) ==
    /\ OVPNStep(r, "connect") /\ OVPNAdvance(r)
    /\ \/ /\ ovpnPids' = ovpnPids + 1 /\ pidFile' = [pidFile EXCEPT ![ovpnJob[r].name] = ovpnPids + 1]
          /\ ovpnDaemons' = ovpnDaemons \cup {<<ovpnJob[r].name, ovpnPids + 1>>} /\ UNCHANGED ovpnFaults
       \/ OVPNFault /\ UNCHANGED <<ovpnPids, pidFile, ovpnDaemons>>
    /\ UNCHANGED <<ovpnPKI, ovpnClients, ovpnServer, ovpnSaves, outboundClients, ovpnOps, ovpnMarks>>
HandleDisconnectOutbound(r, n) == OVPNRequest(r, <<"read">>, n)
\* DisconnectClient: the pid is read, its process killed and the file removed, failures logged.
ReadPidFile(r) ==
    /\ OVPNStep(r, "read")
    /\ LET pid == pidFile[ovpnJob[r].name]
       IN ovpnJob' = [ovpnJob EXCEPT ![r].todo = IF pid = 0 THEN <<>> ELSE <<"kill", "unpid">>, ![r].pid = pid]
    /\ UNCHANGED <<ovpnPKI, ovpnClients, ovpnServer, ovpnSaves, ovpnOut, ovpnOps, ovpnFaults, ovpnMarks>>
KillClient(r) ==
    /\ OVPNStep(r, "kill") /\ OVPNAdvance(r)
    /\ \/ ovpnDaemons' = ovpnDaemons \ {<<ovpnJob[r].name, ovpnJob[r].pid>>} /\ UNCHANGED ovpnFaults
       \/ OVPNFault /\ UNCHANGED ovpnDaemons
    /\ UNCHANGED <<ovpnPKI, ovpnClients, ovpnServer, ovpnSaves, outboundClients, pidFile, ovpnPids, ovpnOps, ovpnMarks>>
RemovePidFile(r) ==
    /\ OVPNStep(r, "unpid") /\ OVPNAdvance(r)
    /\ pidFile' = [pidFile EXCEPT ![ovpnJob[r].name] = 0]
    /\ UNCHANGED <<ovpnPKI, ovpnClients, ovpnServer, ovpnSaves, outboundClients, ovpnDaemons, ovpnPids, ovpnOps, ovpnFaults, ovpnMarks>>
DisconnectOutbound(r) == ReadPidFile(r) \/ KillClient(r) \/ RemovePidFile(r)

\* The web process restarts, wherever the requests are: they end, the flag is lost and the lists are
\* those of the file; the certificates, the unit and the daemons stay.
EndedAt(steps) == {ovpnJob[r].name : r \in {q \in OVPNRequests : \E step \in steps : OVPNStep(q, step)}} \cap ClientNames
OVPNRestart ==
    /\ ovpnOps < MaxOVPNOps /\ ovpnOps' = ovpnOps + 1
    /\ ovpnRunning' = FALSE /\ ovpnClients' = ovpnFile.clients /\ outboundClients' = ovpnFile.outbound
    /\ ovpnJob' = [r \in OVPNRequests |-> NoOVPNJob]
    /\ unlisted' = unlisted \cup unsaved \cup EndedAt({"append", "ccd", "save"}) /\ unsaved' = {}
    /\ unpublished' = unpublished \cup EndedAt({"crl"}) /\ ccdMissed' = ccdMissed \cup EndedAt({"ccd"})
    /\ UNCHANGED <<ovpnPKI, ccdFiles, serverConf, ovpnUnit, pidFile, ovpnDaemons, ovpnPids, ovpnFile, ovpnFaults>>

OVPNNext ==
    \/ \E r \in OVPNRequests :
        \/ HandleInitPKI(r) \/ InitPKI(r) \/ OVPNCommandFails(r)
        \/ \E n \in ClientNames : HandleAddClient(r, n) \/ HandleRevokeClient(r, n)
        \/ AddClient(r) \/ RevokeClient(r)
        \/ HandleOVPNStart(r) \/ OVPNServerStart(r) \/ HandleOVPNStop(r) \/ OVPNServerStop(r)
        \/ \E n \in OutboundNames : AddOutboundClient(r, n) \/ HandleConnectOutbound(r, n) \/ HandleDisconnectOutbound(r, n)
        \/ ConnectOutbound(r) \/ DisconnectOutbound(r)
    \/ OVPNUnitDies \/ OVPNRestart

OVPNSpec == OVPNInit /\ [][OVPNNext]_ovpnVars

-----------------------------------------------------------------------------
OVPNTypeOK ==
    /\ ovpnPki \in 0..PKIReady /\ ovpnIssued \in [ClientNames -> {"none", "valid", "revoked"}] /\ ovpnCrl \subseteq ClientNames
    /\ Range(ovpnClients) \cup Range(ovpnFile.clients) \cup Range(serverConf) \subseteq [name : ClientNames, enabled : BOOLEAN]
    /\ ccdFiles \cup unsaved \cup unlisted \cup unpublished \cup ccdMissed \subseteq ClientNames /\ {ovpnRunning, ovpnUnit} \subseteq BOOLEAN /\ outboundClients \subseteq OutboundNames

\* However requests interleave, once they have finished, whoever holds a valid certificate is listed as an
\* enabled client: nobody can connect that the page does not show. Only a restart between the signature and a
\* save that succeeds leaves one out.
ValidAreListed == OVPNIdle => \A n \in ClientNames \ unlisted : ovpnIssued[n] = "valid" => n \in EnabledClients

\* The published list names every revoked certificate once the requests have finished, unless the request ended
\* between revoke and gen-crl; the next revocation of any client publishes it.
RevokedArePublished == OVPNIdle => \A n \in ClientNames \ unpublished : ovpnIssued[n] = "revoked" => n \in ovpnCrl

\* An enabled client has its client-config file, with its address and routes, although it is listed before the
\* file is written and any save in between stores the entry: unless the write failed or was not reached.
EnabledAreConfigured == OVPNIdle => EnabledClients \subseteq ccdFiles \cup ccdMissed

\* What holds of the OpenVPN server however the certificate, server and restart requests interleave.
VPNServerSound == ValidAreListed /\ RevokedArePublished /\ EnabledAreConfigured
=============================================================================
