------------------------------ MODULE IPv6Link ------------------------------
(* The IPv6 planes of the WAN: prefix delegation (internal/services/ipv6.go),    *)
(* the 6in4 tunnel (sixinfour.go), the PPPoE link whose hooks drive both          *)
(* (pppoe.go, wireIPv6Hooks in internal/web/server.go) and the handlers of the   *)
(* IPv6 and network pages (handlers/ipv6.go, handlers/pppoe.go).                 *)
(*                                                                               *)
(* An operation is a handler with the steps it still has to do; operations of    *)
(* different handlers interleave between their steps, and pppd dials, loses the  *)
(* link and redials on its own. PPPoEService.connected is left out: nothing      *)
(* reads it.                                                                     *)
EXTENDS Naturals, Sequences

CONSTANTS
    IPv6Forms,      \* the settings the IPv6 page can submit
    MaxAddress,     \* bound: how many addresses the provider hands out
    MaxIPv6Ops,     \* bound: operations started
    MaxIPv6Faults   \* bound: commands, writes and requests that fail

ASSUME IPv6Assumption ==
    /\ IPv6Forms \subseteq [off : BOOLEAN, mode : {"pd", "6in4"}, request : BOOLEAN, auto : BOOLEAN]
    /\ {MaxAddress, MaxIPv6Ops, MaxIPv6Faults} \subseteq Nat

VARIABLES
    v6,          \* cfg.IPv6: off, mode, requestPrefix, autoUpdate
    ppp,         \* pppd: it runs, the address of ppp0, and how many it was given
    dhcp6c,      \* the dhcp6c unit runs
    dropIn,      \* the dnsmasq RA drop-in and dhcp6c.conf: what they were rendered for
    sit,         \* the tunnel interface: built, and its local address
    tunnelRuns,  \* SixInFourService.running
    ddnsRemote,  \* the endpoint HE.net has for the tunnel
    lastIPv4,    \* the endpoint it acknowledged
    ipv6Todo,    \* per handler: the steps left
    ddnsUpdate,  \* per handler: the address it reports, and HE.net's answer to it
    ipv6Ops, ipv6Faults,
    lag,         \* history, per plane: something is still to be applied, or was overtaken
    unsure       \* history: two endpoint updates overlapped, or an answer was lost

ipv6Vars == <<v6, ppp, dhcp6c, dropIn, sit, tunnelRuns, ddnsRemote, lastIPv4, ipv6Todo, ddnsUpdate,
              ipv6Ops, ipv6Faults, lag, unsure>>

IPv6Handlers == {"save", "connect", "disconnect", "update"}
NoAddress == 0
NoUpdate == [code |-> "none", addr |-> NoAddress]
NoTunnel == [up |-> FALSE, local |-> NoAddress]

\* RenderToDisk and ApplyConfig of the prefix delegation plane.
PDWanted == ~v6.off /\ v6.mode = "pd" /\ v6.request
WriteIPv6DisabledStubs == [conf |-> "stub", ra |-> "stub"]
\* writeDHCP6CFiles and writePDFiles; 6in4 leaves a comment in dhcp6c.conf.
WriteDHCP6CFiles == IF v6.mode = "pd" THEN "pd" ELSE "unused"
RenderRAConfig == v6.mode
\* The stubs when no plane is active.
RenderIPv6ToDisk ==
    IF v6.off \/ (v6.mode = "pd" /\ ~v6.request) THEN WriteIPv6DisabledStubs
    ELSE [conf |-> WriteDHCP6CFiles, ra |-> RenderRAConfig]

\* SixInFourService.wanted.
TunnelWanted == ~v6.off /\ v6.mode = "6in4"

Planes == {"files", "unit", "tunnel", "address"}

IPv6Init ==
    /\ v6 \in {f \in IPv6Forms : ~f.off /\ f.request}
    /\ ppp = [runs |-> FALSE, addr |-> NoAddress, given |-> 0]
    /\ dhcp6c = FALSE /\ dropIn = RenderIPv6ToDisk
    /\ sit = NoTunnel /\ tunnelRuns = FALSE
    /\ ddnsRemote = NoAddress /\ lastIPv4 = NoAddress
    /\ ipv6Todo = [h \in IPv6Handlers |-> <<>>] /\ ddnsUpdate = [h \in IPv6Handlers |-> NoUpdate]
    /\ ipv6Ops = 0 /\ ipv6Faults = 0
    /\ lag = [p \in Planes |-> FALSE] /\ unsure = FALSE

planeVars == <<dhcp6c, dropIn>>
tunnelVars == <<sit, tunnelRuns>>
endpointVars == <<ddnsRemote, lastIPv4, ddnsUpdate, unsure>>

IPv6Resting == \A h \in IPv6Handlers : ipv6Todo[h] = <<>>

BeginOp(h, steps) ==
    /\ ipv6Todo[h] = <<>> /\ ipv6Ops < MaxIPv6Ops
    /\ ipv6Ops' = ipv6Ops + 1
    /\ ipv6Todo' = [ipv6Todo EXCEPT ![h] = steps]
AtStep(h, step) == ipv6Todo[h] # <<>> /\ Head(ipv6Todo[h]) = step
ThenSteps(h, steps) == ipv6Todo' = [ipv6Todo EXCEPT ![h] = steps \o Tail(@)]
StepDone(h) == ThenSteps(h, <<>>)

\* ApplyConfig renders and settles the unit under one lock, which Restart, Stop
\* and the buttons take too; Renew does not.
IPv6Unlocked == \A h \in IPv6Handlers : ~AtStep(h, "unit")

\* The plane a step works on.
PlaneOf(step) ==
    CASE step = "render" -> "files"
      [] step \in {"unit", "restart", "stop"} -> "unit"
      [] OTHER -> "tunnel"
\* Some other handler is between its decision on the tunnel and its last command.
TunnelShared(h) ==
    \E g \in IPv6Handlers \ {h} : AtStep(g, "stopTunnel") \/ AtStep(g, "startTunnel")
Lag(plane, b) == lag' = [lag EXCEPT ![plane] = b]

IPv6Fault == ipv6Faults < MaxIPv6Faults /\ ipv6Faults' = ipv6Faults + 1
\* An error ends the operation; the handler logs or reports it.
OpEnds(h) == ipv6Todo' = [ipv6Todo EXCEPT ![h] = <<>>]
OpAborts(h) ==
    /\ IPv6Fault /\ OpEnds(h)
    /\ lag' = [p \in Planes |-> lag[p] \/ \E i \in DOMAIN ipv6Todo[h] : PlaneOf(ipv6Todo[h][i]) = p]

-----------------------------------------------------------------------------
(* The operations.                                                               *)

ApplyIPv6Form(form) == v6' = form
StopUnwantedTunnel(form) ==
    IF v6.mode = "6in4" /\ (form.off \/ form.mode # "6in4") THEN <<"stopTunnel">> ELSE <<>>
\* The form, SaveToFile, then both planes; a save that fails ends it there, with
\* the form's settings in memory.
HandleSave(form) ==
    /\ ApplyIPv6Form(form)
    /\ \/ /\ BeginOp("save", StopUnwantedTunnel(form) \o <<"render", "unit", "applyTunnel">>)
          /\ UNCHANGED <<ipv6Faults, lag>>
       \/ /\ BeginOp("save", <<>>)
          /\ IPv6Fault
          /\ lag' = [p \in Planes |-> TRUE]
    /\ UNCHANGED <<ppp, planeVars, tunnelVars, endpointVars>>

\* Connect: pppd detaches as soon as it runs, so the hook comes before ppp0 has an
\* address, or after it. A second pppd would get ppp1, which nothing looks at.
PPPoEConnect ==
    /\ BeginOp("connect", <<"onConnect">>)
    /\ ppp' = [ppp EXCEPT !.runs = TRUE]
    /\ UNCHANGED <<v6, planeVars, tunnelVars, endpointVars, ipv6Faults, lag>>

\* pppd agrees on an address, at first or when it redials (persist, maxfail 0).
LinkUp ==
    /\ ppp.runs /\ ppp.addr = NoAddress /\ ppp.given < MaxAddress
    /\ ppp' = [ppp EXCEPT !.addr = ppp.given + 1, !.given = @ + 1]
    /\ Lag("address", TRUE)
    /\ UNCHANGED <<v6, planeVars, tunnelVars, endpointVars, ipv6Todo, ipv6Ops, ipv6Faults>>
\* The link is lost, and pppd redials: no hook runs.
LinkLost ==
    /\ ppp.addr # NoAddress
    /\ ppp' = [ppp EXCEPT !.addr = NoAddress]
    /\ Lag("address", TRUE)
    /\ UNCHANGED <<v6, planeVars, tunnelVars, endpointVars, ipv6Todo, ipv6Ops, ipv6Faults>>
\* actionRestartPPPoE of the health checks runs pppd itself, without the hooks;
\* its pppd may fail to start.
RestartPPPoE ==
    /\ \/ ppp' = [ppp EXCEPT !.addr = NoAddress, !.runs = TRUE] /\ UNCHANGED ipv6Faults
       \/ ppp' = [ppp EXCEPT !.addr = NoAddress, !.runs = FALSE] /\ IPv6Fault
    /\ Lag("address", TRUE)
    /\ UNCHANGED <<v6, planeVars, tunnelVars, endpointVars, ipv6Todo, ipv6Ops>>

\* Disconnect: ppp0.pid is there only while ppp0 is, and without it the handler
\* returns an error; a pppd that redials goes on.
PPPoEDisconnect ==
    /\ ppp.addr # NoAddress
    /\ BeginOp("disconnect", <<"onDisconnect">>)
    /\ ppp' = [ppp EXCEPT !.runs = FALSE, !.addr = NoAddress]
    /\ Lag("address", TRUE)
    /\ UNCHANGED <<v6, planeVars, tunnelVars, endpointVars, ipv6Faults>>

\* The hook of Connect: the tunnel is rebuilt, or the unit restarted.
OnConnect ==
    /\ AtStep("connect", "onConnect")
    /\ ThenSteps("connect", IF v6.mode = "6in4" THEN <<"reconnect", "applyTunnel", "render", "unit">>
                       ELSE <<"restart">>)
    /\ UNCHANGED <<v6, ppp, planeVars, tunnelVars, endpointVars, ipv6Ops, ipv6Faults, lag>>
\* The hook of Disconnect.
OnDisconnect ==
    /\ AtStep("disconnect", "onDisconnect")
    /\ ThenSteps("disconnect", IF v6.mode = "6in4" THEN <<"stopTunnel">> ELSE <<"stop">>)
    /\ UNCHANGED <<v6, ppp, planeVars, tunnelVars, endpointVars, ipv6Ops, ipv6Faults, lag>>

WireIPv6Hooks == OnConnect \/ OnDisconnect

\* PPPoEService.Status: the address an update is about to report.
TakeLocalIP(h) == ddnsUpdate' = [ddnsUpdate EXCEPT ![h] = [code |-> "none", addr |-> ppp.addr]]
HandleTunnelUpdateNow ==
    /\ ppp.addr # NoAddress
    /\ BeginOp("update", <<"ddns">>)
    /\ TakeLocalIP("update")
    /\ UNCHANGED <<v6, ppp, planeVars, tunnelVars, ddnsRemote, lastIPv4, unsure, ipv6Faults, lag>>

StopUnit == dhcp6c' = FALSE
RestartUnit == dhcp6c' = TRUE
UnitButton ==
    /\ ipv6Ops < MaxIPv6Ops /\ ipv6Ops' = ipv6Ops + 1
    /\ Lag("unit", TRUE)
    /\ UNCHANGED <<v6, ppp, dropIn, tunnelVars, endpointVars, ipv6Todo, ipv6Faults>>
HandleStart == IPv6Unlocked /\ RestartUnit /\ UnitButton
\* Renew is reload-or-restart: it starts a unit that is down.
HandleRenew == RestartUnit /\ UnitButton
HandleStop == IPv6Unlocked /\ StopUnit /\ UnitButton
\* Release stops the unit too.
HandleRelease == IPv6Unlocked /\ StopUnit /\ UnitButton

-----------------------------------------------------------------------------
(* Their steps.                                                                  *)

\* RenderToDisk and the reload of dnsmasq; a failure leaves none or one of the
\* two files written.
StepRender(h) ==
    /\ AtStep(h, "render") /\ IPv6Unlocked
    /\ \/ dropIn' = RenderIPv6ToDisk /\ StepDone(h) /\ Lag("files", FALSE) /\ UNCHANGED ipv6Faults
       \/ OpAborts(h) /\ dropIn' \in {dropIn, [dropIn EXCEPT !.conf = RenderIPv6ToDisk.conf]}
    /\ UNCHANGED <<v6, ppp, dhcp6c, tunnelVars, endpointVars, ipv6Ops>>

\* The end of ApplyConfig: only prefix delegation keeps dhcp6c running. A restart
\* that a hook has already decided on comes after it.
UnitWanted == PDWanted

StepUnit(h) ==
    /\ AtStep(h, "unit")
    /\ \/ /\ dhcp6c' = UnitWanted /\ StepDone(h)
          /\ Lag("unit", AtStep("connect", "restart")) /\ UNCHANGED ipv6Faults
       \/ OpAborts(h) /\ UNCHANGED dhcp6c
    /\ UNCHANGED <<v6, ppp, dropIn, tunnelVars, endpointVars, ipv6Ops>>

ApplyIPv6Config(h) == StepRender(h) \/ StepUnit(h)

\* Restart and Stop, as the hooks call them.
StepRestart(h) ==
    /\ AtStep(h, "restart") /\ IPv6Unlocked
    /\ \/ RestartUnit /\ StepDone(h) /\ UNCHANGED <<ipv6Faults, lag>>
       \/ OpAborts(h) /\ UNCHANGED dhcp6c
    /\ UNCHANGED <<v6, ppp, dropIn, tunnelVars, endpointVars, ipv6Ops>>
StepStop(h) ==
    /\ AtStep(h, "stop") /\ IPv6Unlocked
    /\ \/ StopUnit /\ StepDone(h) /\ UNCHANGED <<ipv6Faults, lag>>
       \/ OpAborts(h) /\ UNCHANGED dhcp6c
    /\ UNCHANGED <<v6, ppp, dropIn, tunnelVars, endpointVars, ipv6Ops>>

\* SixInFourService.ApplyConfig and Restart.
StepApplyTunnel(h) ==
    /\ AtStep(h, "applyTunnel")
    /\ ThenSteps(h, IF TunnelWanted THEN <<"stopTunnel", "startTunnel">> ELSE <<"stopTunnel">>)
    /\ Lag("tunnel", TunnelShared(h))
    /\ UNCHANGED <<v6, ppp, planeVars, tunnelVars, endpointVars, ipv6Ops, ipv6Faults>>

\* SixInFourService.Stop: every command is best effort, and the interface survives
\* when they fail. The hook of a disconnect may find the link up again.
StepStopTunnel(h) ==
    /\ AtStep(h, "stopTunnel") /\ StepDone(h)
    /\ tunnelRuns' = FALSE
    /\ \/ /\ sit' = NoTunnel
          /\ Lag("tunnel", lag["tunnel"] \/ TunnelShared(h) \/ (h = "disconnect" /\ ppp.addr # NoAddress))
          /\ UNCHANGED ipv6Faults
       \/ sit.up /\ IPv6Fault /\ Lag("tunnel", TRUE) /\ UNCHANGED sit
    /\ UNCHANGED <<v6, ppp, planeVars, endpointVars, ipv6Ops>>

\* localIPv4: ppp0 has an address.
LocalIPv4 == ppp.addr # NoAddress

\* SixInFourService.Start; a failure may leave the interface half built.
StepStartTunnel(h) ==
    /\ AtStep(h, "startTunnel")
    /\ \/ /\ LocalIPv4 /\ sit' = [up |-> TRUE, local |-> ppp.addr] /\ tunnelRuns' = TRUE
          /\ lag' = [lag EXCEPT !["tunnel"] = @ \/ TunnelShared(h), !["address"] = FALSE]
          /\ StepDone(h) /\ UNCHANGED ipv6Faults
       \/ ~LocalIPv4 /\ OpEnds(h) /\ UNCHANGED <<tunnelVars, ipv6Faults, lag>>
       \/ LocalIPv4 /\ OpAborts(h) /\ sit' \in {NoTunnel, [up |-> TRUE, local |-> ppp.addr]} /\ UNCHANGED tunnelRuns
    /\ UNCHANGED <<v6, ppp, planeVars, endpointVars, ipv6Ops>>

\* reconnectSixInFour: the endpoint update comes first, and only when asked for.
StepReconnect(h) ==
    /\ AtStep(h, "reconnect")
    /\ IF ppp.addr # NoAddress /\ v6.auto THEN ThenSteps(h, <<"ddns">>) /\ TakeLocalIP(h)
       ELSE StepDone(h) /\ UNCHANGED ddnsUpdate
    /\ UNCHANGED <<v6, ppp, planeVars, tunnelVars, ddnsRemote, lastIPv4, unsure, ipv6Ops, ipv6Faults, lag>>

Acknowledged(code) == code \in {"good", "nochg"}

\* What sendDDNSUpdate and HE.net make of a request, and the answer's way back.
SendDDNSUpdate(h, code) ==
    /\ ddnsUpdate' = [ddnsUpdate EXCEPT ![h].code = code]
    /\ ddnsRemote' = IF code = "badauth" THEN ddnsRemote ELSE ddnsUpdate[h].addr
\* UpdateRemoteIPv4: nothing to do for the address it last had acknowledged.
StepDDNSSend(h) ==
    /\ AtStep(h, "ddns")
    /\ IF ddnsUpdate[h].addr = lastIPv4
       THEN StepDone(h) /\ ddnsUpdate' = [ddnsUpdate EXCEPT ![h] = NoUpdate] /\ UNCHANGED <<ddnsRemote, unsure>>
       ELSE \E code \in {"good", "badauth", "lost"} :
              /\ ThenSteps(h, <<"reply">>)
              /\ SendDDNSUpdate(h, code)
              /\ unsure' = (unsure \/ code = "lost" \/ \E g \in IPv6Handlers : AtStep(g, "reply"))
    /\ UNCHANGED <<v6, ppp, planeVars, tunnelVars, lastIPv4, ipv6Ops, ipv6Faults, lag>>
StepDDNSReply(h) ==
    /\ AtStep(h, "reply") /\ StepDone(h)
    /\ lastIPv4' = IF Acknowledged(ddnsUpdate[h].code) THEN ddnsUpdate[h].addr ELSE lastIPv4
    /\ ddnsUpdate' = [ddnsUpdate EXCEPT ![h] = NoUpdate]
    /\ UNCHANGED <<v6, ppp, planeVars, tunnelVars, ddnsRemote, unsure, ipv6Ops, ipv6Faults, lag>>

UpdateRemoteIPv4(h) == StepDDNSSend(h) \/ StepDDNSReply(h)

IPv6Next ==
    \/ \E form \in IPv6Forms : HandleSave(form)
    \/ PPPoEConnect \/ LinkUp \/ LinkLost \/ RestartPPPoE \/ PPPoEDisconnect
    \/ WireIPv6Hooks \/ HandleTunnelUpdateNow
    \/ HandleStart \/ HandleRenew \/ HandleStop \/ HandleRelease
    \/ \E h \in IPv6Handlers :
          \/ ApplyIPv6Config(h) \/ StepRestart(h) \/ StepStop(h)
          \/ StepApplyTunnel(h) \/ StepStopTunnel(h) \/ StepStartTunnel(h)
          \/ StepReconnect(h) \/ UpdateRemoteIPv4(h)

IPv6Spec == IPv6Init /\ [][IPv6Next]_ipv6Vars

-----------------------------------------------------------------------------
IPv6TypeOK ==
    /\ v6 \in IPv6Forms
    /\ ppp.given \in 0..MaxAddress /\ ppp.addr \in {NoAddress, ppp.given}
    /\ ppp.addr # NoAddress => ppp.runs
    /\ dropIn \in [conf : {"stub", "pd", "unused"}, ra : {"stub", "pd", "6in4"}]
    /\ sit.local \in 0..MaxAddress /\ (sit.up <=> sit.local # NoAddress)
    /\ {dhcp6c, tunnelRuns, unsure} \subseteq BOOLEAN /\ lag \in [Planes -> BOOLEAN]
    /\ {ddnsRemote, lastIPv4} \subseteq 0..MaxAddress

\* Once every operation has ended, the tunnel exists only when the settings ask
\* for it, and the service knows whether it does; when the link has kept its
\* address since the tunnel was last built, the tunnel is there and ends at that
\* address. Saves, connects, disconnects and redials may come in any order and
\* overlap: only a failed command, two handlers in the middle of the tunnel's
\* commands at once, or a disconnect's hook that ran after the link was up again
\* can break this, and the next undisturbed apply repairs it.
TunnelAtRest ==
    IPv6Resting /\ ~lag["tunnel"] =>
        /\ sit.up => ~v6.off /\ v6.mode = "6in4"
        /\ sit.up <=> tunnelRuns
        /\ ~lag["address"] /\ ~v6.off /\ v6.mode = "6in4" /\ ppp.addr # NoAddress
              => sit = [up |-> TRUE, local |-> ppp.addr]

\* In the same states the drop-in and dhcp6c.conf are those of the settings,
\* however the operations overlapped, unless a save or a write failed; and the
\* tunnel and dhcp6c run side by side only after a button, a failure or an
\* overtaken hook.
PlanesAtRest ==
    IPv6Resting =>
        /\ ~lag["files"] => dropIn = RenderIPv6ToDisk
        /\ sit.up /\ dhcp6c => lag["tunnel"] \/ lag["unit"]

\* The address that suppresses the next update is one HE.net has, unless two
\* updates were under way at once or an answer got lost.
RemoteKnows ==
    lastIPv4 # NoAddress /\ ~unsure /\ (\A h \in IPv6Handlers : ~AtStep(h, "reply")) => ddnsRemote = lastIPv4


=============================================================================
