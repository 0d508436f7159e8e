------------------------------ MODULE SiteLinks ------------------------------
(* The WireGuard server's peers and the site-to-site wizard: vpn.go, vpn_s2s.go   *)
(* and handlers/vpn.go, on two routers whose operators carry the tokens: a token  *)
(* may be pasted late, twice, at the wrong router or never.                      *)
(*                                                                               *)
(* A request that adds a peer checks the networks first (checkRemoteSubnets) and  *)
(* takes the service's lock only to append and save: two steps. Everything else   *)
(* runs under the lock. A preshared key is a number; each is made once.           *)
EXTENDS Integers, Sequences, FiniteSets, SequencesExt, FiniteSetsExt

CONSTANTS
    Routers, PeerNames, SubnetsOf,
    LanOf,          \* per router: its LANs
    LocalOf,        \* per router: LANs, VLANs and server subnets (reservedSubnets and more)
    LinkRequests,   \* requests in flight at once
    NoPeerKey,
    InviteTTL,      \* inviteDefaultTTL
    PoolSize,       \* host addresses of the tunnel subnet; 1 is the server's
    MaxLinkTime, MaxLinkOps, MaxLinkFaults   \* bounds

ASSUME SiteLinksAssumption ==
    /\ {InviteTTL, PoolSize, MaxLinkTime, MaxLinkOps, MaxLinkFaults} \subseteq Nat
    /\ \A r \in Routers : LanOf[r] # {} /\ LanOf[r] \subseteq LocalOf[r] /\ LocalOf[r] \subseteq SubnetsOf
    /\ NoPeerKey \notin Routers

VARIABLES
    linkTime,
    serverKey,   \* per router: the server's key pair in memory and in the file (0: none),
                 \* and how many were made
    wgPeers,       \* cfg.VPN.Server.Peers
    savedPeers,  \* the list in router.yaml
    linkReq,        \* per request: what passed the checks
    wgRunning,     \* VPNService.running
    wgs0,        \* the kernel interface: "down", or the peers it was given
    invites, acks,   \* tokens handed to an operator so far
    joinedBy,      \* history: <<router, preshared key>> of every consumed invite
    keyLost,     \* history: the routers whose stored secrets could not be decrypted
    psks,        \* preshared keys made so far
    linkOps, linkFaults

linkVars == <<linkTime, serverKey, wgPeers, savedPeers, linkReq, wgRunning, wgs0, invites, acks, joinedBy,
              keyLost, psks, linkOps, linkFaults>>
linkConfig == <<serverKey, wgPeers, savedPeers>>
tokenVars == <<invites, acks, joinedBy, keyLost>>
wgVars == <<wgRunning, wgs0>>

\* The key pair of a peer added by hand is made for it and is no router's.
ClientPub == <<NoPeerKey, 0>>
NoLink == [op |-> "none"]
WGDown == [up |-> FALSE, names |-> {}]
NeverExpires == MaxLinkTime + InviteTTL + 1
PeerNamesOf(list) == {list[k].name : k \in DOMAIN list}
PeerAt(list, n) == SelectInSeq(list, LAMBDA p : p.name = n)

LinksInit ==
    /\ linkTime = 0
    \* render-configs makes the key pair at install time (RenderServerConfig), or could not.
    /\ serverKey \in [Routers -> {[memory |-> k, file |-> k, made |-> k] : k \in {0, 1}}]
    /\ wgPeers = [r \in Routers |-> <<>>] /\ savedPeers = wgPeers
    /\ linkReq = [q \in LinkRequests |-> NoLink]
    /\ wgRunning = [r \in Routers |-> FALSE] /\ wgs0 = [r \in Routers |-> WGDown]
    /\ invites = {} /\ acks = {} /\ joinedBy = {} /\ keyLost = {}
    /\ psks = 0 /\ linkOps = 0 /\ linkFaults = 0

LinkOp == linkOps < MaxLinkOps /\ linkOps' = linkOps + 1
LinkFault == linkFaults < MaxLinkFaults /\ linkFaults' = linkFaults + 1

\* persist: the whole configuration, or nothing; the change stays in memory either way.
LinkPersisted(r) ==
    /\ savedPeers' = [savedPeers EXCEPT ![r] = wgPeers'[r]]
    /\ serverKey' = [serverKey EXCEPT ![r].file = serverKey[r].memory]
    /\ UNCHANGED linkFaults
LinkPersistFails == LinkFault /\ UNCHANGED <<savedPeers, serverKey>>
LinkPersist(r) == LinkPersisted(r) \/ LinkPersistFails

-----------------------------------------------------------------------------
(* Checks.                                                                       *)

\* peerNameTakenLocked
PeerNameTaken(r, n) == n \in PeerNamesOf(wgPeers[r])
\* claimedSubnets: the local networks and what peers and pending invites route.
ClaimedSubnets(r) == LocalOf[r] \cup UNION {wgPeers[r][k].subnets : k \in DOMAIN wgPeers[r]}
\* checkRemoteSubnets
CheckRemoteSubnets(r, remote) == remote \cap ClaimedSubnets(r) = {}

\* usedTunnelIPs; a peer of the wizard has no tunnel address.
UsedTunnelIPs(r) == {wgPeers[r][k].ip : k \in DOMAIN wgPeers[r]}
\* nextTunnelIP: the lowest free one, if any.
NextTunnelIP(r) ==
    LET free == (2 .. PoolSize) \ UsedTunnelIPs(r) IN IF free = {} THEN {} ELSE {Min(free)}

\* What the request was checked against, for SubnetsClaimedOnce.
SeenPeers(r) == {wgPeers[r][k].serial : k \in DOMAIN wgPeers[r]}

PeerEntry(n, psk, pub, subnets, pending, expires, ip, serial, seen) ==
    [name |-> n, psk |-> psk, pub |-> pub, subnets |-> subnets, pending |-> pending,
     expires |-> expires, ip |-> ip, serial |-> serial, seen |-> seen]

-----------------------------------------------------------------------------
(* Adding peers: the checks.                                                     *)

ValidateInviteRequest(r, expected) ==
    serverKey[r].memory # 0 /\ expected # {} /\ CheckRemoteSubnets(r, expected)
\* CreateS2SInvite up to appendPeer.
CreateS2SInvite(q, r, n, expected) ==
    /\ linkReq[q] = NoLink /\ LinkOp
    /\ ValidateInviteRequest(r, expected)
    /\ psks' = psks + 1
    /\ linkReq' = [linkReq EXCEPT ![q] = [op |-> "invite", router |-> r,
          peer |-> PeerEntry(n, psks', NoPeerKey, expected, TRUE, linkTime + InviteTTL, 0, linkOps', SeenPeers(r))]]
    /\ UNCHANGED <<linkTime, linkConfig, wgVars, tokenVars, linkFaults>>

\* ParseInviteToken: the deadline.
InviteAlive(inv) == linkTime <= inv.expires
\* checkInviteSubnets: the invite expects exactly this router's LANs.
CheckInviteSubnets(r, inv) == inv.expected = LanOf[r] /\ CheckRemoteSubnets(r, inv.remote)

\* ConsumeInvite up to appendPeer.
ConsumeInvite(q, r, inv) ==
    /\ linkReq[q] = NoLink /\ LinkOp
    /\ InviteAlive(inv) /\ serverKey[r].memory # 0
    /\ CheckInviteSubnets(r, inv)
    /\ linkReq' = [linkReq EXCEPT ![q] = [op |-> "join", router |-> r,
          peer |-> PeerEntry(inv.name, inv.psk, inv.pub, inv.remote, FALSE, NeverExpires, 0, linkOps', SeenPeers(r))]]
    /\ UNCHANGED <<linkTime, linkConfig, wgVars, tokenVars, psks, linkFaults>>

\* AddPeer up to its lock: the networks and the peer's own keys.
AddPeer(q, r, n, remote) ==
    /\ linkReq[q] = NoLink /\ LinkOp
    /\ CheckRemoteSubnets(r, remote)
    /\ psks' = psks + 1
    /\ linkReq' = [linkReq EXCEPT ![q] = [op |-> "add", router |-> r,
          peer |-> PeerEntry(n, psks', ClientPub, remote, FALSE, NeverExpires, 0, linkOps', SeenPeers(r))]]
    /\ UNCHANGED <<linkTime, linkConfig, wgVars, tokenVars, linkFaults>>

-----------------------------------------------------------------------------
(* Adding peers: the lock, the append and the save.                              *)

ServerPub(r) == <<r, serverKey[r].memory>>
InviteToken(r, p) ==
    [name |-> p.name, psk |-> p.psk, pub |-> ServerPub(r), remote |-> LanOf[r],
     expected |-> p.subnets, expires |-> p.expires]
\* signAck: the MAC is named by its key, the invite's preshared key.
AckToken(r, p) == [name |-> p.name, pub |-> ServerPub(r), mac |-> p.psk]

\* appendPeer, past the check of the name.
AppendPeer(r, p) == wgPeers' = [wgPeers EXCEPT ![r] = Append(@, p)] /\ LinkPersist(r)

\* A token leaves the router only when the save went through.
AppendInvite(q) ==
    LET r == linkReq[q].router
        p == linkReq[q].peer
    IN  /\ ~PeerNameTaken(r, p.name)
        /\ linkReq' = [linkReq EXCEPT ![q] = NoLink]
        /\ AppendPeer(r, p)
        /\ invites' = IF linkFaults' = linkFaults THEN invites \cup {InviteToken(r, p)} ELSE invites
        /\ UNCHANGED <<linkTime, wgVars, acks, joinedBy, keyLost, psks, linkOps>>
AppendJoin(q) ==
    LET r == linkReq[q].router
        p == linkReq[q].peer
    IN  /\ ~PeerNameTaken(r, p.name)
        /\ linkReq' = [linkReq EXCEPT ![q] = NoLink]
        /\ AppendPeer(r, p)
        /\ joinedBy' = joinedBy \cup {<<r, p.psk>>}
        /\ acks' = IF linkFaults' = linkFaults THEN acks \cup {AckToken(r, p)} ELSE acks
        /\ UNCHANGED <<linkTime, wgVars, invites, keyLost, psks, linkOps>>
\* AddPeer under its lock: the tunnel address is chosen there.
AppendAdd(q) ==
    LET r == linkReq[q].router
        p == linkReq[q].peer
    IN  /\ ~PeerNameTaken(r, p.name)
        /\ linkReq' = [linkReq EXCEPT ![q] = NoLink]
        /\ \E ip \in NextTunnelIP(r) : AppendPeer(r, [p EXCEPT !.ip = ip])
        /\ UNCHANGED <<linkTime, wgVars, tokenVars, psks, linkOps>>
\* The request in flight is the one for these arguments.
Checked(q, r, n, subnets) ==
    linkReq[q].router = r /\ linkReq[q].peer.name = n /\ linkReq[q].peer.subnets = subnets
HandleS2SInvite(q, r, n, expected) ==
    \/ CreateS2SInvite(q, r, n, expected)
    \/ linkReq[q].op = "invite" /\ Checked(q, r, n, expected) /\ AppendInvite(q)
HandleS2SJoin(q, r, inv) ==
    \/ ConsumeInvite(q, r, inv)
    \/ linkReq[q].op = "join" /\ Checked(q, r, inv.name, inv.remote) /\ AppendJoin(q)
HandleAddPeer(q, r, n, remote) ==
    \/ AddPeer(q, r, n, remote)
    \/ linkReq[q].op = "add" /\ Checked(q, r, n, remote) /\ AppendAdd(q)
\* A taken name, or no address left: the request is refused.
AppendRefused(q) ==
    /\ linkReq[q] # NoLink
    /\ \/ PeerNameTaken(linkReq[q].router, linkReq[q].peer.name)
       \/ linkReq[q].op = "add" /\ NextTunnelIP(linkReq[q].router) = {}
    /\ linkReq' = [linkReq EXCEPT ![q] = NoLink]
    /\ UNCHANGED <<linkTime, linkConfig, wgVars, tokenVars, psks, linkOps, linkFaults>>

-----------------------------------------------------------------------------
(* The rest of an invite's life, all under the lock.                             *)

\* pendingPeerIndexLocked: the named peer, pending and within its deadline.
PendingPeer(r, n) ==
    LET k == PeerAt(wgPeers[r], n)
    IN  IF k # 0 /\ wgPeers[r][k].pending /\ linkTime <= wgPeers[r][k].expires THEN {k} ELSE {}
\* Variant: any well-formed ack is taken.
VerifyAckNot(ack, psk) == TRUE
\* verifyAck
VerifyAck(ack, psk) == ack.mac = psk

\* SyncWGServer renders the peers and hands them to the running interface.
SyncWGServer(r) ==
    wgs0' = IF wgs0[r].up THEN [wgs0 EXCEPT ![r].names = PeerNamesOf(wgPeers'[r])] ELSE wgs0
FinalizeInvite(r, n, ack) ==
    \E k \in PendingPeer(r, n) :
        /\ ack.name = n /\ VerifyAck(ack, wgPeers[r][k].psk)
        /\ wgPeers' = [wgPeers EXCEPT ![r][k].pub = ack.pub, ![r][k].pending = FALSE,
                                  ![r][k].expires = NeverExpires]
\* FinalizeInvite and its save, then SyncWGServer, whose failure is logged.
HandleS2SFinalize(r, n, ack) ==
    /\ LinkOp
    /\ FinalizeInvite(r, n, ack)
    /\ \/ LinkPersisted(r) /\ SyncWGServer(r)
       \/ LinkPersistFails /\ UNCHANGED wgs0
       \/ LinkFault /\ UNCHANGED wgs0
          /\ savedPeers' = [savedPeers EXCEPT ![r] = wgPeers'[r]]
          /\ serverKey' = [serverKey EXCEPT ![r].file = serverKey[r].memory]
    /\ UNCHANGED <<linkTime, linkReq, wgRunning, tokenVars, psks>>

\* removePeerAtLocked and the save.
DropPeers(r, dropped(_)) ==
    wgPeers' = [wgPeers EXCEPT ![r] = SelectSeq(@, LAMBDA p : ~dropped(p))] /\ LinkPersist(r)
CancelInvite(r, n) ==
    /\ \E k \in DOMAIN wgPeers[r] : k = PeerAt(wgPeers[r], n) /\ wgPeers[r][k].pending
    /\ DropPeers(r, LAMBDA p : p.name = n)
HandleS2SCancel(r, n) ==
    /\ LinkOp /\ CancelInvite(r, n)
    /\ UNCHANGED <<linkTime, linkReq, wgVars, tokenVars, psks>>
RemovePeer(r, n) == PeerAt(wgPeers[r], n) # 0 /\ DropPeers(r, LAMBDA p : p.name = n)
HandleRemovePeer(r, n) ==
    /\ LinkOp /\ RemovePeer(r, n)
    /\ UNCHANGED <<linkTime, linkReq, wgVars, tokenVars, psks>>
InviteExpired(p) == p.pending /\ linkTime > p.expires
GCExpiredInvites(r) ==
    /\ \E k \in DOMAIN wgPeers[r] : InviteExpired(wgPeers[r][k])
    /\ DropPeers(r, InviteExpired)
    /\ UNCHANGED <<linkTime, linkReq, wgVars, tokenVars, psks, linkOps>>

-----------------------------------------------------------------------------
(* The server.                                                                   *)

\* ensureServerKeypairLocked: made and saved when there is none. When the save fails the
\* key pair stays in memory and the caller gives up.
EnsureServerKeypair(r) ==
    IF serverKey[r].memory # 0 THEN serverKey
    ELSE [serverKey EXCEPT ![r] = [memory |-> @.made + 1, file |-> @.made + 1, made |-> @.made + 1]]
\* wg-quick refuses to bring up an interface that is up, as after a restart of the process.
ServerUp(r) ==
    /\ LinkOp /\ ~wgRunning[r] /\ ~wgs0[r].up
    /\ serverKey' = EnsureServerKeypair(r)
    /\ savedPeers' = IF serverKey' = serverKey THEN savedPeers ELSE [savedPeers EXCEPT ![r] = wgPeers[r]]
    /\ wgRunning' = [wgRunning EXCEPT ![r] = TRUE]
    /\ wgs0' = [wgs0 EXCEPT ![r] = [up |-> TRUE, names |-> PeerNamesOf(wgPeers[r])]]
    /\ UNCHANGED <<linkTime, wgPeers, linkReq, tokenVars, psks, linkFaults>>
ServerUpUnsaved(r) ==
    /\ LinkOp /\ LinkFault /\ ~wgRunning[r] /\ serverKey[r].memory = 0
    /\ serverKey' = [serverKey EXCEPT ![r].memory = serverKey[r].made + 1, ![r].made = @ + 1]
    /\ UNCHANGED <<linkTime, wgPeers, savedPeers, linkReq, wgVars, tokenVars, psks>>
HandleServerStart(r) == ServerUp(r) \/ ServerUpUnsaved(r)
ServerDown(r) ==
    wgRunning[r] /\ wgRunning' = [wgRunning EXCEPT ![r] = FALSE] /\ wgs0' = [wgs0 EXCEPT ![r] = WGDown]
HandleServerStop(r) ==
    /\ LinkOp /\ ServerDown(r)
    /\ UNCHANGED <<linkTime, linkConfig, linkReq, tokenVars, psks, linkFaults>>

\* decryptSecretsInPlace clears the secrets it cannot decrypt; the rest of the file is loaded.
LoadedPeers(r, readable) ==
    IF readable THEN savedPeers[r] ELSE [k \in DOMAIN savedPeers[r] |-> [savedPeers[r][k] EXCEPT !.psk = 0]]
\* The web process starts again; the interface stays. The start makes a key pair when there is
\* none (EnsureServerKeypair), saves it or not, and StartInviteGC sweeps at once (GCExpiredInvites).
LinkRestart(r) ==
    /\ LinkFault
    /\ \E readable \in BOOLEAN, made \in {"saved", "unsaved", "failed"} :
          LET key == IF readable THEN serverKey[r].file ELSE 0
              new == serverKey[r].made + 1
          IN  /\ wgPeers' = [wgPeers EXCEPT ![r] = LoadedPeers(r, readable)]
              /\ IF key # 0 \/ made = "failed"
                 THEN serverKey' = [serverKey EXCEPT ![r].memory = key] /\ UNCHANGED savedPeers
                 ELSE /\ serverKey' = [serverKey EXCEPT ![r].memory = new, ![r].made = new,
                                                        ![r].file = IF made = "saved" THEN new ELSE @]
                      /\ savedPeers' = IF made = "saved" THEN [savedPeers EXCEPT ![r] = wgPeers'[r]] ELSE savedPeers
              /\ keyLost' = IF readable THEN keyLost ELSE keyLost \cup {r}
    /\ wgRunning' = [wgRunning EXCEPT ![r] = FALSE]
    /\ linkReq' = [q \in LinkRequests |-> IF linkReq[q] # NoLink /\ linkReq[q].router = r THEN NoLink ELSE linkReq[q]]
    /\ UNCHANGED <<linkTime, wgs0, invites, acks, joinedBy, psks, linkOps>>

LinkTick == linkTime < MaxLinkTime /\ linkTime' = linkTime + 1
            /\ UNCHANGED <<linkConfig, linkReq, wgVars, tokenVars, psks, linkOps, linkFaults>>

-----------------------------------------------------------------------------
LinksNext ==
    \/ LinkTick
    \/ \E q \in LinkRequests :
          \/ \E r \in Routers, n \in PeerNames, s \in SUBSET SubnetsOf :
                HandleS2SInvite(q, r, n, s) \/ HandleAddPeer(q, r, n, s)
          \/ \E r \in Routers, inv \in invites : HandleS2SJoin(q, r, inv)
          \/ AppendRefused(q)
    \/ \E r \in Routers :
          \/ \E n \in PeerNames : HandleS2SCancel(r, n) \/ HandleRemovePeer(r, n)
          \/ \E n \in PeerNames, ack \in acks : HandleS2SFinalize(r, n, ack)
          \/ GCExpiredInvites(r)
          \/ HandleServerStart(r) \/ HandleServerStop(r) \/ LinkRestart(r)

LinksSpec == LinksInit /\ [][LinksNext]_linkVars

-----------------------------------------------------------------------------
(* Properties.                                                                   *)

\* Types; what this process runs is up.
LinksTypeOK ==
    /\ linkTime \in 0 .. MaxLinkTime
    /\ \A r \in Routers :
          /\ serverKey[r].memory <= serverKey[r].made /\ serverKey[r].file <= serverKey[r].made
          /\ wgRunning[r] => wgs0[r].up
          /\ \A k \in DOMAIN wgPeers[r] :
                /\ wgPeers[r][k].name \in PeerNames /\ wgPeers[r][k].subnets \subseteq SubnetsOf
                /\ wgPeers[r][k].ip \in {0} \cup (2 .. PoolSize) /\ wgPeers[r][k].pending \in BOOLEAN
                /\ wgPeers[r][k].pending => wgPeers[r][k].pub = NoPeerKey

\* No two peers of a router share a name, whoever added them and however many at once
\* (peerNameTakenLocked: name-keyed lookups stop at the first match).
NamesOnce ==
    \A r \in Routers : \A j, k \in DOMAIN wgPeers[r] : j # k => wgPeers[r][j].name # wgPeers[r][k].name

\* No two peers have the same tunnel address (AddPeer allocates under its lock).
TunnelIPsOnce ==
    \A r \in Routers : \A j, k \in DOMAIN wgPeers[r] :
        j # k /\ wgPeers[r][j].ip # 0 => wgPeers[r][j].ip # wgPeers[r][k].ip

\* A peer routes no local network, and none that a peer already in the list when it was
\* checked routes (checkRemoteSubnets). Two requests that are checked before either is
\* appended can still claim the same network: the check is not under the lock.
SubnetsClaimedOnce ==
    \A r \in Routers : \A k \in DOMAIN wgPeers[r] :
        /\ wgPeers[r][k].subnets \cap LocalOf[r] = {}
        /\ \A j \in DOMAIN wgPeers[r] :
              wgPeers[r][j].serial \in wgPeers[r][k].seen => wgPeers[r][j].subnets \cap wgPeers[r][k].subnets = {}

\* A finished link has the key of a router that consumed exactly that invite: never of
\* the answer to an earlier invite of the same name that was cancelled or expired
\* (verifyAck: "a valid MAC proves the ack answers that invite").
AckAnswersInvite ==
    \A r \in Routers : \A k \in DOMAIN wgPeers[r] :
        LET p == wgPeers[r][k]
        IN  ~p.pending /\ p.pub # ClientPub /\ p.psk # 0 /\ <<r, p.psk>> \notin joinedBy =>
                \E o \in Routers : p.pub[1] = o /\ <<o, p.psk>> \in joinedBy

\* An invite becomes a peer only within its deadline, whether or not the sweep has come
\* by (pendingPeerIndexLocked).
FinalizedInTime ==
    [][\A r \in Routers : \A j \in DOMAIN wgPeers[r], k \in DOMAIN wgPeers'[r] :
         (/\ wgPeers[r][j].pending /\ wgPeers[r][j].serial = wgPeers'[r][k].serial
          /\ ~wgPeers'[r][k].pending) => linkTime <= wgPeers[r][j].expires]_linkVars

\* A public key that left the router in a token stays the server's key, whatever saves
\* fail and however often it restarts with its secrets readable ("an existing private key is never replaced, because
\* every peer and every site-to-site link is bound to its public key").
TokenKeysKept ==
    \A t \in {u \in invites \cup acks : u.pub[1] \notin keyLost} :
        serverKey[t.pub[1]].memory = t.pub[2] /\ serverKey[t.pub[1]].file = t.pub[2]

\* The sweep takes nothing but expired invites: no peer in use and no invite in time
\* leaves the list except by a request that names it (GCExpiredInvites).
SweepTakesExpired ==
    [][(linkOps' = linkOps /\ linkFaults' = linkFaults) =>
         \A r \in Routers : \A k \in DOMAIN wgPeers[r] :
            \/ \E j \in DOMAIN wgPeers'[r] : wgPeers'[r][j].serial = wgPeers[r][k].serial
            \/ wgPeers[r][k].pending /\ linkTime > wgPeers[r][k].expires]_linkVars

\* What the wizard and the list of peers promise together.
LinksSound ==
    /\ [](NamesOnce /\ TunnelIPsOnce /\ SubnetsClaimedOnce /\ AckAnswersInvite /\ TokenKeysKept)
    /\ FinalizedInTime /\ SweepTakesExpired

=============================================================================
