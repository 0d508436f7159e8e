--------------------------- MODULE PolicyRouting ----------------------------
(* Policy-based routing (internal/services/routing.go and its handlers): the    *)
(* policies, the nft chain and the ip rules Apply makes of them, the domain     *)
(* sets and the goroutine that refreshes them. Apply is called by the routing   *)
(* page, by the firewall after it reloaded the ruleset, which empties the chain *)
(* and the sets, and at start. Connecting a WireGuard tunnel (vpn.go) adds a    *)
(* rule of the same mark, and disconnecting takes one away. A set is named      *)
(* after its policy, a mark and a table after their tunnel.                     *)
EXTENDS Naturals, Sequences, SequencesExt, FiniteSets

CONSTANTS
    PolicyNames, PBRTunnels,
    VPNClients,      \* the tunnels that are configured; a policy may name another
    WithDomains,     \* the policies that list domains
    PBRRequests,     \* requests and firewall reloads under way
    MainPriority,    \* the priority of the kernel's rule for the main table
    MaxPolicyOps,    \* bound: requests, reloads and restarts
    MaxPolicyFaults, \* bound: commands that fail and requests that are cancelled
    MaxRefreshes     \* bound: refresh intervals

ASSUME PolicyAssumption ==
    /\ WithDomains \subseteq PolicyNames /\ VPNClients \subseteq PBRTunnels
    /\ {MainPriority, MaxPolicyOps, MaxPolicyFaults, MaxRefreshes} \subseteq Nat

VARIABLES
    pbrPolicies,    \* cfg.Routing.Policies
    policyFile,     \* the policies in router.yaml
    pbrChain,       \* the policies in the pbr_policies chain, in rule order
    ipRules,        \* the fwmark rules of the kernel: tunnel and priority
    nftSets,        \* the nft sets there are, and whether they hold elements
    wgUp,           \* the tunnels wg-quick has brought up
    domainSets,     \* the sets registered for the refresh
    pbrApply,       \* what each request is doing
    pbrRefreshing,  \* the snapshot the refresh is resolving
    policyOps, policyFaults, pbrRefreshes,
    chainLag,       \* history: an edit was not loaded, or an older list was loaded after it
    ruleless,       \* history: the tunnels whose rule was taken, or could not be added
    rulesCrossed,   \* history: a rule was replaced while another request was replacing it
    unfilled        \* history: the sets whose elements expired or could not be looked up

pbrKernel == <<pbrChain, ipRules, nftSets, wgUp>>
pbrStored == <<pbrPolicies, policyFile>>
pbrHistory == <<chainLag, ruleless, rulesCrossed, unfilled>>
policyCounts == <<policyOps, policyFaults, pbrRefreshes>>
pbrVars == <<pbrStored, pbrKernel, domainSets, pbrApply, pbrRefreshing, policyCounts, pbrHistory>>

\* fw: the caller is the firewall, which holds its own lock meanwhile.
NoPBRApply == [pc |-> "idle", todo |-> <<>>, late |-> FALSE, fw |-> FALSE]
NoSets == [n \in {} |-> FALSE]
PolicyRecords == [name : PolicyNames, tunnel : PBRTunnels, enabled : BOOLEAN, priority : Nat]
\* A policy is added enabled; a disabled one is in the file.
FirstPolicies == {<<>>} \cup {<<p>> : p \in [name : PolicyNames, tunnel : PBRTunnels, enabled : BOOLEAN, priority : {10}]}
PolicyInit ==
    /\ pbrPolicies \in FirstPolicies /\ policyFile = pbrPolicies
    /\ pbrChain = <<>> /\ ipRules = {} /\ nftSets = NoSets /\ wgUp = {} /\ domainSets = {}
    /\ \E r \in PBRRequests : pbrApply = [q \in PBRRequests |-> [NoPBRApply EXCEPT !.pc = IF q = r THEN "snapshot" ELSE "idle"]]
    /\ pbrRefreshing = {} /\ policyOps = 0 /\ policyFaults = 0 /\ pbrRefreshes = 0
    /\ chainLag = FALSE /\ ruleless = {} /\ rulesCrossed = FALSE /\ unfilled = {}

PBRApplying == {r \in PBRRequests : pbrApply[r].pc # "idle"}
PolicyFault == policyFaults < MaxPolicyFaults /\ policyFaults' = policyFaults + 1
PolicyOp(r) ==
    /\ pbrApply[r].pc = "idle" /\ policyOps < MaxPolicyOps /\ policyOps' = policyOps + 1
    /\ UNCHANGED pbrRefreshes
\* The requests that have copied the list and not loaded it, once another list is
\* loaded or should have been.
Overtakes(jobs) == [r \in PBRRequests |-> [jobs[r] EXCEPT !.late = @ \/ jobs[r].pc = "chain"]]

-----------------------------------------------------------------------------
(* The handlers change the list under the lock and then apply it.               *)

PolicyPriorities == {pbrPolicies[i].priority : i \in 1..Len(pbrPolicies)}
NextPriority == IF pbrPolicies = <<>> THEN 10 ELSE (CHOOSE p \in PolicyPriorities : \A q \in PolicyPriorities : q <= p) + 10
AddPolicy(name, tunnel) ==
    pbrPolicies' = Append(pbrPolicies, [name |-> name, tunnel |-> tunnel, enabled |-> TRUE, priority |-> NextPriority])
\* The first policy of that name.
RemovePolicy(name) ==
    LET i == SelectInSeq(pbrPolicies, LAMBDA p : p.name = name)
    IN i # 0 /\ pbrPolicies' = RemoveAt(pbrPolicies, i)
\* The orders in which the page can send the names.
PageOrders == SetToSeqs(PolicyNames)
\* UpdatePriorities: a name moves the last policy that carries it; the others keep their place.
UpdatePriorities(names) ==
    pbrPolicies' = [i \in 1..Len(pbrPolicies) |->
        LET k == SelectInSeq(names, LAMBDA n : n = pbrPolicies[i].name)
        IN IF k # 0 /\ i = SelectLastInSeq(pbrPolicies, LAMBDA p : p.name = pbrPolicies[i].name)
           THEN [pbrPolicies[i] EXCEPT !.priority = 10 * k] ELSE pbrPolicies[i]]

\* persist, then Apply; a save that fails answers with an error and applies nothing.
ThenApply(r) ==
    /\ \/ /\ pbrApply' = [pbrApply EXCEPT ![r].pc = "snapshot"] /\ policyFile' = pbrPolicies'
          /\ UNCHANGED <<policyFaults, chainLag>>
       \/ PolicyFault /\ pbrApply' = Overtakes(pbrApply) /\ chainLag' = TRUE /\ UNCHANGED policyFile
    /\ UNCHANGED <<pbrKernel, domainSets, pbrRefreshing, ruleless, rulesCrossed, unfilled>>
HandleAddPolicy(r, name, tunnel) == PolicyOp(r) /\ AddPolicy(name, tunnel) /\ ThenApply(r)
HandleDeletePolicy(r, name) == PolicyOp(r) /\ RemovePolicy(name) /\ ThenApply(r)
HandleReorder(r, names) == PolicyOp(r) /\ UpdatePriorities(names) /\ ThenApply(r)
\* FirewallService.Apply loads a ruleset that starts with a flush, and runs the
\* policies' Apply as its afterReload, all under the firewall's lock.
FirewallReload(r) ==
    /\ ~\E q \in PBRRequests : pbrApply[q].fw
    /\ PolicyOp(r) /\ pbrApply' = [pbrApply EXCEPT ![r].pc = "snapshot", ![r].fw = TRUE]
    /\ pbrChain' = <<>> /\ nftSets' = NoSets
    /\ UNCHANGED <<pbrStored, ipRules, wgUp, domainSets, pbrRefreshing, policyFaults, pbrHistory>>

-----------------------------------------------------------------------------
(* Apply.                                                                       *)

\* sort.Slice by priority: policies of the same priority come in either order.
SortedByPriority(policies) ==
    LET n == Len(policies)
        sorts(at) == \A i \in 1..n - 1 : policies[at[i]].priority <= policies[at[i + 1]].priority
    IN {[i \in 1..n |-> policies[at[i]]] : at \in {p \in Bijection(1..n, 1..n) : sorts(p)}}
SortedPolicies == SortedByPriority(pbrPolicies)
\* The copy taken under the read lock.
ApplySnapshot(r) ==
    /\ pbrApply[r].pc = "snapshot"
    /\ \E sorted \in SortedPolicies : pbrApply' = [pbrApply EXCEPT ![r].pc = "chain", ![r].todo = sorted, ![r].late = FALSE]
    /\ UNCHANGED <<pbrStored, pbrKernel, domainSets, pbrRefreshing, policyCounts, pbrHistory>>
\* A disabled policy, and one whose tunnel findTunnel does not know, is passed over.
InForce(policy) == policy.enabled /\ policy.tunnel \in VPNClients
\* generateFullNftChain: one mark rule block per policy, in order.
GenerateFullNftChain(sorted) == SelectSeq(sorted, InForce)
PolicyNamesIn(policies) == {policies[i].name : i \in 1..Len(policies)}
TunnelsIn(policies) == {policies[i].tunnel : i \in 1..Len(policies)}
\* The next policy of the loop, which passes over the same ones.
LoopOver(job, todo) == IF todo = <<>> THEN NoPBRApply ELSE [job EXCEPT !.pc = "del", !.todo = todo]
\* The chain is flushed and filled in one nft script; a set that is there keeps its elements.
ApplyNftRules(r) ==
    /\ pbrApply[r].pc = "chain"
    /\ LET chain == GenerateFullNftChain(pbrApply[r].todo)
       IN \/ /\ pbrChain' = chain /\ UNCHANGED policyFaults
             /\ nftSets' = [n \in DOMAIN nftSets \cup (PolicyNamesIn(chain) \cap WithDomains) |-> n \in DOMAIN nftSets /\ nftSets[n]]
             /\ pbrApply' = Overtakes([pbrApply EXCEPT ![r] = LoopOver(@, chain)])
             /\ chainLag' = pbrApply[r].late
          \/ /\ PolicyFault /\ chainLag' = TRUE /\ UNCHANGED <<pbrChain, nftSets>>
             /\ pbrApply' = Overtakes([pbrApply EXCEPT ![r] = NoPBRApply])
    /\ UNCHANGED <<pbrStored, ipRules, wgUp, domainSets, pbrRefreshing, policyOps, pbrRefreshes, ruleless, rulesCrossed, unfilled>>
CurrentPolicy(r) == Head(pbrApply[r].todo)
RulesOf(tunnel) == {rule \in ipRules : rule.tunnel = tunnel}
\* ip rule del takes the first rule of that mark; there may be none.
FirstRule(tunnel) == {rule \in RulesOf(tunnel) : \A other \in RulesOf(tunnel) : rule.priority <= other.priority}
\* Another request is between the two halves of a change of that tunnel's rules.
Crosses(r, tunnel) ==
    \E q \in PBRRequests \ {r} : pbrApply[q].pc \in {"add", "rule", "down"} /\ CurrentPolicy(q).tunnel = tunnel
DeleteRule(r) ==
    /\ pbrApply[r].pc = "del"
    /\ ipRules' = ipRules \ FirstRule(CurrentPolicy(r).tunnel)
    /\ rulesCrossed' = (rulesCrossed \/ Crosses(r, CurrentPolicy(r).tunnel))
    /\ pbrApply' = [pbrApply EXCEPT ![r].pc = "add"]
    /\ UNCHANGED <<pbrStored, pbrChain, nftSets, wgUp, domainSets, pbrRefreshing, policyCounts, chainLag, ruleless, unfilled>>
\* A rule that cannot be added is logged; one that is there already stays.
RuleAdded(tunnel, priority) ==
    \/ /\ ipRules' = ipRules \cup {[tunnel |-> tunnel, priority |-> priority]}
       /\ ruleless' = ruleless \ {tunnel} /\ UNCHANGED policyFaults
    \/ PolicyFault /\ ruleless' = ruleless \cup {tunnel} /\ UNCHANGED ipRules
AddRule(r) ==
    /\ pbrApply[r].pc = "add" /\ RuleAdded(CurrentPolicy(r).tunnel, CurrentPolicy(r).priority)
    /\ pbrApply' = [pbrApply EXCEPT ![r].pc = "register"]
    /\ UNCHANGED <<pbrStored, pbrChain, nftSets, wgUp, domainSets, pbrRefreshing, policyOps, pbrRefreshes, chainLag, rulesCrossed, unfilled>>
\* setupDomainSet registers the set for the refresh, then resolves it.
RegisterDomainSet(r) ==
    /\ pbrApply[r].pc = "register"
    /\ domainSets' = domainSets \cup ({CurrentPolicy(r).name} \cap WithDomains)
    /\ pbrApply' = [pbrApply EXCEPT ![r].pc = "resolve"]
    /\ UNCHANGED <<pbrStored, pbrKernel, pbrRefreshing, policyCounts, pbrHistory>>
\* resolveDomains: elements are added to the sets that exist; a lookup that fails is skipped.
ResolveDomains(names) ==
    \/ /\ nftSets' = [n \in DOMAIN nftSets |-> n \in names \/ nftSets[n]]
       /\ unfilled' = unfilled \ (names \cap DOMAIN nftSets) /\ UNCHANGED policyFaults
    \/ PolicyFault /\ unfilled' = unfilled \cup {n \in names \cap DOMAIN nftSets : ~nftSets[n]} /\ UNCHANGED nftSets
ResolveDomainSet(r) ==
    /\ pbrApply[r].pc = "resolve" /\ ResolveDomains({CurrentPolicy(r).name} \cap WithDomains)
    /\ pbrApply' = [pbrApply EXCEPT ![r] = LoopOver(@, Tail(@.todo))]
    /\ UNCHANGED <<pbrStored, pbrChain, ipRules, wgUp, domainSets, pbrRefreshing, policyOps, pbrRefreshes, chainLag, ruleless, rulesCrossed>>
SetupDomainSet(r) == RegisterDomainSet(r) \/ ResolveDomainSet(r)
\* RoutingService.Apply: no lock is held across its commands.
ApplyPolicies(r) == ApplySnapshot(r) \/ ApplyNftRules(r) \/ DeleteRule(r) \/ AddRule(r) \/ SetupDomainSet(r)
\* The page goes away within the loop: the commands that are left fail with the
\* request's context, and only the registrations are made.
ApplyCancelled(r) ==
    /\ pbrApply[r].pc \in {"del", "add", "register", "resolve"} /\ ~pbrApply[r].fw /\ PolicyFault
    /\ LET names == PolicyNamesIn(pbrApply[r].todo) \cap WithDomains
       IN domainSets' = domainSets \cup names /\ unfilled' = unfilled \cup names
    /\ ruleless' = ruleless \cup {t \in TunnelsIn(pbrApply[r].todo) : RulesOf(t) = {}}
    /\ pbrApply' = [pbrApply EXCEPT ![r] = NoPBRApply]
    /\ UNCHANGED <<pbrStored, pbrKernel, pbrRefreshing, policyOps, pbrRefreshes, chainLag, rulesCrossed>>

-----------------------------------------------------------------------------
(* The other writer of the rules: the WireGuard page.                           *)

\* ConnectClient: wg-quick refuses a tunnel that is up, then the rule is added
\* without a priority, so the kernel puts it before every other one.
ConnectClient(r, tunnel) ==
    /\ PolicyOp(r) /\ tunnel \notin wgUp /\ wgUp' = wgUp \cup {tunnel}
    /\ pbrApply' = [pbrApply EXCEPT ![r].pc = "rule", ![r].todo = <<[tunnel |-> tunnel]>>]
    /\ rulesCrossed' = (rulesCrossed \/ Crosses(r, tunnel))
    /\ UNCHANGED <<pbrStored, pbrChain, ipRules, nftSets, domainSets, pbrRefreshing, policyFaults, chainLag, ruleless, unfilled>>
FrontPriority ==
    LET taken == {MainPriority} \cup {rule.priority : rule \in ipRules}
    IN (CHOOSE p \in taken : \A q \in taken : p <= q) - 1
ConnectRule(r) ==
    /\ pbrApply[r].pc = "rule" /\ RuleAdded(CurrentPolicy(r).tunnel, FrontPriority)
    /\ pbrApply' = [pbrApply EXCEPT ![r] = NoPBRApply]
    /\ UNCHANGED <<pbrStored, pbrChain, nftSets, wgUp, domainSets, pbrRefreshing, policyOps, pbrRefreshes, chainLag, rulesCrossed, unfilled>>
\* DisconnectClient: a rule of the mark goes first, whichever it is, up or not.
DisconnectClient(r, tunnel) ==
    /\ PolicyOp(r) /\ ipRules' = ipRules \ FirstRule(tunnel)
    /\ ruleless' = IF RulesOf(tunnel) = FirstRule(tunnel) THEN ruleless \cup {tunnel} ELSE ruleless
    /\ pbrApply' = [pbrApply EXCEPT ![r].pc = "down", ![r].todo = <<[tunnel |-> tunnel]>>]
    /\ rulesCrossed' = (rulesCrossed \/ Crosses(r, tunnel))
    /\ UNCHANGED <<pbrStored, pbrChain, nftSets, wgUp, domainSets, pbrRefreshing, policyFaults, chainLag, unfilled>>
DisconnectDown(r) ==
    /\ pbrApply[r].pc = "down" /\ pbrApply' = [pbrApply EXCEPT ![r] = NoPBRApply]
    /\ \/ wgUp' = wgUp \ {CurrentPolicy(r).tunnel} /\ UNCHANGED policyFaults
       \/ PolicyFault /\ UNCHANGED wgUp
    /\ UNCHANGED <<pbrStored, pbrChain, ipRules, nftSets, domainSets, pbrRefreshing, policyOps, pbrRefreshes, pbrHistory>>

-----------------------------------------------------------------------------
(* The refresh, and a restart.                                                  *)

\* refreshDomainSets, once per interval: the sets are resolved from a snapshot, outside the lock.
RefreshTakesSets ==
    /\ pbrRefreshing = {} /\ pbrRefreshes < MaxRefreshes /\ pbrRefreshes' = pbrRefreshes + 1 /\ pbrRefreshing' = domainSets
    /\ UNCHANGED <<pbrStored, pbrKernel, domainSets, pbrApply, policyOps, policyFaults, pbrHistory>>
RefreshResolves ==
    /\ pbrRefreshing # {} /\ ResolveDomains(pbrRefreshing) /\ pbrRefreshing' = {}
    /\ UNCHANGED <<pbrStored, pbrChain, ipRules, wgUp, domainSets, pbrApply, policyOps, pbrRefreshes, chainLag, ruleless, rulesCrossed>>
RefreshDomainSets == RefreshTakesSets \/ RefreshResolves
\* The elements live domainElementTimeout, and a kernel before 6.12 does not give
\* one that is there more time when it is added again.
SetExpires(n) ==
    /\ n \in DOMAIN nftSets /\ nftSets[n] /\ nftSets' = [nftSets EXCEPT ![n] = FALSE] /\ unfilled' = unfilled \cup {n}
    /\ UNCHANGED <<pbrStored, pbrChain, ipRules, wgUp, domainSets, pbrApply, pbrRefreshing, policyCounts, chainLag, ruleless, rulesCrossed>>
\* The web process restarts, with the policies of the file; the kernel keeps its
\* state, and the start applies the policies.
PolicyRestart(r) ==
    /\ PolicyOp(r)
    /\ pbrPolicies' = policyFile
    /\ pbrApply' = [q \in PBRRequests |-> [NoPBRApply EXCEPT !.pc = IF q = r THEN "snapshot" ELSE "idle"]]
    /\ domainSets' = {} /\ pbrRefreshing' = {}
    /\ ruleless' = ruleless \cup {t \in UNION {TunnelsIn(pbrApply[q].todo) : q \in {q \in PBRRequests : pbrApply[q].pc # "chain"}} : RulesOf(t) = {}}
    /\ UNCHANGED <<policyFile, pbrKernel, policyFaults, chainLag, rulesCrossed, unfilled>>

PolicyNext ==
    \/ \E r \in PBRRequests :
        \/ \E n \in PolicyNames : HandleDeletePolicy(r, n) \/ \E t \in PBRTunnels : HandleAddPolicy(r, n, t)
        \/ \E names \in PageOrders : HandleReorder(r, names)
        \/ \E t \in VPNClients : ConnectClient(r, t) \/ DisconnectClient(r, t)
        \/ FirewallReload(r) \/ PolicyRestart(r)
        \/ ApplyPolicies(r) \/ ApplyCancelled(r) \/ ConnectRule(r) \/ DisconnectDown(r)
    \/ RefreshDomainSets \/ \E n \in WithDomains : SetExpires(n)

PolicySpec == PolicyInit /\ [][PolicyNext]_pbrVars

-----------------------------------------------------------------------------
PolicyTypeOK ==
    /\ {pbrPolicies, policyFile, pbrChain} \subseteq Seq(PolicyRecords)
    /\ ipRules \subseteq [tunnel : VPNClients, priority : Nat] /\ wgUp \cup ruleless \subseteq VPNClients
    /\ DOMAIN nftSets \cup domainSets \cup pbrRefreshing \cup unfilled \subseteq WithDomains
    /\ \A n \in DOMAIN nftSets : nftSets[n] \in BOOLEAN

\* Once every request has returned, however they overlapped, the chain is the stored list in priority order,
\* without the disabled policies and those of unknown tunnels, unless an edit could not be saved or loaded, or a
\* list was loaded after a later one; the next Apply mends that.
ChainInForce ==
    PBRApplying = {} /\ ~chainLag => pbrChain \in {GenerateFullNftChain(sorted) : sorted \in SortedPolicies}

\* In the same states a tunnel the chain marks packets for has a rule, whichever Applies overlapped: each one adds
\* back what it took. Only a disconnect, a failed command or a restart between the two takes the rule away.
MarksHaveRules == PBRApplying = {} => \A t \in TunnelsIn(pbrChain) \ ruleless : RulesOf(t) # {}

\* Rules do not pile up: a tunnel has one, and one more while it is connected, as long as no two requests replaced
\* its rules at the same time.
RulesBounded == PBRApplying = {} /\ ~rulesCrossed => \A t \in VPNClients : Cardinality(RulesOf(t)) <= IF t \in wgUp THEN 2 ELSE 1

\* Whatever overlaps, a set the chain matches on is registered for the refresh once every request has returned:
\* "without it every element added by Apply expires". It holds elements unless they expired or a lookup failed.
SetsRefreshed ==
    PBRApplying = {} /\ ~chainLag =>
        \A n \in PolicyNamesIn(pbrChain) \cap WithDomains : n \in domainSets /\ (n \in unfilled \/ nftSets[n])

\* What Apply, the WireGuard page and the refresh promise together, whichever of them run at once.
PoliciesHold == ChainInForce /\ MarksHaveRules /\ RulesBounded /\ SetsRefreshed
=============================================================================
