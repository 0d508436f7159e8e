------------------------------ MODULE MCFaults ------------------------------
(* The two changes the router makes on trial, an update and a firewall        *)
(* ruleset, under every fault their code handles.  They share no state, so    *)
(* one behaviour runs one of them (part) while the other rests in its initial *)
(* state: the states of the run are the sum of theirs, not the product.       *)
EXTENDS UpdateGuard, FiniteSets

CONSTANTS c1, a1, a2, Nil

VARIABLES
    part,
    cfg, saved, kernel, chains, boot, record, marker, proc, crashes, change, snap,
    applied, timer, callbacks, age, crit, hook, good, owner, confirmed, reverted

firewallVars ==
    <<cfg, saved, kernel, chains, boot, record, marker, proc, crashes, change, snap,
      applied, timer, callbacks, age, crit, hook, good, owner, confirmed, reverted>>

Firewall == INSTANCE FirewallWatchdog
    WITH Configs <- {c1}, Changes <- {a1, a2}, Window <- 1, MaxCrashes <- 1,
         Faults <- {"gap", "nft", "disk", "hook"}

-----------------------------------------------------------------------------
FaultsInit ==
    /\ part \in {"update", "firewall"}
    /\ Init /\ Firewall!Init /\ (part = "firewall" \/ kernel = boot)

FaultsNext ==
    /\ part' = part
    /\ \/ part = "update" /\ UNCHANGED firewallVars /\ Next
       \/ part = "firewall" /\ UNCHANGED vars /\ Firewall!Next

FaultsSpec == FaultsInit /\ [][FaultsNext]_<<part, vars, firewallVars>>

\* Two states with the same running part differ in its variables only.
Running ==
    CASE part = "update" -> <<part, vars>>
      [] part = "firewall" -> <<part, firewallVars>>

\* Every variable of the part that runs stays within its type.
FaultsTypesOK == IF part = "update" THEN TypeOK ELSE Firewall!TypeOK

\* The firewall's change under these faults (a crash between two effects of an
\* operation, failing nft loads, writes and hooks, lost answers of the agent): its
\* inductive invariant holds, its window never grows (restorePendingChange) and a
\* settled ruleset is not undone (watchdogRevert).
FaultsHold ==
    /\ [](part = "firewall" => Firewall!IInv /\ Firewall!WindowNeverExtended)
    /\ Firewall!SettledStays

=============================================================================
