------------------------------- MODULE MCLive -------------------------------
(* What must eventually happen on the way to the kernel and the disk: small   *)
(* instances of the agent's call path and of the two changes made on trial, a *)
(* firewall ruleset and an update.  They share no state, so one behaviour     *)
(* runs one of them (part) while the others rest in their initial state: the  *)
(* states of the run are the sum of theirs, not the product.                  *)
EXTENDS UpdateGuard, FiniteSets

CONSTANTS r1, r2, c1, a1, a2, Nil, Busy

VARIABLES
    part,
    pc, live, mu, conn, canceller, used, got, open, expired, request, reply,
    handler, command, others, up, agentCrashes, started, completed,
    cfg, saved, kernel, chains, boot, record, marker, proc, crashes, change, snap,
    applied, timer, callbacks, age, crit, hook, good, owner, confirmed, reverted

Agent == INSTANCE AgentRPC
    WITH Calls <- {r1, r2}, MaxConns <- 1, MaxCrashes <- 1, crashes <- agentCrashes

Firewall == INSTANCE FirewallWatchdog
    WITH Configs <- {c1}, Changes <- {a1, a2}, Window <- 1, MaxCrashes <- 1, Faults <- {}

agentVars ==
    <<pc, live, mu, conn, canceller, used, got, open, expired, request, reply,
      handler, command, others, up, agentCrashes, started, completed>>
firewallVars ==
    <<cfg, saved, kernel, chains, boot, record, marker, proc, crashes, change, snap,
      applied, timer, callbacks, age, crit, hook, good, owner, confirmed, reverted>>

-----------------------------------------------------------------------------
LiveInit ==
    /\ part \in {"update", "agent", "firewall"}
    /\ Init /\ Agent!Init /\ Firewall!Init /\ (part = "firewall" \/ kernel = boot)

LiveNext ==
    /\ part' = part
    /\ \/ part = "update" /\ UNCHANGED <<agentVars, firewallVars>> /\ Next
       \/ part = "agent" /\ UNCHANGED <<vars, firewallVars>> /\ Agent!Next
       \/ part = "firewall" /\ UNCHANGED <<vars, agentVars>> /\ Firewall!Next

\* The fairness of the modules.  The initial states of the update and the agent
\* enable nothing that is fair; the clock of the firewall's is always enabled, so
\* its conjuncts ask for the part.
LiveFair ==
    /\ Fairness /\ Agent!Fairness
    /\ WF_firewallVars(part = "firewall" /\ Firewall!Settle)
    /\ WF_firewallVars(part = "firewall" /\ Firewall!Tick)
    /\ \A ac \in {a1, a2} :
          /\ WF_firewallVars(part = "firewall" /\ Firewall!Fire(ac))
          /\ WF_firewallVars(/\ part = "firewall"
                             /\ Firewall!WatchdogRevert(ac) \/ Firewall!WatchdogStale(ac))
    /\ WF_firewallVars(/\ part = "firewall"
                       /\ \/ Firewall!ConfirmBoot("background")
                          \/ Firewall!ConfirmNothing("background"))
    /\ WF_firewallVars(part = "firewall" /\ Firewall!Start)
    /\ WF_firewallVars(part = "firewall" /\ Firewall!LoadSavedState)

LiveSpec ==
    /\ LiveInit /\ [][LiveNext]_<<part, vars, agentVars, firewallVars>>
    /\ LiveFair

-----------------------------------------------------------------------------
\* What is on trial does not stay so: a ruleset and a release are confirmed or
\* put back, also when the process dies meanwhile (AtomicChange, update-guard).
TrialsSettle == Firewall!EventuallySettled /\ EventuallySettled

\* A call of the agent returns, and a command whose caller has gone stops
\* (Client.Call, watchPeer).
CallsEnd == Agent!EveryCallReturns /\ Agent!AbandonedStops

=============================================================================
