----------------------------- MODULE MCAgentRPC -----------------------------
(* Small instances of AgentRPC.                                               *)
EXTENDS AgentRPC, TLC

CONSTANTS r1, r2, r3

MCTwoCalls == {r1, r2}
MCThreeCalls == {r1, r2, r3}

\* Calls are told apart only by identity.
Symmetry == Permutations(MCThreeCalls)

=============================================================================
