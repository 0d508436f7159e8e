------------------------- MODULE MCFirewallWatchdog -------------------------
(* Small instances of FirewallWatchdog.                                       *)
EXTENDS FirewallWatchdog, TLC

CONSTANTS c1, c2, a1, a2

MCConfigs == {c1, c2}
MCChanges == {a1, a2}

\* The changes are pointers, told apart only by identity.
Symmetry == Permutations(MCChanges) \cup Permutations(MCConfigs)

=============================================================================
