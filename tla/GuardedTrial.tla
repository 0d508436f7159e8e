---------------------------- MODULE GuardedTrial ----------------------------
(* What the two watchdogs of the system promise, seen from outside: one       *)
(* choice (a ruleset, a binary) is on trial at a time, and a trial ends by    *)
(* being kept or by going back to the choice that was in force before it.     *)

CONSTANT Choices

VARIABLES live, settled

vars == <<live, settled>>

Init == live \in Choices /\ settled = live

\* A trial starts only from a settled choice.
Try ==
    /\ live = settled
    /\ live' \in Choices
    /\ UNCHANGED settled

Keep == settled' = live /\ UNCHANGED live

Revert == live' = settled /\ UNCHANGED settled

Next == Try \/ Keep \/ Revert

Spec == Init /\ [][Next]_vars

=============================================================================
