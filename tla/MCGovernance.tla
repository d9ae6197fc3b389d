---------------------------- MODULE MCGovernance ----------------------------
(* Instances of Governance: a council of two, one weighted voter, one target     *)
(* and a method that any track may carry.                                       *)
EXTENDS Governance, TLC

CONSTANTS s1, s2, w, registry

\* A track that weight alone can carry.
SomeConfigs == {[timelock |-> 0, threshold |-> 2, min_approval_weight |-> 2]}

\* Calls per account: enough to queue two proposals, and to execute both.
CouncilNonces == (s1 :> 3) @@ (s2 :> 2) @@ (w :> 2)
=============================================================================
