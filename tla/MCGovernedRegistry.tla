------------------------- MODULE MCGovernedRegistry -------------------------
(* A council of two, a weighted voter, a keeper that executes, and one project *)
(* owner.                                                                      *)
EXTENDS GovernedRegistry, TLC

CONSTANTS s1, s2, w, keeper, owner

\* Every proposal is about project 1, or names the owner as the next admin.
SomeArgs == {[project |-> 1, admin |-> owner, hash |-> "h1", documents |-> <<>>]}

\* A track that the voter's weight carries without a signer.
WeightTrack == {[timelock |-> 1, threshold |-> 2, min_approval_weight |-> 1]}

\* Both signers vote: enough calls to hand the registry over, or to pause it.
CouncilNonces == (s1 :> 4) @@ (s2 :> 3) @@ (w :> 0) @@ (keeper :> 2)

\* One signer has calls enough to queue two proposals, or one that the voter carries.
ReviewNonces == (s1 :> 6) @@ (s2 :> 0) @@ (w :> 1) @@ (keeper :> 2)

\* A council of one registers a project, rejects it and resubmits it.
OwnerNonces == (s1 :> 9) @@ (w :> 0) @@ (keeper :> 3)
=============================================================================
