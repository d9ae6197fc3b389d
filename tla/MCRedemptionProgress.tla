------------------------ MODULE MCRedemptionProgress ------------------------
(* Small instances of RedemptionProgress for TLC. *)
EXTENDS RedemptionProgress

CONSTANTS a, b, admin

TwoHolders == {a, b}
SomeBudgets == {<<2, 1>>}

\* Signed calls per account: subscribe and queue twice, or queue and redeem.
ProgressNonces == [x \in TwoHolders \cup {admin} |-> IF x = a THEN 3 ELSE 2]
=============================================================================
