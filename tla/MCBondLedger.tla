---------------------------- MODULE MCBondLedger ----------------------------
(* Small instances of BondLedger for TLC. *)
EXTENDS BondLedger, TLC

CONSTANTS a, b, admin

TwoHolders == {a, b}
HolderSymmetry == Permutations(TwoHolders)

\* Below, at and above the face value, with short and long cycles.
SomeBudgets == {<<1, 1>>, <<2, 1>>, <<5, 2>>, <<5, 0>>}

\* Rejected amounts, valid ones, and one above the supply.
SomeAmounts == {-1, 0, 1, 2, 4}

\* Signed calls per account: enough for each holder to subscribe and queue twice,
\* and for the admin to fund, mature and configure.
RedemptionNonces == [x \in TwoHolders \cup {admin} |-> 3]
=============================================================================
