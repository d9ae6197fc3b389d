--------------------------- MODULE Apportionment ---------------------------
(***************************************************************************)
(* Hamilton apportionment of a tranche among requests, as settlement does  *)
(* it (contracts/bond-issuer/src/subscription_auction.rs apportion): every *)
(* request gets the floor of its share, then the units left over go one by *)
(* one to the largest remainder, the first of equal ones.                  *)
(*                                                                         *)
(* Operators introduced by "Mutant" are plausible wrong versions of the    *)
(* definition after them.                                                  *)
(***************************************************************************)
EXTENDS Integers, Sequences, FiniteSets

CONSTANTS
  MaxSupply,   \* MAX_SUPPLY
  MaxWallets   \* MAX_AUCTION_WALLETS

\* The sum of a sequence of numbers.
SumOf(s) ==
  LET upto[i \in 0..Len(s)] == IF i = 0 THEN 0 ELSE upto[i - 1] + s[i]
  IN  upto[Len(s)]

\* Mutant: the last of equal remainders wins.
BestLast(remainders) ==
  CHOOSE b \in 1..Len(remainders) :
    /\ \A j \in 1..Len(remainders) : remainders[j] <= remainders[b]
    /\ \A j \in (b + 1)..Len(remainders) : remainders[j] < remainders[b]

\* The index the scan for the largest remainder ends at.
Best(remainders) ==
  CHOOSE b \in 1..Len(remainders) :
    /\ \A j \in 1..Len(remainders) : remainders[j] <= remainders[b]
    /\ \A j \in 1..(b - 1) : remainders[j] < remainders[b]

\* Mutant: a remainder may win more than one unit.
AwardRepeatedly(s) ==
  [s EXCEPT !.allocations = [@ EXCEPT ![Best(s.remainders)] = @ + 1]]

\* One unit to the best remainder, which is then out of the running.
Award(s) ==
  LET best == Best(s.remainders)
  IN  [allocations |-> [s.allocations EXCEPT ![best] = @ + 1],
       remainders |-> [s.remainders EXCEPT ![best] = -1]]

\* The input checks of apportion, which returns InvalidAuction when one fails.
CanApportion(requests, capacity) ==
  /\ capacity >= 0
  /\ Len(requests) <= MaxWallets
  /\ \A i \in 1..Len(requests) : requests[i] \in 0..MaxSupply

\* apportion past its checks.
apportion(requests, capacity) ==
  LET total == SumOf(requests)
      floors == [i \in 1..Len(requests) |-> (requests[i] * capacity) \div total]
      start == [allocations |-> floors,
                remainders |-> [i \in 1..Len(requests) |-> (requests[i] * capacity) % total]]
      seats == capacity - SumOf(floors)
      after[k \in 0..seats] == IF k = 0 THEN start ELSE Award(after[k - 1])
  IN  IF total <= capacity THEN requests ELSE after[seats].allocations

-----------------------------------------------------------------------------
(* The allocation docs/primary-subscription-auction.md defines, in closed form *)

\* Requests ranked before request i for a unit left over.
RankedBefore(requests, capacity, i) ==
  LET r(j) == (requests[j] * capacity) % SumOf(requests)
  IN  {j \in 1..Len(requests) : r(j) > r(i) \/ (r(j) = r(i) /\ j < i)}

HamiltonShare(requests, capacity, i) ==
  LET total == SumOf(requests)
      floor(j) == (requests[j] * capacity) \div total
      seats == capacity - SumOf([j \in 1..Len(requests) |-> floor(j)])
  IN  IF total <= capacity THEN requests[i]
      ELSE floor(i) + (IF Cardinality(RankedBefore(requests, capacity, i)) < seats THEN 1 ELSE 0)
=============================================================================
