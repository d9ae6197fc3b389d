------------------------ MODULE MCSubscriptionAuction ------------------------
(* Three wallets of up to two identities compete for a small tranche; and      *)
(* apportion alone, on every short list of requests.                           *)
EXTENDS SubscriptionAuction

CONSTANTS MaxRequest, MaxCapacity, MaxLen  \* bounds on the lists of requests

ASSUME ApportionmentBounds == MaxRequest \in Nat /\ MaxCapacity \in Nat /\ MaxLen \in Nat

\* One wallet cannot pay for everything it may request.
SomeFunds == [w \in Wallets |-> IF w = 1 THEN 6 ELSE 8]

\* The admin admits every wallet and matures the bond; a wallet commits twice.
SomeNonces == [a \in Wallets \cup {Admin} |-> IF a = Admin THEN 4 ELSE 2]

RequestLists == UNION {[1..n -> 0..MaxRequest] : n \in 0..MaxLen}

\* An allocation of capacity to requests neither loses nor invents anything, gives
\* nobody more than requested or a whole unit off the exact share, and never gives a
\* larger request less than a smaller one.
Fair(requests, capacity, result) ==
  LET demand == SumOf(requests)
  IN  /\ SumOf(result) = (IF demand <= capacity THEN demand ELSE capacity)
      /\ \A i \in 1..Len(requests) :
           /\ result[i] \in 0..requests[i]
           /\ demand > capacity =>
                result[i] * demand - requests[i] * capacity \in (1 - demand)..(demand - 1)
      /\ \A i, j \in 1..Len(requests) : requests[i] > requests[j] => result[i] >= result[j]

\* apportion is exact and fair on every short list of requests, at every capacity.
\* The auction's state plays no part, so the initial state is enough to check it.
ApportionmentFair ==
  Init => \A requests \in RequestLists, capacity \in 0..MaxCapacity :
            Fair(requests, capacity, apportion(requests, capacity))

\* apportion is the largest-remainder allocation the document defines, ties included.
ApportionmentIsHamilton ==
  Init => \A requests \in RequestLists, capacity \in 0..MaxCapacity :
            \A i \in 1..Len(requests) :
              apportion(requests, capacity)[i] = HamiltonShare(requests, capacity, i)
=============================================================================
