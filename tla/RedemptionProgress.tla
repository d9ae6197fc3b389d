------------------------- MODULE RedemptionProgress -------------------------
(***************************************************************************)
(* When queued redemptions are paid: BondLedger on a clock that never      *)
(* stops, with the fairness of a network that keeps closing ledgers and a  *)
(* keeper that keeps calling process_redemptions, which anybody may do.    *)
(***************************************************************************)
EXTENDS BondLedger

CONSTANT MaxRequests  \* bound: the queue positions the liveness property speaks of

\* A ledger closes.  Past MaxLedger the clock falls back by one budget cycle and
\* takes the stored cycle number along; the contract only ever compares that
\* number with the current one, so nothing it does can tell.
CloseLedger ==
  \/ Tick
  \/ /\ ledger >= MaxLedger
     /\ status = "Matured"
     /\ ledger' = ledger + 1 - budget.ledgers
     /\ usage' = [usage EXCEPT !.cycle = IF @ = CurrentCycle THEN @ - 1 ELSE -1]
     /\ UNCHANGED <<nonce, status, blocked, pool, budget, positionVars, requests, head, reserved>>

\* A call of the keeper, which always asks for at least one request.
Keeper == \E limit \in Limits \ {0} : ProcessRedemptions(limit)

ProgressNext == Next \/ CloseLedger

FairSpec == Init /\ [][ProgressNext]_vars /\ WF_vars(Keeper) /\ WF_vars(CloseLedger)

\* The first id requests of the queue, when the pool can pay all of them.
Covered(id) ==
  /\ id <= tail
  /\ pool >= FaceValue * Total([i \in 1..id |-> requests[i].remaining])

\* A request the pool covers, with all those before it, is eventually paid in full
\* whatever is queued, redeemed or funded meanwhile: partial payouts, exhausted
\* cycles and later requests delay it but cannot starve it.
CoveredRequestPaid ==
  \A id \in 1..MaxRequests :
    Covered(id) ~> (id <= tail /\ requests[id].remaining = 0)

\* A queue that is accepting requests has a budget that pays for a position.
BudgetCoversPosition == tail > 0 => budget.principal >= FaceValue
=============================================================================
