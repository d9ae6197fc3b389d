# Verdant Bond Protocol: TLA+ models and proofs

The protocol issues bonds whose coupons are environmental credits. Its money and
its decisions live in Soroban contracts (`contracts/`, Rust); an API (`api/`,
TypeScript), oracle adapters (`oracle/`), an IPFS uploader (`ipfs/`) and a
frontend (`frontend/`) stand around them. This directory models the parts whose
correctness depends on the order of calls, checks them with TLC on small
instances and proves the central ones with TLAPS for every instance.

Contents: [the system](#the-system) · [modules](#modules-and-the-code) ·
[runs](#runs) · [bounds](#bounds) · [fairness](#fairness) · [proofs](#proofs) ·
[findings](#findings) · [what is not modelled](#what-is-not-modelled) ·
[plan](#plan)

## The system

| Part | State it keeps | Operations that change it | Talks to |
|---|---|---|---|
| **Bond ledger** (`bond-issuer/src/lib.rs`) | per bond: status, holders' balances, total subscribed, a version number and checkpoints of balances and supply, blocked holders, the redemption pool; nonces | issue, subscribe, transfer, block, fund, mature | project registry (at issuance), coupon engine (reads snapshots) |
| **Redemption queue** (`bond-issuer/src/redemption_queue.rs`) | requests in order of arrival, head, reservations, budget per cycle, what the cycle has paid | request, redeem at once, process a batch, configure the budget | bond ledger (burns positions, pays from the pool) |
| **Subscription auction** (`bond-issuer/src/subscription_auction.rs`) | admitted wallets and their identities, the order book, settled or not; escrowed tokens | issue, grant, commit, settle | bond ledger (creates positions), a token contract |
| **Governance** (`governance`) | council, allow list, tracks, voting-power checkpoints, proposals and votes, one execution nonce per target, paused targets | propose, approve, veto, cancel, execute, configure | any contract it administers |
| **Project registry** (`project-registry`) | admin, projects and their status, documents, index by owner, two nonce stores | register, approve, reject, deactivate, resubmit, add documents, change admin | governance, bond ledger |
| **Oracle consumer** (`oracle-consumer`) | providers and stakes, reports, verifications, challenges, a dispute flag and a verification time per project | register, report, verify, challenge, resolve, stake, slash | coupon engine |
| **Coupon engine** (`coupon-engine`) | accruals by holder, period and type, undistributed remainder, waterfall, migration window | distribute in batches, true up, claim, consume, sweep, migrate | bond ledger (snapshots), oracle consumer, retirement |
| **Credit registry, retirement** | serial ranges, certificates | register, retire | coupon engine |
| **DEX router** (`dex-router`) | balances, listings, purchase commitments, circuit breakers | list, cancel, execute, commit, reveal, forfeit | credit registry |
| **API services** (`api/src`) | Redis job queue and locks, dedup candidates and merge journal, hash-chained event ledger, intent receipts, status tables | enqueue, claim, complete, merge, append, advance | contracts, Redis, database |
| Adapters, IPFS, frontend, scripts | none that is shared | | |

What makes the contracts hard to get right is not concurrency inside a call
(a Soroban call is atomic, and an error undoes all its writes) but the order of
calls by parties that do not trust each other: holders, the admin, keepers,
council members, all racing the ledger clock. What must hold:

* positions, principal and escrowed capital are neither lost nor created;
* a promise made by one call (a reservation, a queue position, a snapshot, a
  quorum) is not taken back by a later one;
* replayed calls have no second effect;
* whatever is accepted is eventually paid, settled or executed.

The API services add the classical problems: several instances, crashes between
two writes, locks that expire under a slow worker. `PROJECT.json` lists the
hazards at the lines where they bite, with the property that covers each.

## Modules and the code

One action is one successful call; a call that returns an error changes nothing
and is an action that is not enabled. The order of the checks inside a call
therefore does not matter. Queries, `preview_subscribe` among them, change nothing
and appear only where another call or a property reads them.

| Module | Models |
|---|---|
| `Units` | sums over holders and requests, as the size of a set of units |
| `BalanceHistory` | checkpoint lists: `AppendCheckpoint`, and `PartitionPoint`/`ValueAt` for the binary search that reads them |
| `BondLedger` | one bond: `Subscribe`, `Transfer`, `SetTransferBlocked`, `FundRedemption`, `MatureBond`, `ConfigureRedemptionBudget`, `RequestRedemption`, `ProcessRedemptions`, `Redeem` |
| `RedemptionProgress` | `BondLedger` on an endless clock with a keeper |
| `Apportionment` | `apportion` of the auction, and the allocation the document defines in closed form |
| `SubscriptionAuction` | `GrantSubscription`, `CommitSubscription`, `SettleSubscription`, `MatureBond` with the token flows; `Freeze`, the token contract refusing an account |
| `Governance` | all state-changing calls of the governance contract |
| `ProjectRegistry` | all state-changing calls of the project registry |
| `SignedReviews` | the registry with approvals the admin has signed and that arrive later, or never |
| `GovernedRegistry` | governance and the registry composed: `execute` calls any of the registry's methods with a nonce, and both change or neither does |
| `UnitsProofs`, `BondLedgerProofs` | the theorems |
| `MC…` | instances for TLC |

Correspondence worth knowing:

* `process_redemptions` is a loop over the head of the queue that writes storage
  at every turn. `Loop` computes the record of all its local and stored values
  turn by turn (`Iterate`, `Settle`), and the action writes the final record.
  `flow = "error"` is an error inside the loop, which aborts the whole call.
* `redeem` enqueues and runs one turn of the same loop, and fails unless that
  completes the request.
* `settle_subscription` is split the way the code is: sort (`Canonical`), group
  (`Demands`), divide among identities (`IdentityShares`), divide within each
  (`Allocations`), fill the orders in (`Filled`), pay (`ApplySettlement`).
* `execute` passes the governance address first and the execution nonce last
  to the target and is undone when the target fails: `ExecuteOnRegistry` is the
  conjunction of `Execute` and the registry's own action.
* A vote key holds nothing, true or false; `vote` keeps all three values,
  because the duplicate check cannot tell the first from the last.

Abstractions, all of them deliberate:

* One clock. Timestamps and ledger sequence numbers advance together, so
  `ledger` stands for both.
* `sha256(nonce)`, the request key of `redeem`, is the nonce itself: a collision
  with a key a client chose remains possible in the model.
* Addresses, hashes and identities are model values; the auction, which sorts by
  wallet and identity, uses numbers.
* Integer widths are not modelled. Amounts are bounded by `MAX_SUPPLY` and the
  arithmetic is checked, so an overflow is a call that fails.
* Storage rent: expiry and restoration of entries are left out.
* Events, descriptions and return values are left out unless another call reads
  them.
* Reading a checkpoint list is modelled by where the binary search must stop, not
  by its loop.
* The auction's contract account holds this auction's escrow only.

Every module contains, before the definition it corrupts, the wrong variants
("Mutant") against which each property has been tried: each property listed
below fails when its mutant replaces the definition.

## Runs

Passing:

| Run | Shows |
|---|---|
| `redemption` | Two holders subscribe, trade, queue, redeem and are paid across two cycles, while the admin funds, blocks, configures and matures. Positions add up (`SupplyConserved`); a reservation is what is waiting in the queue and is owned (`ReservationsBacked`); payment is in order of arrival, to partial payouts (`StrictFIFO`); a key names one request for ever (`KeysUnique`); processing never fails on a request (`QueueNeverJams`); no cycle overspends (`CycleBudgetKept`) and none forgets what it paid (`CycleMetered`); positions are burnt for their face value only (`BurnPaysFace`) and only with the holder's consent (`OnlyHolderSpends`); trading has stopped and redemption has not begun between the maturity date and `mature_bond` (`MaturityGapIdle`); the coverage report is honest (`CoverageHonest`). |
| `redemption_progress` | A request the pool covers is eventually paid in full (`CoveredRequestPaid`). What a past version reads adds up to the supply it reads (`SnapshotsConsistent`) and never changes (`SnapshotsImmutable`), which is what the coupon engine relies on. |
| `subscription_auction` | Capital is conserved to the token (`CapitalConserved`), caps hold for identities however a request is split (`IdentityCapKept`), nothing is oversold or withheld (`NeverOversold`), the allocation is a function of the requested totals and not of their arrival (`AllocationByTotals`), the book is sealed on time (`Sealed`), a tranche that matured is refunded (`MaturedTrancheRefunds`), and everybody is settled in the end: the book never becomes one that `apportion` refuses, and settlement waits for nobody but an account it owes (`CommitmentSettled`). The apportionment loop equals the largest-remainder rule and is fair (`ApportionmentIsHamilton`, `ApportionmentFair`). |
| `governance` | The counters of a proposal are its distinct voters and their weights at the snapshot (`ApprovalsCounted`), which later changes of power do not touch (`SnapshotPinned`); nothing is queued without a quorum of signers or, where the track has one, of weight (`QueueNeedsQuorum`); decisions are final (`DecisionFinal`); executions are numbered without gaps (`ExecutionsNumbered`). |
| `project_registry` | `approve_project` names a project by its id only, yet an approval signed for one metadata hash is refused once the project was rejected and resubmitted with another, because the rejection used up its nonce (`ApprovalMeetsReviewedContent`); only the admin of the moment approves and a withdrawn approval never returns (`ApprovalByAdminOnly`), the owner's index is exact (`OwnerIndexExact`). |
| `governed_registry` | With governance as admin, whoever votes and whatever is reconfigured meanwhile, a project is approved, rejected or deactivated only by executing a proposal for just that, which a quorum of distinct signers or of weight had queued and which has served its timelock (`DecisionsBackedByProposals`); the execution nonce is the one the registry expects (`ExecutionNonceAccepted`), and a queued approval takes effect (`QueuedReviewTakesEffect`). |
| `governed_owner` | The same nonce fits when governance itself registers, documents and resubmits a project (`ExecutionNonceAccepted`). |

Violated, on purpose: `default_budget_gap`, `repeated_veto`,
`governed_admin_change`, `governed_pause`; see [findings](#findings).

## Bounds

The models are finite because accounts have a limited number of signed calls
(`NonceBound`, `CallBound`) and the clock stops (`MaxLedger`; the progress run
winds it back instead). Each instance is chosen so that the awkward cases occur:

* `redemption`: two holders, a supply of three, face value two, amounts below,
  at and above what is valid. The pool, the budget (below, at and above face
  value; odd, so that part of it is unusable) and the batch limit each stop a
  payout in some behaviour; a payout may cover part of a request; two keys
  collide with the nonces of `redeem`; the clock crosses a cycle. Holders are
  symmetric: no constant tells them apart.
* `redemption_progress`: the same with a supply of two, three queue positions.
* `subscription_auction`: three wallets of two identities, so that identities
  are shared, split and interleaved in the book; a supply of four against a
  demand of up to eight, one wallet short of funds; settlement before and after
  maturity; one wallet and the treasury may be frozen and released at any moment;
  without the cap, an identity could request more than `apportion` accepts.
  `apportion` alone: every list of up to four requests of up to four
  units, at every capacity up to eight.
* `governance`: a council of two with five calls between them and one weighted
  voter with two, two proposals, both of which may be executed, a track
  that weight alone can carry, two ledgers, so that a proposal and a change of
  power fall in one ledger. One method, which every track accepts; the rules that
  tie methods to tracks are exercised through the allow list and minimum tracks.
* `project_registry`: an admin and an owner who may become the admin, two
  projects, three calls per account in each nonce store, one signed approval on
  its way.
* `governed_registry`: a signer with six calls, enough to queue two proposals (an
  approval and a deactivation, say), a second one who stays away, a weighted
  voter who can carry a proposal alone on a track configured for it, a keeper who
  only executes, one project. Of the policy calls the model has those that
  allow a method, configure a track and set voting power; the others narrow what
  may be proposed or set a flag nothing reads, and are left to `governance`.
* `governed_owner`: a council of one with nine calls, enough to register, reject
  and resubmit a project by three proposals. Votes of several signers add nothing
  to what is executed and are left to the other runs.

Deadlock is not an error in any of them: when the signed calls are spent and the
clock has reached its bound, nothing is left to do.

## Fairness

* Ledgers close (`WF` on `CloseLedger`, `Tick`): the network does not stop.
* A keeper calls `process_redemptions` with a positive limit, somebody calls
  `settle_subscription` or `execute` while it can succeed. All three are open to
  any account, cost only a fee, and are what the documents expect of the parties
  who wait for the result.
* The settlement token may refuse an account for as long as it likes.
  `CommitmentSettled` is conditional: it holds in behaviours in which, from some
  point on, no account that settlement may have to pay is refused.
* Nothing is assumed of holders, the admin, the council or investors: they may
  never act again.

The endless clock of `RedemptionProgress` falls back by one budget cycle when it
passes `MaxLedger` and takes the stored cycle number along. The contract compares
that number with the current cycle for equality only, so it cannot notice.

## Proofs

`BondLedgerProofs` proves, for any holders, supply, face value, maturity,
budgets, amounts, keys, limits and bounds (`ASSUME`s of `BondLedger`: holders
finite; face value, supply, maturity date and default cycle positive; the rest of
the right type):

| Theorem | States |
|---|---|
| `LedgerAlwaysOK` | `Spec => []LedgerInv`, the inductive invariant the others rest on |
| `TypeCorrect`, `SupplyAlwaysConserved`, `ReservationsAlwaysBacked`, `QueueAlwaysFIFO`, `BudgetAlwaysKept` | the invariants of the `redemption` run, from the one above |
| `QueueIsNeverJammed` | `process_redemptions` cannot fail, whatever the limit and the length of the queue |
| `BurnAlwaysPaysFace` | the action property `BurnPaysFace` |

The invariants are not inductive one by one. A payout stays within the holder's
balance because the amount is reserved; the reservation is backed because nothing
can spend a reserved position; nothing can, because transfers end at maturity
and a request needs maturity. `LedgerInv` is their conjunction with that last
fact (`tail > 0 => status = "Matured"`), and with it each action preserves the
whole.

The argument has three layers.

1. *Sums.* Total supply and reservations are sums over sets of unknown size, and
   induction over data is out of the provers' reach. `Units` therefore counts:
   the sum of `f` is the number of pairs `<<x, i>>` with `i \in 1..f[x]`.
   `UnitsProofs` derives what a change of one summand does to the sum (`TotalAdd`,
   `TotalExtend`), and bounds (`TotalBounds`), from the theorems on cardinality.
2. *One turn of the loop.* `LoopOK`, the loop's version of the invariant, is
   preserved by `Iterate` (`IterateOK`), with one lemma each for the queue
   (`SettleQueue`), the reservations (`SettleReserved`, from `WaitingSettle`), the
   supply (`BurnTotal`) and the money (`AffordableCost`, `FaceCost`).
3. *Any number of turns.* `Loop` is a recursive function. `LoopTrace` shows that
   it is the trace its definition describes and `LoopAlwaysOK` that the invariant
   holds along it: a least turn that breaks it (`LeastNat`) cannot exist.

Only model-checked, and why: liveness (`CoveredRequestPaid`, `CommitmentSettled`,
`QueuedReviewTakesEffect`) is outside what TLAPS does; the properties of the
snapshots, of the meter (`CycleMetered`), of consent (`OnlyHolderSpends`), of the
time around maturity (`MaturityGapIdle`), and those of the auction, governance and the
registry are not proved yet.

## Findings

Four runs refute a statement of the repository.

* `default_budget_gap` (`redemption_queue.rs:156`): the first request freezes the
  default budget without comparing it with the face value. The document says the
  budget must cover at least one position.
* `repeated_veto` (`governance/src/lib.rs:694`): a veto is stored as `false`,
  which the duplicate check reads as "has not voted", so a signer's vetoes are
  counted more than once.
* `governed_admin_change` (`project-registry/src/lib.rs:534`): `set_admin` counts
  its nonces in another store than the other calls, while governance keeps one
  execution nonce per target. After any other execution an approved `set_admin`
  is refused.
* `governed_pause` (`governance/src/lib.rs:786`): executing an emergency pause
  calls `pause` on the target, which no contract of the repository has.

## What is not modelled

* Adapters, IPFS, frontend, scripts, controllers, DTOs, reports: input, output
  and presentation without shared state.
* Storage rent and archival, gas and resource limits, authentication of
  signatures.
* Other tokens' behaviour: a transfer succeeds when the payer has the balance and
  neither side is frozen.
* Content behind an approval, beyond what `ApprovalMeetsReviewedContent` says.
  `add_project_documents` replaces a project's documents in any status, an approval
  signed before the admin handed the role over counts again when it returns, and a
  queued `approve_project` of governance is not bound to the metadata the council
  saw. No document of the repository promises more, so no property does.
* The parts planned below.

## Plan

Next, in this order, each with its hazards already listed in `PROJECT.json`:

1. `OracleConsumer`: reports, verification, challenges, stakes, dispute flag and
   staleness. Properties: a project with an open challenge is disputed;
   verification time moves only with new data; stakes are conserved.
2. `CouponEngine`, reading `BalanceHistory` and composed with `OracleConsumer`:
   batches against a fixed snapshot, accruals by period and type against the
   combined balance, the migration window. An abstract specification of "each
   holder gets their share of the period once" and its refinement.
3. `JobQueue` (API): claims, expiring locks, crashes between Redis commands,
   admission bounds; an abstract at-least-once queue it should implement.
4. `DexRouter`: listings, commit and reveal against forfeiture, escrow.
5. `BondRegistry`: issuance with serial ranges against approved projects, and
   the admin handover; composed with `ProjectRegistry`.
6. Other API services: duplicate merging, event ledger, intent receipts.

Proofs to come: `CycleMetered`, `OnlyHolderSpends` and the snapshot properties of
`BondLedger`; a FIFO payout queue as an abstract specification refined by the
ledger; `ApprovalsCounted`, `SnapshotPinned` and `ExecutionsNumbered` of
`Governance`; `CapitalConserved` and `IdentityCapKept` of the auction; the
registry's action properties.
