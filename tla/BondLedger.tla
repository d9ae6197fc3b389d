----------------------------- MODULE BondLedger -----------------------------
(***************************************************************************)
(* The ledger of one bond of the bond-issuer contract, from issuance to    *)
(* the last redemption: subscription, transfer, maturity, the balance      *)
(* checkpoints coupons are computed from, and the FIFO redemption queue    *)
(* with its principal budget per cycle                                     *)
(* (contracts/bond-issuer/src/lib.rs and redemption_queue.rs).             *)
(*                                                                         *)
(* A contract call is atomic and a call that returns an error writes       *)
(* nothing, so every action below is a whole successful call and its       *)
(* guards are the call's error returns.  A call that succeeds without      *)
(* writing (the replay of a queued request) is a stuttering step.          *)
(*                                                                         *)
(* Operators introduced by "Mutant" are plausible wrong versions of the    *)
(* definition after them; the specification does not use them.             *)
(***************************************************************************)
EXTENDS Integers, Sequences, FiniteSets, Units, BalanceHistory

CONSTANTS
  Holders,          \* wallets that may hold the bond
  Admin,            \* the issuer's admin address
  FaceValue,        \* BondConfig.face_value
  TotalSupply,      \* BondConfig.total_supply
  MaturityDate,     \* BondConfig.maturity_date, on the ledger clock
  DefaultPrincipal, \* DEFAULT_REDEMPTION_BUDGET
  DefaultCycle,     \* DEFAULT_REDEMPTION_CYCLE
  Budgets,          \* budgets <<principal, ledgers>> the admin may configure
  Amounts,          \* amounts callers may pass, good or bad
  Keys,             \* request keys callers may pass; key n is sha256(n)
  Limits,           \* limits process_redemptions may be called with
  MaxBatch,         \* MAX_REDEMPTION_BATCH
  MaxLedger,        \* bound: the last ledger the model reaches
  NonceBound,       \* bound: signed calls per account
  MaxPool           \* bound: principal in the redemption pool

ASSUME HoldersFinite == IsFiniteSet(Holders)
ASSUME ConfigIssued == /\ FaceValue \in Nat \ {0}
                       /\ TotalSupply \in Nat \ {0}
                       /\ MaturityDate \in Nat \ {0}
ASSUME DefaultBudgetType == DefaultPrincipal \in Nat /\ DefaultCycle \in Nat \ {0}
ASSUME InputTypes == /\ Amounts \subseteq Int
                     /\ Keys \subseteq Nat
                     /\ Limits \subseteq Nat
                     /\ Budgets \subseteq Int \X Nat
ASSUME BoundTypes == MaxBatch \in Nat /\ MaxLedger \in Nat /\ MaxPool \in Nat

Accounts == Holders \cup {Admin}

VARIABLES
  ledger,           \* ledger sequence number, also the ledger timestamp
  nonce,            \* Nonce(address)
  status,           \* BondState.status
  total_subscribed, \* BondState.total_subscribed
  balance,          \* HolderBalance(bond, holder)
  version,          \* BalanceVersion(bond)
  holder_cp,        \* HolderCheckpoint(bond, holder, 0..count-1)
  supply_cp,        \* SupplyCheckpoint(bond, 0..count-1)
  blocked,          \* holders with TransferBlocked set
  pool,             \* RedemptionPool(bond)
  budget,           \* RedemptionBudget(bond)
  usage,            \* RedemptionCycle(bond)
  requests,         \* RedemptionRequest(bond, 1..tail); tail is its length
  head,             \* RedemptionHead(bond), 0 before the first request
  reserved          \* RedemptionReserved(bond, holder)

positionVars == <<total_subscribed, balance, version, holder_cp, supply_cp>>
queueVars == <<usage, requests, head, reserved>>
vars == <<ledger, nonce, status, blocked, pool, budget, positionVars, queueVars>>

-----------------------------------------------------------------------------
(* Balance checkpoints *)

holder_balance_at_version(h, v) == ValueAt(holder_cp[h], v, balance[h])
total_subscribed_at_version(v) == ValueAt(supply_cp, v, total_subscribed)

-----------------------------------------------------------------------------
(* Calls before maturity *)

\* issue_bond: the bond as it stands when its issuing call returns.  It has no auction,
\* so subscribe is open (issue_auction: SubscriptionAuction).
Init ==
  /\ ledger = 0
  /\ nonce = [a \in Accounts |-> 0]
  /\ status = "Active"
  /\ total_subscribed = 0
  /\ balance = [h \in Holders |-> 0]
  /\ version = 0
  /\ holder_cp = [h \in Holders |-> <<>>]
  /\ supply_cp = <<[version |-> 0, value |-> 0]>>
  /\ blocked = {}
  /\ pool = 0
  /\ budget = [principal |-> DefaultPrincipal, ledgers |-> DefaultCycle]
  /\ usage = [cycle |-> -1, paid |-> 0]
  /\ requests = <<>>
  /\ head = 0
  /\ reserved = [h \in Holders |-> 0]

\* consume_nonce: the call carries the account's expected nonce.
consume_nonce(a) ==
  /\ nonce[a] < NonceBound[a]
  /\ nonce' = [nonce EXCEPT ![a] = @ + 1]

Trading == status = "Active" /\ ledger < MaturityDate

\* Mutant: checks the supply before adding the amount.
CanSubscribeOldTotal(amount) == amount > 0 /\ Trading /\ total_subscribed <= TotalSupply

\* Mutant: checks neither the status nor the date.
CanSubscribeAnytime(amount) == amount > 0 /\ total_subscribed + amount <= TotalSupply

CanSubscribe(amount) ==
  /\ amount > 0
  /\ Trading
  /\ total_subscribed + amount <= TotalSupply

Subscribe(h, amount) ==
  /\ consume_nonce(h)
  /\ CanSubscribe(amount)
  /\ balance' = [balance EXCEPT ![h] = @ + amount]
  /\ total_subscribed' = total_subscribed + amount
  /\ version' = version + 1
  /\ holder_cp' = [holder_cp EXCEPT ![h] =
                     AppendCheckpoint(@, version', balance[h], balance'[h])]
  /\ supply_cp' = AppendCheckpoint(supply_cp, version', total_subscribed, total_subscribed')
  /\ UNCHANGED <<ledger, status, blocked, pool, budget, queueVars>>

\* Mutant: does not check the sender's balance.
TransferOverdraft(from, to, amount) ==
  to # from /\ amount > 0 /\ Trading /\ {from, to} \cap blocked = {}

\* Mutant: goes by the status alone, which mature_bond sets later.
TransferUntilMatured(from, to, amount) ==
  /\ to # from
  /\ amount > 0
  /\ status = "Active"
  /\ balance[from] >= amount
  /\ {from, to} \cap blocked = {}

validate_transfer(from, to, amount) ==
  /\ to # from
  /\ amount > 0
  /\ Trading
  /\ balance[from] >= amount
  /\ {from, to} \cap blocked = {}

Transfer(from, to, amount) ==
  /\ consume_nonce(from)
  /\ validate_transfer(from, to, amount)
  /\ balance' = [balance EXCEPT ![from] = @ - amount, ![to] = @ + amount]
  /\ version' = version + 1
  /\ holder_cp' = [h \in Holders |->
                     IF h \in {from, to}
                     THEN AppendCheckpoint(holder_cp[h], version', balance[h], balance'[h])
                     ELSE holder_cp[h]]
  /\ UNCHANGED <<ledger, status, blocked, pool, budget, total_subscribed, supply_cp, queueVars>>

SetTransferBlocked(h, isBlocked) ==
  /\ consume_nonce(Admin)
  /\ blocked' = IF isBlocked THEN blocked \cup {h} ELSE blocked \ {h}
  /\ UNCHANGED <<ledger, status, pool, budget, positionVars, queueVars>>

\* Mutant: replaces the pool instead of adding to it.
FundReplaces(amount) ==
  /\ consume_nonce(Admin)
  /\ amount > 0 /\ amount <= MaxPool
  /\ pool' = amount
  /\ UNCHANGED <<ledger, status, blocked, budget, positionVars, queueVars>>

FundRedemption(amount) ==
  /\ consume_nonce(Admin)
  /\ amount > 0
  /\ pool + amount <= MaxPool
  /\ pool' = pool + amount
  /\ UNCHANGED <<ledger, status, blocked, budget, positionVars, queueVars>>

MatureBond ==
  /\ consume_nonce(Admin)
  /\ status = "Active"
  /\ ledger >= MaturityDate
  /\ status' = "Matured"
  /\ UNCHANGED <<ledger, blocked, pool, budget, positionVars, queueVars>>

-----------------------------------------------------------------------------
(* The redemption queue *)

tail == Len(requests)

\* Mutant: the budget is never frozen.
ConfigureAnytime(principal, ledgers) ==
  /\ principal >= FaceValue
  /\ ledgers > 0
  /\ consume_nonce(Admin)
  /\ budget' = [principal |-> principal, ledgers |-> ledgers]
  /\ UNCHANGED <<ledger, status, blocked, pool, positionVars, queueVars>>

\* The budget can be set until the first request freezes it.
ConfigureRedemptionBudget(principal, ledgers) ==
  /\ principal >= FaceValue
  /\ ledgers > 0
  /\ tail = 0
  /\ consume_nonce(Admin)
  /\ budget' = [principal |-> principal, ledgers |-> ledgers]
  /\ UNCHANGED <<ledger, status, blocked, pool, positionVars, queueVars>>

\* redemption_queue::cycle: what the current cycle has paid so far.
CurrentCycle == ledger \div budget.ledgers

\* Mutant: a new cycle does not reset the meter.
PaidEver == usage.paid

PaidThisCycle == IF usage.cycle = CurrentCycle THEN usage.paid ELSE 0

\* Mutant: forgets the keys of requests already paid.
ReplayedPending(h, key) ==
  \E i \in 1..tail : i >= head /\ requests[i].holder = h /\ requests[i].key = key

\* The replay guard RedemptionId(bond, holder, request_key).
Replayed(h, key) == \E i \in 1..tail : requests[i].holder = h /\ requests[i].key = key

\* Mutant: lets a holder queue the same positions twice.
CanEnqueueReserved(h, amount, key) ==
  ~Replayed(h, key) /\ status = "Matured" /\ amount > 0 /\ amount <= balance[h]

\* Mutant: does not wait for mature_bond.
CanEnqueueEarly(h, amount, key) ==
  ~Replayed(h, key) /\ amount > 0 /\ amount <= balance[h] - reserved[h]

\* redemption_queue::enqueue past its replay guard, up to the nonce.
CanEnqueue(h, amount, key) ==
  /\ ~Replayed(h, key)
  /\ status = "Matured"
  /\ amount > 0
  /\ amount <= balance[h] - reserved[h]

Enqueued(h, amount, key) ==
  Append(requests, [holder |-> h, key |-> key, amount |-> amount, remaining |-> amount])

\* Mutant: every new request becomes the head.
NewestHead == tail + 1

EnqueuedHead == IF head = 0 THEN 1 ELSE head
EnqueuedReserved(h, amount) == [reserved EXCEPT ![h] = @ + amount]

RequestRedemption(h, amount, key) ==
  /\ CanEnqueue(h, amount, key)
  /\ consume_nonce(h)
  /\ requests' = Enqueued(h, amount, key)
  /\ head' = EnqueuedHead
  /\ reserved' = EnqueuedReserved(h, amount)
  /\ UNCHANGED <<ledger, status, blocked, pool, budget, usage, positionVars>>

-----------------------------------------------------------------------------
(* process: the loop over the head of the queue, one record per iteration.  *)
(* flow is "run" while the loop goes on, "stop" after a break, "error" when *)
(* settle_redemption returns an error, which aborts the whole call.         *)

LoopStart(reqs, hd, rsv) ==
  [balance |-> balance, total |-> total_subscribed, version |-> version,
   holder_cp |-> holder_cp, supply_cp |-> supply_cp, pool |-> pool,
   paid |-> PaidThisCycle, requests |-> reqs, head |-> hd, reserved |-> rsv,
   completed |-> 0, flow |-> "run"]

\* Request i with its unpaid remainder rewritten.
WithRemaining(reqs, i, left) == [reqs EXCEPT ![i] = [@ EXCEPT !.remaining = left]]

\* settle_redemption after its checks: burn, pay, checkpoint; then the
\* loop's own bookkeeping for the request at the head.
Settle(s, amount) ==
  LET h == s.requests[s.head].holder
      burnt == s.balance[h] - amount
      left == s.requests[s.head].remaining - amount
      done == left = 0
  IN [balance |-> [s.balance EXCEPT ![h] = burnt],
      total |-> s.total - amount,
      version |-> s.version + 1,
      holder_cp |-> [s.holder_cp EXCEPT ![h] =
                       AppendCheckpoint(@, s.version + 1, s.balance[h], burnt)],
      supply_cp |-> AppendCheckpoint(s.supply_cp, s.version + 1, s.total, s.total - amount),
      pool |-> s.pool - amount * FaceValue,
      paid |-> s.paid + amount * FaceValue,
      requests |-> WithRemaining(s.requests, s.head, left),
      head |-> IF done THEN s.head + 1 ELSE s.head,
      reserved |-> [s.reserved EXCEPT ![h] = @ - amount],
      completed |-> IF done THEN s.completed + 1 ELSE s.completed,
      flow |-> IF done THEN "run" ELSE "stop"]

\* Mutants: only the budget, or only the pool, limits the payout.
AffordableUnfunded(s) == (budget.principal - s.paid) \div FaceValue
AffordableUnmetered(s) == s.pool \div FaceValue

\* Whole positions the pool and the rest of the cycle's budget still pay for.
Affordable(s) ==
  LET allowance == budget.principal - s.paid
  IN  (IF s.pool < allowance THEN s.pool ELSE allowance) \div FaceValue

Iterate(s) ==
  IF s.flow # "run" THEN s
  ELSE IF s.head = 0 \/ s.head > Len(s.requests) THEN [s EXCEPT !.flow = "stop"]
  ELSE LET request == s.requests[s.head]
           affordable == Affordable(s)
           amount == IF request.remaining < affordable THEN request.remaining ELSE affordable
       IN  IF amount <= 0 THEN [s EXCEPT !.flow = "stop"]
           ELSE IF \/ status # "Matured"
                   \/ s.balance[request.holder] < amount
                   \/ s.pool < amount * FaceValue
                THEN [s EXCEPT !.flow = "error"]
                ELSE Settle(s, amount)

\* The state after the given number of iterations.
Loop(start, iterations) ==
  LET after[i \in 0..iterations] == IF i = 0 THEN start ELSE Iterate(after[i - 1])
  IN  after[iterations]

ApplyLoop(s) ==
  /\ s.flow # "error"
  /\ balance' = s.balance
  /\ total_subscribed' = s.total
  /\ version' = s.version
  /\ holder_cp' = s.holder_cp
  /\ supply_cp' = s.supply_cp
  /\ pool' = s.pool
  /\ requests' = s.requests
  /\ head' = s.head
  /\ reserved' = s.reserved
  /\ usage' = [cycle |-> CurrentCycle, paid |-> s.paid]

Iterations(limit) == IF limit < MaxBatch THEN limit ELSE MaxBatch

ProcessRedemptions(limit) ==
  /\ \E s \in {Loop(LoopStart(requests, head, reserved), Iterations(limit))} : ApplyLoop(s)
  /\ UNCHANGED <<ledger, nonce, status, blocked, budget>>

\* The synchronous path: only when no request waits and both the pool and the
\* cycle's budget cover the whole payout; its request key is sha256(nonce).
Redeem(h, amount) ==
  /\ status = "Matured"
  /\ amount > 0
  /\ amount <= balance[h]
  /\ head = 0 \/ head > tail
  /\ pool >= amount * FaceValue
  /\ amount * FaceValue <= budget.principal - PaidThisCycle
  /\ CanEnqueue(h, amount, nonce[h])
  /\ consume_nonce(h)
  /\ \E s \in {Loop(LoopStart(Enqueued(h, amount, nonce[h]), EnqueuedHead,
                          EnqueuedReserved(h, amount)), Iterations(1))} :
       s.completed = 1 /\ ApplyLoop(s)
  /\ UNCHANGED <<ledger, status, blocked, budget>>

\* A ledger closes.
Tick ==
  /\ ledger < MaxLedger
  /\ ledger' = ledger + 1
  /\ UNCHANGED <<nonce, status, blocked, pool, budget, positionVars, queueVars>>

Next ==
  \/ \E h \in Holders, amount \in Amounts : Subscribe(h, amount)
  \/ \E from, to \in Holders, amount \in Amounts : Transfer(from, to, amount)
  \/ \E h \in Holders, isBlocked \in BOOLEAN : SetTransferBlocked(h, isBlocked)
  \/ \E amount \in Amounts : FundRedemption(amount)
  \/ MatureBond
  \/ \E b \in Budgets : ConfigureRedemptionBudget(b[1], b[2])
  \/ \E h \in Holders, amount \in Amounts, key \in Keys : RequestRedemption(h, amount, key)
  \/ \E limit \in Limits : ProcessRedemptions(limit)
  \/ \E h \in Holders, amount \in Amounts : Redeem(h, amount)
  \/ Tick

Spec == Init /\ [][Next]_vars

-----------------------------------------------------------------------------
(* What must hold *)

Requests == [holder : Holders, key : Nat, amount : Nat \ {0}, remaining : Nat]

\* Every stored value has the shape the contract's storage types give it.  The
\* i128 fields (balances, totals, pool, reservations) are never negative.
TypeOK ==
  /\ ledger \in Nat
  /\ nonce \in [Accounts -> Nat]
  /\ status \in {"Active", "Matured"}
  /\ total_subscribed \in Nat
  /\ balance \in [Holders -> Nat]
  /\ version \in Nat
  /\ holder_cp \in [Holders -> Checkpoints]
  /\ supply_cp \in Checkpoints
  /\ blocked \subseteq Holders
  /\ pool \in Nat
  /\ budget \in [principal : Nat, ledgers : Nat \ {0}]
  /\ usage \in [cycle : Int, paid : Nat]
  /\ requests \in Seq(Requests)
  /\ head \in Nat
  /\ reserved \in [Holders -> Nat]

\* The positions the holders own add up to BondState.total_subscribed, and never
\* exceed the supply issued, through any mix of subscribe, transfer and redemption.
SupplyConserved ==
  /\ Total(balance) = total_subscribed
  /\ total_subscribed <= TotalSupply

\* The unpaid positions holder h has waiting in a queue of requests.
Waiting(reqs, h) ==
  Total([i \in {j \in 1..Len(reqs) : reqs[j].holder = h} |-> reqs[i].remaining])

\* RedemptionReserved is exactly what the holder still has waiting in the queue,
\* and the holder still owns every reserved position: enqueue cannot promise a
\* position twice and no call takes a reserved position away.
ReservationsBacked ==
  \A h \in Holders : reserved[h] = Waiting(requests, h) /\ reserved[h] <= balance[h]

InOrder(reqs, hd) ==
  /\ hd \in 0..(Len(reqs) + 1)
  /\ (hd = 0) <=> (Len(reqs) = 0)
  /\ \A i \in 1..Len(reqs) : /\ i < hd => reqs[i].remaining = 0
                             /\ i = hd => reqs[i].remaining \in 1..reqs[i].amount
                             /\ i > hd => reqs[i].remaining = reqs[i].amount

\* Requests are paid strictly in the order accepted: all before the head are paid
\* in full, the head is not, and none behind it has received anything.
StrictFIFO == InOrder(requests, head)

KeysDistinct(reqs) ==
  \A i, j \in 1..Len(reqs) :
    reqs[i].holder = reqs[j].holder /\ reqs[i].key = reqs[j].key => i = j

\* A request key names one request of its holder for ever: a retry, even after
\* settlement and even through redeem, is never queued as a second request.
KeysUnique == KeysDistinct(requests)

\* process_redemptions never returns an error, so no request can jam the queue:
\* the checks of settle_redemption always pass for the amount process chose.
QueueNeverJams ==
  \A limit \in Limits :
    Loop(LoopStart(requests, head, reserved), Iterations(limit)).flow # "error"

\* No cycle pays more principal than its budget, and nothing is on the meter while
\* the budget may still be reconfigured.
CycleBudgetKept ==
  /\ usage.paid <= budget.principal
  /\ tail = 0 => usage.paid = 0

\* The inductive invariant: the properties above lean on one another (a payout
\* stays within the balance because it is reserved, and reservations stay backed
\* because transfers end before the first request can be queued).
LedgerInv ==
  /\ TypeOK
  /\ SupplyConserved
  /\ ReservationsBacked
  /\ StrictFIFO
  /\ KeysUnique
  /\ CycleBudgetKept
  /\ tail > 0 => status = "Matured"

\* The balances a snapshot version reads add up to the supply read at that version,
\* and the latest version reads the live balances: the coupon engine divides a
\* pool by one and multiplies by the other.
SnapshotsConsistent ==
  /\ \A v \in 0..version :
       Total([h \in Holders |-> holder_balance_at_version(h, v)]) = total_subscribed_at_version(v)
  /\ \A h \in Holders : holder_balance_at_version(h, version) = balance[h]
  /\ total_subscribed_at_version(version) = total_subscribed

\* What the bond owes a holder, and how far the pool covers what it owes them all.
holder_redemption_liability(h) == balance[h] * FaceValue

\* Mutant: reports a bond without holders as uncovered.
CoverageOfNothing ==
  LET due == total_subscribed * FaceValue
      bps == IF due = 0 THEN 0 ELSE (pool * 10000) \div due
  IN  [due |-> due, shortfall |-> IF due > pool THEN due - pool ELSE 0,
       bps |-> IF bps > 10000 THEN 10000 ELSE bps]

redemption_coverage ==
  LET due == total_subscribed * FaceValue
      bps == IF due = 0 THEN 10000 ELSE (pool * 10000) \div due
  IN  [due |-> due, shortfall |-> IF due > pool THEN due - pool ELSE 0,
       bps |-> IF bps > 10000 THEN 10000 ELSE bps]

\* The coverage report is honest: what it says is due is what the holders' own
\* liabilities add up to, and it says 100% exactly when nothing is missing.
CoverageHonest ==
  /\ redemption_coverage.due = Total([h \in Holders |-> holder_redemption_liability(h)])
  /\ redemption_coverage.bps = 10000 <=> redemption_coverage.shortfall = 0

\* What a snapshot version reads never changes once the version exists, whatever
\* is subscribed, transferred or redeemed later.
SnapshotsImmutable ==
  [][\A v \in 0..version :
       /\ \A h \in Holders : holder_balance_at_version(h, v)' = holder_balance_at_version(h, v)
       /\ total_subscribed_at_version(v)' = total_subscribed_at_version(v)]_vars

PaidOut == IF pool' < pool THEN pool - pool' ELSE 0

\* Principal leaves the pool only against positions burnt at face value, and no
\* position is burnt unpaid.
BurnPaysFace ==
  [][/\ total_subscribed' < total_subscribed => PaidOut = FaceValue * (total_subscribed - total_subscribed')
     /\ PaidOut > 0 => total_subscribed' < total_subscribed]_vars

\* The meter of the current cycle counts every payout and is reset only by ledgers
\* closing: neither an idle process call nor a reconfiguration of the budget, which
\* renumbers the cycles, wipes what the cycle has already paid.
CycleMetered ==
  [][LET sameCycle == ledger' = ledger \/ CurrentCycle' = CurrentCycle
     IN  PaidThisCycle' = (IF sameCycle THEN PaidThisCycle ELSE 0) + PaidOut]_vars

\* A holder's free positions (owned and not queued) shrink only in a call the
\* holder signed: settling the queue, which anybody may do, takes nothing but what
\* was reserved.  After maturity nobody gains a position.
OnlyHolderSpends ==
  [][\A h \in Holders :
       /\ balance'[h] - reserved'[h] < balance[h] - reserved[h] => nonce'[h] > nonce[h]
       /\ status = "Matured" => balance'[h] <= balance[h]]_vars

\* Trading and redemption never overlap, however late mature_bond is called: from the
\* maturity date on nobody gains a position, and until the date has passed and the
\* bond is marked matured nothing is queued, burnt or paid out.
MaturityGapIdle ==
  [][/\ ledger >= MaturityDate => \A h \in Holders : balance'[h] <= balance[h]
     /\ ledger < MaturityDate \/ status = "Active" =>
          /\ requests' = requests /\ reserved' = reserved
          /\ total_subscribed' >= total_subscribed /\ pool' >= pool]_vars
=============================================================================
