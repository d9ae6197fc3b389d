------------------------- MODULE SubscriptionAuction -------------------------
(***************************************************************************)
(* The primary auction of one tranche: admission, escrowed commitments and *)
(* one settlement that allocates, refunds and pays the treasury            *)
(* (contracts/bond-issuer/src/subscription_auction.rs).  The tranche was   *)
(* created by issue_auction, so subscribe is closed and nobody holds a     *)
(* position before settlement.                                             *)
(*                                                                         *)
(* Wallets and identities are byte strings of which only the order counts: *)
(* they are numbers here.  Operators introduced by "Mutant" are plausible  *)
(* wrong versions of the definition after them.                            *)
(***************************************************************************)
EXTENDS Integers, Sequences, FiniteSets, Units, BalanceHistory, Apportionment

CONSTANTS
  Admin,         \* the issuer's admin, not one of the wallets
  Treasury,      \* AuctionConfig.treasury, not one of the wallets
  Wallets,       \* wallets that may be admitted
  Identities,    \* nonzero identity commitments
  FaceValue,     \* BondConfig.face_value
  TotalSupply,   \* BondConfig.total_supply
  MaturityDate,  \* BondConfig.maturity_date, on the ledger clock
  OpenLedger,    \* AuctionConfig.open_ledger
  CutoffLedger,  \* AuctionConfig.cutoff_ledger
  IdentityCap,   \* AuctionConfig.identity_cap
  Amounts,       \* amounts investors may pass
  Funds,         \* settlement tokens each wallet starts with
  Freezable,     \* accounts the settlement token may refuse to pay or debit
  NonceBound,    \* bound: signed calls per account
  MaxLedger      \* bound: the last ledger the model reaches

ASSUME AuctionIssued ==
  /\ FaceValue \in Nat \ {0} /\ TotalSupply \in Nat \ {0}
  /\ OpenLedger \in Nat \ {0} /\ CutoffLedger \in Nat /\ CutoffLedger > OpenLedger
  /\ IdentityCap \in 1..MaxSupply
ASSUME AuctionInputs == /\ Wallets \subseteq Nat /\ IsFiniteSet(Wallets) /\ Admin \notin Wallets
                        /\ Treasury \notin Wallets
                        /\ Freezable \subseteq Wallets \cup {Treasury}
                        /\ Identities \subseteq Nat \ {0}
                        /\ Amounts \subseteq Int
                        /\ Funds \in [Wallets -> Nat]
                        /\ NonceBound \in [Wallets \cup {Admin} -> Nat]

VARIABLES
  ledger,     \* ledger sequence number, also the ledger timestamp
  nonce,      \* Nonce(address), counted from the issuance
  status,     \* BondState.status
  identity,   \* SubscriptionIdentity(bond, wallet), 0 when absent; AuctionState.wallets
              \* lists the wallets that have one
  orders,     \* AuctionState.orders
  settled,    \* AuctionState.settled
  balance,    \* HolderBalance(bond, wallet)
  total_subscribed,
  version,    \* BalanceVersion(bond)
  holder_cp, supply_cp,
  purse,      \* settlement tokens of each wallet
  escrow,     \* settlement tokens of the contract
  treasury,   \* settlement tokens of the treasury
  frozen      \* external: accounts whose transfers the token contract refuses

positionVars == <<balance, total_subscribed, version, holder_cp, supply_cp>>
tokenVars == <<purse, escrow, treasury, frozen>>
vars == <<ledger, nonce, status, identity, orders, settled, positionVars, tokenVars>>

\* issue_auction: the ledger is before OpenLedger.
Init ==
  /\ ledger = 0
  /\ nonce = [a \in Wallets \cup {Admin} |-> 0]
  /\ status = "Active"
  /\ identity = [w \in Wallets |-> 0]
  /\ orders = <<>>
  /\ settled = FALSE
  /\ balance = [w \in Wallets |-> 0]
  /\ total_subscribed = 0
  /\ version = 0
  /\ holder_cp = [w \in Wallets |-> <<>>]
  /\ supply_cp = <<[version |-> 0, value |-> 0]>>
  /\ purse = Funds
  /\ escrow = 0
  /\ treasury = 0
  /\ frozen = {}

-----------------------------------------------------------------------------
(* Admission and commitment *)

\* consume_nonce: the call carries the account's expected nonce.
consume_nonce(a) ==
  /\ nonce[a] < NonceBound[a]
  /\ nonce' = [nonce EXCEPT ![a] = @ + 1]

CanGrant(w) ==
  /\ ledger < OpenLedger
  /\ identity[w] = 0
  /\ Cardinality({u \in Wallets : identity[u] # 0}) < MaxWallets

\* grant_subscription, by the admin.
GrantSubscription(w, id) ==
  /\ consume_nonce(Admin)
  /\ CanGrant(w)
  /\ identity' = [identity EXCEPT ![w] = id]
  /\ UNCHANGED <<ledger, status, orders, settled, positionVars, tokenVars>>

\* Units already requested by the wallets of an identity.
IdentityTotal(id) ==
  SumOf([i \in 1..Len(orders) |-> IF orders[i].identity = id THEN orders[i].requested ELSE 0])

\* Mutant: caps each wallet instead of each identity.
WithinWalletCap(w, amount) ==
  amount + SumOf([i \in 1..Len(orders) |-> IF orders[i].wallet = w THEN orders[i].requested ELSE 0])
    <= IdentityCap

WithinCap(w, amount) == amount + IdentityTotal(identity[w]) <= IdentityCap

\* Mutant: every commitment is an order of its own.
CommittedApart(w, amount) ==
  Append(orders, [wallet |-> w, identity |-> identity[w], requested |-> amount,
                  allocated |-> 0, refunded |-> 0])

\* The order book with the wallet's request raised, or its first order appended.
Committed(w, amount) ==
  IF \E i \in 1..Len(orders) : orders[i].wallet = w
  THEN [i \in 1..Len(orders) |->
          IF orders[i].wallet = w THEN [orders[i] EXCEPT !.requested = @ + amount] ELSE orders[i]]
  ELSE Append(orders, [wallet |-> w, identity |-> identity[w], requested |-> amount,
                       allocated |-> 0, refunded |-> 0])

\* Mutant: the ledger of the cutoff is still open.
OpenAtCutoff == ~settled /\ ledger >= OpenLedger /\ ledger <= CutoffLedger

Open == ~settled /\ ledger >= OpenLedger /\ ledger < CutoffLedger

CommitSubscription(w, amount) ==
  /\ consume_nonce(w)
  /\ Open
  /\ ledger < MaturityDate
  /\ status = "Active"
  /\ amount > 0 /\ amount <= MaxSupply
  /\ identity[w] # 0
  /\ WithinCap(w, amount)
  /\ orders' = Committed(w, amount)
  /\ purse[w] >= amount * FaceValue /\ w \notin frozen
  /\ purse' = [purse EXCEPT ![w] = @ - amount * FaceValue]
  /\ escrow' = escrow + amount * FaceValue
  /\ UNCHANGED <<ledger, status, identity, settled, positionVars, treasury, frozen>>

-----------------------------------------------------------------------------
(* Settlement *)

Before(a, b) == a.identity < b.identity \/ (a.identity = b.identity /\ a.wallet < b.wallet)

\* Mutant: keeps the order of arrival.
ByArrival(book) == book

\* The insertion sort by identity and wallet; no two orders share a wallet.
Canonical(book) ==
  [i \in 1..Len(book) |->
     book[CHOOSE k \in 1..Len(book) :
            Cardinality({j \in 1..Len(book) : Before(book[j], book[k])}) = i - 1]]

\* The number of the identity group of order i in the sorted book.
GroupOf(book, i) ==
  Cardinality({j \in 1..i : j = 1 \/ book[j - 1].identity # book[j].identity})

Groups(book) == IF book = <<>> THEN 0 ELSE GroupOf(book, Len(book))

\* The requests of the k-th group.
Requests(book, k) ==
  LET group == {i \in 1..Len(book) : GroupOf(book, i) = k}
      first == CHOOSE i \in group : \A j \in group : i <= j
  IN  [j \in 1..Cardinality(group) |-> book[first + j - 1].requested]

Demands(book) == [k \in 1..Groups(book) |-> SumOf(Requests(book, k))]

\* Mutant: a matured tranche is still sold.
CapacityMatured == TotalSupply - total_subscribed

Capacity ==
  IF status = "Active" /\ ledger < MaturityDate THEN TotalSupply - total_subscribed ELSE 0

\* Mutant: every identity is served from the whole capacity.
IdentitySharesApart(demands) ==
  [k \in 1..Len(demands) |-> apportion(<<demands[k]>>, Capacity)[1]]

IdentityShares(demands) == apportion(demands, Capacity)

\* Mutant: refunds units, not their price.
RefundUnits(requested, allocated) == requested - allocated

Refund(requested, allocated) == (requested - allocated) * FaceValue

\* Each group's share divided among its orders.
Allocations(book, shares) ==
  [k \in 1..Groups(book) |-> apportion(Requests(book, k), shares[k])]

\* The sorted book with allocations and refunds filled in.
Filled(book, allocations) ==
  LET place(i) == Cardinality({j \in 1..i : GroupOf(book, j) = GroupOf(book, i)})
      amount(i) == allocations[GroupOf(book, i)][place(i)]
  IN  [i \in 1..Len(book) |->
         [book[i] EXCEPT !.allocated = amount(i),
                         !.refunded = Refund(book[i].requested, amount(i))]]

\* The order of a wallet, or an order of nothing.
OrderOf(book, w) ==
  IF \E i \in 1..Len(book) : book[i].wallet = w
  THEN book[CHOOSE i \in 1..Len(book) : book[i].wallet = w]
  ELSE [wallet |-> w, identity |-> 0, requested |-> 0, allocated |-> 0, refunded |-> 0]

Sold(book) == SumOf([i \in 1..Len(book) |-> book[i].allocated])

\* The accounts a settlement transfers tokens to: nothing is sent where nothing is due.
Payees(book) ==
  {book[i].wallet : i \in {j \in 1..Len(book) : book[j].refunded > 0}}
    \cup (IF Sold(book) > 0 THEN {Treasury} ELSE {})

\* Records the allocations, issues the positions, refunds and pays out; one refused
\* transfer undoes all of it.
ApplySettlement(book) ==
  LET sold == Sold(book)
  IN  /\ Payees(book) \cap frozen = {}
      /\ orders' = book
      /\ settled' = TRUE
      /\ version' = version + 1
      /\ balance' = [w \in Wallets |-> balance[w] + OrderOf(book, w).allocated]
      /\ holder_cp' = [w \in Wallets |->
                         IF OrderOf(book, w).allocated > 0
                         THEN AppendCheckpoint(holder_cp[w], version', balance[w], balance'[w])
                         ELSE holder_cp[w]]
      /\ total_subscribed' = total_subscribed + sold
      /\ supply_cp' = AppendCheckpoint(supply_cp, version', total_subscribed, total_subscribed')
      /\ purse' = [w \in Wallets |-> purse[w] + OrderOf(book, w).refunded]
      /\ treasury' = treasury + sold * FaceValue
      /\ escrow' = escrow - sold * FaceValue - SumOf([i \in 1..Len(book) |-> book[i].refunded])
      /\ escrow' >= 0
      /\ UNCHANGED frozen

\* Mutant: a matured tranche cannot be settled.
CanSettleActive == ~settled /\ ledger >= CutoffLedger /\ ledger < MaturityDate

CanSettle == ~settled /\ ledger >= CutoffLedger

\* settle_subscription, by anybody: the capacity is divided among identities, then
\* each identity's share among its wallets.
SettleSubscription ==
  /\ CanSettle
  /\ \E sorted \in {Canonical(orders)} :
     \E demands \in {Demands(sorted)} :
       /\ CanApportion(demands, Capacity)
       /\ \E shares \in {IdentityShares(demands)} :
            /\ \A k \in 1..Groups(sorted) : CanApportion(Requests(sorted, k), shares[k])
            /\ \E allocations \in {Allocations(sorted, shares)} :
               \E book \in {Filled(sorted, allocations)} : ApplySettlement(book)
  /\ UNCHANGED <<ledger, nonce, status, identity>>

\* mature_bond.
MatureBond ==
  /\ consume_nonce(Admin)
  /\ status = "Active"
  /\ ledger >= MaturityDate
  /\ status' = "Matured"
  /\ UNCHANGED <<ledger, identity, orders, settled, positionVars, tokenVars>>

\* External: the issuer of the settlement token freezes an account, or lifts it.
Freeze(account) ==
  /\ frozen' = IF account \in frozen THEN frozen \ {account} ELSE frozen \cup {account}
  /\ UNCHANGED <<ledger, nonce, status, identity, orders, settled, positionVars,
                 purse, escrow, treasury>>

\* A ledger closes.
Tick ==
  /\ ledger < MaxLedger
  /\ ledger' = ledger + 1
  /\ UNCHANGED <<nonce, status, identity, orders, settled, positionVars, tokenVars>>

Next ==
  \/ \E w \in Wallets, id \in Identities : GrantSubscription(w, id)
  \/ \E w \in Wallets, amount \in Amounts : CommitSubscription(w, amount)
  \/ SettleSubscription
  \/ MatureBond
  \/ \E account \in Freezable : Freeze(account)
  \/ Tick

Spec == Init /\ [][Next]_vars

\* Ledgers close, and somebody settles: settlement is permissionless and the
\* wallets waiting for their refund have a reason to.
FairSpec == Spec /\ WF_vars(Tick) /\ WF_vars(SettleSubscription)

-----------------------------------------------------------------------------
(* What must hold *)

Order == [wallet : Wallets, identity : Identities, requested : Nat \ {0},
          allocated : Nat, refunded : Nat]

\* Every stored value has its type and no wallet has two orders.
TypeOK ==
  /\ ledger \in Nat /\ nonce \in [Wallets \cup {Admin} -> Nat] /\ status \in {"Active", "Matured"} /\ settled \in BOOLEAN
  /\ identity \in [Wallets -> Identities \cup {0}]
  /\ orders \in Seq(Order)
  /\ \A i, j \in 1..Len(orders) : orders[i].wallet = orders[j].wallet => i = j
  /\ balance \in [Wallets -> Nat] /\ total_subscribed \in Nat /\ version \in Nat
  /\ holder_cp \in [Wallets -> Checkpoints] /\ supply_cp \in Checkpoints
  /\ purse \in [Wallets -> Nat] /\ escrow \in Nat /\ treasury \in Nat
  /\ frozen \subseteq Freezable

\* Every token is accounted for: until settlement the contract holds exactly the
\* committed capital; afterwards it holds nothing of the auction, the treasury has
\* the price of what was sold, and every wallet has what it did not spend.
CapitalConserved ==
  /\ escrow = (IF settled THEN 0
               ELSE FaceValue * SumOf([i \in 1..Len(orders) |-> orders[i].requested]))
  /\ treasury = FaceValue * total_subscribed
  /\ \A w \in Wallets :
       Funds[w] - purse[w] =
         FaceValue * (IF settled THEN balance[w] ELSE OrderOf(orders, w).requested)

\* All wallets of an identity together never request, and so never receive, more
\* than the cap, however they split their commitments.
IdentityCapKept == \A id \in Identities : IdentityTotal(id) <= IdentityCap

\* The tranche is never oversold: positions add up to total_subscribed, within the
\* supply, and settlement leaves supply unsold only if no demand is left.
NeverOversold ==
  /\ Total(balance) = total_subscribed
  /\ total_subscribed <= TotalSupply
  /\ settled /\ total_subscribed > 0 /\ total_subscribed < TotalSupply =>
       \A w \in Wallets : balance[w] = OrderOf(orders, w).requested

\* The same orders whatever their arrival: the wallets of the book in canonical order.
CanonicalWallets(ws) ==
  [i \in 1..Cardinality(ws) |->
     CHOOSE w \in ws :
       Cardinality({u \in ws : identity[u] < identity[w] \/ (identity[u] = identity[w] /\ u < w)}) = i - 1]

\* What the document promises wallet w, from the requested totals alone.
FairAllocation(w, capacity) ==
  LET buyers == {u \in Wallets : OrderOf(orders, u).requested > 0}
      request(u) == OrderOf(orders, u).requested
      peers == CanonicalWallets({u \in buyers : identity[u] = identity[w]})
      ids == {identity[u] : u \in buyers}
      idSeq == [i \in 1..Cardinality(ids) |-> CHOOSE id \in ids : Cardinality({x \in ids : x < id}) = i - 1]
      demands == [i \in 1..Len(idSeq) |-> IdentityTotal(idSeq[i])]
      mine == CHOOSE i \in 1..Len(idSeq) : idSeq[i] = identity[w]
      place == CHOOSE i \in 1..Len(peers) : peers[i] = w
  IN  HamiltonShare([i \in 1..Len(peers) |-> request(peers[i])],
                    HamiltonShare(demands, capacity, mine), place)

\* Arrival order, splitting and repeated commitments give no advantage: a settled
\* tranche is either cancelled for everybody, as maturity demands, or allocated as a
\* function of the requested totals alone.
AllocationByTotals ==
  settled => \/ total_subscribed = 0 /\ ledger >= MaturityDate
             \/ \A i \in 1..Len(orders) :
                  orders[i].allocated = FairAllocation(orders[i].wallet, TotalSupply)

\* Admission is sealed when the auction opens and the requests are sealed at the
\* cutoff; a settled book never changes again.
Sealed ==
  [][/\ ledger >= OpenLedger => identity' = identity
     /\ ledger >= CutoffLedger =>
          \A w \in Wallets : OrderOf(orders', w).requested = OrderOf(orders, w).requested
     /\ settled => orders' = orders /\ settled']_vars

\* A tranche that matures before its settlement is cancelled: nothing is sold, and
\* every wallet has all of its capital back.
MaturedTrancheRefunds ==
  [][settled' /\ ~settled /\ ledger >= MaturityDate =>
       total_subscribed' = 0 /\ purse' = Funds]_vars

\* The accounts settlement may have to pay: those with an order, and the treasury.
Creditors == {orders[i].wallet : i \in 1..Len(orders)} \cup {Treasury}

\* Nobody's capital stays locked: once the token pays every creditor again, every
\* commitment is eventually settled.  No sequence of grants, commitments and maturity
\* leads to a book that apportion refuses, which nothing could repair, and an account
\* the auction owes nothing cannot hold it up.
CommitmentSettled ==
  <>[](Creditors \cap frozen = {}) => ((orders # <<>>) ~> settled)
=============================================================================
