-------------------------- MODULE BondLedgerProofs --------------------------
(***************************************************************************)
(* Proofs about BondLedger, for any holders, supply, face value, budgets   *)
(* and bounds.                                                             *)
(***************************************************************************)
EXTENDS BondLedger, UnitsProofs

-----------------------------------------------------------------------------
(* The loop of redemption_queue::process *)

IsTrace(f, start, n) ==
  f = [i \in 0..n |-> IF i = 0 THEN start ELSE Iterate(f[i - 1])]

\* Every number of iterations has a trace of loop states, so the recursive
\* function Loop is built on is well defined.
LEMMA TraceExists ==
  ASSUME NEW start, NEW n \in Nat
  PROVE  \E f : IsTrace(f, start, n)
<1> DEFINE T == {k \in Nat : ~ \E f : IsTrace(f, start, k)}
<1> SUFFICES ASSUME T # {} PROVE FALSE
  OBVIOUS
<1>1. PICK k \in T : \A j \in T : k <= j
  <2> T \subseteq Nat
    OBVIOUS
  <2> HIDE DEF T
  <2> QED BY LeastNat, Zenon
<1>2. CASE k = 0
  <2> DEFINE f == [i \in 0..0 |-> start]
  <2>1. f = [i \in 0..0 |-> IF i = 0 THEN start ELSE Iterate(f[i - 1])]
    OBVIOUS
  <2>2. IsTrace(f, start, 0)
    BY <2>1 DEF IsTrace
  <2> QED BY <2>2, <1>2
<1>3. CASE k # 0
  <2>1. k \in Nat /\ k - 1 \in Nat /\ k - 1 \notin T
    BY <1>1, <1>3
  <2>2. PICK f : IsTrace(f, start, k - 1)
    BY <2>1
  <2> DEFINE g == [i \in 0..k |-> IF i = k THEN Iterate(f[k - 1]) ELSE f[i]]
  <2>3. \A i \in 0..k : g[i] = IF i = 0 THEN start ELSE Iterate(g[i - 1])
    <3> SUFFICES ASSUME NEW i \in 0..k
                 PROVE  g[i] = IF i = 0 THEN start ELSE Iterate(g[i - 1])
      OBVIOUS
    <3>1. \A j \in 0..(k - 1) : f[j] = IF j = 0 THEN start ELSE Iterate(f[j - 1])
      BY <2>2 DEF IsTrace
    <3>2. CASE i = k
      BY <3>2, <2>1, <1>3
    <3>3. CASE i # k
      <4>1. i \in 0..(k - 1) /\ g[i] = f[i]
        BY <3>3, <2>1
      <4>2. i # 0 => i - 1 \in 0..k /\ i - 1 # k
        BY <2>1
      <4>3. i # 0 => g[i - 1] = f[i - 1]
        BY <4>2
      <4> HIDE DEF g
      <4> QED BY <3>1, <4>1, <4>3
    <3> QED BY <3>2, <3>3
  <2>4. g = [i \in 0..k |-> IF i = 0 THEN start ELSE Iterate(g[i - 1])]
    <3>1. g = [i \in 0..k |-> g[i]]
      OBVIOUS
    <3> HIDE DEF g
    <3> QED BY <2>3, <3>1, Zenon
  <2>5. IsTrace(g, start, k)
    BY <2>4 DEF IsTrace
  <2> QED BY <2>5
<1> QED
  BY <1>2, <1>3

\* Loop is the last state of such a trace.
LEMMA LoopTrace ==
  ASSUME NEW start, NEW n \in Nat
  PROVE  \E f : /\ f[0] = start
                /\ \A i \in 1..n : f[i] = Iterate(f[i - 1])
                /\ Loop(start, n) = f[n]
<1> DEFINE after == CHOOSE f : IsTrace(f, start, n)
<1>1. IsTrace(after, start, n)
  BY TraceExists
<1>2. Loop(start, n) = after[n]
  BY DEF Loop, IsTrace
<1> HIDE DEF after
<1>3. /\ after[0] = start
      /\ \A i \in 1..n : after[i] = Iterate(after[i - 1])
  BY <1>1 DEF IsTrace
<1> QED
  BY <1>2, <1>3
-----------------------------------------------------------------------------
(* What a holder has waiting in the queue *)

\* The requests of holder h, and what each still waits for.
RequestsOf(reqs, h) == {j \in 1..Len(reqs) : reqs[j].holder = h}
Remaining(reqs, h) == [i \in RequestsOf(reqs, h) |-> reqs[i].remaining]

LEMMA RemainingType ==
  ASSUME NEW reqs \in Seq(Requests), NEW h
  PROVE  /\ IsFiniteSet(RequestsOf(reqs, h))
         /\ Remaining(reqs, h) \in [RequestsOf(reqs, h) -> Nat]
         /\ Waiting(reqs, h) = Total(Remaining(reqs, h))
         /\ Waiting(reqs, h) \in Nat
<1>1. IsFiniteSet(RequestsOf(reqs, h))
  <2>1. IsFiniteSet(1..Len(reqs))
    BY FS_Interval
  <2>2. RequestsOf(reqs, h) \in SUBSET (1..Len(reqs))
    BY DEF RequestsOf
  <2> QED BY <2>1, <2>2, FS_Subset
<1>2. Remaining(reqs, h) \in [RequestsOf(reqs, h) -> Nat]
  <2>1. \A i \in RequestsOf(reqs, h) : reqs[i] \in Requests
    BY DEF RequestsOf
  <2>2. \A i \in RequestsOf(reqs, h) : reqs[i].remaining \in Nat
    BY <2>1 DEF Requests
  <2> QED BY <2>2 DEF Remaining
<1>3. Waiting(reqs, h) = Total(Remaining(reqs, h))
  BY DEF Waiting, Remaining, RequestsOf
<1> QED
  BY <1>1, <1>2, <1>3, TotalType

\* A request never waits for more than its holder has waiting in all.
LEMMA WaitingBounds ==
  ASSUME NEW reqs \in Seq(Requests), NEW i \in 1..Len(reqs)
  PROVE  reqs[i].remaining <= Waiting(reqs, reqs[i].holder)
<1> DEFINE h == reqs[i].holder
<1>1. i \in RequestsOf(reqs, h)
  BY DEF RequestsOf
<1>2. Remaining(reqs, h)[i] = reqs[i].remaining
  BY <1>1 DEF Remaining
<1> HIDE DEF h
<1>3. Remaining(reqs, h)[i] <= Total(Remaining(reqs, h))
  BY <1>1, RemainingType, TotalBounds
<1> QED
  BY <1>2, <1>3, RemainingType DEF h

\* Queueing a request adds its amount to what its holder has waiting.
LEMMA WaitingAppend ==
  ASSUME NEW reqs \in Seq(Requests), NEW r \in Requests, NEW h
  PROVE  Waiting(Append(reqs, r), h) =
           Waiting(reqs, h) + (IF r.holder = h THEN r.remaining ELSE 0)
<1> DEFINE more == Append(reqs, r)
           last == Len(reqs) + 1
<1>1. more \in Seq(Requests)
  OBVIOUS
<1>2. /\ Len(more) = last
      /\ more[last] = r
      /\ \A j \in 1..Len(reqs) : more[j] = reqs[j]
  OBVIOUS
<1>3. Len(reqs) \in Nat /\ last \notin 1..Len(reqs) /\ 1..last = (1..Len(reqs)) \cup {last}
  OBVIOUS
<1> HIDE DEF more, last
<1>4. CASE r.holder = h
  <2>1. RequestsOf(more, h) = RequestsOf(reqs, h) \cup {last}
    BY <1>2, <1>3, <1>4 DEF RequestsOf
  <2>2. last \notin RequestsOf(reqs, h)
    BY <1>3 DEF RequestsOf
  <2>3. Remaining(more, h)[last] = r.remaining
    BY <1>2, <2>1 DEF Remaining
  <2>4. \A y \in RequestsOf(reqs, h) : Remaining(more, h)[y] = Remaining(reqs, h)[y]
    BY <1>2, <2>1 DEF Remaining, RequestsOf
  <2>5. Remaining(more, h) \in [RequestsOf(reqs, h) \cup {last} -> Nat]
    BY <1>1, <2>1, RemainingType, Zenon
  <2>6. Total(Remaining(more, h)) = Total(Remaining(reqs, h)) + Remaining(more, h)[last]
    BY <2>2, <2>4, <2>5, RemainingType, TotalExtend, SMTT(20)
  <2>7. Total(Remaining(more, h)) = Total(Remaining(reqs, h)) + r.remaining
    BY <2>3, <2>6
  <2>8. /\ Waiting(more, h) = Total(Remaining(more, h))
        /\ Waiting(reqs, h) = Total(Remaining(reqs, h))
    BY <1>1, RemainingType
  <2> QED
    BY <1>4, <2>7, <2>8 DEF more
<1>5. CASE r.holder # h
  <2>1. RequestsOf(more, h) = RequestsOf(reqs, h)
    BY <1>2, <1>3, <1>5 DEF RequestsOf
  <2>2. Remaining(more, h) = Remaining(reqs, h)
    BY <1>2, <2>1 DEF Remaining, RequestsOf
  <2>3. Waiting(more, h) = Waiting(reqs, h)
    BY <1>1, <2>2, RemainingType
  <2>4. Waiting(reqs, h) \in Nat
    BY RemainingType
  <2> QED
    BY <1>5, <2>3, <2>4 DEF more
<1> QED
  BY <1>4, <1>5

\* Paying paid of request i leaves left.
Splits(reqs, i, left, paid) == left + paid = reqs[i].remaining

\* Paying part of a request takes that part off what its holder has waiting.
LEMMA WaitingSettle ==
  ASSUME NEW reqs \in Seq(Requests), NEW i \in 1..Len(reqs), NEW left \in Nat,
         NEW paid \in Nat, Splits(reqs, i, left, paid), NEW h
  PROVE  LET rest == WithRemaining(reqs, i, left)
         IN  /\ rest \in Seq(Requests)
             /\ Len(rest) = Len(reqs)
             /\ Waiting(reqs, h) = Waiting(rest, h) + (IF reqs[i].holder = h THEN paid ELSE 0)
<1> DEFINE rest == WithRemaining(reqs, i, left)
<1>0. reqs[i] \in Requests /\ [reqs[i] EXCEPT !.remaining = left] \in Requests
  <2>1. reqs[i] \in Requests
    OBVIOUS
  <2> QED BY <2>1, Zenon DEF Requests
<1>1. rest \in Seq(Requests) /\ Len(rest) = Len(reqs)
  BY <1>0 DEF WithRemaining
<1>2. /\ \A j \in 1..Len(reqs) : j # i => rest[j] = reqs[j]
      /\ rest[i].remaining = left
      /\ rest[i].holder = reqs[i].holder
  BY <1>0 DEF Requests, WithRemaining
<1> HIDE DEF rest
<1>3. RequestsOf(rest, h) = RequestsOf(reqs, h)
  BY <1>1, <1>2 DEF RequestsOf
<1>9. /\ Waiting(reqs, h) = Total(Remaining(reqs, h)) /\ Waiting(reqs, h) \in Nat
      /\ Waiting(rest, h) = Total(Remaining(rest, h)) /\ Waiting(rest, h) \in Nat
      /\ IsFiniteSet(RequestsOf(reqs, h))
      /\ Remaining(reqs, h) \in [RequestsOf(reqs, h) -> Nat]
      /\ Remaining(rest, h) \in [RequestsOf(reqs, h) -> Nat]
  BY <1>1, <1>3, RemainingType
<1>4. CASE reqs[i].holder = h
  <2>1. i \in RequestsOf(reqs, h)
    BY <1>4 DEF RequestsOf
  <2>2. /\ Remaining(rest, h)[i] = left
        /\ Remaining(reqs, h)[i] = reqs[i].remaining
    BY <1>2, <1>3, <2>1 DEF Remaining
  <2>3. Remaining(reqs, h)[i] = Remaining(rest, h)[i] + paid
    BY <2>2 DEF Splits
  <2>4. \A y \in RequestsOf(reqs, h) \ {i} : Remaining(reqs, h)[y] = Remaining(rest, h)[y]
    BY <1>2, <1>3 DEF Remaining, RequestsOf
  <2>5. Total(Remaining(reqs, h)) = Total(Remaining(rest, h)) + paid
    <3> DEFINE D == RequestsOf(reqs, h)
               f == Remaining(rest, h)
               g == Remaining(reqs, h)
               x == i
               k == paid
    <3>1. /\ IsFiniteSet(D) /\ f \in [D -> Nat] /\ g \in [D -> Nat] /\ x \in D
          /\ k \in Nat /\ g[x] = f[x] + k
          /\ \A y \in D : y # x => g[y] = f[y]
      BY <1>9, <2>1, <2>3, <2>4
    <3> HIDE DEF D, f, g, x, k
    <3>2. Total(g) = Total(f) + k
      BY <3>1, TotalAdd
    <3> QED BY <3>2 DEF f, g, k
  <2> QED
    BY <1>1, <1>4, <1>9, <2>5 DEF rest
<1>5. CASE reqs[i].holder # h
  <2>1. Remaining(rest, h) = Remaining(reqs, h)
    BY <1>2, <1>3, <1>5 DEF Remaining, RequestsOf
  <2> QED
    BY <1>1, <1>5, <1>9, <2>1 DEF rest
<1> QED
  BY <1>4, <1>5
-----------------------------------------------------------------------------
(* The invariant of the loop *)

LoopStates ==
  [balance : [Holders -> Nat], total : Nat, version : Nat,
   holder_cp : [Holders -> Checkpoints], supply_cp : Checkpoints, pool : Nat,
   paid : Nat, requests : Seq(Requests), head : Nat, reserved : [Holders -> Nat],
   completed : Nat, flow : {"run", "stop"}]

\* The state the loop carries is a consistent ledger and queue.
QueueOK(s) ==
  /\ Total(s.balance) = s.total
  /\ \A h \in Holders : s.reserved[h] = Waiting(s.requests, h) /\ s.reserved[h] <= s.balance[h]
  /\ InOrder(s.requests, s.head)
  /\ KeysDistinct(s.requests)
  /\ Len(s.requests) > 0 => status = "Matured"

\* What the loop has paid since the call began, and out of which budget.
MeterOK(s) ==
  /\ s.total <= total_subscribed
  /\ pool - s.pool = FaceValue * (total_subscribed - s.total)
  /\ s.paid - PaidThisCycle = pool - s.pool
  /\ s.paid <= budget.principal
  /\ Len(s.requests) = 0 => s.paid = 0

LoopOK(s) == s \in LoopStates /\ QueueOK(s) /\ MeterOK(s)

\* The types of the state a call starts from.
StartTypes ==
  /\ total_subscribed \in Nat
  /\ pool \in Nat
  /\ budget \in [principal : Nat, ledgers : Nat \ {0}]
  /\ PaidThisCycle \in Nat

\* A record of fields of the right types is a loop state.
LEMMA LoopRecordType ==
  ASSUME NEW bal \in [Holders -> Nat], NEW tot \in Nat, NEW ver \in Nat,
         NEW hcp \in [Holders -> Checkpoints], NEW scp \in Checkpoints, NEW pl \in Nat,
         NEW pd \in Nat, NEW reqs \in Seq(Requests), NEW hd \in Nat,
         NEW rsv \in [Holders -> Nat], NEW cmp \in Nat, NEW fl \in {"run", "stop"}
  PROVE  [balance |-> bal, total |-> tot, version |-> ver, holder_cp |-> hcp,
          supply_cp |-> scp, pool |-> pl, paid |-> pd, requests |-> reqs, head |-> hd,
          reserved |-> rsv, completed |-> cmp, flow |-> fl] \in LoopStates
  BY DEF LoopStates

\* Appending a checkpoint gives a sequence of checkpoints.
LEMMA AppendCheckpointType ==
  ASSUME NEW cps \in Checkpoints, NEW v \in Nat, NEW previous \in Nat, NEW value \in Nat
  PROVE  AppendCheckpoint(cps, v, previous, value) \in Checkpoints
<1>1. [version |-> 0, value |-> previous] \in Checkpoint /\ [version |-> v, value |-> value] \in Checkpoint
  BY DEF Checkpoint
<1>2. \A old \in Seq(Checkpoint), new \in Checkpoint : Append(old, new) \in Seq(Checkpoint)
  OBVIOUS
<1>3. \A first \in Checkpoint : <<first>> \in Seq(Checkpoint)
  OBVIOUS
<1> QED
  BY <1>1, <1>2, <1>3 DEF AppendCheckpoint, Checkpoints

\* Whole positions within an allowance cost at most the allowance.
LEMMA AffordableCost ==
  ASSUME NEW face \in Nat \ {0}, NEW available \in Nat, NEW amount \in Nat,
         amount <= available \div face
  PROVE  amount * face <= available
<1> DEFINE q == available \div face
<1>1. q \in Nat /\ q * face <= available
  OBVIOUS
<1> HIDE DEF q
<1>2. \A m, n, f \in Nat : m <= n => m * f <= n * f
  OBVIOUS
<1>3. amount * face <= q * face
  BY <1>1, <1>2 DEF q
<1>4. amount * face \in Nat /\ q * face \in Nat
  BY <1>1
<1> QED
  BY <1>1, <1>3, <1>4
\* f with amount taken off its value at h.
Less(f, h, amount) == [f EXCEPT ![h] = f[h] - amount]

\* Burning positions a holder owns takes them off the sum of balances.
LEMMA BurnTotal ==
  ASSUME NEW bal \in [Holders -> Nat], NEW h \in Holders, NEW amount \in Nat, amount <= bal[h]
  PROVE  LET less == Less(bal, h, amount)
         IN  /\ less \in [Holders -> Nat]
             /\ Total(bal) = Total(less) + amount
             /\ Total(less) \in Nat
<1> DEFINE less == Less(bal, h, amount)
<1>1. /\ less \in [Holders -> Nat] /\ bal[h] = less[h] + amount
      /\ \A g \in Holders : g # h => bal[g] = less[g]
  <2>1. bal[h] \in Nat /\ bal[h] - amount \in Nat
    OBVIOUS
  <2> QED BY <2>1 DEF Less
<1> HIDE DEF less
<1>2. Total(bal) = Total(less) + amount
  BY <1>1, HoldersFinite, TotalAdd
<1>3. Total(less) \in Nat
  BY <1>1, HoldersFinite, TotalType
<1> QED
  BY <1>1, <1>2, <1>3 DEF less

\* Paying part or all of the head keeps the queue in order and its keys distinct.
LEMMA SettleQueue ==
  ASSUME NEW reqs \in Seq(Requests), NEW hd \in 1..Len(reqs),
         InOrder(reqs, hd), KeysDistinct(reqs),
         NEW left \in Nat, left < reqs[hd].remaining
  PROVE  LET rest == WithRemaining(reqs, hd, left)
         IN  /\ InOrder(rest, IF left = 0 THEN hd + 1 ELSE hd)
             /\ KeysDistinct(rest)
<1> DEFINE r == reqs[hd]
           rest == WithRemaining(reqs, hd, left)
<1>1. r \in Requests
  OBVIOUS
<1>2. [r EXCEPT !.remaining = left] =
        [holder |-> r.holder, key |-> r.key, amount |-> r.amount, remaining |-> left]
  BY <1>1 DEF Requests
<1>3. /\ DOMAIN rest = 1..Len(reqs) /\ Len(rest) = Len(reqs) /\ Len(reqs) \in Nat
      /\ rest[hd] = [holder |-> r.holder, key |-> r.key, amount |-> r.amount, remaining |-> left]
      /\ \A i \in 1..Len(reqs) : i # hd => rest[i] = reqs[i]
  BY <1>2 DEF WithRemaining
<1>4. /\ rest[hd].holder = reqs[hd].holder /\ rest[hd].key = reqs[hd].key
      /\ rest[hd].amount = reqs[hd].amount /\ rest[hd].remaining = left
  BY <1>3
<1>5. left <= r.amount /\ r.amount \in Nat
  BY <1>1 DEF InOrder, Requests
<1> HIDE DEF rest
<1>6. KeysDistinct(rest)
  BY <1>3, <1>4 DEF KeysDistinct
<1>7. \A i \in 1..Len(reqs) : reqs[i] \in Requests
  OBVIOUS
<1>8. \A i \in 1..Len(reqs) : i > hd => reqs[i].remaining = reqs[i].amount /\ reqs[i].amount \in Nat \ {0}
  BY <1>7, SMTT(40) DEF InOrder, Requests
<1>9. \A i \in 1..Len(reqs) : i < hd => reqs[i].remaining = 0
  BY DEF InOrder
<1>10. CASE left = 0
  <2>1. \A i \in 1..Len(rest) : i < hd + 1 => rest[i].remaining = 0
    BY <1>3, <1>4, <1>9, <1>10
  <2>2. \A i \in 1..Len(rest) : i = hd + 1 => rest[i].remaining \in 1..rest[i].amount
    BY <1>3, <1>8
  <2>3. \A i \in 1..Len(rest) : i > hd + 1 => rest[i].remaining = rest[i].amount
    BY <1>3, <1>8
  <2> QED BY <1>3, <1>6, <1>10, <2>1, <2>2, <2>3 DEF InOrder, rest
<1>11. CASE left # 0
  <2>1. \A i \in 1..Len(rest) : i < hd => rest[i].remaining = 0
    BY <1>3, <1>9
  <2>2. rest[hd].remaining \in 1..rest[hd].amount
    BY <1>4, <1>5, <1>11
  <2>3. \A i \in 1..Len(rest) : i > hd => rest[i].remaining = rest[i].amount
    BY <1>3, <1>8
  <2> QED BY <1>3, <1>6, <1>11, <2>1, <2>2, <2>3 DEF InOrder, rest
<1> QED
  BY <1>10, <1>11

\* Reservations and positions shrink together when a holder's request is paid.
LEMMA SettleReserved ==
  ASSUME NEW reqs \in Seq(Requests), NEW hd \in 1..Len(reqs),
         NEW bal \in [Holders -> Nat], NEW rsv \in [Holders -> Nat],
         \A g \in Holders : rsv[g] = Waiting(reqs, g) /\ rsv[g] <= bal[g],
         NEW left \in Nat, NEW amount \in Nat, Splits(reqs, hd, left, amount)
  PROVE  LET h == reqs[hd].holder
             rest == WithRemaining(reqs, hd, left)
             less == Less(rsv, h, amount)
         IN  /\ h \in Holders /\ amount <= bal[h]
             /\ less \in [Holders -> Nat]
             /\ \A g \in Holders : /\ less[g] = Waiting(rest, g)
                                   /\ less[g] <= Less(bal, h, amount)[g]
<1> DEFINE h == reqs[hd].holder
           rest == WithRemaining(reqs, hd, left)
           less == Less(rsv, h, amount)
<1>1. h \in Holders /\ reqs[hd].remaining \in Nat
  <2>1. reqs[hd] \in Requests
    OBVIOUS
  <2> QED BY <2>1, SMTT(40) DEF Requests
<1>2. /\ rest \in Seq(Requests)
      /\ \A g : Waiting(reqs, g) = Waiting(rest, g) + (IF h = g THEN amount ELSE 0)
  BY WaitingSettle
<1>3. \A g : Waiting(rest, g) \in Nat
  BY <1>2, RemainingType
<1>4. reqs[hd].remaining <= Waiting(reqs, h)
  BY WaitingBounds
<1> HIDE DEF rest, h
<1>5. \A g \in Holders : rsv[g] \in Nat /\ bal[g] \in Nat
  OBVIOUS
<1>6. amount <= rsv[h] /\ amount <= bal[h]
  BY <1>1, <1>2, <1>3, <1>5 DEF Splits
<1>7. less \in [Holders -> Nat]
  BY <1>1, <1>5, <1>6 DEF Less
<1>8. ASSUME NEW g \in Holders
      PROVE  less[g] = Waiting(rest, g) /\ less[g] <= Less(bal, h, amount)[g]
  <2>1. CASE g = h
    <3>1. less[g] = rsv[g] - amount /\ Less(bal, h, amount)[g] = bal[g] - amount
      BY <2>1, <1>1 DEF Less
    <3>2. rsv[g] = Waiting(rest, g) + amount
      BY <1>2, <2>1
    <3> QED BY <3>1, <3>2, <1>3, <1>5
  <2>2. CASE g # h
    <3>1. less[g] = rsv[g] /\ Less(bal, h, amount)[g] = bal[g]
      BY <2>2 DEF Less
    <3>2. rsv[g] = Waiting(rest, g)
      BY <1>2, <1>3, <2>2
    <3> QED BY <3>1, <3>2
  <2> QED BY <2>1, <2>2
<1> QED
  BY <1>1, <1>6, <1>7, <1>8 DEF h, rest
\* Burning and paying keep the principal paid in step with the positions burnt.
LEMMA FaceCost ==
  ASSUME NEW face \in Nat, NEW burnt \in Int, NEW amount \in Nat
  PROVE  face * (burnt + amount) = face * burnt + amount * face
OBVIOUS

\* What process has established when it settles amount for the head.
CanPay(s, amount) ==
  /\ s.head \in 1..Len(s.requests)
  /\ amount <= s.requests[s.head].remaining
  /\ amount * FaceValue <= s.pool
  /\ s.paid + amount * FaceValue <= budget.principal

\* settle_redemption and the bookkeeping around it keep the loop consistent: the
\* holder at the head owns what is burnt, because the positions are reserved.
LEMMA SettleOK ==
  ASSUME StartTypes, NEW s, LoopOK(s), NEW amount \in Nat, amount > 0, CanPay(s, amount)
  PROVE  LoopOK(Settle(s, amount))
<1> DEFINE cost == amount * FaceValue
           bal == s.balance
           rsv == s.reserved
           reqs == s.requests
           hd == s.head
           r == reqs[hd]
           h == r.holder
           left == r.remaining - amount
           rest == WithRemaining(reqs, hd, left)
           bal2 == Less(bal, h, amount)
           rsv2 == Less(rsv, h, amount)
           hcp2 == AppendCheckpoint(s.holder_cp[h], s.version + 1, bal[h], bal[h] - amount)
           scp2 == AppendCheckpoint(s.supply_cp, s.version + 1, s.total, s.total - amount)
           hd2 == IF left = 0 THEN hd + 1 ELSE hd
           done2 == IF left = 0 THEN s.completed + 1 ELSE s.completed
           flow2 == IF left = 0 THEN "run" ELSE "stop"
<1>1. Settle(s, amount) =
        [balance |-> bal2, total |-> s.total - amount, version |-> s.version + 1,
         holder_cp |-> [s.holder_cp EXCEPT ![h] = hcp2], supply_cp |-> scp2,
         pool |-> s.pool - cost, paid |-> s.paid + cost, requests |-> rest,
         head |-> hd2, reserved |-> rsv2, completed |-> done2, flow |-> flow2]
  BY DEF Settle, Less
<1>2. /\ bal \in [Holders -> Nat] /\ rsv \in [Holders -> Nat] /\ reqs \in Seq(Requests)
      /\ hd \in 1..Len(reqs)
      /\ s.holder_cp \in [Holders -> Checkpoints] /\ s.supply_cp \in Checkpoints
  BY DEF LoopOK, LoopStates, CanPay
<1>17. /\ s.total \in Nat /\ s.version \in Nat /\ s.pool \in Nat /\ s.paid \in Nat
      /\ hd \in Nat /\ s.completed \in Nat
  BY DEF LoopOK, LoopStates
<1>3. /\ Total(bal) = s.total
      /\ \A g \in Holders : rsv[g] = Waiting(reqs, g) /\ rsv[g] <= bal[g]
      /\ InOrder(reqs, hd) /\ KeysDistinct(reqs)
      /\ Len(reqs) > 0 => status = "Matured"
  BY DEF LoopOK, QueueOK
<1>4. /\ s.total <= total_subscribed
      /\ pool - s.pool = FaceValue * (total_subscribed - s.total)
      /\ s.paid - PaidThisCycle = pool - s.pool
  BY DEF LoopOK, MeterOK
<1>5. /\ total_subscribed \in Nat /\ pool \in Nat /\ PaidThisCycle \in Nat
      /\ budget.principal \in Nat /\ FaceValue \in Nat
  BY ConfigIssued DEF StartTypes
<1>0. cost \in Nat /\ cost <= s.pool /\ s.paid + cost <= budget.principal
  BY <1>5 DEF CanPay
<1>6. left \in Nat /\ Splits(reqs, hd, left, amount) /\ left < reqs[hd].remaining
  <2>1. r \in Requests
    BY <1>2
  <2>2. r.remaining \in Nat /\ amount <= r.remaining
    BY <2>1 DEF Requests, CanPay
  <2> QED BY <2>2 DEF Splits
<1> HIDE DEF cost, bal, rsv, reqs, hd, r, left
<1>7. /\ h \in Holders /\ amount <= bal[h] /\ rsv2 \in [Holders -> Nat]
      /\ \A g \in Holders : rsv2[g] = Waiting(rest, g) /\ rsv2[g] <= bal2[g]
  <2>2. /\ reqs[hd].holder \in Holders
        /\ amount <= bal[reqs[hd].holder]
        /\ Less(rsv, reqs[hd].holder, amount) \in [Holders -> Nat]
        /\ \A g \in Holders :
             /\ Less(rsv, reqs[hd].holder, amount)[g] = Waiting(rest, g)
             /\ Less(rsv, reqs[hd].holder, amount)[g] <= Less(bal, reqs[hd].holder, amount)[g]
    BY <1>2, <1>3, <1>6, SettleReserved, Zenon
  <2> QED BY <2>2 DEF r
<1>8. /\ bal2 \in [Holders -> Nat] /\ Total(bal2) = s.total - amount /\ s.total - amount \in Nat
      /\ bal[h] \in Nat /\ bal[h] - amount \in Nat
  <2>1. /\ bal2 \in [Holders -> Nat] /\ Total(bal) = Total(bal2) + amount /\ Total(bal2) \in Nat
    <3> HIDE DEF h
    <3> QED BY <1>2, <1>7, BurnTotal, Zenon
  <2>2. bal[h] \in Nat
    BY <1>2, <1>7
  <2>3. Total(bal2) = s.total - amount
    BY <1>17, <1>3, <2>1
  <2> HIDE DEF bal2, h
  <2>4. bal[h] - amount \in Nat
    BY <1>7, <2>2
  <2>5. s.total - amount \in Nat
    BY <2>1, <2>3
  <2> QED BY <2>1, <2>2, <2>3, <2>4, <2>5
<1>9. /\ rest \in Seq(Requests) /\ Len(rest) = Len(reqs) /\ Len(rest) > 0
      /\ InOrder(rest, hd2) /\ KeysDistinct(rest)
  <2>2. rest \in Seq(Requests) /\ Len(rest) = Len(reqs)
    BY <1>2, <1>6, WaitingSettle, Zenon
  <2>3. InOrder(rest, hd2) /\ KeysDistinct(rest)
    BY <1>2, <1>3, <1>6, SettleQueue
  <2> QED BY <1>2, <2>2, <2>3
<1> HIDE DEF bal2, rsv2, rest, h
<1>10. [s.holder_cp EXCEPT ![h] = hcp2] \in [Holders -> Checkpoints] /\ scp2 \in Checkpoints
  <2>1. s.version + 1 \in Nat /\ s.holder_cp[h] \in Checkpoints
    BY <1>2, <1>17, <1>7
  <2>2. hcp2 \in Checkpoints /\ scp2 \in Checkpoints
    BY <1>2, <1>17, <1>8, <2>1, AppendCheckpointType, ZenonT(40)
  <2> HIDE DEF hcp2, scp2
  <2> QED BY <1>2, <2>2, Zenon
<1> HIDE DEF hcp2, scp2
<1>11. hd2 \in Nat /\ done2 \in Nat /\ flow2 \in {"run", "stop"}
  <2>1. hd2 \in Nat
    BY <1>17
  <2>2. done2 \in Nat
    BY <1>17
  <2> QED BY <2>1, <2>2
<1> HIDE DEF hd2, done2, flow2
<1>12. /\ s.version + 1 \in Nat /\ s.pool - cost \in Nat /\ s.paid + cost \in Nat
  BY <1>0, <1>17
<1> DEFINE t == Settle(s, amount)
<1>13. /\ t.balance = bal2 /\ t.total = s.total - amount /\ t.pool = s.pool - cost
       /\ t.paid = s.paid + cost /\ t.requests = rest /\ t.head = hd2 /\ t.reserved = rsv2
  BY <1>1
<1>14. t \in LoopStates
  <2> DEFINE hcp3 == [s.holder_cp EXCEPT ![h] = hcp2]
             tot3 == s.total - amount
             ver3 == s.version + 1
             pl3 == s.pool - cost
             pd3 == s.paid + cost
  <2>1. /\ tot3 \in Nat /\ ver3 \in Nat /\ pl3 \in Nat /\ pd3 \in Nat
        /\ hcp3 \in [Holders -> Checkpoints]
    BY <1>8, <1>10, <1>12
  <2>2. t = [balance |-> bal2, total |-> tot3, version |-> ver3, holder_cp |-> hcp3,
             supply_cp |-> scp2, pool |-> pl3, paid |-> pd3, requests |-> rest,
             head |-> hd2, reserved |-> rsv2, completed |-> done2, flow |-> flow2]
    BY <1>1
  <2> HIDE DEF hcp3, tot3, ver3, pl3, pd3, t
  <2> QED BY <1>7, <1>8, <1>9, <1>10, <1>11, <2>1, <2>2, LoopRecordType, ZenonT(40)
<1> HIDE DEF t
<1>15. QueueOK(t)
  BY <1>3, <1>7, <1>8, <1>9, <1>13 DEF QueueOK
<1>16. MeterOK(t)
  <2> DEFINE before == FaceValue * (total_subscribed - s.total)
  <2>1. total_subscribed - t.total = (total_subscribed - s.total) + amount
    BY <1>17, <1>5, <1>13
  <2>2. FaceValue * ((total_subscribed - s.total) + amount) = before + cost
    <3>1. total_subscribed - s.total \in Int
      BY <1>17, <1>5
    <3> QED BY <1>5, <3>1, FaceCost DEF cost
  <2>3. FaceValue * (total_subscribed - t.total) = before + cost
    BY <2>1, <2>2
  <2>4. before = pool - s.pool
    BY <1>4
  <2> HIDE DEF before
  <2>5. pool - t.pool = before + cost
    BY <1>0, <1>17, <1>5, <1>13, <2>4
  <2>6. t.total <= total_subscribed /\ t.paid <= budget.principal
    BY <1>0, <1>17, <1>4, <1>5, <1>13
  <2>8. t.paid - PaidThisCycle = pool - t.pool
    <3>1. s.paid - PaidThisCycle = pool - s.pool
      BY <1>4
    <3> QED BY <1>0, <1>17, <1>5, <1>13, <3>1
  <2>7. Len(t.requests) # 0
    BY <1>9, <1>13
  <2> QED BY <2>3, <2>5, <2>6, <2>7, <2>8 DEF MeterOK
<1> QED
  BY <1>14, <1>15, <1>16 DEF LoopOK, t
\* A break leaves everything but the loop's own flag as it was.
LEMMA StopOK ==
  ASSUME NEW s, LoopOK(s)
  PROVE  LoopOK([s EXCEPT !.flow = "stop"])
<1> DEFINE t == [s EXCEPT !.flow = "stop"]
<1>1. t \in LoopStates
  BY Zenon DEF LoopOK, LoopStates
<1>2. /\ t.balance = s.balance /\ t.total = s.total /\ t.pool = s.pool /\ t.paid = s.paid
      /\ t.requests = s.requests /\ t.head = s.head /\ t.reserved = s.reserved
  BY DEF LoopOK, LoopStates
<1> HIDE DEF t
<1>3. QueueOK(t)
  BY <1>2 DEF LoopOK, QueueOK
<1>4. MeterOK(t)
  BY <1>2 DEF LoopOK, MeterOK
<1> QED
  BY <1>1, <1>3, <1>4 DEF LoopOK, t

\* What the pool and the budget afford is a number of positions they both cover.
LEMMA AffordableOK ==
  ASSUME StartTypes, NEW s, LoopOK(s), NEW amount \in Nat, amount <= Affordable(s)
  PROVE  /\ Affordable(s) \in Nat
         /\ amount * FaceValue <= s.pool
         /\ s.paid + amount * FaceValue <= budget.principal
<1> DEFINE allowance == budget.principal - s.paid
           available == IF s.pool < allowance THEN s.pool ELSE allowance
           cost == amount * FaceValue
<1>1. s.pool \in Nat /\ s.paid \in Nat /\ s.paid <= budget.principal
  BY DEF LoopOK, LoopStates, MeterOK
<1>2. budget.principal \in Nat /\ FaceValue \in Nat \ {0}
  BY ConfigIssued DEF StartTypes
<1>3. allowance \in Nat
  BY <1>1, <1>2
<1>4. available \in Nat /\ available <= s.pool /\ available <= allowance
  BY <1>1, <1>3
<1>5. Affordable(s) = available \div FaceValue
  BY DEF Affordable
<1> HIDE DEF available
<1>6. cost <= available
  BY <1>2, <1>4, <1>5, AffordableCost
<1>7. cost \in Nat /\ available \div FaceValue \in Nat
  BY <1>2, <1>4
<1> HIDE DEF cost
<1>8. cost <= s.pool /\ s.paid + cost <= budget.principal
  BY <1>1, <1>2, <1>4, <1>6, <1>7
<1> QED
  BY <1>5, <1>7, <1>8 DEF cost

\* One iteration of process keeps the loop consistent and raises no error.
LEMMA IterateOK ==
  ASSUME StartTypes, NEW s, LoopOK(s)
  PROVE  LoopOK(Iterate(s))
<1> DEFINE request == s.requests[s.head]
           affordable == Affordable(s)
           amount == IF request.remaining < affordable THEN request.remaining ELSE affordable
<1>1. CASE s.flow # "run"
  BY <1>1 DEF Iterate
<1>2. CASE s.flow = "run" /\ (s.head = 0 \/ s.head > Len(s.requests))
  BY <1>2, StopOK DEF Iterate
<1>3. CASE s.flow = "run" /\ ~(s.head = 0 \/ s.head > Len(s.requests))
  <2>1. s.requests \in Seq(Requests) /\ s.head \in Nat /\ s.head \in 1..Len(s.requests)
    BY <1>3 DEF LoopOK, LoopStates
  <2>2. request \in Requests
    BY <2>1
  <2>3. request.remaining \in Nat /\ request.holder \in Holders
    BY <2>2 DEF Requests
  <2>4. affordable \in Nat
    <3>2. budget.principal \in Nat /\ s.paid \in Nat /\ s.pool \in Nat /\ s.paid <= budget.principal
      BY DEF LoopOK, LoopStates, MeterOK, StartTypes
    <3>3. (IF s.pool < budget.principal - s.paid THEN s.pool ELSE budget.principal - s.paid) \in Nat
      BY <3>2
    <3> QED BY <3>3, ConfigIssued DEF Affordable
  <2>5. amount \in Nat /\ amount <= request.remaining /\ amount <= affordable
    BY <2>3, <2>4
  <2>6. Iterate(s) = IF amount <= 0 THEN [s EXCEPT !.flow = "stop"]
                     ELSE IF \/ status # "Matured"
                             \/ s.balance[request.holder] < amount
                             \/ s.pool < amount * FaceValue
                          THEN [s EXCEPT !.flow = "error"]
                          ELSE Settle(s, amount)
    BY <1>3 DEF Iterate
  <2> HIDE DEF amount, affordable
  <2>7. CASE amount <= 0
    BY <2>6, <2>7, StopOK
  <2>8. CASE ~(amount <= 0)
    <3>1. /\ amount * FaceValue <= s.pool
          /\ s.paid + amount * FaceValue <= budget.principal
      BY <2>5, AffordableOK DEF affordable
    <3>2. status = "Matured"
      BY <2>1 DEF LoopOK, QueueOK
    <3>3. amount <= s.balance[request.holder] /\ s.balance[request.holder] \in Nat
      <4>1. request.remaining <= Waiting(s.requests, request.holder)
        BY <2>1, WaitingBounds
      <4>2. /\ s.reserved[request.holder] = Waiting(s.requests, request.holder)
            /\ s.reserved[request.holder] <= s.balance[request.holder]
        BY <2>3 DEF LoopOK, QueueOK
      <4>3. s.reserved[request.holder] \in Nat /\ s.balance[request.holder] \in Nat
        <5>1. s.reserved \in [Holders -> Nat] /\ s.balance \in [Holders -> Nat]
          BY DEF LoopOK, LoopStates
        <5> QED BY <2>3, <5>1
      <4> HIDE DEF request
      <4> QED BY <2>3, <2>5, <4>1, <4>2, <4>3
    <3>4. CanPay(s, amount)
      BY <2>1, <2>5, <3>1 DEF CanPay
    <3>5. LoopOK(Settle(s, amount))
      BY <2>5, <2>8, <3>4, SettleOK
    <3>6. s.pool \in Nat /\ amount * FaceValue \in Nat
      BY <2>5, ConfigIssued DEF LoopOK, LoopStates
    <3>7. ~(s.balance[request.holder] < amount) /\ ~(s.pool < amount * FaceValue)
      <4>1. ~(s.balance[request.holder] < amount)
        BY <2>5, <3>3
      <4>2. ~(s.pool < amount * FaceValue)
        BY <3>1, <3>6
      <4> QED BY <4>1, <4>2
    <3>8. Iterate(s) = Settle(s, amount)
      BY <2>6, <2>8, <3>2, <3>7
    <3> QED BY <3>5, <3>8
  <2> QED BY <2>7, <2>8
<1> QED
  BY <1>1, <1>2, <1>3

\* So does the whole loop, however many iterations it runs.
LEMMA LoopAlwaysOK ==
  ASSUME StartTypes, NEW start, LoopOK(start), NEW n \in Nat
  PROVE  LoopOK(Loop(start, n))
<1>1. PICK f : /\ f[0] = start
               /\ \A i \in 1..n : f[i] = Iterate(f[i - 1])
               /\ Loop(start, n) = f[n]
  BY LoopTrace
<1> DEFINE Bad == {i \in 0..n : ~LoopOK(f[i])}
<1>2. Bad = {}
  <2> SUFFICES ASSUME Bad # {} PROVE FALSE
    OBVIOUS
  <2>1. Bad \subseteq Nat
    OBVIOUS
  <2>2. PICK k \in Bad : \A j \in Bad : k <= j
    <3> HIDE DEF Bad
    <3> QED BY <2>1, LeastNat, Zenon
  <2>3. k # 0
    BY <1>1
  <2>4. k - 1 \in 0..n /\ k \in 1..n /\ k - 1 \notin Bad
    BY <2>2, <2>3
  <2>5. LoopOK(f[k - 1])
    BY <2>4
  <2>6. LoopOK(f[k])
    BY <1>1, <2>4, <2>5, IterateOK
  <2> QED BY <2>6
<1>3. n \in 0..n
  OBVIOUS
<1> QED
  BY <1>1, <1>2, <1>3
-----------------------------------------------------------------------------
(* The inductive invariant *)

\* A call starts from a consistent loop state.
LEMMA StartOK ==
  ASSUME LedgerInv
  PROVE  StartTypes /\ LoopOK(LoopStart(requests, head, reserved))
<1> DEFINE s == LoopStart(requests, head, reserved)
<1>1. StartTypes
  BY DEF LedgerInv, TypeOK, StartTypes, PaidThisCycle
<1>2. /\ s.balance = balance /\ s.total = total_subscribed /\ s.pool = pool
      /\ s.paid = PaidThisCycle /\ s.requests = requests /\ s.head = head
      /\ s.reserved = reserved
  BY DEF LoopStart
<1>3. s \in LoopStates
  BY <1>1 DEF LedgerInv, TypeOK, LoopStart, LoopStates, StartTypes
<1> HIDE DEF s
<1>4. QueueOK(s)
  BY <1>2 DEF LedgerInv, QueueOK, SupplyConserved, ReservationsBacked, StrictFIFO, KeysUnique, tail
<1>5. MeterOK(s)
  <2>1. PaidThisCycle <= budget.principal /\ (Len(requests) = 0 => PaidThisCycle = 0)
    BY DEF LedgerInv, TypeOK, CycleBudgetKept, PaidThisCycle, tail
  <2>2. FaceValue * (total_subscribed - total_subscribed) = 0
    BY <1>1, ConfigIssued DEF StartTypes
  <2> QED BY <1>1, <1>2, <2>1, <2>2 DEF MeterOK, StartTypes
<1> QED
  BY <1>1, <1>3, <1>4, <1>5 DEF LoopOK, s

\* Queueing a request leaves a consistent loop state to process.
LEMMA EnqueueOK ==
  ASSUME LedgerInv, NEW h \in Holders, NEW amount \in Int, NEW key \in Nat,
         CanEnqueue(h, amount, key)
  PROVE  LoopOK(LoopStart(Enqueued(h, amount, key), EnqueuedHead, EnqueuedReserved(h, amount)))
<1> DEFINE r == [holder |-> h, key |-> key, amount |-> amount, remaining |-> amount]
           more == Append(requests, r)
           hd == EnqueuedHead
           rsv == EnqueuedReserved(h, amount)
           s == LoopStart(more, hd, rsv)
           s0 == LoopStart(requests, head, reserved)
<1>1. StartTypes /\ LoopOK(s0)
  BY StartOK
<1>2. /\ balance \in [Holders -> Nat] /\ reserved \in [Holders -> Nat]
      /\ requests \in Seq(Requests) /\ head \in Nat
  BY DEF LedgerInv, TypeOK
<1>3. /\ status = "Matured" /\ amount > 0 /\ amount <= balance[h] - reserved[h]
      /\ \A i \in 1..Len(requests) : ~(requests[i].holder = h /\ requests[i].key = key)
  BY DEF CanEnqueue, Replayed, tail
<1>4. /\ \A g \in Holders : reserved[g] = Waiting(requests, g) /\ reserved[g] <= balance[g]
      /\ InOrder(requests, head) /\ KeysDistinct(requests)
      /\ Total(balance) = total_subscribed
  BY DEF LedgerInv, ReservationsBacked, StrictFIFO, KeysUnique, SupplyConserved
<1>5. r \in Requests /\ amount \in Nat
  BY <1>3 DEF Requests
<1>6. /\ more \in Seq(Requests) /\ Len(more) = Len(requests) + 1 /\ Len(requests) \in Nat
      /\ more[Len(more)] = r
      /\ \A i \in 1..Len(requests) : more[i] = requests[i]
  BY <1>2, <1>5
<1>7. /\ r.holder = h /\ r.key = key /\ r.amount = amount /\ r.remaining = amount
  OBVIOUS
<1>8. rsv \in [Holders -> Nat] /\ \A g \in Holders : rsv[g] = Waiting(more, g) /\ rsv[g] <= balance[g]
  <2>1. rsv \in [Holders -> Nat]
    BY <1>2, <1>5 DEF EnqueuedReserved
  <2>2. \A g : Waiting(more, g) = Waiting(requests, g) + (IF h = g THEN amount ELSE 0)
    <3> HIDE DEF r
    <3> QED BY <1>2, <1>5, <1>7, WaitingAppend
  <2>3. ASSUME NEW g \in Holders PROVE rsv[g] = Waiting(more, g) /\ rsv[g] <= balance[g]
    <3>1. reserved[g] \in Nat /\ balance[g] \in Nat
      BY <1>2
    <3>2. CASE g = h
      <4>1. rsv[g] = reserved[g] + amount
        BY <1>2, <3>2 DEF EnqueuedReserved
      <4>2. Waiting(more, g) = reserved[g] + amount
        BY <1>4, <2>2, <3>2
      <4>3. reserved[g] + amount <= balance[g]
        BY <1>3, <1>5, <3>1, <3>2
      <4> QED BY <4>1, <4>2, <4>3
    <3>3. CASE g # h
      <4>1. rsv[g] = reserved[g]
        BY <1>2, <3>3 DEF EnqueuedReserved
      <4>2. Waiting(more, g) = reserved[g]
        BY <1>4, <2>2, <3>1, <3>3
      <4> QED BY <1>4, <4>1, <4>2
    <3> QED BY <3>2, <3>3
  <2> QED BY <2>1, <2>3
<1> HIDE DEF r, more
<1>9. hd \in Nat /\ InOrder(more, hd)
  <2>1. hd \in 1..Len(more) /\ (head = 0 <=> Len(requests) = 0) /\ (head # 0 => hd = head) /\ (head = 0 => hd = 1)
    BY <1>2, <1>4, <1>6 DEF EnqueuedHead, InOrder
  <2>2. more[Len(more)].remaining = amount /\ more[Len(more)].amount = amount
    BY <1>6, <1>7
  <2>3. ASSUME NEW i \in 1..Len(more)
        PROVE  /\ i < hd => more[i].remaining = 0
               /\ i = hd => more[i].remaining \in 1..more[i].amount
               /\ i > hd => more[i].remaining = more[i].amount
    <3>1. CASE i = Len(more)
      BY <1>3, <1>5, <2>1, <2>2, <3>1
    <3>2. CASE i # Len(more)
      <4>1. i \in 1..Len(requests) /\ more[i] = requests[i] /\ hd = head
        BY <1>6, <2>1, <3>2
      <4> QED BY <1>4, <4>1 DEF InOrder
    <3> QED BY <3>1, <3>2
  <2> HIDE DEF hd
  <2> QED BY <1>6, <2>1, <2>3 DEF InOrder
<1>10. KeysDistinct(more)
  BY <1>3, <1>4, <1>6, <1>7 DEF KeysDistinct
<1>11. /\ s.balance = balance /\ s.total = total_subscribed /\ s.pool = pool
       /\ s.paid = PaidThisCycle /\ s.requests = more /\ s.head = hd /\ s.reserved = rsv
  BY DEF LoopStart
<1>12. /\ s0.total = total_subscribed /\ s0.pool = pool /\ s0.paid = PaidThisCycle
  BY DEF LoopStart
<1>13. s \in LoopStates
  <2>1. /\ balance \in [Holders -> Nat] /\ total_subscribed \in Nat /\ version \in Nat
        /\ holder_cp \in [Holders -> Checkpoints] /\ supply_cp \in Checkpoints
    BY DEF LedgerInv, TypeOK
  <2>2. pool \in Nat /\ PaidThisCycle \in Nat
    BY <1>1 DEF StartTypes
  <2>3. 0 \in Nat /\ "run" \in {"run", "stop"}
    OBVIOUS
  <2> HIDE DEF hd, rsv
  <2> QED BY <1>6, <1>8, <1>9, <2>1, <2>2, <2>3, LoopRecordType, ZenonT(40) DEF LoopStart
<1> HIDE DEF s, s0, hd, rsv
<1>14. QueueOK(s)
  BY <1>3, <1>4, <1>8, <1>9, <1>10, <1>11 DEF QueueOK
<1>15. MeterOK(s)
  <2>1. Len(more) # 0
    BY <1>6
  <2> QED BY <1>1, <1>11, <1>12, <2>1 DEF LoopOK, MeterOK
<1> QED
  BY <1>13, <1>14, <1>15 DEF LoopOK, s, more, r, hd, rsv, Enqueued

\* A state written from a consistent loop state satisfies the invariant.
LEMMA WriteOK ==
  ASSUME LedgerInv, NEW s, LoopOK(s),
         balance' = s.balance, total_subscribed' = s.total, version' = s.version,
         holder_cp' = s.holder_cp, supply_cp' = s.supply_cp, pool' = s.pool,
         requests' = s.requests, head' = s.head, reserved' = s.reserved,
         usage' \in [cycle : Int, paid : Nat], usage'.paid <= budget.principal,
         Len(s.requests) = 0 => usage'.paid = 0,
         nonce' \in [Accounts -> Nat], UNCHANGED <<ledger, status, blocked, budget>>
  PROVE  LedgerInv'
<1>1. TypeOK'
  BY SMTT(40) DEF LedgerInv, TypeOK, LoopOK, LoopStates
<1>2. SupplyConserved'
  <2>1. total_subscribed \in Nat /\ s.total \in Nat /\ TotalSupply \in Nat
    BY ConfigIssued DEF LedgerInv, TypeOK, LoopOK, LoopStates
  <2>2. s.total <= total_subscribed /\ total_subscribed <= TotalSupply
    BY DEF LedgerInv, SupplyConserved, LoopOK, MeterOK
  <2>3. s.total <= TotalSupply
    BY <2>1, <2>2
  <2> QED BY <2>3 DEF SupplyConserved, LoopOK, QueueOK
<1>3. ReservationsBacked'
  BY Zenon DEF ReservationsBacked, LoopOK, QueueOK
<1>4. StrictFIFO' /\ KeysUnique'
  BY DEF StrictFIFO, KeysUnique, LoopOK, QueueOK
<1>5. CycleBudgetKept' /\ (tail > 0 => status = "Matured")'
  BY DEF CycleBudgetKept, tail, LoopOK, QueueOK
<1> QED
  BY <1>1, <1>2, <1>3, <1>4, <1>5 DEF LedgerInv
-----------------------------------------------------------------------------
(* One lemma per call *)

\* An empty queue reserves nothing.
LEMMA WaitingEmpty ==
  ASSUME NEW reqs, Len(reqs) = 0, NEW h
  PROVE  Waiting(reqs, h) = 0
<1>1. RequestsOf(reqs, h) = {}
  BY DEF RequestsOf
<1>2. Remaining(reqs, h) \in [RequestsOf(reqs, h) -> {0}]
  BY <1>1 DEF Remaining
<1>3. Total(Remaining(reqs, h)) = 0
  BY <1>2, TotalZero
<1> QED
  BY <1>3 DEF Waiting, Remaining, RequestsOf

\* Consuming a nonce keeps the nonces natural numbers.
LEMMA NonceType ==
  ASSUME nonce \in [Accounts -> Nat], NEW a, consume_nonce(a)
  PROVE  nonce' \in [Accounts -> Nat]
<1>1. CASE a \in Accounts
  BY <1>1 DEF consume_nonce
<1>2. CASE a \notin Accounts
  BY <1>2, Zenon DEF consume_nonce
<1> QED
  BY <1>1, <1>2

\* Initially every sum is empty.
LEMMA InitInv == Init => LedgerInv
<1> SUFFICES ASSUME Init PROVE LedgerInv
  OBVIOUS
<1>1. Len(requests) = 0 /\ requests \in Seq(Requests)
  BY DEF Init
<1>2. TypeOK
  <2>1. <<[version |-> 0, value |-> 0]>> \in Checkpoints
    <3>1. [version |-> 0, value |-> 0] \in Checkpoint
      BY DEF Checkpoint
    <3> QED BY <3>1 DEF Checkpoints
  <2>2. <<>> \in Checkpoints
    BY DEF Checkpoints
  <2> QED BY <1>1, <2>1, <2>2, DefaultBudgetType DEF Init, TypeOK
<1>3. SupplyConserved
  <2>1. balance \in [Holders -> {0}]
    BY DEF Init
  <2>2. Total(balance) = 0
    BY <2>1, TotalZero
  <2> QED BY <2>2, ConfigIssued DEF Init, SupplyConserved
<1>4. ReservationsBacked
  BY <1>1, WaitingEmpty DEF Init, ReservationsBacked
<1>5. StrictFIFO /\ KeysUnique
  BY <1>1 DEF Init, StrictFIFO, InOrder, KeysUnique, KeysDistinct
<1>6. CycleBudgetKept /\ (tail > 0 => status = "Matured")
  BY <1>1, DefaultBudgetType DEF Init, CycleBudgetKept, tail
<1> QED
  BY <1>2, <1>3, <1>4, <1>5, <1>6 DEF LedgerInv

\* subscribe adds the amount to one balance and to the total.
LEMMA SubscribeInv ==
  ASSUME LedgerInv, NEW h \in Holders, NEW amount \in Int, Subscribe(h, amount)
  PROVE  LedgerInv'
<1>1. /\ balance \in [Holders -> Nat] /\ total_subscribed \in Nat /\ version \in Nat
      /\ holder_cp \in [Holders -> Checkpoints] /\ supply_cp \in Checkpoints
      /\ amount \in Nat
  BY DEF LedgerInv, TypeOK, Subscribe, CanSubscribe
<1>2. /\ balance' = [balance EXCEPT ![h] = balance[h] + amount]
      /\ total_subscribed' = total_subscribed + amount /\ version' = version + 1
      /\ total_subscribed + amount <= TotalSupply
      /\ holder_cp' = [holder_cp EXCEPT ![h] =
                         AppendCheckpoint(holder_cp[h], version', balance[h], balance'[h])]
      /\ supply_cp' = AppendCheckpoint(supply_cp, version', total_subscribed, total_subscribed')
      /\ UNCHANGED <<ledger, status, blocked, pool, budget, usage, requests, head, reserved>>
  BY DEF Subscribe, CanSubscribe, queueVars
<1>3. /\ balance' \in [Holders -> Nat] /\ balance'[h] = balance[h] + amount
      /\ \A g \in Holders : g # h => balance'[g] = balance[g]
      /\ \A g \in Holders : balance[g] \in Nat /\ balance'[g] \in Nat /\ balance[g] <= balance'[g]
  BY <1>1, <1>2
<1>4. TypeOK'
  <2>1. nonce' \in [Accounts -> Nat]
    BY NonceType DEF Subscribe, LedgerInv, TypeOK
  <2>2. /\ holder_cp[h] \in Checkpoints /\ version' \in Nat /\ total_subscribed' \in Nat
        /\ balance[h] \in Nat /\ balance'[h] \in Nat
    BY <1>1, <1>2, <1>3
  <2>3. /\ AppendCheckpoint(holder_cp[h], version', balance[h], balance'[h]) \in Checkpoints
        /\ supply_cp' \in Checkpoints
    BY <1>1, <1>2, <2>2, AppendCheckpointType
  <2>4. holder_cp' \in [Holders -> Checkpoints]
    BY <1>1, <1>2, <2>3
  <2> QED BY <1>2, <1>3, <2>1, <2>2, <2>3, <2>4, Zenon DEF LedgerInv, TypeOK
<1>5. SupplyConserved'
  <2>1. Total(balance') = Total(balance) + amount
    BY <1>1, <1>3, HoldersFinite, TotalAdd
  <2> QED BY <1>2, <2>1 DEF LedgerInv, SupplyConserved
<1>6. ReservationsBacked'
  <2> SUFFICES ASSUME NEW g \in Holders
               PROVE  reserved[g] = Waiting(requests, g) /\ reserved[g] <= balance'[g]
    BY <1>2 DEF ReservationsBacked
  <2>1. reserved[g] = Waiting(requests, g) /\ reserved[g] <= balance[g] /\ reserved[g] \in Nat
    BY DEF LedgerInv, TypeOK, ReservationsBacked
  <2>2. balance[g] \in Nat /\ balance'[g] \in Nat /\ balance[g] <= balance'[g]
    BY <1>3
  <2> QED BY <2>1, <2>2
<1>7. StrictFIFO' /\ KeysUnique' /\ CycleBudgetKept' /\ (tail > 0 => status = "Matured")'
  BY <1>2 DEF LedgerInv, StrictFIFO, KeysUnique, CycleBudgetKept, tail
<1> QED
  BY <1>4, <1>5, <1>6, <1>7 DEF LedgerInv

\* transfer moves positions between two holders; no position is reserved yet,
\* because requests are queued only after maturity has ended transfers.
LEMMA TransferInv ==
  ASSUME LedgerInv, NEW from \in Holders, NEW to \in Holders, NEW amount \in Int,
         Transfer(from, to, amount)
  PROVE  LedgerInv'
<1>1. /\ balance \in [Holders -> Nat] /\ version \in Nat
      /\ holder_cp \in [Holders -> Checkpoints]
      /\ amount \in Nat /\ amount <= balance[from] /\ from # to /\ status = "Active"
      /\ balance[from] \in Nat /\ balance[to] \in Nat
  BY DEF LedgerInv, TypeOK, Transfer, validate_transfer, Trading
<1>2. /\ balance' = [balance EXCEPT ![from] = @ - amount, ![to] = @ + amount]
      /\ version' = version + 1
      /\ holder_cp' = [h \in Holders |->
                         IF h \in {from, to}
                         THEN AppendCheckpoint(holder_cp[h], version', balance[h], balance'[h])
                         ELSE holder_cp[h]]
      /\ UNCHANGED <<ledger, status, blocked, pool, budget, total_subscribed, supply_cp,
                     usage, requests, head, reserved>>
  BY DEF Transfer, queueVars
<1> DEFINE mid == Less(balance, from, amount)
<1>3. /\ mid \in [Holders -> Nat] /\ Total(balance) = Total(mid) + amount /\ Total(mid) \in Nat
  BY <1>1, BurnTotal
<1>4. /\ balance' \in [Holders -> Nat] /\ balance'[to] = mid[to] + amount
      /\ \A g \in Holders : g # to => balance'[g] = mid[g]
  BY <1>1, <1>2 DEF Less
<1> HIDE DEF mid
<1>5. SupplyConserved'
  <2>1. Total(balance') = Total(mid) + amount
    BY <1>1, <1>3, <1>4, HoldersFinite, TotalAdd
  <2> QED BY <1>2, <1>3, <2>1 DEF LedgerInv, SupplyConserved
<1>6. ReservationsBacked'
  <2>1. Len(requests) = 0
    BY <1>1 DEF LedgerInv, TypeOK, tail
  <2>2. \A g \in Holders : reserved[g] = 0 /\ Waiting(requests, g) = 0
    BY <2>1, WaitingEmpty DEF LedgerInv, ReservationsBacked
  <2> QED BY <1>2, <1>4, <2>2 DEF ReservationsBacked
<1>7. TypeOK'
  <2>1. nonce' \in [Accounts -> Nat]
    BY NonceType, SMTT(20) DEF Transfer, LedgerInv, TypeOK
  <2>2. version' \in Nat
    BY <1>1, <1>2
  <2>3. ASSUME NEW h \in Holders
        PROVE  AppendCheckpoint(holder_cp[h], version', balance[h], balance'[h]) \in Checkpoints
    <3>1. holder_cp[h] \in Checkpoints /\ balance[h] \in Nat /\ balance'[h] \in Nat
      BY <1>1, <1>4
    <3> QED BY <2>2, <3>1, AppendCheckpointType
  <2>4. holder_cp' \in [Holders -> Checkpoints]
    BY <1>1, <1>2, <2>3
  <2> QED BY <1>2, <1>4, <2>1, <2>2, <2>4, Zenon DEF LedgerInv, TypeOK
<1>8. StrictFIFO' /\ KeysUnique' /\ CycleBudgetKept' /\ (tail > 0 => status = "Matured")'
  BY <1>2 DEF LedgerInv, StrictFIFO, KeysUnique, CycleBudgetKept, tail
<1> QED
  BY <1>5, <1>6, <1>7, <1>8 DEF LedgerInv

\* The calls and ticks that leave positions and the queue alone.
LEMMA OtherInv ==
  ASSUME LedgerInv,
         \/ \E h \in Holders, isBlocked \in BOOLEAN : SetTransferBlocked(h, isBlocked)
         \/ \E amount \in Amounts : FundRedemption(amount)
         \/ MatureBond
         \/ \E b \in Budgets : ConfigureRedemptionBudget(b[1], b[2])
         \/ Tick
  PROVE  LedgerInv'
<1>1. /\ UNCHANGED <<total_subscribed, balance, version, holder_cp, supply_cp,
                     usage, requests, head, reserved>>
  BY DEF SetTransferBlocked, FundRedemption, MatureBond, ConfigureRedemptionBudget, Tick,
         positionVars, queueVars
<1>2. SupplyConserved' /\ ReservationsBacked' /\ StrictFIFO' /\ KeysUnique'
  BY <1>1, Zenon DEF LedgerInv, SupplyConserved, ReservationsBacked, StrictFIFO, KeysUnique
<1>3. nonce' \in [Accounts -> Nat]
  <2>1. nonce \in [Accounts -> Nat]
    BY DEF LedgerInv, TypeOK
  <2>2. consume_nonce(Admin) \/ UNCHANGED nonce
    BY DEF SetTransferBlocked, FundRedemption, MatureBond, ConfigureRedemptionBudget, Tick
  <2> QED BY <2>1, <2>2, NonceType
<1>4. CASE \E h \in Holders, isBlocked \in BOOLEAN : SetTransferBlocked(h, isBlocked)
  <2>1. blocked' \subseteq Holders /\ UNCHANGED <<ledger, status, pool, budget>>
    BY <1>4 DEF SetTransferBlocked, LedgerInv, TypeOK
  <2> QED BY <1>1, <1>2, <1>3, <2>1 DEF LedgerInv, TypeOK, CycleBudgetKept, tail
<1>5. CASE \E amount \in Amounts : FundRedemption(amount)
  <2>1. pool' \in Nat /\ UNCHANGED <<ledger, status, blocked, budget>>
    BY <1>5, InputTypes DEF FundRedemption, LedgerInv, TypeOK
  <2> QED BY <1>1, <1>2, <1>3, <2>1 DEF LedgerInv, TypeOK, CycleBudgetKept, tail
<1>6. CASE MatureBond
  <2>1. status' = "Matured" /\ UNCHANGED <<ledger, blocked, pool, budget>>
    BY <1>6 DEF MatureBond
  <2> QED BY <1>1, <1>2, <1>3, <2>1 DEF LedgerInv, TypeOK, CycleBudgetKept, tail
<1>7. CASE \E b \in Budgets : ConfigureRedemptionBudget(b[1], b[2])
  <2>1. PICK b \in Budgets : ConfigureRedemptionBudget(b[1], b[2])
    BY <1>7
  <2>2. b[1] \in Int /\ b[2] \in Nat
    BY InputTypes
  <2>3. /\ budget' = [principal |-> b[1], ledgers |-> b[2]] /\ b[1] >= FaceValue /\ b[2] > 0
        /\ tail = 0 /\ UNCHANGED <<ledger, status, blocked, pool>>
    BY <2>1 DEF ConfigureRedemptionBudget
  <2>4. b[1] \in Nat /\ b[2] \in Nat \ {0}
    BY <2>2, <2>3, ConfigIssued
  <2>5. budget' \in [principal : Nat, ledgers : Nat \ {0}] /\ budget'.principal = b[1]
    BY <2>3, <2>4
  <2>6. TypeOK'
    BY <1>1, <1>3, <2>3, <2>5 DEF LedgerInv, TypeOK
  <2>7. tail = 0 /\ tail' = 0
    BY <1>1, <2>3 DEF tail
  <2>8. usage.paid = 0 /\ usage' = usage
    BY <1>1, <2>7 DEF LedgerInv, CycleBudgetKept
  <2>9. CycleBudgetKept' /\ (tail > 0 => status = "Matured")'
    BY <2>4, <2>5, <2>7, <2>8 DEF CycleBudgetKept
  <2> QED BY <1>2, <2>6, <2>9 DEF LedgerInv
<1>8. CASE Tick
  <2>1. ledger' \in Nat /\ UNCHANGED <<status, blocked, pool, budget>>
    BY <1>8 DEF Tick, LedgerInv, TypeOK
  <2> QED BY <1>1, <1>2, <1>3, <2>1 DEF LedgerInv, TypeOK, CycleBudgetKept, tail
<1> QED
  BY <1>4, <1>5, <1>6, <1>7, <1>8

\* request_redemption writes the enqueued state and leaves the meter alone.
LEMMA RequestInv ==
  ASSUME LedgerInv, NEW h \in Holders, NEW amount \in Int, NEW key \in Nat,
         RequestRedemption(h, amount, key)
  PROVE  LedgerInv'
<1> DEFINE s == LoopStart(Enqueued(h, amount, key), EnqueuedHead, EnqueuedReserved(h, amount))
<1>1. LoopOK(s)
  BY EnqueueOK DEF RequestRedemption
<1>2. /\ balance' = s.balance /\ total_subscribed' = s.total /\ version' = s.version
      /\ holder_cp' = s.holder_cp /\ supply_cp' = s.supply_cp /\ pool' = s.pool
      /\ requests' = s.requests /\ head' = s.head /\ reserved' = s.reserved
      /\ UNCHANGED <<ledger, status, blocked, budget>> /\ usage' = usage
  BY Zenon DEF RequestRedemption, LoopStart, positionVars
<1>3. Len(s.requests) # 0
  <2> DEFINE r == [holder |-> h, key |-> key, amount |-> amount, remaining |-> amount]
  <2>1. s.requests = Append(requests, r)
    BY DEF LoopStart, Enqueued
  <2>2. requests \in Seq(Requests)
    BY DEF LedgerInv, TypeOK
  <2> HIDE DEF s, r
  <2> QED BY <2>1, <2>2
<1>4. nonce' \in [Accounts -> Nat]
  BY NonceType DEF RequestRedemption, LedgerInv, TypeOK
<1>5. usage' \in [cycle : Int, paid : Nat] /\ usage'.paid <= budget.principal
  BY <1>2 DEF LedgerInv, TypeOK, CycleBudgetKept
<1> HIDE DEF s
<1> QED
  BY <1>1, <1>2, <1>3, <1>4, <1>5, WriteOK

\* What process writes back satisfies the invariant.
LEMMA ApplyInv ==
  ASSUME LedgerInv, NEW s, LoopOK(s), ApplyLoop(s), nonce' \in [Accounts -> Nat],
         UNCHANGED <<ledger, status, blocked, budget>>
  PROVE  LedgerInv'
<1>1. CurrentCycle \in Int
  BY DEF LedgerInv, TypeOK, CurrentCycle
<1>2. s.paid \in Nat /\ s.paid <= budget.principal /\ (Len(s.requests) = 0 => s.paid = 0)
  BY DEF LoopOK, LoopStates, MeterOK
<1>3. usage' = [cycle |-> CurrentCycle, paid |-> s.paid]
  BY DEF ApplyLoop
<1>4. usage' \in [cycle : Int, paid : Nat] /\ usage'.paid = s.paid
  BY <1>1, <1>2, <1>3
<1>5. /\ balance' = s.balance /\ total_subscribed' = s.total /\ version' = s.version
      /\ holder_cp' = s.holder_cp /\ supply_cp' = s.supply_cp /\ pool' = s.pool
      /\ requests' = s.requests /\ head' = s.head /\ reserved' = s.reserved
  BY DEF ApplyLoop
<1> QED
  BY <1>2, <1>4, <1>5, WriteOK

\* A limit is a number of iterations.
LEMMA IterationsType ==
  ASSUME NEW limit \in Nat
  PROVE  Iterations(limit) \in Nat
BY BoundTypes DEF Iterations

LEMMA ProcessInv ==
  ASSUME LedgerInv, NEW limit \in Nat, ProcessRedemptions(limit)
  PROVE  LedgerInv'
<1> DEFINE s == Loop(LoopStart(requests, head, reserved), Iterations(limit))
<1>1. LoopOK(s)
  BY StartOK, IterationsType, LoopAlwaysOK
<1>2. /\ ApplyLoop(s) /\ UNCHANGED <<ledger, status, blocked, budget>>
      /\ nonce' \in [Accounts -> Nat]
  BY DEF ProcessRedemptions, LedgerInv, TypeOK
<1> HIDE DEF s
<1> QED
  BY <1>1, <1>2, ApplyInv

\* redeem runs the loop from a consistent queue.
LEMMA RedeemLoop ==
  ASSUME LedgerInv, NEW h \in Holders, NEW amount \in Int, Redeem(h, amount)
  PROVE  \E s : LoopOK(s) /\ ApplyLoop(s)
<1> DEFINE start == LoopStart(Enqueued(h, amount, nonce[h]), EnqueuedHead,
                              EnqueuedReserved(h, amount))
           s == Loop(start, Iterations(1))
<1>1. nonce[h] \in Nat
  BY DEF LedgerInv, TypeOK, Accounts
<1>2. LoopOK(start)
  BY <1>1, EnqueueOK, Zenon DEF Redeem
<1>3. StartTypes
  BY StartOK
<1>4. ApplyLoop(s)
  BY Zenon DEF Redeem
<1> HIDE DEF start
<1>5. LoopOK(s)
  BY <1>2, <1>3, IterationsType, LoopAlwaysOK
<1> QED
  BY <1>4, <1>5

LEMMA RedeemInv ==
  ASSUME LedgerInv, NEW h \in Holders, NEW amount \in Int, Redeem(h, amount)
  PROVE  LedgerInv'
<1>1. PICK s : LoopOK(s) /\ ApplyLoop(s)
  BY RedeemLoop
<1>2. UNCHANGED <<ledger, status, blocked, budget>>
  BY DEF Redeem
<1>3. nonce' \in [Accounts -> Nat]
  BY NonceType DEF Redeem, LedgerInv, TypeOK
<1> QED
  BY <1>1, <1>2, <1>3, ApplyInv

-----------------------------------------------------------------------------
(* The theorems *)

\* Every step of the bond issuer keeps the inductive invariant.
LEMMA NextInv == LedgerInv /\ [Next]_vars => LedgerInv'
<1> SUFFICES ASSUME LedgerInv, [Next]_vars PROVE LedgerInv'
  OBVIOUS
<1>1. ASSUME NEW h \in Holders, NEW amount \in Amounts, Subscribe(h, amount) PROVE LedgerInv'
  BY <1>1, InputTypes, SubscribeInv
<1>2. ASSUME NEW from \in Holders, NEW to \in Holders, NEW amount \in Amounts,
             Transfer(from, to, amount)
      PROVE  LedgerInv'
  BY <1>2, InputTypes, TransferInv
<1>3. ASSUME NEW h \in Holders, NEW amount \in Amounts, NEW key \in Keys,
             RequestRedemption(h, amount, key)
      PROVE  LedgerInv'
  BY <1>3, InputTypes, RequestInv
<1>4. ASSUME NEW limit \in Limits, ProcessRedemptions(limit) PROVE LedgerInv'
  BY <1>4, InputTypes, ProcessInv
<1>5. ASSUME NEW h \in Holders, NEW amount \in Amounts, Redeem(h, amount) PROVE LedgerInv'
  BY <1>5, InputTypes, RedeemInv
<1>6. CASE \/ \E h \in Holders, isBlocked \in BOOLEAN : SetTransferBlocked(h, isBlocked)
           \/ \E amount \in Amounts : FundRedemption(amount)
           \/ MatureBond
           \/ \E b \in Budgets : ConfigureRedemptionBudget(b[1], b[2])
           \/ Tick
  BY <1>6, OtherInv, SMTT(20)
<1>7. CASE UNCHANGED vars
  BY <1>7 DEF vars, positionVars, queueVars, LedgerInv, TypeOK, SupplyConserved,
              ReservationsBacked, StrictFIFO, KeysUnique, CycleBudgetKept, tail
<1> QED
  BY <1>1, <1>2, <1>3, <1>4, <1>5, <1>6, <1>7 DEF Next

\* The invariant holds in every reachable state of the bond's ledger.
THEOREM LedgerAlwaysOK == Spec => []LedgerInv
BY InitInv, NextInv, PTL DEF Spec
\* Stored values keep their types; the i128 amounts never go negative.
THEOREM TypeCorrect == Spec => []TypeOK
<1>1. LedgerInv => TypeOK
  BY DEF LedgerInv
<1> QED
  BY <1>1, LedgerAlwaysOK, PTL

\* The holders' balances always add up to BondState.total_subscribed.
THEOREM SupplyAlwaysConserved == Spec => []SupplyConserved
<1>1. LedgerInv => SupplyConserved
  BY DEF LedgerInv
<1> QED
  BY <1>1, LedgerAlwaysOK, PTL

\* Reservations always equal what waits in the queue and are always owned.
THEOREM ReservationsAlwaysBacked == Spec => []ReservationsBacked
<1>1. LedgerInv => ReservationsBacked
  BY DEF LedgerInv
<1> QED
  BY <1>1, LedgerAlwaysOK, PTL

\* Requests are always paid in the order accepted, each key once.
THEOREM QueueAlwaysFIFO == Spec => [](StrictFIFO /\ KeysUnique)
<1>1. LedgerInv => StrictFIFO /\ KeysUnique
  BY DEF LedgerInv
<1> QED
  BY <1>1, LedgerAlwaysOK, PTL

\* No cycle ever pays more than its budget.
THEOREM BudgetAlwaysKept == Spec => []CycleBudgetKept
<1>1. LedgerInv => CycleBudgetKept
  BY DEF LedgerInv
<1> QED
  BY <1>1, LedgerAlwaysOK, PTL

\* process_redemptions can always be called: no queued request makes it fail.
THEOREM QueueIsNeverJammed == Spec => []QueueNeverJams
<1>1. LedgerInv => QueueNeverJams
  <2> SUFFICES ASSUME LedgerInv, NEW limit \in Limits
               PROVE  Loop(LoopStart(requests, head, reserved), Iterations(limit)).flow # "error"
    BY DEF QueueNeverJams
  <2> DEFINE s == Loop(LoopStart(requests, head, reserved), Iterations(limit))
  <2>1. LoopOK(s)
    BY InputTypes, StartOK, IterationsType, LoopAlwaysOK
  <2> HIDE DEF s
  <2>2. s.flow \in {"run", "stop"}
    BY <2>1 DEF LoopOK, LoopStates
  <2> QED BY <2>2 DEF s
<1> QED
  BY <1>1, LedgerAlwaysOK, PTL

\* Principal p - q paid for a - b positions is positive when a position was burnt.
LEMMA PaidIfBurnt ==
  ASSUME NEW a \in Nat, NEW b \in Nat, b <= a, NEW p \in Nat, NEW q \in Nat,
         NEW cost, p - q = cost, cost = FaceValue * (a - b)
  PROVE  /\ b < a => q < p
         /\ q < p => b < a
<1> DEFINE d == a - b
<1>1. d \in Nat /\ (b < a => d > 0) /\ (~(b < a) => d = 0)
  OBVIOUS
<1>2. cost = FaceValue * d
  OBVIOUS
<1> HIDE DEF d
<1>3. cost \in Nat /\ (d > 0 => cost > 0) /\ (d = 0 => cost = 0)
  BY <1>1, <1>2, ConfigIssued
<1> QED
  BY <1>1, <1>3

\* What one run of the payment loop burns and pays.
LEMMA ApplyPays ==
  ASSUME LedgerInv, NEW s, LoopOK(s), ApplyLoop(s)
  PROVE  /\ total_subscribed' < total_subscribed =>
              PaidOut = FaceValue * (total_subscribed - total_subscribed')
         /\ PaidOut > 0 => total_subscribed' < total_subscribed
<1> DEFINE a == total_subscribed
           b == total_subscribed'
           p == pool
           q == pool'
           cost == FaceValue * (a - b)
<1>1. a \in Nat /\ b \in Nat /\ p \in Nat /\ q \in Nat /\ b <= a
  BY DEF LedgerInv, TypeOK, ApplyLoop, LoopOK, LoopStates, MeterOK
<1>2. p - q = cost
  BY DEF ApplyLoop, LoopOK, MeterOK
<1>3. cost = FaceValue * (a - b)
  OBVIOUS
<1> HIDE DEF a, b, p, q, cost
<1>4. (b < a => q < p) /\ (q < p => b < a)
  BY <1>1, <1>2, <1>3, PaidIfBurnt, Zenon
<1>5. PaidOut = IF q < p THEN p - q ELSE 0
  BY DEF PaidOut, p, q
<1>6. (b < a => PaidOut = cost) /\ (PaidOut > 0 => b < a)
  BY <1>2, <1>4, <1>5
<1> QED
  BY <1>3, <1>6, SMTT(20) DEF a, b

\* Principal leaves the pool only for positions burnt, at face value.
THEOREM BurnAlwaysPaysFace == Spec => BurnPaysFace
<1> DEFINE Pays == /\ total_subscribed' < total_subscribed =>
                        PaidOut = FaceValue * (total_subscribed - total_subscribed')
                   /\ PaidOut > 0 => total_subscribed' < total_subscribed
<1>1. ASSUME LedgerInv, [Next]_vars PROVE Pays
  <2>0. total_subscribed \in Nat /\ pool \in Nat
    BY <1>1 DEF LedgerInv, TypeOK
  <2>1. ASSUME NEW h \in Holders, NEW amount \in Amounts, Subscribe(h, amount) PROVE Pays
    BY <2>0, <2>1, InputTypes DEF Subscribe, CanSubscribe, PaidOut
  <2>2. ASSUME NEW from \in Holders, NEW to \in Holders, NEW amount \in Amounts,
               Transfer(from, to, amount)
        PROVE  Pays
    BY <2>0, <2>2 DEF Transfer, PaidOut
  <2>3. ASSUME NEW h \in Holders, NEW isBlocked \in BOOLEAN, SetTransferBlocked(h, isBlocked)
        PROVE  Pays
    BY <2>0, <2>3 DEF SetTransferBlocked, positionVars, PaidOut
  <2>4. ASSUME NEW amount \in Amounts, FundRedemption(amount) PROVE Pays
    BY <2>0, <2>4, InputTypes DEF FundRedemption, positionVars, PaidOut
  <2>5. CASE MatureBond \/ Tick \/ UNCHANGED vars
    BY <2>0, <2>5 DEF MatureBond, Tick, vars, positionVars, PaidOut
  <2>6. ASSUME NEW b \in Budgets, ConfigureRedemptionBudget(b[1], b[2]) PROVE Pays
    BY <2>0, <2>6 DEF ConfigureRedemptionBudget, positionVars, PaidOut
  <2>7. ASSUME NEW h \in Holders, NEW amount \in Amounts, NEW key \in Keys,
               RequestRedemption(h, amount, key)
        PROVE  Pays
    BY <2>0, <2>7 DEF RequestRedemption, positionVars, PaidOut
  <2>8. ASSUME NEW limit \in Limits, ProcessRedemptions(limit) PROVE Pays
    <3> DEFINE s == Loop(LoopStart(requests, head, reserved), Iterations(limit))
    <3>1. LoopOK(s)
      BY <1>1, InputTypes, StartOK, IterationsType, LoopAlwaysOK
    <3>2. ApplyLoop(s)
      BY <2>8 DEF ProcessRedemptions
    <3> HIDE DEF s
    <3> QED BY <1>1, <3>1, <3>2, ApplyPays
  <2>9. ASSUME NEW h \in Holders, NEW amount \in Amounts, Redeem(h, amount) PROVE Pays
    <3>1. PICK s : LoopOK(s) /\ ApplyLoop(s)
      BY <1>1, <2>9, InputTypes, RedeemLoop
    <3> QED BY <1>1, <3>1, ApplyPays
  <2> HIDE DEF Pays
  <2> QED
    BY <1>1, <2>1, <2>2, <2>3, <2>4, <2>5, <2>6, <2>7, <2>8, <2>9, SMTT(20) DEF Next
<1> QED
  BY <1>1, LedgerAlwaysOK, PTL DEF Spec, BurnPaysFace
=============================================================================
