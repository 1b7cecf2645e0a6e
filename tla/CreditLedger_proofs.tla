------------------------ MODULE CreditLedger_proofs ------------------------
(***************************************************************************)
(* Theorems about CreditLedger: the two balances of a node stay the same,  *)
(* nothing is overdrawn by more than a tick, a balance is what was earned  *)
(* less what was spent, free allocations keep their distance and every     *)
(* earn is backed by a nonce or a free allocation, for any number of       *)
(* nodes, requests, receipts and addresses.                                *)
(***************************************************************************)
EXTENDS CreditLedger, TLAPS, FiniteSetTheorems, WellFoundedInduction

\* Rounding keeps whole ticks, never turns a number negative and moves it by
\* at most half a tick.
LEMMA StoredFacts ==
  ASSUME NEW x \in Int
  PROVE  /\ Stored(x) \in Int
         /\ Stored(x) % 2 = 0
         /\ x % 2 = 0 => Stored(x) = x
         /\ x >= 0 => Stored(x) >= 0
         /\ x >= -2 => Stored(x) >= -2
  BY DEF Stored

\* Sums and differences of whole ticks are whole ticks.
LEMMA EvenSums ==
  ASSUME NEW x \in Int, NEW y \in Int, x % 2 = 0, y % 2 = 0
  PROVE  (x + y) % 2 = 0 /\ (x - y) % 2 = 0
  OBVIOUS

\* What the wallet loop takes from a paying node: no more than it has.
LEMMA WalletTakes ==
  ASSUME credit_balance \in [Nodes -> Int],
         NEW paying \in SUBSET Nodes, \A n \in paying : credit_balance[n] > 0,
         NEW amount \in Nat,
         NEW size \in Nat, size = Cardinality(paying),
         NEW pos \in Bijection(paying, 1..size),
         NEW rem \in [0..size -> 0..amount],
         Allocates(paying, pos, rem, amount),
         NEW n \in paying
  PROVE  /\ rem[pos[n] - 1] - rem[pos[n]] \in Nat
         /\ rem[pos[n] - 1] - rem[pos[n]] <= credit_balance[n]
<1> DEFINE missing(m) == rem[pos[m] - 1]
<1>1. /\ pos \in [paying -> 1..size]
      /\ \A i \in 1..size : \E m \in paying : pos[m] = i
  BY DEF Bijection, Injection, Surjection
<1>2. /\ rem[0] = amount
      /\ \A m \in paying :
           rem[pos[m]] = IF missing(m) <= 1 THEN missing(m)
                         ELSE IF missing(m) > credit_balance[m] THEN missing(m) - credit_balance[m] ELSE 0
  BY DEF Allocates
<1>3. \A m \in paying : /\ missing(m) \in Nat
                        /\ rem[pos[m]] \in Nat
                        /\ credit_balance[m] \in Int /\ credit_balance[m] > 0
                        /\ pos[m] \in Nat /\ pos[m] - 1 \in Nat
  BY <1>1
<1>4. missing(n) - rem[pos[n]] \in Nat /\ missing(n) - rem[pos[n]] <= credit_balance[n]
  BY <1>2, <1>3
<1> QED
  BY <1>4

-----------------------------------------------------------------------------
(* Invariants.                                                             *)

\* No balance of either table is more than a tick below zero.
Floor == \A n \in Nodes : /\ credit_balance[n] >= -Tick
                          /\ credits[n] # NoRow => credits[n] >= -Tick

\* All stored balances are whole ticks.
Whole == \A n \in Nodes : /\ credit_balance[n] % 2 = 0
                          /\ credits[n] # NoRow => credits[n] % 2 = 0

IInv == TypeOK /\ LedgerAgrees /\ Floor

\* The fields of a request at its different stages.
LEMMA RequestFacts ==
  ASSUME TypeOK, NEW h \in Handlers
  PROVE  /\ request[h].pc = "award" =>
              /\ request[h].node \in Nodes /\ request[h].consumer \in Nodes \union {NoNode}
              /\ request[h].amount \in Amounts /\ request[h].nonce \in Nonces
         /\ request[h].pc \in {"scope", "debit"} =>
              /\ request[h].consumer \in Nodes /\ request[h].amount \in Amounts
  BY DEF TypeOK, Requests, Idle

\* A debit of either scope takes from some nodes what they have, up to a tick.
LEMMA DebitStep ==
  ASSUME TypeOK, NEW h \in Handlers, DebitNode(h) \/ DebitWallet(h)
  PROVE  \E from \in SUBSET registered : \E take :
           /\ Debit(from, take)
           /\ \A n \in from :
                /\ take[n] \in Nat
                /\ Agree(n)
                /\ credit_balance[n] - take[n] >= -2 /\ credits[n] - take[n] >= -2
<1> DEFINE r == request[h]
<1>1. /\ registered \subseteq Nodes /\ credit_balance \in [Nodes -> Int]
      /\ credits \in [Nodes -> Int \union {NoRow}]
      /\ r.pc = "debit" /\ r.consumer \in Nodes /\ r.amount \in Amounts /\ r.amount \in Nat
  BY RequestFacts, LedgerConstants DEF TypeOK, DebitNode, DebitWallet
<1>2. CASE DebitNode(h)
  <2> DEFINE c == r.consumer
             take == [n \in {c} |-> r.amount]
  <2>1. /\ c \in registered /\ Agree(c) /\ Affordable(c, r.amount) /\ Debit({c}, take)
    BY <1>2 DEF DebitNode
  <2>2. credit_balance[c] - r.amount >= -2 /\ credits[c] - r.amount >= -2
    BY <1>1, <2>1 DEF Affordable, Agree, Tick
  <2> QED
    BY <1>1, <2>1, <2>2
<1>3. CASE DebitWallet(h)
  <2> DEFINE paying == Candidates(r.operator)
             size == Cardinality(paying)
  <2>1. PICK pos \in Bijection(paying, 1..size), rem \in [0..size -> 0..r.amount] :
          LET take == [n \in paying |-> rem[pos[n] - 1] - rem[pos[n]]]
              from == {n \in paying : take[n] > 0}
          IN  /\ Allocates(paying, pos, rem, r.amount)
              /\ \A n \in from : Agree(n)
              /\ Debit(from, take)
    BY <1>3 DEF DebitWallet
  <2> DEFINE take == [n \in paying |-> rem[pos[n] - 1] - rem[pos[n]]]
             from == {n \in paying : take[n] > 0}
  <2>2. /\ paying \in SUBSET Nodes /\ paying \subseteq registered
        /\ \A n \in paying : credit_balance[n] > 0
    BY <1>1 DEF Candidates
  <2>3. size \in Nat
    BY <2>2, FS_Subset, FS_CardinalityType, LedgerConstants
  <2> HIDE DEF paying, size
  <2>4. ASSUME NEW n \in from
        PROVE  /\ take[n] \in Nat /\ take[n] <= credit_balance[n]
    <3>1. n \in paying /\ take[n] = rem[pos[n] - 1] - rem[pos[n]]
      OBVIOUS
    <3>2. size = Cardinality(paying)
      BY DEF size
    <3>3. /\ rem[pos[n] - 1] - rem[pos[n]] \in Nat
          /\ rem[pos[n] - 1] - rem[pos[n]] <= credit_balance[n]
      BY <1>1, <2>1, <2>2, <2>3, <3>1, <3>2, WalletTakes
    <3> QED
      BY <3>1, <3>3
  <2>5. ASSUME NEW n \in from
        PROVE  Agree(n) /\ credit_balance[n] - take[n] >= -2 /\ credits[n] - take[n] >= -2
    <3>1. Agree(n)
      BY <2>1
    <3>2. take[n] \in Nat /\ take[n] <= credit_balance[n]
      BY <2>4
    <3> HIDE DEF take
    <3>3. /\ credit_balance[n] \in Int /\ credits[n] \in Int
          /\ credit_balance[n] - credits[n] \in -2..2
      BY <1>1, <2>2, <3>1 DEF Agree, Tick
    <3> QED
      BY <3>1, <3>2, <3>3
  <2>6. from \in SUBSET registered /\ Debit(from, take)
    BY <2>1, <2>2
  <2> QED
    BY <2>4, <2>5, <2>6
<1> QED
  BY <1>2, <1>3

\* What a debit does to the two balances and the sums of one node.
LEMMA DebitEffect ==
  ASSUME TypeOK, NEW h \in Handlers, DebitNode(h) \/ DebitWallet(h), NEW n \in Nodes
  PROVE  \/ /\ credit_balance'[n] = credit_balance[n] /\ credits'[n] = credits[n]
            /\ spent'[n] = spent[n] /\ ties'[n] = ties[n]
         \/ \E t \in Nat :
              /\ Agree(n)
              /\ credit_balance'[n] = Stored(credit_balance[n] - t)
              /\ credits'[n] = Stored(credits[n] - t)
              /\ spent'[n] = spent[n] + Stored(t)
              /\ ties'[n] = ties[n] + (t % 2)
              /\ credit_balance[n] - t >= -2 /\ credits[n] - t >= -2
<1>1. PICK from \in SUBSET registered : \E take :
           /\ Debit(from, take)
           /\ \A m \in from :
                /\ take[m] \in Nat
                /\ Agree(m)
                /\ credit_balance[m] - take[m] >= -2 /\ credits[m] - take[m] >= -2
  BY DebitStep
<1>2. PICK take :
           /\ Debit(from, take)
           /\ \A m \in from :
                /\ take[m] \in Nat
                /\ Agree(m)
                /\ credit_balance[m] - take[m] >= -2 /\ credits[m] - take[m] >= -2
  BY <1>1
<1>3. CASE n \in from
  <2>1. /\ credit_balance'[n] = Stored(credit_balance[n] - take[n])
        /\ credits'[n] = Stored(credits[n] - take[n])
        /\ spent'[n] = spent[n] + Stored(take[n])
        /\ ties'[n] = ties[n] + (take[n] % 2)
    BY <1>2, <1>3 DEF Debit
  <2> QED
    BY <1>2, <1>3, <2>1
<1>4. CASE n \notin from
  BY <1>2, <1>4 DEF Debit
<1> QED
  BY <1>3, <1>4

\* A debit leaves the tables total functions and touches nothing else.
LEMMA DebitFrame ==
  ASSUME TypeOK, NEW h \in Handlers, DebitNode(h) \/ DebitWallet(h)
  PROVE  /\ credit_balance' = [n \in Nodes |-> credit_balance'[n]]
         /\ credits' = [n \in Nodes |-> credits'[n]]
         /\ spent' = [n \in Nodes |-> spent'[n]]
         /\ ties' = [n \in Nodes |-> ties'[n]]
         /\ request' = [request EXCEPT ![h] = Idle]
         /\ UNCHANGED <<now, registered, archived, earned, expiries, used, gates, sweep, gone>>
<1>1. \E from, take : Debit(from, take)
  BY DebitStep
<1>2. /\ credit_balance' = [n \in Nodes |-> credit_balance'[n]]
      /\ credits' = [n \in Nodes |-> credits'[n]]
      /\ spent' = [n \in Nodes |-> spent'[n]]
      /\ ties' = [n \in Nodes |-> ties'[n]]
      /\ UNCHANGED <<earned, expiries, used>>
  BY <1>1 DEF Debit
<1>3. /\ request' = [request EXCEPT ![h] = Idle]
      /\ UNCHANGED <<now, registered, archived, gates, sweep, gone>>
  BY DEF DebitNode, DebitWallet
<1> QED
  BY <1>2, <1>3

\* Type correctness is inductive.
LEMMA NextTypeOK ==
  ASSUME TypeOK, [Next]_vars
  PROVE  TypeOK'
<1> USE LedgerConstants DEF TypeOK
<1>1. CASE ClockTick
  BY <1>1 DEF ClockTick, books, gates
<1>2. ASSUME NEW n \in Nodes, Register(n)
      PROVE  TypeOK'
  BY <1>2 DEF Register, books, gates
<1>3. ASSUME NEW n \in Nodes, Deregister(n)
      PROVE  TypeOK'
  BY <1>3 DEF Deregister, gates
<1>4. ASSUME NEW n \in Nodes, Archive(n)
      PROVE  TypeOK'
  BY <1>4 DEF Archive, books, gates
<1>5. ASSUME NEW h \in Handlers, StartAward(h)
      PROVE  TypeOK'
  BY <1>5 DEF StartAward, Requests, books, gates
<1>6. ASSUME NEW h \in Handlers, RecordAward(h)
      PROVE  TypeOK'
  <2> DEFINE r == request[h]
             n == r.node
             ledger == IF credits[n] = NoRow THEN credit_balance[n] ELSE credits[n]
             total == Stored(ledger + r.amount)
  <2>1. /\ n \in Nodes /\ r.amount \in Nat /\ r.nonce \in Nonces
        /\ r.consumer \in Nodes \union {NoNode} /\ r.amount \in Amounts
    BY <1>6, RequestFacts DEF RecordAward
  <2>2. ledger + r.amount \in Int
    BY <2>1
  <2>3. total \in Int /\ Stored(r.amount) \in Nat
    BY <2>1, <2>2, StoredFacts
  <2>4. /\ credits' = [credits EXCEPT ![n] = total]
        /\ credit_balance' = [credit_balance EXCEPT ![n] = total]
        /\ earned' = [earned EXCEPT ![n] = @ + Stored(r.amount)]
        /\ expiries' = [expiries EXCEPT ![n] = @ \union {now + TTL}]
        /\ used' = [used EXCEPT ![n] = @ \union {r.nonce}]
        /\ request' = [request EXCEPT ![h] = IF r.consumer = NoNode THEN Idle
                                             ELSE [r EXCEPT !.pc = "scope"]]
        /\ UNCHANGED <<now, registered, archived, spent, ties, gates, sweep, gone>>
        /\ r.pc = "award"
    BY <1>6 DEF RecordAward
  <2>5. r \in [pc : {"award"}, node : Nodes, consumer : Nodes \union {NoNode},
               amount : Amounts, nonce : Nonces]
    BY <2>4 DEF Requests, Idle
  <2>6. (r.consumer # NoNode => [r EXCEPT !.pc = "scope"] \in Requests) /\ Idle \in Requests
    BY <2>5 DEF Requests
  <2>7. request' \in [Handlers -> Requests]
    BY <2>4, <2>6
  <2> HIDE DEF total, n, r
  <2>8. credits' \in [Nodes -> Int \union {NoRow}] /\ credit_balance' \in [Nodes -> Int]
    BY <2>1, <2>3, <2>4
  <2>9. earned[n] + Stored(r.amount) \in Nat /\ now + TTL \in Nat
    BY <2>1, <2>3
  <2>10. earned' \in [Nodes -> Nat]
    BY <2>1, <2>9, <2>4
  <2>11. expiries' \in [Nodes -> SUBSET Nat] /\ used' \in [Nodes -> SUBSET Nonces]
    BY <2>1, <2>9, <2>4
  <2> QED
    BY <2>4, <2>7, <2>8, <2>10, <2>11 DEF gates
<1>7. ASSUME NEW h \in Handlers, LookupScope(h)
      PROVE  TypeOK'
  <2> DEFINE c == request[h].consumer
             new == [pc |-> "debit", consumer |-> c, amount |-> request[h].amount,
                     operator |-> IF c \in registered THEN OperatorOf[c] ELSE NoOperator]
  <2>1. /\ request' = [request EXCEPT ![h] = new]
        /\ request[h].pc = "scope"
        /\ UNCHANGED <<now, registered, archived, books, gates, sweep, gone>>
    BY <1>7 DEF LookupScope
  <2>2. c \in Nodes /\ request[h].amount \in Amounts
    BY <2>1, RequestFacts
  <2>4. new \in Requests
    BY <2>2 DEF Requests
  <2>5. request' \in [Handlers -> Requests]
    BY <2>1, <2>4
  <2> QED
    BY <2>1, <2>5 DEF books, gates
<1>8. ASSUME NEW h \in Handlers, DebitNode(h) \/ DebitWallet(h)
      PROVE  TypeOK'
  <2>1. ASSUME NEW n \in Nodes
        PROVE  /\ credit_balance'[n] \in Int /\ credits'[n] \in Int \union {NoRow}
               /\ spent'[n] \in Nat /\ ties'[n] \in Nat
    <3>1. CASE /\ credit_balance'[n] = credit_balance[n] /\ credits'[n] = credits[n]
               /\ spent'[n] = spent[n] /\ ties'[n] = ties[n]
      BY <3>1
    <3>2. CASE \E t \in Nat :
                 /\ Agree(n)
                 /\ credit_balance'[n] = Stored(credit_balance[n] - t)
                 /\ credits'[n] = Stored(credits[n] - t)
                 /\ spent'[n] = spent[n] + Stored(t)
                 /\ ties'[n] = ties[n] + (t % 2)
      <4>1. PICK t \in Nat : /\ Agree(n)
                             /\ credit_balance'[n] = Stored(credit_balance[n] - t)
                             /\ credits'[n] = Stored(credits[n] - t)
                             /\ spent'[n] = spent[n] + Stored(t)
                             /\ ties'[n] = ties[n] + (t % 2)
        BY <3>2
      <4>2. credit_balance[n] - t \in Int /\ credits[n] - t \in Int /\ spent[n] \in Nat
        BY <4>1 DEF Agree
      <4>3. /\ Stored(credit_balance[n] - t) \in Int /\ Stored(credits[n] - t) \in Int
            /\ Stored(t) \in Nat
        BY <4>2, StoredFacts
      <4>4. ties[n] + (t % 2) \in Nat
        OBVIOUS
      <4> QED
        BY <4>1, <4>2, <4>3, <4>4
    <3> QED
      BY <1>8, <3>1, <3>2, DebitEffect
  <2>2. /\ credit_balance' \in [Nodes -> Int] /\ credits' \in [Nodes -> Int \union {NoRow}]
        /\ spent' \in [Nodes -> Nat] /\ ties' \in [Nodes -> Nat]
    BY <1>8, <2>1, DebitFrame
  <2>3. request' = [request EXCEPT ![h] = Idle] /\ Idle \in Requests
    BY <1>8, DebitFrame DEF Requests
  <2>4. UNCHANGED <<now, registered, archived, earned, expiries, used, gates, sweep, gone>>
    BY <1>8, DebitFrame
  <2> QED
    BY <2>2, <2>3, <2>4 DEF gates
<1>9. ASSUME NEW h \in Handlers, StopRequest(h)
      PROVE  TypeOK'
  BY <1>9 DEF StopRequest, Requests, books, gates
<1>10. CASE SweepRead
  BY <1>10 DEF SweepRead, credit_ttl_idle, books, gates
<1>11. ASSUME NEW n \in Nodes, SweepNode(n)
      PROVE  TypeOK'
  <2>1. /\ sweep' = [sweep EXCEPT ![n] = 0]
        /\ UNCHANGED <<now, registered, archived, gates, request, gone>>
    BY <1>11 DEF SweepNode
  <2>2. CASE /\ credit_balance' = [credit_balance EXCEPT ![n] = 0]
             /\ credits' = [credits EXCEPT ![n] = 0]
             /\ spent' = [spent EXCEPT ![n] = @ + sweep[n]]
             /\ UNCHANGED <<earned, expiries, used, ties>>
    <3>1. spent[n] + sweep[n] \in Nat
      OBVIOUS
    <3>2. spent' \in [Nodes -> Nat]
      BY <2>2, <3>1
    <3>3. credit_balance' \in [Nodes -> Int] /\ credits' \in [Nodes -> Int \union {NoRow}]
      BY <2>2
    <3> QED
      BY <2>1, <2>2, <3>2, <3>3 DEF gates
  <2>3. CASE UNCHANGED books
    BY <2>1, <2>3 DEF books, gates
  <2> QED
    BY <1>11, <2>2, <2>3 DEF SweepNode
<1>12. ASSUME NEW n \in Nodes, SweepFails(n)
      PROVE  TypeOK'
  BY <1>12 DEF SweepFails, books, gates
<1>13. ASSUME NEW n \in Nodes, NEW ip \in Ips, Heartbeat(n, ip)
      PROVE  TypeOK'
  <2> DEFINE ledger == IF credits[n] = NoRow THEN 0 ELSE credits[n]
             total == ledger + FreeAmount
             row == [node |-> n, ip |-> ip, at |-> now]
  <2>1. archived' = archived \ {n} /\ UNCHANGED <<now, registered, request, sweep, gone>>
    BY <1>13 DEF Heartbeat
  <2>2. CASE /\ credits' = [credits EXCEPT ![n] = total]
             /\ credit_balance' = [credit_balance EXCEPT ![n] = total]
             /\ earned' = [earned EXCEPT ![n] = @ + FreeAmount]
             /\ expiries' = [expiries EXCEPT ![n] = @ \union {now + TTL}]
             /\ free_at' = [free_at EXCEPT ![n] = now]
             /\ ip_at' = [ip_at EXCEPT ![ip] = now]
             /\ allocations' = Append(allocations, row)
             /\ UNCHANGED <<spent, used, ties>>
    <3>1. ledger \in Int
      OBVIOUS
    <3>0. FreeAmount \in Nat /\ earned[n] \in Nat
      OBVIOUS
    <3>2. total \in Int
      BY ONLY <3>0, <3>1
    <3>3. now \in Nat /\ now + TTL \in Nat
      OBVIOUS
    <3>4. row \in [node : Nodes, ip : Ips, at : Nat]
      BY <3>3
    <3>5. earned[n] + FreeAmount \in Nat
      BY ONLY <3>0
    <3> HIDE DEF total, row
    <3>6. credit_balance' \in [Nodes -> Int] /\ credits' \in [Nodes -> Int \union {NoRow}]
      BY <2>2, <3>2
    <3>7. earned' \in [Nodes -> Nat]
      BY <2>2, <3>5
    <3>8. expiries' \in [Nodes -> SUBSET Nat]
      BY <2>2, <3>3
    <3>9. free_at' \in [Nodes -> Int] /\ ip_at' \in [Ips -> Int]
      BY <2>2, <3>3
    <3>10. allocations' \in Seq([node : Nodes, ip : Ips, at : Nat])
      BY <2>2, <3>4
    <3> QED
      BY <2>1, <2>2, <3>6, <3>7, <3>8, <3>9, <3>10
  <2>3. CASE UNCHANGED <<books, gates>>
    BY <2>1, <2>3 DEF books, gates
  <2> QED
    BY <1>13, <2>2, <2>3 DEF Heartbeat
<1>14. CASE UNCHANGED vars
  BY <1>14 DEF vars, books, gates
<1> QED
  BY <1>1, <1>2, <1>3, <1>4, <1>5, <1>6, <1>7, <1>8, <1>9, <1>10, <1>11, <1>12, <1>13, <1>14
  DEF Next

\* The steps that change a balance or a sum; every other step leaves the books.
LEMMA OtherSteps ==
  ASSUME TypeOK, [Next]_vars,
         ~ \E n \in Nodes : Deregister(n) \/ SweepNode(n),
         ~ \E h \in Handlers : RecordAward(h) \/ DebitNode(h) \/ DebitWallet(h),
         ~ \E n \in Nodes, ip \in Ips : Heartbeat(n, ip)
  PROVE  UNCHANGED <<credit_balance, credits, earned, spent, ties, gates, gone>>
  BY DEF Next, ClockTick, Register, Archive, StartAward, LookupScope, StopRequest, SweepRead,
         SweepFails, vars, books

\* The award's effect on a node: both balances become the rounded total.
LEMMA AwardEffect ==
  ASSUME TypeOK, NEW h \in Handlers, RecordAward(h)
  PROVE  \E n \in registered, a \in Amounts, l \in Int :
           /\ IF credits[n] = NoRow THEN l = credit_balance[n] ELSE l = credits[n]
           /\ credits' = [credits EXCEPT ![n] = Stored(l + a)]
           /\ credit_balance' = [credit_balance EXCEPT ![n] = Stored(l + a)]
           /\ earned' = [earned EXCEPT ![n] = @ + Stored(a)]
           /\ UNCHANGED <<spent, ties, gates, gone>>
<1> DEFINE r == request[h]
           n == r.node
           l == IF credits[n] = NoRow THEN credit_balance[n] ELSE credits[n]
<1>1. n \in registered /\ r.amount \in Amounts /\ n \in Nodes
  BY RequestFacts DEF RecordAward
<1>2. l \in Int
  BY <1>1 DEF TypeOK
<1>3. /\ credits' = [credits EXCEPT ![n] = Stored(l + r.amount)]
      /\ credit_balance' = [credit_balance EXCEPT ![n] = Stored(l + r.amount)]
      /\ earned' = [earned EXCEPT ![n] = @ + Stored(r.amount)]
      /\ UNCHANGED <<spent, ties, gates, gone>>
  BY DEF RecordAward
<1>4. IF credits[n] = NoRow THEN l = credit_balance[n] ELSE l = credits[n]
  OBVIOUS
<1> HIDE DEF l, n, r
<1> QED
  BY <1>1, <1>2, <1>3, <1>4 DEF r

\* The balances after an award, a debit, a sweep or a free allocation.
LEMMA NextIInv ==
  ASSUME IInv, [Next]_vars
  PROVE  IInv'
<1>1. TypeOK'
  BY NextTypeOK DEF IInv
<1>2. /\ credit_balance \in [Nodes -> Int] /\ credits \in [Nodes -> Int \union {NoRow}]
      /\ registered \subseteq Nodes /\ NoRow \notin Int
      /\ TypeOK
  BY LedgerConstants DEF IInv, TypeOK
<1>3. \A n \in Nodes : (n \notin gone => SameBalance(n))
                       /\ credit_balance[n] >= -2 /\ (credits[n] # NoRow => credits[n] >= -2)
  BY DEF IInv, LedgerAgrees, Floor, Tick
<1>4. SUFFICES ASSUME NEW m \in Nodes
               PROVE  /\ m \notin gone' => SameBalance(m)'
                      /\ credit_balance'[m] >= -2
                      /\ credits'[m] # NoRow => credits'[m] >= -2
  BY <1>1 DEF IInv, LedgerAgrees, Floor, Tick
<1>5. ASSUME NEW n \in Nodes, Deregister(n)
      PROVE  /\ m \notin gone' => SameBalance(m)'
             /\ credit_balance'[m] >= -2
             /\ credits'[m] # NoRow => credits'[m] >= -2
  BY <1>2, <1>3, <1>5 DEF Deregister, SameBalance
<1>6. ASSUME NEW h \in Handlers, RecordAward(h)
      PROVE  /\ m \notin gone' => SameBalance(m)'
             /\ credit_balance'[m] >= -2
             /\ credits'[m] # NoRow => credits'[m] >= -2
  <2>1. PICK n \in registered, a \in Amounts, l \in Int :
           /\ IF credits[n] = NoRow THEN l = credit_balance[n] ELSE l = credits[n]
           /\ credits' = [credits EXCEPT ![n] = Stored(l + a)]
           /\ credit_balance' = [credit_balance EXCEPT ![n] = Stored(l + a)]
           /\ UNCHANGED gone
    BY <1>2, <1>6, AwardEffect
  <2>2. l + a \in Int /\ l + a >= -2
    BY <1>2, <1>3, <2>1, LedgerConstants
  <2>3. Stored(l + a) \in Int /\ Stored(l + a) >= -2
    BY <2>2, StoredFacts
  <2> QED
    BY <1>2, <1>3, <2>1, <2>3 DEF SameBalance
<1>7. ASSUME NEW h \in Handlers, DebitNode(h) \/ DebitWallet(h)
      PROVE  /\ m \notin gone' => SameBalance(m)'
             /\ credit_balance'[m] >= -2
             /\ credits'[m] # NoRow => credits'[m] >= -2
  <2>1. gone' = gone
    BY <1>2, <1>7, DebitFrame
  <2>2. CASE credit_balance'[m] = credit_balance[m] /\ credits'[m] = credits[m]
    BY <1>3, <2>1, <2>2 DEF SameBalance
  <2>3. CASE \E t \in Nat : /\ Agree(m)
                            /\ credit_balance'[m] = Stored(credit_balance[m] - t)
                            /\ credits'[m] = Stored(credits[m] - t)
                            /\ credit_balance[m] - t >= -2 /\ credits[m] - t >= -2
    <3>1. PICK t \in Nat : /\ Agree(m)
                           /\ credit_balance'[m] = Stored(credit_balance[m] - t)
                           /\ credits'[m] = Stored(credits[m] - t)
                           /\ credit_balance[m] - t >= -2 /\ credits[m] - t >= -2
      BY <2>3
    <3>2. credit_balance[m] - t \in Int /\ credits[m] - t \in Int
      BY <1>2, <3>1 DEF Agree
    <3>3. /\ credit_balance'[m] \in Int /\ credits'[m] \in Int
          /\ credit_balance'[m] >= -2 /\ credits'[m] >= -2
      BY <3>1, <3>2, StoredFacts
    <3>4. m \notin gone => credit_balance[m] = credits[m]
      BY <1>3, <3>1 DEF SameBalance, Agree
    <3> QED
      BY <1>2, <2>1, <3>1, <3>3, <3>4 DEF SameBalance
  <2> QED
    BY <1>2, <1>7, <2>2, <2>3, DebitEffect
<1>8. ASSUME NEW n \in Nodes, SweepNode(n)
      PROVE  /\ m \notin gone' => SameBalance(m)'
             /\ credit_balance'[m] >= -2
             /\ credits'[m] # NoRow => credits'[m] >= -2
  BY <1>2, <1>3, <1>8 DEF SweepNode, SameBalance, books
<1>9. ASSUME NEW n \in Nodes, NEW ip \in Ips, Heartbeat(n, ip)
      PROVE  /\ m \notin gone' => SameBalance(m)'
             /\ credit_balance'[m] >= -2
             /\ credits'[m] # NoRow => credits'[m] >= -2
  <2> DEFINE total == (IF credits[n] = NoRow THEN 0 ELSE credits[n]) + FreeAmount
  <2>1. gone' = gone
    BY <1>9 DEF Heartbeat
  <2>2. total \in Int /\ total >= -2
    <3>1. FreeAmount \in Nat
      BY LedgerConstants
    <3> QED
      BY ONLY <1>2, <1>3, <3>1, n \in Nodes
  <2>3. CASE /\ credits' = [credits EXCEPT ![n] = total]
             /\ credit_balance' = [credit_balance EXCEPT ![n] = total]
    <3> HIDE DEF total
    <3> QED
      BY <1>2, <1>3, <2>1, <2>2, <2>3 DEF SameBalance
  <2>4. CASE UNCHANGED <<credits, credit_balance>>
    BY <1>3, <2>1, <2>4 DEF SameBalance
  <2> QED
    BY <1>9, <2>3, <2>4 DEF Heartbeat, books
<1>10. CASE UNCHANGED <<credit_balance, credits, earned, spent, ties, gates, gone>>
  BY <1>3, <1>10 DEF SameBalance
<1> QED
  BY <1>2, <1>5, <1>6, <1>7, <1>8, <1>9, <1>10, OtherSteps

\* Initially nobody has credit.
LEMMA InitIInv ==
  ASSUME Init
  PROVE  IInv
<1>1. TypeOK
  BY LedgerConstants DEF Init, TypeOK, Requests
<1>2. LedgerAgrees /\ Floor
  BY DEF Init, LedgerAgrees, SameBalance, Floor, Tick
<1> QED
  BY <1>1, <1>2 DEF IInv

-----------------------------------------------------------------------------
(* Balances and sums.                                                      *)

\* Rounding after an award is rounding the award.
LEMMA AwardRounds ==
  ASSUME NEW l \in Int, l % 2 = 0, l >= -2, NEW a \in Nat, a # 1
  PROVE  Stored(l + a) = l + Stored(a)
  BY DEF Stored

\* Rounding after a debit is rounding the debit, or a tick more if it is a tie.
LEMMA DebitRounds ==
  ASSUME NEW b \in Int, b % 2 = 0, NEW t \in Nat
  PROVE  \E d \in Nat : d <= 2 * (t % 2) /\ Stored(b - t) = b - Stored(t) + d
<1>1. CASE t % 2 = 0
  <2>1. Stored(t) = t /\ Stored(b - t) = b - t
    BY <1>1 DEF Stored
  <2> QED
    BY <1>1, <2>1
<1>2. CASE t % 2 = 1
  <2>1. Stored(t) = t + 1 /\ (b - t) % 2 = 1
    BY <1>2 DEF Stored
  <2>2. Stored(b - t) = b - t - 1 \/ Stored(b - t) = b - t + 1
    BY <2>1 DEF Stored
  <2>3. Stored(b - t) = b - Stored(t) + 0 \/ Stored(b - t) = b - Stored(t) + 2
    BY <2>1, <2>2
  <2> QED
    BY <1>2, <2>3
<1> QED
  BY <1>1, <1>2

\* How far the balance of a node is above the difference of its sums.
Drift(n) == credit_balance[n] - (earned[n] - spent[n])

\* A balance is off by at most a tick for every tie, registered or not.
Booked == \A n \in Nodes \ gone : Drift(n) \in 0..2 * ties[n]

\* Awards, debits, sweeps and free allocations keep stored balances whole and
\* the sums in step.
LEMMA NextBooked ==
  ASSUME IInv, Whole, Booked, [Next]_vars
  PROVE  Whole' /\ Booked'
<1>2. /\ credit_balance \in [Nodes -> Int] /\ credits \in [Nodes -> Int \union {NoRow}]
      /\ earned \in [Nodes -> Nat] /\ spent \in [Nodes -> Nat] /\ sweep \in [Nodes -> Nat]
      /\ ties \in [Nodes -> Nat]
      /\ registered \subseteq Nodes /\ NoRow \notin Int
      /\ TypeOK
  BY LedgerConstants DEF IInv, TypeOK
<1>3. \A n \in Nodes : /\ credit_balance[n] % 2 = 0
                       /\ credits[n] # NoRow => credits[n] % 2 = 0
                       /\ n \notin gone => Drift(n) \in 0..2 * ties[n]
                       /\ n \notin gone => SameBalance(n)
                       /\ credit_balance[n] >= -2
                       /\ credits[n] # NoRow => credits[n] >= -2
  BY DEF Whole, Booked, IInv, LedgerAgrees, Floor, Tick
<1> DEFINE Kept(m) == /\ credit_balance'[m] % 2 = 0
                      /\ credits'[m] # NoRow => credits'[m] % 2 = 0
                      /\ m \notin gone' => Drift(m)' \in 0..2 * ties'[m]
<1>4. SUFFICES ASSUME NEW m \in Nodes PROVE Kept(m)
  BY DEF Whole, Booked
<1>a. ASSUME gone \subseteq gone', credit_balance'[m] = credit_balance[m],
             credits'[m] = credits[m], earned'[m] = earned[m], spent'[m] = spent[m],
             ties'[m] = ties[m]
      PROVE  Kept(m)
  BY <1>3, <1>a DEF Drift
<1>b. ASSUME gone' = gone, credit_balance'[m] % 2 = 0, credits'[m] % 2 = 0,
             m \notin gone => Drift(m)' \in 0..2 * ties'[m]
      PROVE  Kept(m)
  BY <1>b
<1> HIDE DEF Kept
<1>5. ASSUME NEW n \in Nodes, Deregister(n)
      PROVE  Kept(m)
  <2>1. CASE m # n
    BY <1>2, <1>5, <1>a, <2>1 DEF Deregister
  <2>2. CASE m = n
    <3>1. m \in gone' /\ credit_balance'[m] = 0 /\ credits'[m] = credits[m]
      BY <1>2, <1>5, <2>2 DEF Deregister
    <3> QED
      BY <1>3, <3>1 DEF Kept
  <2> QED
    BY <2>1, <2>2
<1>6. ASSUME NEW h \in Handlers, RecordAward(h)
      PROVE  Kept(m)
  <2>1. PICK n \in registered, a \in Amounts, l \in Int :
           /\ IF credits[n] = NoRow THEN l = credit_balance[n] ELSE l = credits[n]
           /\ credits' = [credits EXCEPT ![n] = Stored(l + a)]
           /\ credit_balance' = [credit_balance EXCEPT ![n] = Stored(l + a)]
           /\ earned' = [earned EXCEPT ![n] = @ + Stored(a)]
           /\ UNCHANGED <<spent, ties, gone>>
    BY <1>2, <1>6, AwardEffect
  <2>2. CASE m # n
    BY <1>2, <1>a, <2>1, <2>2
  <2>3. CASE m = n
    <3>1. a \in Nat /\ a # 1 /\ l \in Int /\ l % 2 = 0 /\ l >= -2
      BY <1>2, <1>3, <2>1, LedgerConstants
    <3>2. l + a \in Int /\ Stored(a) \in Int
      BY <3>1, StoredFacts
    <3>3. Stored(l + a) = l + Stored(a) /\ Stored(l + a) % 2 = 0
      BY <3>1, <3>2, StoredFacts, AwardRounds
    <3>4. m \notin gone => l = credit_balance[m]
      BY <1>3, <2>1, <2>3 DEF SameBalance
    <3>5. /\ credits'[m] = Stored(l + a) /\ credit_balance'[m] = Stored(l + a)
          /\ earned'[m] = earned[m] + Stored(a) /\ spent'[m] = spent[m] /\ gone' = gone
          /\ ties'[m] = ties[m]
      BY <1>2, <2>1, <2>3
    <3>6. m \notin gone => Drift(m)' = Drift(m)
      <4>1. earned[m] \in Int /\ spent[m] \in Int
        BY <1>2
      <4> QED
        BY <3>1, <3>2, <3>3, <3>4, <3>5, <4>1 DEF Drift
    <3> QED
      BY <1>3, <1>b, <3>3, <3>5, <3>6
  <2> QED
    BY <2>2, <2>3
<1>7. ASSUME NEW h \in Handlers, DebitNode(h) \/ DebitWallet(h)
      PROVE  Kept(m)
  <2>1. gone' = gone /\ earned' = earned
    BY <1>2, <1>7, DebitFrame
  <2>2. CASE /\ credit_balance'[m] = credit_balance[m] /\ credits'[m] = credits[m]
             /\ spent'[m] = spent[m] /\ ties'[m] = ties[m]
    BY <1>a, <2>1, <2>2
  <2>3. ASSUME NEW t \in Nat, Agree(m),
               credit_balance'[m] = Stored(credit_balance[m] - t),
               credits'[m] = Stored(credits[m] - t),
               spent'[m] = spent[m] + Stored(t),
               ties'[m] = ties[m] + (t % 2)
        PROVE  Kept(m)
    <3>1. /\ credit_balance[m] \in Int /\ credits[m] \in Int /\ t \in Int
          /\ credit_balance[m] % 2 = 0 /\ Stored(t) \in Int
          /\ earned[m] \in Int /\ spent[m] \in Int /\ ties[m] \in Int
      BY <1>2, <1>3, <2>3, StoredFacts DEF Agree
    <3>2. credit_balance[m] - t \in Int /\ credits[m] - t \in Int
      BY <3>1
    <3>3. credit_balance'[m] % 2 = 0 /\ credits'[m] % 2 = 0
      BY <2>3, <3>2, StoredFacts
    <3>4. PICK d \in Nat : /\ d <= 2 * (t % 2)
                           /\ Stored(credit_balance[m] - t) = credit_balance[m] - Stored(t) + d
      BY <3>1, DebitRounds
    <3>5. Drift(m)' = Drift(m) + d
      BY <2>1, <2>3, <3>1, <3>4 DEF Drift
    <3>6. Drift(m) \in Int /\ t % 2 \in Int
      BY <3>1 DEF Drift
    <3>7. ASSUME m \notin gone
          PROVE  Drift(m)' \in 0..2 * ties'[m]
      <4>1. Drift(m) >= 0 /\ Drift(m) <= 2 * ties[m]
        BY <1>3, <3>1, <3>6, <3>7
      <4>2. \A x, y, z, w \in Int : x <= 2 * z /\ y <= 2 * w => x + y <= 2 * (z + w)
        OBVIOUS
      <4>3. Drift(m) + d <= 2 * (ties[m] + (t % 2))
        <5>1. d \in Int /\ ties[m] \in Int /\ t % 2 \in Int /\ Drift(m) \in Int
          BY <3>1, <3>4, <3>6
        <5>2. d <= 2 * (t % 2) /\ Drift(m) <= 2 * ties[m]
          BY <3>4, <4>1
        <5> QED
          BY ONLY <4>2, <5>1, <5>2
      <4>4. Drift(m) + d \in Int /\ Drift(m) + d >= 0 /\ 2 * (ties[m] + (t % 2)) \in Int
        BY <3>1, <3>6, <4>1
      <4> QED
        BY <2>3, <3>5, <4>3, <4>4
    <3> QED
      BY <1>b, <2>1, <3>3, <3>7
  <2> QED
    BY <1>2, <1>7, <2>2, <2>3, DebitEffect
<1>8. ASSUME NEW n \in Nodes, SweepNode(n)
      PROVE  Kept(m)
  <2>1. gone' = gone
    BY <1>8 DEF SweepNode
  <2>2. CASE UNCHANGED books
    BY <1>a, <2>1, <2>2 DEF books
  <2>3. CASE /\ credit_balance[n] = sweep[n]
             /\ credit_balance' = [credit_balance EXCEPT ![n] = 0]
             /\ credits' = [credits EXCEPT ![n] = 0]
             /\ spent' = [spent EXCEPT ![n] = @ + sweep[n]]
             /\ UNCHANGED <<earned, ties>>
    <3>1. CASE m # n
      BY <1>2, <1>a, <2>1, <2>3, <3>1
    <3>2. CASE m = n
      <4>1. /\ credit_balance'[m] = 0 /\ credits'[m] = 0
            /\ spent'[m] = spent[m] + credit_balance[m] /\ earned'[m] = earned[m]
            /\ ties'[m] = ties[m]
        BY <1>2, <2>3, <3>2
      <4>2. Drift(m)' = Drift(m)
        BY <1>2, <4>1 DEF Drift
      <4> QED
        BY <1>3, <1>b, <2>1, <4>1, <4>2
    <3> QED
      BY <3>1, <3>2
  <2> QED
    BY <1>8, <2>2, <2>3 DEF SweepNode
<1>9. ASSUME NEW n \in Nodes, NEW ip \in Ips, Heartbeat(n, ip)
      PROVE  Kept(m)
  <2> DEFINE ledger == IF credits[n] = NoRow THEN 0 ELSE credits[n]
  <2>1. gone' = gone
    BY <1>9 DEF Heartbeat
  <2>2. CASE UNCHANGED <<books, gates>>
    BY <1>a, <2>1, <2>2 DEF books
  <2>3. CASE /\ credits' = [credits EXCEPT ![n] = ledger + FreeAmount]
             /\ credit_balance' = [credit_balance EXCEPT ![n] = ledger + FreeAmount]
             /\ earned' = [earned EXCEPT ![n] = @ + FreeAmount]
             /\ UNCHANGED <<spent, ties>>
    <3>1. CASE m # n
      BY <1>2, <1>a, <2>1, <2>3, <3>1
    <3>2. CASE m = n
      <4>1. FreeAmount \in Int /\ FreeAmount % 2 = 0
        BY LedgerConstants
      <4>2. ledger \in Int /\ ledger % 2 = 0
        BY <1>2, <1>3
      <4>3. (ledger + FreeAmount) % 2 = 0
        BY <4>1, <4>2, EvenSums
      <4>4. m \notin gone => ledger = credit_balance[m]
        BY <1>3, <3>2 DEF SameBalance
      <4> HIDE DEF ledger
      <4>5. /\ credits'[m] = ledger + FreeAmount /\ credit_balance'[m] = ledger + FreeAmount
            /\ earned'[m] = earned[m] + FreeAmount /\ spent'[m] = spent[m]
            /\ ties'[m] = ties[m]
        BY <1>2, <2>3, <3>2
      <4>6. m \notin gone => Drift(m)' = Drift(m)
        <5>1. earned[m] \in Int /\ spent[m] \in Int
          BY <1>2
        <5> QED
          BY <4>1, <4>2, <4>4, <4>5, <5>1 DEF Drift
      <4>7. credit_balance'[m] % 2 = 0 /\ credits'[m] % 2 = 0
        BY ONLY <4>3, <4>5, Zenon
      <4> QED
        BY <1>3, <1>b, <2>1, <4>5, <4>6, <4>7
    <3> QED
      BY <3>1, <3>2
  <2> QED
    BY <1>9, <2>2, <2>3 DEF Heartbeat
<1>10. CASE UNCHANGED <<credit_balance, credits, earned, spent, ties, gates, gone>>
  BY <1>a, <1>10
<1> QED
  BY <1>2, <1>5, <1>6, <1>7, <1>8, <1>9, <1>10, OtherSteps

-----------------------------------------------------------------------------
(* Free allocations.                                                       *)

\* The gates of a node and of an address are not older than any allocation.
GatesRecent ==
  \A i \in 1..Len(allocations) : /\ allocations[i].at <= free_at[allocations[i].node]
                                 /\ allocations[i].at <= ip_at[allocations[i].ip]

\* A sequence and its rows after one more row.
LEMMA AppendedRow ==
  ASSUME NEW S, NEW s \in Seq(S), NEW e \in S
  PROVE  /\ Len(s) \in Nat /\ Len(Append(s, e)) = Len(s) + 1
         /\ Append(s, e)[Len(s) + 1] = e
         /\ \A i \in 1..Len(s) : Append(s, e)[i] = s[i] /\ s[i] \in S
OBVIOUS

\* Only a heartbeat touches the gates; a deregistration leaves them.
LEMMA NextGates ==
  ASSUME TypeOK, GatesRecent, FreeGate, [Next]_vars
  PROVE  GatesRecent' /\ FreeGate'
<1>1. CASE UNCHANGED gates
  BY <1>1 DEF gates, GatesRecent, FreeGate
<1>2. ASSUME NEW n \in Nodes, NEW ip \in Ips, Heartbeat(n, ip), ~ UNCHANGED gates
      PROVE  GatesRecent' /\ FreeGate'
  <2> DEFINE row == [node |-> n, ip |-> ip, at |-> now]
             len == Len(allocations)
  <2>1. /\ GateOpen(free_at[n]) /\ GateOpen(ip_at[ip])
        /\ free_at' = [free_at EXCEPT ![n] = now]
        /\ ip_at' = [ip_at EXCEPT ![ip] = now]
        /\ allocations' = Append(allocations, row)
    BY <1>2 DEF Heartbeat
  <2>2. /\ allocations \in Seq([node : Nodes, ip : Ips, at : Nat])
        /\ free_at \in [Nodes -> Int] /\ ip_at \in [Ips -> Int]
        /\ now \in Nat /\ Gate \in Nat /\ len \in Nat
    BY LedgerConstants DEF TypeOK
  <2>3. /\ Len(allocations') = len + 1
        /\ allocations'[len + 1] = row
        /\ \A i \in 1..len : /\ allocations'[i] = allocations[i]
                             /\ allocations[i] \in [node : Nodes, ip : Ips, at : Nat]
    <3>1. row \in [node : Nodes, ip : Ips, at : Nat]
      BY <2>2
    <3> HIDE DEF row
    <3>2. allocations' = Append(allocations, row)
      BY <2>1
    <3> DEFINE longer == Append(allocations, row)
    <3>3. /\ Len(longer) = len + 1
          /\ longer[len + 1] = row
          /\ \A i \in 1..len : /\ longer[i] = allocations[i]
                               /\ allocations[i] \in [node : Nodes, ip : Ips, at : Nat]
      <4> DEFINE Row == [node : Nodes, ip : Ips, at : Nat]
      <4>1. allocations \in Seq(Row) /\ row \in Row
        BY ONLY <2>2, <3>1
      <4> HIDE DEF Row
      <4>2. \A i \in 1..len : allocations[i] \in Row
        BY ONLY <4>1, AppendedRow
      <4>3. /\ Len(longer) = len + 1
            /\ longer[len + 1] = row
            /\ \A i \in 1..len : longer[i] = allocations[i]
        BY ONLY <4>1, AppendedRow
      <4> QED
        BY ONLY <4>2, <4>3, Zenon DEF Row
    <3> HIDE DEF longer
    <3>4. allocations' = longer
      BY ONLY <3>2 DEF longer
    <3> QED
      BY ONLY <3>3, <3>4, Zenon
  <2>4. free_at[n] <= now - Gate /\ ip_at[ip] <= now - Gate
    BY <2>1 DEF GateOpen
  <2>5. \A i \in 1..len : /\ allocations[i].at <= free_at[allocations[i].node]
                          /\ allocations[i].at <= ip_at[allocations[i].ip]
    BY DEF GatesRecent
  <2>6. \A i \in 1..len : allocations[i].node = n \/ allocations[i].ip = ip
                            => allocations[i].at <= now - Gate
    <3>1. ASSUME NEW i \in 1..len, allocations[i].node = n \/ allocations[i].ip = ip
          PROVE  allocations[i].at <= now - Gate
      <4>1. allocations[i].at \in Int /\ free_at[n] \in Int /\ ip_at[ip] \in Int /\ now - Gate \in Int
        BY <2>2, <2>3, <3>1
      <4> QED
        BY <2>4, <2>5, <3>1, <4>1
    <3> QED
      BY <3>1
  <2>7. \A i \in 1..(len + 1) : i \in 1..len \/ i = len + 1
    BY <2>2
  <2>8. GatesRecent'
    <3>1. ASSUME NEW i \in 1..len
          PROVE  /\ allocations'[i].at <= free_at'[allocations'[i].node]
                 /\ allocations'[i].at <= ip_at'[allocations'[i].ip]
      <4>1. allocations'[i] = allocations[i] /\ allocations[i].at \in Nat
            /\ allocations[i].node \in Nodes /\ allocations[i].ip \in Ips
        BY <2>3
      <4>2. CASE allocations[i].node = n
        BY <2>1, <2>2, <2>5, <2>6, <4>1, <4>2
      <4>3. CASE allocations[i].node # n
        BY <2>1, <2>2, <2>5, <2>6, <4>1, <4>3
      <4> QED
        BY <4>2, <4>3
    <3>2. /\ allocations'[len + 1].at <= free_at'[allocations'[len + 1].node]
          /\ allocations'[len + 1].at <= ip_at'[allocations'[len + 1].ip]
      BY <2>1, <2>2, <2>3
    <3> QED
      BY <2>3, <2>7, <3>1, <3>2 DEF GatesRecent
  <2>9. FreeGate'
    <3>1. SUFFICES ASSUME NEW i \in 1..(len + 1), NEW j \in 1..(len + 1), i < j,
                          \/ allocations'[i].node = allocations'[j].node
                          \/ allocations'[i].ip = allocations'[j].ip
                   PROVE  allocations'[j].at - allocations'[i].at >= Gate
      BY <2>3 DEF FreeGate
    <3>2. i \in 1..len
      BY <2>2, <3>1
    <3>3. CASE j \in 1..len
      BY <2>3, <3>1, <3>2, <3>3 DEF FreeGate
    <3>4. CASE j = len + 1
      <4>1. /\ allocations'[j].node = n /\ allocations'[j].ip = ip /\ allocations'[j].at = now
            /\ allocations'[i] = allocations[i] /\ allocations[i].at \in Nat
        BY <2>3, <3>2, <3>4
      <4>2. allocations[i].at <= now - Gate
        BY <2>6, <3>1, <3>2, <4>1
      <4> QED
        BY <2>2, <4>1, <4>2
    <3> QED
      BY <2>7, <3>3, <3>4
  <2> QED
    BY <2>8, <2>9
<1>3. CASE ~ UNCHANGED gates
  <2>1. \E n \in Nodes, ip \in Ips : Heartbeat(n, ip)
    BY <1>3, DebitFrame DEF Next, vars, ClockTick, Register, Deregister, Archive, StartAward,
       RecordAward, LookupScope, StopRequest, SweepRead, SweepNode, SweepFails
  <2> QED
    BY <1>2, <1>3, <2>1
<1> QED
  BY <1>1, <1>3

-----------------------------------------------------------------------------
(* Every earn is backed.                                                   *)

\* The free allocations of a node, by their place in the history.
Grants(n) == {i \in 1..Len(allocations) : allocations[i].node = n}

\* Each node has used finitely many nonces: it earns one at a time.
FewNonces == \A n \in Nodes : IsFiniteSet(used[n])

\* A bound of so many awards and so many free allocations, after one more of
\* either.
LEMMA OneMoreEarn ==
  ASSUME NEW e \in Nat, NEW top \in Nat, NEW awards \in Nat, NEW free \in Nat, NEW grants \in Nat,
         e <= top * awards + free * grants,
         NEW a \in Nat, a <= top
  PROVE  /\ e + a <= top * (awards + 1) + free * grants
         /\ e + free <= top * awards + free * (grants + 1)
<1>1. top * (awards + 1) = top * awards + top /\ free * (grants + 1) = free * grants + free
  OBVIOUS
<1>2. top * awards \in Nat /\ free * grants \in Nat
  OBVIOUS
<1> QED
  BY <1>1, <1>2

\* The larger amount is not stored as the smaller number.
LEMMA StoredMonotone ==
  ASSUME NEW a \in Nat, NEW top \in Nat, a <= top
  PROVE  Stored(a) <= Stored(top) /\ Stored(a) \in Nat /\ Stored(top) \in Nat
  BY DEF Stored

\* A step that changes the gates is a heartbeat that grants free credits.
LEMMA GrantEffect ==
  ASSUME TypeOK, NEW n \in Nodes, NEW ip \in Ips, Heartbeat(n, ip), ~ UNCHANGED gates
  PROVE  /\ earned' = [earned EXCEPT ![n] = @ + FreeAmount] /\ used' = used
         /\ Len(allocations) \in Nat
         /\ \A m \in Nodes : Grants(m)' = IF m = n THEN Grants(m) \union {Len(allocations) + 1}
                                          ELSE Grants(m)
<1> DEFINE row == [node |-> n, ip |-> ip, at |-> now]
           Row == [node : Nodes, ip : Ips, at : Nat]
           len == Len(allocations)
           longer == Append(allocations, row)
<1>1. /\ earned' = [earned EXCEPT ![n] = @ + FreeAmount] /\ used' = used
      /\ allocations' = longer
  BY DEF Heartbeat
<1>2. allocations \in Seq(Row) /\ row \in Row /\ row.node = n
  BY LedgerConstants DEF TypeOK
<1>3. len \in Nat
  BY <1>2
<1> HIDE DEF row, Row
<1>4. /\ Len(longer) = len + 1 /\ longer[len + 1] = row
      /\ \A i \in 1..len : longer[i] = allocations[i]
  BY ONLY <1>2, AppendedRow
<1>5. \A i : i \in 1..(len + 1) <=> i \in 1..len \/ i = len + 1
  BY <1>3
<1> HIDE DEF longer, len
<1>6. ASSUME NEW m \in Nodes
      PROVE  Grants(m)' = {i \in 1..(len + 1) : longer[i].node = m}
  BY <1>1, <1>4 DEF Grants
<1>7. ASSUME NEW m \in Nodes
      PROVE  Grants(m) = {i \in 1..len : allocations[i].node = m}
  BY DEF Grants, len
<1>8. ASSUME NEW m \in Nodes, NEW i
      PROVE  i \in Grants(m)' <=> i \in Grants(m) \/ (i = len + 1 /\ m = n)
  BY <1>2, <1>4, <1>5, <1>6, <1>7, <1>3
<1>9. ASSUME NEW m \in Nodes
      PROVE  Grants(m)' = IF m = n THEN Grants(m) \union {len + 1} ELSE Grants(m)
  BY <1>8
<1> QED
  BY <1>1, <1>3, <1>9 DEF len

\* An award adds a nonce to what backs the node's earns, a free allocation adds
\* itself, and a deregistration takes the nonces away with the earns.
LEMMA NextBacked ==
  ASSUME TypeOK, FewNonces, EarnsBacked, [Next]_vars
  PROVE  FewNonces' /\ EarnsBacked'
<1> DEFINE Bound(n, top) == Stored(top) * Cardinality(used[n]) + FreeAmount * Cardinality(Grants(n))
           Kept(n) == /\ IsFiniteSet(used'[n])
                      /\ \A top \in Amounts : (\A a \in Amounts : a <= top) =>
                           earned'[n] <= Stored(top) * Cardinality(used'[n])
                                         + FreeAmount * Cardinality(Grants(n)')
<1>1. /\ earned \in [Nodes -> Nat] /\ used \in [Nodes -> SUBSET Nonces]
      /\ Amounts \subseteq Nat /\ FreeAmount \in Nat
      /\ registered \subseteq Nodes
      /\ allocations \in Seq([node : Nodes, ip : Ips, at : Nat])
  BY LedgerConstants DEF TypeOK
<1>2. ASSUME NEW n \in Nodes
      PROVE  IsFiniteSet(Grants(n)) /\ Cardinality(Grants(n)) \in Nat
             /\ IsFiniteSet(used[n]) /\ Cardinality(used[n]) \in Nat
  <2>1. Len(allocations) \in Int /\ 1 \in Int
    BY <1>1
  <2>2. IsFiniteSet(1..Len(allocations)) /\ Grants(n) \in SUBSET (1..Len(allocations))
    BY <2>1, FS_Interval DEF Grants
  <2>3. IsFiniteSet(Grants(n)) /\ IsFiniteSet(used[n])
    BY <2>2, FS_Subset DEF FewNonces
  <2> QED
    BY <2>3, FS_CardinalityType
<1>3. ASSUME NEW n \in Nodes, NEW top \in Amounts, \A a \in Amounts : a <= top
      PROVE  earned[n] <= Stored(top) * Cardinality(used[n]) + FreeAmount * Cardinality(Grants(n))
  BY <1>3 DEF EarnsBacked, Grants
<1>4. SUFFICES ASSUME NEW m \in Nodes PROVE Kept(m)
  BY DEF FewNonces, EarnsBacked, Grants
<1>5. CASE earned'[m] = earned[m] /\ used'[m] = used[m] /\ Grants(m)' = Grants(m)
  BY <1>2, <1>3, <1>5
<1>6. ASSUME NEW n \in Nodes, Deregister(n), m = n
      PROVE  Kept(m)
  <2>1. earned'[m] = 0 /\ used'[m] = {} /\ allocations' = allocations
    BY <1>1, <1>6 DEF Deregister, gates
  <2>2. Grants(m)' = Grants(m) /\ Cardinality(used'[m]) = 0 /\ IsFiniteSet(used'[m])
    BY <2>1, FS_EmptySet DEF Grants
  <2>3. ASSUME NEW top \in Amounts
        PROVE  0 <= Stored(top) * 0 + FreeAmount * Cardinality(Grants(m))
    <3>1. Stored(top) \in Nat
      BY <1>1, StoredMonotone
    <3>2. \A x, y \in Nat : x * y \in Nat
      OBVIOUS
    <3>3. FreeAmount * Cardinality(Grants(m)) \in Nat
      BY <1>1, <1>2, <3>2
    <3> QED
      BY <3>1, <3>3
  <2> QED
    BY <2>1, <2>2, <2>3
<1>7. ASSUME NEW h \in Handlers, RecordAward(h), m = request[h].node
      PROVE  Kept(m)
  <2> DEFINE r == request[h]
  <2>1. /\ r.amount \in Amounts /\ r.amount \in Nat /\ r.nonce \notin used[m]
        /\ earned'[m] = earned[m] + Stored(r.amount)
        /\ used'[m] = used[m] \union {r.nonce}
        /\ allocations' = allocations
    BY <1>1, <1>7, RequestFacts DEF RecordAward, FreshNonce, gates
  <2>2. /\ IsFiniteSet(used'[m]) /\ Cardinality(used'[m]) = Cardinality(used[m]) + 1
        /\ Grants(m)' = Grants(m)
    <3>1. Grants(m)' = Grants(m)
      BY <2>1 DEF Grants
    <3>2. IsFiniteSet(used[m])
      BY <1>2
    <3>3. /\ IsFiniteSet(used[m] \union {r.nonce})
          /\ Cardinality(used[m] \union {r.nonce}) = Cardinality(used[m]) + 1
      BY ONLY <2>1, <3>2, FS_AddElement
    <3> QED
      BY <2>1, <3>1, <3>3, Zenon
  <2>3. ASSUME NEW top \in Amounts, \A a \in Amounts : a <= top
        PROVE  earned[m] + Stored(r.amount) <=
                 Stored(top) * (Cardinality(used[m]) + 1) + FreeAmount * Cardinality(Grants(m))
    <3>1. /\ Stored(r.amount) <= Stored(top) /\ Stored(r.amount) \in Nat /\ Stored(top) \in Nat
      BY <1>1, <2>1, <2>3, StoredMonotone
    <3>2. earned[m] <= Stored(top) * Cardinality(used[m]) + FreeAmount * Cardinality(Grants(m))
      BY <1>3, <2>3
    <3>3. earned[m] \in Nat
      BY <1>1
    <3> QED
      BY ONLY <1>1, <1>2, <3>1, <3>2, <3>3, OneMoreEarn, m \in Nodes
  <2> QED
    BY <2>1, <2>2, <2>3
<1>8. ASSUME NEW n \in Nodes, NEW ip \in Ips, Heartbeat(n, ip), ~ UNCHANGED gates
      PROVE  Kept(m)
  <2> DEFINE len == Len(allocations)
  <2>1. /\ earned' = [earned EXCEPT ![n] = @ + FreeAmount] /\ used' = used /\ len \in Nat
        /\ Grants(m)' = IF m = n THEN Grants(m) \union {len + 1} ELSE Grants(m)
    BY <1>8, GrantEffect
  <2>2. CASE m # n
    BY <1>1, <1>5, <2>1, <2>2
  <2>3. CASE m = n
    <3>1. len + 1 \notin Grants(m)
      BY <2>1 DEF Grants
    <3>2. /\ Cardinality(Grants(m)') = Cardinality(Grants(m)) + 1
          /\ earned'[m] = earned[m] + FreeAmount /\ used'[m] = used[m]
      BY <1>1, <1>2, <2>1, <2>3, <3>1, FS_AddElement
    <3>3. ASSUME NEW top \in Amounts, \A a \in Amounts : a <= top
          PROVE  earned[m] + FreeAmount <=
                   Stored(top) * Cardinality(used[m]) + FreeAmount * (Cardinality(Grants(m)) + 1)
      <4>1. Stored(top) \in Nat
        BY <1>1, StoredMonotone
      <4>2. earned[m] <= Stored(top) * Cardinality(used[m]) + FreeAmount * Cardinality(Grants(m))
        BY <1>3, <3>3
      <4>3. earned[m] \in Nat /\ 0 \in Nat /\ 0 <= Stored(top)
        BY <1>1, <4>1
      <4> QED
        BY ONLY <1>1, <1>2, <4>1, <4>2, <4>3, OneMoreEarn, m \in Nodes
    <3> QED
      BY <1>2, <3>2, <3>3
  <2> QED
    BY <2>2, <2>3
<1>9. CASE \E n \in Nodes, ip \in Ips : Heartbeat(n, ip) /\ ~ UNCHANGED gates
  BY <1>8, <1>9
<1>10. CASE \E n \in Nodes : Deregister(n)
  <2>1. PICK n \in Nodes : Deregister(n)
    BY <1>10
  <2>2. CASE m # n
    <3>1. earned'[m] = earned[m] /\ used'[m] = used[m] /\ Grants(m)' = Grants(m)
      BY <1>1, <2>1, <2>2 DEF Deregister, Grants, gates
    <3> QED
      BY <1>5, <3>1
  <2> QED
    BY <1>6, <2>1, <2>2
<1>11. CASE \E h \in Handlers : RecordAward(h)
  <2>1. PICK h \in Handlers : RecordAward(h)
    BY <1>11
  <2>2. CASE m # request[h].node
    <3>1. earned'[m] = earned[m] /\ used'[m] = used[m] /\ Grants(m)' = Grants(m)
      BY <1>1, <2>1, <2>2 DEF RecordAward, Grants, gates
    <3> QED
      BY <1>5, <3>1
  <2> QED
    BY <1>7, <2>1, <2>2
<1>12. CASE UNCHANGED <<earned, used, allocations>>
  BY <1>5, <1>12 DEF Grants
<1>13. \/ \E n \in Nodes, ip \in Ips : Heartbeat(n, ip) /\ ~ UNCHANGED gates
       \/ \E n \in Nodes : Deregister(n)
       \/ \E h \in Handlers : RecordAward(h)
       \/ UNCHANGED <<earned, used, allocations>>
  <2>1. ASSUME NEW n \in Nodes, NEW ip \in Ips, Heartbeat(n, ip), UNCHANGED gates
        PROVE  UNCHANGED <<earned, used, allocations>>
    <3>1. ASSUME allocations' = Append(allocations, [node |-> n, ip |-> ip, at |-> now]),
                 allocations' = allocations
          PROVE  FALSE
      BY <1>1, <3>1
    <3> QED
      BY <2>1, <3>1 DEF Heartbeat, gates, books
  <2>2. ASSUME NEW h \in Handlers, DebitNode(h) \/ DebitWallet(h)
        PROVE  UNCHANGED <<earned, used, allocations>>
    BY <2>2, DebitFrame DEF gates
  <2>3. ASSUME NEW n \in Nodes, SweepNode(n)
        PROVE  UNCHANGED <<earned, used, allocations>>
    BY <2>3 DEF SweepNode, gates, books
  <2> QED
    BY <2>1, <2>2, <2>3 DEF Next, vars, ClockTick, Register, Archive, StartAward,
       LookupScope, StopRequest, SweepRead, SweepFails, gates, books
<1> QED
  BY <1>9, <1>10, <1>11, <1>12, <1>13

-----------------------------------------------------------------------------
(* Theorems.                                                               *)

\* The tables, requests and loops keep their types.
THEOREM LedgerTypeCorrect == Spec => []TypeOK
<1>1. Init => TypeOK
  BY InitIInv DEF IInv
<1>2. TypeOK /\ [Next]_vars => TypeOK'
  BY NextTypeOK
<1> QED
  BY <1>1, <1>2, PTL DEF Spec

\* However awards, debits of either scope, sweeps and free allocations
\* interleave, a node that was never deregistered has the same balance in both
\* tables.
THEOREM BalancesAgree == Spec => []LedgerAgrees
<1>1. Init => IInv
  BY InitIInv
<1>2. IInv /\ [Next]_vars => IInv'
  BY NextIInv
<1>3. IInv => LedgerAgrees
  BY DEF IInv
<1> QED
  BY <1>1, <1>2, <1>3, PTL DEF Spec

\* Racing debits never overdraw a balance by more than the tolerance.
THEOREM NeverOverdrawn == Spec => []NoOverdraft
<1>1. Init => IInv
  BY InitIInv
<1>2. IInv /\ [Next]_vars => IInv'
  BY NextIInv
<1>3. IInv => NoOverdraft
  BY DEF IInv, Floor, NoOverdraft
<1> QED
  BY <1>1, <1>2, <1>3, PTL DEF Spec

\* Whatever amounts are awarded: the balance that credits_summary compares is
\* the difference of the sums, but for at most a tick for each debit that lay
\* halfway between two ticks, and never below it.
THEOREM BalancesReconcile == Spec => []Reconciles
<1> DEFINE BInv == IInv /\ Whole /\ Booked
<1>1. Init => BInv
  <2>1. Init => Whole /\ Booked
    BY LedgerConstants DEF Init, Whole, Booked, Drift
  <2> QED
    BY <2>1, InitIInv
<1>2. BInv /\ [Next]_vars => BInv'
  BY NextIInv, NextBooked
<1>3. BInv => Reconciles
  BY DEF IInv, TypeOK, Booked, Reconciles, Drift, Tick
<1> QED
  BY <1>1, <1>2, <1>3, PTL DEF Spec

\* Free allocations to one node or address are a Gate apart, deregistrations
\* in between or not.
THEOREM FreeAllocationsGated == Spec => []FreeGate
<1> DEFINE GInv == TypeOK /\ GatesRecent /\ FreeGate
<1>1. Init => GInv
  <2>1. Init => GatesRecent /\ FreeGate
    BY DEF Init, GatesRecent, FreeGate
  <2> QED
    BY <2>1, InitIInv DEF IInv
<1>2. GInv /\ [Next]_vars => GInv'
  BY NextTypeOK, NextGates
<1>3. GInv => FreeGate
  OBVIOUS
<1> QED
  BY <1>1, <1>2, <1>3, PTL DEF Spec

\* No receipt pays twice: what a node has earned is covered by its distinct
\* nonces and its free allocations, however often a receipt is sent and however
\* its requests, the sweeps and the deregistrations interleave.
THEOREM EarnsAreBacked == Spec => []EarnsBacked
<1> DEFINE EInv == TypeOK /\ FewNonces /\ EarnsBacked
<1>1. Init => EInv
  <2> SUFFICES ASSUME Init PROVE EInv
    OBVIOUS
  <2>1. TypeOK
    BY InitIInv DEF IInv
  <2>2. ASSUME NEW n \in Nodes
        PROVE  IsFiniteSet(used[n]) /\ Cardinality(used[n]) = 0 /\ Cardinality(Grants(n)) = 0
    BY FS_EmptySet DEF Init, Grants
  <2>3. ASSUME NEW n \in Nodes, NEW top \in Amounts
        PROVE  earned[n] <= Stored(top) * Cardinality(used[n]) + FreeAmount * Cardinality(Grants(n))
    <3>1. Stored(top) \in Int /\ FreeAmount \in Int /\ earned[n] = 0
      BY StoredFacts, LedgerConstants DEF Init
    <3> QED
      BY <2>2, <3>1
  <2> QED
    BY <2>1, <2>2, <2>3 DEF FewNonces, EarnsBacked, Grants
<1>2. EInv /\ [Next]_vars => EInv'
  BY NextTypeOK, NextBacked
<1> QED
  BY <1>1, <1>2, PTL DEF Spec

=============================================================================
