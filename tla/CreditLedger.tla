---------------------------- MODULE CreditLedger ----------------------------
(***************************************************************************)
(* The credit ledger of the MySQL repository (src/db.rs) and the award     *)
(* handler that drives it (src/credits.rs).  A balance is kept twice, in   *)
(* nodes.credit_balance and in credits.balance, and both are justified by  *)
(* the rows of credit_transactions.  Each *_once function is one database  *)
(* transaction under row locks, hence one action; what happens between the *)
(* transactions of one request is up to the scheduler.                     *)
(*                                                                         *)
(* Quantities are counted in half ticks: a tick, the last digit of a       *)
(* DECIMAL(15,4) column, is 2, so that an f64 between two ticks has a      *)
(* representative and rounding it is visible.                              *)
(***************************************************************************)
EXTENDS Integers, Sequences, FiniteSets, Functions

CONSTANTS Nodes,       \* node ids
          Leavers,     \* those of them whose owners deregister them
          NoOperator,  \* nodes.operator_pubkey IS NULL or empty
          OperatorOf,  \* the operator a node is bound to
          Handlers,    \* concurrent credits_award requests
          NoNode,      \* a receipt without querying_node_id
          Nonces,      \* receipt nonces
          Ips,         \* heartbeat source addresses
          Amounts,     \* award amounts after the tokens_used cap
          FreeAmount,  \* FREE_AMOUNT of maybe_allocate_free_credits
          TTL,         \* the 90 days an earn stays spendable
          Gate,        \* the 6 hours between free allocations
          NoRow,       \* an absent credits row
          MaxTime      \* bound on the clock

ASSUME LedgerConstants ==
  /\ IsFiniteSet(Nodes) /\ NoNode \notin Nodes /\ Leavers \subseteq Nodes
  /\ NoRow \notin Int
  /\ Amounts \subseteq Nat \ {1}   \* at least 0.0001, or 0 where tokens_used is
  /\ FreeAmount \in Nat /\ FreeAmount % 2 = 0
  /\ TTL \in Nat /\ Gate \in Nat /\ MaxTime \in Nat

VARIABLES
  now,            \* the database clock
  registered,     \* ids with a row in nodes
  archived,       \* those of them with status 'archived'
  credit_balance, \* nodes.credit_balance (0 while there is no row)
  credits,        \* credits.balance, or NoRow; no foreign key ties it to nodes
  earned,         \* SUM(amount) of a node's 'credit' transactions
  spent,          \* SUM(amount) of a node's 'debit' transactions
  expiries,       \* the expires_at of a node's 'credit' transactions
  used,           \* the nonces of a node's transactions
  ties,           \* history: how many debits of a node lay between two ticks
  free_at,        \* credits.free_credit_last_allocation_at, -Gate if NULL
  ip_at,          \* credit_ip_gates.last_allocation_at, -Gate if NULL
  request,        \* per handler: what it is doing
  sweep,          \* the balances the expiry loop read, 0 where there is none
  allocations,    \* history: the free allocations that were committed
  gone            \* history: nodes that were deregistered at some time

books == <<credit_balance, credits, earned, spent, expiries, used, ties>>
gates == <<free_at, ip_at, allocations>>
vars  == <<now, registered, archived, books, gates, request, sweep, gone>>

\* One unit of the last stored digit, the code's tolerance 0.0001.
Tick == 2

Idle == [pc |-> "idle"]

Init ==
  /\ now = 0
  /\ registered = {}
  /\ archived = {}
  /\ credit_balance = [n \in Nodes |-> 0]
  /\ credits = [n \in Nodes |-> NoRow]
  /\ earned = [n \in Nodes |-> 0]
  /\ spent = [n \in Nodes |-> 0]
  /\ expiries = [n \in Nodes |-> {}]
  /\ used = [n \in Nodes |-> {}]
  /\ ties = [n \in Nodes |-> 0]
  /\ free_at = [n \in Nodes |-> -Gate]
  /\ ip_at = [i \in Ips |-> -Gate]
  /\ request = [h \in Handlers |-> Idle]
  /\ sweep = [n \in Nodes |-> 0]
  /\ allocations = <<>>
  /\ gone = {}

-----------------------------------------------------------------------------
(* The nodes table as the ledger sees it.                                  *)

\* INSERT INTO nodes leaves credit_balance at its default; a node that is
\* already there keeps its balance and becomes active.
Register(n) ==
  /\ registered' = registered \union {n}
  /\ archived' = archived \ {n}
  /\ UNCHANGED <<now, books, gates, request, sweep, gone>>

\* Wrong: the free allocation's gate goes with the node.
DeregisterClearsGate(n) ==
  /\ n \in registered \intersect Leavers
  /\ registered' = registered \ {n}
  /\ archived' = archived \ {n}
  /\ credit_balance' = [credit_balance EXCEPT ![n] = 0]
  /\ credits' = [credits EXCEPT ![n] = NoRow]
  /\ free_at' = [free_at EXCEPT ![n] = -Gate]
  /\ gone' = gone \union {n}
  /\ UNCHANGED <<now, earned, spent, expiries, used, ties, ip_at, allocations, request, sweep>>

\* DELETE FROM nodes: the foreign key of credit_transactions cascades, the
\* credits row has none and stays.
Deregister(n) ==
  /\ n \in registered \intersect Leavers
  /\ registered' = registered \ {n}
  /\ archived' = archived \ {n}
  /\ credit_balance' = [credit_balance EXCEPT ![n] = 0]
  /\ earned' = [earned EXCEPT ![n] = 0]
  /\ spent' = [spent EXCEPT ![n] = 0]
  /\ expiries' = [expiries EXCEPT ![n] = {}]
  /\ used' = [used EXCEPT ![n] = {}]
  /\ gone' = gone \union {n}
  /\ UNCHANGED <<now, credits, ties, gates, request, sweep>>

\* archive_dormant; the next heartbeat or registration makes the node active.
Archive(n) ==
  /\ n \in registered \ archived
  /\ archived' = archived \union {n}
  /\ UNCHANGED <<now, registered, books, gates, request, sweep, gone>>

ClockTick ==
  /\ now < MaxTime
  /\ now' = now + 1
  /\ UNCHANGED <<registered, archived, books, gates, request, sweep, gone>>

-----------------------------------------------------------------------------
(* Amounts and rows.                                                       *)

\* Storing a number in a DECIMAL(15,4) column, and f64::round, round a half
\* tick away from zero.
Stored(x) == IF x % 2 = 0 THEN x ELSE IF x > 0 THEN x + 1 ELSE x - 1

\* ABS(n.credit_balance - c.balance) <= 0.0001, on an existing credits row.
Agree(n) ==
  /\ credits[n] # NoRow
  /\ credit_balance[n] - credits[n] \in (-Tick)..Tick

(* Wrong variants, each a plausible slip in the code it stands for.        *)

AnyNonce(k) == k \in Nonces

AffordableUnpriced(n, amount) == credit_balance[n] >= 0 /\ amount >= 0

DebitNodesOnly(from, take) ==
  /\ credit_balance' = [n \in Nodes |-> IF n \in from THEN Stored(credit_balance[n] - take[n])
                                                      ELSE credit_balance[n]]
  /\ spent' = [n \in Nodes |-> IF n \in from THEN spent[n] + Stored(take[n]) ELSE spent[n]]
  /\ UNCHANGED <<credits, earned, expiries, used, ties>>

DebitUnrecorded(from, take) ==
  /\ credit_balance' = [n \in Nodes |-> IF n \in from THEN Stored(credit_balance[n] - take[n])
                                                      ELSE credit_balance[n]]
  /\ credits' = [n \in Nodes |-> IF n \in from THEN Stored(credits[n] - take[n]) ELSE credits[n]]
  /\ UNCHANGED <<spent, earned, expiries, used, ties>>

\* The UNIQUE key on credit_transactions.nonce lets the INSERT through.
FreshNonce(k) == \A m \in Nodes : k \notin used[m]

\* The balance conditions of debit_node_once's guarded UPDATE.
Affordable(n, amount) ==
  credit_balance[n] + Tick >= amount /\ credits[n] + Tick >= amount

\* last_allocation_at is NULL or not later than six hours ago.
GateOpen(last) == last <= now - Gate

\* UPDATE nodes JOIN credits and one 'debit' row, for each node that pays.
Debit(from, take) ==
  /\ credit_balance' = [n \in Nodes |-> IF n \in from THEN Stored(credit_balance[n] - take[n])
                                                      ELSE credit_balance[n]]
  /\ credits' = [n \in Nodes |-> IF n \in from THEN Stored(credits[n] - take[n]) ELSE credits[n]]
  /\ spent' = [n \in Nodes |-> IF n \in from THEN spent[n] + Stored(take[n]) ELSE spent[n]]
  /\ ties' = [n \in Nodes |-> IF n \in from THEN ties[n] + (take[n] % 2) ELSE ties[n]]
  /\ UNCHANGED <<earned, expiries, used>>

-----------------------------------------------------------------------------
(* credits_award.                                                          *)

\* The checks before the award: the receipt is the node's own, a querying
\* node exists, and neither the node nor its operator pays itself.
StartAward(h) ==
  /\ request[h] = Idle
  /\ \E n \in registered, c \in registered \union {NoNode}, a \in Amounts, k \in Nonces :
       /\ c # n
       /\ c # NoNode /\ OperatorOf[n] # NoOperator => OperatorOf[c] # OperatorOf[n]
       /\ request' = [request EXCEPT ![h] =
                        [pc |-> "award", node |-> n, consumer |-> c, amount |-> a, nonce |-> k]]
  /\ UNCHANGED <<now, registered, archived, books, gates, sweep, gone>>

\* record_credit_award_once.  A missing credits row is created from the
\* node's balance; the UNIQUE nonce refuses a second payment.
RecordAward(h) ==
  LET r == request[h]
      n == r.node
      ledger == IF credits[n] = NoRow THEN credit_balance[n] ELSE credits[n]
      total == Stored(ledger + r.amount)
  IN  /\ r.pc = "award"
      /\ n \in registered
      /\ credits[n] # NoRow => Agree(n)
      /\ FreshNonce(r.nonce)
      /\ credits' = [credits EXCEPT ![n] = total]
      /\ credit_balance' = [credit_balance EXCEPT ![n] = total]
      /\ earned' = [earned EXCEPT ![n] = @ + Stored(r.amount)]
      /\ expiries' = [expiries EXCEPT ![n] = @ \union {now + TTL}]
      /\ used' = [used EXCEPT ![n] = @ \union {r.nonce}]
      /\ request' = [request EXCEPT ![h] = IF r.consumer = NoNode THEN Idle
                                           ELSE [r EXCEPT !.pc = "scope"]]
      /\ UNCHANGED <<now, registered, archived, spent, ties, gates, sweep, gone>>

\* debit_for_consumer reads whose wallet pays, outside the transaction.
LookupScope(h) ==
  LET c == request[h].consumer
  IN  /\ request[h].pc = "scope"
      /\ request' = [request EXCEPT ![h] =
            [pc |-> "debit", consumer |-> c, amount |-> request[h].amount,
             operator |-> IF c \in registered THEN OperatorOf[c] ELSE NoOperator]]
      /\ UNCHANGED <<now, registered, archived, books, gates, sweep, gone>>

\* debit_node_once: the guarded UPDATE; the balance may end a tick below zero.
DebitNode(h) ==
  LET r == request[h]
  IN  /\ r.pc = "debit" /\ r.operator = NoOperator
      /\ r.consumer \in registered
      /\ Agree(r.consumer)
      /\ Affordable(r.consumer, r.amount)
      /\ Debit({r.consumer}, [n \in {r.consumer} |-> r.amount])
      /\ request' = [request EXCEPT ![h] = Idle]
      /\ UNCHANGED <<now, registered, archived, gates, sweep, gone>>

\* The expiries of a node's earns that are still ahead.
Live(n) == {e \in expiries[n] : e > now}

\* The operator's nodes that may pay: a positive balance and an unexpired earn.
Candidates(op) ==
  {n \in registered \ archived : /\ OperatorOf[n] = op
                                 /\ credit_balance[n] > 0
                                 /\ expiries[n] = {} \/ Live(n) # {}}

\* ORDER BY horizon IS NULL, horizon: the earliest expiry pays first.
Before(m, n) == \E e \in Live(m) : \A f \in Live(n) : e < f

\* The wallet loop over the paying nodes, in the order pos: rem[i] is what is
\* still missing after the i-th node.  Each gives what it has until no more
\* than half a tick is missing; in the end a missing tick passes.
Allocates(paying, pos, rem, amount) ==
  /\ \A m, n \in paying : Before(m, n) => pos[m] < pos[n]
  /\ rem[0] = amount
  /\ \A n \in paying :
       LET missing == rem[pos[n] - 1]
       IN  rem[pos[n]] = IF missing <= 1 THEN missing
                         ELSE IF missing > credit_balance[n] THEN missing - credit_balance[n] ELSE 0
  /\ rem[Cardinality(paying)] <= Tick

\* debit_operator_wallet_once: all candidates' rows are locked; a paying node
\* whose two balances disagree aborts the whole debit.
DebitWallet(h) ==
  LET r == request[h]
      paying == Candidates(r.operator)
      size == Cardinality(paying)
  IN  /\ r.pc = "debit" /\ r.operator # NoOperator
      /\ \E pos \in Bijection(paying, 1..size), rem \in [0..size -> 0..r.amount] :
           LET take == [n \in paying |-> rem[pos[n] - 1] - rem[pos[n]]]
               from == {n \in paying : take[n] > 0}
           IN  /\ Allocates(paying, pos, rem, r.amount)
               /\ \A n \in from : Agree(n)
               /\ Debit(from, take)
      /\ request' = [request EXCEPT ![h] = Idle]
      /\ UNCHANGED <<now, registered, archived, gates, sweep, gone>>

\* A refused or failed transaction rolls back and ends the request, as does a
\* caller that disconnects: an award already committed stays without a debit.
StopRequest(h) ==
  /\ request[h] # Idle
  /\ request' = [request EXCEPT ![h] = Idle]
  /\ UNCHANGED <<now, registered, archived, books, gates, sweep, gone>>

-----------------------------------------------------------------------------
(* expire_idle_node_credits and maybe_allocate_free_credits.               *)

\* The newest earn is strictly past its expiry and credit is left.
credit_ttl_idle(n) ==
  /\ expiries[n] # {} /\ \A e \in expiries[n] : e < now
  /\ credit_balance[n] > 0

\* Wrong: the sweep looks for a whole tick past the balance it wants.
SweepReadOff ==
  /\ sweep = [n \in Nodes |-> 0]
  /\ sweep' = [n \in Nodes |-> IF n \in registered /\ credit_ttl_idle(n)
                               THEN credit_balance[n] + Tick ELSE 0]
  /\ UNCHANGED <<now, registered, archived, books, gates, request, gone>>

\* The daily loop reads the idle nodes and their balances in one SELECT.
SweepRead ==
  /\ sweep = [n \in Nodes |-> 0]
  /\ sweep' = [n \in Nodes |-> IF n \in registered /\ credit_ttl_idle(n)
                               THEN credit_balance[n] ELSE 0]
  /\ UNCHANGED <<now, registered, archived, books, gates, request, gone>>

\* expire_idle_credit_once: zero both balances if the balance is the one read.
SweepNode(n) ==
  /\ sweep[n] # 0
  /\ sweep' = [sweep EXCEPT ![n] = 0]
  /\ IF n \in registered /\ credit_balance[n] = sweep[n] /\ Agree(n)
     THEN /\ credit_balance' = [credit_balance EXCEPT ![n] = 0]
          /\ credits' = [credits EXCEPT ![n] = 0]
          /\ spent' = [spent EXCEPT ![n] = @ + sweep[n]]
          /\ UNCHANGED <<earned, expiries, used, ties>>
     ELSE UNCHANGED books
  /\ UNCHANGED <<now, registered, archived, gates, request, gone>>

\* A database error, after the retries, leaves the node to the next day.
SweepFails(n) ==
  /\ sweep[n] # 0
  /\ sweep' = [sweep EXCEPT ![n] = 0]
  /\ UNCHANGED <<now, registered, archived, books, gates, request, gone>>

\* A heartbeat makes the node active and, in a transaction of its own, grants
\* free credits when neither the node nor the address had some for six hours;
\* a closed gate or a database error grants nothing.
Heartbeat(n, ip) ==
  LET ledger == IF credits[n] = NoRow THEN 0 ELSE credits[n]
      total == ledger + FreeAmount
  IN  /\ n \in registered
      /\ archived' = archived \ {n}
      /\ \/ /\ ledger <= 0 /\ GateOpen(free_at[n]) /\ GateOpen(ip_at[ip])
            /\ credits' = [credits EXCEPT ![n] = total]
            /\ credit_balance' = [credit_balance EXCEPT ![n] = total]
            /\ earned' = [earned EXCEPT ![n] = @ + FreeAmount]
            /\ expiries' = [expiries EXCEPT ![n] = @ \union {now + TTL}]
            /\ free_at' = [free_at EXCEPT ![n] = now]
            /\ ip_at' = [ip_at EXCEPT ![ip] = now]
            /\ allocations' = Append(allocations, [node |-> n, ip |-> ip, at |-> now])
            /\ UNCHANGED <<spent, used, ties>>
         \/ UNCHANGED <<books, gates>>
      /\ UNCHANGED <<now, registered, request, sweep, gone>>

Next ==
  \/ ClockTick
  \/ \E n \in Nodes : Register(n) \/ Deregister(n) \/ Archive(n)
  \/ \E h \in Handlers : \/ StartAward(h) \/ RecordAward(h) \/ LookupScope(h)
                         \/ DebitNode(h) \/ DebitWallet(h) \/ StopRequest(h)
  \/ SweepRead
  \/ \E n \in Nodes : SweepNode(n) \/ SweepFails(n)
  \/ \E n \in Nodes, ip \in Ips : Heartbeat(n, ip)

Spec == Init /\ [][Next]_vars

\* The daily loop never stops, and the database does not fail it for ever.
Fairness == WF_vars(SweepRead) /\ \A n \in Nodes : SF_vars(SweepNode(n))

FairSpec == Spec /\ Fairness

-----------------------------------------------------------------------------
(* Properties.                                                             *)

Requests ==
  {Idle}
  \union [pc : {"award"}, node : Nodes, consumer : Nodes \union {NoNode},
          amount : Amounts, nonce : Nonces]
  \union [pc : {"scope"}, node : Nodes, consumer : Nodes, amount : Amounts, nonce : Nonces]
  \union [pc : {"debit"}, consumer : Nodes, amount : Amounts,
          operator : {OperatorOf[n] : n \in Nodes} \union {NoOperator}]

\* Type correctness of the ledger's tables, requests and loops.
TypeOK ==
  /\ now \in 0..MaxTime
  /\ registered \subseteq Nodes /\ archived \subseteq registered /\ gone \subseteq Nodes
  /\ credit_balance \in [Nodes -> Int]
  /\ credits \in [Nodes -> Int \union {NoRow}]
  /\ earned \in [Nodes -> Nat] /\ spent \in [Nodes -> Nat]
  /\ expiries \in [Nodes -> SUBSET Nat]
  /\ used \in [Nodes -> SUBSET Nonces]
  /\ ties \in [Nodes -> Nat]
  /\ free_at \in [Nodes -> Int] /\ ip_at \in [Ips -> Int]
  /\ request \in [Handlers -> Requests]
  /\ sweep \in [Nodes -> Nat]
  /\ allocations \in Seq([node : Nodes, ip : Ips, at : Nat])

\* What a node without a credits row holds is nothing; otherwise the two
\* balances are the same number.
SameBalance(n) ==
  IF credits[n] = NoRow THEN credit_balance[n] = 0 ELSE credit_balance[n] = credits[n]

\* nodes.credit_balance is the denormalized credits.balance, whatever awards,
\* debits, sweeps and free allocations interleave (every mutation of db.rs
\* writes both), for a node that was never deregistered.
LedgerAgrees == \A n \in Nodes \ gone : SameBalance(n)

\* No balance is overdrawn by more than the tolerance of debit_node_once,
\* whichever debits, sweeps and wallet payments race for it.
NoOverdraft == \A n \in Nodes : credit_balance[n] >= -Tick

\* credits_summary: "balance MUST equal earned - spent".  It does, but for the
\* debits whose amount lies halfway between two ticks: the UPDATE rounds the rest
\* up and the INSERT the amount, so that each of them may leave the balance one
\* tick above the difference and turn the flag off.  Nothing else moves the
\* three apart, and never the other way: awards of any amount, free allocations
\* and sweeps keep them in step.
Reconciles ==
  \A n \in registered \ gone :
    credit_balance[n] - (earned[n] - spent[n]) \in 0..Tick * ties[n]

\* Two free allocations to one node or from one address are a Gate apart, even
\* when the node is deregistered and registered again in between.
FreeGate ==
  \A i, j \in 1..Len(allocations) :
    LET a == allocations[i]
        b == allocations[j]
    IN  i < j /\ (a.node = b.node \/ a.ip = b.ip) => b.at - a.at >= Gate

\* Every earned credit is backed: by a nonce that paid once, however often and
\* concurrently its receipt was sent, or by a free allocation.
EarnsBacked ==
  \A n \in Nodes : \A top \in Amounts : (\A a \in Amounts : a <= top) =>
    earned[n] <= Stored(top) * Cardinality(used[n])
                 + FreeAmount * Cardinality({i \in 1..Len(allocations) : allocations[i].node = n})

\* Idle credit is eventually swept, spent or renewed by an earn.
IdleIsSwept == \A n \in Nodes : credit_ttl_idle(n) ~> ~credit_ttl_idle(n)

=============================================================================
