-------------------------- MODULE SchemaContract --------------------------
(***************************************************************************)
(* The database's schema at startup (src/schema.rs, src/runtime.rs): a     *)
(* server fills an empty database with the embedded baseline and then, as  *)
(* on every other start, compares the catalogue with the contract; an      *)
(* operational command compares only.  MySQL commits each statement of     *)
(* the baseline on its own, so that several servers and commands meet a    *)
(* schema that is half there, and one that a dead server has left.         *)
(*                                                                         *)
(* Three tables stand for the contract's: chain_heads, whose first row the *)
(* baseline inserts, one that it creates before it and one after.  What a  *)
(* table has of the contract is the set of the catalogues in which it      *)
(* matches: what its columns are called, and their types, is left out.     *)
(***************************************************************************)
EXTENDS Naturals, Sequences

CONSTANTS Servers, Commands, None,
          StartLimitBurst,  \* starts that systemd allows in one interval, 5 in 600 s
          MaxFails  \* bound on failures: a crash, a lost connection, a failing query

VARIABLES
  db,       \* per table, the catalogues in which it matches the contract; None: no table
  extra,    \* is there a table that the contract does not name, such as a migration history?
  genesis,  \* has chain_heads its first row?
  proc,     \* the processes
  recent,   \* starts of a server's unit in its current interval
  creator,  \* history: who created a table; "dead" once that process has ended
  fails     \* failures so far

vars == <<db, extra, genesis, proc, recent, creator, fails>>

Processes == Servers \cup Commands
Tables == {"windows", "chain_heads", "nodes"}
Catalogues == <<"columns", "indexes", "foreign_keys">>
Parts == {Catalogues[i] : i \in 1..Len(Catalogues)}

\* The baseline creates its tables in alphabetical order and inserts the row right after
\* the table.
M_Baseline == <<"windows", "chain_heads", "nodes", "genesis">>
Baseline == <<"windows", "chain_heads", "genesis", "nodes">>

Down == [pc |-> "down"]
ProcStates ==
  [pc : {"down", "failed", "count", "serving"}]
  \cup [pc : {"bootstrap"}, stmt : 1..Len(Baseline)]
  \cup [pc : {"verify"}, seen : UNION {[P -> SUBSET Tables] : P \in SUBSET Parts}]

\* A database is empty, or has the tables of an earlier version or of this one, or
\* nothing but a migration history.
Init ==
  /\ \/ db = [t \in Tables |-> None] /\ genesis = FALSE
     \/ genesis = TRUE /\ \E c \in Parts \cup {None} : db = [[t \in Tables |-> Parts] EXCEPT !["nodes"] = Parts \ {c}]
  /\ extra \in BOOLEAN
  /\ creator = [t \in Tables |-> IF db[t] = None THEN None ELSE "operator"]
  /\ proc = [p \in Processes |-> Down]
  /\ recent = [p \in Servers |-> 0]
  /\ fails = 0

---------------------------------------------------------------------------
Goes(p, to) == proc' = [proc EXCEPT ![p] = to]
Ends(p) ==
  /\ Goes(p, Down)
  /\ creator' = [t \in Tables |-> IF creator[t] = p THEN "dead" ELSE creator[t]]
Verifying == [pc |-> "verify", seen |-> [c \in {} |-> {}]]

\* A command is called.  A server is started by systemd, and again whenever it has ended
\* (Restart=always), but not more often than StartLimitBurst times in an interval
\* (StartLimitIntervalSec): then its unit fails.  The interval may be over, and a new one begin.
Start(p) ==
  /\ proc[p].pc = "down"
  /\ \/ p \in Commands /\ Goes(p, [pc |-> "count"]) /\ UNCHANGED recent
     \/ p \in Servers /\ \E starts \in {0, recent[p]} :
          \/ /\ starts < StartLimitBurst
             /\ Goes(p, [pc |-> "count"])
             /\ recent' = [recent EXCEPT ![p] = starts + 1]
          \/ starts >= StartLimitBurst /\ Goes(p, [pc |-> "failed"]) /\ UNCHANGED recent
  /\ UNCHANGED <<db, extra, genesis, creator, fails>>
\* The operator starts a failed unit, when systemd allows it again or after reset-failed.
ResetFailed(p) ==
  /\ proc[p].pc = "failed"
  /\ Goes(p, Down)
  /\ recent' = [recent EXCEPT ![p] = 0]
  /\ UNCHANGED <<db, extra, genesis, creator, fails>>

\* base_table_count counts every table, a foreign one too.
Empty == ~extra /\ \A t \in Tables : db[t] = None

\* ensure_schema and, for a command, verify_existing_schema.
CountTables(p) ==
  /\ proc[p].pc = "count"
  /\ \/ ~Empty /\ Goes(p, Verifying) /\ UNCHANGED creator
     \/ Empty /\ p \in Servers /\ Goes(p, [pc |-> "bootstrap", stmt |-> 1]) /\ UNCHANGED creator
     \/ Empty /\ p \in Commands /\ Ends(p)
  /\ UNCHANGED <<db, extra, genesis, recent, fails>>

\* CREATE TABLE fails where the table exists, and INSERT where the row does.
Clashes(s) == IF s = "genesis" THEN genesis ELSE db[s] # None

LastStatement(i) == i = Len(Baseline)

With(f, s, v) == [t \in Tables |-> IF t = s /\ f[t] = None THEN v ELSE f[t]]

\* One statement of the baseline, which MySQL commits by itself; a failing one is fatal.
Execute(p) ==
  /\ proc[p].pc = "bootstrap"
  /\ LET i == proc[p].stmt
         s == Baseline[i]
     IN \/ /\ ~Clashes(s)
           /\ db' = With(db, s, Parts) /\ creator' = With(creator, s, p)
           /\ genesis' = (genesis \/ s = "genesis")
           /\ Goes(p, IF LastStatement(i) THEN Verifying ELSE [proc[p] EXCEPT !.stmt = i + 1])
        \/ Clashes(s) /\ Ends(p) /\ UNCHANGED <<db, genesis>>
  /\ UNCHANGED <<extra, recent, fails>>

\* load_actual_schema reads the catalogues one after the other.
Load(p) ==
  /\ proc[p].pc = "verify"
  /\ \E i \in 1..Len(Catalogues) :
       /\ DOMAIN proc[p].seen = {Catalogues[j] : j \in 1..(i - 1)}
       /\ Goes(p, [proc[p] EXCEPT !.seen = [c \in DOMAIN @ \cup {Catalogues[i]} |->
             IF c \in DOMAIN @ THEN @[c] ELSE {t \in Tables : db[t] # None /\ c \in db[t]}]])
  /\ UNCHANGED <<db, extra, genesis, recent, creator, fails>>

\* compare_contract: what a table of the contract lacks; what else is there is no problem.
M_problems(seen) == {tc \in Tables \X Parts : extra \/ tc[1] \notin seen[tc[2]]}
problems(seen) == {tc \in Tables \X Parts : tc[1] \notin seen[tc[2]]}

\* verify_schema: a server that finds no problem serves, a command reads and writes.
Compare(p) ==
  /\ proc[p].pc = "verify" /\ DOMAIN proc[p].seen = Parts
  /\ \/ problems(proc[p].seen) = {} /\ Goes(p, [pc |-> "serving"]) /\ UNCHANGED creator
     \/ problems(proc[p].seen) # {} /\ Ends(p)
  /\ UNCHANGED <<db, extra, genesis, recent, fails>>

\* A process fails or is stopped, or a query of it fails, which is fatal.
Fail(p) ==
  /\ proc[p].pc \notin {"down", "failed"} /\ fails < MaxFails
  /\ Ends(p)
  /\ fails' = fails + 1
  /\ UNCHANGED <<db, extra, genesis, recent>>
\* A command is done.
Finish(p) ==
  /\ p \in Commands /\ proc[p].pc = "serving"
  /\ Ends(p)
  /\ UNCHANGED <<db, extra, genesis, recent, fails>>

\* The operator migrates an existing table, a statement at a time.
Migrate(t, c) ==
  /\ db[t] # None /\ creator[t] = "operator" /\ c \notin db[t]
  /\ db' = [db EXCEPT ![t] = @ \cup {c}]
  /\ UNCHANGED <<extra, genesis, proc, recent, creator, fails>>

Steps(p) == Start(p) \/ CountTables(p) \/ Execute(p) \/ Load(p) \/ Compare(p)
Next ==
  \/ \E p \in Processes : Steps(p) \/ Fail(p) \/ Finish(p)
  \/ \E p \in Servers : ResetFailed(p)
  \/ \E t \in Tables, c \in Parts : Migrate(t, c)

Spec == Init /\ [][Next]_vars /\ \A p \in Servers : WF_vars(Steps(p))

---------------------------------------------------------------------------
\* The types of the catalogue and of the processes; a bootstrap has a statement to execute.
TypeOK ==
  /\ db \in [Tables -> (SUBSET Parts) \cup {None}]
  /\ extra \in BOOLEAN /\ genesis \in BOOLEAN
  /\ proc \in [Processes -> ProcStates]
  /\ recent \in [Servers -> 0..StartLimitBurst]
  /\ creator \in [Tables -> Processes \cup {None, "operator", "dead"}]
  /\ fails \in 0..MaxFails

Whole == genesis /\ \A t \in Tables : db[t] = Parts

\* No process serves, and no command runs, on a schema that lacks part of the contract or
\* the first row of the chain heads, which the contract does not name: not even after a
\* bootstrap that was cut off (bootstrap_empty_schema, verify_schema).
ServedIsWhole == \A p \in Processes : proc[p].pc = "serving" => Whole

\* One life of one server creates all the tables of a database, whoever else counted none
\* (ensure_schema: an existing database is verified and not repaired).
OneBootstrap == \A t, u \in Tables : creator[t] # None /\ creator[u] # None => creator[t] = creator[u]

\* Concurrent, failing and repeated starts serve only a whole schema of one creator
\* (ensure_schema).
Safety == TypeOK /\ ServedIsWhole /\ OneBootstrap

\* On a schema that meets the contract, whatever other tables there are, a server comes to
\* serve as long as its unit has a start left after every failure that is still to come, as
\* it has after the operator started it anew; with none left systemd gives up on it
\* (ensure_schema, render_unit).
StartLeft(p) == proc[p].pc # "failed" /\ recent[p] + (MaxFails - fails) < StartLimitBurst
WholeIsServed == \A p \in Servers : Whole /\ StartLeft(p) ~> proc[p].pc = "serving"
=============================================================================
