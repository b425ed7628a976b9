-------------------------- MODULE ScenarioLifecycle --------------------------
(***************************************************************************)
(* The three writers of the synthetic dataset, as database transactions    *)
(* of one PostgreSQL at READ COMMITTED: ScenarioService.run with the       *)
(* failure record it leaves in a second transaction, DemoDataService.reset *)
(* and the analyst action, of which only the locks and the writes matter   *)
(* here (AnalystWorkflow has the rest).                                    *)
(*                                                                         *)
(* A statement that locks rows fixes the rows it wants when it starts and  *)
(* then takes them one by one; a row that was deleted by the time its lock *)
(* is free is skipped, and a row inserted meanwhile is not seen.  A DELETE *)
(* also has to lock the rows its foreign keys delete along, and an INSERT  *)
(* takes a lock FOR KEY SHARE on every row the new rows refer to, which a  *)
(* DELETE waits for and another INSERT does not.  Of transactions that     *)
(* wait for each other the database fails one.  A reset inserts rows with  *)
(* the primary keys it deleted, so a row is named by its table, its key    *)
(* and the number of the dataset it was inserted into.                     *)
(*                                                                         *)
(* The rows of a case stand for all of its kind: one event and one         *)
(* contribution for those of an incident, one device and one beneficiary   *)
(* for those of a customer.  Left out are audit events, which no step      *)
(* reads, and the UPDATEs that ON DELETE SET NULL sends: they only find    *)
(* rows in a reset that another one overtook, which then fails (the run    *)
(* rows it did not delete have the keys of those it inserts).              *)
(***************************************************************************)
EXTENDS Integers, Sequences, FiniteSets

CONSTANTS
  ScenarioKeys,         \* the showcase scenarios
  BackgroundIncidents,  \* the incidents a reset seeds
  Customers,            \* the customers a reset seeds
  CustomerOf,           \* the customer of a scenario or background incident
  Brings,               \* <<table, s>>: a run of s inserts a row of its own there
  Web,                  \* the channel the transactions use, and its asset
  Runners,              \* threads that serve POST /api/scenarios/{key}/run
  Resetters,            \* threads that serve POST /api/scenarios/reset
  Analysts,             \* threads that apply analyst actions
  Flaky,                \* the runners and resetters whose transaction may raise
  HeapOrder,            \* the rank in which a scan meets the rows of a key
  MaxResets,            \* bound on the resets
  NoRow                 \* an answer without a row, a request for none

ASSUME ThreadsServeOneKind ==
  /\ Runners \intersect Resetters = {}
  /\ Analysts \intersect (Runners \union Resetters) = {}
ASSUME KeysAreDistinct ==
  /\ ScenarioKeys \intersect BackgroundIncidents = {}
  /\ Customers \intersect (ScenarioKeys \union BackgroundIncidents) = {}
ASSUME CasesHaveCustomers ==
  /\ CustomerOf \in [ScenarioKeys \union BackgroundIncidents -> Customers]
  /\ Brings \subseteq {"device", "beneficiary"} \X ScenarioKeys

VARIABLES
  db,        \* the committed rows, each with its status
  dataset,   \* the number of the committed dataset
  pc,        \* where each thread is
  task,      \* the scenario or incident key of its request
  wanted,    \* the rows its current statement has still to lock
  held,      \* the rows its transaction has locked, deleted ones included
  shared,    \* the rows it has locked FOR KEY SHARE
  step,      \* the DELETEs a resetter, the flushes a runner has begun
  began,     \* history: the dataset that was there when a reset began
  reply      \* what it answers

vars == <<db, dataset, pc, task, wanted, held, shared, step, began, reply>>

-----------------------------------------------------------------------------
(* Rows and foreign keys. *)

Threads == Runners \union Resetters \union Analysts
IncidentKeys == ScenarioKeys \union BackgroundIncidents

Row(table, key, n) == [table |-> table, key |-> key, dataset |-> n]

\* The key of an analyst action: one per incident and analyst.
ActionKeys == IncidentKeys \X Analysts

\* The statuses of a committed run; RUNNING is overwritten before any COMMIT.
RunStatus == {"not_run", "completed", "failed"}
WorkStatus == {"seeded", "worked"}

\* The tables with a row per case, and those with a row per customer.
CaseTables == {"session", "event", "transaction", "incident", "contribution"}
CustomerTables == {"customer", "account", "device", "beneficiary", "baseline"}

\* The committed rows of a table: what a statement sees when it starts.
Visible(table) == {x \in DOMAIN db : x.table = table}
Named(table, key) == {x \in Visible(table) : x.key = key}

\* The customer of a key, and the row of a customer's table that a case uses.
Holder(k) == IF k \in Customers THEN k ELSE CustomerOf[k]
Using(table, k) == IF <<table, k>> \in Brings THEN k ELSE Holder(k)

\* The case or customer a row is about, and the key of what it uses in a table.
CaseKey(x) == IF x.table = "action" THEN x.key[1] ELSE x.key
KeyIn(table, k) ==
  CASE table \in CustomerTables -> Using(table, k)
    [] table \in {"channel", "asset"} -> Web
    [] OTHER -> k

\* The rows of some tables that a row belongs with.
Related(y, tables) == {Row(table, KeyIn(table, CaseKey(y)), y.dataset) : table \in tables}

\* The rows a row refers to, by what the foreign key says ON DELETE: CASCADE,
Owners(y) ==
  Related(y, CASE y.table \in CustomerTables \ {"customer"} -> {"customer"}
               [] y.table = "session" -> {"account", "device"}
               [] y.table \in {"event", "transaction"} -> {"session"}
               [] y.table = "incident" -> {"transaction"}
               [] y.table \in {"contribution", "action"} -> {"incident"}
               [] OTHER -> {})

\* RESTRICT,
Needs(y) ==
  Related(y, CASE y.table = "transaction" -> {"beneficiary", "channel"}
               [] y.table = "channel" -> {"asset"}
               [] OTHER -> {})

\* and SET NULL.
Sources(y) ==
  Related(y, IF y.table = "contribution" THEN {"event", "transaction", "baseline"} ELSE {})

References(y) == Owners(y) \union Needs(y) \union Sources(y)

\* The rows a reset inserts.
BaselineRows(n) ==
  {Row("run", s, n) : s \in ScenarioKeys}
    \union {Row(table, i, n) : table \in CaseTables, i \in BackgroundIncidents}
    \union {Row(table, c, n) : table \in CustomerTables, c \in Customers}
    \union {Row("channel", Web, n), Row("asset", Web, n)}

Baseline(n) ==
  [x \in BaselineRows(n) |-> IF x.table = "run" THEN "not_run" ELSE "seeded"]

\* The rows a scenario inserts, with deterministic keys.
ResultRows(s, n) ==
  {Row(table, s, n) : table \in CaseTables}
    \union {Row(table, s, n) : table \in {t \in {"device", "beneficiary"} : <<t, s>> \in Brings}}

SameKey(x, y) == x.table = y.table /\ x.key = y.key

\* Inserting the rows fresh next to the rows kept breaks a primary key.
Collides(fresh, kept) == \E x \in fresh, y \in kept : SameKey(x, y)

Rank(x) == HeapOrder[CaseKey(x)]

FaultyResetOrder ==
  <<"action", "run", "contribution", "transaction", "event", "incident", "session",
    "baseline", "beneficiary", "device", "account", "customer", "channel", "asset">>

\* The order of the DELETE statements of _clear_demo_domain.
ResetOrder ==
  <<"action", "run", "contribution", "incident", "event", "transaction", "session",
    "baseline", "beneficiary", "device", "account", "customer", "channel", "asset">>

\* The order in which a run flushes the rows it inserts.
InsertOrder ==
  <<{"device", "beneficiary"}, {"session"}, {"transaction", "event"},
    {"incident", "contribution"}>>

FaultyCascaded(x) == {}

\* What the foreign keys delete along with a deleted row.
Cascaded(x) == {y \in DOMAIN db : x \in Owners(y)}

NoReply == [outcome |-> "none", row |-> NoRow]
Answer(outcome, x) == [outcome |-> outcome, row |-> x]
Error == [NoReply EXCEPT !.outcome = "error"]

-----------------------------------------------------------------------------
(* Statements and transactions. *)

Goto(p, label) == pc' = [pc EXCEPT ![p] = label]

\* A locking statement starts: it wants the rows given.
Want(p, set) == wanted' = [wanted EXCEPT ![p] = set]

FaultyRelease(p) ==
  /\ wanted' = [wanted EXCEPT ![p] = {}]
  /\ step' = [step EXCEPT ![p] = 0]
  /\ began' = [began EXCEPT ![p] = 0]
  /\ UNCHANGED <<held, shared>>

\* The transaction ends: every lock is freed.
Release(p) ==
  /\ held' = [held EXCEPT ![p] = {}]
  /\ shared' = [shared EXCEPT ![p] = {}]
  /\ wanted' = [wanted EXCEPT ![p] = {}]
  /\ step' = [step EXCEPT ![p] = 0]
  /\ began' = [began EXCEPT ![p] = 0]

\* The transaction ends without a write.
Rollback(p, label) ==
  /\ Goto(p, label)
  /\ Release(p)
  /\ UNCHANGED <<db, dataset>>

Respond(p, answer) == reply' = [reply EXCEPT ![p] = answer]

\* The statement is an INSERT, whose foreign keys lock FOR KEY SHARE.
Sharing(p) == pc[p] = "insert"

\* The locks of transaction q keep p from locking x.
Blocks(q, x, p) == x \in held[q] \/ (x \in shared[q] /\ ~ Sharing(p))

FaultyFree(x, p) ==
  p \in Resetters \/ \A q \in Threads \ {p} : ~ Blocks(q, x, p)

Free(x, p) == \A q \in Threads \ {p} : ~ Blocks(q, x, p)

\* A scan meets rows by rank.  The rows a DELETE has to delete along come after
\* those of its table, in any order; so do the checks of an INSERT.
IsNext(x, p) ==
  LET scanned == {y \in wanted[p] :
        ~ Sharing(p) /\ (p \in Resetters => y.table = ResetOrder[step[p]])}
  IN scanned = {} \/ (x \in scanned /\ \A y \in scanned : Rank(x) <= Rank(y))

\* The next row of the statement is free: it is locked if it still exists.
\* A DELETE then has to lock what the row's foreign keys cascade to as well.
Acquire(p) ==
  \E x \in wanted[p] :
    /\ IsNext(x, p)
    /\ Free(x, p)
    /\ wanted' = [wanted EXCEPT ![p] = (@ \ {x}) \union
         (IF p \in Resetters /\ x \in DOMAIN db THEN Cascaded(x) \ held[p] ELSE {})]
    /\ IF Sharing(p)
         THEN shared' = [shared EXCEPT ![p] = @ \union ({x} \intersect DOMAIN db)] /\ UNCHANGED held
         ELSE held' = [held EXCEPT ![p] = @ \union ({x} \intersect DOMAIN db)] /\ UNCHANGED shared
    /\ UNCHANGED <<db, dataset, pc, task, step, began, reply>>

\* Transaction p waits for transaction q, which locked the row p wants next.
WaitsFor(p, q) == \E x \in wanted[p] : IsNext(x, p) /\ Blocks(q, x, p)

\* The transactions that have locked rows and want others.
Entangled == {p \in Threads : wanted[p] # {} /\ held[p] \union shared[p] # {}}

\* Transactions that wait for each other in a circle, or in several.
Circle(S) ==
  \A p \in S : /\ \E q \in S \ {p} : WaitsFor(p, q)
               /\ \E q \in S \ {p} : WaitsFor(q, p)

InCircle(p) == p \in Entangled /\ \E S \in SUBSET Entangled : p \in S /\ Circle(S)

HeldIn(p, table) == {x \in held[p] : x.table = table}

\* Write the statuses s over the committed rows, adding the rows that are new.
Commit(s) ==
  db' = [x \in DOMAIN db \union DOMAIN s |-> IF x \in DOMAIN s THEN s[x] ELSE db[x]]

-----------------------------------------------------------------------------
(* A run of a scenario. *)

IsCompleted(x) == x \in DOMAIN db /\ db[x] = "completed"

\* SELECT ... FROM scenario_runs ... FOR UPDATE starts.
AskRun(p, s) ==
  /\ pc[p] = "idle"
  /\ Goto(p, "run")
  /\ task' = [task EXCEPT ![p] = s]
  /\ Want(p, Named("run", s))
  /\ UNCHANGED <<db, dataset, held, shared, step, began, reply>>

Locked(p) == pc[p] = "run" /\ wanted[p] = {}

\* The run is COMPLETED and its incident is there.
HasResult(x) == IsCompleted(x) /\ Named("incident", x.key) # {}

\* COMPLETED already: the persisted incident is the answer.
Replay(p) ==
  /\ Locked(p)
  /\ \E x \in HeldIn(p, "run"), i \in Named("incident", task[p]) :
       /\ HasResult(x)
       /\ Respond(p, Answer("result", i))
  /\ Rollback(p, "reply")
  /\ UNCHANGED task

\* What flush n of a run on the run row x inserts, and what that refers to
\* beside the run's own rows.
Flushed(x, n) == {y \in ResultRows(x.key, x.dataset) : y.table \in InsertOrder[n]}
Parents(x, n) == (UNION {References(y) : y \in Flushed(x, n)}) \ ResultRows(x.key, x.dataset)

\* A foreign key finds a row by its primary key.
Found(set, rows) == {w \in set : \E z \in rows : SameKey(w, z)}

\* The flushes so far have found and locked all they refer to.
Checked(p, x) ==
  \A n \in 1..step[p] : \A z \in Parents(x, n) : Found(shared[p], {z}) # {}

\* The run holds its run row x and its statements so far are done.
Working(p, x) ==
  /\ x \in HeldIn(p, "run")
  /\ wanted[p] = {}
  /\ (pc[p] = "run" /\ ~ HasResult(x)) \/ pc[p] = "insert"
  /\ Checked(p, x)

\* The next flush is sent: it inserts its rows and looks up what they refer to.
\* A key that another transaction is deleting counts as taken: that one is a
\* reset which this run row keeps from committing.
Insert(p) ==
  /\ \E x \in HeldIn(p, "run") :
       /\ Working(p, x)
       /\ step[p] < Len(InsertOrder)
       /\ ~ Collides(Flushed(x, step[p] + 1), DOMAIN db)
       /\ Want(p, Found(DOMAIN db \ shared[p], Parents(x, step[p] + 1)))
  /\ Goto(p, "insert")
  /\ step' = [step EXCEPT ![p] = @ + 1]
  /\ UNCHANGED <<db, dataset, task, held, shared, began, reply>>

\* The simulated and scored case is committed as a whole.
Complete(p) ==
  /\ \E x \in HeldIn(p, "run") :
       LET fresh == ResultRows(x.key, x.dataset) IN
       /\ Working(p, x)
       /\ step[p] = Len(InsertOrder)
       /\ Commit([y \in {x} \union fresh |-> IF y = x THEN "completed" ELSE "seeded"])
       /\ Respond(p, Answer("result", Row("incident", x.key, x.dataset)))
  /\ Goto(p, "reply")
  /\ Release(p)
  /\ UNCHANGED <<dataset, task>>

\* The run cannot go on: its row is gone (DatasetNotSeededError), a key it
\* inserts is taken or a row it refers to is not there (IntegrityError).
Obstructed(p) ==
  /\ pc[p] \in {"run", "insert"}
  /\ wanted[p] = {}
  /\ \A x \in HeldIn(p, "run") :
       \/ pc[p] = "insert" /\ ~ Checked(p, x)
       \/ /\ Working(p, x)
          /\ step[p] < Len(InsertOrder)
          /\ Collides(Flushed(x, step[p] + 1), DOMAIN db)

\* The run raises, for that or as the one the database fails to break a circle.
FailRun(p) ==
  /\ Obstructed(p) \/ InCircle(p)
  /\ Rollback(p, "failed")
  /\ UNCHANGED <<task, reply>>

\* _record_failure, in a transaction of its own, reads the run without a lock.
\* No row, or one that is FAILED already: there is nothing to update.
ReadFailedRun(p) ==
  /\ pc[p] = "failed"
  /\ IF \E x \in Named("run", task[p]) : db[x] # "failed"
       THEN Goto(p, "mark_failed") /\ UNCHANGED reply
       ELSE Goto(p, "reply") /\ Respond(p, Error)
  /\ UNCHANGED <<db, dataset, task, wanted, held, shared, step, began>>

\* The UPDATE is sent at the commit.  It names the row by its primary key, which
\* a reset gives to the new row as well.
SendUpdate(p) ==
  /\ pc[p] = "mark_failed"
  /\ Goto(p, "update")
  /\ Want(p, Named("run", task[p]))
  /\ UNCHANGED <<db, dataset, task, held, shared, step, began, reply>>

FaultyMarkFailed(p) ==
  /\ pc[p] = "update"
  /\ wanted[p] = {}
  /\ Commit([x \in HeldIn(p, "run") |-> "not_run"])
  /\ Goto(p, "reply")
  /\ Respond(p, Error)
  /\ Release(p)
  /\ UNCHANGED <<dataset, task>>

\* The row as it is now becomes FAILED, whatever it was.  If it was deleted while
\* the UPDATE waited for it, no row matches, which the ORM raises.
MarkFailed(p) ==
  /\ pc[p] = "update"
  /\ wanted[p] = {}
  /\ Commit([x \in HeldIn(p, "run") |-> "failed"])
  /\ Goto(p, "reply")
  /\ Respond(p, Error)
  /\ Release(p)
  /\ UNCHANGED <<dataset, task>>

-----------------------------------------------------------------------------
(* A reset. *)

Resetting == {q \in Resetters : pc[q] = "reset"}

AskReset(p) ==
  /\ pc[p] = "idle"
  /\ dataset + Cardinality(Resetting) < MaxResets
  /\ Goto(p, "reset")
  /\ step' = [step EXCEPT ![p] = 1]
  /\ began' = [began EXCEPT ![p] = dataset]
  /\ Want(p, Visible(ResetOrder[1]))
  /\ UNCHANGED <<db, dataset, task, held, shared, reply>>

Kept(p) == DOMAIN db \ held[p]

\* A foreign key with ON DELETE RESTRICT forbids what was deleted.
Restricted(p) == \E y \in Kept(p) : Needs(y) \intersect held[p] # {}

\* The DELETE statement has deleted all it saw.
Swept(p) == pc[p] = "reset" /\ wanted[p] = {}

\* The next DELETE statement starts, with a snapshot of its own.
NextDelete(p) ==
  /\ Swept(p)
  /\ ~ Restricted(p)
  /\ step[p] < Len(ResetOrder)
  /\ step' = [step EXCEPT ![p] = @ + 1]
  /\ Want(p, Visible(ResetOrder[step[p] + 1]) \ held[p])
  /\ UNCHANGED <<db, dataset, pc, task, held, shared, began, reply>>

Deleted(p) == Swept(p) /\ step[p] = Len(ResetOrder)

\* baseline_counts of what the transaction would commit: seven of the tables.
CountsMatch(p) ==
  \A x \in Kept(p) :
    x.table \notin {"customer", "account", "device", "transaction", "event", "incident", "run"}

\* Populate, compare the counts, commit.
CommitReset(p) ==
  LET n == dataset + 1
      fresh == Baseline(n)
  IN
  /\ Deleted(p)
  /\ ~ Restricted(p)
  /\ ~ Collides(DOMAIN fresh, Kept(p))
  /\ CountsMatch(p)
  /\ db' = [x \in Kept(p) \union DOMAIN fresh |->
              IF x \in DOMAIN fresh THEN fresh[x] ELSE db[x]]
  /\ dataset' = n
  /\ Respond(p, Answer("reset", NoRow))
  /\ Goto(p, "reply")
  /\ Release(p)
  /\ UNCHANGED task

\* The reset raises and everything it did is rolled back.  It may be the one the
\* database fails to break a circle.  A key that another transaction is deleting
\* counts as taken: whether that one commits or not, the key is there afterwards.
FailReset(p) ==
  /\ \/ Swept(p) /\ Restricted(p)
     \/ /\ Deleted(p)
        /\ Collides(BaselineRows(dataset + 1), Kept(p)) \/ ~ CountsMatch(p)
     \/ InCircle(p)
  /\ Rollback(p, "reply")
  /\ Respond(p, Error)
  /\ UNCHANGED task

-----------------------------------------------------------------------------
(* An analyst action, between the same rows. *)

\* SELECT ... FROM incidents ... FOR UPDATE starts.
AskAction(p, i) ==
  /\ pc[p] = "idle"
  /\ Goto(p, "act")
  /\ task' = [task EXCEPT ![p] = i]
  /\ Want(p, Named("incident", i))
  /\ UNCHANGED <<db, dataset, held, shared, step, began, reply>>

\* The incident is locked; SELECT ... FROM transactions ... FOR UPDATE starts.
BeginTransactionLock(p) ==
  /\ pc[p] = "act"
  /\ wanted[p] = {}
  /\ HeldIn(p, "incident") # {}
  /\ Goto(p, "act_on_both")
  /\ Want(p, Named("transaction", task[p]))
  /\ UNCHANGED <<db, dataset, task, held, shared, step, began, reply>>

\* The incident is not there, or not there any more.
MissIncident(p) ==
  /\ pc[p] = "act"
  /\ wanted[p] = {}
  /\ HeldIn(p, "incident") = {}
  /\ Rollback(p, "reply")
  /\ Respond(p, Answer("not_found", NoRow))
  /\ UNCHANGED task

\* The action is recorded with the incident it belongs to, or was before.
Act(p) ==
  /\ pc[p] = "act_on_both"
  /\ wanted[p] = {}
  /\ \E i \in HeldIn(p, "incident") :
       LET action == Row("action", <<i.key, p>>, i.dataset) IN
       /\ IF action \in DOMAIN db
            THEN UNCHANGED db
            ELSE Commit([x \in held[p] \union {action} |-> "worked"])
       /\ Respond(p, Answer("recorded", action))
  /\ Goto(p, "reply")
  /\ Release(p)
  /\ UNCHANGED <<dataset, task>>

\* The database fails an action that waits in a circle.
FailAction(p) ==
  /\ InCircle(p)
  /\ Rollback(p, "reply")
  /\ Respond(p, Error)
  /\ UNCHANGED task

-----------------------------------------------------------------------------
\* The request ends.
Finish(p) ==
  /\ pc[p] = "reply"
  /\ Goto(p, "idle")
  /\ task' = [task EXCEPT ![p] = NoRow]
  /\ Respond(p, NoReply)
  /\ UNCHANGED <<db, dataset, wanted, held, shared, step, began>>

\* Anything else raises: the request goes on as after any other failure.
Raise(p) ==
  /\ p \in Flaky
  /\ \/ pc[p] \in {"run", "insert"} /\ Rollback(p, "failed") /\ UNCHANGED reply
     \/ pc[p] = "reset" /\ Rollback(p, "reply") /\ Respond(p, Error)
  /\ UNCHANGED task

\* The process or its connection dies: the database rolls back, and nobody
\* records the failure.
Die(p) ==
  /\ p \in Flaky
  /\ pc[p] \notin {"idle", "reply"}
  /\ Rollback(p, "idle")
  /\ task' = [task EXCEPT ![p] = NoRow]
  /\ UNCHANGED reply

Init ==
  /\ dataset = 0
  /\ db = Baseline(0)
  /\ pc = [p \in Threads |-> "idle"]
  /\ task = [p \in Threads |-> NoRow]
  /\ wanted = [p \in Threads |-> {}]
  /\ held = [p \in Threads |-> {}]
  /\ shared = [p \in Threads |-> {}]
  /\ step = [p \in Threads |-> 0]
  /\ began = [p \in Threads |-> 0]
  /\ reply = [p \in Threads |-> NoReply]

RunStep(p) ==
  \/ Replay(p) \/ Insert(p) \/ Complete(p) \/ FailRun(p)
  \/ ReadFailedRun(p) \/ SendUpdate(p) \/ MarkFailed(p)

ResetStep(p) == NextDelete(p) \/ CommitReset(p) \/ FailReset(p)

ActionStep(p) == BeginTransactionLock(p) \/ MissIncident(p) \/ Act(p) \/ FailAction(p)

Next ==
  \/ \E p \in Runners : RunStep(p) \/ \E s \in ScenarioKeys : AskRun(p, s)
  \/ \E p \in Resetters : ResetStep(p) \/ AskReset(p)
  \/ \E p \in Analysts : ActionStep(p) \/ \E i \in IncidentKeys : AskAction(p, i)
  \/ \E p \in Threads : Acquire(p) \/ Finish(p) \/ Raise(p) \/ Die(p)

Spec == Init /\ [][Next]_vars

\* Threads run their statements; the queue of a row lock serves its waiters.
Fairness ==
  /\ \A p \in Threads : SF_vars(Acquire(p))
  /\ \A p \in Runners : WF_vars(RunStep(p) \/ Finish(p))
  /\ \A p \in Resetters : WF_vars(ResetStep(p) \/ Finish(p))
  /\ \A p \in Analysts : WF_vars(ActionStep(p) \/ Finish(p))

FairSpec == Spec /\ Fairness

-----------------------------------------------------------------------------
(* Properties. *)

\* The types of the variables; no lock is held outside a transaction.
Rows ==
  [table : {"run"}, key : ScenarioKeys, dataset : Nat]
    \union [table : CaseTables, key : IncidentKeys, dataset : Nat]
    \union [table : CustomerTables, key : Customers \union ScenarioKeys, dataset : Nat]
    \union [table : {"channel", "asset"}, key : {Web}, dataset : Nat]
    \union [table : {"action"}, key : ActionKeys, dataset : Nat]

Labels ==
  {"idle", "run", "insert", "failed", "mark_failed", "update", "reset",
   "act", "act_on_both", "reply"}

TypeOK ==
  /\ DOMAIN db \subseteq Rows
  /\ \A x \in DOMAIN db : db[x] \in IF x.table = "run" THEN RunStatus ELSE WorkStatus
  /\ dataset \in Nat
  /\ pc \in [Threads -> Labels]
  /\ task \in [Threads -> IncidentKeys \union {NoRow}]
  /\ wanted \in [Threads -> SUBSET Rows]
  /\ held \in [Threads -> SUBSET Rows]
  /\ shared \in [Threads -> SUBSET Rows]
  /\ step \in [Threads -> 0..Len(ResetOrder)]
  /\ began \in [Threads -> 0..dataset]
  /\ DOMAIN reply = Threads
  /\ \A p \in Threads :
       pc[p] \in {"idle", "failed", "mark_failed", "reply"} =>
         wanted[p] = {} /\ held[p] = {} /\ shared[p] = {}

LeftBy(s) == ResultRows(s, dataset) \intersect DOMAIN db

\* The committed dataset is consistent after any mix of runs, failure records,
\* crashes, resets and actions.  Each scenario has one run row and left its whole
\* case or nothing: nothing if it is NOT_RUN, the case if it is COMPLETED, although
\* the record of another run's failure may land on the row of a later dataset or
\* on a run that completed meanwhile.  Every row is of the current dataset and so
\* is all it refers to.
DatasetIsConsistent ==
  /\ \A s \in ScenarioKeys :
       /\ Cardinality(Named("run", s)) = 1
       /\ LeftBy(s) \in {{}, ResultRows(s, dataset)}
       /\ \A x \in Named("run", s) :
            /\ db[x] = "not_run" => LeftBy(s) = {}
            /\ db[x] = "completed" => LeftBy(s) = ResultRows(s, dataset)
  /\ \A x \in DOMAIN db : x.dataset = dataset /\ References(x) \subseteq DOMAIN db

\* A reset that commits leaves the baseline and nothing else, however many
\* runs and analyst actions were under way: no result, status or action of
\* the old dataset survives, although actions are deleted first, can still be
\* recorded until their incident is deleted, and are not counted.
ResetStepRestores == dataset' # dataset => db' = Baseline(dataset')
ResetRestoresBaseline == [][ResetStepRestores]_vars

\* A runner that answers with a result answers with an incident of the current
\* dataset, whose scenario is COMPLETED at that moment, although the reset may
\* have replaced every row since the request began.
AnswerStep ==
  \A p \in Runners :
    pc[p] \in {"run", "insert"} /\ pc'[p] = "reply" =>
      LET s == task[p] IN
      /\ reply'[p].row \in DOMAIN db'
      /\ reply'[p].row.key = s
      /\ reply'[p].row.dataset = dataset'
      /\ \E x \in DOMAIN db' : x.table = "run" /\ x.key = s /\ db'[x] = "completed"
AnswersAreCurrent == [][AnswerStep]_vars

\* Runs, analyst actions and one reset never wait for each other in a circle: a
\* reset has taken the run rows and the incidents, which every run and every
\* action locks first, before it deletes a row that one of them may wait for.  Two
\* resets that overlap can be in a circle, and then runs and actions too: one that
\* found its run rows gone goes on to delete what a run of the new dataset refers
\* to, or is about to delete what it has locked.
DeadlockNeedsTwoResets ==
  \A S \in (SUBSET Entangled) \ {{}} :
    Circle(S) => \E p \in S \intersect Resetters : began[p] < dataset \/ Resetting # {p}

\* Every request comes to an end, whatever it has to wait for.
EveryRequestEnds == \A p \in Threads : pc[p] # "idle" ~> pc[p] = "idle"

\* What the documents say of scenario runs: once a scenario has its result, a
\* run finds it COMPLETED and returns it.  The record of another run's failure
\* does not look whether the scenario has completed since.
ResultStaysReplayable ==
  \A s \in ScenarioKeys :
    Named("incident", s) # {} => \A x \in Named("run", s) : IsCompleted(x)
=============================================================================
