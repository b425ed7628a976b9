--------------------------- MODULE SchemaMigrations ---------------------------
(***************************************************************************)
(* The life of the database schema: processes that run "alembic upgrade    *)
(* head" before they serve or bootstrap, an operator who downgrades,       *)
(* crashes between any two statements, and the reset that deletes the      *)
(* dataset table by table from whatever is stored.                         *)
(*                                                                         *)
(* A migration runs in one transaction: its statements see what others     *)
(* committed and what they did themselves, a statement on an object that   *)
(* another transaction has touched waits for the end of that transaction,  *)
(* and a statement that fails rolls all of it back.                        *)
(*                                                                         *)
(* The definitions named Faulty... are not the program: each is a way the  *)
(* definition that follows it could be wrong.                              *)
(***************************************************************************)
EXTENDS DomainSchema, Integers

CONSTANTS
  Containers,  \* processes that upgrade to head when they start, and then serve
  Operator,    \* the process of an operator's downgrades
  MaxFaults    \* bound on crashes, lost connections and downgrades together

ASSUME OperatorIsNoContainer == Operator \notin Containers

Migrators == Containers \union {Operator}

VARIABLES
  schema,   \* the committed objects, the stamped revision among them
  pc,       \* where each migrator is
  todo,     \* the statements of its migration that are still to run
  added,    \* objects its transaction has made
  removed,  \* objects its transaction has dropped
  undisturbed,  \* history: since its own began no other migration has committed
                \* and its connection has held
  faults,   \* history: crashes, lost connections and downgrades so far
  rows,     \* the tables that hold rows
  left,     \* the tables that hold rows for the transaction of a reset
  clearing  \* the table it deletes next, by its place; 0 when there is no reset

txns == <<pc, todo, added, removed>>
data == <<rows, left, clearing>>
vars == <<schema, txns, undisturbed, faults, data>>

-----------------------------------------------------------------------------
(* Statements: what must be there, what must not, what is dropped and what is *)
(* made.  The second member of an object is the table, type or function that  *)
(* the statement locks.                                                       *)

\* One object made in a table that exists.
Add(object) ==
  [needs |-> {<<"table", object[2]>>}, unless |-> {object}, drops |-> {}, makes |-> {object}]

\* One object dropped, which must be there.
Drop(object) ==
  [needs |-> {object}, unless |-> {}, drops |-> {object}, makes |-> {}]

AuditFunction == <<"function", "prevent_audit_event_mutation">>
\* The trigger audit_events_append_only, named here by the function it runs.
AuditTrigger == <<"trigger", "audit_events", "prevent_audit_event_mutation">>

CreateFunction ==
  [needs |-> {}, unless |-> {AuditFunction}, drops |-> {}, makes |-> {AuditFunction}]

CreateTrigger ==
  [needs |-> {AuditFunction, <<"table", "audit_events">>}, unless |-> {AuditTrigger},
   drops |-> {}, makes |-> {AuditTrigger}]

\* DROP ... IF EXISTS, refused while the function is used.
DropTrigger == [needs |-> {}, unless |-> {}, drops |-> {AuditTrigger}, makes |-> {}]
DropFunction ==
  [needs |-> {}, unless |-> {AuditTrigger}, drops |-> {AuditFunction}, makes |-> {}]

\* CREATE TABLE, after the types that no earlier table of the migration made.
CreateTable(name) ==
  LET k == CHOOSE j \in 1..Len(Tables0002) : Tables0002[j].table = name
      d == Tables0002[k]
      new == d.types \ UNION {Tables0002[j].types : j \in 1..(k - 1)}
      made == TableObjects(d) \union {<<"type", n>> : n \in new}
  IN  [needs  |-> {<<"table", r[2]>> : r \in d.refs}, unless |-> made,
       drops  |-> {}, makes |-> made]

Table(name) == <<"table", name>>
Index(table, name) == <<"index", table, name>>

\* What 0002 creates, in its order; the types go with their tables.
Created0002 ==
  <<Table("crypto_assets"), Table("customers"), Table("users"), Table("accounts"),
    Table("audit_events"), Index("audit_events", "entity_created_at"),
    Index("audit_events", "request_id"), AuditFunction, AuditTrigger,
    Table("behavioural_baselines"), Index("behavioural_baselines", "customer_id"),
    Table("beneficiaries"), Table("devices"), Table("transaction_channels"), Table("sessions"),
    Table("cyber_events"), Index("cyber_events", "session_event_time"),
    Table("transactions"), Index("transactions", "account_created_at"),
    Table("incidents"), Index("incidents", "customer_created_at"),
    Index("incidents", "severity_created_at"), Index("incidents", "status_created_at"),
    Index("incidents", "transaction"), Index("incidents", "scenario_key"),
    Table("analyst_actions"), Index("analyst_actions", "incident_created_at"),
    Table("risk_contributions"), Table("scenario_runs")>>

Creating(object) ==
  CASE object[1] = "table" -> CreateTable(object[2])
    [] object[1] = "index" -> Add(object)
    [] object[1] = "function" -> CreateFunction
    [] object[1] = "trigger" -> CreateTrigger

Upgrade0002 == [k \in 1..Len(Created0002) |-> Creating(Created0002[k])]

\* What 0003 adds to the tables of 0002, in the order of its statements.
Additions0003 ==
  <<<<"column", "behavioural_baselines", "known_device_ids">>,
    <<"column", "behavioural_baselines", "known_beneficiary_ids">>,
    <<"column", "behavioural_baselines", "usual_destination_risks">>,
    <<"column", "behavioural_baselines", "typical_transaction_velocity_30m">>,
    <<"check", "behavioural_baselines", "velocity_30m_nonnegative">>,
    <<"unique", "behavioural_baselines", "customer">>,
    <<"column", "incidents", "raw_fused_score">>,
    <<"column", "incidents", "summary">>,
    <<"column", "incidents", "signal_narrative">>,
    <<"column", "incidents", "decision_explanation">>,
    <<"column", "incidents", "action_explanation">>,
    <<"column", "incidents", "engine_version">>,
    <<"column", "incidents", "model_version">>,
    <<"check", "incidents", "raw_fused_score_range">>,
    <<"column", "risk_contributions", "source_transaction_id">>,
    <<"column", "risk_contributions", "source_baseline_id">>,
    <<"fk", "risk_contributions", "source_transaction_id", "transactions", "SET NULL">>,
    <<"fk", "risk_contributions", "source_baseline_id", "behavioural_baselines",
          "SET NULL">>>>

\* The first addition forgotten.
FaultyUpgrade0003 == [k \in 1..(Len(Additions0003) - 1) |-> Add(Additions0003[k + 1])]

Upgrade0003 == [k \in 1..Len(Additions0003) |-> Add(Additions0003[k])]

Made(program) == UNION {program[k].makes : k \in 1..Len(program)}

Objects == Made(Upgrade0002) \union Made(Upgrade0003)

\* DROP TABLE takes what the table owns and is refused while another refers to it.
DropTable(name) ==
  [needs  |-> {<<"table", name>>},
   unless |-> {o \in Objects : o[1] = "fk" /\ o[4] = name /\ o[2] # name},
   drops  |-> {o \in Objects : o[1] # "type" /\ o[2] = name}, makes |-> {}]

\* DROP TYPE IF EXISTS is refused while a column uses the type.
DropType(name) ==
  [needs |-> {}, unless |-> {o \in Objects : o[1] = "uses" /\ o[3] = name},
   drops |-> {<<"type", name>>}, makes |-> {}]

\* What 0002 drops on the way down, in its order; the types come last.
DroppedTables0002 ==
  <<Table("scenario_runs"), Table("risk_contributions"),
    Index("analyst_actions", "incident_created_at"), Table("analyst_actions"),
    Index("incidents", "scenario_key"), Index("incidents", "transaction"),
    Index("incidents", "status_created_at"), Index("incidents", "severity_created_at"),
    Index("incidents", "customer_created_at"), Table("incidents"),
    Index("transactions", "account_created_at"), Table("transactions"),
    Index("cyber_events", "session_event_time"), Table("cyber_events"),
    Table("sessions"), Table("transaction_channels"), Table("devices"),
    Table("beneficiaries"), Index("behavioural_baselines", "customer_id"),
    Table("behavioural_baselines"), Index("audit_events", "request_id"),
    Index("audit_events", "entity_created_at"), AuditTrigger,
    Table("audit_events"), Table("accounts"), Table("users"),
    Table("customers"), Table("crypto_assets"), AuditFunction>>

Dropped0002 ==
  DroppedTables0002 \o [k \in 1..Len(ENUM_TYPE_NAMES) |-> <<"type", ENUM_TYPE_NAMES[k]>>]

Dropping(object) ==
  CASE object[1] = "table" -> DropTable(object[2])
    [] object[1] = "index" -> Drop(object)
    [] object[1] = "function" -> DropFunction
    [] object[1] = "trigger" -> DropTrigger
    [] object[1] = "type" -> DropType(object[2])

\* The last type left behind.
FaultyDowngrade0002 == [k \in 1..(Len(Dropped0002) - 1) |-> Dropping(Dropped0002[k])]

Downgrade0002 == [k \in 1..Len(Dropped0002) |-> Dropping(Dropped0002[k])]

\* The additions taken back, the last one first.
Downgrade0003 ==
  LET n == Len(Additions0003)
  IN  [k \in 1..n |-> Drop(Additions0003[n + 1 - k])]
-----------------------------------------------------------------------------
(* Revisions: 0 is the base, 1 the foundation without objects, 2 and 3 the    *)
(* schema and its additions.                                                  *)

Revisions == 0..3
HeadRevision == 3

Version(r) == <<"version", "alembic_version", r>>
VersionTable == <<"table", "alembic_version">>
Stamped(r) == IF r = 0 THEN {} ELSE {Version(r)}

\* The version row moves from one revision to the next, if it is where it was.
Stamp(from, to) ==
  [needs |-> Stamped(from) \union {VersionTable}, unless |-> Stamped(to),
   drops |-> Stamped(from), makes |-> Stamped(to)]

CreateVersionTable ==
  [needs |-> {}, unless |-> {VersionTable}, drops |-> {}, makes |-> {VersionTable}]

Upgrades == <<<<Stamp(0, 1)>>, Upgrade0002 \o <<Stamp(1, 2)>>, Upgrade0003 \o <<Stamp(2, 3)>>>>
Downgrades == <<<<Stamp(1, 0)>>, Downgrade0002 \o <<Stamp(2, 1)>>, Downgrade0003 \o <<Stamp(3, 2)>>>>

\* The statements from a revision up to head, and from one down to another.
ToHead(from) ==
  LET up[r \in from..HeadRevision] == IF r = from THEN <<>> ELSE up[r - 1] \o Upgrades[r]
  IN  up[HeadRevision]

DownFrom(from, to) ==
  LET down[r \in to..from] == IF r = from THEN <<>> ELSE down[r + 1] \o Downgrades[r + 1]
  IN  down[to]

\* The revision the database is at, and its schema.
Revision == IF \E r \in Revisions : Version(r) \in schema
              THEN CHOOSE r \in Revisions : Version(r) \in schema ELSE 0

SchemaOf(r) ==
  (IF r >= 2 THEN Made(Upgrade0002) ELSE {}) \union (IF r >= 3 THEN Made(Upgrade0003) ELSE {})

\* What a migrator's transaction sees.
View(m) == (schema \ removed[m]) \union added[m]

Owners(objects) == {o[2] : o \in objects}

\* Whether a statement has to wait for another transaction.
Waits(m, s) ==
  \E n \in Migrators \ {m} :
    Owners(added[n] \union removed[n]) \intersect Owners(s.makes \union s.drops) # {}

Rollback(m, there) ==
  /\ pc' = [pc EXCEPT ![m] = there]
  /\ todo' = [todo EXCEPT ![m] = <<>>]
  /\ added' = [added EXCEPT ![m] = {}]
  /\ removed' = [removed EXCEPT ![m] = {}]

Begin(m, statements) ==
  /\ pc' = [pc EXCEPT ![m] = "migrating"]
  /\ todo' = [todo EXCEPT ![m] =
       (IF VersionTable \in schema THEN <<>> ELSE <<CreateVersionTable>>) \o statements]
  /\ undisturbed' = [undisturbed EXCEPT ![m] = TRUE]

\* The server is started whatever the migration ended with.
FaultyExitWithError(m) == Rollback(m, "serving")

ExitWithError(m) == Rollback(m, "failed")

Migrating(m) == pc[m] = "migrating"

(* Actions. *)

\* The platform does not start a container again whose migration failed.
FaultyStartContainer(c) ==
  /\ pc[c] = "down"
  /\ ~Migrating(Operator)
  /\ Begin(c, ToHead(Revision))
  /\ UNCHANGED <<schema, added, removed, faults, data>>

\* A container starts: it reads the revision and upgrades from there to head.
StartContainer(c) ==
  /\ pc[c] \in {"down", "failed"}
  /\ ~Migrating(Operator)
  /\ Begin(c, ToHead(Revision))
  /\ UNCHANGED <<schema, added, removed, faults, data>>

\* An operator downgrades while no container migrates.
StartDowngrade(to) ==
  /\ pc[Operator] = "down"
  /\ \A m \in Migrators : ~Migrating(m)
  /\ rows = {} /\ clearing = 0
  /\ to < Revision
  /\ faults < MaxFaults
  /\ faults' = faults + 1
  /\ Begin(Operator, DownFrom(Revision, to))
  /\ UNCHANGED <<schema, added, removed, data>>

Succeeds(s, view) == s.needs \subseteq view /\ s.unless \intersect view = {}

Execute(m) ==
  /\ Migrating(m) /\ todo[m] # <<>>
  /\ LET s == todo[m][1] IN
     /\ ~Waits(m, s)
     /\ Succeeds(s, View(m))
     /\ todo' = [todo EXCEPT ![m] = Tail(@)]
     /\ added' = [added EXCEPT ![m] = (@ \ s.drops) \union s.makes]
     /\ removed' = [removed EXCEPT ![m] = (@ \union s.drops) \ s.makes]
  /\ UNCHANGED <<schema, pc, undisturbed, faults, data>>

\* The statement is refused: the migration is rolled back and alembic exits
\* with an error.
Fail(m) ==
  /\ Migrating(m) /\ todo[m] # <<>>
  /\ ~Waits(m, todo[m][1])
  /\ ~Succeeds(todo[m][1], View(m))
  /\ ExitWithError(m)
  /\ UNCHANGED <<schema, undisturbed, faults, data>>

\* All is done: the migration commits, a container serves, an operator leaves.
Commit(m) ==
  /\ Migrating(m) /\ todo[m] = <<>>
  /\ schema' = View(m)
  /\ undisturbed' = [n \in Migrators |-> undisturbed[n] /\ (n = m \/ ~Migrating(n))]
  /\ Rollback(m, IF m = Operator THEN "down" ELSE "serving")
  /\ UNCHANGED <<faults, data>>

\* A process dies; an open migration is rolled back.
Crash(m) ==
  /\ pc[m] \in {"migrating", "serving"}
  /\ faults < MaxFaults
  /\ faults' = faults + 1
  /\ Rollback(m, "down")
  /\ UNCHANGED <<schema, undisturbed, data>>

\* The database goes away under a migration, which ends with an error too.
LoseConnection(m) ==
  /\ Migrating(m)
  /\ faults < MaxFaults
  /\ faults' = faults + 1
  /\ ExitWithError(m)
  /\ undisturbed' = [undisturbed EXCEPT ![m] = FALSE]
  /\ UNCHANGED <<schema, data>>

(* The dataset, while the schema is that of head and no process is starting.   *)

Stored ==
  /\ Revision = HeadRevision /\ ~Migrating(Operator)
  /\ \A c \in Containers : pc[c] = "serving"

References == {o \in schema : o[1] = "fk"}

\* References that may be null: a row of theirs may do without.
Optional == {"actor_user_id", "source_event_id", "source_transaction_id",
             "source_baseline_id", "result_incident_id"}

TableNames == {d.table : d \in Models}

\* The seeding, a scenario, an analyst or an audited request stores a first row.
Store(table) ==
  /\ Stored /\ clearing = 0
  /\ table \notin rows
  /\ \A r \in References : r[2] = table /\ r[3] \notin Optional => r[4] \in rows
  /\ rows' = rows \union {table}
  /\ left' = rows'
  /\ UNCHANGED <<schema, txns, undisturbed, faults, clearing>>

\* Beneficiaries before the transactions that refer to them.
FaultyClearOrder ==
  <<"analyst_actions", "scenario_runs", "risk_contributions", "incidents", "cyber_events",
    "beneficiaries", "transactions", "sessions", "behavioural_baselines", "devices",
    "accounts", "customers", "transaction_channels", "crypto_assets">>

\* The tables a reset deletes, in its order.
ClearOrder ==
  <<"analyst_actions", "scenario_runs", "risk_contributions", "incidents", "cyber_events",
    "transactions", "sessions", "behavioural_baselines", "beneficiaries", "devices",
    "accounts", "customers", "transaction_channels", "crypto_assets">>

\* The tables it fills again, its audit event included.
Populated == TableNames \ {"users", "analyst_actions"}

StartReset ==
  /\ Stored /\ clearing = 0 /\ rows # {}
  /\ clearing' = 1
  /\ UNCHANGED <<schema, txns, undisturbed, faults, rows, left>>

\* Deleting all rows of a table deletes the rows that refer to them and cascade.
Cascaded(table) ==
  LET cascading == {r \in References : r[5] = "CASCADE"}
      reach[n \in 0..Cardinality(TableNames)] ==
        IF n = 0 THEN {table}
        ELSE LET before == reach[n - 1]
             IN  before \union {r[2] : r \in {c \in cascading : c[4] \in before}}
  IN  reach[Cardinality(TableNames)] \intersect left

\* It is refused while rows that restrict it are left, and for audit events.
Refused(table) ==
  \/ \E r \in References : r[5] = "RESTRICT" /\ r[2] \in left /\ r[4] \in Cascaded(table)
  \/ "audit_events" \in Cascaded(table)

DeleteTable ==
  /\ clearing \in 1..Len(ClearOrder)
  /\ ~Refused(ClearOrder[clearing])
  /\ left' = left \ Cascaded(ClearOrder[clearing])
  /\ clearing' = clearing + 1
  /\ UNCHANGED <<schema, txns, undisturbed, faults, rows>>

Populate ==
  /\ clearing = Len(ClearOrder) + 1
  /\ rows' = left \union Populated
  /\ left' = rows'
  /\ clearing' = 0
  /\ UNCHANGED <<schema, txns, undisturbed, faults>>

\* A refused statement, a mismatch of the manifest or a crash: all is rolled back.
AbandonReset ==
  /\ clearing # 0
  /\ left' = rows
  /\ clearing' = 0
  /\ UNCHANGED <<schema, txns, undisturbed, faults, rows>>
-----------------------------------------------------------------------------
Init ==
  /\ schema = {}
  /\ pc = [m \in Migrators |-> "down"]
  /\ todo = [m \in Migrators |-> <<>>]
  /\ added = [m \in Migrators |-> {}]
  /\ removed = [m \in Migrators |-> {}]
  /\ undisturbed = [m \in Migrators |-> TRUE]
  /\ faults = 0
  /\ rows = {} /\ left = {} /\ clearing = 0

Migrate(m) == Execute(m) \/ Fail(m) \/ Commit(m)

Reset == StartReset \/ DeleteTable \/ Populate \/ AbandonReset

Next ==
  \/ \E c \in Containers : StartContainer(c)
  \/ \E to \in Revisions : StartDowngrade(to)
  \/ \E m \in Migrators : Migrate(m) \/ Crash(m) \/ LoseConnection(m)
  \/ \E table \in TableNames : Store(table)
  \/ Reset

Fairness ==
  /\ \A c \in Containers : WF_vars(StartContainer(c))
  /\ \A m \in Migrators : WF_vars(Migrate(m))

Spec == Init /\ [][Next]_vars /\ Fairness
-----------------------------------------------------------------------------
\* What the readiness probe answers.
Ready == Revision = HeadRevision

Bookkeeping == {VersionTable} \union {Version(r) : r \in Revisions}

\* Whatever crashes, fails or runs at the same time, the committed schema is
\* that of the stamped revision: never a part of a migration, and after a
\* downgrade nothing of it is left, so that the way up is open again.
SchemaIsARevision ==
  /\ schema \ Bookkeeping = SchemaOf(Revision)
  /\ Cardinality({r \in Revisions : Version(r) \in schema}) <= 1

\* A database that is reported ready has the tables, types, constraints,
\* indexes and columns the ORM declares, and beyond them only the guard that
\* keeps audit events append-only.
ReadyMeansModels ==
  Ready => schema \ Bookkeeping = Metadata \union {AuditFunction, AuditTrigger}

\* A migration fails only when another one committed in between or the database
\* went away: no statement is refused for the order the migrations give it.
OnlyDisturbedOnesFail == \A m \in Migrators : pc[m] = "failed" => ~undisturbed[m]

\* No container begins to serve a schema other than that of head, however its
\* own migration ended.
ServesOnlyHead ==
  [][\A c \in Containers : pc[c] # "serving" /\ pc'[c] = "serving" => Revision' = HeadRevision]_vars

\* From any rows that the foreign keys allow, no delete of a reset is refused,
\* and the deletes leave the users and the audit events, and nothing else.
ResetGoesThrough ==
  /\ clearing \in 1..Len(ClearOrder) => ~Refused(ClearOrder[clearing])
  /\ clearing = Len(ClearOrder) + 1 => left = rows \intersect {"users", "audit_events"}

\* Containers that start at the same time on one database all come to serve:
\* the one whose migration fails finds head when it starts again.
EveryContainerServes == \A c \in Containers : pc[c] # "serving" ~> pc[c] = "serving"
=============================================================================
