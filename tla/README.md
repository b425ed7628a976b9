# RiskWeave AI in TLA+

A verification development of RiskWeave AI, a demonstrator of contextual fraud
risk: a FastAPI service over PostgreSQL that simulates showcase scenarios,
scores them with a deterministic risk engine, and lets analysts work on the
incidents that result, with a React client in front of it. The modules here
model the parts in which order, concurrency, failure or arithmetic decide
whether the system is right. TLC checks them on small instances; TLAPS proves
the results that hold for every instance.

`PROJECT.json` is the machine-readable index: which definition models which
lines, which run checks which property, a plausible bug that breaks each
property, the hazards of the code and the theorems.

## The system

| Component | State | Operations | What makes it correct |
|---|---|---|---|
| Analyst workflow (`services/analyst_workflows.py`, `api/routes/incidents.py`) | incident and transaction rows, analyst actions, audit events | PATCH status, POST action | no lost update; a key acts once; a token guards against a stale view; a retry gets its answer; what is offered is accepted |
| Scenario runs and reset (`services/scenarios.py`, `scenario_operations.py`, `demo_data.py`) | run rows, result incidents and transactions, the whole synthetic dataset | run, failure record, reset, catalog | a run happens once and is replayable; a reset restores the baseline exactly; one reset at a time closes no deadlock; every failure leaves a usable dataset |
| Risk engine (`risk_engine/`) | none | rules, anomaly points, interactions, fusion, decision | no domain alone and no anomaly alone causes a hold; evidence does not lower a stream; one rounding |
| Explanations, provenance | none | wording; projection of interactions onto contributions | each interaction names its two sources |
| Authentication and limiters (`services/authentication.py`, `core/rate_limit.py`) | windows of failures and of demo sessions, in process memory | login, demo access | a bound on attempts that concurrency respects or exceeds by a known number |
| Tokens, authorization (`core/security.py`, `api/dependencies.py`) | none beyond the users table | decode, current, writable and admin user | a token stops working when its user changes; demo access writes nothing |
| Incident queries (`services/incidents.py`) | none | list, detail | a detail explains itself although its statements see different moments; pages cover the list |
| Other projections (context, dashboard, quantum, integrity) | none | reads | counts add up |
| Release bootstrap, seeding | dataset, users | initialise or verify | accepts only the baseline; never resets a dataset it found; can be run again after a crash |
| Persistence (`models/`, `db/`, `alembic/`) | rows, schema, connection pool | transactions, migrations | the schema is that of a revision and what the models need; keys, cascades; no request waits for a connection for ever |
| Browser (`AuthProvider`, `api-client`, pages) | session, query cache, forms, toasts | log in and out, mutate, refetch | an answer of an old session does not touch a new one |

The components meet in the database and nowhere else, apart from the limiters
in process memory. FastAPI runs the handlers in a thread pool, so that any two
requests interleave at every statement. Transactions run at READ COMMITTED:
each statement sees what was committed when it began, `FOR UPDATE`, `UPDATE` and
`DELETE` wait for row locks, and a lock that is granted after a wait is granted
on the row as it is then, or on nothing if the row was deleted.

Hard to test, and what the properties are for: which statement of which
request comes first when two analysts, a run and a reset meet; a client that
repeats a command whose answer it lost; a process that dies between two
transactions of one request; a reset that replaces rows another request is
waiting for; points at a threshold. The list, line by line, is under "hazards"
in `PROJECT.json`.

## The modules

| Module | What it is |
|---|---|
| `CaseTransitions` | the transition tables of an analyst action, as operators |
| `AnalystWorkflow` | request threads that apply actions to incidents, statement by statement |
| `IncidentCase` | what that workflow promises: a case that moves in atomic steps |
| `AnalystWorkflowProofs` | the theorems about `AnalystWorkflow` |
| `ScenarioLifecycle` | runs, failure records, resets and analyst actions as database transactions |
| `ScenarioLifecycleProofs` | the theorems about `ScenarioLifecycle` |
| `RiskScoring` | the risk engine and a walk over its inputs |
| `RiskScoringProofs` | the theorems about `RiskScoring` |
| `AccessControl` | logins, demo access, tokens and guards of one process, with its limiters and its pool |
| `AccessControlProofs` | the theorems about `AccessControl` |
| `DomainSchema` | the tables as the migrations create them and as the models declare them |
| `SchemaMigrations` | migrations, containers, downgrades, and a reset on the schema they made |
| `Provenance` | which contributions a score stores, and how an interaction finds its sources |
| `MigrationProgramsProofs` | lemmas about the statements of the migrations, each program run alone |
| `SchemaMigrationsProofs` | the theorems about `SchemaMigrations`, whose programs meet |
| `CaseReading` | the detail and the list, statement by statement, while cases change |
| `CaseReadingProofs` | the theorems about `Provenance` and `CaseReading` |
| `ReleaseBootstrap` | bootstraps, table by table and transaction by transaction |
| `ReleaseBootstrapProofs` | the theorems about `ReleaseBootstrap` |
| `MC...` | values of the constants for TLC, one module per subject |

`AnalystWorkflow` and `CaseReading` share `CaseTransitions`; `CaseReading` reads
the contributions of `Provenance`; `SchemaMigrations` works on the tables of
`DomainSchema`. The database is the meeting point of the others: each models
what the rest of the system does to its rows as atomic steps, the statements of
which another module takes apart (`CaseReading` and `ReleaseBootstrap` let
analysts act and scenarios run in one step; `AnalystWorkflow` and
`ScenarioLifecycle` show what such a step consists of).

Definitions named `Faulty...` are not the program. Each is a way in which the
definition that follows it could be wrong, and stands beside it so that the
property that would notice can be seen to notice.

### AnalystWorkflow

A thread is idle, waits for the incident's lock, waits for the transaction's
lock, decides, replies. `LockIncident` and `LockTransaction` are the two
`SELECT ... FOR UPDATE` of `apply_action`, and copy the rows; `Decide` is the
rest of the method, in the order of its code: the lookup by action id (`Replay`,
`RejectReusedKey`), the token (`RejectStaleToken`), `_transition`
(`RejectTransition`), and the writes with their commit (`Apply`), which go by
the thread's copies and not by the rows. `Refuse` ends the transaction of a
request that raises, `Die` that of a thread or connection that is lost before
its commit, `Finish` delivers or loses the answer.

`Submit` is the client: any command, with the token of the case as it is at
that moment or without one. The request also remembers the view the token was
taken from. The code does not have it; the properties compare with it.

Abstractions: notes, keys and ids are model values; the deterministic id of an
action is its pair of analyst and key within the incident; an instant is the
number of the commit, so `datetime.now` is taken to advance between two commits
on one incident and to lie after the seeded `created_at`. Authorisation has
happened before `Submit`.

### IncidentCase

A case has two statuses and the set of action ids spent on it. One step spends
a fresh id and moves along an edge of the two graphs. `ImplementsCase` is the
refinement: the mapping reads the rows and takes the ids from the recorded
actions, and every step of the locking protocol is one atomic step or none.

### ScenarioLifecycle

The rows are those of all fourteen tables that a reset empties. Reset inserts
rows with the primary keys it deletes, so a row is named by its table, its key
and the number of the dataset it was inserted into; the last the code does not
have, it distinguishes a row from its reincarnation. One row stands for all of
its kind that belong to one case or one customer, since they are locked,
inserted and deleted by the same statements.

A statement that locks rows fixes the rows it wants when it starts (`Want`) and
takes them one at a time (`Acquire`), skipping what was deleted while it
waited. A `DELETE` meets the rows of its table in scan order (`IsNext`) and then
has to take what its foreign keys delete along (`Cascaded`): it waits for an
analyst or a run that has such a row. An `INSERT` takes `FOR KEY SHARE` locks on the
rows it refers to (`shared`), which keep a `DELETE` out and another `INSERT` not.
`Owners`, `Needs` and `Sources` are the foreign keys by what they say `ON DELETE`:
`CASCADE`, `RESTRICT` and `SET NULL`. Locks last until `Release` or `Rollback`.

- Run: `AskRun` starts the `FOR UPDATE` on the run row; then `Replay`, or the
  flushes. `Insert` sends one of them (`InsertOrder`): devices and beneficiaries, the
  session, transaction and events, incident and contributions, each of which
  waits for its parents while the run holds its run row and the parents of the
  flushes before. `Complete` is the commit, which makes all of it visible.
  `Obstructed` is a run whose row is gone, whose key is taken or whose parent is
  not there; `FailRun` ends it.
- Failure record: `ReadFailedRun` is the `SELECT`, without a lock, `SendUpdate` the
  `UPDATE ... WHERE scenario_run_id = ...` of the commit. It looks for its row by
  the primary key when it is sent, so that a reset which committed since the
  `SELECT` gives it the row of the new dataset, and one which commits while it
  waits leaves it without a row. `MarkFailed` writes the row, whatever it has
  become.
- Reset: `AskReset` and `NextDelete` are the DELETE statements in their order,
  each with a snapshot of its own; `Restricted` is the foreign key that forbids
  one; `CommitReset` inserts the baseline if the keys are free and the counts of
  the seven counted tables match; `FailReset` rolls back.
- Analyst action: its two locks and its inserts, without the decisions that
  `AnalystWorkflow` models. The key-share lock of its insert is on the incident it
  holds.
- `Raise`, for the threads in `Flaky`, is any other exception inside a transaction;
  `Die` is a process or connection that is lost, after which nobody records the
  failure.

Transactions that wait for each other in a circle (`Circle`) would wait for
ever; PostgreSQL fails one of them (`FailRun`, `FailReset`, `FailAction`).
`DeadlockNeedsTwoResets` says when that can happen at all: every circle contains
a reset that another one overlaps, or that began on a dataset which another has
replaced since (`began` is a history variable for that). Runs and actions can
then be in the circle. A stale reset that found its run rows gone goes on and
deletes beneficiaries and baselines of the new dataset; a run of that dataset,
whose first flushes share account and device rows, waits for those, and the
reset for the run when it comes to devices and accounts. An action recorded
between the first `DELETE`s of two resets lets them take the action and its incident
in opposite order.

Left out: the `UPDATE`s that `ON DELETE SET NULL` sends (of a run row's incident, of
contributions): in a reset that is alone the run rows and the contributions are
deleted first, so only one that another overtook sends any, and that one fails
at its commit on the keys of the run rows it did not delete; what it may wait for
meanwhile is a run or an action, in circles the property allows already. The
`idempotent` flag of an answer; audit events, which nothing reads; the dataset
fingerprint, which only the answer of a reset contains; the catalog; a
transaction that waits for the uncommitted insert or delete of a key it inserts
itself, whose outcome is that of an insert which comes later.

### RiskScoring

The engine is a pure function of a session's signals, a transfer's features and
the anomaly gate, translated as operators: the contributions of the two rule
engines, `RulePoints` with the ten points of ordinary exposure, `AnomalyPoints`,
the five interactions accepted in order, `Fused` and `Decision`. Hours, days,
ratios and deviations are integers in hundredths, raw scores too (45 points for
a weight of 0.45), so that the arithmetic is exact. The isolation forest is an
arbitrary gate: any stream may be an outlier.

TLC walks from an ordinary session and transfer to the riskiest ones, one
feature per step, so that neighbouring inputs can be compared. The walk ends
where nothing can become riskier; that is why its configurations do not check
for deadlock.

### AccessControl

The worker threads of one API process. A login asks the failure limiter
(`AskLogin`, `RefuseBlocked`), reads the user and verifies the password
(`Verify`), and only then tells the limiter (`RecordFailure`) or issues a token
(`IssueToken`) and clears the failures (`ResetLimiter`); other threads come in
between. Demo access takes its place in the limiter first (`Consume`,
`RefuseDemo`), then reads the analyst and issues a read-only token. Any other
request decodes its token (`Decode`), reads the user again (`LoadUser`) and
passes the guard of its route (`Authorize`). `Administer` is the operator who
changes or removes a user, `UpsertDemoUser` the seeding that restores one,
`Restart` a new process with empty limiters, `Tick` the time.

A thread holds a connection from its first statement to its last; the scenario
routes take a second one (`OpenSession`). A thread that finds the pool empty
waits, until there is a connection or the timeout of the pool (`Timeout`).

Instants are ages in ticks, capped at the window: all older entries are alike.
Claims carry, beside what the token says, what it was issued for; the code does
not have that and the properties compare with it. Signatures and hashes are
taken to work: a client presents tokens that were handed out, and a password is
right or wrong.

### DomainSchema and SchemaMigrations

`DomainSchema` has every table twice: as revision 0002 creates it, with its
enum types, foreign keys with their ON DELETE, checks, unique constraints and
indexes by name, and as the classes of `models/domain.py` declare it, with the
additions of 0003. Names follow the naming convention of `db/base.py`. Column
types, nullability and the expressions of checks are left out.

`SchemaMigrations` translates the three revisions into lists of DDL statements,
each with what it needs, what must not be there, what it drops and makes. A
migrator plans its statements from the version it reads and executes them in
one transaction, as `alembic/env.py` does; statements that touch the same table
wait for the transaction that did first, and `Stamp` fails if the version has
moved. A container runs `alembic upgrade head` and serves only if that
succeeds; the operator may downgrade. Crashes, lost connections and downgrades
share a budget (`MaxFaults`). Downgrades happen only while the dataset is empty
and nobody migrates, and rows are stored only once every container serves.
Once they are, `StartReset` and `DeleteTable` are the reset: its deletes in the
code's order against the foreign keys and the audit trigger of the committed
schema. Deletion of the rows of a table is one step, and rows are what tables
may refer to: a table is full or empty.

### Provenance

The contributions that the engine stores for a session and a transfer, without
points and wording: category, code and sources. `Interactions` are the pairs
that `evaluate_interactions` accepts, `Pairs` the way `incident_provenance.py`
finds their sources again from what was stored, and `Projectable` whether it
succeeds. The three showcase scenarios and the background incidents are the
fixtures.

### CaseReading

Two background incidents and the results of two scenarios. The detail of an
incident is four statements (`ReadRow`, `ReadContributions`, `ReadActions`,
`ReadEvents`) and a projection that may answer 500 (`Project`); a page of the
list is two (`Count`, `Rows`). The order of a page is any that its ORDER BY
permits. Between them an action, a run and a reset commit, each whole. The
timeline, masking and the quantum assessment of the detail are left out.

A reset in the middle of a detail is visible: a scenario's incident may be
shown without its contributions if it has no bonus, or answered with 500 if it
has one. `BonusIsEvidenced` and `OnlyResetsHideProvenance` say that this is all.

### ReleaseBootstrap

A bootstrap counts seven tables, one statement each, initialises or computes
the fingerprint of fourteen tables, seeds the users, and reads all again;
`Initialize` is the reset of `DemoDataService`, `StoreUsers` the commit of the
seeding after its lookups. The dataset is filled or not, with the tables that
differ from the baseline (`changed`) and those that also have more rows
(`grown`). `RunScenario`, `FailScenario`, `Act` and `AdministratorResets` are a
service that is already in use. `held` is a history variable: whether the
dataset has been the baseline at some moment since the bootstrap began to read.
`filled` is one Boolean: the zero test of the code counts seven of the fourteen
tables, but a reset fills all of them in one transaction and nothing empties one,
so no state of the application tells the two apart. `RunScenario` changes the
tables that the scenarios with a device and a beneficiary of their own change; the
ordinary one changes fewer of them, and no property depends on it.

A bootstrap that begins on a filled dataset never resets it. Two that both
counted zero may both reset, the later one over what was done in between; the
code accepts that for a database that was empty, and the module shows it only
loses such work.

## The runs

| Run | Instance | Shows |
|---|---|---|
| `workflow_race` | 1 incident and an unknown id, 2 analysts, 2 keys, 2 threads, 7 commands; ~250 000 states | the safety and action properties of the workflow and its refinement |
| `workflow_responses` | 1 incident, 2 threads, 4 commands; ~95 000 states | the inductive invariant, and that every request ends |
| `scenario_lifecycle` | 1 scenario, 1 background incident, 2 runners, 1 reset thread with 2 resets, 1 analyst, all but the analyst may raise or die; ~417 000 states | the dataset is consistent, no deadlock without overlapping resets, a reset restores the baseline, answers are current |
| `scenario_two_resets` | 1 scenario, no background incident, 1 runner, 2 reset threads, 1 analyst, one reset may raise or die; fair; ~63 000 states | resets that overlap, runs and actions in circles with them: the baseline, and every request ends |
| `scenario_replay` | 2 runners, 1 reset; violated | finding 1 below |
| `risk_scoring` | two grids: the thresholds of the transaction rules, and 9 signals against the features of the interactions; ~269 000 states | hold needs both domains; no hold by anomaly alone; one rounding; evidence never lowers a stream |
| `risk_bonus` | 10 signals, interactions' features; violated | finding 2 below |
| `access_control` | 2 threads, 1 user, 1 address, 2 failures, 1 demo access, windows of 2 ticks, 2 connections; ~1 070 000 states | failures and demo tokens stay bounded; no write without a password and the role |
| `access_liveness` | the same without demo access; fair; ~94 000 states | every block ends however often the account is tried; every request is answered although the pool may be empty |
| `schema_migrations` | 2 containers, an operator, 1 fault; fair; ~95 000 states | the schema is a revision, ready means what the models need, only disturbed migrations fail, a reset goes through, every container serves |
| `case_reading` | 1 client, 4 incidents, 3 actions of which 2 happen, 1 reset, 2 orders, 3 filters, pages of 3; ~883 000 states | what is shown is explained, bonus and provenance survive all but a reset, an undisturbed walk shows each incident once |
| `release_bootstrap` | the release hook and an operator, 1 crash or administrator's reset; fair; ~573 000 states | accepted means baseline, a found dataset is never reset, a new database is set up |

Why these bounds: locks are per incident, so two threads on one incident show
every conflict of the workflow, and a second incident only multiplies states.
The seven commands contain each kind that can disagree: one key with two
actions, the same key of two analysts, a note, a PATCH and a POST, an unknown
incident, an unsupported target. As each key acts once, histories have at most
three actions, enough for a stale token, a retry after a later action and a
reused key to coincide. In the lifecycle two runs of one scenario contend for
one row; a background incident is there so that reset deletes something no run
owns; two resets let a request survive from one dataset into the next but one
(`MaxResets`). With two reset threads the result of the scenario is the incident,
and one customer is enough for a run to share account, channel and baseline rows
that a reset deletes. The thresholds are the code's own, each with the value one
step on its other side. Two threads and a limit of two failures let the limit be reached
and overshot; two connections are the fewest with which two requests that need
two each can block one another. Migrations conflict in pairs, and one fault can
strike at each of their statements; it may be spent on a downgrade or on a crash,
so a crash inside a downgrade is covered by the proofs, for any budget, and not by
the run. Pages of three split a list of four. Each
bootstrap passes all its tables, so one crash strikes at every table. Symmetry
is used only in runs without liveness.

`TypeOK` is the one type invariant of a module; where it is proved for all
constants (`AccessControl`, `ReleaseBootstrap`) no run need repeat it. Each other
property is stated and explained in the comment above it.

The runs of `RiskScoring`, `ReleaseBootstrap` and `SchemaMigrations` do not check
for deadlock: the walk ends where nothing can become riskier, bootstraps end,
and a service whose faults are spent and whose containers serve has nothing
left to do.

### Fairness

The specifications with fairness assume that a thread which can execute its
next statement does (weak fairness), and that a thread which waits for a row
lock gets it if the lock is free again and again (strong fairness): PostgreSQL
queues the waiters of a row. `AccessControl` lets time pass and each thread go
on; connections of the pool need no queue, because the timeout ends the wait.
`SchemaMigrations` lets the platform start a container that has died or
failed, and a migrator go on, as the platform's restart policy does;
`ReleaseBootstrap` lets the operator run again a bootstrap that failed. Nothing
is assumed of clients, crashes, downgrades and administrators: no request need
be sent, and a process may die or not.

### Findings

1. `scenario_replay`, `services/scenarios.py:285-289`. A run waits for the run
   row while a reset replaces it, finds nothing and raises. Before its failure
   record reads the row of the new dataset, another request starts that
   scenario; the record reads `not_run`, waits for the lock, and writes `FAILED`
   over `COMPLETED`. The incident stays. Later runs do not find `COMPLETED`, try to
   insert the incident again and fail, until a reset. The documents promise that
   a completed scenario is replayed.
2. `risk_bonus`, `risk_engine/correlation.py:167-171`. An interaction that does
   not fit under the cap is dropped whole. Four eligible interactions worth 22
   give 16; without the risky network the other three give 18. `ARCHITECTURE.md`
   and `ACCEPTANCE_TESTS.md` say the bonus is clamped to 18; `docs/RISK_SCORING.md`
   can be read either way.

## The proofs

`AnalystWorkflowProofs`, for any number of incidents, analysts, keys, notes,
commands and threads. Assumed are the named assumptions of the module: incidents
have ids, commands are commands, and the three null values are not members of
the sets they stand beside. The properties alone are not inductive. `Inv` adds

- `CopiesAreCurrent`: a thread past its first lock holds it and its copy equals
  the row, past its second lock likewise for the transaction. This is what makes
  a write from the copies a write on the rows, and a lost update impossible;
- `TokensNameVersions`: no row and no token lies in the future, and a view with
  the `updated_at` of the case is the case. This is why comparing instants is
  comparing versions, and it needs every action, notes included, to renew
  `updated_at`.

`Inv` is an invariant of the run `workflow_responses`; then `InitInv`, `NextInv`
with a lemma per action, and `SpecInv`. From it follow the type invariant,
`UnbrokenHistory`, `ActsAtMostOnce`, the action properties, and the refinement
`Spec => ImplementsCase`, in which `Apply` is `Act` and every other step a stutter.
`TokenMeansUnchanged` and `OfferedActionIsAccepted` compare the view a token came
from with the locked copy, which `Inv` makes the case itself; `RetryIsReplayed`
needs that the recorded actions only grow and that a key is recorded once.

`ScenarioLifecycleProofs`, for any number of scenarios, incidents, customers, runners,
resetters and analysts, whichever of them fail. Assumed: a thread serves one
kind of request, keys of different kinds differ, and cases have customers.
`LifecycleInv` adds to `TypeOK` and `DatasetIsConsistent`, which need each other,

- `Exclusive` and `HeldExist`: nobody else has or shares a row that a transaction
  holds, and every locked row is still there, since only its holder could delete it;
- `Kinds`: analysts hold incidents and transactions, a run holds the row of its
  scenario and shares rows of customers and channels (`Parties`), so that neither
  writes a status on a row of the wrong table;
- `Covers`: a reset that holds a row holds or still wants everything its foreign
  keys delete along. What was there came along when it took the row, and who
  inserts something new needs a lock on the row it refers to.

`Covers` is why a reset restores the baseline although it counts half the tables
only: once its counts match it has every incident, customer and
account there is, hence what goes along with them, and a channel or asset left
over would have the key of a new one (`NothingIsKept`). By `Exclusive` nobody else
holds a row then. A run that commits has shared all its parents, so that none of
them is gone and all of them are of the dataset of its run row. `AnswersAreCurrent` follows because a run holds the run row when it
answers, and all rows are of one dataset.

`DeadlockNeedsTwoResets` is about circles of any size, and rests on the order in
which locks are taken, `LockOrder`: a run holds its run row before it shares a
parent (`RunFirst`), an analyst who waits with a row in hand has an incident and
wants a transaction (`IncidentFirst`, `OneRow`), and what either of them waits for
then is in `LateTables`, which a reset touches only after its first five statements
(`LateLast`). By then the reset has every run row and every incident there is
(`Sweeps`), so no run that inserts and no action is left beside it: it would hold a
row the reset has. The last is what another reset can take away: who inserts
incidents needs the run row, and the reset has all of these, but those of the
dataset it began on. So each run and each action in a circle waits for a reset that
has come to the late tables (`CirclesNeedResets`), and with no other reset open and
none committed since it began that reset has the row which the circle needs
somebody else to hold. No claim is made that runs stay out of circles: with two
resets they do not.

`RiskScoringProofs`, for all grids of features and all gates (`GridsAreTyped`).
`TypeOK` is inductive, and three properties follow from it by arithmetic on
bounds: each stream is in 0..100, the bonus in 0..18, a quiet stream has at most
20 points and no interaction, hence at most 54 fused; twenty points of anomaly,
ten per stream, are nine fused, so a score of 60 needs at least 51 from the
rules; and half up is within half a point, so that severity and decision change
exactly at raw scores of 19.5, 39.5, 59.5 and 79.5 (`FusedIsGraded`).
`EvidenceNeverLowersScore` compares two
inputs: a signal more, a feature riskier or an outlier more gives no fewer
points in any rule (`MoreSignalsMorePoints`, `RiskierFeaturesMorePoints`), and the
caps and the ten ordinary points keep the order of the sums.

`AccessControlProofs`, for any number of threads, users and addresses and any
limits. `AccessInv` adds to the types what each thread knows at its place in the
code (`Local`): that it passed the limiter, that the row it read carries what its
token claims, that past its guard it has what the guard demands; and that every
token handed out is honest (`TokensAreHonest`): what it claims about its access
mode is what it was issued for. `FailuresAreBounded` counts the threads between
asking and telling with the failures, each of which may still add one: a thread
that is let in finds fewer failures than the limit and at most the other threads
before it, and a thread that tells moves one from the second count to the first.

`IssuanceIsBounded` compares two windows that time empties at different moments:
a place is taken before the token is issued, so the window of places forgets
first. `PlacesAreTaken` counts both from their new ends: the j-th latest token is
no older than the j-th latest place, but for as many as there are threads
without a demo request on its way (`Backed`, `DemoInv`). A thread that takes a
place pays in advance for the token it issues, and a tick keeps the order.

`ReleaseBootstrapProofs`, for any number of bootstraps and events.
`BootstrapInv` adds `ChangesShow`, `Suspicious` and `Found`. The first is the
heart: whoever changes the dataset changes one of the two tables which the
fingerprint reads last, and only a reset takes a change back, which makes the
dataset the baseline. So while the history says the dataset has not been the
baseline since the reading began, there was no reset, the changes that were
there still are, and one of the last two tables gives them away. `Found` says
that once a table of a filled dataset has been counted the counts are not all
zero any more, because no step empties the dataset.

`CaseReadingProofs`, for any number of clients, any budgets of actions and resets
and pages of any size. `EngineIsProjectable` is about every set of signals and every
transfer: each interaction the engine accepts finds exactly one contribution
for each of its components. `ReadingInv` says what a detail has read at each of its
statements (`Sound`): while no reset came in between, the row, the contributions
that were stored with it, and actions that lead to the row and, for those that
were recorded after it was read, on from it. Actions are only appended, which
keeps that so while analysts act between the statements. For the list,
`WalkingInv` says that the pages shown so far are a beginning of every order the
ORDER BY permits: what analysts cannot change orders any two incidents in one
way, ids included (`OrderIsStrict`), so there is one order, and no page skips or
repeats a row of it.

`MigrationProgramsProofs` and `SchemaMigrationsProofs`, for any number of containers,
any budget of faults and the three revisions as they are. The first is about
the programs alone, without interleaving: `Leads` says that each statement of a
program succeeds on what the ones before left, and where the last one leads.
It is proved of every upgrade and downgrade and of every path between two
revisions (`HeadIsReached`, `LowerIsReached`): references go back in the list of
tables, no object is made twice, on the way down indexes go before their tables
and types after those that use them; and head is what the models declare
(`HeadIsWhatModelsNeed`). The second is about the transactions that run them.
`MigrationInv` says that a container that migrates has not begun to touch
anything (`Fresh`), or is on its way (`Leading`), or has been overtaken and stands
before a statement that will be refused (`Late`); that one at most is on its way,
because the first statement of all that start from one revision touches the
same table and the others wait for it; and that an operator is alone. A commit
is then head or the revision a downgrade asked for: `SchemaIsARevision`,
`ReadyMeansModels`, `ServesOnlyHead`. `SoundInv` adds that who is late has been
disturbed, hence `OnlyDisturbedOnesFail`. `ResetInv` says that in a reset the rows that
are left are those of the tables not yet deleted, on the schema of head: whatever
refers to a table is deleted before it (`ReferringTablesGoFirst`), so a cascade
adds nothing and nothing restricts, hence `ResetGoesThrough`, from any rows.

### Only model-checked

Every invariant and every action property of the passing runs is proved for
all values of the constants. What stays with TLC is liveness, which the prover
does not reach (neither fairness nor `ENABLED`): `EveryRequestEnds`, `BlockEnds`,
`EveryContainerServes`, `DatabaseIsSetUp`; and the counterexamples of the two
findings. The inductive invariants of the proof modules are not invariants of
runs, but for `Inv` and those properties that are their conjuncts: `Leads`, `Backed`
and `Explains` quantify over what TLC would have to enumerate.

## Plan

Most important first. Done: the subjects above, and their invariants proved.

1. An abstract dataset (baseline, results, failures, as atomic steps) that
   `ScenarioLifecycle` implements, checked by TLC and proved step by step, as
   `IncidentCase` is for the workflow.
2. The same for access: a session that is granted, used and ended in atomic
   steps, which `AccessControl` implements.
3. The timeline of a detail, ordered from events and actions of different
   statements.

## Not modelled

- Benchmark, behavioural baselines, quantum readiness, customer context,
  dashboard and integrity report: functions of one request or of a fixed
  fixture. No step of another actor comes between, and their arithmetic is on
  values the seed fixes; a module about them would restate them.
- The browser: session storage, the handler of 401, query cache, toasts. What
  reaches the service from a client with an old view is modelled (stale tokens,
  retries, expired and outlived tokens, pages walked while the list changes).
- Rendering, styles, charts, wording of explanations, masking, headers,
  configuration checks: no state, or nothing else depends on it.
- The cryptography of tokens and passwords, and the fit of the isolation
  forests, which the models take as given or as arbitrary.
- Deployment and CI beyond the command of the container and the release hook.

## Running

    tlc -workers 2 -config MCAnalystWorkflow.cfg MCAnalystWorkflow
    tlc -workers 2 -config MCScenarioLifecycle.cfg MCScenarioLifecycle
    tlc -workers 2 -config MCRiskScoring.cfg MCRiskScoring
    tlc -workers 2 -config MCSchemaMigrations.cfg MCSchemaMigrations
    tlapm AnalystWorkflowProofs.tla
