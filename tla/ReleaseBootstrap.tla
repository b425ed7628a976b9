--------------------------- MODULE ReleaseBootstrap ---------------------------
(***************************************************************************)
(* The guarded bootstrap of a hosted release: it counts the tables of the  *)
(* dataset, initialises an empty one or takes the fingerprint of one that  *)
(* is there, seeds the two users, and counts and fingerprints once more.   *)
(* Every count, and every table of a fingerprint, is a statement of its    *)
(* own, and the parts are separate transactions: other bootstraps, and     *)
(* once there are users also their work, come in between, and a crash may. *)
(*                                                                         *)
(* A table holds nothing, the rows of the baseline, or others; "grown"     *)
(* tables also have another number of rows.                                *)
(*                                                                         *)
(* The definitions named Faulty... are not the program: each is a way the  *)
(* definition that follows it could be wrong.                              *)
(***************************************************************************)
EXTENDS Naturals, Sequences

CONSTANTS
  Bootstraps,
  MaxEvents    \* bound on crashes and on the resets of administrators, together

\* The zero test of a bootstrap counts seven of the tables.  A reset fills all of
\* them in one transaction and nothing empties one, so one Boolean says of them
\* all whether they have rows.
VARIABLES
  configured,  \* whether the settings and the manifest pass the guard
  filled,      \* whether the dataset has rows
  changed,     \* the tables whose rows are not those of the baseline
  grown,       \* those among them with another number of rows
  users,       \* of each demo user: what is stored under its identity
  pc,          \* where each bootstrap is
  read,        \* what it has read so far
  missing,     \* the users it found missing
  events,      \* the number of crashes and of resets so far
  held         \* history: the dataset has been the baseline since it began to read

dataset == <<filled, changed, grown>>
steps == <<pc, read, missing>>
vars == <<configured, dataset, users, steps, events, held>>

-----------------------------------------------------------------------------
COUNTED == <<"customers", "accounts", "devices", "transactions", "cyber_events",
             "incidents", "scenario_runs">>

\* The last table forgotten.
FAULTY_FINGERPRINT_MODELS ==
  <<"crypto_assets", "transaction_channels", "customers", "accounts", "devices",
    "beneficiaries", "sessions", "cyber_events", "transactions", "behavioural_baselines",
    "incidents", "risk_contributions", "analyst_actions">>

\* The tables of a fingerprint, in the order in which they are read.
FINGERPRINT_MODELS ==
  <<"crypto_assets", "transaction_channels", "customers", "accounts", "devices",
    "beneficiaries", "sessions", "cyber_events", "transactions", "behavioural_baselines",
    "incidents", "risk_contributions", "analyst_actions", "scenario_runs">>

Tables == {FINGERPRINT_MODELS[k] : k \in 1..Len(FINGERPRINT_MODELS)}

DemoUsers == {"admin", "analyst"}

Baseline == filled /\ changed = {}

\* What counting and fingerprinting have found so far: every table empty, every
\* number of rows that of the manifest, every row that of the baseline.
\* Whether there was a dataset when it began is kept as history.
NothingRead(found) ==
  [next |-> 1, zero |-> TRUE, counts |-> TRUE, rows |-> TRUE, found |-> found]

\* From the counts to the fingerprint.
FromFirstTable(r) ==
  [next |-> 1, zero |-> r.zero, counts |-> r.counts, rows |-> r.rows, found |-> r.found]

AfterCount(r) ==
  [next |-> r.next + 1, zero |-> r.zero /\ ~ filled,
   counts |-> r.counts /\ filled /\ COUNTED[r.next] \notin grown,
   rows |-> r.rows, found |-> r.found]

AfterTable(r) ==
  [next |-> r.next + 1, zero |-> r.zero, counts |-> r.counts,
   rows |-> r.rows /\ filled /\ FINGERPRINT_MODELS[r.next] \notin changed,
   found |-> r.found]

Noted(now) == held' = [b \in Bootstraps |-> held[b] \/ now]

Goto(b, at) == pc' = [pc EXCEPT ![b] = at]
\* The command ends, and what it has read goes with it.
End(b, at) ==
  /\ Goto(b, at)
  /\ read' = [read EXCEPT ![b] = NothingRead(FALSE)]
  /\ missing' = [missing EXCEPT ![b] = {}]
  /\ held' = [held EXCEPT ![b] = FALSE]

BeginReading(b) == read' = [read EXCEPT ![b] = NothingRead(filled)]

-----------------------------------------------------------------------------
(* A bootstrap. *)

\* The guard: production, confirmed, both passwords, the manifest of this release.
Start(b) ==
  /\ pc[b] \in {"idle", "failed"}
  /\ Goto(b, IF configured THEN "count" ELSE "refused")
  /\ BeginReading(b)
  /\ held' = [held EXCEPT ![b] = Baseline]
  /\ UNCHANGED <<configured, dataset, users, missing, events>>

\* One count.
CountTable(b) ==
  /\ pc[b] \in {"count", "final count"} /\ read[b].next <= Len(COUNTED)
  /\ read' = [read EXCEPT ![b] = AfterCount(read[b])]
  /\ UNCHANGED <<configured, dataset, users, pc, missing, events, held>>

\* Whatever is not the baseline is replaced.
FaultyInitializes(r) == ~ r.counts
Initializes(r) == r.zero

\* A dataset that is there is never accepted.
FaultyVerifies(r) == FALSE
Verifies(r) == ~ Initializes(r) /\ r.counts

\* What the counts ask for.
Decide(b) ==
  /\ pc[b] = "count" /\ read[b].next > Len(COUNTED)
  /\ \/ Initializes(read[b]) /\ Goto(b, "initialize")
        /\ UNCHANGED <<read, missing, held>>
     \/ Verifies(read[b]) /\ Goto(b, "fingerprint")
        /\ read' = [read EXCEPT ![b] = FromFirstTable(read[b])]
        /\ UNCHANGED <<missing, held>>
     \/ ~ Initializes(read[b]) /\ ~ Verifies(read[b]) /\ End(b, "refused")
  /\ UNCHANGED <<configured, dataset, users, events>>

\* The reset commits.  It knows its counts and its fingerprint to be right.
Initialize(b) ==
  /\ pc[b] = "initialize"
  /\ filled' = TRUE /\ changed' = {} /\ grown' = {}
  /\ Noted(TRUE)
  /\ Goto(b, "seed")
  /\ UNCHANGED <<configured, users, read, missing, events>>

\* Another reset came first: the same identities are there already.
InitializeConflict(b) ==
  /\ pc[b] = "initialize" /\ filled
  /\ End(b, "failed")
  /\ UNCHANGED <<configured, dataset, users, events>>

\* One table of a fingerprint.
ReadTable(b) ==
  /\ pc[b] \in {"fingerprint", "final fingerprint"}
  /\ read[b].next <= Len(FINGERPRINT_MODELS)
  /\ read' = [read EXCEPT ![b] = AfterTable(read[b])]
  /\ UNCHANGED <<configured, dataset, users, pc, missing, events, held>>

\* Counts and fingerprint against the manifest.
Verify(b) ==
  /\ pc[b] \in {"fingerprint", "final fingerprint"}
  /\ read[b].next > Len(FINGERPRINT_MODELS)
  /\ End(b, IF ~ (read[b].counts /\ read[b].rows) THEN "refused"
            ELSE IF pc[b] = "fingerprint" THEN "seed" ELSE "done")
  /\ UNCHANGED <<configured, dataset, users, events>>

\* The users are looked up; an e-mail that belongs to another identity ends it.
LookUpUsers(b) ==
  /\ pc[b] = "seed"
  /\ IF \E u \in DemoUsers : users[u] = "foreign"
       THEN End(b, "refused")
       ELSE /\ Goto(b, "store")
            /\ missing' = [missing EXCEPT ![b] = {u \in DemoUsers : users[u] = "none"}]
            /\ UNCHANGED <<read, held>>
  /\ UNCHANGED <<configured, dataset, users, events>>

\* They are created, or given the values they should have.
StoreUsers(b) ==
  /\ pc[b] = "store"
  /\ \A u \in missing[b] : users[u] = "none"
  /\ users' = [u \in DemoUsers |-> "right"]
  /\ missing' = [missing EXCEPT ![b] = {}]
  /\ Goto(b, "final count")
  /\ BeginReading(b)
  /\ held' = [held EXCEPT ![b] = Baseline]
  /\ UNCHANGED <<configured, dataset, events>>

\* Another bootstrap has created a user first: the insert is refused.
StoreConflict(b) ==
  /\ pc[b] = "store"
  /\ \E u \in missing[b] : users[u] # "none"
  /\ End(b, "failed")
  /\ UNCHANGED <<configured, dataset, users, events>>

FinalFingerprint(b) ==
  /\ pc[b] = "final count" /\ read[b].next > Len(COUNTED)
  /\ Goto(b, "final fingerprint")
  /\ read' = [read EXCEPT ![b] = FromFirstTable(read[b])]
  /\ UNCHANGED <<configured, dataset, users, missing, events, held>>

\* The process dies; what it had not committed is gone.
Crash(b) ==
  /\ pc[b] \notin {"idle", "failed", "refused", "done"}
  /\ events < MaxEvents
  /\ events' = events + 1
  /\ End(b, "failed")
  /\ UNCHANGED <<configured, dataset, users>>

-----------------------------------------------------------------------------
(* The work of those who can log in. *)

SomeoneCanLogIn == \E u \in DemoUsers : users[u] \in {"right", "outdated"}

Work(tables, more) ==
  /\ SomeoneCanLogIn /\ filled
  /\ changed' = changed \union tables
  /\ grown' = grown \union more
  /\ UNCHANGED <<configured, filled, users, steps, events, held>>

\* A scenario runs, with a device and a beneficiary of its own (the ordinary scenario
\* uses known ones), or fails and leaves that in its row.
RunScenario ==
  Work({"devices", "beneficiaries", "sessions", "cyber_events", "transactions", "incidents",
        "risk_contributions", "scenario_runs"}, {"devices", "transactions", "cyber_events",
                                                 "incidents"})
FailScenario == Work({"scenario_runs"}, {})

\* An analyst acts, whether the transaction moves or not.
Act == \E moved \in {{}, {"transactions"}} :
         Work({"incidents", "analyst_actions"} \union moved, {})

AdministratorResets ==
  /\ SomeoneCanLogIn
  /\ events < MaxEvents
  /\ events' = events + 1
  /\ filled' = TRUE /\ changed' = {} /\ grown' = {}
  /\ Noted(TRUE)
  /\ UNCHANGED <<configured, users, steps>>
-----------------------------------------------------------------------------
\* A new database, one that has been set up and used, or one that is foreign.
Init ==
  /\ configured \in BOOLEAN
  /\ \/ filled = FALSE /\ changed = {} /\ users = [u \in DemoUsers |-> "none"]
     \/ filled = FALSE /\ changed = {} /\ users = [admin |-> "none", analyst |-> "foreign"]
     \/ filled = TRUE /\ changed = {}
        /\ users = [u \in DemoUsers |-> "outdated"]
  /\ grown = {}
  /\ pc = [b \in Bootstraps |-> "idle"]
  /\ read = [b \in Bootstraps |-> NothingRead(FALSE)]
  /\ missing = [b \in Bootstraps |-> {}]
  /\ events = 0
  /\ held = [b \in Bootstraps |-> FALSE]

Step(b) ==
  \/ Start(b) \/ CountTable(b) \/ Decide(b) \/ Initialize(b) \/ InitializeConflict(b)
  \/ ReadTable(b) \/ Verify(b) \/ LookUpUsers(b) \/ StoreUsers(b) \/ StoreConflict(b)
  \/ FinalFingerprint(b)

Works == RunScenario \/ FailScenario \/ Act \/ AdministratorResets

Next == (\E b \in Bootstraps : Step(b) \/ Crash(b)) \/ Works

\* An operator starts a bootstrap again that crashed or met another one.
Spec == Init /\ [][Next]_vars /\ \A b \in Bootstraps : WF_vars(Step(b))
-----------------------------------------------------------------------------
Readings ==
  [next : Nat, zero : BOOLEAN, counts : BOOLEAN, rows : BOOLEAN, found : BOOLEAN]

TypeOK ==
  /\ configured \in BOOLEAN /\ filled \in BOOLEAN
  /\ changed \subseteq Tables /\ grown \subseteq changed
  /\ users \in [DemoUsers -> {"none", "outdated", "right", "foreign"}]
  /\ pc \in [Bootstraps -> {"idle", "count", "initialize", "fingerprint", "seed", "store",
                            "final count", "final fingerprint", "done", "failed", "refused"}]
  /\ read \in [Bootstraps -> Readings]
  /\ missing \in [Bootstraps -> SUBSET DemoUsers]
  /\ events \in Nat
  /\ held \in [Bootstraps -> BOOLEAN]

\* A fingerprint that is accepted is that of an instant: although its tables are
\* read one by one while others write, the dataset as a whole was the baseline
\* at some moment since the counting before it began.
AcceptedMeansBaseline ==
  [][\A b \in Bootstraps :
       pc[b] \in {"fingerprint", "final fingerprint"} /\ pc'[b] \in {"seed", "done"}
         => held[b]]_vars

\* A dataset that is there when a bootstrap begins is never replaced by it,
\* whatever runs, fails or is reset while its tables are counted one by one.
FoundDatasetIsNeverReset ==
  [][\A b \in Bootstraps :
       pc[b] = "initialize" /\ pc'[b] = "seed" => ~ read[b].found]_vars

\* A new database gets its users: with bootstraps that meet each other and crash
\* between any two of their transactions, one that is started again takes what
\* the others left as its own and completes it.
Fresh == /\ configured /\ (filled => Baseline)
         /\ \A u \in DemoUsers : users[u] = "none"
DatabaseIsSetUp == Fresh ~> \A u \in DemoUsers : users[u] = "right"
=============================================================================
