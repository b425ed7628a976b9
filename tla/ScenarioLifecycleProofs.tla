----------------------- MODULE ScenarioLifecycleProofs -----------------------
(***************************************************************************)
(* Proofs about runs, resets and analyst actions, for any number of        *)
(* scenarios, incidents, customers and threads of each kind.               *)
(*                                                                         *)
(* A row that a transaction has deleted or locked for itself is locked by  *)
(* no other, and only its holder deletes it.  A reset that holds a row     *)
(* holds, or still waits for, every row that is deleted along with it: the *)
(* rows that were there when it took the row it wants, and whoever inserts *)
(* a new one needs a lock on that row first.  So what a reset has counted  *)
(* away takes the rows it does not count along.                            *)
(*                                                                         *)
(* Deadlocks are about the order in which rows are taken.  A run locks its *)
(* run row first and an analyst the incident; a reset that is alone with   *)
(* its dataset has all the run rows and incidents before it deletes a row  *)
(* that one of them may have to wait for, so that none of them is left.    *)
(***************************************************************************)
EXTENDS ScenarioLifecycle, FiniteSetTheorems, TLAPS

\* The tables of the rows that a run refers to beside its own.
Parties == {"customer", "account", "device", "beneficiary", "baseline", "channel"}

\* A run locks the row of its scenario, and then shares what its inserts refer to.
RunnerLocks(p) ==
  /\ pc[p] \in {"idle", "run", "insert", "failed", "mark_failed", "update", "reply"}
  /\ \A x \in held[p] : x.table = "run" /\ x.key = task[p]
  /\ \A x \in wanted[p] \union shared[p] :
       IF pc[p] = "insert" THEN x.table \in Parties ELSE x.table = "run" /\ x.key = task[p]
  /\ pc[p] = "insert" => held[p] # {}
  /\ pc[p] # "insert" => shared[p] = {}

\* What each kind of thread locks.
Kinds ==
  /\ \A p \in Runners : RunnerLocks(p)
  /\ \A p \in Resetters : pc[p] \in {"idle", "reset", "reply"} /\ shared[p] = {}
  /\ \A p \in Analysts :
       /\ pc[p] \in {"idle", "act", "act_on_both", "reply"} /\ shared[p] = {}
       /\ \A x \in wanted[p] \union held[p] : x.table \in {"incident", "transaction"}

HeldExist == \A p \in Threads : held[p] \union shared[p] \subseteq DOMAIN db

Exclusive ==
  \A p, q \in Threads : p # q => held[p] \intersect (held[q] \union shared[q]) = {}

\* A reset that has a row has all that is deleted along, or still wants it.
Covers == \A p \in Resetters : \A x \in held[p] : Cascaded(x) \subseteq held[p] \union wanted[p]

\* The inductive invariant.
LifecycleInv ==
  TypeOK /\ DatasetIsConsistent /\ Kinds /\ HeldExist /\ Exclusive /\ Covers
-----------------------------------------------------------------------------
(* Rows and what they refer to. *)

LEMMA StatementCounts == Len(ResetOrder) = 14 /\ Len(InsertOrder) = 4
BY DEF ResetOrder, InsertOrder

LEMMA RowsAreNamed ==
  ASSUME NEW x \in Rows, NEW y \in Rows, SameKey(x, y), x.dataset = y.dataset
  PROVE  x = y
BY DEF Rows, SameKey

LEMMA RowFields ==
  ASSUME NEW table, NEW key, NEW n
  PROVE  /\ Row(table, key, n).table = table /\ Row(table, key, n).key = key
         /\ Row(table, key, n).dataset = n
BY DEF Row

\* A case uses rows of a customer, or of its own scenario.
LEMMA CustomerKeys ==
  ASSUME NEW k \in IncidentKeys \union Customers, NEW table
  PROVE  /\ Holder(k) \in Customers
         /\ Using(table, k) \in Customers \union ScenarioKeys
         /\ <<table, k>> \in Brings => k \in ScenarioKeys /\ table \in {"device", "beneficiary"}
         /\ k \in BackgroundIncidents \union Customers => Using(table, k) \in Customers
<1>1. Holder(k) \in Customers
  BY CasesHaveCustomers DEF Holder, IncidentKeys
<1>2. <<table, k>> \in Brings => k \in ScenarioKeys /\ table \in {"device", "beneficiary"}
  BY CasesHaveCustomers
<1>3. QED BY <1>1, <1>2, KeysAreDistinct DEF Using

LEMMA RowOfRows ==
  ASSUME NEW x \in Rows
  PROVE  /\ CaseKey(x) \in IncidentKeys \union Customers \union {Web}
         /\ x.dataset \in Nat
         /\ x.table \in CaseTables \union {"action"} => CaseKey(x) \in IncidentKeys
         /\ x.table \in CustomerTables => CaseKey(x) \in Customers \union ScenarioKeys
         /\ x.table \in CaseTables \union CustomerTables \union {"run", "channel", "asset", "action"}
BY DEF Rows, CaseKey, CaseTables, CustomerTables, IncidentKeys, ActionKeys

\* The row a reference names, and the tables it can be in.
LEMMA ReferredRow ==
  ASSUME NEW y \in Rows, NEW z \in References(y)
  PROVE  /\ z = Row(z.table, KeyIn(z.table, CaseKey(y)), y.dataset)
         /\ z.table \in CaseTables \union CustomerTables \union {"channel", "asset"}
         /\ z.table \in CaseTables => y.table \in CaseTables \union {"action"}
         /\ y.table \in CaseTables => z.table \in CaseTables \union Parties
         /\ y.table \in CustomerTables => z.table \in CustomerTables
         /\ y.table \notin {"run", "customer", "asset"}
         /\ y.table = "action" => z.table = "incident"
         /\ y.table = "channel" => z.table = "asset"
<1>1. PICK tables : /\ z \in Related(y, tables)
                    /\ tables \subseteq CaseTables \union CustomerTables \union {"channel", "asset"}
                    /\ \A t \in tables \intersect CaseTables : y.table \in CaseTables \union {"action"}
                    /\ y.table \in CaseTables => tables \subseteq CaseTables \union Parties
                    /\ y.table \in CustomerTables => tables \subseteq CustomerTables
                    /\ y.table \in {"run", "customer", "asset"} => tables = {}
                    /\ y.table = "action" => tables \subseteq {"incident"}
                    /\ y.table = "channel" => tables \subseteq {"asset"}
  <2>1. CASE z \in Owners(y)
    <3> DEFINE T == CASE y.table \in CustomerTables \ {"customer"} -> {"customer"}
                      [] y.table = "session" -> {"account", "device"}
                      [] y.table \in {"event", "transaction"} -> {"session"}
                      [] y.table = "incident" -> {"transaction"}
                      [] y.table \in {"contribution", "action"} -> {"incident"}
                      [] OTHER -> {}
    <3>1. z \in Related(y, T)
      BY <2>1 DEF Owners
    <3>2. QED BY <3>1 DEF CaseTables, CustomerTables, Parties
  <2>2. CASE z \in Needs(y)
    <3> DEFINE T == CASE y.table = "transaction" -> {"beneficiary", "channel"}
                      [] y.table = "channel" -> {"asset"}
                      [] OTHER -> {}
    <3>1. z \in Related(y, T)
      BY <2>2 DEF Needs
    <3>2. QED BY <3>1 DEF CaseTables, CustomerTables, Parties
  <2>3. CASE z \in Sources(y)
    <3> DEFINE T == IF y.table = "contribution" THEN {"event", "transaction", "baseline"} ELSE {}
    <3>1. z \in Related(y, T)
      BY <2>3 DEF Sources
    <3>2. QED BY <3>1 DEF CaseTables, CustomerTables, Parties
  <2>4. QED BY <2>1, <2>2, <2>3 DEF References
<1>2. PICK t \in tables : z = Row(t, KeyIn(t, CaseKey(y)), y.dataset)
  BY <1>1 DEF Related
<1>3. z.table = t
  BY <1>2, RowFields
<1>4. QED BY <1>1, <1>2, <1>3

\* Typed functions have a value for every thread.
LEMMA TypedFunctions ==
  ASSUME TypeOK
  PROVE  /\ DOMAIN pc = Threads /\ DOMAIN task = Threads /\ DOMAIN wanted = Threads
         /\ DOMAIN held = Threads /\ DOMAIN shared = Threads /\ DOMAIN step = Threads
         /\ DOMAIN began = Threads /\ DOMAIN reply = Threads
BY DEF TypeOK

LEMMA BaselineRowsAre ==
  ASSUME NEW n \in Nat, NEW x \in BaselineRows(n)
  PROVE  /\ x \in Rows /\ x.dataset = n /\ x.table # "action"
         /\ x.table = "run" => x.key \in ScenarioKeys
         /\ x.table \in CaseTables => CaseKey(x) \in BackgroundIncidents
         /\ x.table \in CustomerTables => CaseKey(x) \in Customers
BY DEF BaselineRows, Rows, Row, CaseKey, CaseTables, CustomerTables, IncidentKeys

LEMMA BaselineRefersToItself ==
  ASSUME NEW n \in Nat, NEW y \in BaselineRows(n), NEW z \in References(y)
  PROVE  z \in BaselineRows(n)
<1> DEFINE k == CaseKey(y)
<1>1. y \in Rows /\ y.dataset = n /\ y.table # "action"
  BY BaselineRowsAre
<1>2. /\ z = Row(z.table, KeyIn(z.table, k), n)
      /\ z.table \in CaseTables \union CustomerTables \union {"channel", "asset"}
  BY <1>1, ReferredRow
<1>3. CASE z.table \in CaseTables
  <2>1. k \in BackgroundIncidents
    BY <1>1, <1>3, ReferredRow, BaselineRowsAre
  <2>2. KeyIn(z.table, k) = k
    BY <1>3 DEF KeyIn, CaseTables, CustomerTables
  <2>3. QED BY <1>2, <1>3, <2>1, <2>2 DEF BaselineRows
<1>4. CASE z.table \in CustomerTables
  <2>1. y.table \in CaseTables \union CustomerTables
    BY <1>1, <1>4, ReferredRow, RowOfRows DEF CustomerTables
  <2>2. k \in BackgroundIncidents \union Customers
    BY <2>1, BaselineRowsAre
  <2>3. Using(z.table, k) \in Customers
    BY <2>2, CustomerKeys DEF IncidentKeys
  <2>4. KeyIn(z.table, k) = Using(z.table, k)
    BY <1>4 DEF KeyIn, CustomerTables
  <2>5. QED BY <1>2, <1>4, <2>3, <2>4 DEF BaselineRows
<1>5. CASE z.table \in {"channel", "asset"}
  <2>1. KeyIn(z.table, k) = Web
    BY <1>5 DEF KeyIn, CustomerTables
  <2>2. QED BY <1>2, <1>5, <2>1 DEF BaselineRows
<1>6. QED BY <1>2, <1>3, <1>4, <1>5

LEMMA ResultRowsAre ==
  ASSUME NEW s \in ScenarioKeys, NEW n \in Nat, NEW y \in ResultRows(s, n)
  PROVE  /\ y \in Rows /\ y.key = s /\ CaseKey(y) = s /\ y.dataset = n
         /\ y.table \in CaseTables \union {"device", "beneficiary"}
<1>1. PICK t \in CaseTables \union {"device", "beneficiary"} : y = Row(t, s, n)
  BY DEF ResultRows
<1>2. y.table = t /\ y.key = s /\ y.dataset = n
  BY <1>1, RowFields
<1>3. CaseKey(y) = s
  BY <1>2 DEF CaseKey, CaseTables
<1>4. Row(t, s, n) \in Rows
  BY DEF Row, Rows, CaseTables, CustomerTables, IncidentKeys
<1>5. QED BY <1>1, <1>2, <1>3, <1>4

\* A new case refers to its own rows and to those of its customer and channel.
LEMMA ResultRefersTo ==
  ASSUME NEW s \in ScenarioKeys, NEW n \in Nat, NEW y \in ResultRows(s, n),
         NEW z \in References(y), z \notin ResultRows(s, n)
  PROVE  z.table \in Parties
<1>1. y \in Rows /\ CaseKey(y) = s /\ y.dataset = n /\ y.table \in CaseTables \union {"device", "beneficiary"}
  BY ResultRowsAre
<1>2. z = Row(z.table, KeyIn(z.table, s), n)
  BY <1>1, ReferredRow
<1>3. z.table \in CaseTables => KeyIn(z.table, s) = s
  BY DEF KeyIn, CaseTables, CustomerTables
<1>4. z.table \notin CaseTables
  BY <1>2, <1>3 DEF ResultRows
<1>5. QED BY <1>1, <1>4, ReferredRow DEF CustomerTables, Parties

\* Consistency is about the committed rows only.
LEMMA SameDataSameConsistency ==
  ASSUME DatasetIsConsistent, UNCHANGED <<db, dataset>>
  PROVE  DatasetIsConsistent'
BY DEF DatasetIsConsistent, LeftBy, Named, Visible

LEMMA BaselineIsConsistent ==
  \A n \in Nat : db = Baseline(n) /\ dataset = n => DatasetIsConsistent
<1> SUFFICES ASSUME NEW n \in Nat, db = Baseline(n), dataset = n
             PROVE  DatasetIsConsistent
  OBVIOUS
<1>1. DOMAIN db = BaselineRows(n)
  BY DEF Baseline
<1>2. ASSUME NEW s \in ScenarioKeys
      PROVE  /\ Cardinality(Named("run", s)) = 1
             /\ LeftBy(s) = {}
             /\ \A x \in Named("run", s) : db[x] = "not_run"
  <2>1. Named("run", s) = {Row("run", s, n)}
    BY <1>1, <1>2 DEF Named, Visible, BaselineRows, Row, CaseTables, CustomerTables
  <2>2. Cardinality({Row("run", s, n)}) = 1
    BY FS_Singleton
  <2>3. LeftBy(s) = {}
    <3> SUFFICES ASSUME NEW x \in ResultRows(s, n), x \in BaselineRows(n) PROVE FALSE
      BY <1>1 DEF LeftBy
    <3>1. CaseKey(x) = s /\ x.table \in CaseTables \union {"device", "beneficiary"}
      BY <1>2, ResultRowsAre
    <3>2. CaseKey(x) \in BackgroundIncidents \union Customers
      BY <3>1, BaselineRowsAre DEF CustomerTables
    <3>3. QED BY <1>2, <3>1, <3>2, KeysAreDistinct
  <2>4. \A x \in Named("run", s) : db[x] = "not_run"
    BY <1>1 DEF Named, Visible, Baseline
  <2>5. QED BY <2>1, <2>2, <2>3, <2>4
<1>3. \A x \in DOMAIN db : x.dataset = dataset /\ References(x) \subseteq DOMAIN db
  BY <1>1, BaselineRowsAre, BaselineRefersToItself
<1>4. \A s \in ScenarioKeys :
       /\ Cardinality(Named("run", s)) = 1
       /\ LeftBy(s) \in {{}, ResultRows(s, dataset)}
       /\ \A x \in Named("run", s) :
            /\ db[x] = "not_run" => LeftBy(s) = {}
            /\ db[x] = "completed" => LeftBy(s) = ResultRows(s, dataset)
  BY <1>2
<1>5. QED BY <1>3, <1>4 DEF DatasetIsConsistent

LEMMA BaselineIsConsistentNext ==
  (\A n \in Nat : db = Baseline(n) /\ dataset = n => DatasetIsConsistent)'
BY BaselineIsConsistent, PTL

LEMMA BaselineIsTyped ==
  ASSUME NEW n \in Nat
  PROVE  /\ DOMAIN Baseline(n) \subseteq Rows
         /\ \A x \in DOMAIN Baseline(n) :
              Baseline(n)[x] \in IF x.table = "run" THEN RunStatus ELSE WorkStatus
BY BaselineRowsAre DEF Baseline, RunStatus, WorkStatus

LEMMA InitEstablishes == Init => LifecycleInv
<1> SUFFICES ASSUME Init PROVE LifecycleInv
  OBVIOUS
<1>1. TypeOK
  BY BaselineIsTyped, StatementCounts DEF Init, TypeOK, Labels
<1>2. DatasetIsConsistent
  BY BaselineIsConsistent DEF Init
<1>3. Kinds /\ HeldExist /\ Exclusive /\ Covers
  BY DEF Init, Kinds, RunnerLocks, HeldExist, Exclusive, Covers, Threads
<1>4. QED BY <1>1, <1>2, <1>3 DEF LifecycleInv
-----------------------------------------------------------------------------
(* Transactions that end, and statements that start. *)

\* The types after the end of a transaction.
LEMMA EndIsTyped ==
  ASSUME TypeOK, NEW p \in Threads, NEW l \in Labels, Goto(p, l), Release(p),
         DOMAIN db' \subseteq Rows,
         \A x \in DOMAIN db' : db'[x] \in IF x.table = "run" THEN RunStatus ELSE WorkStatus,
         dataset' \in Nat, dataset' >= dataset,
         task' \in [Threads -> IncidentKeys \union {NoRow}], DOMAIN reply' = Threads
  PROVE  TypeOK'
<1> USE TypedFunctions DEF Goto, Release
<1>1. /\ held' \in [Threads -> SUBSET Rows] /\ wanted' \in [Threads -> SUBSET Rows]
      /\ shared' \in [Threads -> SUBSET Rows]
  BY DEF TypeOK
<1>2. \A q \in Threads :
       pc'[q] \in {"idle", "failed", "mark_failed", "reply"} =>
         wanted'[q] = {} /\ held'[q] = {} /\ shared'[q] = {}
  BY DEF TypeOK
<1>3. pc' \in [Threads -> Labels]
  BY DEF TypeOK
<1>4. step' \in [Threads -> 0..Len(ResetOrder)]
  <2>1. 0 \in 0..Len(ResetOrder)
    BY StatementCounts
  <2>2. QED BY <2>1 DEF TypeOK
<1>5. began' \in [Threads -> 0..dataset']
  <2>1. 0..dataset \subseteq 0..dataset' /\ 0 \in 0..dataset'
    BY DEF TypeOK
  <2>2. QED BY <2>1 DEF TypeOK
<1> HIDE DEF Goto, Release
<1>6. QED BY <1>1, <1>2, <1>3, <1>4, <1>5, Zenon DEF TypeOK

\* A transaction that deletes nothing ends: its locks are gone, and no row that is
\* new belongs to a row that somebody else holds.
LEMMA ReleaseKeepsLocks ==
  ASSUME LifecycleInv, NEW p \in Threads, NEW l \in {"idle", "failed", "reply"},
         l = "failed" => p \in Runners, Goto(p, l), Release(p),
         \A q \in Threads \ {p} : task'[q] = task[q],
         DOMAIN db \subseteq DOMAIN db',
         \A y \in DOMAIN db' \ DOMAIN db : \A q \in Threads \ {p} : Owners(y) \intersect held[q] = {}
  PROVE  Kinds' /\ HeldExist' /\ Exclusive' /\ Covers'
<1> USE TypedFunctions DEF LifecycleInv
<1>1. held'[p] = {} /\ wanted'[p] = {} /\ shared'[p] = {} /\ pc'[p] = l
  BY DEF Release, Goto
<1>2. ASSUME NEW q \in Threads \ {p}
      PROVE  /\ held'[q] = held[q] /\ wanted'[q] = wanted[q] /\ shared'[q] = shared[q]
             /\ pc'[q] = pc[q] /\ task'[q] = task[q]
  BY DEF Release, Goto
<1>3. Kinds'
  <2>1. ASSUME NEW q \in Runners PROVE RunnerLocks(q)'
    BY <1>1, <1>2 DEF Kinds, RunnerLocks, Threads
  <2>2. ASSUME NEW q \in Resetters PROVE pc'[q] \in {"idle", "reset", "reply"} /\ shared'[q] = {}
    BY <1>1, <1>2, ThreadsServeOneKind DEF Kinds, Threads
  <2>3. ASSUME NEW q \in Analysts
        PROVE  /\ pc'[q] \in {"idle", "act", "act_on_both", "reply"} /\ shared'[q] = {}
               /\ \A x \in wanted'[q] \union held'[q] : x.table \in {"incident", "transaction"}
    BY <1>1, <1>2, ThreadsServeOneKind DEF Kinds, Threads
  <2>4. QED BY <2>1, <2>2, <2>3 DEF Kinds
<1>4. HeldExist'
  BY <1>1, <1>2 DEF HeldExist
<1>5. Exclusive'
  BY <1>1, <1>2 DEF Exclusive
<1>6. Covers'
  <2> SUFFICES ASSUME NEW q \in Resetters, NEW x \in held'[q],
                      NEW y \in DOMAIN db', x \in Owners(y)
               PROVE  y \in held'[q] \union wanted'[q]
    BY DEF Covers, Cascaded
  <2>1. q \in Threads \ {p} /\ x \in held[q]
    BY <1>1, <1>2 DEF Threads
  <2>2. y \in DOMAIN db
    BY <2>1
  <2>3. y \in Cascaded(x)
    BY <2>2 DEF Cascaded
  <2>4. QED BY <1>2, <2>1, <2>3 DEF Covers
<1>7. QED BY <1>3, <1>4, <1>5, <1>6

\* The same, with nothing written.
LEMMA RollbackKeeps ==
  ASSUME LifecycleInv, NEW p \in Threads, NEW l \in {"idle", "failed", "reply"},
         l = "failed" => p \in Runners, Rollback(p, l), DOMAIN reply' = Threads,
         task' \in [Threads -> IncidentKeys \union {NoRow}],
         \A q \in Threads \ {p} : task'[q] = task[q]
  PROVE  LifecycleInv'
<1>1. Goto(p, l) /\ Release(p) /\ UNCHANGED <<db, dataset>>
  BY DEF Rollback
<1>2. Kinds' /\ HeldExist' /\ Exclusive' /\ Covers'
  BY <1>1, ReleaseKeepsLocks
<1>3. TypeOK'
  <2>1. TypeOK /\ l \in Labels
    BY DEF LifecycleInv, Labels
  <2>2. /\ DOMAIN db' \subseteq Rows /\ dataset' \in Nat /\ dataset' >= dataset
        /\ \A x \in DOMAIN db' : db'[x] \in IF x.table = "run" THEN RunStatus ELSE WorkStatus
    BY <1>1, <2>1 DEF TypeOK
  <2>3. QED BY <1>1, <2>1, <2>2, EndIsTyped
<1>4. DatasetIsConsistent'
  BY <1>1, SameDataSameConsistency DEF LifecycleInv
<1>5. QED BY <1>2, <1>3, <1>4 DEF LifecycleInv

\* A statement starts, or has nothing to wait for.
LEMMA WantKeeps ==
  ASSUME LifecycleInv, NEW p \in Threads, NEW l \in Labels, NEW W \in SUBSET DOMAIN db,
         Goto(p, l), Want(p, W), UNCHANGED <<db, dataset, held, shared>>, wanted[p] = {},
         l \in {"idle", "failed", "mark_failed", "reply"} =>
           W = {} /\ held[p] = {} /\ shared[p] = {},
         DOMAIN reply' = Threads,
         task' \in [Threads -> IncidentKeys \union {NoRow}],
         \A q \in Threads \ {p} : task'[q] = task[q],
         step' \in [Threads -> 0..Len(ResetOrder)],
         began' \in [Threads -> 0..dataset],
         p \in Runners => RunnerLocks(p)',
         p \in Resetters => l \in {"idle", "reset", "reply"},
         p \in Analysts =>
           /\ l \in {"idle", "act", "act_on_both", "reply"}
           /\ \A x \in W : x.table \in {"incident", "transaction"}
  PROVE  LifecycleInv'
<1> USE TypedFunctions DEF LifecycleInv, Want, Goto
<1>1. wanted'[p] = W /\ pc'[p] = l /\ held' = held /\ shared' = shared
  OBVIOUS
<1>2. ASSUME NEW q \in Threads \ {p}
      PROVE  wanted'[q] = wanted[q] /\ pc'[q] = pc[q] /\ task'[q] = task[q]
  OBVIOUS
<1>3. TypeOK'
  <2>1. wanted' \in [Threads -> SUBSET Rows] /\ held' \in [Threads -> SUBSET Rows]
    BY DEF TypeOK
  <2>2. \A q \in Threads :
         pc'[q] \in {"idle", "failed", "mark_failed", "reply"} =>
           wanted'[q] = {} /\ held'[q] = {} /\ shared'[q] = {}
    BY <1>1, <1>2 DEF TypeOK
  <2>3. pc' \in [Threads -> Labels]
    BY DEF TypeOK
  <2>4. QED BY <2>1, <2>2, <2>3 DEF TypeOK
<1>4. DatasetIsConsistent'
  BY SameDataSameConsistency
<1>5. Kinds'
  <2>1. ASSUME NEW q \in Runners PROVE RunnerLocks(q)'
    BY <1>1, <1>2 DEF Kinds, RunnerLocks, Threads
  <2>2. ASSUME NEW q \in Resetters PROVE pc'[q] \in {"idle", "reset", "reply"} /\ shared'[q] = {}
    BY <1>1, <1>2 DEF Kinds, Threads
  <2>3. ASSUME NEW q \in Analysts
        PROVE  /\ pc'[q] \in {"idle", "act", "act_on_both", "reply"} /\ shared'[q] = {}
               /\ \A x \in wanted'[q] \union held'[q] : x.table \in {"incident", "transaction"}
    BY <1>1, <1>2 DEF Kinds, Threads
  <2>4. QED BY <2>1, <2>2, <2>3 DEF Kinds
<1>6. HeldExist' /\ Exclusive'
  BY <1>1 DEF HeldExist, Exclusive
<1>7. Covers'
  <2>1. \A x : Cascaded(x)' = Cascaded(x)
    BY DEF Cascaded
  <2>2. QED BY <1>1, <1>2, <2>1 DEF Covers, Threads
<1>8. QED BY <1>3, <1>4, <1>5, <1>6, <1>7


\* Every transaction that ends without a write keeps the invariant.
LEMMA EndingActionsKeep ==
  ASSUME LifecycleInv, NEW p \in Threads,
         \/ p \in Runners /\ (Replay(p) \/ FailRun(p))
         \/ p \in Resetters /\ FailReset(p)
         \/ p \in Analysts /\ (MissIncident(p) \/ FailAction(p))
         \/ Raise(p) \/ Die(p)
  PROVE  LifecycleInv'
<1>1. \E l \in {"idle", "failed", "reply"} : Rollback(p, l) /\ (l = "failed" => p \in Runners)
  <2>1. pc[p] \in {"run", "insert"} => p \in Runners
    BY DEF LifecycleInv, Kinds, Threads
  <2>2. QED BY <2>1 DEF Replay, FailRun, FailReset, MissIncident, FailAction, Raise, Die
<1>2. /\ task' \in [Threads -> IncidentKeys \union {NoRow}]
      /\ \A q \in Threads \ {p} : task'[q] = task[q]
  BY DEF LifecycleInv, TypeOK, Replay, FailRun, FailReset, MissIncident, FailAction, Raise, Die
<1>3. DOMAIN reply' = Threads
  BY DEF LifecycleInv, TypeOK, Respond, Replay, FailRun, FailReset, MissIncident, FailAction, Raise, Die
<1>4. QED BY <1>1, <1>2, <1>3, RollbackKeeps

\* Outside a transaction nothing is locked, and no statement runs.
LEMMA IdleHoldNothing ==
  ASSUME LifecycleInv, NEW p \in Threads, pc[p] \in {"idle", "failed", "mark_failed", "reply"}
  PROVE  wanted[p] = {} /\ held[p] = {} /\ shared[p] = {}
BY DEF LifecycleInv, TypeOK

LEMMA RunRows ==
  ASSUME LifecycleInv, NEW p \in Threads, NEW x \in held[p], x.table = "run"
  PROVE  /\ x \in DOMAIN db /\ x \in Rows /\ x.key \in ScenarioKeys /\ CaseKey(x) = x.key
         /\ x.dataset \in Nat /\ x.dataset = dataset
<1>1. x \in DOMAIN db /\ x \in Rows
  BY DEF LifecycleInv, HeldExist, TypeOK
<1>2. x.key \in ScenarioKeys /\ CaseKey(x) = x.key /\ x.dataset \in Nat
  BY <1>1 DEF Rows, CaseKey, CaseTables, CustomerTables
<1>3. QED BY <1>1, <1>2 DEF LifecycleInv, DatasetIsConsistent

\* The statements of a run.
LEMMA AskRunKeeps ==
  ASSUME LifecycleInv, NEW p \in Runners, NEW s \in ScenarioKeys, AskRun(p, s)
  PROVE  LifecycleInv'
<1> DEFINE W == Named("run", s)
<1> USE TypedFunctions DEF LifecycleInv
<1>1. wanted[p] = {} /\ held[p] = {} /\ shared[p] = {}
  BY IdleHoldNothing DEF AskRun, Threads
<1>2. pc'[p] = "run" /\ wanted'[p] = W /\ task'[p] = s
  BY DEF AskRun, Goto, Want, Threads
<1>3. RunnerLocks(p)'
  BY <1>1, <1>2 DEF RunnerLocks, AskRun, Named, Visible
<1>4. /\ task' \in [Threads -> IncidentKeys \union {NoRow}]
      /\ \A q \in Threads \ {p} : task'[q] = task[q]
  BY DEF AskRun, TypeOK, IncidentKeys
<1>5. W \subseteq DOMAIN db
  BY DEF Named, Visible
<1>6. p \notin Resetters /\ p \notin Analysts /\ p \in Threads
  BY ThreadsServeOneKind DEF Threads
<1>7. /\ DOMAIN reply' = Threads /\ step' \in [Threads -> 0..Len(ResetOrder)]
      /\ began' \in [Threads -> 0..dataset]
  BY DEF AskRun, TypeOK
<1>8. Goto(p, "run") /\ Want(p, W) /\ UNCHANGED <<db, dataset, held, shared>> /\ "run" \in Labels
  BY DEF AskRun, Labels
<1> HIDE DEF LifecycleInv, W
<1>9. QED BY <1>1, <1>3, <1>4, <1>5, <1>6, <1>7, <1>8, WantKeeps

\* What a run refers to is in other tables than those that runs and actions lock.
LEMMA ParentsAreParties ==
  ASSUME NEW x, x.key \in ScenarioKeys, x.dataset \in Nat, NEW n, NEW z \in Parents(x, n)
  PROVE  z.table \in Parties
<1>1. PICK y \in ResultRows(x.key, x.dataset) : z \in References(y)
  BY DEF Parents, Flushed
<1>2. z \notin ResultRows(x.key, x.dataset)
  BY DEF Parents
<1>3. QED BY <1>1, <1>2, ResultRefersTo

LEMMA InsertKeeps ==
  ASSUME LifecycleInv, NEW p \in Runners, Insert(p)
  PROVE  LifecycleInv'
<1> USE TypedFunctions
<1>0. p \notin Resetters /\ p \notin Analysts /\ p \in Threads
  BY ThreadsServeOneKind DEF Threads
<1>1. PICK x \in HeldIn(p, "run") :
        /\ Working(p, x)
        /\ step[p] < Len(InsertOrder)
        /\ Want(p, Found(DOMAIN db \ shared[p], Parents(x, step[p] + 1)))
  BY DEF Insert
<1> DEFINE W == Found(DOMAIN db \ shared[p], Parents(x, step[p] + 1))
<1>2. /\ Goto(p, "insert") /\ Want(p, W) /\ UNCHANGED <<db, dataset, held, shared>>
      /\ "insert" \in Labels /\ wanted[p] = {} /\ x \in held[p] /\ x.table = "run"
  BY <1>1 DEF Insert, Labels, Working, HeldIn
<1>3. W \subseteq DOMAIN db /\ \A w \in W : w.table \in Parties
  <2>1. x.key \in ScenarioKeys /\ x.dataset \in Nat
    BY <1>0, <1>2, RunRows
  <2>2. \A z \in Parents(x, step[p] + 1) : z.table \in Parties
    BY <2>1, ParentsAreParties
  <2>3. QED BY <2>2 DEF Found, SameKey
<1>4. /\ pc'[p] = "insert" /\ wanted'[p] = W /\ held'[p] = held[p] /\ shared'[p] = shared[p]
      /\ task' = task
  BY <1>0, <1>2 DEF LifecycleInv, Goto, Want, Insert
<1>5. \A y \in shared[p] : y.table \in Parties
  BY <1>1 DEF LifecycleInv, Kinds, RunnerLocks, Working
<1>6. RunnerLocks(p)'
  BY <1>2, <1>3, <1>4, <1>5 DEF RunnerLocks, LifecycleInv, Kinds
<1>7. /\ task' \in [Threads -> IncidentKeys \union {NoRow}]
      /\ \A q \in Threads \ {p} : task'[q] = task[q]
      /\ DOMAIN reply' = Threads /\ began' \in [Threads -> 0..dataset]
  BY DEF Insert, LifecycleInv, TypeOK
<1>8. step' \in [Threads -> 0..Len(ResetOrder)]
  <2>1. step \in [Threads -> 0..14] /\ step[p] < 4
    BY <1>1, StatementCounts DEF LifecycleInv, TypeOK
  <2>2. step[p] + 1 \in 0..14
    BY <1>0, <2>1
  <2>3. step' = [step EXCEPT ![p] = @ + 1]
    BY DEF Insert
  <2>4. QED BY <2>1, <2>2, <2>3, StatementCounts
<1> HIDE DEF W
<1>9. QED BY <1>0, <1>2, <1>3, <1>6, <1>7, <1>8, WantKeeps

\* Reading the run, sending the UPDATE and finishing lock nothing yet.
LEMMA RecordingKeeps ==
  ASSUME LifecycleInv, NEW p \in Runners, ReadFailedRun(p) \/ SendUpdate(p)
  PROVE  LifecycleInv'
<1> USE TypedFunctions
<1>0. p \notin Resetters /\ p \notin Analysts /\ p \in Threads
  BY ThreadsServeOneKind DEF Threads
<1>1. wanted[p] = {} /\ held[p] = {} /\ shared[p] = {}
  BY <1>0, IdleHoldNothing DEF ReadFailedRun, SendUpdate
<1>2. /\ task' = task /\ DOMAIN reply' = Threads /\ UNCHANGED <<db, dataset, held, shared, step, began>>
      /\ task \in [Threads -> IncidentKeys \union {NoRow}]
      /\ step \in [Threads -> 0..Len(ResetOrder)] /\ began \in [Threads -> 0..dataset]
      /\ wanted \in [Threads -> SUBSET Rows]
  BY DEF ReadFailedRun, SendUpdate, Respond, LifecycleInv, TypeOK
<1>3. CASE ReadFailedRun(p)
  <2>1. PICK l \in {"mark_failed", "reply"} : Goto(p, l)
    BY <1>3 DEF ReadFailedRun
  <2>2. Want(p, {})
    BY <1>0, <1>1, <1>2, <1>3 DEF Want, ReadFailedRun
  <2>3. pc'[p] = l /\ wanted'[p] = {} /\ l \in Labels
    BY <1>0, <2>1, <2>2, <1>2 DEF Goto, Want, LifecycleInv, Labels
  <2>4. RunnerLocks(p)'
    BY <1>1, <1>2, <2>3 DEF RunnerLocks
  <2>5. QED BY <1>0, <1>1, <1>2, <2>1, <2>2, <2>3, <2>4, WantKeeps
<1>4. CASE SendUpdate(p)
  <2> DEFINE W == Named("run", task[p])
  <2>1. Goto(p, "update") /\ Want(p, W) /\ "update" \in Labels
    BY <1>4 DEF SendUpdate, Labels
  <2>2. pc'[p] = "update" /\ wanted'[p] = W
    BY <1>0, <1>2, <2>1 DEF Goto, Want, LifecycleInv
  <2>3. W \subseteq DOMAIN db /\ \A x \in W : x.table = "run" /\ x.key = task[p]
    BY DEF Named, Visible
  <2>4. RunnerLocks(p)'
    BY <1>1, <1>2, <2>2, <2>3 DEF RunnerLocks
  <2> HIDE DEF W
  <2>5. QED BY <1>0, <1>1, <1>2, <2>1, <2>3, <2>4, WantKeeps
<1>5. QED BY <1>3, <1>4

\* The statements of a reset and of an action.
LEMMA ResetStatementsKeep ==
  ASSUME LifecycleInv, NEW p \in Resetters, AskReset(p) \/ NextDelete(p)
  PROVE  LifecycleInv'
<1>0. p \notin Runners /\ p \notin Analysts /\ p \in Threads
  BY ThreadsServeOneKind DEF Threads
<1>1. PICK W \in SUBSET DOMAIN db : Want(p, W)
  BY DEF AskReset, NextDelete, Visible
<1>2. Goto(p, "reset") /\ "reset" \in Labels
  <2>1. CASE AskReset(p)
    BY <2>1 DEF AskReset, Labels
  <2>2. CASE NextDelete(p)
    BY <2>2 DEF NextDelete, Swept, Goto, Labels, LifecycleInv, TypeOK
  <2>3. QED BY <2>1, <2>2
<1>3. wanted[p] = {}
  BY <1>0, IdleHoldNothing DEF AskReset, NextDelete, Swept
<1>4. step' \in [Threads -> 0..Len(ResetOrder)]
  <2>1. step \in [Threads -> 0..14] /\ step[p] \in 0..14
    BY <1>0, StatementCounts DEF LifecycleInv, TypeOK
  <2>2. CASE AskReset(p)
    <3>1. step' = [step EXCEPT ![p] = 1] /\ 1 \in 0..14
      BY <2>2 DEF AskReset
    <3>2. QED BY <2>1, <3>1, StatementCounts
  <2>3. CASE NextDelete(p)
    <3>1. step[p] + 1 \in 0..14 /\ step' = [step EXCEPT ![p] = @ + 1]
      BY <2>1, <2>3, StatementCounts DEF NextDelete
    <3>2. QED BY <2>1, <3>1, StatementCounts
  <2>4. QED BY <2>2, <2>3
<1>5. began' \in [Threads -> 0..dataset]
  <2>1. began' \in {began, [began EXCEPT ![p] = dataset]}
    BY DEF AskReset, NextDelete
  <2>2. began \in [Threads -> 0..dataset] /\ dataset \in 0..dataset
    BY DEF LifecycleInv, TypeOK
  <2>3. QED BY <2>1, <2>2
<1>6. /\ UNCHANGED <<db, dataset, held, shared, task, reply>>
      /\ task \in [Threads -> IncidentKeys \union {NoRow}] /\ DOMAIN reply = Threads
  BY DEF AskReset, NextDelete, LifecycleInv, TypeOK
<1>7. QED BY <1>0, <1>1, <1>2, <1>3, <1>4, <1>5, <1>6, WantKeeps

LEMMA ActionStatementsKeep ==
  ASSUME LifecycleInv, NEW p \in Analysts,
         (\E i \in IncidentKeys : AskAction(p, i)) \/ BeginTransactionLock(p)
  PROVE  LifecycleInv'
<1>0. p \notin Runners /\ p \notin Resetters /\ p \in Threads
  BY ThreadsServeOneKind DEF Threads
<1>1. PICK l \in {"act", "act_on_both"}, W \in SUBSET DOMAIN db :
        /\ Goto(p, l) /\ Want(p, W)
        /\ \A x \in W : x.table \in {"incident", "transaction"}
  <2>1. \A table, key : /\ Named(table, key) \in SUBSET DOMAIN db
                        /\ \A x \in Named(table, key) : x.table = table
    BY DEF Named, Visible
  <2>2. QED BY <2>1 DEF AskAction, BeginTransactionLock
<1>2. wanted[p] = {}
  BY <1>0, IdleHoldNothing DEF AskAction, BeginTransactionLock
<1>3. /\ task' \in [Threads -> IncidentKeys \union {NoRow}]
      /\ \A q \in Threads \ {p} : task'[q] = task[q]
  BY DEF AskAction, BeginTransactionLock, LifecycleInv, TypeOK
<1>4. /\ UNCHANGED <<db, dataset, held, shared, step, began, reply>>
      /\ step \in [Threads -> 0..Len(ResetOrder)] /\ began \in [Threads -> 0..dataset]
      /\ DOMAIN reply = Threads
  BY DEF AskAction, BeginTransactionLock, LifecycleInv, TypeOK
<1>5. l \in Labels /\ l \notin {"idle", "failed", "mark_failed", "reply"}
  BY DEF Labels
<1>6. QED BY <1>0, <1>1, <1>2, <1>3, <1>4, <1>5, WantKeeps

LEMMA FinishKeeps ==
  ASSUME LifecycleInv, NEW p \in Threads, Finish(p)
  PROVE  LifecycleInv'
<1> USE TypedFunctions
<1>1. wanted[p] = {} /\ held[p] = {} /\ shared[p] = {}
  BY IdleHoldNothing DEF Finish
<1>2. Want(p, {})
  BY <1>1 DEF Finish, Want, LifecycleInv, TypeOK
<1>3. /\ Goto(p, "idle") /\ "idle" \in Labels
      /\ UNCHANGED <<db, dataset, wanted, held, shared, step, began>>
  BY DEF Finish, Labels
<1>4. /\ task' \in [Threads -> IncidentKeys \union {NoRow}]
      /\ \A q \in Threads \ {p} : task'[q] = task[q]
      /\ DOMAIN reply' = Threads
      /\ step \in [Threads -> 0..Len(ResetOrder)] /\ began \in [Threads -> 0..dataset]
  BY DEF Finish, Respond, LifecycleInv, TypeOK
<1>5. pc'[p] = "idle" /\ wanted'[p] = {} /\ held'[p] = {} /\ shared'[p] = {}
  BY <1>1, <1>3 DEF Goto, LifecycleInv
<1>6. RunnerLocks(p)'
  BY <1>5 DEF RunnerLocks
<1>7. QED BY <1>1, <1>2, <1>3, <1>4, <1>6, WantKeeps

\* A row is locked: by one that deletes or updates it if nobody has a lock on it,
\* FOR KEY SHARE if nobody deletes it.  What is deleted along with it is wanted.
LEMMA AcquireKeeps ==
  ASSUME LifecycleInv, NEW p \in Threads, Acquire(p)
  PROVE  LifecycleInv'
<1> USE TypedFunctions DEF LifecycleInv
<1>1. PICK x \in wanted[p] :
        /\ Free(x, p)
        /\ wanted' = [wanted EXCEPT ![p] = (@ \ {x}) \union
             (IF p \in Resetters /\ x \in DOMAIN db THEN Cascaded(x) \ held[p] ELSE {})]
        /\ IF Sharing(p)
             THEN shared' = [shared EXCEPT ![p] = @ \union ({x} \intersect DOMAIN db)] /\ UNCHANGED held
             ELSE held' = [held EXCEPT ![p] = @ \union ({x} \intersect DOMAIN db)] /\ UNCHANGED shared
  BY DEF Acquire
<1>2. UNCHANGED <<db, dataset, pc, task, step, began, reply>>
  BY DEF Acquire
<1>3. /\ \A q \in Threads \ {p} :
           wanted'[q] = wanted[q] /\ held'[q] = held[q] /\ shared'[q] = shared[q]
      /\ wanted'[p] = (wanted[p] \ {x}) \union
           (IF p \in Resetters /\ x \in DOMAIN db THEN Cascaded(x) \ held[p] ELSE {})
      /\ held'[p] = held[p] \union (IF Sharing(p) THEN {} ELSE {x} \intersect DOMAIN db)
      /\ shared'[p] = shared[p] \union (IF Sharing(p) THEN {x} \intersect DOMAIN db ELSE {})
  BY <1>1
<1>4. wanted[p] # {} /\ \A y : Cascaded(y) \subseteq DOMAIN db
  BY DEF Cascaded
<1>5. TypeOK'
  <2>1. wanted'[p] \subseteq Rows /\ held'[p] \subseteq Rows /\ shared'[p] \subseteq Rows
    BY <1>3, <1>4 DEF TypeOK
  <2>2. DOMAIN wanted' = Threads /\ DOMAIN held' = Threads /\ DOMAIN shared' = Threads
    BY <1>1
  <2>3. /\ wanted' \in [Threads -> SUBSET Rows] /\ held' \in [Threads -> SUBSET Rows]
        /\ shared' \in [Threads -> SUBSET Rows]
    BY <1>1, <2>1, <2>2 DEF TypeOK
  <2>4. pc[p] \notin {"idle", "failed", "mark_failed", "reply"}
    BY <1>4 DEF TypeOK
  <2>5. \A q \in Threads :
         pc'[q] \in {"idle", "failed", "mark_failed", "reply"} =>
           wanted'[q] = {} /\ held'[q] = {} /\ shared'[q] = {}
    BY <1>2, <1>3, <2>4 DEF TypeOK
  <2>6. QED BY <1>2, <2>3, <2>5 DEF TypeOK
<1>6. DatasetIsConsistent'
  BY <1>2, SameDataSameConsistency
<1>7. Kinds'
  <2>1. ASSUME NEW q \in Runners PROVE RunnerLocks(q)'
    <3>1. q \notin Resetters
      BY ThreadsServeOneKind
    <3>2. QED BY <1>2, <1>3, <3>1 DEF Kinds, RunnerLocks, Sharing, Threads
  <2>2. ASSUME NEW q \in Resetters PROVE pc'[q] \in {"idle", "reset", "reply"} /\ shared'[q] = {}
    BY <1>2, <1>3 DEF Kinds, Sharing, Threads
  <2>3. ASSUME NEW q \in Analysts
        PROVE  /\ pc'[q] \in {"idle", "act", "act_on_both", "reply"} /\ shared'[q] = {}
               /\ \A y \in wanted'[q] \union held'[q] : y.table \in {"incident", "transaction"}
    <3>1. q \notin Resetters
      BY ThreadsServeOneKind
    <3>2. QED BY <1>2, <1>3, <3>1 DEF Kinds, Sharing, Threads
  <2>4. QED BY <2>1, <2>2, <2>3 DEF Kinds
<1>8. HeldExist'
  BY <1>2, <1>3 DEF HeldExist
<1>9. Exclusive'
  <2>1. \A q \in Threads \ {p} : x \notin held[q] /\ (~ Sharing(p) => x \notin shared[q])
    BY <1>1 DEF Free, Blocks
  <2>2. QED BY <1>3, <2>1 DEF Exclusive
<1>10. Covers'
  <2>1. \A y : Cascaded(y)' = Cascaded(y)
    BY <1>2 DEF Cascaded
  <2>2. ASSUME NEW q \in Resetters, NEW y \in held'[q]
        PROVE  Cascaded(y) \subseteq held'[q] \union wanted'[q]
    <3>1. CASE y \in held[q]
      <4>1. Cascaded(y) \subseteq held[q] \union wanted[q]
        BY <3>1 DEF Covers
      <4>2. CASE q # p
        BY <1>3, <4>1, <4>2 DEF Threads
      <4>3. CASE q = p
        <5>1. ~ Sharing(p)
          BY <4>3 DEF Kinds, Sharing
        <5>2. Cascaded(y) \subseteq DOMAIN db
          BY <1>4
        <5>3. QED BY <1>3, <4>1, <4>3, <5>1, <5>2
      <4>4. QED BY <4>2, <4>3
    <3>2. CASE y \notin held[q]
      <4>1. q = p /\ y = x /\ x \in DOMAIN db
        BY <1>3, <3>2 DEF Threads
      <4>2. QED BY <1>3, <4>1
    <3>3. QED BY <3>1, <3>2
  <2>3. QED BY <2>1, <2>2 DEF Covers
<1>11. QED BY <1>5, <1>6, <1>7, <1>8, <1>9, <1>10
-----------------------------------------------------------------------------
(* Writes to the current dataset. *)

LEMMA RowsAreRecords ==
  ASSUME NEW x \in Rows
  PROVE  x = Row(x.table, x.key, x.dataset)
BY DEF Rows, Row

\* Rows that bring what they refer to keep the dataset consistent, if the statuses
\* of the runs still tell which cases are there.
LEMMA AddingKeepsConsistent ==
  ASSUME DatasetIsConsistent, NEW N, DOMAIN db' = DOMAIN db \union N, dataset' = dataset,
         \A x \in N : /\ x.table # "run" /\ x.dataset = dataset
                      /\ References(x) \subseteq DOMAIN db \union N,
         \A s \in ScenarioKeys :
           /\ LeftBy(s)' \in {{}, ResultRows(s, dataset)}
           /\ \A x \in Named("run", s) :
                /\ db'[x] = "not_run" => LeftBy(s)' = {}
                /\ db'[x] = "completed" => LeftBy(s)' = ResultRows(s, dataset)
  PROVE  DatasetIsConsistent'
<1>1. ASSUME NEW s \in ScenarioKeys PROVE Named("run", s)' = Named("run", s)
  BY DEF Named, Visible
<1>2. \A x \in DOMAIN db' : x.dataset = dataset' /\ References(x) \subseteq DOMAIN db'
  BY DEF DatasetIsConsistent
<1>3. QED BY <1>1, <1>2 DEF DatasetIsConsistent

\* A row of a new case refers to other rows of it and to rows the run shares.
LEMMA NewCaseIsChecked ==
  ASSUME LifecycleInv, NEW p \in Threads, NEW x \in held[p], x.table = "run",
         Checked(p, x), step[p] = 4,
         NEW y \in ResultRows(x.key, x.dataset), NEW z \in References(y)
  PROVE  z \in ResultRows(x.key, x.dataset) \union shared[p]
<1> SUFFICES ASSUME z \notin ResultRows(x.key, x.dataset) PROVE z \in shared[p]
  OBVIOUS
<1>1. x.key \in ScenarioKeys /\ x.dataset \in Nat /\ x.dataset = dataset
  BY RunRows
<1>2. y \in Rows /\ y.dataset = dataset /\ y.table \in CaseTables \union {"device", "beneficiary"}
  BY <1>1, ResultRowsAre
<1>3. PICK n \in 1..step[p] : y \in Flushed(x, n)
  <2>1. \E n \in 1..4 : y.table \in InsertOrder[n]
    BY <1>2 DEF InsertOrder, CaseTables
  <2>2. QED BY <2>1 DEF Flushed
<1>4. z \in Parents(x, n)
  BY <1>3 DEF Parents
<1>5. PICK w \in shared[p] : SameKey(w, z)
  BY <1>3, <1>4 DEF Checked, Found
<1>6. w \in Rows /\ w.dataset = dataset
  BY DEF LifecycleInv, HeldExist, TypeOK, DatasetIsConsistent
<1>7. PICK table, key : z = Row(table, key, dataset)
  BY <1>2, ReferredRow
<1>8. z.table = table /\ z.key = key
  BY <1>7, RowFields
<1>9. w = z
  BY <1>5, <1>6, <1>7, <1>8, RowsAreRecords DEF SameKey
<1>10. QED BY <1>9

LEMMA CompleteKeeps ==
  ASSUME LifecycleInv, NEW p \in Runners, Complete(p)
  PROVE  LifecycleInv'
<1>0. p \in Threads
  BY DEF Threads
<1>1. PICK x \in HeldIn(p, "run") :
        /\ Working(p, x) /\ step[p] = 4
        /\ Commit([y \in {x} \union ResultRows(x.key, x.dataset) |->
                     IF y = x THEN "completed" ELSE "seeded"])
        /\ Respond(p, Answer("result", Row("incident", x.key, x.dataset)))
  BY StatementCounts DEF Complete
<1> DEFINE s == x.key
<1> DEFINE fresh == ResultRows(s, dataset)
<1>2. /\ x \in held[p] /\ x.table = "run" /\ x \in DOMAIN db
      /\ s \in ScenarioKeys /\ dataset \in Nat /\ x.dataset = dataset /\ Checked(p, x)
  BY <1>0, <1>1, RunRows DEF HeldIn, Working
<1>3. /\ DOMAIN db' = DOMAIN db \union fresh
      /\ \A y \in DOMAIN db' : db'[y] = IF y = x THEN "completed"
                                        ELSE IF y \in fresh THEN "seeded" ELSE db[y]
  BY <1>1, <1>2 DEF Commit
<1>4. \A y \in fresh : /\ y \in Rows /\ y.key = s /\ y.dataset = dataset
                       /\ y.table \in CaseTables \union {"device", "beneficiary"}
  BY <1>2, ResultRowsAre
<1>5. \A y \in fresh : y.table # "run"
  BY <1>4 DEF CaseTables
<1>6. \A y \in fresh : \A z \in References(y) : z \in fresh \union shared[p]
  BY <1>0, <1>1, <1>2, NewCaseIsChecked
<1>7. /\ Goto(p, "reply") /\ Release(p) /\ dataset' = dataset /\ task' = task
      /\ DOMAIN reply' = Threads
  BY <1>1 DEF Complete, Respond, LifecycleInv, TypeOK
<1>8. DatasetIsConsistent'
  <2>1. ASSUME NEW t \in ScenarioKeys
        PROVE  LeftBy(t)' = IF t = s THEN fresh ELSE LeftBy(t)
    <3>1. CASE t = s
      BY <1>3, <1>7, <3>1 DEF LeftBy
    <3>2. CASE t # s
      <4>1. \A y \in ResultRows(t, dataset) : y.key = t
        BY <1>2, ResultRowsAre
      <4>2. ResultRows(t, dataset) \intersect fresh = {}
        BY <1>4, <3>2, <4>1
      <4>3. QED BY <1>3, <1>7, <3>2, <4>2 DEF LeftBy
    <3>3. QED BY <3>1, <3>2
  <2>2. ASSUME NEW t \in ScenarioKeys, NEW r \in Named("run", t)
        PROVE  IF t = s THEN db'[r] = "completed" ELSE db'[r] = db[r]
    <3>1. r \in DOMAIN db /\ r \in Rows /\ r.table = "run" /\ r.key = t /\ r.dataset = dataset
      BY DEF Named, Visible, LifecycleInv, TypeOK, DatasetIsConsistent
    <3>2. t = s => r = x
      BY <1>2, <3>1, RowsAreNamed DEF SameKey, LifecycleInv, TypeOK
    <3>3. r \notin fresh
      BY <1>5, <3>1
    <3>4. t # s => r # x
      BY <3>1
    <3>5. QED BY <1>3, <3>1, <3>2, <3>3, <3>4
  <2>3. \A t \in ScenarioKeys :
          /\ LeftBy(t)' \in {{}, ResultRows(t, dataset)}
          /\ \A r \in Named("run", t) :
               /\ db'[r] = "not_run" => LeftBy(t)' = {}
               /\ db'[r] = "completed" => LeftBy(t)' = ResultRows(t, dataset)
    BY <2>1, <2>2 DEF LifecycleInv, DatasetIsConsistent
  <2>4. \A y \in fresh : /\ y.table # "run" /\ y.dataset = dataset
                         /\ References(y) \subseteq DOMAIN db \union fresh
    BY <1>0, <1>4, <1>5, <1>6 DEF LifecycleInv, HeldExist
  <2>5. DatasetIsConsistent
    BY DEF LifecycleInv
  <2> HIDE DEF fresh
  <2>6. QED BY <1>3, <1>7, <2>3, <2>4, <2>5, AddingKeepsConsistent
<1>9. \A y \in DOMAIN db' \ DOMAIN db : \A q \in Threads \ {p} : Owners(y) \intersect held[q] = {}
  <2> SUFFICES ASSUME NEW y \in fresh, y \notin DOMAIN db, NEW q \in Threads \ {p},
                      NEW z \in Owners(y), z \in held[q]
               PROVE  FALSE
    BY <1>3
  <2>1. z \in DOMAIN db
    BY DEF LifecycleInv, HeldExist
  <2>2. CASE z \in fresh
    <3>1. LeftBy(s) \in {{}, fresh}
      BY <1>2 DEF LifecycleInv, DatasetIsConsistent
    <3>2. z \in LeftBy(s) /\ y \notin LeftBy(s)
      BY <2>1, <2>2 DEF LeftBy
    <3>3. QED BY <3>1, <3>2
  <2>3. CASE z \in shared[p]
    BY <1>0, <2>3 DEF LifecycleInv, Exclusive
  <2>4. QED BY <1>6, <2>2, <2>3 DEF References
<1>10. Kinds' /\ HeldExist' /\ Exclusive' /\ Covers'
  <2>1. DOMAIN db \subseteq DOMAIN db'
    BY <1>3
  <2>2. QED BY <1>0, <1>7, <1>9, <2>1, ReleaseKeepsLocks
<1>11. TypeOK'
  <2>1. DOMAIN db' \subseteq Rows
    BY <1>3, <1>4 DEF LifecycleInv, TypeOK
  <2>2. \A y \in DOMAIN db' : db'[y] \in IF y.table = "run" THEN RunStatus ELSE WorkStatus
    BY <1>2, <1>3, <1>5 DEF LifecycleInv, TypeOK, RunStatus, WorkStatus
  <2>3. /\ TypeOK /\ "reply" \in Labels /\ dataset' \in Nat /\ dataset' >= dataset
        /\ task' \in [Threads -> IncidentKeys \union {NoRow}]
    BY <1>7 DEF LifecycleInv, TypeOK, Labels
  <2>4. QED BY <1>0, <1>7, <2>1, <2>2, <2>3, EndIsTyped
<1>12. QED BY <1>8, <1>10, <1>11 DEF LifecycleInv

LEMMA MarkFailedKeeps ==
  ASSUME LifecycleInv, NEW p \in Runners, MarkFailed(p)
  PROVE  LifecycleInv'
<1>0. p \in Threads
  BY DEF Threads
<1>1. /\ Commit([x \in HeldIn(p, "run") |-> "failed"])
      /\ Goto(p, "reply") /\ Release(p) /\ dataset' = dataset /\ task' = task
      /\ DOMAIN reply' = Threads
  BY DEF MarkFailed, Respond, LifecycleInv, TypeOK
<1>2. HeldIn(p, "run") \subseteq DOMAIN db /\ \A x \in HeldIn(p, "run") : x.table = "run"
  BY <1>0 DEF HeldIn, LifecycleInv, HeldExist
<1>3. /\ DOMAIN db' = DOMAIN db
      /\ \A x \in DOMAIN db' : db'[x] = IF x \in HeldIn(p, "run") THEN "failed" ELSE db[x]
  BY <1>1, <1>2 DEF Commit
<1>4. DatasetIsConsistent'
  <2>1. \A s \in ScenarioKeys :
          /\ LeftBy(s)' \in {{}, ResultRows(s, dataset)}
          /\ \A x \in Named("run", s) :
               /\ db'[x] = "not_run" => LeftBy(s)' = {}
               /\ db'[x] = "completed" => LeftBy(s)' = ResultRows(s, dataset)
    BY <1>1, <1>3 DEF LifecycleInv, DatasetIsConsistent, LeftBy, Named, Visible
  <2>2. DatasetIsConsistent /\ DOMAIN db' = DOMAIN db \union {}
    BY <1>3 DEF LifecycleInv
  <2>3. QED BY <1>1, <2>1, <2>2, AddingKeepsConsistent
<1>5. Kinds' /\ HeldExist' /\ Exclusive' /\ Covers'
  BY <1>0, <1>1, <1>3, ReleaseKeepsLocks
<1>6. TypeOK'
  <2>1. /\ TypeOK /\ "reply" \in Labels /\ DOMAIN db' \subseteq Rows
        /\ \A x \in DOMAIN db' : db'[x] \in IF x.table = "run" THEN RunStatus ELSE WorkStatus
        /\ dataset' \in Nat /\ dataset' >= dataset
        /\ task' \in [Threads -> IncidentKeys \union {NoRow}]
    BY <1>1, <1>2, <1>3 DEF LifecycleInv, TypeOK, Labels, RunStatus
  <2>2. QED BY <1>0, <1>1, <2>1, EndIsTyped
<1>7. QED BY <1>4, <1>5, <1>6 DEF LifecycleInv

\* An action belongs to the incident its transaction has locked.
LEMMA ActKeeps ==
  ASSUME LifecycleInv, NEW p \in Analysts, Act(p)
  PROVE  LifecycleInv'
<1>0. p \in Threads
  BY DEF Threads
<1>1. PICK i \in HeldIn(p, "incident") :
        LET action == Row("action", <<i.key, p>>, i.dataset) IN
        /\ IF action \in DOMAIN db
             THEN UNCHANGED db
             ELSE Commit([x \in held[p] \union {action} |-> "worked"])
        /\ Respond(p, Answer("recorded", action))
  BY DEF Act
<1> DEFINE action == Row("action", <<i.key, p>>, i.dataset)
<1>2. /\ i \in held[p] /\ i \in DOMAIN db /\ i \in Rows /\ i.table = "incident"
      /\ i.key \in IncidentKeys /\ i.dataset \in Nat /\ i.dataset = dataset
  <2>1. i \in held[p] /\ i \in DOMAIN db /\ i \in Rows /\ i.table = "incident" /\ i.dataset = dataset
    BY <1>0 DEF HeldIn, LifecycleInv, HeldExist, TypeOK, DatasetIsConsistent
  <2>2. i.key \in IncidentKeys /\ i.dataset \in Nat
    BY <2>1 DEF Rows, CaseTables, CustomerTables
  <2>3. QED BY <2>1, <2>2
<1>3. /\ action.table = "action" /\ action.dataset = dataset /\ action \in Rows
      /\ CaseKey(action) = i.key
  BY <1>2 DEF Row, Rows, ActionKeys, CaseKey
<1>4. \A z \in References(action) : z = i
  <2> SUFFICES ASSUME NEW z \in References(action) PROVE z = i
    OBVIOUS
  <2>1. z.table = "incident" /\ z = Row("incident", KeyIn("incident", i.key), dataset)
    BY <1>3, ReferredRow
  <2>2. KeyIn("incident", i.key) = i.key
    BY DEF KeyIn, CustomerTables
  <2>3. QED BY <1>2, <2>1, <2>2, RowsAreRecords
<1>5. \A x \in held[p] : x \in DOMAIN db /\ x.table \in {"incident", "transaction"}
  BY <1>0 DEF LifecycleInv, HeldExist, Kinds
<1>6. PICK N \in {{}, {action}} :
        /\ DOMAIN db' = DOMAIN db \union N
        /\ \A x \in DOMAIN db' : db'[x] = "worked" \/ (x \in DOMAIN db /\ db'[x] = db[x])
        /\ \A x \in DOMAIN db' : x.table = "run" => x \in DOMAIN db /\ db'[x] = db[x]
  <2>1. CASE action \in DOMAIN db
    BY <1>1, <2>1
  <2>2. CASE action \notin DOMAIN db
    <3>1. /\ DOMAIN db' = DOMAIN db \union {action}
          /\ \A x \in DOMAIN db' :
               db'[x] = IF x \in held[p] \union {action} THEN "worked" ELSE db[x]
      BY <1>1, <1>5, <2>2 DEF Commit
    <3> HIDE DEF action
    <3>2. QED BY <1>3, <1>5, <3>1
  <2>3. QED BY <2>1, <2>2
<1>7. /\ Goto(p, "reply") /\ Release(p) /\ dataset' = dataset /\ task' = task
      /\ DOMAIN reply' = Threads
  BY <1>1 DEF Act, Respond, LifecycleInv, TypeOK
<1> HIDE DEF action
<1>8. DatasetIsConsistent'
  <2>1. ASSUME NEW s \in ScenarioKeys PROVE LeftBy(s)' = LeftBy(s)
    <3>1. \A y \in ResultRows(s, dataset) : y.table # "action"
      BY <1>2, <2>1, ResultRowsAre DEF CaseTables
    <3>2. QED BY <1>3, <1>6, <1>7, <3>1 DEF LeftBy
  <2>2. \A s \in ScenarioKeys : \A x \in Named("run", s) : db'[x] = db[x]
    BY <1>6 DEF Named, Visible
  <2>3. \A s \in ScenarioKeys :
          /\ LeftBy(s)' \in {{}, ResultRows(s, dataset)}
          /\ \A x \in Named("run", s) :
               /\ db'[x] = "not_run" => LeftBy(s)' = {}
               /\ db'[x] = "completed" => LeftBy(s)' = ResultRows(s, dataset)
    BY <2>1, <2>2 DEF LifecycleInv, DatasetIsConsistent
  <2>4. \A x \in N : /\ x.table # "run" /\ x.dataset = dataset
                     /\ References(x) \subseteq DOMAIN db \union N
    BY <1>2, <1>3, <1>4, <1>6
  <2>5. QED BY <1>6, <1>7, <2>3, <2>4, AddingKeepsConsistent DEF LifecycleInv
<1>9. \A y \in DOMAIN db' \ DOMAIN db : \A q \in Threads \ {p} : Owners(y) \intersect held[q] = {}
  BY <1>0, <1>2, <1>4, <1>6 DEF LifecycleInv, Exclusive, References
<1>10. Kinds' /\ HeldExist' /\ Exclusive' /\ Covers'
  BY <1>0, <1>6, <1>7, <1>9, ReleaseKeepsLocks
<1>11. TypeOK'
  <2>1. TypeOK /\ "reply" \in Labels /\ dataset' \in Nat /\ dataset' >= dataset
        /\ task' \in [Threads -> IncidentKeys \union {NoRow}]
    BY <1>7 DEF LifecycleInv, TypeOK, Labels
  <2>2. DOMAIN db' \subseteq Rows
    BY <1>3, <1>6, <2>1 DEF TypeOK
  <2>3. \A x \in DOMAIN db' : db'[x] \in IF x.table = "run" THEN RunStatus ELSE WorkStatus
    BY <1>6, <2>1 DEF TypeOK, WorkStatus
  <2>4. QED BY <1>0, <1>7, <2>1, <2>2, <2>3, EndIsTyped
<1>12. QED BY <1>8, <1>10, <1>11 DEF LifecycleInv
-----------------------------------------------------------------------------
(* The commit of a reset. *)

\* The tables that are not counted have no row left: those of a channel or an asset
\* would have the key of a new one, the others are deleted with a row that is counted.
LEMMA NothingIsKept ==
  ASSUME LifecycleInv, NEW p \in Resetters, Deleted(p),
         ~ Collides(BaselineRows(dataset + 1), Kept(p)), CountsMatch(p)
  PROVE  Kept(p) = {}
<1> SUFFICES ASSUME NEW x \in Kept(p) PROVE FALSE
  OBVIOUS
<1>1. wanted[p] = {} /\ x \in DOMAIN db /\ x \notin held[p] /\ x \in Rows /\ p \in Threads
  BY DEF Deleted, Swept, Kept, LifecycleInv, TypeOK, Threads
<1>2. x.table \notin {"customer", "account", "device", "transaction", "event", "incident", "run"}
  BY DEF CountsMatch
<1>3. ASSUME NEW z \in Owners(x), z.table \in {"account", "incident", "customer"} PROVE FALSE
  <2>1. z \in DOMAIN db
    BY <1>1 DEF LifecycleInv, DatasetIsConsistent, References
  <2>2. z \in held[p]
    BY <1>3, <2>1 DEF CountsMatch, Kept
  <2>3. x \in Cascaded(z)
    BY <1>1 DEF Cascaded
  <2>4. QED BY <1>1, <2>2, <2>3 DEF LifecycleInv, Covers
<1>4. CASE x.table \in {"channel", "asset"}
  <2>1. x.key = Web
    BY <1>1, <1>4 DEF Rows, CaseTables, CustomerTables
  <2>2. Row(x.table, Web, dataset + 1) \in BaselineRows(dataset + 1)
    BY <1>4 DEF BaselineRows
  <2>3. SameKey(Row(x.table, Web, dataset + 1), x)
    BY <2>1 DEF SameKey, Row
  <2>4. QED BY <2>2, <2>3 DEF Collides
<1>5. CASE x.table \in {"session", "contribution", "action", "beneficiary", "baseline"}
  <2>1. \E t \in {"account", "incident", "customer"} :
          Row(t, KeyIn(t, CaseKey(x)), x.dataset) \in Owners(x)
    BY <1>5 DEF Owners, Related, CustomerTables
  <2>2. QED BY <1>3, <2>1, RowFields
<1>6. QED BY <1>1, <1>2, <1>4, <1>5, RowOfRows DEF CaseTables, CustomerTables

LEMMA CommitResetRestores ==
  ASSUME LifecycleInv, NEW p \in Resetters, CommitReset(p)
  PROVE  Kept(p) = {} /\ db' = Baseline(dataset + 1) /\ dataset' = dataset + 1
<1>1. DOMAIN Baseline(dataset + 1) = BaselineRows(dataset + 1)
  BY DEF Baseline
<1>2. Kept(p) = {}
  BY <1>1, NothingIsKept DEF CommitReset
<1>3. db' = [x \in DOMAIN Baseline(dataset + 1) |-> Baseline(dataset + 1)[x]]
  BY <1>2 DEF CommitReset
<1>4. QED BY <1>2, <1>3 DEF CommitReset, Baseline

LEMMA CommitResetKeeps ==
  ASSUME LifecycleInv, NEW p \in Resetters, CommitReset(p)
  PROVE  LifecycleInv'
<1> USE TypedFunctions
<1>0. p \in Threads /\ TypeOK
  BY DEF Threads, LifecycleInv
<1>1. /\ Kept(p) = {} /\ db' = Baseline(dataset') /\ dataset' = dataset + 1
      /\ dataset' \in Nat /\ dataset' >= dataset
  BY <1>0, CommitResetRestores DEF TypeOK
<1>2. /\ Goto(p, "reply") /\ Release(p) /\ task' = task /\ "reply" \in Labels
      /\ DOMAIN reply' = Threads
  BY <1>0 DEF CommitReset, Respond, Labels, TypeOK
<1>3. DatasetIsConsistent'
  BY <1>1, BaselineIsConsistentNext
<1>4. TypeOK'
  <2>1. /\ DOMAIN db' \subseteq Rows
        /\ \A x \in DOMAIN db' : db'[x] \in IF x.table = "run" THEN RunStatus ELSE WorkStatus
    BY <1>1, BaselineIsTyped
  <2>2. task' \in [Threads -> IncidentKeys \union {NoRow}]
    BY <1>0, <1>2 DEF TypeOK
  <2>3. QED BY <1>0, <1>1, <1>2, <2>1, <2>2, EndIsTyped
<1>5. \A q \in Threads \ {p} : held[q] = {} /\ shared[q] = {}
  <2>1. DOMAIN db \subseteq held[p]
    BY <1>1 DEF Kept
  <2>2. QED BY <1>0, <2>1 DEF LifecycleInv, HeldExist, Exclusive
<1>6. \A q \in Threads : held'[q] = {} /\ shared'[q] = {}
  BY <1>0, <1>2, <1>5 DEF Release
<1>7. \A q \in Threads \ {p} : pc'[q] = pc[q] /\ wanted'[q] = wanted[q] /\ task'[q] = task[q]
  BY <1>0, <1>2 DEF Release, Goto
<1>8. pc'[p] = "reply"
  BY <1>0, <1>2 DEF Goto
<1>9. Kinds'
  <2>1. ASSUME NEW q \in Runners PROVE RunnerLocks(q)'
    <3>1. q \in Threads \ {p}
      BY ThreadsServeOneKind DEF Threads
    <3>2. RunnerLocks(q) /\ held[q] = {}
      BY <1>5, <3>1 DEF LifecycleInv, Kinds
    <3>3. QED BY <1>6, <1>7, <3>1, <3>2 DEF RunnerLocks
  <2>2. ASSUME NEW q \in Resetters PROVE pc'[q] \in {"idle", "reset", "reply"} /\ shared'[q] = {}
    BY <1>6, <1>7, <1>8 DEF LifecycleInv, Kinds, Threads
  <2>3. ASSUME NEW q \in Analysts
        PROVE  /\ pc'[q] \in {"idle", "act", "act_on_both", "reply"} /\ shared'[q] = {}
               /\ \A x \in wanted'[q] \union held'[q] : x.table \in {"incident", "transaction"}
    <3>1. q \in Threads \ {p}
      BY ThreadsServeOneKind DEF Threads
    <3>2. QED BY <1>6, <1>7, <3>1 DEF LifecycleInv, Kinds
  <2>4. QED BY <2>1, <2>2, <2>3 DEF Kinds
<1>10. HeldExist' /\ Exclusive' /\ Covers'
  BY <1>6 DEF HeldExist, Exclusive, Covers, Threads
<1>11. QED BY <1>3, <1>4, <1>9, <1>10 DEF LifecycleInv
-----------------------------------------------------------------------------
(* The theorems about the data. *)

LEMMA NextKeeps == LifecycleInv /\ [Next]_vars => LifecycleInv'
<1> SUFFICES ASSUME LifecycleInv, [Next]_vars PROVE LifecycleInv'
  OBVIOUS
<1>0. Runners \subseteq Threads /\ Resetters \subseteq Threads /\ Analysts \subseteq Threads
  BY DEF Threads
<1>1. CASE \E p \in Runners : RunStep(p) \/ \E s \in ScenarioKeys : AskRun(p, s)
  BY <1>0, <1>1, AskRunKeeps, InsertKeeps, RecordingKeeps, EndingActionsKeep, CompleteKeeps,
     MarkFailedKeeps DEF RunStep
<1>2. CASE \E p \in Resetters : ResetStep(p) \/ AskReset(p)
  BY <1>0, <1>2, ResetStatementsKeep, EndingActionsKeep, CommitResetKeeps DEF ResetStep
<1>3. CASE \E p \in Analysts : ActionStep(p) \/ \E i \in IncidentKeys : AskAction(p, i)
  BY <1>0, <1>3, ActionStatementsKeep, EndingActionsKeep, ActKeeps DEF ActionStep
<1>4. CASE \E p \in Threads : Acquire(p) \/ Finish(p) \/ Raise(p) \/ Die(p)
  BY <1>4, AcquireKeeps, FinishKeeps, EndingActionsKeep
<1>5. CASE UNCHANGED vars
  <2> USE <1>5 DEF vars, LifecycleInv
  <2>1. TypeOK'
    BY Zenon DEF TypeOK
  <2>2. DatasetIsConsistent'
    BY SameDataSameConsistency
  <2>3. Kinds' /\ HeldExist'
    BY DEF Kinds, RunnerLocks, HeldExist
  <2>4. Exclusive' /\ Covers'
    BY DEF Exclusive, Covers, Cascaded
  <2>5. QED BY <2>1, <2>2, <2>3, <2>4
<1>6. QED BY <1>1, <1>2, <1>3, <1>4, <1>5 DEF Next

\* Types, locks and the consistency of the committed rows hold together.
THEOREM LifecycleInvariant == Spec => []LifecycleInv
<1>1. QED BY InitEstablishes, NextKeeps, PTL DEF Spec

\* Type correctness of runs, resets and actions, of any number.
THEOREM LifecycleTypeCorrect == Spec => []TypeOK
<1>1. LifecycleInv => TypeOK
  BY DEF LifecycleInv
<1>2. QED BY <1>1, LifecycleInvariant, PTL

\* After any mix of runs, failure records, crashes, resets and actions each scenario
\* has one run row whose status tells whether its case is there, whole or not at all,
\* and every row belongs to the current dataset with all that it refers to: also when
\* a reset commits between the two statements of a failure record.
THEOREM DatasetStaysConsistent == Spec => []DatasetIsConsistent
<1>1. LifecycleInv => DatasetIsConsistent
  BY DEF LifecycleInv
<1>2. QED BY <1>1, LifecycleInvariant, PTL

\* Only a reset changes the dataset.
LEMMA OnlyResetChangesDataset ==
  ASSUME [Next]_vars, dataset' # dataset
  PROVE  \E p \in Resetters : CommitReset(p)
<1>1. ASSUME NEW p \in Runners, RunStep(p) \/ \E s \in ScenarioKeys : AskRun(p, s)
      PROVE  dataset' = dataset
  BY <1>1 DEF RunStep, AskRun, Replay, Insert, Complete, FailRun, ReadFailedRun, SendUpdate,
     MarkFailed, Rollback
<1>2. ASSUME NEW p \in Resetters, NextDelete(p) \/ FailReset(p) \/ AskReset(p)
      PROVE  dataset' = dataset
  BY <1>2 DEF NextDelete, FailReset, AskReset, Rollback
<1>3. ASSUME NEW p \in Analysts, ActionStep(p) \/ \E i \in IncidentKeys : AskAction(p, i)
      PROVE  dataset' = dataset
  BY <1>3 DEF ActionStep, AskAction, BeginTransactionLock, MissIncident, Act, FailAction, Rollback
<1>4. ASSUME NEW p \in Threads, Acquire(p) \/ Finish(p) \/ Raise(p) \/ Die(p)
      PROVE  dataset' = dataset
  BY <1>4 DEF Acquire, Finish, Raise, Die, Rollback
<1>5. QED BY <1>1, <1>2, <1>3, <1>4 DEF Next, ResetStep, vars

\* A reset that commits leaves the baseline and nothing else, with any number
\* of runs, actions and other resets under way.
THEOREM ResetsRestoreBaseline == Spec => ResetRestoresBaseline
<1>1. LifecycleInv /\ [Next]_vars => ResetStepRestores
  <2> SUFFICES ASSUME LifecycleInv, [Next]_vars, dataset' # dataset
               PROVE  db' = Baseline(dataset')
    BY DEF ResetStepRestores
  <2>1. PICK p \in Resetters : CommitReset(p)
    BY OnlyResetChangesDataset
  <2>2. QED BY <2>1, CommitResetRestores
<1>2. QED BY <1>1, LifecycleInvariant, PTL DEF Spec, ResetRestoresBaseline

\* Only the runner's own steps change where it is, and two of them answer with
\* a result.
LEMMA OnlyResultsAreAnswered ==
  ASSUME TypeOK, [Next]_vars, NEW p \in Runners, pc[p] \in {"run", "insert"}, pc'[p] = "reply"
  PROVE  Replay(p) \/ Complete(p)
<1> USE TypedFunctions DEF Goto, Rollback
<1>1. p \in Threads /\ p \notin Resetters /\ p \notin Analysts
  BY ThreadsServeOneKind DEF Threads
<1>2. ASSUME NEW q \in Runners, RunStep(q) \/ \E s \in ScenarioKeys : AskRun(q, s)
      PROVE  Replay(p) \/ Complete(p)
  <2>1. q = p
    BY <1>1, <1>2 DEF Threads, RunStep, AskRun, Replay, Insert, Complete, FailRun,
       ReadFailedRun, SendUpdate, MarkFailed
  <2>2. ~ (ReadFailedRun(p) \/ SendUpdate(p) \/ MarkFailed(p) \/ \E s \in ScenarioKeys : AskRun(p, s))
    BY DEF ReadFailedRun, SendUpdate, MarkFailed, AskRun
  <2>3. ~ FailRun(p) /\ ~ Insert(p)
    BY <1>1 DEF FailRun, Insert
  <2>4. QED BY <1>2, <2>1, <2>2, <2>3 DEF RunStep
<1>3. ASSUME NEW q \in Resetters, ResetStep(q) \/ AskReset(q)
      PROVE  FALSE
  BY <1>1, <1>3 DEF Threads, ResetStep, AskReset, NextDelete, CommitReset, FailReset
<1>4. ASSUME NEW q \in Analysts, ActionStep(q) \/ \E i \in IncidentKeys : AskAction(q, i)
      PROVE  FALSE
  BY <1>1, <1>4 DEF Threads, ActionStep, AskAction, BeginTransactionLock, MissIncident, Act, FailAction
<1>5. ASSUME NEW q \in Threads, Acquire(q) \/ Finish(q) \/ Raise(q) \/ Die(q)
      PROVE  FALSE
  BY <1>1, <1>5 DEF Acquire, Finish, Raise, Die
<1>6. QED BY <1>2, <1>3, <1>4, <1>5 DEF Next, vars

\* A run that answers with a result answers with an incident of the dataset that
\* is there, whose scenario is completed at that moment.
THEOREM AnswersStayCurrent == Spec => AnswersAreCurrent
<1>1. LifecycleInv /\ [Next]_vars => AnswerStep
  <2> SUFFICES ASSUME LifecycleInv, [Next]_vars, NEW p \in Runners,
                      pc[p] \in {"run", "insert"}, pc'[p] = "reply"
               PROVE  /\ reply'[p].row \in DOMAIN db'
                      /\ reply'[p].row.key = task[p]
                      /\ reply'[p].row.dataset = dataset'
                      /\ \E x \in DOMAIN db' :
                           x.table = "run" /\ x.key = task[p] /\ db'[x] = "completed"
    BY DEF AnswerStep
  <2> USE TypedFunctions DEF LifecycleInv
  <2>1. p \in Threads
    BY DEF Threads
  <2>2. \A x \in HeldIn(p, "run") :
         /\ x \in DOMAIN db /\ x.table = "run" /\ x.key = task[p] /\ x.dataset = dataset
    BY <2>1 DEF HeldIn, HeldExist, Kinds, RunnerLocks, DatasetIsConsistent
  <2>3. CASE Replay(p)
    <3>1. PICK x \in HeldIn(p, "run"), i \in Named("incident", task[p]) :
            HasResult(x) /\ Respond(p, Answer("result", i))
      BY <2>3 DEF Replay
    <3>2. UNCHANGED <<db, dataset>>
      BY <2>3 DEF Replay, Rollback
    <3>3. reply'[p].row = i
      BY <2>1, <3>1 DEF Respond, Answer
    <3>4. i \in DOMAIN db /\ i.key = task[p] /\ i.dataset = dataset
      BY DEF Named, Visible, DatasetIsConsistent
    <3>5. db[x] = "completed"
      BY <3>1 DEF HasResult, IsCompleted
    <3>6. QED BY <2>2, <3>2, <3>3, <3>4, <3>5
  <2>4. CASE Complete(p)
    <3> DEFINE fresh(x) == ResultRows(x.key, x.dataset)
    <3>1. PICK x \in HeldIn(p, "run") :
            /\ Commit([y \in {x} \union fresh(x) |-> IF y = x THEN "completed" ELSE "seeded"])
            /\ Respond(p, Answer("result", Row("incident", x.key, x.dataset)))
      BY <2>4, Zenon DEF Complete
    <3>2. dataset' = dataset
      BY <2>4 DEF Complete
    <3>3. reply'[p].row = Row("incident", x.key, x.dataset)
      BY <2>1, <3>1 DEF Respond, Answer
    <3>4. Row("incident", x.key, x.dataset) \in fresh(x)
      BY DEF ResultRows, CaseTables
    <3> HIDE DEF fresh
    <3>5. x \in DOMAIN db' /\ db'[x] = "completed" /\ fresh(x) \subseteq DOMAIN db'
      BY <3>1 DEF Commit
    <3>6. QED BY <2>2, <3>2, <3>3, <3>4, <3>5 DEF Row
  <2>5. QED BY <2>3, <2>4, OnlyResultsAreAnswered
<1>2. QED BY <1>1, LifecycleInvariant, PTL DEF Spec, AnswersAreCurrent
-----------------------------------------------------------------------------
(* The order of the locks.                                                 *)
(*                                                                         *)
(* A run takes its run row and an analyst the incident before anything     *)
(* else.  A reset that has come to the transactions has every run row and  *)
(* every incident of its dataset: nobody inserts an incident without a run *)
(* row.  That much is true until another reset replaces the dataset.       *)

\* What a reset deletes after the events: all that a run that holds its run row, or
\* an analyst that holds an incident, may have to wait for.
LateTables == {"transaction", "session", "channel", "asset"} \union CustomerTables

\* Analysts, and runs that insert nothing yet, want one row at a time.
OneRow(p) ==
  p \in Analysts \/ (p \in Runners /\ pc[p] # "insert") => \A x, y \in wanted[p] : x = y

\* A run locks its run row before it inserts.
RunFirst(p) == p \in Runners /\ pc[p] # "insert" => wanted[p] = {} \/ held[p] = {}

\* Analysts lock the incident first.
IncidentFirst(p) ==
  p \in Analysts =>
    /\ pc[p] = "act" =>
         /\ \A x \in wanted[p] \union held[p] : x.table = "incident"
         /\ wanted[p] = {} \/ held[p] = {}
    /\ pc[p] = "act_on_both" =>
         /\ \A x \in wanted[p] : x.table = "transaction"
         /\ wanted[p] # {} => \A x \in held[p] : x.table = "incident"

\* Resets lock the late tables last.
LateLast(p) ==
  p \in Resetters => \A x \in wanted[p] \union held[p] : x.table \in LateTables => step[p] > 5

\* What a reset has swept of the dataset that was there when it began.
Sweeps(p) ==
  p \in Resetters /\ began[p] = dataset =>
    /\ step[p] = 2 => Visible("run") \subseteq held[p] \union wanted[p]
    /\ step[p] > 2 => Visible("run") \subseteq held[p]
    /\ step[p] = 4 => Visible("incident") \subseteq held[p] \union wanted[p]
    /\ step[p] > 4 => Visible("incident") \subseteq held[p]

Ordered(p) == OneRow(p) /\ RunFirst(p) /\ IncidentFirst(p) /\ LateLast(p) /\ Sweeps(p)

LockOrder == \A p \in Threads : Ordered(p)

OrderInv == LifecycleInv /\ LockOrder

LEMMA InitIsOrdered == Init => LockOrder
<1> SUFFICES ASSUME Init, NEW p \in Threads PROVE Ordered(p)
  BY DEF LockOrder
<1>1. wanted[p] = {} /\ held[p] = {} /\ pc[p] = "idle" /\ step[p] = 0
  BY DEF Init
<1>2. QED BY <1>1 DEF Ordered, OneRow, RunFirst, IncidentFirst, LateLast, Sweeps

\* There is at most one row of a table and a key.
LEMMA NamedOnce ==
  ASSUME LifecycleInv, NEW table, NEW key,
         NEW x \in Named(table, key), NEW y \in Named(table, key)
  PROVE  x = y
<1>1. x \in Rows /\ y \in Rows /\ x.dataset = y.dataset
  BY DEF LifecycleInv, TypeOK, DatasetIsConsistent, Named, Visible
<1>2. QED BY <1>1, RowsAreNamed DEF SameKey, Named, Visible

\* A thread that takes no step stays ordered as long as no row appears that it
\* should have swept.
LEMMA BystanderIsOrdered ==
  ASSUME LifecycleInv, NEW q \in Threads, Ordered(q),
         pc'[q] = pc[q], wanted'[q] = wanted[q], held'[q] = held[q],
         step'[q] = step[q], began'[q] = began[q],
         dataset' \in Nat, dataset' >= dataset,
         dataset' = dataset =>
           /\ Visible("run")' \subseteq Visible("run")
           /\ q \in Resetters /\ began[q] = dataset /\ step[q] > 2
                => Visible("incident")' \subseteq Visible("incident")
  PROVE  Ordered(q)'
<1> USE DEF Ordered
<1>1. OneRow(q)' /\ RunFirst(q)' /\ IncidentFirst(q)' /\ LateLast(q)'
  BY DEF OneRow, RunFirst, IncidentFirst, LateLast
<1>2. Sweeps(q)'
  <2> SUFFICES ASSUME q \in Resetters, began'[q] = dataset'
               PROVE  /\ step[q] = 2 => Visible("run")' \subseteq held[q] \union wanted[q]
                      /\ step[q] > 2 => Visible("run")' \subseteq held[q]
                      /\ step[q] = 4 => Visible("incident")' \subseteq held[q] \union wanted[q]
                      /\ step[q] > 4 => Visible("incident")' \subseteq held[q]
    BY DEF Sweeps
  <2>1. began[q] \in 0..dataset /\ dataset \in Nat /\ step[q] \in 0..14
    BY StatementCounts DEF LifecycleInv, TypeOK
  <2>2. dataset' = dataset /\ began[q] = dataset
    BY <2>1
  <2>3. Sweeps(q)
    OBVIOUS
  <2>4. QED BY <2>1, <2>2, <2>3 DEF Sweeps
<1>3. QED BY <1>1, <1>2

\* A step of one thread that inserts nothing a reset has swept.
LEMMA OneStepKeepsOrder ==
  ASSUME LifecycleInv, LockOrder, NEW p \in Threads, Ordered(p)',
         \A q \in Threads \ {p} :
           /\ pc'[q] = pc[q] /\ wanted'[q] = wanted[q] /\ held'[q] = held[q]
           /\ step'[q] = step[q] /\ began'[q] = began[q],
         dataset' \in Nat, dataset' >= dataset,
         dataset' = dataset =>
           /\ Visible("run")' \subseteq Visible("run")
           /\ \A q \in Resetters \ {p} : began[q] = dataset /\ step[q] > 2
                => Visible("incident")' \subseteq Visible("incident")
  PROVE  LockOrder'
<1> SUFFICES ASSUME NEW q \in Threads PROVE Ordered(q)'
  BY DEF LockOrder
<1>1. CASE q = p
  BY <1>1
<1>2. CASE q # p
  <2>1. Ordered(q)
    BY DEF LockOrder
  <2>2. QED BY <1>2, <2>1, BystanderIsOrdered
<1>3. QED BY <1>1, <1>2

\* The same, when no row is inserted or deleted at all.
LEMMA SameRowsKeepOrder ==
  ASSUME LifecycleInv, LockOrder, NEW p \in Threads, Ordered(p)',
         \A q \in Threads \ {p} :
           /\ pc'[q] = pc[q] /\ wanted'[q] = wanted[q] /\ held'[q] = held[q]
           /\ step'[q] = step[q] /\ began'[q] = began[q],
         DOMAIN db' = DOMAIN db, dataset' = dataset
  PROVE  LockOrder'
<1>1. \A table : Visible(table)' = Visible(table)
  BY DEF Visible
<1>2. dataset \in Nat
  BY DEF LifecycleInv, TypeOK
<1>3. QED BY <1>1, <1>2, OneStepKeepsOrder

\* A transaction ends: it has no locks and no statement.
LEMMA EndKeepsOrder ==
  ASSUME LifecycleInv, LockOrder, NEW p \in Threads, NEW l, Goto(p, l), Release(p),
         dataset' \in Nat, dataset' >= dataset,
         dataset' = dataset =>
           /\ Visible("run")' \subseteq Visible("run")
           /\ \A q \in Resetters \ {p} : began[q] = dataset /\ step[q] > 2
                => Visible("incident")' \subseteq Visible("incident")
  PROVE  LockOrder'
<1> USE TypedFunctions DEF LifecycleInv
<1>1. wanted'[p] = {} /\ held'[p] = {} /\ step'[p] = 0
  BY DEF Release
<1>2. Ordered(p)'
  BY <1>1 DEF Ordered, OneRow, RunFirst, IncidentFirst, LateLast, Sweeps
<1>3. \A q \in Threads \ {p} :
        /\ pc'[q] = pc[q] /\ wanted'[q] = wanted[q] /\ held'[q] = held[q]
        /\ step'[q] = step[q] /\ began'[q] = began[q]
  BY DEF Goto, Release
<1> HIDE DEF LifecycleInv
<1>4. QED BY <1>2, <1>3, OneStepKeepsOrder

\* The steps that end a transaction and insert nothing.
LEMMA EndingActionsKeepOrder ==
  ASSUME LifecycleInv, LockOrder, NEW p \in Threads,
         \/ Replay(p) \/ FailRun(p) \/ MarkFailed(p) \/ FailReset(p) \/ MissIncident(p)
         \/ FailAction(p) \/ Raise(p) \/ Die(p)
  PROVE  LockOrder'
<1>1. \E l : Goto(p, l)
  BY DEF Replay, FailRun, MarkFailed, FailReset, MissIncident, FailAction, Raise, Die, Rollback
<1>2. Release(p) /\ dataset' = dataset
  BY DEF Replay, FailRun, MarkFailed, FailReset, MissIncident, FailAction, Raise, Die, Rollback
<1>3. DOMAIN db' = DOMAIN db
  <2>1. CASE MarkFailed(p)
    <3>1. HeldIn(p, "run") \subseteq DOMAIN db
      BY DEF HeldIn, LifecycleInv, HeldExist
    <3>2. QED BY <2>1, <3>1 DEF MarkFailed, Commit
  <2>2. CASE ~ MarkFailed(p)
    BY <2>2 DEF Replay, FailRun, FailReset, MissIncident, FailAction, Raise, Die, Rollback
  <2>3. QED BY <2>1, <2>2
<1>4. \A table : Visible(table)' = Visible(table)
  BY <1>3 DEF Visible
<1>5. dataset \in Nat
  BY DEF LifecycleInv, TypeOK
<1>6. QED BY <1>1, <1>2, <1>4, <1>5, EndKeepsOrder

\* A run inserts an incident only while it has its run row: no reset of this
\* dataset is past the run rows then.
LEMMA CompleteKeepsOrder ==
  ASSUME LifecycleInv, LockOrder, NEW p \in Runners, Complete(p)
  PROVE  LockOrder'
<1>1. p \in Threads /\ p \notin Resetters
  BY ThreadsServeOneKind DEF Threads
<1> DEFINE fresh(x) == ResultRows(x.key, x.dataset)
<1>2. PICK x \in HeldIn(p, "run") :
        Commit([y \in {x} \union fresh(x) |-> IF y = x THEN "completed" ELSE "seeded"])
  BY Zenon DEF Complete
<1>3. Goto(p, "reply") /\ Release(p) /\ dataset' = dataset /\ dataset \in Nat
  BY DEF Complete, LifecycleInv, TypeOK
<1>4. x \in held[p] /\ x \in Visible("run")
  BY <1>1 DEF HeldIn, LifecycleInv, HeldExist, Visible
<1>5. \A y \in fresh(x) : y.table # "run"
  <2>1. x.key \in ScenarioKeys /\ x.dataset \in Nat
    BY <1>1, <1>4, RunRows DEF Visible
  <2>2. QED BY <2>1, ResultRowsAre DEF CaseTables
<1> HIDE DEF fresh
<1>6. DOMAIN db' = DOMAIN db \union fresh(x)
  BY <1>2, <1>4 DEF Commit, Visible
<1>7. Visible("run")' \subseteq Visible("run")
  BY <1>5, <1>6 DEF Visible
<1>8. ASSUME NEW q \in Resetters \ {p}, began[q] = dataset, step[q] > 2
      PROVE  FALSE
  <2>1. q \in Threads /\ q # p
    BY <1>1 DEF Threads
  <2>2. x \in held[q]
    BY <1>4, <1>8, <2>1 DEF LockOrder, Ordered, Sweeps
  <2>3. QED BY <1>1, <1>4, <2>1, <2>2 DEF LifecycleInv, Exclusive
<1>9. QED BY <1>1, <1>3, <1>7, <1>8, EndKeepsOrder

LEMMA ActKeepsOrder ==
  ASSUME LifecycleInv, LockOrder, NEW p \in Analysts, Act(p)
  PROVE  LockOrder'
<1>1. p \in Threads
  BY DEF Threads
<1>2. PICK i \in HeldIn(p, "incident") :
        LET action == Row("action", <<i.key, p>>, i.dataset)
        IN  IF action \in DOMAIN db
              THEN UNCHANGED db
              ELSE Commit([x \in held[p] \union {action} |-> "worked"])
  BY Zenon DEF Act
<1> DEFINE action == Row("action", <<i.key, p>>, i.dataset)
<1>3. action.table = "action"
  BY DEF Row
<1>4. held[p] \subseteq DOMAIN db
  BY <1>1 DEF LifecycleInv, HeldExist
<1>5. DOMAIN db' \subseteq DOMAIN db \union {action}
  BY <1>2, <1>4 DEF Commit
<1> HIDE DEF action
<1>6. /\ Visible("run")' \subseteq Visible("run")
      /\ Visible("incident")' \subseteq Visible("incident")
  BY <1>3, <1>5 DEF Visible
<1>7. Goto(p, "reply") /\ Release(p) /\ dataset' = dataset /\ dataset \in Nat
  BY DEF Act, LifecycleInv, TypeOK
<1>8. QED BY <1>1, <1>6, <1>7, EndKeepsOrder

LEMMA CommitResetKeepsOrder ==
  ASSUME LifecycleInv, LockOrder, NEW p \in Resetters, CommitReset(p)
  PROVE  LockOrder'
<1>1. /\ p \in Threads /\ Goto(p, "reply") /\ Release(p) /\ dataset' = dataset + 1
      /\ dataset \in Nat
  BY DEF Threads, CommitReset, LifecycleInv, TypeOK
<1>2. dataset' \in Nat /\ dataset' >= dataset /\ dataset' # dataset
  BY <1>1
<1>3. QED BY <1>1, <1>2, EndKeepsOrder

\* A thread that takes a step outside a transaction, or starts a statement.
LEMMA StatementKeepsOrder ==
  ASSUME LifecycleInv, LockOrder, NEW p \in Threads, Ordered(p)', NEW l, Goto(p, l), NEW W, Want(p, W),
         UNCHANGED <<db, dataset, held>>,
         \A q \in Threads \ {p} : step'[q] = step[q] /\ began'[q] = began[q]
  PROVE  LockOrder'
<1> USE TypedFunctions DEF LifecycleInv
<1>1. \A q \in Threads \ {p} :
        /\ pc'[q] = pc[q] /\ wanted'[q] = wanted[q] /\ held'[q] = held[q]
        /\ step'[q] = step[q] /\ began'[q] = began[q]
  BY DEF Goto, Want
<1> HIDE DEF LifecycleInv
<1>2. QED BY <1>1, SameRowsKeepOrder

LEMMA RunStatementsKeepOrder ==
  ASSUME LifecycleInv, LockOrder, NEW p \in Runners,
         (\E s \in ScenarioKeys : AskRun(p, s)) \/ SendUpdate(p) \/ Insert(p)
  PROVE  LockOrder'
<1> USE TypedFunctions
<1>1. p \in Threads /\ p \notin Resetters /\ p \notin Analysts
  BY ThreadsServeOneKind DEF Threads
<1>2. /\ UNCHANGED <<db, dataset, held>>
      /\ \A q \in Threads \ {p} : step'[q] = step[q] /\ began'[q] = began[q]
  <2>1. step' = step \/ step' = [step EXCEPT ![p] = @ + 1]
    BY DEF AskRun, SendUpdate, Insert
  <2>2. QED BY <2>1 DEF AskRun, SendUpdate, Insert, LifecycleInv
<1>3. CASE (\E s \in ScenarioKeys : AskRun(p, s)) \/ SendUpdate(p)
  <2>1. PICK l, s : l \in {"run", "update"} /\ Goto(p, l) /\ Want(p, Named("run", s))
    BY <1>3 DEF AskRun, SendUpdate
  <2>2. wanted'[p] = Named("run", s) /\ pc'[p] = l
    BY <1>1, <2>1 DEF Want, Goto, LifecycleInv
  <2>3. held'[p] = {}
    BY <1>1, <1>2, <1>3, IdleHoldNothing DEF AskRun, SendUpdate
  <2>4. \A x, y \in wanted'[p] : x = y
    BY <2>2, NamedOnce
  <2>5. Ordered(p)'
    BY <1>1, <2>3, <2>4 DEF Ordered, OneRow, RunFirst, IncidentFirst, LateLast, Sweeps
  <2>6. QED BY <1>1, <1>2, <2>1, <2>5, StatementKeepsOrder
<1>4. CASE Insert(p)
  <2>1. Goto(p, "insert") /\ \E W : Want(p, W)
    BY <1>4 DEF Insert
  <2>2. pc'[p] = "insert"
    BY <1>1, <2>1 DEF Goto, LifecycleInv
  <2>3. Ordered(p)'
    BY <1>1, <2>2 DEF Ordered, OneRow, RunFirst, IncidentFirst, LateLast, Sweeps
  <2>4. QED BY <1>1, <1>2, <2>1, <2>3, StatementKeepsOrder
<1>5. QED BY <1>3, <1>4

\* Reading the run and finishing lock nothing.
LEMMA UnlockedStepsKeepOrder ==
  ASSUME LifecycleInv, LockOrder, NEW p \in Threads, ReadFailedRun(p) \/ Finish(p)
  PROVE  LockOrder'
<1> USE TypedFunctions
<1>1. wanted[p] = {} /\ held[p] = {}
  BY IdleHoldNothing DEF ReadFailedRun, Finish
<1>2. UNCHANGED <<db, dataset, wanted, held, step, began>>
  BY DEF ReadFailedRun, Finish
<1>3. \E l : Goto(p, l)
  BY DEF ReadFailedRun, Finish
<1>4. Want(p, {})
  BY <1>1, <1>2 DEF Want, LifecycleInv, TypeOK
<1>5. Ordered(p)'
  <2>1. Sweeps(p)'
    <3>1. \A table : Visible(table)' = Visible(table)
      BY <1>2 DEF Visible
    <3>2. Sweeps(p)
      BY DEF LockOrder, Ordered
    <3>3. QED BY <1>2, <3>1, <3>2 DEF Sweeps
  <2>2. QED BY <1>1, <1>2, <2>1 DEF Ordered, OneRow, RunFirst, IncidentFirst, LateLast
<1>6. QED BY <1>2, <1>3, <1>4, <1>5, StatementKeepsOrder

LEMMA AnalystStatementsKeepOrder ==
  ASSUME LifecycleInv, LockOrder, NEW p \in Analysts,
         (\E i \in IncidentKeys : AskAction(p, i)) \/ BeginTransactionLock(p)
  PROVE  LockOrder'
<1> USE TypedFunctions
<1>1. p \in Threads /\ p \notin Resetters /\ p \notin Runners
  BY ThreadsServeOneKind DEF Threads
<1>2. UNCHANGED <<db, dataset, held, step, began>>
  BY DEF AskAction, BeginTransactionLock
<1>3. ASSUME NEW i \in IncidentKeys, AskAction(p, i) PROVE LockOrder'
  <2>1. held'[p] = {}
    BY <1>1, <1>2, <1>3, IdleHoldNothing DEF AskAction
  <2>2. Goto(p, "act") /\ Want(p, Named("incident", i))
    BY <1>3 DEF AskAction
  <2>3. pc'[p] = "act" /\ wanted'[p] = Named("incident", i)
    BY <1>1, <2>2 DEF Goto, Want, LifecycleInv
  <2>4. /\ \A x, y \in wanted'[p] : x = y
        /\ \A x \in wanted'[p] : x.table = "incident"
    BY <2>3, NamedOnce DEF Named, Visible
  <2>5. Ordered(p)'
    BY <1>1, <2>1, <2>3, <2>4 DEF Ordered, OneRow, RunFirst, IncidentFirst, LateLast, Sweeps
  <2>6. QED BY <1>1, <1>2, <2>2, <2>5, StatementKeepsOrder
<1>4. CASE BeginTransactionLock(p)
  <2>1. /\ Goto(p, "act_on_both") /\ Want(p, Named("transaction", task[p])) /\ pc[p] = "act"
    BY <1>4 DEF BeginTransactionLock
  <2>2. pc'[p] = "act_on_both" /\ wanted'[p] = Named("transaction", task[p]) /\ held'[p] = held[p]
    BY <1>1, <1>2, <2>1 DEF Goto, Want, LifecycleInv
  <2>3. /\ \A x, y \in wanted'[p] : x = y
        /\ \A x \in wanted'[p] : x.table = "transaction"
    BY <2>2, NamedOnce DEF Named, Visible
  <2>4. \A x \in held[p] : x.table = "incident"
    BY <1>1, <2>1 DEF LockOrder, Ordered, IncidentFirst
  <2>5. Ordered(p)'
    BY <1>1, <2>2, <2>3, <2>4 DEF Ordered, OneRow, RunFirst, IncidentFirst, LateLast, Sweeps
  <2>6. QED BY <1>1, <1>2, <2>1, <2>5, StatementKeepsOrder
<1>5. QED BY <1>3, <1>4

\* The DELETEs that come to the late tables, and those of runs and incidents.
LEMMA Statements ==
  /\ ResetOrder[1] = "action" /\ ResetOrder[2] = "run" /\ ResetOrder[4] = "incident"
  /\ \A k \in 1..14 : ResetOrder[k] \in LateTables => k > 5
BY DEF ResetOrder, LateTables, CustomerTables

LEMMA AskResetKeepsOrder ==
  ASSUME LifecycleInv, LockOrder, NEW p \in Resetters, AskReset(p)
  PROVE  LockOrder'
<1> USE TypedFunctions
<1>1. p \in Threads /\ p \notin Runners /\ p \notin Analysts
  BY ThreadsServeOneKind DEF Threads
<1>2. /\ Goto(p, "reset") /\ Want(p, Visible("action")) /\ UNCHANGED <<db, dataset, held>>
      /\ step' = [step EXCEPT ![p] = 1] /\ began' = [began EXCEPT ![p] = dataset]
  BY Statements DEF AskReset
<1>3. held'[p] = {}
  BY <1>1, <1>2, IdleHoldNothing DEF AskReset
<1>4. /\ step'[p] = 1 /\ wanted'[p] = Visible("action")
      /\ \A q \in Threads \ {p} : step'[q] = step[q] /\ began'[q] = began[q]
  BY <1>1, <1>2 DEF Want, LifecycleInv
<1>5. \A x \in Visible("action") : x.table \notin LateTables
  BY DEF Visible, LateTables, CustomerTables
<1>6. Ordered(p)'
  BY <1>1, <1>3, <1>4, <1>5 DEF Ordered, OneRow, RunFirst, IncidentFirst, LateLast, Sweeps
<1>7. QED BY <1>1, <1>2, <1>4, <1>6, StatementKeepsOrder

\* The next statement starts when the last one has all it wanted.
LEMMA NextDeleteKeepsOrder ==
  ASSUME LifecycleInv, LockOrder, NEW p \in Resetters, NextDelete(p)
  PROVE  LockOrder'
<1> USE TypedFunctions
<1>1. p \in Threads /\ p \notin Runners /\ p \notin Analysts
  BY ThreadsServeOneKind DEF Threads
<1> DEFINE k == step[p] + 1
<1> DEFINE W == Visible(ResetOrder[k]) \ held[p]
<1>2. /\ pc[p] = "reset" /\ wanted[p] = {} /\ step[p] < 14 /\ Want(p, W)
      /\ step' = [step EXCEPT ![p] = @ + 1] /\ UNCHANGED <<db, dataset, pc, held, began>>
  BY StatementCounts DEF NextDelete, Swept
<1>3. step[p] \in 0..14
  BY <1>1, StatementCounts DEF LifecycleInv, TypeOK
<1>4. /\ k \in 1..14 /\ step'[p] = k /\ held'[p] = held[p] /\ wanted'[p] = W /\ began'[p] = began[p]
      /\ \A table : Visible(table)' = Visible(table)
  BY <1>1, <1>2, <1>3 DEF Want, LifecycleInv, Visible
<1>5. Ordered(p)
  BY <1>1 DEF LockOrder
<1>6. LateLast(p)'
  <2> SUFFICES ASSUME NEW x \in W \union held[p], x.table \in LateTables PROVE k > 5
    BY <1>4 DEF LateLast
  <2>1. CASE x \in held[p]
    BY <1>3, <1>5, <2>1 DEF Ordered, LateLast
  <2>2. CASE x \in W
    <3>1. x.table = ResetOrder[k]
      BY <2>2 DEF Visible
    <3>2. QED BY <1>4, <3>1, Statements
  <2>3. QED BY <2>1, <2>2
<1>7. Sweeps(p)'
  <2> SUFFICES ASSUME began[p] = dataset
               PROVE  /\ k = 2 => Visible("run") \subseteq held[p] \union W
                      /\ k > 2 => Visible("run") \subseteq held[p]
                      /\ k = 4 => Visible("incident") \subseteq held[p] \union W
                      /\ k > 4 => Visible("incident") \subseteq held[p]
    BY <1>2, <1>4 DEF Sweeps
  <2>1. /\ step[p] = 2 => Visible("run") \subseteq held[p]
        /\ step[p] > 2 => Visible("run") \subseteq held[p]
        /\ step[p] = 4 => Visible("incident") \subseteq held[p]
        /\ step[p] > 4 => Visible("incident") \subseteq held[p]
    BY <1>2, <1>5 DEF Ordered, Sweeps
  <2>2. k = 2 => Visible("run") \subseteq held[p] \union W
    BY Statements
  <2>3. k = 4 => Visible("incident") \subseteq held[p] \union W
    BY Statements
  <2> HIDE DEF W
  <2>4. QED BY <1>3, <2>1, <2>2, <2>3
<1>8. Ordered(p)'
  BY <1>1, <1>6, <1>7 DEF Ordered, OneRow, RunFirst, IncidentFirst
<1>9. /\ Goto(p, "reset")
      /\ \A q \in Threads \ {p} : step'[q] = step[q] /\ began'[q] = began[q]
  BY <1>2 DEF Goto, LifecycleInv, TypeOK
<1> HIDE DEF k, W
<1>10. QED BY <1>1, <1>2, <1>8, <1>9, StatementKeepsOrder

\* A late row is deleted along with a late row only.
LEMMA LateOwnersAreLate ==
  ASSUME NEW y, y.table \in LateTables, NEW x \in Owners(y)
  PROVE  x.table \in LateTables
<1>1. PICK t \in {"customer", "account", "device", "session"} : x = Row(t, KeyIn(t, CaseKey(y)), y.dataset)
  <2>1. CASE y.table \in CustomerTables
    <3>1. Owners(y) \subseteq Related(y, {"customer"})
      BY <2>1 DEF Owners, CustomerTables, Related
    <3>2. QED BY <3>1 DEF Related
  <2>2. CASE y.table = "session"
    <3>1. Owners(y) = Related(y, {"account", "device"})
      BY <2>2 DEF Owners, CustomerTables
    <3>2. QED BY <3>1 DEF Related
  <2>3. CASE y.table = "transaction"
    <3>1. Owners(y) = Related(y, {"session"})
      BY <2>3 DEF Owners, CustomerTables
    <3>2. QED BY <3>1 DEF Related
  <2>4. CASE y.table \in {"channel", "asset"}
    <3>1. Owners(y) = Related(y, {})
      BY <2>4 DEF Owners, CustomerTables
    <3>2. QED BY <3>1 DEF Related
  <2>5. QED BY <2>1, <2>2, <2>3, <2>4 DEF LateTables
<1>2. x.table = t
  BY <1>1, RowFields
<1>3. QED BY <1>2 DEF LateTables, CustomerTables

\* What a lock moves from the rows wanted to the rows held was swept before, and
\* what it makes a reset want besides is late only if it is late itself.
LEMMA AcquireKeepsOrder ==
  ASSUME LifecycleInv, LockOrder, NEW p \in Threads, Acquire(p)
  PROVE  LockOrder'
<1> USE TypedFunctions
<1> DEFINE Along(x) == IF p \in Resetters /\ x \in DOMAIN db THEN Cascaded(x) \ held[p] ELSE {}
<1>1. PICK x \in wanted[p] :
        /\ wanted' = [wanted EXCEPT ![p] = (@ \ {x}) \union Along(x)]
        /\ \/ held' = [held EXCEPT ![p] = @ \union ({x} \intersect DOMAIN db)]
           \/ Sharing(p) /\ held' = held
        /\ UNCHANGED <<db, dataset, pc, task, step, reply, began>>
  BY DEF Acquire
<1>2. /\ wanted'[p] = (wanted[p] \ {x}) \union Along(x)
      /\ held'[p] \in {held[p] \union ({x} \intersect DOMAIN db), held[p]}
      /\ ~ Sharing(p) => held'[p] = held[p] \union ({x} \intersect DOMAIN db)
      /\ \A q \in Threads \ {p} :
           /\ pc'[q] = pc[q] /\ wanted'[q] = wanted[q] /\ held'[q] = held[q]
           /\ step'[q] = step[q] /\ began'[q] = began[q]
  BY <1>1 DEF LifecycleInv
<1>3. pc'[p] = pc[p] /\ step'[p] = step[p] /\ began'[p] = began[p] /\ dataset' = dataset
  BY <1>1
<1>4. \A y \in Along(x) : y.table \in LateTables => x.table \in LateTables
  BY LateOwnersAreLate DEF Cascaded
<1>5. p \notin Resetters => Along(x) = {}
  OBVIOUS
<1> HIDE DEF Along
<1>6. Ordered(p) /\ (p \in Resetters => p \notin Runners \union Analysts /\ ~ Sharing(p))
  BY ThreadsServeOneKind DEF LockOrder, Sharing, LifecycleInv, Kinds
<1>7. (p \in Analysts \/ (p \in Runners /\ pc[p] # "insert")) => wanted'[p] = {}
  BY <1>2, <1>5, <1>6 DEF Ordered, OneRow
<1>8. OneRow(p)' /\ RunFirst(p)'
  BY <1>3, <1>7 DEF OneRow, RunFirst
<1>9. IncidentFirst(p)'
  BY <1>2, <1>3, <1>6, <1>7 DEF Ordered, IncidentFirst
<1>10. LateLast(p)'
  BY <1>2, <1>3, <1>4, <1>6 DEF Ordered, LateLast
<1>11. Sweeps(p)'
  <2> SUFFICES ASSUME p \in Resetters PROVE Sweeps(p)'
    BY DEF Sweeps
  <2>1. \A table : Visible(table)' = Visible(table) /\ Visible(table) \subseteq DOMAIN db
    BY <1>1 DEF Visible
  <2>2. \A table : Visible(table) \subseteq held[p] \union wanted[p]
                     => Visible(table) \subseteq held'[p] \union wanted'[p]
    BY <1>2, <1>6, <2>1
  <2>3. \A table : Visible(table) \subseteq held[p] => Visible(table) \subseteq held'[p]
    BY <1>2
  <2>4. QED BY <1>3, <1>6, <2>1, <2>2, <2>3 DEF Ordered, Sweeps
<1>12. QED BY <1>1, <1>2, <1>8, <1>9, <1>10, <1>11, SameRowsKeepOrder DEF Ordered

LEMMA NextKeepsOrder == OrderInv /\ [Next]_vars => LockOrder'
<1> SUFFICES ASSUME LifecycleInv, LockOrder, [Next]_vars PROVE LockOrder'
  BY DEF OrderInv
<1>0. Runners \subseteq Threads /\ Resetters \subseteq Threads /\ Analysts \subseteq Threads
  BY DEF Threads
<1>1. CASE \E p \in Runners : RunStep(p) \/ \E s \in ScenarioKeys : AskRun(p, s)
  BY <1>0, <1>1, RunStatementsKeepOrder, CompleteKeepsOrder, EndingActionsKeepOrder,
     UnlockedStepsKeepOrder DEF RunStep
<1>2. CASE \E p \in Resetters : ResetStep(p) \/ AskReset(p)
  BY <1>0, <1>2, AskResetKeepsOrder, NextDeleteKeepsOrder, CommitResetKeepsOrder,
     EndingActionsKeepOrder DEF ResetStep
<1>3. CASE \E p \in Analysts : ActionStep(p) \/ \E i \in IncidentKeys : AskAction(p, i)
  BY <1>0, <1>3, AnalystStatementsKeepOrder, ActKeepsOrder, EndingActionsKeepOrder DEF ActionStep
<1>4. CASE \E p \in Threads : Acquire(p) \/ Finish(p) \/ Raise(p) \/ Die(p)
  BY <1>4, AcquireKeepsOrder, UnlockedStepsKeepOrder, EndingActionsKeepOrder
<1>5. CASE UNCHANGED vars
  BY <1>5 DEF vars, LockOrder, Ordered, OneRow, RunFirst, IncidentFirst, LateLast, Sweeps, Visible
<1>6. QED BY <1>1, <1>2, <1>3, <1>4, <1>5 DEF Next

\* The rows that a transaction has and waits for follow the order of its statements:
\* runs take their run row and analysts the incident first, and a reset that comes to
\* what those may wait for then has all run rows and incidents of its dataset.
THEOREM LocksStayOrdered == Spec => []OrderInv
<1>1. Init => OrderInv
  BY InitEstablishes, InitIsOrdered DEF OrderInv
<1>2. OrderInv /\ [Next]_vars => OrderInv'
  BY NextKeeps, NextKeepsOrder DEF OrderInv
<1>3. QED BY <1>1, <1>2, PTL DEF Spec

\* A run that waits with rows in hand holds its run row, and an analyst an incident.
LEMMA EntangledRun ==
  ASSUME OrderInv, NEW p \in Runners, p \in Entangled
  PROVE  /\ Sharing(p) /\ held[p] # {} /\ \A x \in held[p] : x.table = "run"
         /\ \A x \in wanted[p] \union shared[p] : x.table \in Parties
<1>1. p \in Threads /\ wanted[p] # {} /\ held[p] \union shared[p] # {} /\ RunnerLocks(p)
  BY DEF Entangled, Threads, OrderInv, LifecycleInv, Kinds
<1>2. pc[p] = "insert"
  BY <1>1 DEF RunnerLocks, OrderInv, LockOrder, Ordered, RunFirst
<1>3. QED BY <1>1, <1>2 DEF RunnerLocks, Sharing

LEMMA EntangledAnalyst ==
  ASSUME OrderInv, NEW a \in Analysts, a \in Entangled
  PROVE  /\ \A x \in wanted[a] : x.table = "transaction"
         /\ held[a] # {} /\ \A x \in held[a] : x.table = "incident"
         /\ shared[a] = {}
<1>1. a \in Threads /\ wanted[a] # {} /\ held[a] # {} /\ shared[a] = {}
  BY DEF Entangled, Threads, OrderInv, LifecycleInv, Kinds
<1>2. pc[a] \in {"act", "act_on_both"}
  BY <1>1 DEF OrderInv, LifecycleInv, TypeOK, Kinds
<1>3. QED BY <1>1, <1>2 DEF OrderInv, LockOrder, Ordered, IncidentFirst

\* In a circle, what is not a reset waits for one, and for a late row of it.
LEMMA CirclesNeedResets ==
  ASSUME OrderInv, NEW S \in SUBSET Entangled, NEW p \in S \ Resetters, NEW q \in S, WaitsFor(p, q)
  PROVE  q \in Resetters /\ \E x \in held[q] : x.table \in LateTables
<1>1. p \in Threads /\ q \in Threads /\ p \in Entangled /\ q \in Entangled
  BY DEF Entangled
<1>2. PICK x \in wanted[p] : Blocks(q, x, p)
  BY DEF WaitsFor
<1>3. p \in Runners \union Analysts
  BY <1>1 DEF Threads
<1>4. x.table \in Parties \union {"transaction"} /\ x.table \in LateTables
  BY <1>1, <1>3, EntangledRun, EntangledAnalyst DEF Parties, LateTables, CustomerTables
<1>5. q \notin Analysts
  <2> SUFFICES ASSUME q \in Analysts PROVE FALSE
    OBVIOUS
  <2>1. x \in held[q] /\ x.table = "incident"
    BY <1>1, <1>2, EntangledAnalyst DEF Blocks
  <2>2. QED BY <1>4, <2>1 DEF Parties
<1>6. q \notin Runners
  <2> SUFFICES ASSUME q \in Runners PROVE FALSE
    OBVIOUS
  <2>1. x \notin held[q]
    BY <1>1, <1>4, EntangledRun DEF Parties
  <2>2. ~ Sharing(p) /\ x.table \in Parties
    BY <1>1, <1>2, <2>1, EntangledRun DEF Blocks
  <2>3. p \in Analysts
    BY <1>1, <1>3, <2>2, EntangledRun
  <2>4. x.table = "transaction"
    BY <1>1, <2>3, EntangledAnalyst
  <2>5. QED BY <2>2, <2>4 DEF Parties
<1>7. q \in Resetters
  BY <1>1, <1>5, <1>6 DEF Threads
<1>8. x \in held[q]
  BY <1>2, <1>7 DEF Blocks, OrderInv, LifecycleInv, Kinds
<1>9. QED BY <1>4, <1>7, <1>8

\* Any number of runs and analysts and a reset that is alone with the dataset it
\* began on close no circle of waiting transactions: every circle has a reset in it
\* that another one has overtaken or is under way beside.
THEOREM DeadlockTakesTwoResets == Spec => []DeadlockNeedsTwoResets
<1>1. OrderInv => DeadlockNeedsTwoResets
  <2> SUFFICES ASSUME OrderInv, NEW S \in (SUBSET Entangled) \ {{}}, Circle(S)
               PROVE  \E p \in S \intersect Resetters : began[p] < dataset \/ Resetting # {p}
    BY DEF DeadlockNeedsTwoResets
  <2>1. \A p \in S : \E q \in S \ {p} : WaitsFor(p, q)
    BY DEF Circle
  <2>2. \A q \in S : q \in Threads /\ wanted[q] # {}
    BY DEF Entangled
  <2>3. PICK p \in S : p \in Resetters
    <3>1. PICK r \in S : TRUE
      OBVIOUS
    <3>2. PICK q \in S \ {r} : WaitsFor(r, q)
      BY <2>1
    <3>3. QED BY <3>2, CirclesNeedResets
  <2>4. ASSUME began[p] = dataset, Resetting = {p} PROVE FALSE
    <3>1. \A q \in S \intersect Resetters : q = p
      <4> SUFFICES ASSUME NEW q \in S \intersect Resetters PROVE q \in Resetting
        BY <2>4
      <4>1. q \in Threads /\ wanted[q] # {} /\ pc[q] \in {"idle", "reset", "reply"}
        BY <2>2 DEF OrderInv, LifecycleInv, Kinds
      <4>2. QED BY <4>1 DEF Resetting, OrderInv, LifecycleInv, TypeOK
    <3>2. PICK a \in S \ {p} : WaitsFor(p, a)
      BY <2>1
    <3>3. a \notin Resetters
      BY <3>1
    <3>4. PICK q \in S \ {a} : WaitsFor(a, q)
      BY <2>1
    <3>5. \E x \in held[p] : x.table \in LateTables
      BY <3>1, <3>3, <3>4, CirclesNeedResets
    <3>6. step[p] > 5
      BY <2>2, <2>3, <3>5 DEF OrderInv, LockOrder, Ordered, LateLast
    <3>7. step[p] \in 0..14
      BY <2>2, StatementCounts DEF OrderInv, LifecycleInv, TypeOK
    <3>8. Visible("run") \subseteq held[p] /\ Visible("incident") \subseteq held[p]
      <4>1. step[p] > 2 /\ step[p] > 4
        BY <3>6, <3>7
      <4>2. QED BY <2>2, <2>3, <2>4, <4>1 DEF OrderInv, LockOrder, Ordered, Sweeps
    <3>9. PICK x \in held[a] : x.table \in {"run", "incident"}
      <4>1. a \in Runners \union Analysts /\ a \in Entangled
        BY <2>2, <3>3 DEF Threads
      <4>2. QED BY <4>1, EntangledRun, EntangledAnalyst
    <3>10. x \in Visible("run") \union Visible("incident")
      BY <2>2, <3>9 DEF OrderInv, LifecycleInv, HeldExist, Visible
    <3>11. QED BY <2>2, <3>2, <3>8, <3>9, <3>10 DEF OrderInv, LifecycleInv, Exclusive
  <2>5. began[p] \in 0..dataset /\ dataset \in Nat
    BY <2>2 DEF OrderInv, LifecycleInv, TypeOK
  <2>6. began[p] < dataset \/ Resetting # {p}
    BY <2>4, <2>5
  <2>7. QED BY <2>3, <2>6
<1>2. QED BY <1>1, LocksStayOrdered, PTL
=============================================================================
