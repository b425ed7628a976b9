----------------------- MODULE MigrationProgramsProofs -----------------------
(***************************************************************************)
(* What the statements of the migrations amount to: run alone, each of     *)
(* them succeeds, the upgrades make the schema of each revision from the   *)
(* one before, the downgrades the one before from each, and the schema of  *)
(* head is what the models need.                                           *)
(*                                                                         *)
(* SchemaMigrationsProofs uses it for the migrations that are not alone.   *)
(***************************************************************************)
EXTENDS SchemaMigrations, FiniteSetTheorems, SequenceTheorems, WellFoundedInduction, TLAPS

-----------------------------------------------------------------------------
(* Statements one after the other. *)

\* What is seen after a statement.
After(view, s) == (view \ s.drops) \union s.makes

\* The views from statement to statement: each of them succeeds.
Passes(v, p) ==
  \A k \in 1..Len(p) : Succeeds(p[k], v[k - 1]) /\ v[k] = After(v[k - 1], p[k])

\* Statements that all succeed, from one view to another.
Leads(view, p, end) == \E v : v[0] = view /\ v[Len(p)] = end /\ Passes(v, p)

LEMMA NothingLeads ==
  ASSUME NEW view, NEW end
  PROVE  Leads(view, <<>>, end) <=> view = end
<1>1. Leads(view, <<>>, end) => view = end
  BY DEF Leads
<1>2. ASSUME view = end PROVE Leads(view, <<>>, end)
  <2>1. [k \in {0} |-> view][0] = view /\ Passes([k \in {0} |-> view], <<>>)
    BY DEF Passes
  <2>2. QED BY <1>2, <2>1 DEF Leads
<1>3. QED BY <1>1, <1>2

\* The first statement, and then the others.
LEMMA FirstOfThem ==
  ASSUME NEW S, NEW p \in Seq(S), p # <<>>, NEW view, NEW end, Leads(view, p, end)
  PROVE  Succeeds(p[1], view) /\ Leads(After(view, p[1]), Tail(p), end)
<1> DEFINE n == Len(p)
<1>1. n \in Nat \ {0} /\ Len(Tail(p)) = n - 1 /\ \A k \in 1..(n - 1) : Tail(p)[k] = p[k + 1]
  OBVIOUS
<1>2. PICK v : v[0] = view /\ v[n] = end /\ Passes(v, p)
  BY DEF Leads
<1> DEFINE w == [k \in 0..(n - 1) |-> v[k + 1]]
<1>3. \A k \in 0..(n - 1) : w[k] = v[k + 1]
  OBVIOUS
<1> HIDE DEF w
<1>4. Succeeds(p[1], view) /\ v[1] = After(view, p[1])
  <2>1. 1 \in 1..n /\ 1 - 1 = 0
    BY <1>1
  <2>2. QED BY <1>2, <2>1 DEF Passes
<1>5. w[0] = After(view, p[1]) /\ w[n - 1] = end
  <2>1. 0 \in 0..(n - 1) /\ n - 1 \in 0..(n - 1) /\ 0 + 1 = 1 /\ (n - 1) + 1 = n
    BY <1>1
  <2>2. w[0] = v[0 + 1] /\ w[n - 1] = v[(n - 1) + 1]
    BY <1>3, <2>1
  <2>3. QED BY <1>2, <1>4, <2>1, <2>2
<1>6. ASSUME NEW k \in 1..(n - 1)
      PROVE  Succeeds(Tail(p)[k], w[k - 1]) /\ w[k] = After(w[k - 1], Tail(p)[k])
  <2>1. /\ k + 1 \in 1..n /\ (k + 1) - 1 = k /\ k - 1 \in 0..(n - 1) /\ k \in 0..(n - 1)
        /\ (k - 1) + 1 = k
    BY <1>1
  <2>2. Succeeds(p[k + 1], v[(k + 1) - 1]) /\ v[k + 1] = After(v[(k + 1) - 1], p[k + 1])
    BY <1>2, <2>1 DEF Passes
  <2>3. w[k - 1] = v[(k - 1) + 1] /\ w[k] = v[k + 1]
    BY <1>3, <2>1
  <2>4. Tail(p)[k] = p[k + 1]
    BY <1>1
  <2>5. QED BY <2>1, <2>2, <2>3, <2>4
<1>7. Passes(w, Tail(p))
  BY <1>1, <1>6 DEF Passes
<1>8. w[Len(Tail(p))] = end
  BY <1>1, <1>5
<1>9. QED BY <1>4, <1>5, <1>7, <1>8 DEF Leads

\* Some statements, and then others.
LEMMA OnesAndOthers ==
  ASSUME NEW S, NEW p \in Seq(S), NEW q \in Seq(S), NEW view, NEW mid, NEW end,
         Leads(view, p, mid), Leads(mid, q, end)
  PROVE  p \o q \in Seq(S) /\ Leads(view, p \o q, end)
<1> DEFINE n == Len(p)
           m == Len(q)
           all == p \o q
<1>1. /\ n \in Nat /\ m \in Nat /\ Len(all) = n + m /\ all \in Seq(S)
      /\ \A k \in 1..n : all[k] = p[k]
      /\ \A k \in 1..m : all[n + k] = q[k]
  OBVIOUS
<1> HIDE DEF all
<1>2. PICK v : v[0] = view /\ v[n] = mid /\ Passes(v, p)
  BY DEF Leads
<1>3. PICK w : w[0] = mid /\ w[m] = end /\ Passes(w, q)
  BY DEF Leads
<1> DEFINE u == [k \in 0..(n + m) |-> IF k <= n THEN v[k] ELSE w[k - n]]
<1>4. \A k \in 0..n : u[k] = v[k]
  BY <1>1
<1>5. ASSUME NEW k \in 0..m PROVE u[n + k] = w[k]
  <2>1. n + k \in 0..(n + m) /\ (n + k) - n = k
    BY <1>1
  <2>2. CASE k = 0
    <3>1. n + k = n /\ n + k <= n
      BY <1>1, <2>2
    <3>2. u[n + k] = v[n + k]
      BY <2>1, <3>1
    <3>3. QED BY <1>2, <1>3, <2>2, <3>1, <3>2
  <2>3. CASE k # 0
    <3>1. ~(n + k <= n)
      BY <1>1, <2>3
    <3>2. QED BY <2>1, <3>1
  <2>4. QED BY <2>2, <2>3
<1> HIDE DEF u
<1>6. u[0] = view /\ u[n + m] = end
  <2>1. 0 \in 0..n /\ m \in 0..m
    BY <1>1
  <2>2. QED BY <1>2, <1>3, <1>4, <1>5, <2>1
<1>7. ASSUME NEW k \in 1..(n + m)
      PROVE  Succeeds(all[k], u[k - 1]) /\ u[k] = After(u[k - 1], all[k])
  <2>1. CASE k \in 1..n
    <3>1. k - 1 \in 0..n /\ k \in 0..n
      BY <2>1
    <3>2. Succeeds(p[k], v[k - 1]) /\ v[k] = After(v[k - 1], p[k])
      BY <1>2, <2>1 DEF Passes
    <3>3. u[k - 1] = v[k - 1] /\ u[k] = v[k] /\ all[k] = p[k]
      BY <1>1, <1>4, <2>1, <3>1
    <3>4. QED BY <3>2, <3>3
  <2>2. ASSUME NEW i \in 1..m, k = n + i
        PROVE  Succeeds(all[k], u[k - 1]) /\ u[k] = After(u[k - 1], all[k])
    <3>1. i - 1 \in 0..m /\ i \in 0..m /\ k - 1 = n + (i - 1)
      BY <1>1, <2>2
    <3>2. Succeeds(q[i], w[i - 1]) /\ w[i] = After(w[i - 1], q[i])
      BY <1>3, <2>2 DEF Passes
    <3>3. u[n + (i - 1)] = w[i - 1] /\ u[n + i] = w[i] /\ all[n + i] = q[i]
      BY <1>1, <1>5, <3>1
    <3>4. u[k - 1] = w[i - 1] /\ u[k] = w[i] /\ all[k] = q[i]
      BY <2>2, <3>1, <3>3
    <3>5. QED BY <3>2, <3>4
  <2>3. k \in 1..n \/ \E i \in 1..m : k = n + i
    <3>1. CASE k <= n
      BY <1>1, <3>1
    <3>2. CASE ~(k <= n)
      <4>1. k - n \in 1..m /\ k = n + (k - n)
        BY <1>1, <3>2
      <4>2. QED BY <4>1
    <3>3. QED BY <3>1, <3>2
  <2>4. QED BY <2>1, <2>2, <2>3
<1>8. Passes(u, all) /\ u[Len(all)] = end
  BY <1>1, <1>6, <1>7 DEF Passes
<1>9. QED BY <1>1, <1>6, <1>8 DEF Leads, all

LEMMA OneLeads ==
  ASSUME NEW s, NEW view, Succeeds(s, view)
  PROVE  Leads(view, <<s>>, After(view, s))
<1> DEFINE v == [k \in 0..1 |-> IF k = 0 THEN view ELSE After(view, s)]
<1>1. v[0] = view /\ v[1] = After(view, s)
  OBVIOUS
<1>2. Len(<<s>>) = 1 /\ <<s>>[1] = s
  OBVIOUS
<1> HIDE DEF v
<1>3. Passes(v, <<s>>)
  <2>1. SUFFICES ASSUME NEW k \in 1..1
                 PROVE  Succeeds(<<s>>[k], v[k - 1]) /\ v[k] = After(v[k - 1], <<s>>[k])
    BY <1>2 DEF Passes
  <2>2. k = 1 /\ k - 1 = 0
    OBVIOUS
  <2>3. QED BY <1>1, <1>2, <2>2
<1>4. QED BY <1>1, <1>2, <1>3 DEF Leads

\* Statements that only make, each after what it needs.
MadeBefore(p, k) == UNION {p[j].makes : j \in 1..(k - 1)}

LEMMA MakingLeads ==
  ASSUME NEW p, NEW view, Len(p) \in Nat,
         \A k \in 1..Len(p) : /\ p[k].drops = {}
                              /\ p[k].needs \subseteq view \union MadeBefore(p, k)
                              /\ p[k].unless \intersect (view \union MadeBefore(p, k)) = {}
  PROVE  Leads(view, p, view \union Made(p))
<1> DEFINE n == Len(p)
           v == [k \in 0..n |-> view \union MadeBefore(p, k + 1)]
<1>1. \A k \in 0..n : v[k] = view \union MadeBefore(p, k + 1)
  OBVIOUS
<1> HIDE DEF v
<1>2. v[0] = view
  <2>1. 0 \in 0..n /\ 1..((0 + 1) - 1) = {}
    OBVIOUS
  <2>2. MadeBefore(p, 0 + 1) = {}
    BY <2>1 DEF MadeBefore
  <2>3. QED BY <1>1, <2>1, <2>2, ZenonT(60)
<1>3. v[n] = view \union Made(p)
  <2>1. n \in 0..n /\ (n + 1) - 1 = n
    OBVIOUS
  <2>2. MadeBefore(p, n + 1) = Made(p)
    BY <2>1 DEF MadeBefore, Made
  <2>3. QED BY <1>1, <2>1, <2>2
<1>4. ASSUME NEW k \in 1..n
      PROVE  Succeeds(p[k], v[k - 1]) /\ v[k] = After(v[k - 1], p[k])
  <2>1. k - 1 \in 0..n /\ k \in 0..n /\ (k - 1) + 1 = k /\ (k + 1) - 1 = k
    OBVIOUS
  <2>2. v[k - 1] = view \union MadeBefore(p, (k - 1) + 1) /\ v[k] = view \union MadeBefore(p, k + 1)
    BY <1>1, <2>1
  <2>3. v[k - 1] = view \union MadeBefore(p, k)
    BY <2>1, <2>2
  <2>4. MadeBefore(p, k + 1) = MadeBefore(p, k) \union p[k].makes
    <3>1. \A j \in 1..((k + 1) - 1) : j \in 1..(k - 1) \/ j = k
      OBVIOUS
    <3>2. k \in 1..((k + 1) - 1) /\ \A j \in 1..(k - 1) : j \in 1..((k + 1) - 1)
      OBVIOUS
    <3>3. QED BY <3>1, <3>2 DEF MadeBefore
  <2>5. Succeeds(p[k], v[k - 1])
    BY <2>3 DEF Succeeds
  <2>6. v[k] = After(v[k - 1], p[k])
    BY <2>2, <2>3, <2>4 DEF After
  <2>7. QED BY <2>5, <2>6
<1>5. QED BY <1>2, <1>3, <1>4 DEF Leads, Passes

\* Statements that only drop, each before what needs what it drops.
DroppedBefore(p, k) == UNION {p[j].drops : j \in 1..(k - 1)}

Dropped(p) == UNION {p[k].drops : k \in 1..Len(p)}

LEMMA DroppingLeads ==
  ASSUME NEW p, NEW view, Len(p) \in Nat,
         \A k \in 1..Len(p) : /\ p[k].makes = {}
                              /\ p[k].needs \subseteq view \ DroppedBefore(p, k)
                              /\ p[k].unless \intersect (view \ DroppedBefore(p, k)) = {}
  PROVE  Leads(view, p, view \ Dropped(p))
<1> DEFINE n == Len(p)
           v == [k \in 0..n |-> view \ DroppedBefore(p, k + 1)]
<1>1. \A k \in 0..n : v[k] = view \ DroppedBefore(p, k + 1)
  OBVIOUS
<1> HIDE DEF v
<1>2. v[0] = view
  <2>1. 0 \in 0..n /\ 1..((0 + 1) - 1) = {}
    OBVIOUS
  <2>2. DroppedBefore(p, 0 + 1) = {}
    BY <2>1 DEF DroppedBefore
  <2>3. QED BY <1>1, <2>1, <2>2
<1>3. v[n] = view \ Dropped(p)
  <2>1. n \in 0..n /\ (n + 1) - 1 = n
    OBVIOUS
  <2>2. DroppedBefore(p, n + 1) = Dropped(p)
    BY <2>1 DEF DroppedBefore, Dropped
  <2>3. QED BY <1>1, <2>1, <2>2
<1>4. ASSUME NEW k \in 1..n
      PROVE  Succeeds(p[k], v[k - 1]) /\ v[k] = After(v[k - 1], p[k])
  <2>1. k - 1 \in 0..n /\ k \in 0..n /\ (k - 1) + 1 = k /\ (k + 1) - 1 = k
    OBVIOUS
  <2>2. v[k - 1] = view \ DroppedBefore(p, (k - 1) + 1) /\ v[k] = view \ DroppedBefore(p, k + 1)
    BY <1>1, <2>1
  <2>3. v[k - 1] = view \ DroppedBefore(p, k)
    BY <2>1, <2>2
  <2>4. DroppedBefore(p, k + 1) = DroppedBefore(p, k) \union p[k].drops
    <3>1. \A j \in 1..((k + 1) - 1) : j \in 1..(k - 1) \/ j = k
      OBVIOUS
    <3>2. k \in 1..((k + 1) - 1) /\ \A j \in 1..(k - 1) : j \in 1..((k + 1) - 1)
      OBVIOUS
    <3>3. QED BY <3>1, <3>2 DEF DroppedBefore
  <2>5. Succeeds(p[k], v[k - 1])
    BY <2>3 DEF Succeeds
  <2>6. v[k] = After(v[k - 1], p[k])
    BY <2>2, <2>3, <2>4 DEF After
  <2>7. QED BY <2>5, <2>6
<1>5. QED BY <1>2, <1>3, <1>4 DEF Leads, Passes

-----------------------------------------------------------------------------
(* What 0002 creates. *)

Names0002 ==
  <<"crypto_assets", "customers", "users", "accounts", "audit_events",
    "behavioural_baselines", "beneficiaries", "devices", "transaction_channels", "sessions",
    "cyber_events", "transactions", "incidents", "analyst_actions", "risk_contributions",
    "scenario_runs">>

Indexes0002 ==
  {<<"audit_events", "entity_created_at">>, <<"audit_events", "request_id">>,
   <<"behavioural_baselines", "customer_id">>, <<"cyber_events", "session_event_time">>,
   <<"transactions", "account_created_at">>, <<"incidents", "customer_created_at">>,
   <<"incidents", "severity_created_at">>, <<"incidents", "status_created_at">>,
   <<"incidents", "transaction">>, <<"incidents", "scenario_key">>,
   <<"analyst_actions", "incident_created_at">>}

Creations ==
  {Table(Names0002[k]) : k \in 1..16} \union {Index(x[1], x[2]) : x \in Indexes0002}
    \union {AuditFunction, AuditTrigger}

LEMMA TablesByName ==
  /\ Len(Tables0002) = 16 /\ Len(Names0002) = 16
  /\ \A k \in 1..16 : Tables0002[k].table = Names0002[k]
  /\ \A j, k \in 1..16 : Names0002[j] = Names0002[k] => j = k
<1>1. Len(Tables0002) = 16 /\ Len(Names0002) = 16
  BY DEF Tables0002, Names0002
<1>2. /\ crypto_assets.table = "crypto_assets"
      /\ customers.table = "customers"
      /\ users.table = "users"
      /\ accounts.table = "accounts"
      /\ audit_events.table = "audit_events"
      /\ behavioural_baselines.table = "behavioural_baselines"
      /\ beneficiaries.table = "beneficiaries"
      /\ devices.table = "devices"
      /\ transaction_channels.table = "transaction_channels"
      /\ sessions.table = "sessions"
      /\ cyber_events.table = "cyber_events"
      /\ transactions.table = "transactions"
      /\ incidents.table = "incidents"
      /\ analyst_actions.table = "analyst_actions"
      /\ risk_contributions.table = "risk_contributions"
      /\ scenario_runs.table = "scenario_runs"
  BY DEF crypto_assets, customers, users, accounts, audit_events,
         behavioural_baselines, beneficiaries, devices, transaction_channels, sessions,
         cyber_events, transactions, incidents, analyst_actions, risk_contributions,
         scenario_runs
<1>3. \A k \in 1..16 : Tables0002[k].table = Names0002[k]
  BY <1>2 DEF Tables0002, Names0002
<1>4. \A j, k \in 1..16 : Names0002[j] = Names0002[k] => j = k
  BY DEF Names0002
<1>5. QED BY <1>1, <1>3, <1>4

LEMMA CreatedObjects ==
  /\ Len(Created0002) = 29
  /\ \A k \in 1..29 : Created0002[k] \in Creations
  /\ \A o \in Creations : \E k \in 1..29 : o = Created0002[k]
<1>1. Len(Created0002) = 29
  BY DEF Created0002
<1>2. \A k \in 1..29 : Created0002[k] \in Creations
  BY DEF Created0002, Creations, Names0002, Indexes0002, Table, Index
<1>3. \A o \in Creations : \E k \in 1..29 : o = Created0002[k]
  BY DEF Created0002, Creations, Names0002, Indexes0002, Table, Index
<1>4. QED BY <1>1, <1>2, <1>3

\* CREATE TABLE of a table, by its place.
LEMMA TableCreation ==
  ASSUME NEW k \in 1..16
  PROVE  LET d == Tables0002[k]
             new == d.types \ UNION {Tables0002[j].types : j \in 1..(k - 1)}
             made == TableObjects(d) \union {<<"type", n>> : n \in new}
             s == CreateTable(Names0002[k])
         IN  /\ s.needs = {<<"table", r[2]>> : r \in d.refs}
             /\ s.unless = made /\ s.drops = {} /\ s.makes = made
<1> DEFINE d == Tables0002[k]
           new == d.types \ UNION {Tables0002[j].types : j \in 1..(k - 1)}
           made == TableObjects(d) \union {<<"type", n>> : n \in new}
           needed == {<<"table", r[2]>> : r \in d.refs}
<1>1. (CHOOSE j \in 1..Len(Tables0002) : Tables0002[j].table = Names0002[k]) = k
  BY TablesByName
<1>2. CreateTable(Names0002[k]) =
        [needs |-> needed, unless |-> made, drops |-> {}, makes |-> made]
  BY <1>1 DEF CreateTable
<1> HIDE DEF made, needed
<1>3. LET s == CreateTable(Names0002[k])
      IN  s.needs = needed /\ s.unless = made /\ s.drops = {} /\ s.makes = made
  BY <1>2
<1>4. QED BY <1>3 DEF made, needed

\* What the statement of a creation makes, and that it drops nothing.
LEMMA CreationMakes ==
  /\ \A k \in 1..16 : Creating(Table(Names0002[k])) = CreateTable(Names0002[k])
  /\ \A x \in Indexes0002 : Creating(Index(x[1], x[2])) = Add(Index(x[1], x[2]))
  /\ Creating(AuditFunction) = CreateFunction
  /\ Creating(AuditTrigger) = CreateTrigger
BY DEF Creating, Table, Index, AuditFunction, AuditTrigger

\* A set of numbers that has a member has a least one.
LEMMA LeastNumber ==
  ASSUME NEW T, T \subseteq Nat, T # {}
  PROVE  \E x \in T : \A y \in T : x <= y
<1> DEFINE less == {ss \in Nat \X Nat : ss[1] < ss[2]}
<1>1. IsWellFoundedOn(less, Nat)
  BY NatLessThanWellFounded DEF OpToRel
<1>2. \A x, y \in Nat : <<y, x>> \in less <=> y < x
  OBVIOUS
<1> HIDE DEF less
<1>3. PICK x \in T : \A y \in T : ~ (<<y, x>> \in less)
  BY <1>1, WFMin
<1>4. ASSUME NEW y \in T PROVE x <= y
  <2>1. x \in Nat /\ y \in Nat
    OBVIOUS
  <2>2. ~ (y < x)
    BY <1>2, <1>3, <2>1
  <2>3. QED BY <2>1, <2>2
<1>5. QED BY <1>4

TableParts == UNION {TableObjects(Tables0002[k]) : k \in 1..16}
TypeParts == {<<"type", n>> : n \in UNION {Tables0002[k].types : k \in 1..16}}
IndexParts == {Index(x[1], x[2]) : x \in Indexes0002}

\* 0002 makes the tables with what is theirs, their types, the indexes and the
\* guard of the audit events, and drops nothing.
LEMMA MadeBy0002 ==
  /\ Made(Upgrade0002) = TableParts \union TypeParts \union IndexParts
                           \union {AuditFunction, AuditTrigger}
  /\ \A k \in 1..29 : Upgrade0002[k].drops = {}
  /\ Len(Upgrade0002) = 29
<1>1. Len(Upgrade0002) = 29 /\ \A k \in 1..29 : Upgrade0002[k] = Creating(Created0002[k])
  BY CreatedObjects DEF Upgrade0002
<1>2. \A o \in Made(Upgrade0002) : \E c \in Creations : o \in Creating(c).makes
  BY <1>1, CreatedObjects DEF Made
<1>3. \A c \in Creations : Creating(c).makes \subseteq Made(Upgrade0002)
  <2>1. SUFFICES ASSUME NEW c \in Creations PROVE Creating(c).makes \subseteq Made(Upgrade0002)
    OBVIOUS
  <2>2. PICK k \in 1..29 : c = Created0002[k]
    BY CreatedObjects
  <2>3. QED BY <1>1, <2>2 DEF Made
<1>4. ASSUME NEW k \in 1..16
      PROVE  /\ CreateTable(Names0002[k]).drops = {}
             /\ CreateTable(Names0002[k]).makes =
                  TableObjects(Tables0002[k]) \union
                  {<<"type", n>> : n \in Tables0002[k].types
                                           \ UNION {Tables0002[j].types : j \in 1..(k - 1)}}
  BY TableCreation
<1>5. /\ \A x \in Indexes0002 : Add(Index(x[1], x[2])).makes = {Index(x[1], x[2])}
                                /\ Add(Index(x[1], x[2])).drops = {}
      /\ CreateFunction.makes = {AuditFunction} /\ CreateFunction.drops = {}
      /\ CreateTrigger.makes = {AuditTrigger} /\ CreateTrigger.drops = {}
  BY DEF Add, CreateFunction, CreateTrigger
<1>6. \A c \in Creations : Creating(c).drops = {}
  BY <1>4, <1>5, CreationMakes DEF Creations
<1>7. Made(Upgrade0002) \subseteq
        TableParts \union TypeParts \union IndexParts \union {AuditFunction, AuditTrigger}
  <2>1. SUFFICES ASSUME NEW c \in Creations, NEW o \in Creating(c).makes
                 PROVE  o \in TableParts \union TypeParts \union IndexParts
                                \union {AuditFunction, AuditTrigger}
    BY <1>2
  <2>2. ASSUME NEW k \in 1..16, c = Table(Names0002[k])
        PROVE  o \in TableParts \union TypeParts
    <3>1. o \in CreateTable(Names0002[k]).makes
      BY <2>1, <2>2, CreationMakes
    <3>2. QED BY <1>4, <3>1 DEF TableParts, TypeParts
  <2>3. ASSUME NEW x \in Indexes0002, c = Index(x[1], x[2])
        PROVE  o \in IndexParts
    BY <1>5, <2>1, <2>3, CreationMakes DEF IndexParts
  <2>4. ASSUME c \in {AuditFunction, AuditTrigger}
        PROVE  o \in {AuditFunction, AuditTrigger}
    BY <1>5, <2>1, <2>4, CreationMakes
  <2>5. QED BY <2>1, <2>2, <2>3, <2>4 DEF Creations
<1>8. TableParts \subseteq Made(Upgrade0002)
  <2>1. SUFFICES ASSUME NEW k \in 1..16
                 PROVE  TableObjects(Tables0002[k]) \subseteq Made(Upgrade0002)
    BY DEF TableParts
  <2>2. Table(Names0002[k]) \in Creations
    BY DEF Creations
  <2>3. QED BY <1>3, <1>4, <2>2, CreationMakes
<1>9. TypeParts \subseteq Made(Upgrade0002)
  <2>1. SUFFICES ASSUME NEW n, \E k \in 1..16 : n \in Tables0002[k].types
                 PROVE  <<"type", n>> \in Made(Upgrade0002)
    BY DEF TypeParts
  <2> DEFINE having == {k \in 1..16 : n \in Tables0002[k].types}
  <2>2. having \subseteq Nat /\ having # {}
    BY <2>1
  <2>3. PICK k \in having : \A j \in having : k <= j
    BY <2>2, LeastNumber
  <2>4. \A j \in 1..(k - 1) : n \notin Tables0002[j].types
    <3>1. SUFFICES ASSUME NEW j \in 1..(k - 1), n \in Tables0002[j].types PROVE FALSE
      OBVIOUS
    <3>2. j \in having /\ j < k
      BY <2>3, <3>1
    <3>3. QED BY <2>3, <3>2
  <2>5. <<"type", n>> \in CreateTable(Names0002[k]).makes
    BY <1>4, <2>3, <2>4
  <2>6. Table(Names0002[k]) \in Creations
    BY <2>3 DEF Creations
  <2>7. QED BY <1>3, <2>3, <2>5, <2>6, CreationMakes
<1>10. IndexParts \union {AuditFunction, AuditTrigger} \subseteq Made(Upgrade0002)
  <2>1. \A x \in Indexes0002 : Index(x[1], x[2]) \in Creations
    BY DEF Creations
  <2>2. AuditFunction \in Creations /\ AuditTrigger \in Creations
    BY DEF Creations
  <2>3. QED BY <1>3, <1>5, <2>1, <2>2, CreationMakes DEF IndexParts
<1>11. \A k \in 1..29 : Upgrade0002[k].drops = {}
  BY <1>1, <1>6, CreatedObjects
<1>12. QED BY <1>1, <1>7, <1>8, <1>9, <1>10, <1>11

-----------------------------------------------------------------------------
(* What 0003 adds, and what the versions are apart from. *)

Additions == {Additions0003[k] : k \in 1..18}

LEMMA MadeBy0003 ==
  /\ Len(Additions0003) = 18 /\ Len(Upgrade0003) = 18
  /\ Made(Upgrade0003) = Additions
  /\ \A k \in 1..18 : Upgrade0003[k].drops = {}
<1>1. Len(Additions0003) = 18
  BY DEF Additions0003
<1>2. Len(Upgrade0003) = 18 /\ \A k \in 1..18 : Upgrade0003[k] = Add(Additions0003[k])
  BY <1>1 DEF Upgrade0003
<1>3. \A o : Add(o).makes = {o} /\ Add(o).drops = {}
  BY DEF Add
<1>4. QED BY <1>1, <1>2, <1>3 DEF Made, Additions

\* The objects of 0002 by their kind.
LEMMA ObjectsOf0002 ==
  ASSUME NEW o \in Made(Upgrade0002)
  PROVE  \/ o = AuditFunction \/ o = AuditTrigger
         \/ \E x \in Indexes0002 : o = <<"index", x[1], x[2]>>
         \/ \E k \in 1..16 : \E n \in Tables0002[k].types : o = <<"type", n>>
         \/ \E k \in 1..16 :
              \/ o = <<"table", Names0002[k]>>
              \/ \E n \in Tables0002[k].types : o = <<"uses", Names0002[k], n>>
              \/ \E r \in Tables0002[k].refs : o = <<"fk", Names0002[k], r[1], r[2], r[3]>>
              \/ \E n \in Tables0002[k].checks : o = <<"check", Names0002[k], n>>
              \/ \E n \in Tables0002[k].uniques : o = <<"unique", Names0002[k], n>>
<1>1. CASE o \in TableParts
  <2>1. PICK k \in 1..16 : o \in TableObjects(Tables0002[k])
    BY <1>1 DEF TableParts
  <2>2. Tables0002[k].table = Names0002[k]
    BY TablesByName
  <2>3. QED BY <2>1, <2>2 DEF TableObjects
<1>2. CASE o \in TypeParts
  BY <1>2 DEF TypeParts
<1>3. CASE o \in IndexParts
  BY <1>3 DEF IndexParts, Index
<1>4. QED BY <1>1, <1>2, <1>3, MadeBy0002

\* The additions by their kind.
LEMMA KindsOfAdditions ==
  \A o \in Additions :
    \/ o[1] = "column"
    \/ o = <<"check", "behavioural_baselines", "velocity_30m_nonnegative">>
    \/ o = <<"unique", "behavioural_baselines", "customer">>
    \/ o = <<"check", "incidents", "raw_fused_score_range">>
    \/ o = <<"fk", "risk_contributions", "source_transaction_id", "transactions", "SET NULL">>
    \/ o = <<"fk", "risk_contributions", "source_baseline_id", "behavioural_baselines",
             "SET NULL">>
<1>1. /\ Additions0003[1][1] = "column" /\ Additions0003[2][1] = "column"
      /\ Additions0003[3][1] = "column" /\ Additions0003[4][1] = "column"
      /\ Additions0003[7][1] = "column" /\ Additions0003[8][1] = "column"
      /\ Additions0003[9][1] = "column" /\ Additions0003[10][1] = "column"
      /\ Additions0003[11][1] = "column" /\ Additions0003[12][1] = "column"
      /\ Additions0003[13][1] = "column" /\ Additions0003[15][1] = "column"
      /\ Additions0003[16][1] = "column"
  BY DEF Additions0003
<1>2. /\ Additions0003[5] = <<"check", "behavioural_baselines", "velocity_30m_nonnegative">>
      /\ Additions0003[6] = <<"unique", "behavioural_baselines", "customer">>
      /\ Additions0003[14] = <<"check", "incidents", "raw_fused_score_range">>
  BY DEF Additions0003
<1>3. /\ Additions0003[17] = <<"fk", "risk_contributions", "source_transaction_id",
                               "transactions", "SET NULL">>
      /\ Additions0003[18] = <<"fk", "risk_contributions", "source_baseline_id",
                               "behavioural_baselines", "SET NULL">>
  BY DEF Additions0003
<1>4. \A k \in 1..18 : Additions0003[k][1] = "column" \/ k \in {5, 6, 14, 17, 18}
  BY <1>1
<1>5. QED BY <1>2, <1>3, <1>4 DEF Additions

LEMMA AdditionsAreNoTables == \A o \in Additions : o[1] \in {"column", "check", "unique", "fk"}
<1>1. SUFFICES ASSUME NEW o \in Additions
               PROVE  o[1] \in {"column", "check", "unique", "fk"}
  OBVIOUS
<1>2. CASE o = <<"check", "behavioural_baselines", "velocity_30m_nonnegative">>
  BY <1>2
<1>3. CASE o = <<"unique", "behavioural_baselines", "customer">>
  BY <1>3
<1>4. CASE o = <<"check", "incidents", "raw_fused_score_range">>
  BY <1>4
<1>5. CASE o = <<"fk", "risk_contributions", "source_transaction_id", "transactions",
                 "SET NULL">>
  BY <1>5
<1>6. CASE o = <<"fk", "risk_contributions", "source_baseline_id", "behavioural_baselines",
                 "SET NULL">>
  BY <1>6
<1>7. QED BY <1>2, <1>3, <1>4, <1>5, <1>6, KindsOfAdditions

\* None of them has a name that 0003 gives.
LEMMA AdditionsAreNew == Additions \intersect Made(Upgrade0002) = {}
<1>1. SUFFICES ASSUME NEW o \in Additions, o \in Made(Upgrade0002) PROVE FALSE
  OBVIOUS
<1> DEFINE b == "behavioural_baselines"
           c == "risk_contributions"
<1>2. \/ o[1] = "column"
      \/ o = <<"check", b, "velocity_30m_nonnegative">>
      \/ o = <<"unique", b, "customer">>
      \/ o = <<"check", "incidents", "raw_fused_score_range">>
      \/ o = <<"fk", c, "source_transaction_id", "transactions", "SET NULL">>
      \/ o = <<"fk", c, "source_baseline_id", b, "SET NULL">>
  BY <1>1, KindsOfAdditions
<1>3. o[1] # "column"
  BY <1>1, ObjectsOf0002 DEF AuditFunction, AuditTrigger
<1>4. \A k \in 1..16 : /\ Names0002[k] = b => k = 6
                       /\ Names0002[k] = c => k = 15
                       /\ Names0002[k] = "incidents" => k = 13
  BY DEF Names0002
<1>5. Tables0002[6] = behavioural_baselines /\ Tables0002[13] = incidents
      /\ Tables0002[15] = risk_contributions
  BY DEF Tables0002
<1>6. o # <<"check", b, "velocity_30m_nonnegative">>
  BY <1>1, <1>4, <1>5, ObjectsOf0002 DEF AuditFunction, AuditTrigger, behavioural_baselines
<1>7. o # <<"unique", b, "customer">>
  BY <1>1, <1>4, <1>5, ObjectsOf0002 DEF AuditFunction, AuditTrigger, behavioural_baselines
<1>8. o # <<"check", "incidents", "raw_fused_score_range">>
  BY <1>1, <1>4, <1>5, ObjectsOf0002 DEF AuditFunction, AuditTrigger, incidents
<1>9. \A r \in risk_contributions.refs :
        r[1] # "source_transaction_id" /\ r[1] # "source_baseline_id"
  <2>1. risk_contributions.refs = {<<"incident_id", "incidents", "CASCADE">>,
                                   <<"source_event_id", "cyber_events", "SET NULL">>}
    BY DEF risk_contributions
  <2>2. ASSUME NEW r, r = <<"incident_id", "incidents", "CASCADE">> PROVE r[1] = "incident_id"
    BY <2>2
  <2>3. ASSUME NEW r, r = <<"source_event_id", "cyber_events", "SET NULL">>
        PROVE  r[1] = "source_event_id"
    BY <2>3
  <2>4. QED BY <2>1, <2>2, <2>3
<1>10. ASSUME NEW n, NEW table, NEW action, o = <<"fk", c, n, table, action>>
       PROVE  \E r \in risk_contributions.refs : r[1] = n
  BY <1>1, <1>4, <1>5, <1>10, ObjectsOf0002 DEF AuditFunction, AuditTrigger
<1>11. QED BY <1>2, <1>3, <1>6, <1>7, <1>8, <1>9, <1>10



\* No migration makes what alembic keeps its books with.
LEMMA BooksAreApart ==
  /\ VersionTable \notin Objects
  /\ \A r \in Revisions : Version(r) \notin Objects
  /\ \A r \in Revisions : Version(r) # VersionTable
  /\ \A q, r \in Revisions : Version(q) = Version(r) => q = r
<1>1. \A r \in Revisions : Version(r) # VersionTable
  BY DEF Version, VersionTable
<1>2. \A q, r \in Revisions : Version(q) = Version(r) => q = r
  BY DEF Version
<1>3. ASSUME NEW o \in Made(Upgrade0002) PROVE o[1] # "version" /\ o # VersionTable
  <2>1. \A k \in 1..16 : Names0002[k] # "alembic_version"
    BY DEF Names0002
  <2>2. QED BY <1>3, <2>1, ObjectsOf0002 DEF VersionTable, AuditFunction, AuditTrigger
<1>4. ASSUME NEW o \in Additions PROVE o[1] \notin {"version", "table"}
  BY <1>4, AdditionsAreNoTables
<1>5. \A r \in Revisions : Version(r)[1] = "version"
  BY DEF Version
<1>6. VersionTable[1] = "table"
  BY DEF VersionTable
<1>7. QED BY <1>1, <1>2, <1>3, <1>4, <1>5, <1>6, MadeBy0003 DEF Objects

-----------------------------------------------------------------------------
(* What the downgrades drop. *)

TypeNames ==
  {"account_status", "account_type", "algorithm_family", "analyst_action_type",
   "audit_event_type", "contribution_category", "cyber_event_type", "data_sensitivity",
   "device_posture", "device_type", "event_severity", "incident_status",
   "migration_status", "quantum_priority", "recommended_action", "risk_level",
   "risk_segment", "scenario_key", "scenario_run_status", "session_status", "severity",
   "transaction_channel_code", "transaction_status", "user_role"}

\* Every type of a table is among those that the downgrade drops.
LEMMA TypesAreDropped ==
  /\ Len(ENUM_TYPE_NAMES) = 24
  /\ \A k \in 1..16 : \A n \in Tables0002[k].types : \E j \in 1..24 : n = ENUM_TYPE_NAMES[j]
<1>1. Len(ENUM_TYPE_NAMES) = 24 /\ \A n \in TypeNames : \E j \in 1..24 : n = ENUM_TYPE_NAMES[j]
  BY DEF ENUM_TYPE_NAMES, TypeNames
<1>2. /\ crypto_assets.types \subseteq TypeNames
      /\ customers.types \subseteq TypeNames
      /\ users.types \subseteq TypeNames
      /\ accounts.types \subseteq TypeNames
      /\ audit_events.types \subseteq TypeNames
      /\ behavioural_baselines.types \subseteq TypeNames
      /\ beneficiaries.types \subseteq TypeNames
      /\ devices.types \subseteq TypeNames
      /\ transaction_channels.types \subseteq TypeNames
      /\ sessions.types \subseteq TypeNames
      /\ cyber_events.types \subseteq TypeNames
      /\ transactions.types \subseteq TypeNames
      /\ incidents.types \subseteq TypeNames
      /\ analyst_actions.types \subseteq TypeNames
      /\ risk_contributions.types \subseteq TypeNames
      /\ scenario_runs.types \subseteq TypeNames
  BY DEF crypto_assets, customers, users, accounts, audit_events,
         behavioural_baselines, beneficiaries, devices, transaction_channels, sessions,
         cyber_events, transactions, incidents, analyst_actions, risk_contributions,
         scenario_runs, TypeNames
<1>3. \A k \in 1..16 : Tables0002[k].types \subseteq TypeNames
  BY <1>2 DEF Tables0002
<1>4. QED BY <1>1, <1>3

LEMMA DroppedObjects ==
  /\ Len(DroppedTables0002) = 29
  /\ \A k \in 1..29 : DroppedTables0002[k] \in Creations
  /\ \A o \in Creations : \E k \in 1..29 : o = DroppedTables0002[k]
<1>1. Len(DroppedTables0002) = 29
  BY DEF DroppedTables0002
<1>2. \A k \in 1..29 : DroppedTables0002[k] \in Creations
  BY DEF DroppedTables0002, Creations, Names0002, Indexes0002, Table, Index
<1>3. \A o \in Creations : \E k \in 1..29 : o = DroppedTables0002[k]
  BY DEF DroppedTables0002, Creations, Names0002, Indexes0002, Table, Index
<1>4. QED BY <1>1, <1>2, <1>3

\* The statements of the downgrade of 0002: on objects first, then on types.
LEMMA StatementsOfDowngrade0002 ==
  /\ Len(Dropped0002) = 53 /\ Len(Downgrade0002) = 53
  /\ \A k \in 1..29 : Downgrade0002[k] = Dropping(DroppedTables0002[k])
  /\ \A j \in 1..24 : Downgrade0002[29 + j] = DropType(ENUM_TYPE_NAMES[j])
<1> DEFINE types == [k \in 1..Len(ENUM_TYPE_NAMES) |-> <<"type", ENUM_TYPE_NAMES[k]>>]
<1>1. Len(types) = 24 /\ \A j \in 1..24 : types[j] = <<"type", ENUM_TYPE_NAMES[j]>>
  BY TypesAreDropped
<1>2. PICK S : types \in Seq(S) /\ DroppedTables0002 \in Seq(S)
  <2> DEFINE S == {types[j] : j \in 1..24} \union {DroppedTables0002[k] : k \in 1..29}
  <2>1. types \in Seq(S)
    BY TypesAreDropped
  <2>2. DroppedTables0002 \in Seq(S)
    <3>1. DroppedTables0002 = [k \in 1..29 |-> DroppedTables0002[k]]
      BY DEF DroppedTables0002
    <3>2. QED BY <3>1
  <2>3. QED BY <2>1, <2>2
<1>3. Dropped0002 = DroppedTables0002 \o types
  BY DEF Dropped0002
<1> HIDE DEF types
<1>4. /\ Len(Dropped0002) = 53
      /\ \A k \in 1..29 : Dropped0002[k] = DroppedTables0002[k]
      /\ \A j \in 1..24 : Dropped0002[29 + j] = <<"type", ENUM_TYPE_NAMES[j]>>
  <2>1. /\ Len(Dropped0002) = 29 + 24
        /\ \A k \in 1..(29 + 24) :
             Dropped0002[k] = IF k <= 29 THEN DroppedTables0002[k] ELSE types[k - 29]
    <3>1. Len(types) = 24 /\ Len(DroppedTables0002) = 29
      BY <1>1, DroppedObjects
    <3>2. /\ Len(DroppedTables0002 \o types) = Len(DroppedTables0002) + Len(types)
          /\ \A k \in 1..(Len(DroppedTables0002) + Len(types)) :
               (DroppedTables0002 \o types)[k] =
                 IF k <= Len(DroppedTables0002) THEN DroppedTables0002[k]
                 ELSE types[k - Len(DroppedTables0002)]
      BY <1>2, ConcatProperties
    <3>3. QED BY <1>3, <3>1, <3>2
  <2>2. \A k \in 1..29 : k \in 1..(29 + 24) /\ k <= 29
    OBVIOUS
  <2>3. \A j \in 1..24 : 29 + j \in 1..(29 + 24) /\ ~ (29 + j <= 29) /\ (29 + j) - 29 = j
    OBVIOUS
  <2>4. \A j \in 1..24 : Dropped0002[29 + j] = types[j]
    BY <2>1, <2>3
  <2>5. QED BY <1>1, <2>1, <2>2, <2>4
<1>5. /\ Len(Downgrade0002) = 53
      /\ \A k \in 1..53 : Downgrade0002[k] = Dropping(Dropped0002[k])
  BY <1>4 DEF Downgrade0002
<1>6. \A n : Dropping(<<"type", n>>) = DropType(n)
  BY DEF Dropping
<1>7. \A k \in 1..29 : Downgrade0002[k] = Dropping(DroppedTables0002[k])
  BY <1>4, <1>5
<1>8. ASSUME NEW j \in 1..24 PROVE Downgrade0002[29 + j] = DropType(ENUM_TYPE_NAMES[j])
  <2>1. 29 + j \in 1..53
    OBVIOUS
  <2>2. Downgrade0002[29 + j] = Dropping(Dropped0002[29 + j])
    BY <1>5, <2>1
  <2>3. Dropped0002[29 + j] = <<"type", ENUM_TYPE_NAMES[j]>>
    BY <1>4
  <2>4. QED BY <1>6, <2>2, <2>3
<1>9. QED BY <1>4, <1>5, <1>7, <1>8

\* What each of them drops; none makes anything.
LEMMA DroppingDrops ==
  /\ \A k \in 1..16 : Dropping(Table(Names0002[k])) = DropTable(Names0002[k])
  /\ \A x \in Indexes0002 : Dropping(Index(x[1], x[2])) = Drop(Index(x[1], x[2]))
  /\ Dropping(AuditFunction) = DropFunction
  /\ Dropping(AuditTrigger) = DropTrigger
BY DEF Dropping, Table, Index, AuditFunction, AuditTrigger

LEMMA DroppedBy0002 ==
  /\ \A k \in 1..Len(Downgrade0002) : Downgrade0002[k].makes = {}
  /\ Made(Upgrade0002) \subseteq Dropped(Downgrade0002)
  /\ \A o \in Dropped(Downgrade0002) : o \in Objects \/ o[1] = "type"
<1> DEFINE dropped == UNION {Downgrade0002[k].drops : k \in 1..Len(Downgrade0002)}
<1>1. /\ \A n : DropTable(n).makes = {}
                /\ DropTable(n).drops = {o \in Objects : o[1] # "type" /\ o[2] = n}
      /\ \A n : DropType(n).makes = {} /\ DropType(n).drops = {<<"type", n>>}
      /\ \A o : Drop(o).makes = {} /\ Drop(o).drops = {o}
      /\ DropFunction.makes = {} /\ DropFunction.drops = {AuditFunction}
      /\ DropTrigger.makes = {} /\ DropTrigger.drops = {AuditTrigger}
  BY DEF DropTable, DropType, Drop, DropFunction, DropTrigger
<1>2. Made(Upgrade0002) \subseteq Objects
  BY DEF Objects
<1>3. IndexParts \subseteq Objects /\ AuditFunction \in Objects /\ AuditTrigger \in Objects
  BY <1>2, MadeBy0002
<1>4. ASSUME NEW c \in Creations
      PROVE  Dropping(c).makes = {} /\ Dropping(c).drops \subseteq Objects
  <2>1. CASE \E k \in 1..16 : c = Table(Names0002[k])
    BY <1>1, <2>1, DroppingDrops
  <2>2. CASE \E x \in Indexes0002 : c = Index(x[1], x[2])
    BY <1>1, <1>3, <2>2, DroppingDrops DEF IndexParts
  <2>3. CASE c \in {AuditFunction, AuditTrigger}
    BY <1>1, <1>3, <2>3, DroppingDrops
  <2>4. QED BY <2>1, <2>2, <2>3 DEF Creations
<1>5. ASSUME NEW k \in 1..53
      PROVE  /\ Downgrade0002[k].makes = {}
             /\ \A o \in Downgrade0002[k].drops : o \in Objects \/ o[1] = "type"
  <2>1. CASE k \in 1..29
    BY <1>4, <2>1, StatementsOfDowngrade0002, DroppedObjects
  <2>2. CASE k \notin 1..29
    <3>1. k - 29 \in 1..24 /\ k = 29 + (k - 29)
      BY <2>2
    <3>2. Downgrade0002[k] = DropType(ENUM_TYPE_NAMES[k - 29])
      BY <3>1, StatementsOfDowngrade0002
    <3>3. \A n : <<"type", n>>[1] = "type"
      OBVIOUS
    <3>4. QED BY <1>1, <3>2, <3>3
  <2>3. QED BY <2>1, <2>2
<1>6. \A c \in Creations : Dropping(c).drops \subseteq dropped
  <2>1. SUFFICES ASSUME NEW c \in Creations PROVE Dropping(c).drops \subseteq dropped
    OBVIOUS
  <2>2. PICK k \in 1..29 : c = DroppedTables0002[k]
    BY DroppedObjects
  <2>3. k \in 1..Len(Downgrade0002) /\ Downgrade0002[k] = Dropping(c)
    BY <2>2, StatementsOfDowngrade0002
  <2>4. QED BY <2>3
<1>7. \A j \in 1..24 : <<"type", ENUM_TYPE_NAMES[j]>> \in dropped
  <2>1. SUFFICES ASSUME NEW j \in 1..24 PROVE <<"type", ENUM_TYPE_NAMES[j]>> \in dropped
    OBVIOUS
  <2>2. 29 + j \in 1..Len(Downgrade0002) /\ Downgrade0002[29 + j] = DropType(ENUM_TYPE_NAMES[j])
    BY StatementsOfDowngrade0002
  <2>3. QED BY <1>1, <2>2
<1> HIDE DEF dropped
<1>8. ASSUME NEW k \in 1..16, NEW o \in Objects, o[1] # "type", o[2] = Names0002[k]
      PROVE  o \in dropped
  <2>1. Table(Names0002[k]) \in Creations
    BY DEF Creations
  <2>2. o \in DropTable(Names0002[k]).drops
    BY <1>1, <1>8
  <2>3. QED BY <1>6, <2>1, <2>2, DroppingDrops
<1>9. ASSUME NEW o \in Made(Upgrade0002) PROVE o \in dropped
  <2>1. CASE o \in TableParts
    <3>1. PICK k \in 1..16 : o \in TableObjects(Tables0002[k])
      BY <2>1 DEF TableParts
    <3>2. o[1] # "type" /\ o[2] = Tables0002[k].table
      BY <3>1 DEF TableObjects
    <3>3. QED BY <1>2, <1>8, <1>9, <3>2, TablesByName
  <2>2. CASE o \in TypeParts
    BY <1>7, <2>2, TypesAreDropped DEF TypeParts
  <2>3. CASE o \in IndexParts
    <3>1. PICK x \in Indexes0002 : o = Index(x[1], x[2])
      BY <2>3 DEF IndexParts
    <3>2. o \in Creations /\ o \in Dropping(o).drops
      BY <1>1, <3>1, DroppingDrops DEF Creations
    <3>3. QED BY <1>6, <3>2
  <2>4. CASE o \in {AuditFunction, AuditTrigger}
    <3>1. o \in Creations /\ o \in Dropping(o).drops
      BY <1>1, <2>4, DroppingDrops DEF Creations
    <3>2. QED BY <1>6, <3>1
  <2>5. QED BY <2>1, <2>2, <2>3, <2>4, MadeBy0002
<1>10. Len(Downgrade0002) = 53
  BY StatementsOfDowngrade0002
<1>11. \A o \in dropped : o \in Objects \/ o[1] = "type"
  BY <1>5, <1>10 DEF dropped
<1>12. dropped = Dropped(Downgrade0002)
  BY DEF dropped, Dropped
<1>13. QED BY <1>5, <1>9, <1>10, <1>11, <1>12

-----------------------------------------------------------------------------
(* No statement of an upgrade comes too early or twice. *)

\* Where 0002 creates its tables, and what tells its creations apart.
Places0002 == <<1, 2, 3, 4, 5, 10, 12, 13, 14, 15, 16, 18, 20, 26, 28, 29>>

LabelOf(c) ==
  CASE c[1] = "table" -> c[2] [] c[1] = "index" -> c[3] [] OTHER -> c[1]

Labels0002 ==
  <<"crypto_assets", "customers", "users", "accounts", "audit_events", "entity_created_at",
    "request_id", "function", "trigger", "behavioural_baselines", "customer_id",
    "beneficiaries", "devices", "transaction_channels", "sessions", "cyber_events",
    "session_event_time", "transactions", "account_created_at", "incidents",
    "customer_created_at", "severity_created_at", "status_created_at", "transaction",
    "scenario_key", "analyst_actions", "incident_created_at", "risk_contributions",
    "scenario_runs">>

LEMMA CreationsDiffer ==
  \A j, k \in 1..29 : Created0002[j] = Created0002[k] => j = k
<1>1. \A k \in 1..29 : LabelOf(Created0002[k]) = Labels0002[k]
  BY DEF Created0002, LabelOf, Labels0002, Table, Index, AuditFunction, AuditTrigger
<1>2. \A j, k \in 1..29 : Labels0002[j] = Labels0002[k] => j = k
  BY DEF Labels0002
<1>3. QED BY <1>1, <1>2

\* The tables are created in the order of their list.
LEMMA TablePlaces ==
  /\ \A i \in 1..16 : /\ Places0002[i] \in 1..29
                      /\ Created0002[Places0002[i]] = Table(Names0002[i])
  /\ \A h, i \in 1..16 : h < i => Places0002[h] < Places0002[i]
<1>1. \A i \in 1..16 : Places0002[i] \in 1..29
  BY DEF Places0002
<1>2. \A i \in 1..16 : Created0002[Places0002[i]] = Table(Names0002[i])
  BY DEF Places0002, Created0002, Names0002
<1>3. \A h, i \in 1..16 : h < i => Places0002[h] < Places0002[i]
  BY DEF Places0002
<1>4. QED BY <1>1, <1>2, <1>3

\* The tables that each one refers to, by their places.
ReferredTo ==
  <<{}, {}, {}, {2}, {3}, {2}, {2}, {2}, {1}, {4, 8}, {10}, {7, 9, 10}, {12}, {3, 13}, {11, 13}, {13}>>

LEMMA RefersTo ==
  ASSUME NEW i \in 1..16, NEW r \in Tables0002[i].refs
  PROVE  \E h \in ReferredTo[i] : r[2] = Names0002[h]
<1>1. /\ Tables0002[1] = crypto_assets
      /\ Tables0002[2] = customers
      /\ Tables0002[3] = users
      /\ Tables0002[4] = accounts
      /\ Tables0002[5] = audit_events
      /\ Tables0002[6] = behavioural_baselines
      /\ Tables0002[7] = beneficiaries
      /\ Tables0002[8] = devices
      /\ Tables0002[9] = transaction_channels
      /\ Tables0002[10] = sessions
      /\ Tables0002[11] = cyber_events
      /\ Tables0002[12] = transactions
      /\ Tables0002[13] = incidents
      /\ Tables0002[14] = analyst_actions
      /\ Tables0002[15] = risk_contributions
      /\ Tables0002[16] = scenario_runs
  BY DEF Tables0002
<1>2. /\ Names0002[1] = "crypto_assets"
      /\ Names0002[2] = "customers"
      /\ Names0002[3] = "users"
      /\ Names0002[4] = "accounts"
      /\ Names0002[5] = "audit_events"
      /\ Names0002[6] = "behavioural_baselines"
      /\ Names0002[7] = "beneficiaries"
      /\ Names0002[8] = "devices"
      /\ Names0002[9] = "transaction_channels"
      /\ Names0002[10] = "sessions"
      /\ Names0002[11] = "cyber_events"
      /\ Names0002[12] = "transactions"
      /\ Names0002[13] = "incidents"
      /\ Names0002[14] = "analyst_actions"
      /\ Names0002[15] = "risk_contributions"
      /\ Names0002[16] = "scenario_runs"
  BY DEF Names0002
<1>3. i \in {1, 2, 3} => Tables0002[i].refs = {}
  BY <1>1 DEF crypto_assets, customers, users
<1>4. CASE i = 4
  <2>1. r = <<"customer_id", "customers", "CASCADE">>
    BY <1>1, <1>4 DEF accounts
  <2>2. r[2] = "customers"
    BY <2>1
  <2>3. 2 \in ReferredTo[i]
    BY <1>4 DEF ReferredTo
  <2>4. QED BY <1>2, <2>2, <2>3
<1>5. CASE i = 5
  <2>1. r = <<"actor_user_id", "users", "RESTRICT">>
    BY <1>1, <1>5 DEF audit_events
  <2>2. r[2] = "users"
    BY <2>1
  <2>3. 3 \in ReferredTo[i]
    BY <1>5 DEF ReferredTo
  <2>4. QED BY <1>2, <2>2, <2>3
<1>6. CASE i = 6
  <2>1. r = <<"customer_id", "customers", "CASCADE">>
    BY <1>1, <1>6 DEF behavioural_baselines
  <2>2. r[2] = "customers"
    BY <2>1
  <2>3. 2 \in ReferredTo[i]
    BY <1>6 DEF ReferredTo
  <2>4. QED BY <1>2, <2>2, <2>3
<1>7. CASE i = 7
  <2>1. r = <<"customer_id", "customers", "CASCADE">>
    BY <1>1, <1>7 DEF beneficiaries
  <2>2. r[2] = "customers"
    BY <2>1
  <2>3. 2 \in ReferredTo[i]
    BY <1>7 DEF ReferredTo
  <2>4. QED BY <1>2, <2>2, <2>3
<1>8. CASE i = 8
  <2>1. r = <<"customer_id", "customers", "CASCADE">>
    BY <1>1, <1>8 DEF devices
  <2>2. r[2] = "customers"
    BY <2>1
  <2>3. 2 \in ReferredTo[i]
    BY <1>8 DEF ReferredTo
  <2>4. QED BY <1>2, <2>2, <2>3
<1>9. CASE i = 9
  <2>1. r = <<"crypto_asset_id", "crypto_assets", "RESTRICT">>
    BY <1>1, <1>9 DEF transaction_channels
  <2>2. r[2] = "crypto_assets"
    BY <2>1
  <2>3. 1 \in ReferredTo[i]
    BY <1>9 DEF ReferredTo
  <2>4. QED BY <1>2, <2>2, <2>3
<1>10. CASE i = 10
  <2>1. r = <<"account_customer", "accounts", "CASCADE">> \/ r = <<"device_customer", "devices", "CASCADE">>
    BY <1>1, <1>10 DEF sessions
  <2>2. r[2] = "accounts" \/ r[2] = "devices"
    BY <2>1
  <2>3. 4 \in ReferredTo[i] /\ 8 \in ReferredTo[i]
    BY <1>10 DEF ReferredTo
  <2>4. QED BY <1>2, <2>2, <2>3
<1>11. CASE i = 11
  <2>1. r = <<"session_identity", "sessions", "CASCADE">>
    BY <1>1, <1>11 DEF cyber_events
  <2>2. r[2] = "sessions"
    BY <2>1
  <2>3. 10 \in ReferredTo[i]
    BY <1>11 DEF ReferredTo
  <2>4. QED BY <1>2, <2>2, <2>3
<1>12. CASE i = 12
  <2>1. r = <<"beneficiary_customer", "beneficiaries", "RESTRICT">> \/ r = <<"channel_id", "transaction_channels", "RESTRICT">> \/ r = <<"session_identity", "sessions", "CASCADE">>
    BY <1>1, <1>12 DEF transactions
  <2>2. r[2] = "beneficiaries" \/ r[2] = "transaction_channels" \/ r[2] = "sessions"
    BY <2>1
  <2>3. 7 \in ReferredTo[i] /\ 9 \in ReferredTo[i] /\ 10 \in ReferredTo[i]
    BY <1>12 DEF ReferredTo
  <2>4. QED BY <1>2, <2>2, <2>3
<1>13. CASE i = 13
  <2>1. r = <<"transaction_identity", "transactions", "CASCADE">>
    BY <1>1, <1>13 DEF incidents
  <2>2. r[2] = "transactions"
    BY <2>1
  <2>3. 12 \in ReferredTo[i]
    BY <1>13 DEF ReferredTo
  <2>4. QED BY <1>2, <2>2, <2>3
<1>14. CASE i = 14
  <2>1. r = <<"analyst_id", "users", "RESTRICT">> \/ r = <<"incident_id", "incidents", "CASCADE">>
    BY <1>1, <1>14 DEF analyst_actions
  <2>2. r[2] = "users" \/ r[2] = "incidents"
    BY <2>1
  <2>3. 3 \in ReferredTo[i] /\ 13 \in ReferredTo[i]
    BY <1>14 DEF ReferredTo
  <2>4. QED BY <1>2, <2>2, <2>3
<1>15. CASE i = 15
  <2>1. risk_contributions.refs = {<<"incident_id", "incidents", "CASCADE">>,
                                   <<"source_event_id", "cyber_events", "SET NULL">>}
    BY DEF risk_contributions
  <2>2. r \in risk_contributions.refs
    BY <1>1, <1>15
  <2>3. ASSUME r = <<"incident_id", "incidents", "CASCADE">> PROVE r[2] = "incidents"
    BY <2>3
  <2>4. ASSUME r = <<"source_event_id", "cyber_events", "SET NULL">> PROVE r[2] = "cyber_events"
    BY <2>4
  <2>5. r[2] = "incidents" \/ r[2] = "cyber_events"
    BY <2>1, <2>2, <2>3, <2>4
  <2>6. 11 \in ReferredTo[i] /\ 13 \in ReferredTo[i]
    BY <1>15 DEF ReferredTo
  <2>7. QED BY <1>2, <2>5, <2>6
<1>16. CASE i = 16
  <2>1. scenario_runs.refs = {<<"result_incident_id", "incidents", "SET NULL">>}
    BY DEF scenario_runs
  <2>2. r \in scenario_runs.refs
    BY <1>1, <1>16
  <2>3. ASSUME r = <<"result_incident_id", "incidents", "SET NULL">> PROVE r[2] = "incidents"
    BY <2>3
  <2>4. r[2] = "incidents"
    BY <2>1, <2>2, <2>3
  <2>5. 13 \in ReferredTo[i]
    BY <1>16 DEF ReferredTo
  <2>6. QED BY <1>2, <2>4, <2>5
<1>17. i \in {1, 2, 3} \/ i \in {4, 5, 6, 7, 8, 9, 10, 11, 12, 13, 14, 15, 16}
  OBVIOUS
<1>18. QED BY <1>3, <1>4, <1>5, <1>6, <1>7, <1>8, <1>9, <1>10, <1>11, <1>12, <1>13, <1>14, <1>15, <1>16, <1>17

\* A table refers to tables that come before it in the list.
LEMMA RefersBack ==
  ASSUME NEW i \in 1..16, NEW r \in Tables0002[i].refs
  PROVE  \E h \in 1..(i - 1) : r[2] = Names0002[h]
<1>1. ReferredTo[i] \subseteq 1..(i - 1)
  BY DEF ReferredTo
<1>2. QED BY <1>1, RefersTo

\* What a creation makes: a table with what is its own and the types that no
\* earlier table has, or itself.  It is refused where any of that is there.
LEMMA PartsOfCreation ==
  ASSUME NEW c \in Creations
  PROVE  /\ Creating(c).unless = Creating(c).makes /\ Creating(c).drops = {}
         /\ c \in Creating(c).makes
         /\ \A o \in Creating(c).makes :
              \/ o = c /\ c[1] \in {"index", "function", "trigger"}
              \/ \E k \in 1..16 :
                   /\ c = Table(Names0002[k])
                   /\ \/ o[1] \in {"table", "uses", "fk", "check", "unique"} /\ o[2] = Names0002[k]
                      \/ \E n \in Tables0002[k].types :
                           o = <<"type", n>> /\ \A j \in 1..(k - 1) : n \notin Tables0002[j].types
<1>1. ASSUME NEW k \in 1..16, c = Table(Names0002[k])
      PROVE  /\ Creating(c).unless = Creating(c).makes /\ Creating(c).drops = {}
             /\ Creating(c).makes =
                  TableObjects(Tables0002[k]) \union
                  {<<"type", n>> : n \in Tables0002[k].types
                                           \ UNION {Tables0002[j].types : j \in 1..(k - 1)}}
  <2>1. Creating(c) = CreateTable(Names0002[k])
    BY <1>1, CreationMakes
  <2>2. QED BY <2>1, TableCreation
<1>2. ASSUME NEW k \in 1..16, c = Table(Names0002[k])
      PROVE  /\ c \in TableObjects(Tables0002[k])
             /\ \A o \in TableObjects(Tables0002[k]) :
                  o[1] \in {"table", "uses", "fk", "check", "unique"} /\ o[2] = Names0002[k]
  <2>1. Tables0002[k].table = Names0002[k]
    BY TablesByName
  <2>2. PICK d : d = Tables0002[k]
    OBVIOUS
  <2>3. <<"table", d.table>> \in TableObjects(d)
    BY DEF TableObjects
  <2>4. \A o \in TableObjects(d) :
          o[1] \in {"table", "uses", "fk", "check", "unique"} /\ o[2] = d.table
    BY DEF TableObjects
  <2>5. QED BY <1>2, <2>1, <2>2, <2>3, <2>4 DEF Table
<1>3. ASSUME NEW x \in Indexes0002, c = Index(x[1], x[2])
      PROVE  /\ Creating(c).unless = {c} /\ Creating(c).drops = {} /\ Creating(c).makes = {c}
             /\ c[1] = "index"
  <2>1. Creating(c) = Add(c)
    BY <1>3, CreationMakes
  <2>2. QED BY <1>3, <2>1 DEF Add, Index
<1>4. ASSUME c \in {AuditFunction, AuditTrigger}
      PROVE  /\ Creating(c).unless = {c} /\ Creating(c).drops = {} /\ Creating(c).makes = {c}
             /\ c[1] \in {"function", "trigger"}
  BY <1>4, CreationMakes DEF CreateFunction, CreateTrigger, AuditFunction, AuditTrigger
<1>5. CASE \E k \in 1..16 : c = Table(Names0002[k])
  <2>1. PICK k \in 1..16 : c = Table(Names0002[k])
    BY <1>5
  <2>2. ASSUME NEW o \in Creating(c).makes
        PROVE  \/ o[1] \in {"table", "uses", "fk", "check", "unique"} /\ o[2] = Names0002[k]
               \/ \E n \in Tables0002[k].types :
                    o = <<"type", n>> /\ \A j \in 1..(k - 1) : n \notin Tables0002[j].types
    BY <1>1, <1>2, <2>1, <2>2
  <2>3. QED BY <1>1, <1>2, <2>1, <2>2
<1>6. CASE \E x \in Indexes0002 : c = Index(x[1], x[2])
  BY <1>3, <1>6
<1>7. CASE c \in {AuditFunction, AuditTrigger}
  BY <1>4, <1>7
<1>8. QED BY <1>5, <1>6, <1>7 DEF Creations

\* No two creations make the same.
LEMMA CreationsAreApart ==
  ASSUME NEW c \in Creations, NEW e \in Creations, c # e
  PROVE  Creating(c).makes \intersect Creating(e).makes = {}
<1>1. SUFFICES ASSUME NEW o \in Creating(c).makes, o \in Creating(e).makes PROVE FALSE
  OBVIOUS
<1> DEFINE own(f) == o = f /\ f[1] \in {"index", "function", "trigger"}
           part(k) == o[1] \in {"table", "uses", "fk", "check", "unique"} /\ o[2] = Names0002[k]
           type(k) == \E n \in Tables0002[k].types :
                        o = <<"type", n>> /\ \A j \in 1..(k - 1) : n \notin Tables0002[j].types
<1>2. own(c) \/ \E k \in 1..16 : c = Table(Names0002[k]) /\ (part(k) \/ type(k))
  BY <1>1, PartsOfCreation
<1>3. own(e) \/ \E k \in 1..16 : e = Table(Names0002[k]) /\ (part(k) \/ type(k))
  BY <1>1, PartsOfCreation
<1>4. \A k : type(k) => o[1] = "type"
  OBVIOUS
<1>5. \A k : (part(k) \/ type(k)) => o[1] \notin {"index", "function", "trigger"}
  BY <1>4
<1>6. \A j, k \in 1..16 : part(j) /\ part(k) => j = k
  BY TablesByName
<1>7. \A j, k \in 1..16 : type(j) /\ type(k) => j = k
  <2>1. SUFFICES ASSUME NEW j \in 1..16, NEW k \in 1..16, type(j), type(k) PROVE j = k
    OBVIOUS
  <2>2. PICK n \in Tables0002[j].types :
          o = <<"type", n>> /\ \A h \in 1..(j - 1) : n \notin Tables0002[h].types
    BY <2>1
  <2>3. PICK m \in Tables0002[k].types :
          o = <<"type", m>> /\ \A h \in 1..(k - 1) : m \notin Tables0002[h].types
    BY <2>1
  <2>4. n = m
    BY <2>2, <2>3
  <2>5. ~(j < k) /\ ~(k < j)
    <3>1. j < k => j \in 1..(k - 1)
      OBVIOUS
    <3>2. k < j => k \in 1..(j - 1)
      OBVIOUS
    <3>3. QED BY <2>2, <2>3, <2>4, <3>1, <3>2
  <2>6. QED BY <2>5
<1> HIDE DEF own, type, part
<1>8. \A k : ~(part(k) /\ \E j : type(j))
  BY <1>4 DEF part
<1>9. own(c) => ~own(e)
  BY DEF own
<1>10. \A f : own(f) => o[1] \in {"index", "function", "trigger"}
  BY DEF own
<1>11. QED BY <1>2, <1>3, <1>5, <1>6, <1>7, <1>8, <1>9, <1>10

\* What a creation needs is created before it.
LEMMA NeedsComeFirst ==
  ASSUME NEW k \in 1..29, NEW o \in Creating(Created0002[k]).needs
  PROVE  \E j \in 1..(k - 1) : o = Created0002[j]
<1> DEFINE c == Created0002[k]
<1>1. c \in Creations
  BY CreatedObjects
<1>2. ASSUME NEW i \in 1..16, c = Table(Names0002[i]) PROVE \E j \in 1..(k - 1) : o = Created0002[j]
  <2>1. Creating(c).needs = {<<"table", r[2]>> : r \in Tables0002[i].refs}
    BY <1>2, CreationMakes, TableCreation
  <2>2. PICK r \in Tables0002[i].refs : o = <<"table", r[2]>>
    BY <2>1
  <2>3. PICK h \in 1..(i - 1) : r[2] = Names0002[h]
    BY RefersBack
  <2>4. h \in 1..16 /\ h < i
    OBVIOUS
  <2>5. /\ Places0002[h] \in 1..29 /\ Places0002[i] \in 1..29 /\ Places0002[h] < Places0002[i]
        /\ Created0002[Places0002[h]] = Table(Names0002[h])
        /\ Created0002[Places0002[i]] = Table(Names0002[i])
    BY <2>4, TablePlaces
  <2>6. Places0002[i] = k
    BY <1>2, <2>5, CreationsDiffer
  <2>7. Places0002[h] \in 1..(k - 1) /\ o = Created0002[Places0002[h]]
    BY <2>2, <2>3, <2>5, <2>6 DEF Table
  <2>8. QED BY <2>7
<1>3. ASSUME NEW x \in Indexes0002, c = Index(x[1], x[2]) PROVE \E j \in 1..(k - 1) : o = Created0002[j]
  <2>1. c[1] = "index" /\ o = Table(c[2])
    <3>1. Creating(c) = Add(c)
      BY <1>3, CreationMakes
    <3>2. Add(c).needs = {<<"table", c[2]>>}
      BY DEF Add
    <3>3. c[1] = "index"
      BY <1>3 DEF Index
    <3> HIDE DEF c
    <3>4. o \in Creating(c).needs
      BY DEF c
    <3>5. QED BY <3>1, <3>2, <3>3, <3>4 DEF Table
  <2>2. k \in {6, 7, 11, 17, 19, 21, 22, 23, 24, 25, 27}
    <3>1. \A j \in 1..29 : j \notin {6, 7, 11, 17, 19, 21, 22, 23, 24, 25, 27} => Created0002[j][1] # "index"
      BY DEF Created0002, Table, Index, AuditFunction, AuditTrigger
    <3>2. QED BY <2>1, <3>1
  <2>3. /\ k \in {6, 7} => c[2] = "audit_events"
        /\ k = 11 => c[2] = "behavioural_baselines"
        /\ k = 17 => c[2] = "cyber_events"
        /\ k = 19 => c[2] = "transactions"
        /\ k \in {21, 22, 23, 24, 25} => c[2] = "incidents"
        /\ k = 27 => c[2] = "analyst_actions"
    BY DEF Created0002, Index
  <2>4. /\ Created0002[5] = Table("audit_events") /\ Created0002[10] = Table("behavioural_baselines")
        /\ Created0002[16] = Table("cyber_events") /\ Created0002[18] = Table("transactions")
        /\ Created0002[20] = Table("incidents") /\ Created0002[26] = Table("analyst_actions")
    BY DEF Created0002
  <2> HIDE DEF c
  <2>5. CASE k \in {6, 7}
    <3>1. 5 \in 1..(k - 1)
      BY <2>5
    <3>2. QED BY <2>1, <2>3, <2>4, <2>5, <3>1
  <2>6. CASE k = 11
    <3>1. 10 \in 1..(k - 1)
      BY <2>6
    <3>2. QED BY <2>1, <2>3, <2>4, <2>6, <3>1
  <2>7. CASE k = 17
    <3>1. 16 \in 1..(k - 1)
      BY <2>7
    <3>2. QED BY <2>1, <2>3, <2>4, <2>7, <3>1
  <2>8. CASE k = 19
    <3>1. 18 \in 1..(k - 1)
      BY <2>8
    <3>2. QED BY <2>1, <2>3, <2>4, <2>8, <3>1
  <2>9. CASE k \in {21, 22, 23, 24, 25}
    <3>1. 20 \in 1..(k - 1)
      BY <2>9
    <3>2. QED BY <2>1, <2>3, <2>4, <2>9, <3>1
  <2>10. CASE k = 27
    <3>1. 26 \in 1..(k - 1)
      BY <2>10
    <3>2. QED BY <2>1, <2>3, <2>4, <2>10, <3>1
  <2>11. QED BY <2>2, <2>5, <2>6, <2>7, <2>8, <2>9, <2>10
<1>4. CASE c = AuditFunction
  BY <1>4, CreationMakes DEF CreateFunction
<1>5. CASE c = AuditTrigger
  <2>1. Created0002[9] = AuditTrigger /\ Created0002[8] = AuditFunction
        /\ Created0002[5] = Table("audit_events")
    BY DEF Created0002
  <2>2. k = 9
    BY <1>5, <2>1, CreationsDiffer
  <2>3. o \in {AuditFunction, Table("audit_events")}
    BY <1>5, CreationMakes DEF CreateTrigger, Table
  <2>4. 8 \in 1..(k - 1) /\ 5 \in 1..(k - 1)
    BY <2>2
  <2>5. QED BY <2>1, <2>3, <2>4
<1>6. QED BY <1>1, <1>2, <1>3, <1>4, <1>5 DEF Creations

\* Run on what has nothing of it, 0002 goes through.
LEMMA Upgrade0002Leads ==
  ASSUME NEW view, view \intersect Made(Upgrade0002) = {}
  PROVE  Leads(view, Upgrade0002, view \union Made(Upgrade0002))
<1>1. Len(Upgrade0002) = 29 /\ \A k \in 1..29 : Upgrade0002[k] = Creating(Created0002[k])
  BY CreatedObjects DEF Upgrade0002
<1>2. \A k \in 1..29 : Created0002[k] \in Creations
  BY CreatedObjects
<1>3. \A k \in 1..29 : Upgrade0002[k].makes \subseteq Made(Upgrade0002)
  BY <1>1 DEF Made
<1>4. ASSUME NEW k \in 1..29
      PROVE  /\ Upgrade0002[k].drops = {}
             /\ Upgrade0002[k].needs \subseteq view \union MadeBefore(Upgrade0002, k)
             /\ Upgrade0002[k].unless \intersect (view \union MadeBefore(Upgrade0002, k)) = {}
  <2> DEFINE s == Upgrade0002[k]
  <2>1. s.unless = s.makes /\ s.drops = {}
    <3>1. s = Creating(Created0002[k]) /\ Created0002[k] \in Creations
      BY <1>1, <1>2
    <3>2. \A c \in Creations : Creating(c).unless = Creating(c).makes /\ Creating(c).drops = {}
      BY PartsOfCreation
    <3> HIDE DEF s
    <3>3. QED BY <3>1, <3>2
  <2>2. ASSUME NEW o \in s.needs PROVE o \in MadeBefore(Upgrade0002, k)
    <3>1. PICK j \in 1..(k - 1) : o = Created0002[j]
      BY <1>1, <2>2, NeedsComeFirst, SMTT(40)
    <3>2. j \in 1..29
      OBVIOUS
    <3>3. o \in Upgrade0002[j].makes
      BY <1>1, <1>2, <3>1, <3>2, PartsOfCreation
    <3>4. QED BY <3>3 DEF MadeBefore
  <2>3. ASSUME NEW j \in 1..(k - 1) PROVE s.makes \intersect Upgrade0002[j].makes = {}
    <3>1. j \in 1..29 /\ j # k
      OBVIOUS
    <3>2. Created0002[j] # Created0002[k]
      BY <3>1, CreationsDiffer
    <3>3. QED BY <1>1, <1>2, <3>1, <3>2, CreationsAreApart
  <2>4. s.makes \intersect view = {}
    BY <1>3
  <2>5. s.makes \intersect MadeBefore(Upgrade0002, k) = {}
    BY <2>3 DEF MadeBefore
  <2> HIDE DEF s
  <2>6. s.drops = {} /\ s.needs \subseteq view \union MadeBefore(Upgrade0002, k)
        /\ s.unless \intersect (view \union MadeBefore(Upgrade0002, k)) = {}
    BY <2>1, <2>2, <2>4, <2>5
  <2>7. QED BY <2>6 DEF s
<1>5. Len(Upgrade0002) \in Nat
  BY <1>1
<1>6. QED BY <1>1, <1>4, <1>5, MakingLeads

\* What tells the additions of 0003 apart; the tables they are made to.
Labels0003 ==
  <<"known_device_ids", "known_beneficiary_ids", "usual_destination_risks",
    "typical_transaction_velocity_30m", "velocity_30m_nonnegative", "customer",
    "raw_fused_score", "summary", "signal_narrative", "decision_explanation",
    "action_explanation", "engine_version", "model_version", "raw_fused_score_range",
    "source_transaction_id", "source_baseline_id", "transactions", "behavioural_baselines">>

LEMMA AdditionsDiffer ==
  /\ \A j, k \in 1..18 : Additions0003[j] = Additions0003[k] => j = k
  /\ \A k \in 1..18 : \E i \in 1..16 : Additions0003[k][2] = Names0002[i]
<1>1. /\ \A k \in {1, 2, 3, 4, 7, 8, 9, 10, 11, 12, 13, 15, 16} : Additions0003[k][1] = "column"
      /\ \A k \in {5, 14} : Additions0003[k][1] = "check"
      /\ Additions0003[6][1] = "unique" /\ \A k \in {17, 18} : Additions0003[k][1] = "fk"
  BY DEF Additions0003
<1>2. /\ Additions0003[1][3] = Labels0003[1] /\ Additions0003[2][3] = Labels0003[2]
      /\ Additions0003[3][3] = Labels0003[3] /\ Additions0003[4][3] = Labels0003[4]
      /\ Additions0003[5][3] = Labels0003[5] /\ Additions0003[6][3] = Labels0003[6]
      /\ Additions0003[7][3] = Labels0003[7] /\ Additions0003[8][3] = Labels0003[8]
      /\ Additions0003[9][3] = Labels0003[9] /\ Additions0003[10][3] = Labels0003[10]
      /\ Additions0003[11][3] = Labels0003[11] /\ Additions0003[12][3] = Labels0003[12]
      /\ Additions0003[13][3] = Labels0003[13] /\ Additions0003[14][3] = Labels0003[14]
      /\ Additions0003[15][3] = Labels0003[15] /\ Additions0003[16][3] = Labels0003[16]
  BY DEF Additions0003, Labels0003
<1>3. Additions0003[17][4] = Labels0003[17] /\ Additions0003[18][4] = Labels0003[18]
  BY DEF Additions0003, Labels0003
<1>4. \A j, k \in 1..18 : Labels0003[j] = Labels0003[k] => j = k
  BY DEF Labels0003
<1> DEFINE label(o) == IF o[1] = "fk" THEN o[4] ELSE o[3]
<1>5. \A k \in 1..18 : Additions0003[k][1] = "fk" <=> k \in {17, 18}
  BY <1>1
<1>6. \A k \in 1..16 : Additions0003[k][3] = Labels0003[k]
  BY <1>2
<1>7. \A k \in 1..18 : label(Additions0003[k]) = Labels0003[k]
  BY <1>3, <1>5, <1>6
<1>8. \A j, k \in 1..18 : Additions0003[j] = Additions0003[k] => j = k
  BY <1>4, <1>7, SMTT(40)
<1>9. /\ \A k \in 1..6 : Additions0003[k][2] = "behavioural_baselines"
      /\ \A k \in 7..14 : Additions0003[k][2] = "incidents"
      /\ \A k \in 15..18 : Additions0003[k][2] = "risk_contributions"
  <2>1. /\ Additions0003[1][2] = "behavioural_baselines" /\ Additions0003[2][2] = "behavioural_baselines"
        /\ Additions0003[3][2] = "behavioural_baselines" /\ Additions0003[4][2] = "behavioural_baselines"
        /\ Additions0003[5][2] = "behavioural_baselines" /\ Additions0003[6][2] = "behavioural_baselines"
    BY DEF Additions0003
  <2>2. /\ Additions0003[7][2] = "incidents" /\ Additions0003[8][2] = "incidents"
        /\ Additions0003[9][2] = "incidents" /\ Additions0003[10][2] = "incidents"
        /\ Additions0003[11][2] = "incidents" /\ Additions0003[12][2] = "incidents"
        /\ Additions0003[13][2] = "incidents" /\ Additions0003[14][2] = "incidents"
    BY DEF Additions0003
  <2>3. /\ Additions0003[15][2] = "risk_contributions" /\ Additions0003[16][2] = "risk_contributions"
        /\ Additions0003[17][2] = "risk_contributions" /\ Additions0003[18][2] = "risk_contributions"
    BY DEF Additions0003
  <2>4. QED BY <2>1, <2>2, <2>3
<1>10. Names0002[6] = "behavioural_baselines" /\ Names0002[13] = "incidents"
       /\ Names0002[15] = "risk_contributions"
  BY DEF Names0002
<1>11. \A k \in 1..18 : k \in 1..6 \/ k \in 7..14 \/ k \in 15..18
  OBVIOUS
<1>12. \A k \in 1..18 : \E i \in 1..16 : Additions0003[k][2] = Names0002[i]
  BY <1>9, <1>10, <1>11
<1>13. QED BY <1>8, <1>12

\* Every table is made by 0002.
LEMMA TablesAreMade == \A i \in 1..16 : <<"table", Names0002[i]>> \in Made(Upgrade0002)
<1>1. ASSUME NEW i \in 1..16 PROVE <<"table", Names0002[i]>> \in Made(Upgrade0002)
  <2>1. PICK d : d = Tables0002[i]
    OBVIOUS
  <2>2. <<"table", d.table>> \in TableObjects(d)
    BY DEF TableObjects
  <2>3. QED BY <2>1, <2>2, TablesByName, MadeBy0002 DEF TableParts
<1>2. QED BY <1>1

\* On the tables of 0002 and without its own additions, 0003 goes through.
LEMMA Upgrade0003Leads ==
  ASSUME NEW view, Made(Upgrade0002) \subseteq view, view \intersect Additions = {}
  PROVE  Leads(view, Upgrade0003, view \union Additions)
<1>1. /\ Len(Upgrade0003) = 18 /\ \A k \in 1..18 : Upgrade0003[k] = Add(Additions0003[k])
      /\ Made(Upgrade0003) = Additions
  BY MadeBy0003 DEF Upgrade0003
<1>2. \A o : Add(o).needs = {<<"table", o[2]>>} /\ Add(o).unless = {o} /\ Add(o).drops = {} /\ Add(o).makes = {o}
  BY DEF Add
<1>3. ASSUME NEW k \in 1..18
      PROVE  /\ Upgrade0003[k].drops = {}
             /\ Upgrade0003[k].needs \subseteq view \union MadeBefore(Upgrade0003, k)
             /\ Upgrade0003[k].unless \intersect (view \union MadeBefore(Upgrade0003, k)) = {}
  <2>1. <<"table", Additions0003[k][2]>> \in view
    BY AdditionsDiffer, TablesAreMade
  <2>2. Additions0003[k] \notin view
    BY DEF Additions
  <2>3. ASSUME NEW j \in 1..(k - 1) PROVE Additions0003[k] \notin Upgrade0003[j].makes
    <3>1. j \in 1..18 /\ j # k
      OBVIOUS
    <3>2. Upgrade0003[j].makes = {Additions0003[j]}
      BY <1>1, <1>2, <3>1
    <3>3. QED BY <3>1, <3>2, AdditionsDiffer
  <2>4. Additions0003[k] \notin MadeBefore(Upgrade0003, k)
    BY <2>3 DEF MadeBefore
  <2>5. /\ Upgrade0003[k].drops = {} /\ Upgrade0003[k].needs = {<<"table", Additions0003[k][2]>>}
        /\ Upgrade0003[k].unless = {Additions0003[k]}
    BY <1>1, <1>2
  <2>6. QED BY <2>1, <2>2, <2>4, <2>5
<1>4. Len(Upgrade0003) \in Nat
  BY <1>1
<1>5. Leads(view, Upgrade0003, view \union Made(Upgrade0003))
  BY <1>1, <1>3, <1>4, MakingLeads
<1>6. QED BY <1>1, <1>5

-----------------------------------------------------------------------------
(* No statement of a downgrade comes too early, too late or twice. *)

LEMMA Downgrade0003Drops ==
  /\ Len(Downgrade0003) = 18
  /\ \A k \in 1..18 : Downgrade0003[k] = Drop(Additions0003[19 - k])
  /\ Dropped(Downgrade0003) = Additions
<1>1. Len(Downgrade0003) = 18 /\ \A k \in 1..18 : Downgrade0003[k] = Drop(Additions0003[19 - k])
  BY MadeBy0003 DEF Downgrade0003
<1>2. \A o : Drop(o).drops = {o}
  BY DEF Drop
<1>3. ASSUME NEW o \in Additions PROVE o \in Dropped(Downgrade0003)
  <2>1. PICK k \in 1..18 : o = Additions0003[k]
    BY DEF Additions
  <2>2. 19 - k \in 1..18 /\ 19 - (19 - k) = k
    OBVIOUS
  <2>3. o \in Downgrade0003[19 - k].drops
    BY <1>1, <1>2, <2>1, <2>2
  <2>4. QED BY <1>1, <2>2, <2>3 DEF Dropped
<1>4. ASSUME NEW k \in 1..18 PROVE Downgrade0003[k].drops \subseteq Additions
  <2>1. 19 - k \in 1..18
    OBVIOUS
  <2>2. QED BY <1>1, <1>2, <2>1 DEF Additions
<1>5. QED BY <1>1, <1>3, <1>4 DEF Dropped

\* Where there is what 0003 added, it can be taken back.
LEMMA Downgrade0003Leads ==
  ASSUME NEW view, Additions \subseteq view
  PROVE  Leads(view, Downgrade0003, view \ Additions)
<1>1. /\ Len(Downgrade0003) = 18 /\ \A k \in 1..18 : Downgrade0003[k] = Drop(Additions0003[19 - k])
      /\ Dropped(Downgrade0003) = Additions
  BY Downgrade0003Drops
<1>2. \A o : Drop(o).needs = {o} /\ Drop(o).unless = {} /\ Drop(o).drops = {o} /\ Drop(o).makes = {}
  BY DEF Drop
<1>3. ASSUME NEW k \in 1..18
      PROVE  /\ Downgrade0003[k].makes = {}
             /\ Downgrade0003[k].needs \subseteq view \ DroppedBefore(Downgrade0003, k)
             /\ Downgrade0003[k].unless \intersect (view \ DroppedBefore(Downgrade0003, k)) = {}
  <2>1. 19 - k \in 1..18
    OBVIOUS
  <2>2. Additions0003[19 - k] \in view
    BY <2>1 DEF Additions
  <2>3. ASSUME NEW j \in 1..(k - 1) PROVE Additions0003[19 - k] \notin Downgrade0003[j].drops
    <3>1. j \in 1..18 /\ 19 - j \in 1..18 /\ 19 - j # 19 - k
      OBVIOUS
    <3>2. Downgrade0003[j].drops = {Additions0003[19 - j]}
      BY <1>1, <1>2, <3>1
    <3>3. QED BY <2>1, <3>1, <3>2, AdditionsDiffer
  <2>4. Additions0003[19 - k] \notin DroppedBefore(Downgrade0003, k)
    BY <2>3 DEF DroppedBefore
  <2>5. /\ Downgrade0003[k].makes = {} /\ Downgrade0003[k].needs = {Additions0003[19 - k]}
        /\ Downgrade0003[k].unless = {}
    BY <1>1, <1>2
  <2>6. QED BY <2>2, <2>4, <2>5
<1>4. Len(Downgrade0003) \in Nat
  BY <1>1
<1>5. QED BY <1>1, <1>3, <1>4, DroppingLeads

\* Where the downgrade of 0002 drops the tables: in the opposite order.
PlacesDown == <<28, 27, 26, 25, 24, 20, 18, 17, 16, 15, 14, 12, 10, 4, 2, 1>>

LEMMA PlacesOfDrops ==
  /\ \A i \in 1..16 : /\ PlacesDown[i] \in 1..29
                      /\ DroppedTables0002[PlacesDown[i]] = Table(Names0002[i])
  /\ \A h, i \in 1..16 : h < i => PlacesDown[i] < PlacesDown[h]
<1>1. \A i \in 1..16 : PlacesDown[i] \in 1..29
  BY DEF PlacesDown
<1>2. \A i \in 1..16 : DroppedTables0002[PlacesDown[i]] = Table(Names0002[i])
  BY DEF PlacesDown, DroppedTables0002, Names0002
<1>3. \A h, i \in 1..16 : h < i => PlacesDown[i] < PlacesDown[h]
  BY DEF PlacesDown
<1>4. QED BY <1>1, <1>2, <1>3

LabelsDown ==
  <<"scenario_runs", "risk_contributions", "incident_created_at", "analyst_actions",
    "scenario_key", "transaction", "status_created_at", "severity_created_at",
    "customer_created_at", "incidents", "account_created_at", "transactions",
    "session_event_time", "cyber_events", "sessions", "transaction_channels", "devices",
    "beneficiaries", "customer_id", "behavioural_baselines", "request_id",
    "entity_created_at", "trigger", "audit_events", "accounts", "users", "customers",
    "crypto_assets", "function">>

LEMMA DropsDiffer ==
  \A j, k \in 1..29 : DroppedTables0002[j] = DroppedTables0002[k] => j = k
<1>1. \A k \in 1..29 : LabelOf(DroppedTables0002[k]) = LabelsDown[k]
  BY DEF DroppedTables0002, LabelOf, LabelsDown, Table, Index, AuditFunction, AuditTrigger
<1>2. \A j, k \in 1..29 : LabelsDown[j] = LabelsDown[k] => j = k
  BY DEF LabelsDown
<1>3. QED BY <1>1, <1>2

\* An index is dropped before its table.
LEMMA IndexesGoFirst ==
  ASSUME NEW k \in 1..29, NEW h \in 1..16,
         DroppedTables0002[k][1] = "index", DroppedTables0002[k][2] = Names0002[h]
  PROVE  k < PlacesDown[h]
<1>1. k \in {3, 5, 6, 7, 8, 9, 11, 13, 19, 21, 22}
  <2>1. \A j \in 1..29 : j \notin {3, 5, 6, 7, 8, 9, 11, 13, 19, 21, 22} =>
          DroppedTables0002[j][1] # "index"
    BY DEF DroppedTables0002, Table, Index, AuditFunction, AuditTrigger
  <2>2. QED BY <2>1
<1>2. /\ k = 3 => DroppedTables0002[k][2] = "analyst_actions"
      /\ k \in {5, 6, 7, 8, 9} => DroppedTables0002[k][2] = "incidents"
      /\ k = 11 => DroppedTables0002[k][2] = "transactions"
      /\ k = 13 => DroppedTables0002[k][2] = "cyber_events"
      /\ k = 19 => DroppedTables0002[k][2] = "behavioural_baselines"
      /\ k \in {21, 22} => DroppedTables0002[k][2] = "audit_events"
  BY DEF DroppedTables0002, Index
<1>3. /\ Names0002[h] = "analyst_actions" => PlacesDown[h] = 4
      /\ Names0002[h] = "incidents" => PlacesDown[h] = 10
      /\ Names0002[h] = "transactions" => PlacesDown[h] = 12
      /\ Names0002[h] = "cyber_events" => PlacesDown[h] = 14
      /\ Names0002[h] = "behavioural_baselines" => PlacesDown[h] = 20
      /\ Names0002[h] = "audit_events" => PlacesDown[h] = 24
  BY DEF Names0002, PlacesDown
<1>4. QED BY <1>1, <1>2, <1>3

\* The statements of the downgrade, by their kind.
LEMMA DropStatements ==
  /\ \A n : LET s == DropTable(n)
            IN  /\ s.needs = {<<"table", n>>} /\ s.makes = {}
                /\ s.unless = {o \in Objects : o[1] = "fk" /\ o[4] = n /\ o[2] # n}
                /\ s.drops = {o \in Objects : o[1] # "type" /\ o[2] = n}
  /\ \A n : LET s == DropType(n)
            IN  /\ s.needs = {} /\ s.makes = {} /\ s.drops = {<<"type", n>>}
                /\ s.unless = {o \in Objects : o[1] = "uses" /\ o[3] = n}
  /\ \A o : LET s == Drop(o)
            IN  s.needs = {o} /\ s.makes = {} /\ s.unless = {} /\ s.drops = {o}
  /\ DropFunction.needs = {} /\ DropFunction.makes = {} /\ DropFunction.unless = {AuditTrigger}
  /\ DropFunction.drops = {AuditFunction}
  /\ DropTrigger.needs = {} /\ DropTrigger.makes = {} /\ DropTrigger.unless = {}
  /\ DropTrigger.drops = {AuditTrigger}
<1>1. \A n : LET s == DropTable(n)
             IN  /\ s.needs = {<<"table", n>>} /\ s.makes = {}
                 /\ s.unless = {o \in Objects : o[1] = "fk" /\ o[4] = n /\ o[2] # n}
                 /\ s.drops = {o \in Objects : o[1] # "type" /\ o[2] = n}
  BY DEF DropTable
<1>2. \A n : LET s == DropType(n)
             IN  /\ s.needs = {} /\ s.makes = {} /\ s.drops = {<<"type", n>>}
                 /\ s.unless = {o \in Objects : o[1] = "uses" /\ o[3] = n}
  BY DEF DropType
<1>3. QED BY <1>1, <1>2 DEF Drop, DropFunction, DropTrigger

\* What is dropped is what the statement is for, or goes with its table.
LEMMA PartsOfDrop ==
  ASSUME NEW j \in 1..29, NEW o \in Downgrade0002[j].drops
  PROVE  \/ o = DroppedTables0002[j]
         \/ \E h \in 1..16 : DroppedTables0002[j] = Table(Names0002[h]) /\ o[2] = Names0002[h]
<1> DEFINE c == DroppedTables0002[j]
<1>1. c \in Creations /\ Downgrade0002[j] = Dropping(c)
  BY DroppedObjects, StatementsOfDowngrade0002
<1> HIDE DEF c
<1>2. ASSUME NEW h \in 1..16, c = Table(Names0002[h]) PROVE o[2] = Names0002[h]
  <2>1. o \in DropTable(Names0002[h]).drops
    BY <1>1, <1>2, DroppingDrops
  <2>2. QED BY <2>1, DropStatements
<1>3. ASSUME \E x \in Indexes0002 : c = Index(x[1], x[2]) PROVE o = c
  <2>1. o \in Drop(c).drops
    BY <1>1, <1>3, DroppingDrops
  <2>2. QED BY <2>1, DropStatements
<1>4. ASSUME c \in {AuditFunction, AuditTrigger} PROVE o = c
  BY <1>1, <1>4, DroppingDrops, DropStatements
<1>5. QED BY <1>1, <1>2, <1>3, <1>4 DEF Creations, c

\* With a table goes all that is its own.
LEMMA GoneWithTable ==
  ASSUME NEW i \in 1..16, NEW k \in 1..53, PlacesDown[i] < k,
         NEW o \in Objects, o[1] # "type", o[2] = Names0002[i]
  PROVE  o \in DroppedBefore(Downgrade0002, k)
<1>1. PlacesDown[i] \in 1..29 /\ DroppedTables0002[PlacesDown[i]] = Table(Names0002[i])
  BY PlacesOfDrops
<1>2. Downgrade0002[PlacesDown[i]] = DropTable(Names0002[i])
  BY <1>1, StatementsOfDowngrade0002, DroppingDrops
<1>3. o \in Downgrade0002[PlacesDown[i]].drops
  BY <1>2, DropStatements
<1>4. PlacesDown[i] \in 1..(k - 1)
  BY <1>1
<1>5. QED BY <1>3, <1>4 DEF DroppedBefore

\* References and uses of types belong to a table; the one referred to is created
\* before it and dropped after it.
LEMMA TiesOf0002 ==
  ASSUME NEW o \in Made(Upgrade0002)
  PROVE  /\ o[1] = "uses" => \E h \in 1..16 : o[2] = Names0002[h]
         /\ \A i \in 1..16 : o[1] = "fk" /\ o[4] = Names0002[i] =>
              \E h \in 1..16 : o[2] = Names0002[h] /\ PlacesDown[h] < PlacesDown[i]
<1>1. /\ o[1] = "uses" => \E k \in 1..16 : \E n \in Tables0002[k].types : o = <<"uses", Names0002[k], n>>
      /\ o[1] = "fk" => \E k \in 1..16 : \E r \in Tables0002[k].refs :
                          o = <<"fk", Names0002[k], r[1], r[2], r[3]>>
  BY ObjectsOf0002 DEF AuditFunction, AuditTrigger
<1>2. ASSUME NEW i \in 1..16, o[1] = "fk", o[4] = Names0002[i]
      PROVE  \E h \in 1..16 : o[2] = Names0002[h] /\ PlacesDown[h] < PlacesDown[i]
  <2>1. PICK h \in 1..16 : \E r \in Tables0002[h].refs : o = <<"fk", Names0002[h], r[1], r[2], r[3]>>
    BY <1>1, <1>2
  <2>2. PICK r \in Tables0002[h].refs : o = <<"fk", Names0002[h], r[1], r[2], r[3]>>
    BY <2>1
  <2>3. o[2] = Names0002[h] /\ r[2] = Names0002[i]
    BY <1>2, <2>2
  <2>4. PICK g \in 1..(h - 1) : r[2] = Names0002[g]
    BY RefersBack
  <2>5. g \in 1..16
    OBVIOUS
  <2>6. g = i
    BY <2>3, <2>4, <2>5, TablesByName, ZenonT(60)
  <2>7. i < h
    BY <2>4, <2>6
  <2>8. QED BY <2>3, <2>7, PlacesOfDrops
<1>3. QED BY <1>1, <1>2

\* Where there is what 0002 made and nothing of 0003, it can be taken back.
LEMMA Downgrade0002Leads ==
  ASSUME NEW view, Made(Upgrade0002) \subseteq view, view \intersect Additions = {}
  PROVE  Leads(view, Downgrade0002, view \ Dropped(Downgrade0002))
<1> DEFINE before(k) == DroppedBefore(Downgrade0002, k)
           Goes(k, s) == /\ s.makes = {}
                         /\ s.needs \subseteq view \ before(k)
                         /\ s.unless \intersect (view \ before(k)) = {}
<1>1. \A o \in Objects : o \in view => o \in Made(Upgrade0002)
  BY MadeBy0003 DEF Objects
<1>2. ASSUME NEW k \in 1..29, NEW j \in 1..(k - 1), DroppedTables0002[k] \in Downgrade0002[j].drops
      PROVE  \E h \in 1..16 : DroppedTables0002[j] = Table(Names0002[h])
                              /\ DroppedTables0002[k][2] = Names0002[h]
  <2>1. j \in 1..29 /\ j # k
    OBVIOUS
  <2>2. DroppedTables0002[j] # DroppedTables0002[k]
    BY <2>1, DropsDiffer
  <2>3. QED BY <1>2, <2>1, <2>2, PartsOfDrop
<1>3. ASSUME NEW k \in 1..29, NEW i \in 1..16, DroppedTables0002[k] = Table(Names0002[i])
      PROVE  Goes(k, Downgrade0002[k])
  <2> DEFINE c == DroppedTables0002[k]
  <2>1. Downgrade0002[k] = DropTable(Names0002[i])
    BY <1>3, StatementsOfDowngrade0002, DroppingDrops
  <2>2. PlacesDown[i] = k
    BY <1>3, PlacesOfDrops, DropsDiffer
  <2>3. c = <<"table", Names0002[i]>> /\ c \in view
    BY <1>3, TablesAreMade DEF Table
  <2>4. ASSUME NEW j \in 1..(k - 1) PROVE c \notin Downgrade0002[j].drops
    <3>1. SUFFICES ASSUME c \in Downgrade0002[j].drops PROVE FALSE
      OBVIOUS
    <3>2. PICK h \in 1..16 : DroppedTables0002[j] = Table(Names0002[h]) /\ c[2] = Names0002[h]
      BY <1>2, <3>1
    <3>3. h = i
      BY <2>3, <3>2, TablesByName
    <3>4. j \in 1..29 /\ j # k
      OBVIOUS
    <3>5. QED BY <1>3, <3>2, <3>3, <3>4, DropsDiffer
  <2>5. c \notin before(k)
    BY <2>4 DEF DroppedBefore
  <2>6. ASSUME NEW o \in Objects, o[1] = "fk", o[4] = Names0002[i], o \in view PROVE o \in before(k)
    <3>1. PICK h \in 1..16 : o[2] = Names0002[h] /\ PlacesDown[h] < PlacesDown[i]
      BY <1>1, <2>6, TiesOf0002
    <3>2. k \in 1..53 /\ o[1] # "type"
      BY <2>6
    <3>3. QED BY <2>2, <3>1, <3>2, GoneWithTable
  <2> DEFINE s == DropTable(Names0002[i])
  <2>7. /\ s.makes = {} /\ s.needs = {<<"table", Names0002[i]>>}
        /\ s.unless = {o \in Objects : o[1] = "fk" /\ o[4] = Names0002[i] /\ o[2] # Names0002[i]}
    BY DropStatements
  <2> HIDE DEF c, s, before
  <2>8. Goes(k, s)
    BY <2>3, <2>5, <2>6, <2>7
  <2>9. QED BY <2>1, <2>8 DEF s
<1>4. ASSUME NEW k \in 1..29, \E x \in Indexes0002 : DroppedTables0002[k] = Index(x[1], x[2])
      PROVE  Goes(k, Downgrade0002[k])
  <2> DEFINE c == DroppedTables0002[k]
  <2>1. Downgrade0002[k] = Drop(c)
    BY <1>4, StatementsOfDowngrade0002, DroppingDrops
  <2>2. c[1] = "index" /\ c \in view
    BY <1>4, MadeBy0002 DEF IndexParts, Index
  <2>3. ASSUME NEW j \in 1..(k - 1) PROVE c \notin Downgrade0002[j].drops
    <3>1. SUFFICES ASSUME c \in Downgrade0002[j].drops PROVE FALSE
      OBVIOUS
    <3>2. PICK h \in 1..16 : DroppedTables0002[j] = Table(Names0002[h]) /\ c[2] = Names0002[h]
      BY <1>2, <3>1
    <3>3. k < PlacesDown[h]
      BY <2>2, <3>2, IndexesGoFirst
    <3>4. PlacesDown[h] = j
      <4>1. j \in 1..29
        OBVIOUS
      <4>2. QED BY <3>2, <4>1, PlacesOfDrops, DropsDiffer
    <3>5. QED BY <3>3, <3>4
  <2>4. c \notin before(k)
    BY <2>3 DEF DroppedBefore
  <2>5. Drop(c).needs = {c} /\ Drop(c).makes = {} /\ Drop(c).unless = {}
    BY DropStatements
  <2> HIDE DEF c, before
  <2>6. QED BY <2>1, <2>2, <2>4, <2>5
<1>5. ASSUME NEW k \in 1..29, DroppedTables0002[k] \in {AuditFunction, AuditTrigger}
      PROVE  Goes(k, Downgrade0002[k])
  <2>1. DroppedTables0002[23] = AuditTrigger /\ DroppedTables0002[29] = AuditFunction
    BY DEF DroppedTables0002
  <2>2. CASE DroppedTables0002[k] = AuditTrigger
    <3>1. Downgrade0002[k] = DropTrigger
      BY <2>2, StatementsOfDowngrade0002, DroppingDrops
    <3>2. QED BY <3>1, DropStatements
  <2>3. CASE DroppedTables0002[k] = AuditFunction
    <3>1. Downgrade0002[k] = DropFunction
      BY <2>3, StatementsOfDowngrade0002, DroppingDrops
    <3>2. k = 29
      BY <2>1, <2>3, DropsDiffer
    <3>3. AuditTrigger \in before(k)
      <4>1. 23 \in 1..29 /\ Downgrade0002[23] = DropTrigger
        BY <2>1, StatementsOfDowngrade0002, DroppingDrops
      <4>2. 23 \in 1..(k - 1)
        BY <3>2
      <4>3. AuditTrigger \in Downgrade0002[23].drops
        BY <4>1, DropStatements
      <4>4. QED BY <4>2, <4>3 DEF DroppedBefore
    <3> HIDE DEF before
    <3>4. QED BY <3>1, <3>3, DropStatements
  <2>4. QED BY <1>5, <2>2, <2>3
<1>6. ASSUME NEW k \in 1..29 PROVE Goes(k, Downgrade0002[k])
  <2>1. DroppedTables0002[k] \in Creations
    BY DroppedObjects
  <2> HIDE DEF Goes
  <2>2. QED BY <1>3, <1>4, <1>5, <2>1 DEF Creations
<1>7. ASSUME NEW j \in 1..24 PROVE Goes(29 + j, Downgrade0002[29 + j])
  <2> DEFINE n == ENUM_TYPE_NAMES[j]
             s == DropType(n)
  <2>1. Downgrade0002[29 + j] = s
    BY StatementsOfDowngrade0002
  <2>2. ASSUME NEW o \in Objects, o[1] = "uses", o \in view PROVE o \in before(29 + j)
    <3>1. PICK h \in 1..16 : o[2] = Names0002[h]
      BY <1>1, <2>2, TiesOf0002
    <3>2. PlacesDown[h] \in 1..29
      BY PlacesOfDrops
    <3>3. PlacesDown[h] < 29 + j /\ 29 + j \in 1..53
      BY <1>7, <3>2, Z3
    <3>4. o[1] # "type"
      BY <2>2
    <3>5. QED BY <3>1, <3>3, <3>4, GoneWithTable
  <2>3. s.needs = {} /\ s.makes = {} /\ s.unless = {o \in Objects : o[1] = "uses" /\ o[3] = n}
    BY DropStatements
  <2> HIDE DEF n, s, before
  <2>4. QED BY <2>1, <2>2, <2>3
<1>8. ASSUME NEW k \in 1..53 PROVE Goes(k, Downgrade0002[k])
  <2>1. CASE k \in 1..29
    BY <1>6, <2>1
  <2>2. CASE k \notin 1..29
    <3>1. k - 29 \in 1..24 /\ k = 29 + (k - 29)
      BY <2>2
    <3>2. QED BY <1>7, <3>1
  <2>3. QED BY <2>1, <2>2
<1>9. Len(Downgrade0002) = 53
  BY StatementsOfDowngrade0002
<1>10. Len(Downgrade0002) \in Nat /\ \A k \in 1..Len(Downgrade0002) : Goes(k, Downgrade0002[k])
  <2> HIDE DEF Goes
  <2>1. QED BY <1>8, <1>9
<1>11. QED BY <1>10, DroppingLeads

-----------------------------------------------------------------------------
(* From one revision to the next, and back. *)

\* The schema of a revision, with the books.
SchemaAt(r) == SchemaOf(r) \union {VersionTable} \union Stamped(r)

Statements ==
  {Upgrade0002[k] : k \in 1..29} \union {Upgrade0003[k] : k \in 1..18}
    \union {Downgrade0002[k] : k \in 1..53} \union {Downgrade0003[k] : k \in 1..18}
    \union {Stamp(q, r) : q, r \in Revisions} \union {CreateVersionTable}

LEMMA ProgramsAreSequences ==
  /\ Upgrade0002 \in Seq(Statements) /\ Upgrade0003 \in Seq(Statements)
  /\ Downgrade0002 \in Seq(Statements) /\ Downgrade0003 \in Seq(Statements)
  /\ \A q, r \in Revisions : <<Stamp(q, r)>> \in Seq(Statements)
<1>1. Upgrade0002 \in Seq(Statements)
  <2>1. Upgrade0002 = [k \in 1..29 |-> Upgrade0002[k]]
    BY CreatedObjects DEF Upgrade0002
  <2>2. \A k \in 1..29 : Upgrade0002[k] \in Statements
    BY DEF Statements
  <2>3. QED BY <2>1, <2>2
<1>2. Upgrade0003 \in Seq(Statements)
  <2>1. Upgrade0003 = [k \in 1..18 |-> Upgrade0003[k]]
    BY MadeBy0003 DEF Upgrade0003
  <2>2. \A k \in 1..18 : Upgrade0003[k] \in Statements
    BY DEF Statements
  <2>3. QED BY <2>1, <2>2
<1>3. Downgrade0002 \in Seq(Statements)
  <2>1. Downgrade0002 = [k \in 1..53 |-> Downgrade0002[k]]
    BY StatementsOfDowngrade0002 DEF Downgrade0002
  <2>2. \A k \in 1..53 : Downgrade0002[k] \in Statements
    BY DEF Statements
  <2>3. QED BY <2>1, <2>2
<1>4. Downgrade0003 \in Seq(Statements)
  <2>1. Downgrade0003 = [k \in 1..18 |-> Downgrade0003[k]]
    BY MadeBy0003 DEF Downgrade0003
  <2>2. \A k \in 1..18 : Downgrade0003[k] \in Statements
    BY DEF Statements
  <2>3. QED BY <2>1, <2>2
<1>5. \A q, r \in Revisions : <<Stamp(q, r)>> \in Seq(Statements)
  BY DEF Statements
<1>6. QED BY <1>1, <1>2, <1>3, <1>4, <1>5

\* The books of the revisions.
LEMMA BooksOfRevisions ==
  /\ SchemaOf(0) = {} /\ SchemaOf(1) = {} /\ SchemaOf(2) = Made(Upgrade0002)
  /\ SchemaOf(3) = Made(Upgrade0002) \union Additions
  /\ \A r \in Revisions : SchemaOf(r) \subseteq Objects
  /\ \A q, r \in Revisions : Stamped(q) \intersect SchemaOf(r) = {} /\ VersionTable \notin Stamped(q)
  /\ \A r \in Revisions : VersionTable \notin SchemaOf(r)
<1>1. Made(Upgrade0003) = Additions
  BY MadeBy0003
<1>2. /\ SchemaOf(0) = {} /\ SchemaOf(1) = {} /\ SchemaOf(2) = Made(Upgrade0002)
      /\ SchemaOf(3) = Made(Upgrade0002) \union Additions
  BY <1>1 DEF SchemaOf
<1>3. \A r \in Revisions : SchemaOf(r) \subseteq Objects
  BY DEF SchemaOf, Objects
<1>4. QED BY <1>2, <1>3, BooksAreApart DEF Stamped

\* Statements, and then the books.
LEMMA ThenStamping ==
  ASSUME NEW p \in Seq(Statements), NEW q \in Revisions, NEW r \in Revisions, q # r,
         NEW view, NEW mid, Leads(view, p, mid),
         VersionTable \in mid, Stamped(q) \subseteq mid, Stamped(r) \intersect mid = {}
  PROVE  /\ p \o <<Stamp(q, r)>> \in Seq(Statements)
         /\ Leads(view, p \o <<Stamp(q, r)>>, (mid \ Stamped(q)) \union Stamped(r))
<1>1. PICK s : s = Stamp(q, r)
  OBVIOUS
<1>2. /\ s.needs = Stamped(q) \union {VersionTable} /\ s.unless = Stamped(r)
      /\ s.makes = Stamped(r) /\ s.drops = Stamped(q)
  BY <1>1 DEF Stamp
<1>3. Succeeds(s, mid)
  BY <1>2 DEF Succeeds
<1>4. Leads(mid, <<s>>, After(mid, s))
  BY <1>3, OneLeads
<1>5. After(mid, s) = (mid \ Stamped(q)) \union Stamped(r)
  BY <1>2 DEF After
<1>6. <<s>> \in Seq(Statements)
  BY <1>1, ProgramsAreSequences
<1>7. p \o <<s>> \in Seq(Statements) /\ Leads(view, p \o <<s>>, After(mid, s))
  BY <1>4, <1>6, OnesAndOthers
<1>8. QED BY <1>1, <1>5, <1>7

\* The stamps are apart from all that migrations make.
LEMMA StampsApart ==
  /\ Stamped(0) = {} /\ \A r \in 1..3 : Stamped(r) = {Version(r)}
  /\ \A r \in 1..3 : Version(r) \notin Objects /\ Version(r) # VersionTable
  /\ \A q, r \in 1..3 : Version(q) = Version(r) => q = r
  /\ VersionTable \notin Objects
<1>1. \A r \in 1..3 : r \in Revisions
  BY DEF Revisions
<1>2. Stamped(0) = {} /\ \A r \in 1..3 : Stamped(r) = {Version(r)}
  BY DEF Stamped
<1>3. QED BY <1>1, <1>2, BooksAreApart

\* The schemas, spelled out.
LEMMA SchemasAre ==
  /\ SchemaAt(0) = {VersionTable} /\ SchemaAt(1) = {VersionTable, Version(1)}
  /\ SchemaAt(2) = Made(Upgrade0002) \union {VersionTable, Version(2)}
  /\ SchemaAt(3) = Made(Upgrade0002) \union Additions \union {VersionTable, Version(3)}
  /\ Made(Upgrade0002) \subseteq Objects /\ Additions \subseteq Objects
  /\ Made(Upgrade0002) \intersect Additions = {}
<1>1. Stamped(0) = {} /\ Stamped(1) = {Version(1)} /\ Stamped(2) = {Version(2)} /\ Stamped(3) = {Version(3)}
  BY StampsApart
<1>2. Made(Upgrade0002) \subseteq Objects /\ Additions \subseteq Objects
  BY MadeBy0003 DEF Objects
<1>3. QED BY <1>1, <1>2, BooksOfRevisions, AdditionsAreNew DEF SchemaAt

\* An upgrade makes the schema of its revision from that of the one before.
LEMMA UpgradeReaches ==
  ASSUME NEW r \in 1..3
  PROVE  Leads(SchemaAt(r - 1), Upgrades[r], SchemaAt(r)) /\ Upgrades[r] \in Seq(Statements)
<1>1. /\ Upgrades[1] = <<Stamp(0, 1)>> /\ Upgrades[2] = Upgrade0002 \o <<Stamp(1, 2)>>
      /\ Upgrades[3] = Upgrade0003 \o <<Stamp(2, 3)>>
  BY DEF Upgrades
<1>2. \A q \in 0..3 : q \in Revisions
  BY DEF Revisions
<1>3. /\ Stamped(0) = {} /\ Stamped(1) = {Version(1)} /\ Stamped(2) = {Version(2)}
      /\ Stamped(3) = {Version(3)}
  BY StampsApart
<1>4. /\ Version(1) \notin Objects /\ Version(2) \notin Objects /\ Version(3) \notin Objects
      /\ VersionTable \notin Objects
      /\ VersionTable \notin {Version(1), Version(2), Version(3)}
      /\ Version(1) # Version(2) /\ Version(1) # Version(3) /\ Version(2) # Version(3)
  BY StampsApart
<1>5. Leads(SchemaAt(0), Upgrades[1], SchemaAt(1)) /\ Upgrades[1] \in Seq(Statements)
  <2>1. PICK none \in Seq(Statements) : none = <<>>
    <3>1. <<>> \in Seq(Statements)
      OBVIOUS
    <3>2. QED BY <3>1
  <2>2. Leads(SchemaAt(0), none, SchemaAt(0))
    BY <2>1, NothingLeads
  <2>3. /\ VersionTable \in SchemaAt(0) /\ Stamped(0) \subseteq SchemaAt(0)
        /\ Stamped(1) \intersect SchemaAt(0) = {}
        /\ (SchemaAt(0) \ Stamped(0)) \union Stamped(1) = SchemaAt(1)
    BY <1>3, <1>4, SchemasAre
  <2>4. 0 \in Revisions /\ 1 \in Revisions /\ 0 # 1
    BY <1>2
  <2>5. /\ none \o <<Stamp(0, 1)>> \in Seq(Statements)
        /\ Leads(SchemaAt(0), none \o <<Stamp(0, 1)>>, (SchemaAt(0) \ Stamped(0)) \union Stamped(1))
    BY <2>2, <2>3, <2>4, ThenStamping
  <2>6. none \o <<Stamp(0, 1)>> = <<Stamp(0, 1)>>
    BY <2>1
  <2>7. QED BY <1>1, <2>3, <2>5, <2>6
<1>6. Leads(SchemaAt(1), Upgrades[2], SchemaAt(2)) /\ Upgrades[2] \in Seq(Statements)
  <2> DEFINE mid == SchemaAt(1) \union Made(Upgrade0002)
  <2>1. SchemaAt(1) \intersect Made(Upgrade0002) = {}
    BY <1>4, SchemasAre
  <2>2. Leads(SchemaAt(1), Upgrade0002, mid)
    BY <2>1, Upgrade0002Leads
  <2>3. VersionTable \in mid /\ Stamped(1) \subseteq mid /\ Stamped(2) \intersect mid = {}
        /\ (mid \ Stamped(1)) \union Stamped(2) = SchemaAt(2)
    BY <1>3, <1>4, SchemasAre
  <2>4. 1 \in Revisions /\ 2 \in Revisions /\ 1 # 2 /\ Upgrade0002 \in Seq(Statements)
    BY <1>2, ProgramsAreSequences
  <2> HIDE DEF mid
  <2>5. /\ Upgrade0002 \o <<Stamp(1, 2)>> \in Seq(Statements)
        /\ Leads(SchemaAt(1), Upgrade0002 \o <<Stamp(1, 2)>>, (mid \ Stamped(1)) \union Stamped(2))
    BY <2>2, <2>3, <2>4, ThenStamping
  <2>6. QED BY <1>1, <2>3, <2>5
<1>7. Leads(SchemaAt(2), Upgrades[3], SchemaAt(3)) /\ Upgrades[3] \in Seq(Statements)
  <2> DEFINE mid == SchemaAt(2) \union Additions
  <2>1. Made(Upgrade0002) \subseteq SchemaAt(2) /\ SchemaAt(2) \intersect Additions = {}
    BY <1>4, SchemasAre
  <2>2. Leads(SchemaAt(2), Upgrade0003, mid)
    BY <2>1, Upgrade0003Leads
  <2>3. VersionTable \in mid /\ Stamped(2) \subseteq mid /\ Stamped(3) \intersect mid = {}
        /\ (mid \ Stamped(2)) \union Stamped(3) = SchemaAt(3)
    BY <1>3, <1>4, SchemasAre
  <2>4. 2 \in Revisions /\ 3 \in Revisions /\ 2 # 3 /\ Upgrade0003 \in Seq(Statements)
    BY <1>2, ProgramsAreSequences
  <2> HIDE DEF mid
  <2>5. /\ Upgrade0003 \o <<Stamp(2, 3)>> \in Seq(Statements)
        /\ Leads(SchemaAt(2), Upgrade0003 \o <<Stamp(2, 3)>>, (mid \ Stamped(2)) \union Stamped(3))
    BY <2>2, <2>3, <2>4, ThenStamping
  <2>6. QED BY <1>1, <2>3, <2>5
<1>8. CASE r = 1
  <2>1. r - 1 = 0
    BY <1>8
  <2>2. QED BY <1>5, <1>8, <2>1
<1>9. CASE r = 2
  <2>1. r - 1 = 1
    BY <1>9
  <2>2. QED BY <1>6, <1>9, <2>1
<1>10. CASE r = 3
  <2>1. r - 1 = 2
    BY <1>10
  <2>2. QED BY <1>7, <1>10, <2>1
<1>11. QED BY <1>8, <1>9, <1>10

\* A downgrade leaves the schema of the revision before.
LEMMA DowngradeReaches ==
  ASSUME NEW r \in 1..3
  PROVE  Leads(SchemaAt(r), Downgrades[r], SchemaAt(r - 1)) /\ Downgrades[r] \in Seq(Statements)
<1>1. /\ Downgrades[1] = <<Stamp(1, 0)>> /\ Downgrades[2] = Downgrade0002 \o <<Stamp(2, 1)>>
      /\ Downgrades[3] = Downgrade0003 \o <<Stamp(3, 2)>>
  BY DEF Downgrades
<1>2. \A q \in 0..3 : q \in Revisions
  BY DEF Revisions
<1>3. /\ Stamped(0) = {} /\ Stamped(1) = {Version(1)} /\ Stamped(2) = {Version(2)}
      /\ Stamped(3) = {Version(3)}
  BY StampsApart
<1>4. /\ Version(1) \notin Objects /\ Version(2) \notin Objects /\ Version(3) \notin Objects
      /\ VersionTable \notin Objects
      /\ VersionTable \notin {Version(1), Version(2), Version(3)}
      /\ Version(1) # Version(2) /\ Version(1) # Version(3) /\ Version(2) # Version(3)
  BY StampsApart
<1>5. Leads(SchemaAt(1), Downgrades[1], SchemaAt(0)) /\ Downgrades[1] \in Seq(Statements)
  <2>1. PICK none \in Seq(Statements) : none = <<>>
    <3>1. <<>> \in Seq(Statements)
      OBVIOUS
    <3>2. QED BY <3>1
  <2>2. Leads(SchemaAt(1), none, SchemaAt(1))
    BY <2>1, NothingLeads
  <2>3. /\ VersionTable \in SchemaAt(1) /\ Stamped(1) \subseteq SchemaAt(1)
        /\ Stamped(0) \intersect SchemaAt(1) = {}
        /\ (SchemaAt(1) \ Stamped(1)) \union Stamped(0) = SchemaAt(0)
    BY <1>3, <1>4, SchemasAre
  <2>4. 0 \in Revisions /\ 1 \in Revisions /\ 1 # 0
    BY <1>2
  <2>5. /\ none \o <<Stamp(1, 0)>> \in Seq(Statements)
        /\ Leads(SchemaAt(1), none \o <<Stamp(1, 0)>>, (SchemaAt(1) \ Stamped(1)) \union Stamped(0))
    BY <2>2, <2>3, <2>4, ThenStamping
  <2>6. none \o <<Stamp(1, 0)>> = <<Stamp(1, 0)>>
    BY <2>1
  <2>7. QED BY <1>1, <2>3, <2>5, <2>6
<1>6. Leads(SchemaAt(2), Downgrades[2], SchemaAt(1)) /\ Downgrades[2] \in Seq(Statements)
  <2> DEFINE dropped == Dropped(Downgrade0002)
             mid == SchemaAt(2) \ dropped
  <2>1. Made(Upgrade0002) \subseteq SchemaAt(2) /\ SchemaAt(2) \intersect Additions = {}
    BY <1>4, SchemasAre
  <2>2. Leads(SchemaAt(2), Downgrade0002, mid)
    BY <2>1, Downgrade0002Leads
  <2>3. VersionTable \notin dropped /\ Version(2) \notin dropped
    <3>1. VersionTable[1] = "table" /\ Version(2)[1] = "version"
      BY DEF VersionTable, Version
    <3>2. QED BY <1>4, <3>1, DroppedBy0002
  <2>4. Made(Upgrade0002) \subseteq dropped
    BY DroppedBy0002
  <2> HIDE DEF dropped
  <2>5. VersionTable \in mid /\ Stamped(2) \subseteq mid /\ Stamped(1) \intersect mid = {}
        /\ (mid \ Stamped(2)) \union Stamped(1) = SchemaAt(1)
    BY <1>3, <1>4, <2>3, <2>4, SchemasAre
  <2>6. 1 \in Revisions /\ 2 \in Revisions /\ 2 # 1 /\ Downgrade0002 \in Seq(Statements)
    BY <1>2, ProgramsAreSequences
  <2> HIDE DEF mid
  <2>7. /\ Downgrade0002 \o <<Stamp(2, 1)>> \in Seq(Statements)
        /\ Leads(SchemaAt(2), Downgrade0002 \o <<Stamp(2, 1)>>, (mid \ Stamped(2)) \union Stamped(1))
    BY <2>2, <2>5, <2>6, ThenStamping
  <2>8. QED BY <1>1, <2>5, <2>7
<1>7. Leads(SchemaAt(3), Downgrades[3], SchemaAt(2)) /\ Downgrades[3] \in Seq(Statements)
  <2> DEFINE mid == SchemaAt(3) \ Additions
  <2>1. Additions \subseteq SchemaAt(3)
    BY SchemasAre
  <2>2. Leads(SchemaAt(3), Downgrade0003, mid)
    BY <2>1, Downgrade0003Leads
  <2>3. VersionTable \in mid /\ Stamped(3) \subseteq mid /\ Stamped(2) \intersect mid = {}
        /\ (mid \ Stamped(3)) \union Stamped(2) = SchemaAt(2)
    BY <1>3, <1>4, SchemasAre
  <2>4. 2 \in Revisions /\ 3 \in Revisions /\ 3 # 2 /\ Downgrade0003 \in Seq(Statements)
    BY <1>2, ProgramsAreSequences
  <2> HIDE DEF mid
  <2>5. /\ Downgrade0003 \o <<Stamp(3, 2)>> \in Seq(Statements)
        /\ Leads(SchemaAt(3), Downgrade0003 \o <<Stamp(3, 2)>>, (mid \ Stamped(3)) \union Stamped(2))
    BY <2>2, <2>3, <2>4, ThenStamping
  <2>6. QED BY <1>1, <2>3, <2>5
<1>8. CASE r = 1
  <2>1. r - 1 = 0
    BY <1>8
  <2>2. QED BY <1>5, <1>8, <2>1
<1>9. CASE r = 2
  <2>1. r - 1 = 1
    BY <1>9
  <2>2. QED BY <1>6, <1>9, <2>1
<1>10. CASE r = 3
  <2>1. r - 1 = 2
    BY <1>10
  <2>2. QED BY <1>7, <1>10, <2>1
<1>11. QED BY <1>8, <1>9, <1>10

-----------------------------------------------------------------------------
(* The way up to head, and the way down. *)

\* What is defined by steps from a number up is there.
LEMMA UpwardSteps ==
  ASSUME NEW from \in Revisions
  PROVE  \E up : /\ ToHead(from) = up[HeadRevision]
                 /\ up[from] = <<>>
                 /\ \A r \in (from + 1)..HeadRevision : up[r] = up[r - 1] \o Upgrades[r]
<1> DEFINE F(f) == [r \in from..HeadRevision |-> IF r = from THEN <<>> ELSE f[r - 1] \o Upgrades[r]]
           one == <<>> \o Upgrades[from + 1]
           two == one \o Upgrades[from + 2]
           three == two \o Upgrades[from + 3]
           steps == [r \in from..HeadRevision |->
                       IF r = from THEN <<>> ELSE IF r = from + 1 THEN one
                       ELSE IF r = from + 2 THEN two ELSE three]
<1>1. steps = F(steps)
  <2>1. ASSUME NEW r \in from..HeadRevision
        PROVE  steps[r] = IF r = from THEN <<>> ELSE steps[r - 1] \o Upgrades[r]
    <3>1. r \in {from, from + 1, from + 2, from + 3}
      BY DEF Revisions, HeadRevision
    <3>2. CASE r = from
      BY <3>2
    <3>3. CASE r = from + 1
      <4>1. r - 1 = from /\ r # from /\ from \in from..HeadRevision
        BY <3>3 DEF Revisions, HeadRevision
      <4>2. QED BY <3>3, <4>1
    <3>4. CASE r = from + 2
      <4>1. r - 1 = from + 1 /\ r # from /\ r # from + 1 /\ r - 1 \in from..HeadRevision /\ r - 1 # from
        BY <3>4 DEF Revisions, HeadRevision
      <4>2. QED BY <3>4, <4>1
    <3>5. CASE r = from + 3
      <4>1. r - 1 = from + 2 /\ r \notin {from, from + 1, from + 2}
            /\ r - 1 \in from..HeadRevision /\ r - 1 \notin {from, from + 1}
        BY <3>5 DEF Revisions, HeadRevision
      <4>2. QED BY <3>5, <4>1
    <3>6. QED BY <3>1, <3>2, <3>3, <3>4, <3>5
  <2> HIDE DEF one, two, three
  <2>2. QED BY <2>1
<1> HIDE DEF steps
<1> DEFINE up == CHOOSE f : f = F(f)
<1>2. ToHead(from) = up[HeadRevision]
  BY DEF ToHead
<1>3. up = F(up)
  BY <1>1
<1> HIDE DEF up
<1>4. up[from] = <<>> /\ \A r \in (from + 1)..HeadRevision : up[r] = up[r - 1] \o Upgrades[r]
  <2>1. from \in from..HeadRevision /\ \A r \in (from + 1)..HeadRevision : r \in from..HeadRevision /\ r # from
    BY DEF Revisions, HeadRevision
  <2>2. \A r \in from..HeadRevision :
          up[r] = IF r = from THEN <<>> ELSE up[r - 1] \o Upgrades[r]
    BY <1>3
  <2>3. QED BY <2>1, <2>2
<1>5. QED BY <1>2, <1>4

LEMMA DownwardSteps ==
  ASSUME NEW from \in Revisions, NEW to \in Revisions, to <= from
  PROVE  \E down : /\ DownFrom(from, to) = down[to]
                   /\ down[from] = <<>>
                   /\ \A r \in to..(from - 1) : down[r] = down[r + 1] \o Downgrades[r + 1]
<1> DEFINE F(f) == [r \in to..from |-> IF r = from THEN <<>> ELSE f[r + 1] \o Downgrades[r + 1]]
           one == <<>> \o Downgrades[from]
           two == one \o Downgrades[from - 1]
           three == two \o Downgrades[from - 2]
           steps == [r \in to..from |->
                       IF r = from THEN <<>> ELSE IF r = from - 1 THEN one
                       ELSE IF r = from - 2 THEN two ELSE three]
<1>1. steps = F(steps)
  <2>1. ASSUME NEW r \in to..from
        PROVE  steps[r] = IF r = from THEN <<>> ELSE steps[r + 1] \o Downgrades[r + 1]
    <3>1. r \in {from, from - 1, from - 2, from - 3}
      BY DEF Revisions
    <3>2. CASE r = from
      BY <3>2
    <3>3. CASE r = from - 1
      <4>1. r + 1 = from /\ r # from /\ from \in to..from
        BY <3>3 DEF Revisions
      <4>2. QED BY <3>3, <4>1
    <3>4. CASE r = from - 2
      <4>1. r + 1 = from - 1 /\ r # from /\ r # from - 1 /\ r + 1 \in to..from /\ r + 1 # from
        BY <3>4 DEF Revisions
      <4>2. QED BY <3>4, <4>1
    <3>5. CASE r = from - 3
      <4>1. r + 1 = from - 2 /\ r \notin {from, from - 1, from - 2}
            /\ r + 1 \in to..from /\ r + 1 \notin {from, from - 1}
        BY <3>5 DEF Revisions
      <4>2. QED BY <3>5, <4>1
    <3>6. QED BY <3>1, <3>2, <3>3, <3>4, <3>5
  <2> HIDE DEF one, two, three
  <2>2. QED BY <2>1
<1> HIDE DEF steps
<1> DEFINE down == CHOOSE f : f = F(f)
<1>2. DownFrom(from, to) = down[to]
  BY DEF DownFrom
<1>3. down = F(down)
  BY <1>1
<1> HIDE DEF down
<1>4. down[from] = <<>> /\ \A r \in to..(from - 1) : down[r] = down[r + 1] \o Downgrades[r + 1]
  <2>1. from \in to..from /\ \A r \in to..(from - 1) : r \in to..from /\ r # from
    BY DEF Revisions
  <2>2. \A r \in to..from :
          down[r] = IF r = from THEN <<>> ELSE down[r + 1] \o Downgrades[r + 1]
    BY <1>3
  <2>3. QED BY <2>1, <2>2
<1>5. QED BY <1>2, <1>4

\* From a revision the way up leads to head.
LEMMA HeadIsReached ==
  ASSUME NEW from \in Revisions
  PROVE  /\ ToHead(from) \in Seq(Statements)
         /\ Leads(SchemaAt(from), ToHead(from), SchemaAt(HeadRevision))
<1>1. PICK up : /\ ToHead(from) = up[HeadRevision]
                /\ up[from] = <<>>
                /\ \A r \in (from + 1)..HeadRevision : up[r] = up[r - 1] \o Upgrades[r]
  BY UpwardSteps
<1> DEFINE There(r) == up[r] \in Seq(Statements) /\ Leads(SchemaAt(from), up[r], SchemaAt(r))
<1>2. There(from)
  <2>1. Leads(SchemaAt(from), <<>>, SchemaAt(from))
    BY NothingLeads
  <2>2. <<>> \in Seq(Statements)
    OBVIOUS
  <2>3. QED BY <1>1, <2>1, <2>2
<1>3. ASSUME NEW r \in (from + 1)..HeadRevision, There(r - 1) PROVE There(r)
  <2>1. r \in 1..3
    BY DEF Revisions, HeadRevision
  <2>2. Upgrades[r] \in Seq(Statements) /\ Leads(SchemaAt(r - 1), Upgrades[r], SchemaAt(r))
    BY <2>1, UpgradeReaches
  <2>3. up[r] = up[r - 1] \o Upgrades[r]
    BY <1>1
  <2>4. up[r - 1] \in Seq(Statements) /\ Leads(SchemaAt(from), up[r - 1], SchemaAt(r - 1))
    BY <1>3
  <2>5. /\ up[r - 1] \o Upgrades[r] \in Seq(Statements)
        /\ Leads(SchemaAt(from), up[r - 1] \o Upgrades[r], SchemaAt(r))
    BY <2>2, <2>4, OnesAndOthers
  <2>6. QED BY <2>3, <2>5
<1> HIDE DEF There
<1>4. There(HeadRevision)
  <2>1. CASE from = 3
    BY <1>2, <2>1 DEF HeadRevision
  <2>2. CASE from = 2
    <3>1. 3 \in (from + 1)..HeadRevision /\ 3 - 1 = from
      BY <2>2 DEF HeadRevision
    <3>2. QED BY <1>2, <1>3, <3>1 DEF HeadRevision
  <2>3. CASE from = 1
    <3>1. 2 \in (from + 1)..HeadRevision /\ 2 - 1 = from /\ 3 \in (from + 1)..HeadRevision /\ 3 - 1 = 2
      BY <2>3 DEF HeadRevision
    <3>2. There(2)
      BY <1>2, <1>3, <3>1
    <3>3. QED BY <1>3, <3>1, <3>2 DEF HeadRevision
  <2>4. CASE from = 0
    <3>1. 1 \in (from + 1)..HeadRevision /\ 1 - 1 = from /\ 2 \in (from + 1)..HeadRevision
          /\ 2 - 1 = 1 /\ 3 \in (from + 1)..HeadRevision /\ 3 - 1 = 2
      BY <2>4 DEF HeadRevision
    <3>2. There(1)
      BY <1>2, <1>3, <3>1
    <3>3. There(2)
      BY <1>3, <3>1, <3>2
    <3>4. QED BY <1>3, <3>1, <3>3 DEF HeadRevision
  <2>5. QED BY <2>1, <2>2, <2>3, <2>4 DEF Revisions
<1>5. QED BY <1>1, <1>4 DEF There

\* From a revision the way down leads to the one it is for.
LEMMA LowerIsReached ==
  ASSUME NEW from \in Revisions, NEW to \in Revisions, to <= from
  PROVE  /\ DownFrom(from, to) \in Seq(Statements)
         /\ Leads(SchemaAt(from), DownFrom(from, to), SchemaAt(to))
<1>1. PICK down : /\ DownFrom(from, to) = down[to]
                  /\ down[from] = <<>>
                  /\ \A r \in to..(from - 1) : down[r] = down[r + 1] \o Downgrades[r + 1]
  BY DownwardSteps
<1> DEFINE There(r) == down[r] \in Seq(Statements) /\ Leads(SchemaAt(from), down[r], SchemaAt(r))
<1>2. There(from)
  <2>1. Leads(SchemaAt(from), <<>>, SchemaAt(from))
    BY NothingLeads
  <2>2. <<>> \in Seq(Statements)
    OBVIOUS
  <2>3. QED BY <1>1, <2>1, <2>2
<1>3. ASSUME NEW r \in to..(from - 1), There(r + 1) PROVE There(r)
  <2>1. r + 1 \in 1..3 /\ (r + 1) - 1 = r
    BY DEF Revisions
  <2>2. /\ Downgrades[r + 1] \in Seq(Statements)
        /\ Leads(SchemaAt(r + 1), Downgrades[r + 1], SchemaAt((r + 1) - 1))
    BY <2>1, DowngradeReaches
  <2>3. down[r] = down[r + 1] \o Downgrades[r + 1]
    BY <1>1
  <2>4. down[r + 1] \in Seq(Statements) /\ Leads(SchemaAt(from), down[r + 1], SchemaAt(r + 1))
    BY <1>3
  <2>5. Leads(SchemaAt(r + 1), Downgrades[r + 1], SchemaAt(r))
    BY <2>1, <2>2
  <2>6. /\ down[r + 1] \o Downgrades[r + 1] \in Seq(Statements)
        /\ Leads(SchemaAt(from), down[r + 1] \o Downgrades[r + 1], SchemaAt(r))
    BY <2>2, <2>4, <2>5, OnesAndOthers
  <2>7. QED BY <2>3, <2>6
<1> HIDE DEF There
<1>4. There(to)
  <2>1. CASE to = from
    BY <1>2, <2>1
  <2>2. CASE to = from - 1
    <3>1. to \in to..(from - 1) /\ to + 1 = from
      BY <2>2 DEF Revisions
    <3>2. QED BY <1>2, <1>3, <3>1
  <2>3. CASE to = from - 2
    <3>1. to \in to..(from - 1) /\ to + 1 \in to..(from - 1) /\ (to + 1) + 1 = from
      BY <2>3 DEF Revisions
    <3>2. There(to + 1)
      BY <1>2, <1>3, <3>1
    <3>3. QED BY <1>3, <3>1, <3>2
  <2>4. CASE to = from - 3
    <3>1. to \in to..(from - 1) /\ to + 1 \in to..(from - 1) /\ to + 2 \in to..(from - 1)
          /\ (to + 1) + 1 = to + 2 /\ (to + 2) + 1 = from
      BY <2>4 DEF Revisions
    <3>2. There(to + 2)
      BY <1>2, <1>3, <3>1
    <3>3. There(to + 1)
      BY <1>3, <3>1, <3>2
    <3>4. QED BY <1>3, <3>1, <3>3
  <2>5. QED BY <2>1, <2>2, <2>3, <2>4 DEF Revisions
<1>5. QED BY <1>1, <1>4 DEF There

LEMMA StepsToHead ==
  ASSUME NEW from \in Revisions
  PROVE  /\ from = 3 => ToHead(from) = <<>>
         /\ from = 2 => ToHead(from) = <<>> \o Upgrades[3]
         /\ from = 1 => ToHead(from) = (<<>> \o Upgrades[2]) \o Upgrades[3]
         /\ from = 0 => ToHead(from) = ((<<>> \o Upgrades[1]) \o Upgrades[2]) \o Upgrades[3]
<1>1. PICK up : /\ ToHead(from) = up[HeadRevision]
                /\ up[from] = <<>>
                /\ \A r \in (from + 1)..HeadRevision : up[r] = up[r - 1] \o Upgrades[r]
  BY UpwardSteps
<1>2. HeadRevision = 3
  BY DEF HeadRevision
<1>3. ASSUME from < 3 PROVE up[3] = up[2] \o Upgrades[3]
  <2>1. 3 \in (from + 1)..HeadRevision /\ 3 - 1 = 2
    BY <1>2, <1>3 DEF Revisions
  <2>2. up[3] = up[3 - 1] \o Upgrades[3]
    BY <1>1, <2>1
  <2>3. QED BY <2>1, <2>2
<1>4. ASSUME from < 2 PROVE up[2] = up[1] \o Upgrades[2]
  <2>1. 2 \in (from + 1)..HeadRevision /\ 2 - 1 = 1
    BY <1>2, <1>4 DEF Revisions
  <2>2. up[2] = up[2 - 1] \o Upgrades[2]
    BY <1>1, <2>1
  <2>3. QED BY <2>1, <2>2
<1>5. ASSUME from < 1 PROVE up[1] = up[0] \o Upgrades[1]
  <2>1. 1 \in (from + 1)..HeadRevision /\ 1 - 1 = 0
    BY <1>2, <1>5 DEF Revisions
  <2>2. up[1] = up[1 - 1] \o Upgrades[1]
    BY <1>1, <2>1
  <2>3. QED BY <2>1, <2>2
<1>6. CASE from = 3
  BY <1>1, <1>2, <1>6
<1>7. CASE from = 2
  <2>1. up[2] = <<>> /\ up[3] = up[2] \o Upgrades[3]
    <3>1. from < 3
      BY <1>7
    <3>2. QED BY <1>1, <1>3, <1>7, <3>1
  <2>2. QED BY <1>1, <1>2, <1>7, <2>1
<1>8. CASE from = 1
  <2>1. up[1] = <<>> /\ up[2] = up[1] \o Upgrades[2] /\ up[3] = up[2] \o Upgrades[3]
    <3>1. from < 3 /\ from < 2
      BY <1>8
    <3>2. QED BY <1>1, <1>3, <1>4, <1>8, <3>1
  <2>2. QED BY <1>1, <1>2, <1>8, <2>1
<1>9. CASE from = 0
  <2>1. /\ up[0] = <<>> /\ up[1] = up[0] \o Upgrades[1]
        /\ up[2] = up[1] \o Upgrades[2] /\ up[3] = up[2] \o Upgrades[3]
    <3>1. from < 3 /\ from < 2 /\ from < 1
      BY <1>9
    <3>2. QED BY <1>1, <1>3, <1>4, <1>5, <1>9, <3>1
  <2>2. QED BY <1>1, <1>2, <1>9, <2>1
<1>10. QED BY <1>6, <1>7, <1>8, <1>9 DEF Revisions

\* The first statements on the way up.
LEMMA FirstStatements ==
  /\ ToHead(3) = <<>>
  /\ Len(ToHead(2)) >= 1 /\ ToHead(2)[1] = Upgrade0003[1]
  /\ Len(ToHead(1)) >= 1 /\ ToHead(1)[1] = Upgrade0002[1]
  /\ Len(ToHead(0)) >= 2 /\ ToHead(0)[1] = Stamp(0, 1) /\ ToHead(0)[2] = Upgrade0002[1]
<1>1. 0 \in Revisions /\ 1 \in Revisions /\ 2 \in Revisions /\ 3 \in Revisions
  BY DEF Revisions
<1>2. /\ Upgrades[1] = <<Stamp(0, 1)>> /\ Upgrades[2] = Upgrade0002 \o <<Stamp(1, 2)>>
      /\ Upgrades[3] = Upgrade0003 \o <<Stamp(2, 3)>>
  BY DEF Upgrades
<1>3. PICK one \in Seq(Statements) : one = Upgrades[1]
  BY UpgradeReaches
<1>4. PICK two \in Seq(Statements) : two = Upgrades[2]
  BY UpgradeReaches
<1>5. PICK three \in Seq(Statements) : three = Upgrades[3]
  BY UpgradeReaches
<1>6. Len(one) = 1 /\ one[1] = Stamp(0, 1)
  BY <1>2, <1>3
<1>7. Len(two) >= 1 /\ two[1] = Upgrade0002[1]
  <2>1. PICK making \in Seq(Statements) : making = Upgrade0002
    BY ProgramsAreSequences
  <2>2. PICK stamp \in Seq(Statements) : stamp = <<Stamp(1, 2)>>
    BY <1>1, ProgramsAreSequences
  <2>3. Len(making) = 29 /\ two = making \o stamp
    BY <1>2, <1>4, <2>1, <2>2, MadeBy0002
  <2>4. Len(two) >= 1 /\ two[1] = making[1]
    <3>1. Len(making) \in Nat /\ Len(stamp) \in Nat /\ 1 \in 1..Len(making)
      BY <2>3
    <3>2. Len(making \o stamp) = Len(making) + Len(stamp)
      OBVIOUS
    <3>3. (making \o stamp)[1] = making[1]
      BY <3>1
    <3>4. QED BY <2>3, <3>1, <3>2, <3>3
  <2>5. QED BY <2>1, <2>4
<1>8. Len(three) >= 1 /\ three[1] = Upgrade0003[1]
  <2>1. PICK making \in Seq(Statements) : making = Upgrade0003
    BY ProgramsAreSequences
  <2>2. PICK stamp \in Seq(Statements) : stamp = <<Stamp(2, 3)>>
    BY <1>1, ProgramsAreSequences
  <2>3. Len(making) = 18 /\ three = making \o stamp
    BY <1>2, <1>5, <2>1, <2>2, MadeBy0003
  <2>4. Len(three) >= 1 /\ three[1] = making[1]
    <3>1. Len(making) \in Nat /\ Len(stamp) \in Nat /\ 1 \in 1..Len(making)
      BY <2>3
    <3>2. Len(making \o stamp) = Len(making) + Len(stamp)
      OBVIOUS
    <3>3. (making \o stamp)[1] = making[1]
      BY <3>1
    <3>4. QED BY <2>3, <3>1, <3>2, <3>3
  <2>5. QED BY <2>1, <2>4
<1>9. ToHead(3) = <<>>
  BY <1>1, StepsToHead
<1>10. ToHead(2) = three
  <2>1. ToHead(2) = <<>> \o three
    BY <1>1, <1>5, StepsToHead
  <2>2. QED BY <2>1
<1>11. ToHead(1) = two \o three
  <2>1. ToHead(1) = (<<>> \o two) \o three
    BY <1>1, <1>4, <1>5, StepsToHead
  <2>2. QED BY <2>1
<1>12. ToHead(0) = (one \o two) \o three
  <2>1. ToHead(0) = ((<<>> \o one) \o two) \o three
    BY <1>1, <1>3, <1>4, <1>5, StepsToHead
  <2>2. QED BY <2>1
<1>13. Len(ToHead(1)) >= 1 /\ ToHead(1)[1] = Upgrade0002[1]
  <2>1. PICK all : all = ToHead(1)
    OBVIOUS
  <2>2. all = two \o three
    BY <1>11, <2>1
  <2>3. Len(all) >= 1 /\ all[1] = two[1]
    BY <1>7, <2>2
  <2>4. QED BY <1>7, <2>1, <2>3
<1>14. Len(ToHead(0)) >= 2 /\ ToHead(0)[1] = Stamp(0, 1) /\ ToHead(0)[2] = Upgrade0002[1]
  <2>1. PICK both : both = one \o two
    OBVIOUS
  <2>2. /\ both \in Seq(Statements) /\ Len(both) >= 2
        /\ both[1] = Stamp(0, 1) /\ both[2] = Upgrade0002[1]
    <3>1. Len(two) \in Nat /\ 1 \in 1..Len(one) /\ 1 \in 1..Len(two) /\ 1 + 1 = 2
      BY <1>6, <1>7
    <3>2. Len(one \o two) = Len(one) + Len(two) /\ one \o two \in Seq(Statements)
      OBVIOUS
    <3>3. (one \o two)[1] = one[1]
      BY <3>1
    <3>4. (one \o two)[Len(one) + 1] = two[1]
      BY <3>1
    <3>5. QED BY <1>6, <1>7, <2>1, <3>1, <3>2, <3>3, <3>4
  <2>3. PICK all : all = ToHead(0)
    OBVIOUS
  <2>4. all = both \o three
    BY <1>12, <2>1, <2>3
  <2>5. Len(all) >= 2 /\ all[1] = both[1] /\ all[2] = both[2]
    BY <2>2, <2>4
  <2>6. QED BY <2>2, <2>3, <2>5
<1>15. QED BY <1>8, <1>9, <1>10, <1>13, <1>14

\* The first statement of 0002 and of 0003 makes something, and is refused where
\* that is there.
LEMMA FirstOfUpgrades ==
  /\ Upgrade0002[1].makes # {} /\ Upgrade0002[1].unless \intersect Made(Upgrade0002) # {}
  /\ Upgrade0003[1].makes # {} /\ Upgrade0003[1].unless \intersect Additions # {}
<1>1. Upgrade0002[1] = CreateTable(Names0002[1])
  <2>1. Created0002[1] = Table("crypto_assets") /\ Names0002[1] = "crypto_assets"
    BY DEF Created0002, Names0002
  <2>2. Upgrade0002[1] = Creating(Table(Names0002[1]))
    BY <2>1, CreatedObjects DEF Upgrade0002
  <2>3. QED BY <2>2, CreationMakes
<1>2. /\ Upgrade0002[1].unless = Upgrade0002[1].makes
      /\ TableObjects(Tables0002[1]) \subseteq Upgrade0002[1].makes
  <2>1. ASSUME NEW k \in 1..16
        PROVE  /\ CreateTable(Names0002[k]).unless = CreateTable(Names0002[k]).makes
               /\ TableObjects(Tables0002[k]) \subseteq CreateTable(Names0002[k]).makes
    BY TableCreation
  <2>2. 1 \in 1..16
    OBVIOUS
  <2>3. QED BY <1>1, <2>1, <2>2
<1>3. <<"table", Tables0002[1].table>> \in TableObjects(Tables0002[1])
  BY DEF TableObjects
<1>4. TableObjects(Tables0002[1]) \subseteq Made(Upgrade0002)
  BY MadeBy0002 DEF TableParts
<1>5. Upgrade0003[1] = Add(Additions0003[1]) /\ Additions0003[1] \in Additions
  BY MadeBy0003 DEF Upgrade0003, Additions
<1>6. Upgrade0003[1].makes = {Additions0003[1]} /\ Upgrade0003[1].unless = {Additions0003[1]}
  BY <1>5 DEF Add
<1>7. QED BY <1>2, <1>3, <1>4, <1>5, <1>6

\* What a container sets out to do on a schema.
WorkOn(s, r) == (IF VersionTable \in s THEN <<>> ELSE <<CreateVersionTable>>) \o ToHead(r)

\* It leads to head.
LEMMA WorkReachesHead ==
  /\ \A r \in Revisions : /\ WorkOn(SchemaAt(r), r) = ToHead(r)
                          /\ WorkOn(SchemaAt(r), r) \in Seq(Statements)
                          /\ Leads(SchemaAt(r), WorkOn(SchemaAt(r), r), SchemaAt(HeadRevision))
  /\ WorkOn({}, 0) = <<CreateVersionTable>> \o ToHead(0)
  /\ WorkOn({}, 0) \in Seq(Statements) /\ Leads({}, WorkOn({}, 0), SchemaAt(HeadRevision))
<1>1. ASSUME NEW r \in Revisions
      PROVE  /\ WorkOn(SchemaAt(r), r) = ToHead(r)
             /\ WorkOn(SchemaAt(r), r) \in Seq(Statements)
             /\ Leads(SchemaAt(r), WorkOn(SchemaAt(r), r), SchemaAt(HeadRevision))
  <2>1. VersionTable \in SchemaAt(r)
    BY DEF SchemaAt
  <2>2. ToHead(r) \in Seq(Statements) /\ Leads(SchemaAt(r), ToHead(r), SchemaAt(HeadRevision))
    BY HeadIsReached
  <2>3. WorkOn(SchemaAt(r), r) = <<>> \o ToHead(r)
    BY <2>1 DEF WorkOn
  <2>4. <<>> \o ToHead(r) = ToHead(r)
    BY <2>2
  <2>5. QED BY <2>2, <2>3, <2>4
<1>2. 0 \in Revisions
  BY DEF Revisions
<1>3. ToHead(0) \in Seq(Statements) /\ Leads(SchemaAt(0), ToHead(0), SchemaAt(HeadRevision))
  BY <1>2, HeadIsReached
<1>4. <<CreateVersionTable>> \in Seq(Statements)
  BY DEF Statements
<1>5. WorkOn({}, 0) = <<CreateVersionTable>> \o ToHead(0)
  BY DEF WorkOn
<1>6. Leads({}, <<CreateVersionTable>>, SchemaAt(0))
  <2>1. PICK s : s = CreateVersionTable
    OBVIOUS
  <2>2. s.needs = {} /\ s.unless = {VersionTable} /\ s.makes = {VersionTable} /\ s.drops = {}
    BY <2>1 DEF CreateVersionTable
  <2>3. Succeeds(s, {}) /\ After({}, s) = SchemaAt(0)
    BY <2>2, SchemasAre DEF Succeeds, After
  <2>4. Leads({}, <<s>>, After({}, s))
    BY <2>3, OneLeads
  <2>5. QED BY <2>1, <2>3, <2>4
<1>7. /\ <<CreateVersionTable>> \o ToHead(0) \in Seq(Statements)
      /\ Leads({}, <<CreateVersionTable>> \o ToHead(0), SchemaAt(HeadRevision))
  BY <1>3, <1>4, <1>6, OnesAndOthers
<1>8. QED BY <1>1, <1>5, <1>7

\* Its first statement touches something.  On the schema of head that statement
\* is refused, or it is the stamp of the first revision and the next is refused.
FindsHead(p) ==
  \/ p[1].unless \intersect SchemaAt(HeadRevision) # {}
  \/ p[1] = Stamp(0, 1) /\ Len(p) >= 2 /\ p[2].unless \intersect Made(Upgrade0002) # {}

LEMMA BeginningOfWork ==
  /\ \A r \in Revisions : LET p == WorkOn(SchemaAt(r), r)
                          IN  p # <<>> => p[1].makes # {} /\ FindsHead(p)
  /\ WorkOn({}, 0) # <<>> /\ WorkOn({}, 0)[1].makes # {} /\ FindsHead(WorkOn({}, 0))
<1>1. SchemaAt(HeadRevision) = Made(Upgrade0002) \union Additions \union {VersionTable} \union {Version(3)}
  BY BooksOfRevisions DEF SchemaAt, Stamped, HeadRevision
<1>2. ASSUME NEW r \in Revisions, ToHead(r) # <<>> PROVE ToHead(r)[1].makes # {} /\ FindsHead(ToHead(r))
  <2>1. CASE r = 3
    BY <1>2, <2>1, FirstStatements
  <2>2. CASE r = 2
    BY <1>1, <2>2, FirstStatements, FirstOfUpgrades DEF FindsHead
  <2>3. CASE r = 1
    BY <1>1, <2>3, FirstStatements, FirstOfUpgrades DEF FindsHead
  <2>4. CASE r = 0
    <3>1. Stamp(0, 1).makes # {}
      BY DEF Stamp, Stamped
    <3>2. QED BY <2>4, <3>1, FirstStatements, FirstOfUpgrades DEF FindsHead
  <2>5. QED BY <2>1, <2>2, <2>3, <2>4 DEF Revisions
<1>3. \A r \in Revisions : WorkOn(SchemaAt(r), r) = ToHead(r)
  BY WorkReachesHead
<1>4. /\ WorkOn({}, 0) = <<CreateVersionTable>> \o ToHead(0)
      /\ <<CreateVersionTable>> \o ToHead(0) # <<>>
      /\ (<<CreateVersionTable>> \o ToHead(0))[1] = CreateVersionTable
  <2>1. 0 \in Revisions
    BY DEF Revisions
  <2>2. ToHead(0) \in Seq(Statements)
    BY <2>1, HeadIsReached
  <2>3. <<CreateVersionTable>> \o ToHead(0) # <<>>
        /\ (<<CreateVersionTable>> \o ToHead(0))[1] = CreateVersionTable
    BY <2>2
  <2>4. QED BY <2>3, WorkReachesHead
<1>5. CreateVersionTable.makes = {VersionTable} /\ CreateVersionTable.unless = {VersionTable}
  BY DEF CreateVersionTable
<1>6. WorkOn({}, 0) # <<>> /\ WorkOn({}, 0)[1].makes # {} /\ FindsHead(WorkOn({}, 0))
  BY <1>1, <1>4, <1>5 DEF FindsHead
<1>7. QED BY <1>2, <1>3, <1>6

\* The revision a schema is stamped with.
RevisionOf(s) == IF \E r \in Revisions : Version(r) \in s
                   THEN CHOOSE r \in Revisions : Version(r) \in s ELSE 0

LEMMA StampsOfSchemas ==
  ASSUME NEW r \in Revisions, NEW q \in Revisions
  PROVE  Version(q) \in SchemaAt(r) <=> (q = r /\ r # 0)
<1>1. Version(q) \notin SchemaOf(r) /\ Version(q) # VersionTable
  BY BooksOfRevisions, BooksAreApart
<1>2. Version(q) \in Stamped(r) <=> (q = r /\ r # 0)
  BY BooksAreApart DEF Stamped
<1>3. QED BY <1>1, <1>2 DEF SchemaAt

LEMMA RevisionOfSchema ==
  /\ \A r \in Revisions : RevisionOf(SchemaAt(r)) = r
  /\ RevisionOf({}) = 0
<1>1. ASSUME NEW r \in Revisions PROVE RevisionOf(SchemaAt(r)) = r
  <2>1. CASE r = 0
    BY <2>1, StampsOfSchemas DEF RevisionOf
  <2>2. CASE r # 0
    BY <2>2, StampsOfSchemas DEF RevisionOf
  <2>3. QED BY <2>1, <2>2
<1>2. RevisionOf({}) = 0
  BY DEF RevisionOf
<1>3. QED BY <1>1, <1>2

-----------------------------------------------------------------------------
(* The schema of head, and the models. *)

\* The models, in the order of their tables.
ModelsInOrder ==
  <<CryptoAsset, Customer, User, Account, AuditEvent, BehaviourBaseline, Beneficiary,
    Device, TransactionChannel, Session, CyberEvent, Transaction, Incident, AnalystAction,
    RiskContribution, ScenarioRun>>

\* A model that declares what 0002 created, its indexes aside.
AsCreated(m, d) ==
  m.table = d.table /\ m.refs = d.refs /\ m.types = d.types /\ m.checks = d.checks
    /\ m.uniques = d.uniques /\ m.columns = {}

\* The tables that 0003 adds to are the others.
LEMMA FieldsOfModels ==
  /\ \A k \in 1..16 : k \notin {6, 13, 15} => AsCreated(ModelsInOrder[k], Tables0002[k])
  /\ \A k \in {1, 2, 3, 4, 7, 8, 9, 10, 15, 16} : ModelsInOrder[k].indexes = {}
  /\ ModelsInOrder[5].indexes = {"entity_created_at", "request_id"}
  /\ ModelsInOrder[6].indexes = {"customer_id"}
  /\ ModelsInOrder[11].indexes = {"session_event_time"}
  /\ ModelsInOrder[12].indexes = {"account_created_at"}
  /\ ModelsInOrder[13].indexes = {"severity_created_at", "status_created_at", "customer_created_at", "transaction", "scenario_key"}
  /\ ModelsInOrder[14].indexes = {"incident_created_at"}
<1> USE DEF AsCreated
<1>1. AsCreated(CryptoAsset, crypto_assets) /\ CryptoAsset.indexes = {}
  BY DEF CryptoAsset, crypto_assets
<1>2. AsCreated(Customer, customers) /\ Customer.indexes = {}
  BY DEF Customer, customers
<1>3. AsCreated(User, users) /\ User.indexes = {}
  BY DEF User, users
<1>4. AsCreated(Account, accounts) /\ Account.indexes = {}
  BY DEF Account, accounts
<1>5. AsCreated(AuditEvent, audit_events) /\ AuditEvent.indexes = {"entity_created_at", "request_id"}
  BY DEF AuditEvent, audit_events
<1>6. AsCreated(Beneficiary, beneficiaries) /\ Beneficiary.indexes = {}
  BY DEF Beneficiary, beneficiaries
<1>7. AsCreated(Device, devices) /\ Device.indexes = {}
  BY DEF Device, devices
<1>8. AsCreated(TransactionChannel, transaction_channels) /\ TransactionChannel.indexes = {}
  BY DEF TransactionChannel, transaction_channels
<1>9. AsCreated(Session, sessions) /\ Session.indexes = {}
  BY DEF Session, sessions
<1>10. AsCreated(CyberEvent, cyber_events) /\ CyberEvent.indexes = {"session_event_time"}
  BY DEF CyberEvent, cyber_events
<1>11. AsCreated(Transaction, transactions) /\ Transaction.indexes = {"account_created_at"}
  BY DEF Transaction, transactions
<1>12. AsCreated(AnalystAction, analyst_actions) /\ AnalystAction.indexes = {"incident_created_at"}
  BY DEF AnalystAction, analyst_actions
<1>13. AsCreated(ScenarioRun, scenario_runs) /\ ScenarioRun.indexes = {}
  BY DEF ScenarioRun, scenario_runs
<1>14. RiskContribution.indexes = {}
  BY DEF RiskContribution
<1>15. BehaviourBaseline.indexes = {"customer_id"}
  BY DEF BehaviourBaseline
<1>16. Incident.indexes = {"severity_created_at", "status_created_at", "customer_created_at", "transaction", "scenario_key"}
  BY DEF Incident
<1> HIDE DEF AsCreated
<1>17. \A k \in 1..16 : k \notin {6, 13, 15} => AsCreated(ModelsInOrder[k], Tables0002[k])
  BY <1>1, <1>2, <1>3, <1>4, <1>5, <1>6, <1>7, <1>8, <1>9, <1>10, <1>11, <1>12, <1>13, <1>14, <1>15, <1>16 DEF ModelsInOrder, Tables0002
<1>18. QED BY <1>1, <1>2, <1>3, <1>4, <1>5, <1>6, <1>7, <1>8, <1>9, <1>10, <1>11, <1>12, <1>13, <1>14, <1>15, <1>16, <1>17 DEF ModelsInOrder

TypesOf(d) == {<<"type", n>> : n \in d.types}

IndexesOf(m) == {<<"index", m.table, n>> : n \in m.indexes}

Further(table, refs, checks, uniques, columns) ==
  {<<"fk", table, r[1], r[2], r[3]>> : r \in refs}
    \union {<<"check", table, n>> : n \in checks}
    \union {<<"unique", table, n>> : n \in uniques}
    \union {<<"column", table, n>> : n \in columns}

\* What a model needs, when it declares more than was created with its table.
LEMMA ObjectsOfModel ==
  ASSUME NEW m, NEW d, NEW refs, NEW checks, NEW uniques,
         m.table = d.table, m.types = d.types, m.refs = d.refs \union refs,
         m.checks = d.checks \union checks, m.uniques = d.uniques \union uniques
  PROVE  ModelObjects(m) =
           TableObjects(d) \union TypesOf(d) \union IndexesOf(m)
             \union Further(d.table, refs, checks, uniques, m.columns)
<1>1. {<<"fk", d.table, r[1], r[2], r[3]>> : r \in d.refs \union refs}
        = {<<"fk", d.table, r[1], r[2], r[3]>> : r \in d.refs}
            \union {<<"fk", d.table, r[1], r[2], r[3]>> : r \in refs}
  OBVIOUS
<1>2. {<<"check", d.table, n>> : n \in d.checks \union checks}
        = {<<"check", d.table, n>> : n \in d.checks} \union {<<"check", d.table, n>> : n \in checks}
  OBVIOUS
<1>3. {<<"unique", d.table, n>> : n \in d.uniques \union uniques}
        = {<<"unique", d.table, n>> : n \in d.uniques}
            \union {<<"unique", d.table, n>> : n \in uniques}
  OBVIOUS
<1> DEFINE oldRefs == {<<"fk", d.table, r[1], r[2], r[3]>> : r \in d.refs}
           newRefs == {<<"fk", d.table, r[1], r[2], r[3]>> : r \in refs}
           oldChecks == {<<"check", d.table, n>> : n \in d.checks}
           newChecks == {<<"check", d.table, n>> : n \in checks}
           oldUniques == {<<"unique", d.table, n>> : n \in d.uniques}
           newUniques == {<<"unique", d.table, n>> : n \in uniques}
           uses == {<<"uses", d.table, n>> : n \in d.types}
           types == {<<"type", n>> : n \in d.types}
           indexes == {<<"index", d.table, n>> : n \in m.indexes}
           columns == {<<"column", d.table, n>> : n \in m.columns}
<1>4. TableObjects(d) = {<<"table", d.table>>} \union uses \union oldRefs \union oldChecks \union oldUniques
  BY DEF TableObjects
<1>5. TableObjects(m) = {<<"table", d.table>>} \union uses \union (oldRefs \union newRefs)
                          \union (oldChecks \union newChecks) \union (oldUniques \union newUniques)
  BY <1>1, <1>2, <1>3 DEF TableObjects
<1>6. ModelObjects(m) = TableObjects(m) \union types \union indexes \union columns
  BY DEF ModelObjects
<1> HIDE DEF oldRefs, newRefs, oldChecks, newChecks, oldUniques, newUniques, uses, types, indexes, columns
<1>7. ModelObjects(m) = TableObjects(d) \union types \union indexes
                          \union (newRefs \union newChecks \union newUniques \union columns)
  BY <1>4, <1>5, <1>6
<1>8. types = TypesOf(d) /\ indexes = IndexesOf(m)
  BY DEF TypesOf, IndexesOf, types, indexes
<1>9. newRefs \union newChecks \union newUniques \union columns
        = Further(d.table, refs, checks, uniques, m.columns)
  BY DEF Further, newRefs, newChecks, newUniques, columns
<1>10. QED BY <1>7, <1>8, <1>9

\* What 0003 adds, table by table.
AddedTo(k) ==
  CASE k = 6 -> {Additions0003[j] : j \in 1..6}
    [] k = 13 -> {Additions0003[j] : j \in 7..14}
    [] k = 15 -> {Additions0003[j] : j \in 15..18}
    [] OTHER -> {}

LEMMA ObjectsOfModels ==
  ASSUME NEW k \in 1..16
  PROVE  ModelObjects(ModelsInOrder[k]) =
           TableObjects(Tables0002[k]) \union TypesOf(Tables0002[k])
             \union IndexesOf(ModelsInOrder[k]) \union AddedTo(k)
<1> DEFINE d == Tables0002[k]
           m == ModelsInOrder[k]
<1>1. d.table = Names0002[k]
  BY TablesByName
<1>2. CASE k \notin {6, 13, 15}
  <2>0. PICK refs, checks, uniques :
          refs = {} /\ checks = {} /\ uniques = {}
    OBVIOUS
  <2>1. /\ m.table = d.table /\ m.types = d.types /\ m.refs = d.refs \union refs
        /\ m.checks = d.checks \union checks /\ m.uniques = d.uniques \union uniques /\ m.columns = {}
    BY <1>2, <2>0, FieldsOfModels DEF AsCreated
  <2> HIDE DEF d, m
  <2>2. ModelObjects(m) =
          TableObjects(d) \union TypesOf(d) \union IndexesOf(m)
            \union Further(d.table, refs, checks, uniques, m.columns)
    BY <2>1, ObjectsOfModel
  <2>3. AddedTo(k) = {}
    BY <1>2 DEF AddedTo
  <2>4. Further(d.table, refs, checks, uniques, m.columns) = {}
    BY <2>0, <2>1 DEF Further
  <2>5. QED BY <2>2, <2>3, <2>4 DEF d, m
<1>3. CASE k = 6
  <2>0. PICK refs, checks, uniques :
          refs = {} /\ checks = {"velocity_30m_nonnegative"} /\ uniques = {"customer"}
    OBVIOUS
  <2>1. d = behavioural_baselines /\ m = BehaviourBaseline
    BY <1>3 DEF Tables0002, ModelsInOrder
  <2>2. /\ m.table = d.table /\ m.types = d.types /\ m.refs = d.refs \union refs
        /\ m.checks = d.checks \union checks
        /\ m.uniques = d.uniques \union uniques
        /\ m.columns = {"known_device_ids", "known_beneficiary_ids", "usual_destination_risks",
                        "typical_transaction_velocity_30m"}
        /\ d.table = "behavioural_baselines"
    BY <2>0, <2>1 DEF behavioural_baselines, BehaviourBaseline
  <2>3. AddedTo(k) = Further(d.table, refs, checks, uniques, m.columns)
    <3>1. AddedTo(k) = {Additions0003[j] : j \in 1..6}
      BY <1>3 DEF AddedTo
    <3>2. /\ Additions0003[1] = <<"column", "behavioural_baselines", "known_device_ids">>
          /\ Additions0003[2] = <<"column", "behavioural_baselines", "known_beneficiary_ids">>
          /\ Additions0003[3] = <<"column", "behavioural_baselines", "usual_destination_risks">>
          /\ Additions0003[4] =
               <<"column", "behavioural_baselines", "typical_transaction_velocity_30m">>
          /\ Additions0003[5] = <<"check", "behavioural_baselines", "velocity_30m_nonnegative">>
          /\ Additions0003[6] = <<"unique", "behavioural_baselines", "customer">>
      BY DEF Additions0003
    <3>3. {Additions0003[j] : j \in 1..6} =
            {Additions0003[1], Additions0003[2], Additions0003[3], Additions0003[4],
             Additions0003[5], Additions0003[6]}
      OBVIOUS
    <3> HIDE DEF d, m
    <3>4. QED BY <2>0, <2>2, <3>1, <3>2, <3>3 DEF Further
  <2> HIDE DEF d, m
  <2>4. ModelObjects(m) =
          TableObjects(d) \union TypesOf(d) \union IndexesOf(m)
            \union Further(d.table, refs, checks, uniques, m.columns)
    BY <2>2, ObjectsOfModel
  <2>5. QED BY <2>3, <2>4 DEF d, m
<1>4. CASE k = 13
  <2>0. PICK refs, checks, uniques :
          refs = {} /\ checks = {"raw_fused_score_range"} /\ uniques = {}
    OBVIOUS
  <2>1. d = incidents /\ m = Incident
    BY <1>4 DEF Tables0002, ModelsInOrder
  <2>2. /\ m.table = d.table /\ m.types = d.types /\ m.refs = d.refs \union refs
        /\ m.checks = d.checks \union checks
        /\ m.uniques = d.uniques \union uniques
        /\ m.columns = {"raw_fused_score", "summary", "signal_narrative", "decision_explanation",
                        "action_explanation", "engine_version", "model_version"}
        /\ d.table = "incidents"
    BY <2>0, <2>1 DEF incidents, Incident
  <2>3. AddedTo(k) = Further(d.table, refs, checks, uniques, m.columns)
    <3>1. AddedTo(k) = {Additions0003[j] : j \in 7..14}
      BY <1>4 DEF AddedTo
    <3>2. /\ Additions0003[7] = <<"column", "incidents", "raw_fused_score">>
          /\ Additions0003[8] = <<"column", "incidents", "summary">>
          /\ Additions0003[9] = <<"column", "incidents", "signal_narrative">>
          /\ Additions0003[10] = <<"column", "incidents", "decision_explanation">>
          /\ Additions0003[11] = <<"column", "incidents", "action_explanation">>
          /\ Additions0003[12] = <<"column", "incidents", "engine_version">>
          /\ Additions0003[13] = <<"column", "incidents", "model_version">>
          /\ Additions0003[14] = <<"check", "incidents", "raw_fused_score_range">>
      BY DEF Additions0003
    <3>3. {Additions0003[j] : j \in 7..14} =
            {Additions0003[7], Additions0003[8], Additions0003[9], Additions0003[10],
             Additions0003[11], Additions0003[12], Additions0003[13], Additions0003[14]}
      OBVIOUS
    <3> HIDE DEF d, m
    <3>4. QED BY <2>0, <2>2, <3>1, <3>2, <3>3 DEF Further
  <2> HIDE DEF d, m
  <2>4. ModelObjects(m) =
          TableObjects(d) \union TypesOf(d) \union IndexesOf(m)
            \union Further(d.table, refs, checks, uniques, m.columns)
    BY <2>2, ObjectsOfModel
  <2>5. QED BY <2>3, <2>4 DEF d, m
<1>5. CASE k = 15
  <2> DEFINE one == <<"source_transaction_id", "transactions", "SET NULL">>
             two == <<"source_baseline_id", "behavioural_baselines", "SET NULL">>
  <2>0. PICK refs, checks, uniques :
          refs = {one, two} /\ checks = {} /\ uniques = {}
    OBVIOUS
  <2>1. d = risk_contributions /\ m = RiskContribution
    BY <1>5 DEF Tables0002, ModelsInOrder
  <2>2. /\ m.table = d.table /\ m.types = d.types /\ m.refs = d.refs \union refs
        /\ m.checks = d.checks \union checks /\ m.uniques = d.uniques \union uniques
        /\ m.columns = {"source_transaction_id", "source_baseline_id"}
        /\ d.table = "risk_contributions"
    <3>1. risk_contributions.refs = {<<"incident_id", "incidents", "CASCADE">>,
                                     <<"source_event_id", "cyber_events", "SET NULL">>}
      BY DEF risk_contributions
    <3>2. RiskContribution.refs = {<<"incident_id", "incidents", "CASCADE">>,
                                   <<"source_event_id", "cyber_events", "SET NULL">>, one, two}
      BY DEF RiskContribution
    <3>3. m.refs = d.refs \union refs
      <4> HIDE DEF one, two
      <4>1. QED BY <2>0, <2>1, <3>1, <3>2
    <3>4. /\ RiskContribution.table = "risk_contributions"
          /\ risk_contributions.table = "risk_contributions"
      BY DEF risk_contributions, RiskContribution
    <3>5. RiskContribution.types = risk_contributions.types
      BY DEF risk_contributions, RiskContribution
    <3>6. RiskContribution.checks = risk_contributions.checks
      BY DEF risk_contributions, RiskContribution
    <3>7. RiskContribution.uniques = risk_contributions.uniques
      BY DEF risk_contributions, RiskContribution
    <3>8. RiskContribution.columns = {"source_transaction_id", "source_baseline_id"}
      BY DEF RiskContribution
    <3> HIDE DEF m, d
    <3>9. QED BY <2>0, <2>1, <3>3, <3>4, <3>5, <3>6, <3>7, <3>8
  <2>3. AddedTo(k) = Further(d.table, refs, checks, uniques, m.columns)
    <3>1. AddedTo(k) = {Additions0003[j] : j \in 15..18}
      BY <1>5 DEF AddedTo
    <3>2. /\ Additions0003[15] = <<"column", "risk_contributions", "source_transaction_id">>
          /\ Additions0003[16] = <<"column", "risk_contributions", "source_baseline_id">>
          /\ Additions0003[17] = <<"fk", "risk_contributions", one[1], one[2], one[3]>>
          /\ Additions0003[18] = <<"fk", "risk_contributions", two[1], two[2], two[3]>>
      BY DEF Additions0003
    <3>3. {Additions0003[j] : j \in 15..18} =
            {Additions0003[15], Additions0003[16], Additions0003[17], Additions0003[18]}
      OBVIOUS
    <3> HIDE DEF d, m, one, two
    <3>4. QED BY <2>0, <2>2, <3>1, <3>2, <3>3 DEF Further
  <2> HIDE DEF d, m, one, two
  <2>4. ModelObjects(m) =
          TableObjects(d) \union TypesOf(d) \union IndexesOf(m)
            \union Further(d.table, refs, checks, uniques, m.columns)
    BY <2>2, ObjectsOfModel
  <2>5. QED BY <2>3, <2>4 DEF d, m
<1>6. QED BY <1>2, <1>3, <1>4, <1>5

\* The indexes of the models are those that 0002 creates.
LEMMA IndexesOfModels == UNION {IndexesOf(ModelsInOrder[k]) : k \in 1..16} = IndexParts
<1> DEFINE of(k) == IndexesOf(ModelsInOrder[k])
<1>1. IndexParts =
        {<<"index", "audit_events", "entity_created_at">>, <<"index", "audit_events", "request_id">>,
         <<"index", "behavioural_baselines", "customer_id">>,
         <<"index", "cyber_events", "session_event_time">>,
         <<"index", "transactions", "account_created_at">>,
         <<"index", "incidents", "customer_created_at">>,
         <<"index", "incidents", "severity_created_at">>,
         <<"index", "incidents", "status_created_at">>,
         <<"index", "incidents", "transaction">>, <<"index", "incidents", "scenario_key">>,
         <<"index", "analyst_actions", "incident_created_at">>}
  BY DEF IndexParts, Indexes0002, Index
<1>2. /\ ModelsInOrder[5].table = "audit_events"
      /\ ModelsInOrder[6].table = "behavioural_baselines"
      /\ ModelsInOrder[11].table = "cyber_events" /\ ModelsInOrder[12].table = "transactions"
      /\ ModelsInOrder[13].table = "incidents" /\ ModelsInOrder[14].table = "analyst_actions"
  BY DEF ModelsInOrder, AuditEvent, BehaviourBaseline, CyberEvent, Transaction, Incident,
         AnalystAction
<1>3. \A k \in {1, 2, 3, 4, 7, 8, 9, 10, 15, 16} : of(k) = {}
  BY FieldsOfModels DEF IndexesOf
<1>4. of(5) = {<<"index", "audit_events", "entity_created_at">>,
                      <<"index", "audit_events", "request_id">>}
  BY <1>2, FieldsOfModels DEF IndexesOf
<1>5. of(6) = {<<"index", "behavioural_baselines", "customer_id">>}
  BY <1>2, FieldsOfModels DEF IndexesOf
<1>6. of(11) = {<<"index", "cyber_events", "session_event_time">>}
  BY <1>2, FieldsOfModels DEF IndexesOf
<1>7. of(12) = {<<"index", "transactions", "account_created_at">>}
  BY <1>2, FieldsOfModels DEF IndexesOf
<1>8. of(13) = {<<"index", "incidents", "severity_created_at">>,
                       <<"index", "incidents", "status_created_at">>,
                       <<"index", "incidents", "customer_created_at">>,
                       <<"index", "incidents", "transaction">>,
                       <<"index", "incidents", "scenario_key">>}
  BY <1>2, FieldsOfModels DEF IndexesOf
<1>9. of(14) = {<<"index", "analyst_actions", "incident_created_at">>}
  BY <1>2, FieldsOfModels DEF IndexesOf
<1> HIDE DEF of
<1>10. UNION {of(k) : k \in 1..16} =
         of(5) \union of(6) \union of(11) \union of(12)
           \union of(13) \union of(14)
  <2>1. \A k \in 1..16 : k \in {1, 2, 3, 4, 7, 8, 9, 10, 15, 16} \/ k \in {5, 6, 11, 12, 13, 14}
    OBVIOUS
  <2>2. QED BY <1>3, <2>1
<1>11. UNION {of(k) : k \in 1..16} = IndexParts
  BY <1>1, <1>4, <1>5, <1>6, <1>7, <1>8, <1>9, <1>10
<1>12. QED BY <1>11 DEF of

\* At head there is what the models need, and the guard of the audit events.
LEMMA HeadIsWhatModelsNeed ==
  SchemaOf(HeadRevision) = Metadata \union {AuditFunction, AuditTrigger}
<1>1. SchemaOf(HeadRevision) = Made(Upgrade0002) \union Additions
  BY BooksOfRevisions DEF HeadRevision
<1>2. Metadata = UNION {ModelObjects(ModelsInOrder[k]) : k \in 1..16}
  <2>1. \A k \in 1..16 : ModelsInOrder[k] \in Models
    BY DEF ModelsInOrder, Models
  <2>2. \A m \in Models : \E k \in 1..16 : m = ModelsInOrder[k]
    BY DEF ModelsInOrder, Models
  <2>3. QED BY <2>1, <2>2 DEF Metadata
<1>3. Additions = UNION {AddedTo(k) : k \in 1..16}
  <2>1. \A j \in 1..18 : j \in 1..6 \/ j \in 7..14 \/ j \in 15..18
    OBVIOUS
  <2>2. /\ AddedTo(6) = {Additions0003[j] : j \in 1..6}
        /\ AddedTo(13) = {Additions0003[j] : j \in 7..14}
        /\ AddedTo(15) = {Additions0003[j] : j \in 15..18}
        /\ \A k \in 1..16 : k \notin {6, 13, 15} => AddedTo(k) = {}
    BY DEF AddedTo
  <2>3. Additions \subseteq UNION {AddedTo(k) : k \in 1..16}
    <3>1. SUFFICES ASSUME NEW j \in 1..18
                   PROVE  \E k \in 1..16 : Additions0003[j] \in AddedTo(k)
      BY DEF Additions
    <3>2. Additions0003[j] \in AddedTo(6) \/ Additions0003[j] \in AddedTo(13)
            \/ Additions0003[j] \in AddedTo(15)
      BY <2>1, <2>2
    <3>3. 6 \in 1..16 /\ 13 \in 1..16 /\ 15 \in 1..16
      OBVIOUS
    <3>4. QED BY <3>2, <3>3
  <2>4. \A k \in 1..16 : AddedTo(k) \subseteq Additions
    <3>1. AddedTo(6) \subseteq Additions /\ AddedTo(13) \subseteq Additions
          /\ AddedTo(15) \subseteq Additions
      BY <2>2 DEF Additions
    <3>2. QED BY <2>2, <3>1
  <2>5. QED BY <2>3, <2>4
<1>4. ASSUME NEW o PROVE o \in Metadata <=> o \in TableParts \union TypeParts \union IndexParts
                                                    \union Additions
  <2>1. o \in Metadata <=> \E k \in 1..16 : o \in ModelObjects(ModelsInOrder[k])
    BY <1>2
  <2>2. \A k \in 1..16 : o \in ModelObjects(ModelsInOrder[k]) <=>
          \/ o \in TableObjects(Tables0002[k])
          \/ o \in TypesOf(Tables0002[k])
          \/ o \in IndexesOf(ModelsInOrder[k]) \/ o \in AddedTo(k)
    BY ObjectsOfModels
  <2>3. o \in TableParts <=> \E k \in 1..16 : o \in TableObjects(Tables0002[k])
    BY DEF TableParts
  <2>4. o \in TypeParts <=> \E k \in 1..16 : o \in TypesOf(Tables0002[k])
    BY DEF TypeParts, TypesOf
  <2>5. o \in IndexParts <=> \E k \in 1..16 : o \in IndexesOf(ModelsInOrder[k])
    BY IndexesOfModels
  <2>6. o \in Additions <=> \E k \in 1..16 : o \in AddedTo(k)
    BY <1>3
  <2>7. QED BY <2>1, <2>2, <2>3, <2>4, <2>5, <2>6
<1>5. QED BY <1>1, <1>4, MadeBy0002

=============================================================================
