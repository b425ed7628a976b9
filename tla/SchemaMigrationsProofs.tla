------------------------ MODULE SchemaMigrationsProofs ------------------------
(***************************************************************************)
(* Proofs about SchemaMigrations: whatever runs, fails, crashes or waits,   *)
(* the committed schema is that of a revision; a container comes to serve   *)
(* on that of head alone, which is what the models need; only a migration   *)
(* that another one has overtaken is refused a statement; and no delete of  *)
(* a reset is refused.                                                      *)
(*                                                                         *)
(* What the statements amount to is proved in MigrationProgramsProofs.     *)
(***************************************************************************)
EXTENDS MigrationProgramsProofs

-----------------------------------------------------------------------------
(* A transaction: what is left to run, what it has made and what dropped. *)

\* The schemas that are ever committed.
Reached(s) == s = {} \/ \E r \in Revisions : s = SchemaAt(r)

\* What a container sets out to do.
WorkFor(s) == WorkOn(s, RevisionOf(s))

Touched(statement) == statement.makes \union statement.drops

\* It has not run anything.
Fresh(s, p, a, d) == p = WorkFor(s) /\ a = {} /\ d = {}

\* It has begun, holds what it touched first, and is on its way to head.
Leading(s, p, a, d) ==
  /\ WorkFor(s) # <<>>
  /\ Owners(a \union d) \intersect Owners(Touched(WorkFor(s)[1])) # {}
  /\ p \in Seq(Statements)
  /\ Leads((s \ d) \union a, p, SchemaAt(HeadRevision))

\* Another one has come to head first: it can only be refused.
Late(s, p, a, d) ==
  /\ s = SchemaAt(HeadRevision)
  /\ p \in Seq(Statements) /\ p # <<>>
  /\ \/ ~Succeeds(p[1], (s \ d) \union a)
     \/ /\ a = {} /\ d = {}
        /\ p[1] = Stamp(0, 1) /\ Len(p) >= 2
        /\ p[2].unless \intersect Made(Upgrade0002) # {}

\* A downgrade is on its way to a revision.
Returning(s, p, a, d) ==
  /\ p \in Seq(Statements)
  /\ \E to \in Revisions : Leads((s \ d) \union a, p, SchemaAt(to))

\* The transactions of the migrators.
FreshIn(m) == Fresh(schema, todo[m], added[m], removed[m])
LeadingIn(m) == Leading(schema, todo[m], added[m], removed[m])
LateIn(m) == Late(schema, todo[m], added[m], removed[m])
ReturningIn(m) == Returning(schema, todo[m], added[m], removed[m])

ShapeInv ==
  /\ pc = [m \in Migrators |-> pc[m]]
  /\ todo = [m \in Migrators |-> todo[m]]
  /\ added = [m \in Migrators |-> added[m]]
  /\ removed = [m \in Migrators |-> removed[m]]

IdleInv == \A m \in Migrators : ~Migrating(m) => added[m] = {} /\ removed[m] = {}

\* An operator migrates alone.
OperatorInv ==
  Migrating(Operator) => ReturningIn(Operator) /\ \A c \in Containers : ~Migrating(c)

ContainersInv ==
  /\ \A c \in Containers : Migrating(c) => FreshIn(c) \/ LeadingIn(c) \/ LateIn(c)
  /\ \A c, e \in Containers :
       Migrating(c) /\ Migrating(e) /\ LeadingIn(c) /\ LeadingIn(e) => c = e

\* The committed schema is that of a revision; of the containers that migrate,
\* one at most is on its way, and the others wait to begin or are late.
MigrationInv ==
  ShapeInv /\ Reached(schema) /\ IdleInv /\ OperatorInv /\ ContainersInv

-----------------------------------------------------------------------------
(* What a statement does to a transaction. *)

LEMMA WorkFacts ==
  ASSUME NEW s, Reached(s)
  PROVE  /\ WorkFor(s) \in Seq(Statements)
         /\ Leads(s, WorkFor(s), SchemaAt(HeadRevision))
         /\ WorkFor(s) # <<>> => WorkFor(s)[1].makes # {} /\ FindsHead(WorkFor(s))
<1>1. CASE s = {}
  <2>1. WorkFor(s) = WorkOn({}, 0)
    BY <1>1, RevisionOfSchema DEF WorkFor
  <2>2. QED BY <1>1, <2>1, WorkReachesHead, BeginningOfWork
<1>2. ASSUME NEW r \in Revisions, s = SchemaAt(r)
      PROVE  /\ WorkFor(s) \in Seq(Statements)
             /\ Leads(s, WorkFor(s), SchemaAt(HeadRevision))
             /\ WorkFor(s) # <<>> => WorkFor(s)[1].makes # {} /\ FindsHead(WorkFor(s))
  <2>1. WorkFor(s) = WorkOn(SchemaAt(r), r)
    BY <1>2, RevisionOfSchema DEF WorkFor
  <2>2. QED BY <1>2, <2>1, WorkReachesHead, BeginningOfWork
<1>3. QED BY <1>1, <1>2 DEF Reached

\* At head there is nothing to do.
LEMMA NoWorkAtHead == WorkFor(SchemaAt(HeadRevision)) = <<>>
<1>1. HeadRevision \in Revisions
  BY DEF HeadRevision, Revisions
<1>2. WorkFor(SchemaAt(HeadRevision)) = ToHead(HeadRevision)
  BY <1>1, RevisionOfSchema, WorkReachesHead DEF WorkFor
<1>3. QED BY <1>2, FirstStatements DEF HeadRevision

LEMMA FreshSteps ==
  ASSUME NEW s, Reached(s), NEW p, NEW a, NEW d, NEW a2, NEW d2, Fresh(s, p, a, d), p # <<>>,
         a2 = (a \ p[1].drops) \union p[1].makes, d2 = (d \union p[1].drops) \ p[1].makes
  PROVE  Leading(s, Tail(p), a2, d2)
<1>1. p \in Seq(Statements) /\ p = WorkFor(s) /\ p[1].makes # {} /\ a = {} /\ d = {}
  BY WorkFacts DEF Fresh
<1>2. (s \ d2) \union a2 = After((s \ d) \union a, p[1])
  BY DEF After
<1>3. Owners(a2 \union d2) \intersect Owners(Touched(WorkFor(s)[1])) # {}
  <2>1. PICK o : o \in p[1].makes
    BY <1>1
  <2>2. o \in Touched(p[1]) /\ o \in a2 \union d2
    BY <2>1 DEF Touched
  <2>3. o[2] \in Owners(Touched(p[1])) /\ o[2] \in Owners(a2 \union d2)
    BY <2>2 DEF Owners
  <2>4. QED BY <1>1, <2>3
<1>4. Leads((s \ d2) \union a2, Tail(p), SchemaAt(HeadRevision))
  <2>1. (s \ d) \union a = s
    BY <1>1
  <2>2. Leads(s, p, SchemaAt(HeadRevision))
    BY <1>1, WorkFacts
  <2>3. Leads(After(s, p[1]), Tail(p), SchemaAt(HeadRevision))
    BY <1>1, <2>2, FirstOfThem
  <2>4. QED BY <1>2, <2>1, <2>3
<1>5. Tail(p) \in Seq(Statements)
  BY <1>1
<1>6. QED BY <1>1, <1>3, <1>4, <1>5 DEF Leading

LEMMA LeadingSteps ==
  ASSUME NEW s, NEW p, NEW a, NEW d, NEW a2, NEW d2, Leading(s, p, a, d), p # <<>>,
         a2 = (a \ p[1].drops) \union p[1].makes, d2 = (d \union p[1].drops) \ p[1].makes
  PROVE  Leading(s, Tail(p), a2, d2)
<1>1. p \in Seq(Statements) /\ Leads((s \ d) \union a, p, SchemaAt(HeadRevision))
  BY DEF Leading
<1>2. /\ (s \ d2) \union a2 = After((s \ d) \union a, p[1])
      /\ a \union d \subseteq a2 \union d2
  BY DEF After
<1>3. Owners(a \union d) \subseteq Owners(a2 \union d2)
  BY <1>2 DEF Owners
<1>4. Leads(After((s \ d) \union a, p[1]), Tail(p), SchemaAt(HeadRevision))
  BY <1>1, FirstOfThem
<1>5. Tail(p) \in Seq(Statements)
  BY <1>1
<1>6. QED BY <1>1, <1>2, <1>3, <1>4, <1>5 DEF Leading

LEMMA ReturningSteps ==
  ASSUME NEW s, NEW p, NEW a, NEW d, NEW a2, NEW d2, Returning(s, p, a, d), p # <<>>,
         a2 = (a \ p[1].drops) \union p[1].makes, d2 = (d \union p[1].drops) \ p[1].makes
  PROVE  Returning(s, Tail(p), a2, d2)
<1>1. PICK to \in Revisions : Leads((s \ d) \union a, p, SchemaAt(to))
  BY DEF Returning
<1>2. p \in Seq(Statements)
  BY DEF Returning
<1>3. (s \ d2) \union a2 = After((s \ d) \union a, p[1])
  BY DEF After
<1>4. Leads(After((s \ d) \union a, p[1]), Tail(p), SchemaAt(to))
  BY <1>1, <1>2, FirstOfThem
<1>5. Tail(p) \in Seq(Statements)
  BY <1>2
<1>6. QED BY <1>1, <1>3, <1>4, <1>5 DEF Returning

\* One that is late runs the stamp of the first revision at most.
LEMMA LateSteps ==
  ASSUME NEW s, NEW p, NEW a, NEW d, NEW a2, NEW d2, Late(s, p, a, d),
         Succeeds(p[1], (s \ d) \union a),
         a2 = (a \ p[1].drops) \union p[1].makes, d2 = (d \union p[1].drops) \ p[1].makes
  PROVE  Late(s, Tail(p), a2, d2)
<1>1. /\ s = SchemaAt(HeadRevision) /\ p \in Seq(Statements) /\ a = {} /\ d = {}
      /\ p[1] = Stamp(0, 1) /\ Len(p) >= 2 /\ p[2].unless \intersect Made(Upgrade0002) # {}
  BY DEF Late
<1>2. (s \ d2) \union a2 = After((s \ d) \union a, p[1])
  BY DEF After
<1>3. p[1].drops = {}
  BY <1>1 DEF Stamp, Stamped
<1>4. Made(Upgrade0002) \subseteq s
  BY <1>1, BooksOfRevisions DEF SchemaAt, HeadRevision
<1>5. Made(Upgrade0002) \subseteq (s \ d2) \union a2
  BY <1>1, <1>2, <1>3, <1>4
<1>6. Tail(p) \in Seq(Statements) /\ Tail(p) # <<>> /\ Tail(p)[1] = p[2]
  <2>1. Len(p) \in Nat /\ 1 \in 1..(Len(p) - 1) /\ 1 + 1 = 2 /\ p # <<>>
    BY <1>1
  <2>2. Tail(p) \in Seq(Statements) /\ Len(Tail(p)) = Len(p) - 1
    BY <1>1, <2>1
  <2>3. Tail(p)[1] = p[1 + 1]
    BY <1>1, <2>1
  <2>4. Tail(p) # <<>>
    <3>1. Len(Tail(p)) # 0 /\ Len(<<>>) = 0
      BY <2>1, <2>2
    <3>2. QED BY <3>1
  <2>5. Tail(p)[1] = p[2]
    BY <2>1, <2>3
  <2>6. QED BY <2>2, <2>4, <2>5
<1>7. ~Succeeds(Tail(p)[1], (s \ d2) \union a2)
  BY <1>1, <1>5, <1>6 DEF Succeeds
<1>8. QED BY <1>1, <1>6, <1>7 DEF Late

\* What commits is head, or the revision of a downgrade.
LEMMA Committing ==
  ASSUME NEW s, Reached(s), NEW p, NEW a, NEW d, p = <<>>
  PROVE  /\ Fresh(s, p, a, d) \/ Leading(s, p, a, d) => (s \ d) \union a = SchemaAt(HeadRevision)
         /\ Fresh(s, p, a, d) => WorkFor(s) = <<>>
         /\ ~Late(s, p, a, d)
         /\ Returning(s, p, a, d) => \E to \in Revisions : (s \ d) \union a = SchemaAt(to)
<1>1. \A end : Leads((s \ d) \union a, p, end) => (s \ d) \union a = end
  BY NothingLeads
<1>2. Leading(s, p, a, d) => (s \ d) \union a = SchemaAt(HeadRevision)
  BY <1>1 DEF Leading
<1>3. Fresh(s, p, a, d) => (s \ d) \union a = SchemaAt(HeadRevision)
  <2>1. SUFFICES ASSUME Fresh(s, p, a, d) PROVE (s \ d) \union a = SchemaAt(HeadRevision)
    OBVIOUS
  <2>2. (s \ d) \union a = s /\ Leads(s, p, SchemaAt(HeadRevision))
    BY <2>1, WorkFacts DEF Fresh
  <2>3. QED BY <1>1, <2>2
<1>4. QED BY <1>1, <1>2, <1>3 DEF Fresh, Late, Returning

\* One that has not begun is late when another one comes to head.
LEMMA FreshIsLate ==
  ASSUME NEW s, Reached(s), NEW p, NEW a, NEW d, Fresh(s, p, a, d)
  PROVE  LET t == SchemaAt(HeadRevision) IN Fresh(t, p, a, d) \/ Late(t, p, a, d)
<1> DEFINE t == SchemaAt(HeadRevision)
<1>1. p = WorkFor(s) /\ a = {} /\ d = {} /\ p \in Seq(Statements) /\ (t \ d) \union a = t
  BY WorkFacts DEF Fresh
<1>2. CASE p = <<>>
  BY <1>1, <1>2, NoWorkAtHead DEF Fresh
<1>3. CASE p # <<>>
  <2>1. FindsHead(p)
    BY <1>1, <1>3, WorkFacts
  <2>2. CASE p[1].unless \intersect t # {}
    BY <1>1, <1>3, <2>2 DEF Late, Succeeds
  <2>3. CASE p[1] = Stamp(0, 1) /\ Len(p) >= 2 /\ p[2].unless \intersect Made(Upgrade0002) # {}
    BY <1>1, <1>3, <2>3 DEF Late
  <2>4. QED BY <2>1, <2>2, <2>3 DEF FindsHead
<1>4. QED BY <1>2, <1>3

-----------------------------------------------------------------------------
(* Every step keeps it so. *)

LEMMA InitKeeps == Init => MigrationInv
<1>1. SUFFICES ASSUME Init PROVE MigrationInv
  OBVIOUS
<1>2. /\ pc = [m \in Migrators |-> "down"] /\ todo = [m \in Migrators |-> <<>>]
      /\ added = [m \in Migrators |-> {}] /\ removed = [m \in Migrators |-> {}]
      /\ schema = {}
  BY <1>1 DEF Init
<1>3. ShapeInv
  BY <1>2 DEF ShapeInv
<1>4. \A m \in Migrators : ~Migrating(m)
  BY <1>2 DEF Migrating
<1>5. Operator \in Migrators /\ \A c \in Containers : c \in Migrators
  BY DEF Migrators
<1>6. Reached(schema)
  BY <1>2 DEF Reached
<1>7. QED BY <1>2, <1>3, <1>4, <1>5, <1>6
          DEF MigrationInv, IdleInv, OperatorInv, ContainersInv

\* A step that leaves the schema and the transactions alone.
LEMMA OthersKeep ==
  ASSUME MigrationInv, UNCHANGED <<schema, txns>> PROVE MigrationInv'
<1>1. schema' = schema /\ pc' = pc /\ todo' = todo /\ added' = added /\ removed' = removed
  BY DEF txns
<1>2. QED BY <1>1 DEF MigrationInv, ShapeInv, Reached, IdleInv, OperatorInv, ContainersInv, FreshIn,
                      LeadingIn, LateIn, ReturningIn, Migrating

\* A migration that is rolled back.
LEMMA RollbackKeeps ==
  ASSUME MigrationInv, NEW m \in Migrators, NEW there, there # "migrating",
         Rollback(m, there), schema' = schema
  PROVE  MigrationInv'
<1>1. /\ pc' = [pc EXCEPT ![m] = there] /\ todo' = [todo EXCEPT ![m] = <<>>]
      /\ added' = [added EXCEPT ![m] = {}] /\ removed' = [removed EXCEPT ![m] = {}]
  BY DEF Rollback
<1>2. ShapeInv'
  BY <1>1 DEF MigrationInv, ShapeInv
<1>3. pc'[m] = there /\ added'[m] = {} /\ removed'[m] = {}
  BY <1>1 DEF MigrationInv, ShapeInv
<1>4. ASSUME NEW n \in Migrators, n # m
      PROVE  /\ pc'[n] = pc[n] /\ todo'[n] = todo[n]
             /\ added'[n] = added[n] /\ removed'[n] = removed[n]
  BY <1>1, <1>4 DEF MigrationInv, ShapeInv
<1>5. \A n \in Migrators : Migrating(n)' => n # m /\ Migrating(n)
  BY <1>3, <1>4 DEF Migrating
<1>6. \A n \in Migrators : n # m => /\ FreshIn(n)' <=> FreshIn(n)
                                    /\ LeadingIn(n)' <=> LeadingIn(n)
                                    /\ LateIn(n)' <=> LateIn(n)
                                    /\ ReturningIn(n)' <=> ReturningIn(n)
  BY <1>4 DEF FreshIn, LeadingIn, LateIn, ReturningIn
<1>7. IdleInv'
  BY <1>3, <1>4 DEF MigrationInv, IdleInv, Migrating
<1>8. Operator \in Migrators /\ \A c \in Containers : c \in Migrators
  BY DEF Migrators
<1>9. OperatorInv'
  BY <1>5, <1>6, <1>8 DEF MigrationInv, OperatorInv
<1>10. ContainersInv'
  BY <1>5, <1>6, <1>8 DEF MigrationInv, ContainersInv
<1>11. QED BY <1>2, <1>7, <1>9, <1>10 DEF MigrationInv

\* A migration that begins: nothing of it has run.
LEMMA BeginningKeeps ==
  ASSUME MigrationInv, NEW m \in Migrators, NEW statements, Begin(m, statements),
         ~Migrating(m), UNCHANGED <<schema, added, removed>>
  PROVE  /\ ShapeInv' /\ IdleInv' /\ Reached(schema')
         /\ pc'[m] = "migrating" /\ added'[m] = {} /\ removed'[m] = {}
         /\ todo'[m] = (IF VersionTable \in schema THEN <<>> ELSE <<CreateVersionTable>>) \o statements
         /\ \A n \in Migrators : n # m =>
              /\ Migrating(n)' <=> Migrating(n)
              /\ FreshIn(n)' <=> FreshIn(n)
              /\ LeadingIn(n)' <=> LeadingIn(n)
              /\ LateIn(n)' <=> LateIn(n)
              /\ ReturningIn(n)' <=> ReturningIn(n)
<1> DEFINE work == (IF VersionTable \in schema THEN <<>> ELSE <<CreateVersionTable>>) \o statements
<1>1. /\ pc' = [pc EXCEPT ![m] = "migrating"] /\ todo' = [todo EXCEPT ![m] = work]
      /\ schema' = schema /\ added' = added /\ removed' = removed
  BY DEF Begin
<1> HIDE DEF work
<1>2. ShapeInv'
  BY <1>1 DEF MigrationInv, ShapeInv
<1>3. pc'[m] = "migrating" /\ todo'[m] = work
  BY <1>1 DEF MigrationInv, ShapeInv
<1>4. added'[m] = {} /\ removed'[m] = {}
  BY <1>1 DEF MigrationInv, IdleInv
<1>5. \A n \in Migrators : n # m => pc'[n] = pc[n] /\ todo'[n] = todo[n]
  BY <1>1 DEF MigrationInv, ShapeInv
<1>6. \A n \in Migrators : n # m => /\ Migrating(n)' <=> Migrating(n)
                                    /\ FreshIn(n)' <=> FreshIn(n)
                                    /\ LeadingIn(n)' <=> LeadingIn(n)
                                    /\ LateIn(n)' <=> LateIn(n)
                                    /\ ReturningIn(n)' <=> ReturningIn(n)
  BY <1>1, <1>5 DEF Migrating, FreshIn, LeadingIn, LateIn, ReturningIn
<1>7. IdleInv'
  BY <1>1, <1>3, <1>4, <1>6 DEF MigrationInv, IdleInv
<1>8. Reached(schema')
  BY <1>1 DEF MigrationInv
<1>9. QED BY <1>2, <1>3, <1>4, <1>6, <1>7, <1>8 DEF work

LEMMA StartContainerKeeps ==
  ASSUME MigrationInv, NEW c \in Containers, StartContainer(c) PROVE MigrationInv'
<1>1. /\ pc[c] \in {"down", "failed"} /\ ~Migrating(Operator)
      /\ Begin(c, ToHead(Revision)) /\ UNCHANGED <<schema, added, removed>>
  BY DEF StartContainer
<1>2. ~Migrating(c) /\ c \in Migrators /\ Operator \in Migrators /\ c # Operator
  BY <1>1, OperatorIsNoContainer DEF Migrating, Migrators
<1>3. /\ ShapeInv' /\ IdleInv' /\ Reached(schema') /\ added'[c] = {} /\ removed'[c] = {}
      /\ todo'[c] = (IF VersionTable \in schema THEN <<>> ELSE <<CreateVersionTable>>)
                      \o ToHead(Revision)
  BY <1>1, <1>2, BeginningKeeps
<1>4. \A n \in Migrators : n # c =>
        /\ Migrating(n)' <=> Migrating(n)
        /\ FreshIn(n)' <=> FreshIn(n)
        /\ LeadingIn(n)' <=> LeadingIn(n)
        /\ LateIn(n)' <=> LateIn(n)
  BY <1>1, <1>2, BeginningKeeps
<1>5. Revision = RevisionOf(schema)
  BY DEF Revision, RevisionOf
<1>6. FreshIn(c)'
  BY <1>1, <1>3, <1>5 DEF FreshIn, Fresh, WorkFor, WorkOn
<1>7. ~LeadingIn(c)'
  BY <1>3 DEF LeadingIn, Leading, Owners
<1>8. OperatorInv'
  BY <1>1, <1>2, <1>4 DEF OperatorInv
<1>9. ContainersInv'
  <2>1. \A e \in Containers : e \in Migrators
    BY DEF Migrators
  <2>2. QED BY <1>4, <1>6, <1>7, <2>1 DEF MigrationInv, ContainersInv
<1>10. QED BY <1>3, <1>8, <1>9 DEF MigrationInv

LEMMA StartDowngradeKeeps ==
  ASSUME MigrationInv, NEW to \in Revisions, StartDowngrade(to) PROVE MigrationInv'
<1>1. /\ pc[Operator] = "down" /\ \A m \in Migrators : ~Migrating(m)
      /\ to < Revision /\ Begin(Operator, DownFrom(Revision, to))
      /\ UNCHANGED <<schema, added, removed>>
  BY DEF StartDowngrade
<1>2. Operator \in Migrators /\ \A c \in Containers : c \in Migrators /\ c # Operator
  BY OperatorIsNoContainer DEF Migrators
<1>3. /\ ShapeInv' /\ IdleInv' /\ Reached(schema') /\ added'[Operator] = {}
      /\ removed'[Operator] = {}
      /\ todo'[Operator] = (IF VersionTable \in schema THEN <<>> ELSE <<CreateVersionTable>>)
                             \o DownFrom(Revision, to)
  BY <1>1, <1>2, BeginningKeeps
<1>4. \A n \in Migrators : n # Operator => (Migrating(n)' <=> Migrating(n))
  BY <1>1, <1>2, BeginningKeeps
<1>5. Revision = RevisionOf(schema)
  BY DEF Revision, RevisionOf
<1>6. schema # {}
  <2>1. SUFFICES ASSUME schema = {} PROVE FALSE
    OBVIOUS
  <2>2. Revision = 0
    BY <1>5, <2>1, RevisionOfSchema
  <2>3. QED BY <1>1, <2>2 DEF Revisions
<1>7. PICK r \in Revisions : schema = SchemaAt(r)
  BY <1>6 DEF MigrationInv, Reached
<1>8. Revision = r /\ to <= r
  BY <1>1, <1>5, <1>7, RevisionOfSchema DEF Revisions
<1>9. DownFrom(r, to) \in Seq(Statements) /\ Leads(SchemaAt(r), DownFrom(r, to), SchemaAt(to))
  BY <1>8, LowerIsReached
<1>10. todo'[Operator] = DownFrom(r, to)
  <2>1. VersionTable \in schema
    BY <1>7 DEF SchemaAt
  <2>2. todo'[Operator] = <<>> \o DownFrom(r, to)
    BY <1>3, <1>8, <2>1
  <2>3. <<>> \o DownFrom(r, to) = DownFrom(r, to)
    BY <1>9
  <2>4. QED BY <2>2, <2>3
<1>11. ReturningIn(Operator)'
  <2>1. (schema' \ removed'[Operator]) \union added'[Operator] = SchemaAt(r)
    BY <1>1, <1>3, <1>7
  <2>2. QED BY <1>9, <1>10, <2>1 DEF ReturningIn, Returning
<1>12. OperatorInv' /\ ContainersInv'
  BY <1>1, <1>2, <1>4, <1>11 DEF OperatorInv, ContainersInv
<1>13. QED BY <1>3, <1>12 DEF MigrationInv

LEMMA ExecuteKeeps ==
  ASSUME MigrationInv, NEW m \in Migrators, Execute(m) PROVE MigrationInv'
<1> DEFINE x == todo[m][1]
           a2 == (added[m] \ x.drops) \union x.makes
           d2 == (removed[m] \union x.drops) \ x.makes
<1>1. /\ Migrating(m) /\ todo[m] # <<>> /\ ~Waits(m, x) /\ Succeeds(x, View(m))
      /\ schema' = schema /\ pc' = pc
  BY DEF Execute
<1>2. /\ todo' = [todo EXCEPT ![m] = Tail(@)]
      /\ added' = [added EXCEPT ![m] = (@ \ x.drops) \union x.makes]
      /\ removed' = [removed EXCEPT ![m] = (@ \union x.drops) \ x.makes]
  BY DEF Execute
<1>3. todo'[m] = Tail(todo[m]) /\ added'[m] = a2 /\ removed'[m] = d2
  BY <1>2 DEF MigrationInv, ShapeInv
<1>4. \A n \in Migrators : n # m =>
        todo'[n] = todo[n] /\ added'[n] = added[n] /\ removed'[n] = removed[n]
  BY <1>2 DEF MigrationInv, ShapeInv
<1>5. ShapeInv'
  BY <1>1, <1>2 DEF MigrationInv, ShapeInv
<1>6. \A n \in Migrators : Migrating(n)' <=> Migrating(n)
  BY <1>1 DEF Migrating
<1>7. IdleInv'
  BY <1>1, <1>4, <1>6 DEF MigrationInv, IdleInv
<1>8. \A n \in Migrators : n # m => /\ FreshIn(n)' <=> FreshIn(n)
                                    /\ LeadingIn(n)' <=> LeadingIn(n)
                                    /\ LateIn(n)' <=> LateIn(n)
                                    /\ ReturningIn(n)' <=> ReturningIn(n)
  BY <1>1, <1>4 DEF FreshIn, LeadingIn, LateIn, ReturningIn
<1>9. Operator \in Migrators /\ \A c \in Containers : c \in Migrators /\ c # Operator
  BY OperatorIsNoContainer DEF Migrators
<1>10. Reached(schema) /\ Reached(schema')
  BY <1>1 DEF MigrationInv
<1>11. FreshIn(m) => LeadingIn(m)'
  <2>1. SUFFICES ASSUME Fresh(schema, todo[m], added[m], removed[m])
                 PROVE  Leading(schema, Tail(todo[m]), a2, d2)
    BY <1>1, <1>3 DEF FreshIn, LeadingIn
  <2>2. QED BY <1>1, <1>10, <2>1, FreshSteps
<1>12. LeadingIn(m) => LeadingIn(m)'
  <2>1. SUFFICES ASSUME Leading(schema, todo[m], added[m], removed[m])
                 PROVE  Leading(schema, Tail(todo[m]), a2, d2)
    BY <1>1, <1>3 DEF LeadingIn
  <2>2. QED BY <1>1, <2>1, LeadingSteps
<1>13. LateIn(m) => LateIn(m)' /\ ~LeadingIn(m)'
  <2>1. SUFFICES ASSUME Late(schema, todo[m], added[m], removed[m])
                 PROVE  Late(schema, Tail(todo[m]), a2, d2)
                        /\ ~Leading(schema, Tail(todo[m]), a2, d2)
    BY <1>1, <1>3 DEF LateIn, LeadingIn
  <2>2. Late(schema, Tail(todo[m]), a2, d2)
    BY <1>1, <2>1, LateSteps DEF View
  <2>3. WorkFor(schema) = <<>>
    BY <2>1, NoWorkAtHead DEF Late
  <2>4. QED BY <2>2, <2>3 DEF Leading
<1>14. ReturningIn(m) => ReturningIn(m)'
  <2>1. SUFFICES ASSUME Returning(schema, todo[m], added[m], removed[m])
                 PROVE  Returning(schema, Tail(todo[m]), a2, d2)
    BY <1>1, <1>3 DEF ReturningIn
  <2>2. QED BY <1>1, <2>1, ReturningSteps
<1>15. OperatorInv'
  <2>1. Migrating(Operator) => ReturningIn(Operator)'
    BY <1>8, <1>9, <1>14 DEF MigrationInv, OperatorInv
  <2>2. QED BY <1>6, <1>9, <2>1 DEF MigrationInv, OperatorInv
<1>16. ASSUME NEW c \in Containers, Migrating(c)
       PROVE  (FreshIn(c) \/ LeadingIn(c) \/ LateIn(c))'
  BY <1>8, <1>9, <1>11, <1>12, <1>13, <1>16 DEF MigrationInv, ContainersInv
\* One that has not begun waits for the one that is on its way.
<1>17. ASSUME NEW e \in Containers, e # m, Migrating(e), LeadingIn(e), FreshIn(m) PROVE FALSE
  <2>1. x = WorkFor(schema)[1]
    BY <1>17 DEF FreshIn, Fresh
  <2>2. Owners(added[e] \union removed[e]) \intersect Owners(x.makes \union x.drops) # {}
    BY <1>17, <2>1 DEF LeadingIn, Leading, Touched
  <2>3. e \in Migrators \ {m}
    BY <1>9, <1>17
  <2>4. QED BY <1>1, <2>2, <2>3 DEF Waits
<1>18. ASSUME NEW c \in Containers, NEW e \in Containers,
              Migrating(c), Migrating(e), LeadingIn(c)', LeadingIn(e)'
       PROVE  c = e
  <2>1. SUFFICES ASSUME c # e PROVE FALSE
    OBVIOUS
  <2>2. CASE c # m /\ e # m
    BY <1>8, <1>9, <1>18, <2>1, <2>2 DEF MigrationInv, ContainersInv
  <2>3. ASSUME NEW f \in Containers, NEW g \in Containers, f = m, g # m,
               Migrating(f), Migrating(g), LeadingIn(f)', LeadingIn(g)'
        PROVE  FALSE
    <3>1. LeadingIn(g)
      BY <1>8, <1>9, <2>3
    <3>2. ~LateIn(f)
      BY <1>13, <2>3
    <3>3. ~LeadingIn(f)
      BY <2>3, <3>1 DEF MigrationInv, ContainersInv
    <3>4. FreshIn(f)
      BY <2>3, <3>2, <3>3 DEF MigrationInv, ContainersInv
    <3>5. QED BY <1>17, <2>3, <3>1, <3>4
  <2>4. QED BY <1>18, <2>1, <2>2, <2>3
<1>19. ContainersInv'
  BY <1>6, <1>9, <1>16, <1>18 DEF ContainersInv
<1>20. QED BY <1>5, <1>7, <1>10, <1>15, <1>19 DEF MigrationInv

LEMMA CommitKeeps ==
  ASSUME MigrationInv, NEW m \in Migrators, Commit(m)
  PROVE  /\ MigrationInv'
         /\ m \in Containers => schema' = SchemaAt(HeadRevision)
<1> DEFINE there == IF m = Operator THEN "down" ELSE "serving"
<1>1. Migrating(m) /\ todo[m] = <<>> /\ schema' = View(m) /\ Rollback(m, there)
  BY DEF Commit
<1>2. there # "migrating"
  OBVIOUS
<1> HIDE DEF there
<1>3. /\ pc' = [pc EXCEPT ![m] = there] /\ todo' = [todo EXCEPT ![m] = <<>>]
      /\ added' = [added EXCEPT ![m] = {}] /\ removed' = [removed EXCEPT ![m] = {}]
  BY <1>1 DEF Rollback
<1>4. pc'[m] = there /\ added'[m] = {} /\ removed'[m] = {}
  BY <1>3 DEF MigrationInv, ShapeInv
<1>5. ASSUME NEW n \in Migrators, n # m
      PROVE  /\ pc'[n] = pc[n] /\ todo'[n] = todo[n]
             /\ added'[n] = added[n] /\ removed'[n] = removed[n]
  BY <1>3, <1>5 DEF MigrationInv, ShapeInv
<1>6. \A n \in Migrators : Migrating(n)' => n # m /\ Migrating(n)
  BY <1>2, <1>4, <1>5 DEF Migrating
<1>7. ShapeInv'
  BY <1>3 DEF MigrationInv, ShapeInv
<1>8. IdleInv'
  BY <1>4, <1>5 DEF MigrationInv, IdleInv, Migrating
<1>9. Operator \in Migrators /\ \A c \in Containers : c \in Migrators /\ c # Operator
  BY OperatorIsNoContainer DEF Migrators
<1>10. Reached(schema) /\ schema' = (schema \ removed[m]) \union added[m]
  BY <1>1 DEF MigrationInv, View
<1>11. CASE m = Operator
  <2>1. ReturningIn(m) /\ \A c \in Containers : ~Migrating(c)
    BY <1>1, <1>11 DEF MigrationInv, OperatorInv
  <2>2. \E to \in Revisions : schema' = SchemaAt(to)
    BY <1>1, <1>10, <2>1, Committing DEF ReturningIn
  <2>3. Reached(schema')
    BY <2>2 DEF Reached
  <2>4. \A c \in Containers : ~Migrating(c)'
    BY <1>6, <1>9, <2>1
  <2>5. ~Migrating(Operator)'
    BY <1>6, <1>9, <1>11
  <2>6. OperatorInv' /\ ContainersInv'
    BY <2>4, <2>5 DEF OperatorInv, ContainersInv
  <2>7. QED BY <1>7, <1>8, <1>9, <1>11, <2>3, <2>6 DEF MigrationInv
<1>12. CASE m \in Containers
  <2>1. ~Migrating(Operator) /\ (FreshIn(m) \/ LeadingIn(m) \/ LateIn(m))
    BY <1>1, <1>12 DEF MigrationInv, OperatorInv, ContainersInv
  <2>2. ~LateIn(m)
    BY <1>1, <1>10, Committing DEF LateIn
  <2>3. schema' = SchemaAt(HeadRevision)
    BY <1>1, <1>10, <2>1, <2>2, Committing DEF FreshIn, LeadingIn
  <2>4. HeadRevision \in Revisions
    BY DEF HeadRevision, Revisions
  <2>5. Reached(schema')
    BY <2>3, <2>4 DEF Reached
  <2>6. ~Migrating(Operator)'
    BY <1>6, <1>9, <2>1
  <2>7. FreshIn(m) => WorkFor(schema) = <<>>
    BY <1>1, <1>10, Committing DEF FreshIn
  <2>8. ASSUME NEW c \in Containers, Migrating(c)'
        PROVE  FreshIn(c)' \/ LateIn(c)'
    <3>1. c \in Migrators /\ c # m /\ Migrating(c)
      BY <1>6, <1>9, <2>8
    <3>2. todo'[c] = todo[c] /\ added'[c] = added[c] /\ removed'[c] = removed[c]
      BY <1>5, <3>1
    <3>3. FreshIn(c) \/ LeadingIn(c) \/ LateIn(c)
      BY <3>1 DEF MigrationInv, ContainersInv
    <3>4. ~LeadingIn(c)
      <4>1. LeadingIn(c) => ~LeadingIn(m)
        BY <1>1, <1>12, <3>1 DEF MigrationInv, ContainersInv
      <4>2. LeadingIn(c) => ~FreshIn(m)
        BY <2>7 DEF LeadingIn, Leading
      <4>3. QED BY <2>1, <2>2, <4>1, <4>2
    <3>5. CASE FreshIn(c)
      BY <1>10, <2>3, <3>2, <3>5, FreshIsLate DEF FreshIn, LateIn
    <3>6. CASE LateIn(c)
      <4>1. schema = schema'
        BY <2>3, <3>6 DEF LateIn, Late
      <4>2. QED BY <3>2, <3>6, <4>1 DEF LateIn
    <3>7. QED BY <3>3, <3>4, <3>5, <3>6
  <2>9. \A c \in Containers : ~LeadingIn(c)'
    BY <2>3, NoWorkAtHead DEF LeadingIn, Leading
  <2>10. OperatorInv' /\ ContainersInv'
    BY <2>6, <2>8, <2>9 DEF OperatorInv, ContainersInv
  <2>11. QED BY <1>7, <1>8, <2>3, <2>5, <2>10 DEF MigrationInv
<1>13. QED BY <1>11, <1>12 DEF Migrators

LEMMA NextKeeps == MigrationInv /\ [Next]_vars => MigrationInv'
<1>1. SUFFICES ASSUME MigrationInv, [Next]_vars PROVE MigrationInv'
  OBVIOUS
<1>2. CASE UNCHANGED vars
  BY <1>1, <1>2, OthersKeep DEF vars
<1>3. ASSUME NEW c \in Containers, StartContainer(c) PROVE MigrationInv'
  BY <1>1, <1>3, StartContainerKeeps
<1>4. ASSUME NEW to \in Revisions, StartDowngrade(to) PROVE MigrationInv'
  BY <1>1, <1>4, StartDowngradeKeeps
<1>5. ASSUME NEW m \in Migrators, Migrate(m) \/ Crash(m) \/ LoseConnection(m) PROVE MigrationInv'
  <2>1. CASE Execute(m)
    BY <1>1, <2>1, ExecuteKeeps
  <2>2. CASE Fail(m)
    <3>1. Rollback(m, "failed") /\ schema' = schema
      BY <2>2 DEF Fail, ExitWithError
    <3>2. QED BY <1>1, <3>1, RollbackKeeps
  <2>3. CASE Commit(m)
    BY <1>1, <2>3, CommitKeeps
  <2>4. CASE Crash(m)
    <3>1. Rollback(m, "down") /\ schema' = schema
      BY <2>4 DEF Crash
    <3>2. QED BY <1>1, <3>1, RollbackKeeps
  <2>5. CASE LoseConnection(m)
    <3>1. Rollback(m, "failed") /\ schema' = schema
      BY <2>5 DEF LoseConnection, ExitWithError
    <3>2. QED BY <1>1, <3>1, RollbackKeeps
  <2>6. QED BY <1>5, <2>1, <2>2, <2>3, <2>4, <2>5 DEF Migrate
<1>6. ASSUME NEW table \in TableNames, Store(table) PROVE MigrationInv'
  <2>1. UNCHANGED <<schema, txns>>
    BY <1>6 DEF Store
  <2>2. QED BY <1>1, <2>1, OthersKeep
<1>7. CASE Reset
  <2>1. UNCHANGED <<schema, txns>>
    BY <1>7 DEF Reset, StartReset, DeleteTable, Populate, AbandonReset
  <2>2. QED BY <1>1, <2>1, OthersKeep
<1>8. QED BY <1>1, <1>2, <1>3, <1>4, <1>5, <1>6, <1>7 DEF Next

-----------------------------------------------------------------------------
(* The theorems. *)

\* The committed schema is that of a revision; one container at most is on its
\* way to head, those that have not begun wait for it, and those that find head
\* already there can only be refused.
THEOREM OneMigrationAtATime == Spec => []MigrationInv
<1>1. QED BY InitKeeps, NextKeeps, PTL DEF Spec

LEMMA ReachedIsARevision == MigrationInv => SchemaIsARevision
<1>1. SUFFICES ASSUME MigrationInv PROVE SchemaIsARevision
  OBVIOUS
<1>2. Revision = RevisionOf(schema)
  BY DEF Revision, RevisionOf
<1>3. CASE schema = {}
  <2>1. Revision = 0
    BY <1>2, <1>3, RevisionOfSchema
  <2>2. schema \ Bookkeeping = SchemaOf(Revision)
    BY <1>3, <2>1, BooksOfRevisions
  <2>3. {r \in Revisions : Version(r) \in schema} = {}
    BY <1>3
  <2>4. Cardinality({r \in Revisions : Version(r) \in schema}) <= 1
    BY <2>3, FS_EmptySet
  <2>5. QED BY <2>2, <2>4 DEF SchemaIsARevision
<1>4. ASSUME NEW q \in Revisions, schema = SchemaAt(q) PROVE SchemaIsARevision
  <2>1. Revision = q
    BY <1>2, <1>4, RevisionOfSchema
  <2>2. schema \ Bookkeeping = SchemaOf(q)
    <3>1. SchemaOf(q) \intersect Bookkeeping = {}
      BY BooksOfRevisions, BooksAreApart DEF Bookkeeping
    <3>2. Stamped(q) \subseteq Bookkeeping /\ VersionTable \in Bookkeeping
      BY DEF Stamped, Bookkeeping
    <3>3. QED BY <1>4, <3>1, <3>2 DEF SchemaAt
  <2>3. {r \in Revisions : Version(r) \in schema} \subseteq {q}
    BY <1>4, StampsOfSchemas
  <2>4. IsFiniteSet({q}) /\ Cardinality({q}) = 1
    BY FS_Singleton
  <2>5. Cardinality({r \in Revisions : Version(r) \in schema}) <= 1
    BY <2>3, <2>4, FS_Subset
  <2>6. QED BY <2>1, <2>2, <2>5 DEF SchemaIsARevision
<1>5. QED BY <1>1, <1>3, <1>4 DEF MigrationInv, Reached

\* SchemaIsARevision, for any number of containers and of faults: never a part
\* of a migration is committed, and a downgrade leaves nothing of what it takes
\* back.
THEOREM SchemaStaysARevision == Spec => []SchemaIsARevision
<1>1. QED BY OneMigrationAtATime, ReachedIsARevision, PTL

LEMMA HeadMeansModels == SchemaIsARevision => ReadyMeansModels
BY HeadIsWhatModelsNeed DEF SchemaIsARevision, ReadyMeansModels, Ready

\* ReadyMeansModels: where readiness is reported, there is what the models need.
THEOREM ReadyDatabaseFitsModels == Spec => []ReadyMeansModels
<1>1. QED BY SchemaStaysARevision, HeadMeansModels, PTL

LEMMA ServingStarts ==
  MigrationInv /\ MigrationInv' /\ [Next]_vars =>
    \A c \in Containers : pc[c] # "serving" /\ pc'[c] = "serving" => Revision' = HeadRevision
<1>1. SUFFICES ASSUME MigrationInv, [Next]_vars, NEW c \in Containers,
                      pc[c] # "serving", pc'[c] = "serving"
               PROVE  Revision' = HeadRevision
  OBVIOUS
<1>2. c \in Migrators /\ c # Operator
  BY OperatorIsNoContainer DEF Migrators
<1>3. ASSUME NEW m \in Migrators, NEW there, Rollback(m, there) PROVE c = m /\ there = "serving"
  <2>1. pc' = [pc EXCEPT ![m] = there]
    BY <1>3 DEF Rollback
  <2>2. QED BY <1>1, <1>2, <2>1 DEF MigrationInv, ShapeInv
<1>4. ASSUME NEW m \in Migrators, NEW statements, Begin(m, statements) PROVE FALSE
  <2>1. pc' = [pc EXCEPT ![m] = "migrating"]
    BY <1>4 DEF Begin
  <2>2. QED BY <1>1, <1>2, <2>1 DEF MigrationInv, ShapeInv
<1>5. ASSUME pc' = pc PROVE FALSE
  BY <1>1, <1>5
<1>6. ASSUME NEW m \in Migrators, Commit(m) PROVE Revision' = HeadRevision
  <2>1. Rollback(m, IF m = Operator THEN "down" ELSE "serving")
    BY <1>6 DEF Commit
  <2>2. c = m
    BY <1>3, <2>1
  <2>3. schema' = SchemaAt(HeadRevision)
    BY <1>1, <1>6, <2>2, CommitKeeps
  <2>4. HeadRevision \in Revisions
    BY DEF HeadRevision, Revisions
  <2>5. RevisionOf(schema') = HeadRevision
    BY <2>3, <2>4, RevisionOfSchema
  <2>6. Revision' = RevisionOf(schema')
    BY DEF Revision, RevisionOf
  <2>7. QED BY <2>5, <2>6
<1>7. ASSUME NEW m \in Migrators, Migrate(m) \/ Crash(m) \/ LoseConnection(m)
      PROVE  Revision' = HeadRevision
  <2>1. CASE Execute(m)
    BY <1>5, <2>1 DEF Execute
  <2>2. CASE Fail(m)
    <3>1. Rollback(m, "failed")
      BY <2>2 DEF Fail, ExitWithError
    <3>2. QED BY <1>3, <3>1
  <2>3. CASE Commit(m)
    BY <1>6, <2>3
  <2>4. CASE Crash(m)
    <3>1. Rollback(m, "down")
      BY <2>4 DEF Crash
    <3>2. QED BY <1>3, <3>1
  <2>5. CASE LoseConnection(m)
    <3>1. Rollback(m, "failed")
      BY <2>5 DEF LoseConnection, ExitWithError
    <3>2. QED BY <1>3, <3>1
  <2>6. QED BY <1>7, <2>1, <2>2, <2>3, <2>4, <2>5 DEF Migrate
<1>8. ASSUME NEW e \in Containers, StartContainer(e) PROVE FALSE
  <2>1. e \in Migrators /\ Begin(e, ToHead(Revision))
    BY <1>8 DEF StartContainer, Migrators
  <2>2. QED BY <1>4, <2>1
<1>9. ASSUME NEW to \in Revisions, StartDowngrade(to) PROVE FALSE
  <2>1. Operator \in Migrators /\ Begin(Operator, DownFrom(Revision, to))
    BY <1>9 DEF StartDowngrade, Migrators
  <2>2. QED BY <1>4, <2>1
<1>10. ASSUME NEW table \in TableNames, Store(table) PROVE FALSE
  BY <1>5, <1>10 DEF Store, txns
<1>11. CASE Reset
  BY <1>5, <1>11 DEF Reset, StartReset, DeleteTable, Populate, AbandonReset, txns
<1>12. CASE UNCHANGED vars
  BY <1>5, <1>12 DEF vars, txns
<1>13. QED BY <1>1, <1>7, <1>8, <1>9, <1>10, <1>11, <1>12 DEF Next

\* ServesOnlyHead: no container comes to serve on another schema.
THEOREM ContainersServeHead == Spec => ServesOnlyHead
<1>1. Spec => [][\A c \in Containers :
                   pc[c] # "serving" /\ pc'[c] = "serving" => Revision' = HeadRevision]_vars
  BY OneMigrationAtATime, ServingStarts, PTL DEF Spec
<1>2. QED BY <1>1 DEF ServesOnlyHead

-----------------------------------------------------------------------------
(* Whose statements are refused. *)

\* Only one that is late can be refused, and another one has committed since it
\* began.
SoundInv ==
  /\ undisturbed = [m \in Migrators |-> undisturbed[m]]
  /\ \A c \in Containers : Migrating(c) /\ LateIn(c) => ~undisturbed[c]
  /\ OnlyDisturbedOnesFail

\* One that is late is neither at its beginning nor on its way.
LEMMA LateIsApart ==
  ASSUME NEW s, NEW p, NEW a, NEW d, Late(s, p, a, d)
  PROVE  ~Fresh(s, p, a, d) /\ ~Leading(s, p, a, d)
<1>1. WorkFor(s) = <<>> /\ p # <<>>
  BY NoWorkAtHead DEF Late
<1>2. QED BY <1>1 DEF Fresh, Leading

\* The first statement of the others succeeds.
LEMMA OthersSucceed ==
  ASSUME NEW s, Reached(s), NEW p, NEW a, NEW d, p # <<>>,
         Fresh(s, p, a, d) \/ Leading(s, p, a, d) \/ Returning(s, p, a, d)
  PROVE  Succeeds(p[1], (s \ d) \union a)
<1>1. p \in Seq(Statements) /\ \E end : Leads((s \ d) \union a, p, end)
  <2>1. CASE Fresh(s, p, a, d)
    <3>1. (s \ d) \union a = s
      BY <2>1 DEF Fresh
    <3>2. QED BY <2>1, <3>1, WorkFacts DEF Fresh
  <2>2. CASE Leading(s, p, a, d)
    BY <2>2 DEF Leading
  <2>3. CASE Returning(s, p, a, d)
    BY <2>3 DEF Returning
  <2>4. QED BY <2>1, <2>2, <2>3
<1>2. QED BY <1>1, FirstOfThem

\* After a step of a transaction, who is late was late before.
LEMMA LateBefore ==
  ASSUME MigrationInv, NEW m \in Migrators, Execute(m), NEW c \in Containers,
         Migrating(c), LateIn(c)'
  PROVE  LateIn(c)
<1> DEFINE x == todo[m][1]
           a2 == (added[m] \ x.drops) \union x.makes
           d2 == (removed[m] \union x.drops) \ x.makes
<1>1. /\ todo[m] # <<>> /\ schema' = schema /\ Reached(schema)
      /\ todo' = [todo EXCEPT ![m] = Tail(@)]
      /\ added' = [added EXCEPT ![m] = (@ \ x.drops) \union x.makes]
      /\ removed' = [removed EXCEPT ![m] = (@ \union x.drops) \ x.makes]
  BY DEF Execute, MigrationInv
<1>2. c \in Migrators
  BY DEF Migrators
<1>3. CASE c # m
  <2>1. todo'[c] = todo[c] /\ added'[c] = added[c] /\ removed'[c] = removed[c]
    BY <1>1, <1>2, <1>3 DEF MigrationInv, ShapeInv
  <2>2. QED BY <1>1, <2>1 DEF LateIn
<1>4. CASE c = m
  <2>1. todo'[m] = Tail(todo[m]) /\ added'[m] = a2 /\ removed'[m] = d2
    BY <1>1 DEF MigrationInv, ShapeInv
  <2>2. Late(schema, Tail(todo[m]), a2, d2)
    BY <1>1, <1>4, <2>1 DEF LateIn
  <2>3. ~Leading(schema, Tail(todo[m]), a2, d2)
    BY <2>2, LateIsApart
  <2>4. ~Fresh(schema, todo[m], added[m], removed[m])
    BY <1>1, <2>3, FreshSteps
  <2>5. ~Leading(schema, todo[m], added[m], removed[m])
    BY <1>1, <2>3, LeadingSteps
  <2>6. QED BY <1>4, <2>4, <2>5 DEF MigrationInv, ContainersInv, FreshIn, LeadingIn
<1>5. QED BY <1>3, <1>4

LEMMA InitIsSound == Init => SoundInv
<1>1. SUFFICES ASSUME Init PROVE SoundInv
  OBVIOUS
<1>2. pc = [m \in Migrators |-> "down"] /\ undisturbed = [m \in Migrators |-> TRUE]
  BY <1>1 DEF Init
<1>3. undisturbed = [m \in Migrators |-> undisturbed[m]]
  BY <1>2, Zenon
<1>4. \A m \in Migrators : pc[m] = "down"
  BY <1>2
<1>5. \A c \in Containers : c \in Migrators
  BY DEF Migrators
<1>6. QED BY <1>3, <1>4, <1>5 DEF SoundInv, OnlyDisturbedOnesFail, Migrating

\* A step of one migrator, by what it does to its place and to the history.
LEMMA OneStepIsSound ==
  ASSUME MigrationInv, SoundInv, NEW m \in Migrators, NEW there,
         pc' = [pc EXCEPT ![m] = there],
         undisturbed' = [n \in Migrators |-> undisturbed'[n]],
         \A n \in Migrators : n # m => (undisturbed'[n] => undisturbed[n]),
         there = "failed" => ~undisturbed'[m],
         \A c \in Containers : Migrating(c)' /\ LateIn(c)' => ~undisturbed'[c]
  PROVE  SoundInv'
<1>1. \A n \in Migrators : n # m => pc'[n] = pc[n]
  BY DEF MigrationInv, ShapeInv
<1>2. pc'[m] = there
  BY DEF MigrationInv, ShapeInv
<1>3. ASSUME NEW n \in Migrators, pc'[n] = "failed" PROVE ~undisturbed'[n]
  <2>1. CASE n = m
    BY <1>2, <1>3, <2>1
  <2>2. CASE n # m
    <3>1. pc[n] = "failed" /\ (undisturbed'[n] => undisturbed[n])
      BY <1>1, <1>3, <2>2
    <3>2. QED BY <3>1 DEF SoundInv, OnlyDisturbedOnesFail
  <2>3. QED BY <2>1, <2>2
<1>4. OnlyDisturbedOnesFail'
  BY <1>3 DEF OnlyDisturbedOnesFail
<1>5. QED BY <1>4 DEF SoundInv

\* A migration that is rolled back.
LEMMA RollbackIsSound ==
  ASSUME MigrationInv, SoundInv, NEW m \in Migrators, NEW there, there # "migrating",
         Rollback(m, there), schema' = schema,
         undisturbed' = [n \in Migrators |-> undisturbed'[n]],
         \A n \in Migrators : n # m => (undisturbed'[n] => undisturbed[n]),
         there = "failed" => ~undisturbed'[m]
  PROVE  SoundInv'
<1>1. /\ pc' = [pc EXCEPT ![m] = there] /\ todo' = [todo EXCEPT ![m] = <<>>]
      /\ added' = [added EXCEPT ![m] = {}] /\ removed' = [removed EXCEPT ![m] = {}]
  BY DEF Rollback
<1>2. ASSUME NEW c \in Containers, Migrating(c)', LateIn(c)' PROVE ~undisturbed'[c]
  <2>1. c \in Migrators
    BY DEF Migrators
  <2>2. c # m
    BY <1>1, <1>2 DEF MigrationInv, ShapeInv, Migrating
  <2>3. /\ pc'[c] = pc[c] /\ todo'[c] = todo[c]
        /\ added'[c] = added[c] /\ removed'[c] = removed[c]
    BY <1>1, <2>1, <2>2 DEF MigrationInv, ShapeInv
  <2>4. Migrating(c) /\ LateIn(c)
    BY <1>2, <2>3 DEF Migrating, LateIn
  <2>5. ~undisturbed[c]
    BY <2>4 DEF SoundInv
  <2>6. QED BY <2>1, <2>2, <2>5
<1>3. QED BY <1>1, <1>2, OneStepIsSound

\* A migration that begins is neither late nor does it make another one late.
LEMMA BeginningIsSound ==
  ASSUME MigrationInv, SoundInv, NEW m \in Migrators, NEW statements, Begin(m, statements),
         ~Migrating(m), UNCHANGED <<schema, added, removed>>,
         m \in Containers => ~LateIn(m)'
  PROVE  SoundInv'
<1>1. /\ pc' = [pc EXCEPT ![m] = "migrating"]
      /\ undisturbed' = [undisturbed EXCEPT ![m] = TRUE]
  BY DEF Begin
<1>2. undisturbed' = [n \in Migrators |-> undisturbed'[n]]
  BY <1>1, Zenon DEF SoundInv
<1>3. ASSUME NEW n \in Migrators, n # m PROVE undisturbed'[n] = undisturbed[n]
  BY <1>1, <1>3, Zenon DEF SoundInv
<1>4. ASSUME NEW c \in Containers, Migrating(c)', LateIn(c)' PROVE ~undisturbed'[c]
  <2>1. c \in Migrators /\ c # m
    BY <1>4 DEF Migrators
  <2>2. Migrating(c) /\ LateIn(c)
    BY <1>4, <2>1, BeginningKeeps
  <2>3. ~undisturbed[c]
    BY <2>2 DEF SoundInv
  <2>4. QED BY <1>3, <2>1, <2>3
<1>5. QED BY <1>1, <1>2, <1>3, <1>4, OneStepIsSound

LEMMA StartContainerIsSound ==
  ASSUME MigrationInv, SoundInv, NEW c \in Containers, StartContainer(c) PROVE SoundInv'
<1>1. c \in Migrators
  BY DEF Migrators
<1>2. /\ pc[c] \in {"down", "failed"} /\ Begin(c, ToHead(Revision))
      /\ UNCHANGED <<schema, added, removed>>
  BY DEF StartContainer
<1>3. ~Migrating(c)
  BY <1>2 DEF Migrating
<1>4. /\ added'[c] = {} /\ removed'[c] = {}
      /\ todo'[c] = (IF VersionTable \in schema THEN <<>> ELSE <<CreateVersionTable>>)
                      \o ToHead(Revision)
  BY <1>1, <1>2, <1>3, BeginningKeeps
<1>5. Revision = RevisionOf(schema)
  BY DEF Revision, RevisionOf
<1>6. Fresh(schema', todo'[c], added'[c], removed'[c])
  BY <1>2, <1>4, <1>5 DEF Fresh, WorkFor, WorkOn
<1>7. ~LateIn(c)'
  BY <1>6, LateIsApart DEF LateIn
<1>8. QED BY <1>1, <1>2, <1>3, <1>7, BeginningIsSound

LEMMA StartDowngradeIsSound ==
  ASSUME MigrationInv, SoundInv, NEW to \in Revisions, StartDowngrade(to) PROVE SoundInv'
<1>1. Operator \in Migrators /\ Operator \notin Containers
  BY OperatorIsNoContainer DEF Migrators
<1>2. /\ \A m \in Migrators : ~Migrating(m)
      /\ Begin(Operator, DownFrom(Revision, to)) /\ UNCHANGED <<schema, added, removed>>
  BY DEF StartDowngrade
<1>3. QED BY <1>1, <1>2, BeginningIsSound

LEMMA ExecuteIsSound ==
  ASSUME MigrationInv, SoundInv, NEW m \in Migrators, Execute(m) PROVE SoundInv'
<1>1. pc' = pc /\ undisturbed' = undisturbed
  BY DEF Execute
<1>2. \A c \in Containers : Migrating(c)' /\ LateIn(c)' => ~undisturbed'[c]
  BY <1>1, LateBefore DEF SoundInv, Migrating
<1>3. OnlyDisturbedOnesFail'
  BY <1>1 DEF SoundInv, OnlyDisturbedOnesFail
<1>4. undisturbed' = [n \in Migrators |-> undisturbed'[n]]
  BY <1>1 DEF SoundInv
<1>5. QED BY <1>2, <1>3, <1>4 DEF SoundInv

\* The one whose statement is refused is late.
LEMMA FailIsSound ==
  ASSUME MigrationInv, SoundInv, NEW m \in Migrators, Fail(m) PROVE SoundInv'
<1>1. /\ Migrating(m) /\ todo[m] # <<>> /\ ~Succeeds(todo[m][1], View(m))
      /\ Rollback(m, "failed") /\ schema' = schema /\ undisturbed' = undisturbed
  BY DEF Fail, ExitWithError
<1>2. Reached(schema)
  BY DEF MigrationInv
<1>3. ~FreshIn(m) /\ ~LeadingIn(m) /\ ~ReturningIn(m)
  BY <1>1, <1>2, OthersSucceed DEF FreshIn, LeadingIn, ReturningIn, View
<1>4. m \in Containers
  BY <1>1, <1>3 DEF MigrationInv, OperatorInv, Migrators
<1>5. LateIn(m)
  BY <1>1, <1>3, <1>4 DEF MigrationInv, ContainersInv
<1>6. ~undisturbed'[m]
  BY <1>1, <1>4, <1>5 DEF SoundInv
<1>7. undisturbed' = [n \in Migrators |-> undisturbed'[n]]
  BY <1>1 DEF SoundInv
<1>8. \A n \in Migrators : undisturbed'[n] => undisturbed[n]
  BY <1>1
<1>9. QED BY <1>1, <1>6, <1>7, <1>8, RollbackIsSound

\* Every other migration that is open when one commits is disturbed by it.
LEMMA CommitIsSound ==
  ASSUME MigrationInv, SoundInv, NEW m \in Migrators, Commit(m) PROVE SoundInv'
<1> DEFINE there == IF m = Operator THEN "down" ELSE "serving"
<1>1. /\ Rollback(m, there)
      /\ undisturbed' = [n \in Migrators |-> undisturbed[n] /\ (n = m \/ ~Migrating(n))]
  BY DEF Commit
<1>2. there # "migrating" /\ there # "failed"
  OBVIOUS
<1> HIDE DEF there
<1>3. pc' = [pc EXCEPT ![m] = there]
  BY <1>1 DEF Rollback
<1>4. \A n \in Migrators : undisturbed'[n] <=> undisturbed[n] /\ (n = m \/ ~Migrating(n))
  BY <1>1, Zenon
<1>5. undisturbed' = [n \in Migrators |-> undisturbed'[n]]
  BY <1>1, Zenon
<1>6. ASSUME NEW c \in Containers, Migrating(c)' PROVE ~undisturbed'[c]
  <2>1. c \in Migrators
    BY DEF Migrators
  <2>2. c # m
    BY <1>2, <1>3, <1>6 DEF MigrationInv, ShapeInv, Migrating
  <2>3. Migrating(c)
    BY <1>3, <1>6, <2>1, <2>2 DEF MigrationInv, ShapeInv, Migrating
  <2>4. QED BY <1>4, <2>1, <2>2, <2>3
<1>7. QED BY <1>2, <1>3, <1>4, <1>5, <1>6, OneStepIsSound

LEMMA LoseConnectionIsSound ==
  ASSUME MigrationInv, SoundInv, NEW m \in Migrators, LoseConnection(m) PROVE SoundInv'
<1>1. /\ Rollback(m, "failed") /\ schema' = schema
      /\ undisturbed' = [undisturbed EXCEPT ![m] = FALSE]
  BY DEF LoseConnection, ExitWithError
<1>2. undisturbed' = [n \in Migrators |-> undisturbed'[n]]
  BY <1>1, Zenon DEF SoundInv
<1>3. ~undisturbed'[m]
  BY <1>1, Zenon DEF SoundInv
<1>4. ASSUME NEW n \in Migrators, n # m PROVE undisturbed'[n] = undisturbed[n]
  BY <1>1, <1>4, Zenon DEF SoundInv
<1>5. QED BY <1>1, <1>2, <1>3, <1>4, RollbackIsSound

LEMMA NextIsSound == MigrationInv /\ SoundInv /\ [Next]_vars => SoundInv'
<1>1. SUFFICES ASSUME MigrationInv, SoundInv, [Next]_vars PROVE SoundInv'
  OBVIOUS
<1>2. ASSUME UNCHANGED <<schema, txns, undisturbed>> PROVE SoundInv'
  <2>1. /\ schema' = schema /\ pc' = pc /\ todo' = todo /\ added' = added /\ removed' = removed
        /\ undisturbed' = undisturbed
    BY <1>2 DEF txns
  <2>2. QED BY <1>1, <2>1 DEF SoundInv, OnlyDisturbedOnesFail, Migrating, LateIn
<1>3. CASE UNCHANGED vars
  BY <1>2, <1>3 DEF vars
<1>4. ASSUME NEW c \in Containers, StartContainer(c) PROVE SoundInv'
  BY <1>1, <1>4, StartContainerIsSound
<1>5. ASSUME NEW to \in Revisions, StartDowngrade(to) PROVE SoundInv'
  BY <1>1, <1>5, StartDowngradeIsSound
<1>6. ASSUME NEW m \in Migrators, Migrate(m) \/ Crash(m) \/ LoseConnection(m) PROVE SoundInv'
  <2>1. CASE Execute(m)
    BY <1>1, <2>1, ExecuteIsSound
  <2>2. CASE Fail(m)
    BY <1>1, <2>2, FailIsSound
  <2>3. CASE Commit(m)
    BY <1>1, <2>3, CommitIsSound
  <2>4. CASE Crash(m)
    <3>1. Rollback(m, "down") /\ schema' = schema /\ undisturbed' = undisturbed
      BY <2>4 DEF Crash
    <3>2. undisturbed' = [n \in Migrators |-> undisturbed'[n]]
      BY <1>1, <3>1 DEF SoundInv
    <3>3. \A n \in Migrators : undisturbed'[n] => undisturbed[n]
      BY <3>1
    <3>4. QED BY <1>1, <3>1, <3>2, <3>3, RollbackIsSound
  <2>5. CASE LoseConnection(m)
    BY <1>1, <2>5, LoseConnectionIsSound
  <2>6. QED BY <1>6, <2>1, <2>2, <2>3, <2>4, <2>5 DEF Migrate
<1>7. ASSUME NEW table \in TableNames, Store(table) PROVE SoundInv'
  BY <1>2, <1>7 DEF Store
<1>8. CASE Reset
  BY <1>2, <1>8 DEF Reset, StartReset, DeleteTable, Populate, AbandonReset
<1>9. QED BY <1>1, <1>3, <1>4, <1>5, <1>6, <1>7, <1>8 DEF Next

\* OnlyDisturbedOnesFail: run alone, no migration is refused from any revision,
\* and of those that run at once only one that comes too late.
THEOREM OnlyDisturbedMigrationsFail == Spec => []OnlyDisturbedOnesFail
<1>1. SoundInv => OnlyDisturbedOnesFail
  BY DEF SoundInv
<1>2. QED BY <1>1, OneMigrationAtATime, InitIsSound, NextIsSound, PTL DEF Spec
-----------------------------------------------------------------------------
(* The tables that a reset deletes. *)

Cleared(k) == {ClearOrder[j] : j \in 1..(k - 1)}

LEMMA TablesOfModels ==
  /\ IsFiniteSet(TableNames)
  /\ Len(ClearOrder) = 14
  /\ TableNames \subseteq Cleared(15) \union {"users", "audit_events"}
  /\ Cleared(15) \intersect {"users", "audit_events"} = {}
<1>1. /\ User.table = "users" /\ Customer.table = "customers" /\ Account.table = "accounts"
      /\ BehaviourBaseline.table = "behavioural_baselines" /\ Device.table = "devices"
      /\ Session.table = "sessions" /\ CyberEvent.table = "cyber_events"
      /\ Beneficiary.table = "beneficiaries" /\ CryptoAsset.table = "crypto_assets"
      /\ TransactionChannel.table = "transaction_channels"
      /\ Transaction.table = "transactions" /\ Incident.table = "incidents"
      /\ RiskContribution.table = "risk_contributions"
      /\ AnalystAction.table = "analyst_actions" /\ ScenarioRun.table = "scenario_runs"
      /\ AuditEvent.table = "audit_events"
  BY DEF User, Customer, Account, BehaviourBaseline, Device, Session, CyberEvent, Beneficiary,
         CryptoAsset, TransactionChannel, Transaction, Incident, RiskContribution, AnalystAction,
         ScenarioRun, AuditEvent
<1>2. TableNames \subseteq {Names0002[k] : k \in 1..16}
  <2>1. \A d \in Models : \E k \in 1..16 : d.table = Names0002[k]
    BY <1>1 DEF Models, Names0002
  <2>2. QED BY <2>1 DEF TableNames
<1>3. IsFiniteSet({Names0002[k] : k \in 1..16})
  <2> DEFINE f == [k \in 1..16 |-> Names0002[k]]
  <2>1. f \in Surjection(1..16, {Names0002[k] : k \in 1..16})
    BY DEF Surjection
  <2>2. IsFiniteSet(1..16)
    <3>1. 1 \in Int /\ 16 \in Int
      OBVIOUS
    <3>2. QED BY <3>1, FS_Interval
  <2>3. QED BY <2>1, <2>2, FS_Surjection
<1>4. IsFiniteSet(TableNames)
  BY <1>2, <1>3, FS_Subset
<1>5. Len(ClearOrder) = 14
  BY DEF ClearOrder
<1>6. \A k \in 1..16 : Names0002[k] \in {"users", "audit_events"} \/ \E j \in 1..14 : Names0002[k] = ClearOrder[j]
  BY DEF Names0002, ClearOrder
<1>7. \A j \in 1..14 : ClearOrder[j] # "users" /\ ClearOrder[j] # "audit_events"
  BY DEF ClearOrder
<1>8. 15 - 1 = 14
  OBVIOUS
<1>9. QED BY <1>2, <1>4, <1>5, <1>6, <1>7, <1>8 DEF Cleared

\* When each table is cleared, by its place in the migration; users and audit
\* events are not.
PlacesCleared == <<14, 12, 15, 11, 16, 8, 9, 10, 13, 7, 5, 6, 4, 1, 3, 2>>

LEMMA PlacesOfClearing ==
  /\ \A i \in 1..16 : PlacesCleared[i] \in 1..16
  /\ \A i \in 1..16, k \in 1..14 : Names0002[i] = ClearOrder[k] <=> PlacesCleared[i] = k
<1>1. \A i \in 1..16 : PlacesCleared[i] \in 1..16
  BY DEF PlacesCleared
<1>2. \A i \in 1..16 : PlacesCleared[i] \in 1..14 => Names0002[i] = ClearOrder[PlacesCleared[i]]
  BY DEF PlacesCleared, Names0002, ClearOrder
<1>3. \A j, k \in 1..14 : ClearOrder[j] = ClearOrder[k] => j = k
  BY DEF ClearOrder
<1>4. \A i \in 1..16, k \in 1..14 : Names0002[i] = ClearOrder[k] => PlacesCleared[i] = k
  <2>1. ASSUME NEW i \in 1..16, NEW k \in 1..14, Names0002[i] = ClearOrder[k],
               PlacesCleared[i] \notin 1..14
        PROVE  FALSE
    <3>1. i = 3 \/ i = 5
      BY <2>1 DEF PlacesCleared
    <3>2. Names0002[i] = "users" \/ Names0002[i] = "audit_events"
      BY <3>1 DEF Names0002
    <3>3. QED BY <2>1, <3>2 DEF ClearOrder
  <2>2. QED BY <1>2, <1>3, <2>1
<1>5. QED BY <1>1, <1>2, <1>4

\* A table that refers to another one is cleared before it.
LEMMA ReferringTablesGoFirst ==
  ASSUME NEW o \in Objects, o[1] = "fk", NEW k \in 1..14, o[4] = ClearOrder[k]
  PROVE  \E j \in 1..(k - 1) : o[2] = ClearOrder[j]
<1>1. \E i, h \in 1..16 : /\ o[2] = Names0002[i] /\ o[4] = Names0002[h]
                          /\ PlacesCleared[i] < PlacesCleared[h] \/ PlacesCleared[h] \notin 1..14
  <2>1. CASE o \in Made(Upgrade0002)
    <3>1. \E i \in 1..16 : \E r \in Tables0002[i].refs :
            o = <<"fk", Names0002[i], r[1], r[2], r[3]>>
      BY <2>1, ObjectsOf0002 DEF AuditFunction, AuditTrigger
    <3>2. PICK i \in 1..16 : \E r \in Tables0002[i].refs :
                 o = <<"fk", Names0002[i], r[1], r[2], r[3]>>
      BY <3>1
    <3>3. PICK r \in Tables0002[i].refs : o = <<"fk", Names0002[i], r[1], r[2], r[3]>>
      BY <3>2
    <3>4. o[2] = Names0002[i] /\ o[4] = r[2]
      BY <3>3
    <3>5. PICK h \in ReferredTo[i] : r[2] = Names0002[h]
      BY RefersTo
    <3>6. h \in 1..16 /\ (PlacesCleared[i] < PlacesCleared[h] \/ PlacesCleared[h] \notin 1..14)
      BY DEF ReferredTo, PlacesCleared
    <3>7. QED BY <3>4, <3>5, <3>6
  <2>2. CASE o \in Made(Upgrade0003)
    <3>1. o \in Additions
      BY <2>2, MadeBy0003
    <3>2. \/ o = <<"fk", "risk_contributions", "source_transaction_id", "transactions", "SET NULL">>
          \/ o = <<"fk", "risk_contributions", "source_baseline_id", "behavioural_baselines",
                   "SET NULL">>
      <4>1. ASSUME NEW a, NEW b, o = <<"check", a, b>> PROVE FALSE
        BY <4>1
      <4>2. ASSUME NEW a, NEW b, o = <<"unique", a, b>> PROVE FALSE
        BY <4>2
      <4>3. o[1] # "column"
        OBVIOUS
      <4>4. QED BY <3>1, <4>1, <4>2, <4>3, KindsOfAdditions
    <3>3. ASSUME o = <<"fk", "risk_contributions", "source_transaction_id", "transactions",
                       "SET NULL">>
          PROVE  o[2] = "risk_contributions" /\ o[4] = "transactions"
      BY <3>3
    <3>4. ASSUME o = <<"fk", "risk_contributions", "source_baseline_id", "behavioural_baselines",
                       "SET NULL">>
          PROVE  o[2] = "risk_contributions" /\ o[4] = "behavioural_baselines"
      BY <3>4
    <3>5. /\ Names0002[15] = "risk_contributions" /\ Names0002[12] = "transactions"
          /\ Names0002[6] = "behavioural_baselines"
      BY DEF Names0002
    <3>6. PlacesCleared[15] < PlacesCleared[12] /\ PlacesCleared[15] < PlacesCleared[6]
      BY DEF PlacesCleared
    <3>7. 15 \in 1..16 /\ 12 \in 1..16 /\ 6 \in 1..16
      OBVIOUS
    <3>8. o[2] = Names0002[15] /\ (o[4] = Names0002[12] \/ o[4] = Names0002[6])
      BY <3>2, <3>3, <3>4, <3>5
    <3>9. QED BY <3>6, <3>7, <3>8
  <2>3. QED BY <2>1, <2>2 DEF Objects
<1>2. PICK i, h \in 1..16 : /\ o[2] = Names0002[i] /\ o[4] = Names0002[h]
                            /\ PlacesCleared[i] < PlacesCleared[h] \/ PlacesCleared[h] \notin 1..14
  BY <1>1
<1>3. PlacesCleared[h] = k
  <2>1. Names0002[h] = ClearOrder[k]
    BY <1>2
  <2>2. QED BY <2>1, PlacesOfClearing
<1>4. PlacesCleared[i] \in 1..16 /\ PlacesCleared[i] < k
  BY <1>2, <1>3, PlacesOfClearing
<1>5. PlacesCleared[i] \in 1..14 /\ PlacesCleared[i] \in 1..(k - 1)
  BY <1>4
<1>6. o[2] = ClearOrder[PlacesCleared[i]]
  BY <1>2, <1>5, PlacesOfClearing
<1>7. QED BY <1>5, <1>6

\* The tables that a chain of n references leads to.
Reaches(reach, cascading, table, n) ==
  reach = [k \in 0..n |->
             IF k = 0 THEN {table}
             ELSE LET before == reach[k - 1]
                  IN  before \union {r[2] : r \in {c \in cascading : c[4] \in before}}]

LEMMA ReachExists ==
  ASSUME NEW cascading, NEW table, NEW n \in Nat
  PROVE  \E reach : Reaches(reach, cascading, table, n)
<1> DEFINE Step(before) == before \union {r[2] : r \in {c \in cascading : c[4] \in before}}
           T == {k \in Nat : ~ \E reach : Reaches(reach, cascading, table, k)}
<1>1. SUFFICES ASSUME n \in T PROVE FALSE
  OBVIOUS
<1>2. PICK k \in T : \A j \in T : k <= j
  BY <1>1, LeastNumber
<1>3. k # 0
  <2>1. SUFFICES ASSUME k = 0 PROVE FALSE
    OBVIOUS
  <2> DEFINE none == [j \in 0..0 |-> {table}]
  <2>2. \A j \in 0..0 : j = 0
    OBVIOUS
  <2>3. Reaches(none, cascading, table, 0)
    BY <2>2 DEF Reaches
  <2>4. QED BY <2>1, <2>3
<1>4. k - 1 \in Nat /\ k - 1 \notin T
  BY <1>2, <1>3
<1>5. PICK f : Reaches(f, cascading, table, k - 1)
  BY <1>4
<1>6. \A j \in 0..(k - 1) : f[j] = IF j = 0 THEN {table} ELSE Step(f[j - 1])
  BY <1>5 DEF Reaches
<1> HIDE DEF Step
<1> DEFINE g == [j \in 0..k |-> IF j = k THEN Step(f[k - 1]) ELSE f[j]]
<1>7. ASSUME NEW j \in 0..k PROVE g[j] = IF j = 0 THEN {table} ELSE Step(g[j - 1])
  <2>1. CASE j = k
    <3>1. j # 0 /\ j - 1 = k - 1 /\ k - 1 \in 0..k /\ k - 1 # k
      BY <1>3, <1>4, <2>1
    <3>2. g[j] = Step(f[k - 1]) /\ g[k - 1] = f[k - 1]
      BY <2>1, <3>1
    <3>3. QED BY <3>1, <3>2
  <2>2. CASE j # k /\ j = 0
    <3>1. 0 \in 0..(k - 1)
      BY <1>4
    <3>2. QED BY <1>6, <2>2, <3>1
  <2>3. CASE j # k /\ j # 0
    <3>1. j \in 0..(k - 1) /\ j - 1 \in 0..k /\ j - 1 # k
      BY <1>2, <2>3
    <3>2. g[j] = f[j] /\ g[j - 1] = f[j - 1]
      BY <2>3, <3>1
    <3>3. QED BY <1>6, <2>3, <3>1, <3>2
  <2>4. QED BY <2>1, <2>2, <2>3
<1>8. g = [j \in 0..k |-> g[j]]
  OBVIOUS
<1> HIDE DEF g
<1>9. g = [j \in 0..k |-> IF j = 0 THEN {table} ELSE Step(g[j - 1])]
  BY <1>7, <1>8
<1>10. Reaches(g, cascading, table, k)
  BY <1>9 DEF Reaches, Step
<1>11. QED BY <1>2, <1>10

\* It stays among tables that only such tables refer to.
LEMMA ReachIsBounded ==
  ASSUME NEW cascading, NEW table, NEW n \in Nat, NEW reach, Reaches(reach, cascading, table, n),
         NEW E, table \in E, \A c \in cascading : c[4] \in E => c[2] \in E
  PROVE  table \in reach[n] /\ reach[n] \subseteq E
<1> DEFINE T == {k \in 0..n : ~(table \in reach[k] /\ reach[k] \subseteq E)}
<1>1. \A k \in 0..n : reach[k] =
        IF k = 0 THEN {table}
        ELSE reach[k - 1] \union {r[2] : r \in {c \in cascading : c[4] \in reach[k - 1]}}
  BY DEF Reaches
<1>2. SUFFICES ASSUME T # {} PROVE FALSE
  OBVIOUS
<1>3. PICK k \in T : \A j \in T : k <= j
  <2>1. T \subseteq Nat
    OBVIOUS
  <2> HIDE DEF T
  <2>2. QED BY <1>2, <2>1, LeastNumber
<1>4. CASE k = 0
  BY <1>1, <1>3, <1>4
<1>5. CASE k # 0
  <2>1. k - 1 \in 0..n /\ k - 1 \notin T
    BY <1>3, <1>5
  <2>2. table \in reach[k - 1] /\ reach[k - 1] \subseteq E
    BY <2>1
  <2>3. reach[k] = reach[k - 1] \union {r[2] : r \in {c \in cascading : c[4] \in reach[k - 1]}}
    BY <1>1, <1>3, <1>5
  <2>4. QED BY <1>3, <2>2, <2>3
<1>6. QED BY <1>4, <1>5

\* Deleting a table deletes nothing but what is cleared by then.
LEMMA CascadeIsCleared ==
  ASSUME schema = SchemaAt(HeadRevision), NEW k \in 1..14
  PROVE  /\ Cascaded(ClearOrder[k]) \subseteq Cleared(k + 1) \intersect left
         /\ ClearOrder[k] \in left => ClearOrder[k] \in Cascaded(ClearOrder[k])
<1> DEFINE table == ClearOrder[k]
           n == Cardinality(TableNames)
           cascading == {r \in References : r[5] = "CASCADE"}
           F(f) == [j \in 0..n |->
                      IF j = 0 THEN {table}
                      ELSE LET before == f[j - 1]
                           IN  before \union {r[2] : r \in {c \in cascading : c[4] \in before}}]
           reach == CHOOSE f : f = F(f)
<1>1. Cascaded(table) = reach[n] \intersect left
  BY DEF Cascaded
<1>2. n \in Nat
  BY TablesOfModels, FS_CardinalityType
<1>3. \A c \in cascading : c[4] \in Cleared(k + 1) => c[2] \in Cleared(k + 1)
  <2>1. SUFFICES ASSUME NEW c \in cascading, c[4] \in Cleared(k + 1)
                 PROVE  c[2] \in Cleared(k + 1)
    OBVIOUS
  <2>2. PICK i \in 1..14 : i <= k /\ c[4] = ClearOrder[i]
    BY <2>1 DEF Cleared
  <2>3. c \in Objects /\ c[1] = "fk"
    <3>1. c \in schema /\ c[1] = "fk"
      BY DEF References
    <3>2. VersionTable[1] = "table" /\ Version(3)[1] = "version"
      BY DEF VersionTable, Version
    <3>3. QED BY <3>1, <3>2, SchemasAre DEF HeadRevision
  <2>4. PICK j \in 1..(i - 1) : c[2] = ClearOrder[j]
    BY <2>2, <2>3, ReferringTablesGoFirst
  <2>5. j \in 1..((k + 1) - 1)
    BY <2>2
  <2>6. QED BY <2>4, <2>5 DEF Cleared
<1>4. table \in Cleared(k + 1)
  <2>1. k \in 1..((k + 1) - 1)
    OBVIOUS
  <2>2. QED BY <2>1 DEF Cleared
<1> HIDE DEF table, n, cascading
<1>5. \E f : f = F(f)
  <2>1. \E f : Reaches(f, cascading, table, n)
    BY <1>2, ReachExists
  <2>2. QED BY <2>1 DEF Reaches
<1>6. Reaches(reach, cascading, table, n)
  BY <1>5 DEF Reaches
<1> HIDE DEF reach
<1>7. table \in reach[n] /\ reach[n] \subseteq Cleared(k + 1)
  BY <1>2, <1>3, <1>4, <1>6, ReachIsBounded, ZenonT(60)
<1>8. QED BY <1>1, <1>7 DEF table

\* What the tables that are cleared leave; and no reference holds the next one.
LEMMA NoDeleteIsRefused ==
  ASSUME schema = SchemaAt(HeadRevision), NEW k \in 1..14, left = rows \ Cleared(k)
  PROVE  /\ ~Refused(ClearOrder[k])
         /\ left \ Cascaded(ClearOrder[k]) = rows \ Cleared(k + 1)
<1>1. /\ Cascaded(ClearOrder[k]) \subseteq Cleared(k + 1) \intersect left
      /\ ClearOrder[k] \in left => ClearOrder[k] \in Cascaded(ClearOrder[k])
  BY CascadeIsCleared
<1>2. Cleared(k + 1) = Cleared(k) \union {ClearOrder[k]}
  <2>1. 1..((k + 1) - 1) = 1..(k - 1) \union {k}
    OBVIOUS
  <2>2. QED BY <2>1 DEF Cleared
<1>3. Cascaded(ClearOrder[k]) = {ClearOrder[k]} \intersect left
  BY <1>1, <1>2
<1>4. left \ Cascaded(ClearOrder[k]) = rows \ Cleared(k + 1)
  BY <1>2, <1>3
<1>5. "audit_events" \notin Cascaded(ClearOrder[k])
  <2>1. \A j \in 1..14 : ClearOrder[j] # "audit_events"
    BY DEF ClearOrder
  <2>2. QED BY <1>3, <2>1
<1>6. ASSUME NEW r \in References, r[2] \in left, r[4] \in Cascaded(ClearOrder[k]) PROVE FALSE
  <2>1. r \in Objects /\ r[1] = "fk"
    <3>1. r \in schema /\ r[1] = "fk"
      BY DEF References
    <3>2. VersionTable[1] = "table" /\ Version(3)[1] = "version"
      BY DEF VersionTable, Version
    <3>3. QED BY <3>1, <3>2, SchemasAre DEF HeadRevision
  <2>2. r[4] = ClearOrder[k]
    BY <1>3, <1>6
  <2>3. PICK j \in 1..(k - 1) : r[2] = ClearOrder[j]
    BY <2>1, <2>2, ReferringTablesGoFirst
  <2>4. r[2] \in Cleared(k)
    BY <2>3 DEF Cleared
  <2>5. QED BY <1>6, <2>4
<1>7. QED BY <1>4, <1>5, <1>6 DEF Refused

-----------------------------------------------------------------------------
(* The reset. *)

\* While a reset deletes, the schema stays that of head, and what is left are
\* the rows of the tables it has not come to.
ResetInv ==
  /\ clearing \in 0..15
  /\ rows \subseteq TableNames
  /\ clearing = 0 => left = rows
  /\ clearing # 0 => /\ left = rows \ Cleared(clearing)
                     /\ schema = SchemaAt(HeadRevision) /\ ~Migrating(Operator)

LEMMA StoredMeansHead == MigrationInv /\ Stored => schema = SchemaAt(HeadRevision)
<1>1. SUFFICES ASSUME MigrationInv, Stored PROVE schema = SchemaAt(HeadRevision)
  OBVIOUS
<1>2. RevisionOf(schema) = 3
  BY <1>1 DEF Stored, Revision, RevisionOf, HeadRevision
<1>3. schema # {}
  <2>1. RevisionOf({}) = 0
    BY RevisionOfSchema
  <2>2. QED BY <1>2, <2>1
<1>4. PICK r \in Revisions : schema = SchemaAt(r)
  BY <1>1, <1>3 DEF MigrationInv, Reached
<1>5. RevisionOf(schema) = r
  BY <1>4, RevisionOfSchema
<1>6. QED BY <1>2, <1>4, <1>5 DEF HeadRevision

\* A migration leaves the schema of a reset as it is.
LEMMA MigratingKeepsReset ==
  ASSUME MigrationInv, ResetInv, UNCHANGED data, clearing # 0,
         \/ \E c \in Containers : StartContainer(c)
         \/ \E m \in Migrators : Migrate(m) \/ Crash(m) \/ LoseConnection(m)
  PROVE  schema' = SchemaAt(HeadRevision) /\ ~Migrating(Operator)'
<1>1. schema = SchemaAt(HeadRevision) /\ ~Migrating(Operator)
  BY DEF ResetInv
<1>2. Operator \in Migrators /\ \A c \in Containers : c \in Migrators /\ c # Operator
  BY OperatorIsNoContainer DEF Migrators
<1>3. ASSUME NEW m \in Migrators, NEW there, there # "migrating", Rollback(m, there)
      PROVE  ~Migrating(Operator)'
  <2>1. pc' = [pc EXCEPT ![m] = there]
    BY <1>3 DEF Rollback
  <2>2. pc'[Operator] = there \/ pc'[Operator] = pc[Operator]
    BY <1>2, <2>1 DEF MigrationInv, ShapeInv
  <2>3. QED BY <1>1, <1>3, <2>2 DEF Migrating
<1>4. ASSUME NEW c \in Containers, StartContainer(c)
      PROVE  schema' = SchemaAt(HeadRevision) /\ ~Migrating(Operator)'
  <2>1. schema' = schema /\ pc' = [pc EXCEPT ![c] = "migrating"]
    BY <1>4 DEF StartContainer, Begin
  <2>2. pc'[Operator] = pc[Operator]
    BY <1>2, <2>1 DEF MigrationInv, ShapeInv
  <2>3. QED BY <1>1, <2>1, <2>2 DEF Migrating
<1>5. ASSUME NEW m \in Migrators, Migrate(m) \/ Crash(m) \/ LoseConnection(m)
      PROVE  schema' = SchemaAt(HeadRevision) /\ ~Migrating(Operator)'
  <2>1. CASE Execute(m)
    BY <1>1, <2>1 DEF Execute, Migrating
  <2>2. CASE Fail(m)
    <3>1. schema' = schema /\ Rollback(m, "failed")
      BY <2>2 DEF Fail, ExitWithError
    <3>2. QED BY <1>1, <1>3, <3>1
  <2>3. CASE Commit(m)
    <3>1. Migrating(m) /\ Rollback(m, IF m = Operator THEN "down" ELSE "serving")
      BY <2>3 DEF Commit
    <3>2. m \in Containers
      BY <1>1, <3>1 DEF Migrators
    <3>3. (IF m = Operator THEN "down" ELSE "serving") # "migrating"
      OBVIOUS
    <3>4. ~Migrating(Operator)'
      BY <1>3, <3>1, <3>3
    <3>5. schema' = SchemaAt(HeadRevision)
      BY <2>3, <3>2, CommitKeeps
    <3>6. QED BY <3>4, <3>5
  <2>4. CASE Crash(m)
    <3>1. schema' = schema /\ Rollback(m, "down")
      BY <2>4 DEF Crash
    <3>2. QED BY <1>1, <1>3, <3>1
  <2>5. CASE LoseConnection(m)
    <3>1. schema' = schema /\ Rollback(m, "failed")
      BY <2>5 DEF LoseConnection, ExitWithError
    <3>2. QED BY <1>1, <1>3, <3>1
  <2>6. QED BY <1>5, <2>1, <2>2, <2>3, <2>4, <2>5 DEF Migrate
<1>6. QED BY <1>4, <1>5

\* A step of the dataset, while the schema and the migrations stand still.
LEMMA DatasetKeepsReset ==
  ASSUME MigrationInv, ResetInv, UNCHANGED <<schema, txns>>,
         Reset \/ \E table \in TableNames : Store(table)
  PROVE  ResetInv'
<1>1. /\ schema' = schema /\ (Migrating(Operator)' <=> Migrating(Operator))
      /\ Cleared(1) = {} /\ TableNames \subseteq Cleared(15) \union {"users", "audit_events"}
      /\ Len(ClearOrder) = 14
  BY TablesOfModels DEF txns, Migrating, Cleared
<1>2. CASE \E table \in TableNames : Store(table)
  BY <1>2 DEF Store, ResetInv
<1>3. CASE StartReset
  <2>1. Stored /\ clearing' = 1 /\ clearing = 0 /\ rows' = rows /\ left' = left
    BY <1>3 DEF StartReset
  <2>2. schema = SchemaAt(HeadRevision) /\ ~Migrating(Operator)
    <3>1. schema = SchemaAt(HeadRevision)
      BY <2>1, StoredMeansHead
    <3>2. ~Migrating(Operator)
      BY <2>1 DEF Stored
    <3>3. QED BY <3>1, <3>2
  <2>3. left = rows
    BY <2>1 DEF ResetInv
  <2>4. QED BY <1>1, <2>1, <2>2, <2>3 DEF ResetInv
<1>4. CASE DeleteTable
  <2>1. /\ clearing \in 1..14 /\ clearing' = clearing + 1 /\ rows' = rows
        /\ left' = left \ Cascaded(ClearOrder[clearing])
    BY <1>1, <1>4 DEF DeleteTable
  <2>2. schema = SchemaAt(HeadRevision) /\ ~Migrating(Operator) /\ left = rows \ Cleared(clearing)
    BY <2>1 DEF ResetInv
  <2>3. left' = rows \ Cleared(clearing + 1)
    BY <2>1, <2>2, NoDeleteIsRefused
  <2>4. clearing + 1 \in 0..15
    BY <2>1
  <2>5. QED BY <1>1, <2>1, <2>2, <2>3, <2>4 DEF ResetInv
<1>5. CASE Populate
  <2>1. clearing' = 0 /\ rows' = left \union Populated /\ left' = rows' /\ clearing # 0
    BY <1>1, <1>5 DEF Populate
  <2>2. left \subseteq TableNames
    BY <2>1 DEF ResetInv
  <2>3. QED BY <2>1, <2>2 DEF ResetInv, Populated
<1>6. CASE AbandonReset
  BY <1>6 DEF AbandonReset, ResetInv
<1>7. QED BY <1>2, <1>3, <1>4, <1>5, <1>6 DEF Reset

LEMMA NextKeepsReset == MigrationInv /\ ResetInv /\ [Next]_vars => ResetInv'
<1>1. SUFFICES ASSUME MigrationInv, ResetInv, [Next]_vars PROVE ResetInv'
  OBVIOUS
<1>2. ASSUME UNCHANGED data,
             \/ \E c \in Containers : StartContainer(c)
             \/ \E m \in Migrators : Migrate(m) \/ Crash(m) \/ LoseConnection(m)
      PROVE  ResetInv'
  <2>1. rows' = rows /\ left' = left /\ clearing' = clearing
    BY <1>2 DEF data
  <2>2. clearing # 0 => schema' = SchemaAt(HeadRevision) /\ ~Migrating(Operator)'
    BY <1>1, <1>2, MigratingKeepsReset
  <2>3. QED BY <1>1, <2>1, <2>2 DEF ResetInv
<1>3. ASSUME NEW c \in Containers, StartContainer(c) PROVE ResetInv'
  BY <1>2, <1>3 DEF StartContainer
<1>4. ASSUME NEW to \in Revisions, StartDowngrade(to) PROVE ResetInv'
  BY <1>1, <1>4 DEF StartDowngrade, data, ResetInv
<1>5. ASSUME NEW m \in Migrators, Migrate(m) \/ Crash(m) \/ LoseConnection(m) PROVE ResetInv'
  <2>1. UNCHANGED data
    BY <1>5 DEF Migrate, Execute, Fail, Commit, Crash, LoseConnection
  <2>2. QED BY <1>2, <1>5, <2>1
<1>6. ASSUME Reset \/ \E table \in TableNames : Store(table) PROVE ResetInv'
  <2>1. UNCHANGED <<schema, txns>>
    BY <1>6 DEF Store, Reset, StartReset, DeleteTable, Populate, AbandonReset
  <2>2. QED BY <1>1, <1>6, <2>1, DatasetKeepsReset
<1>7. CASE UNCHANGED vars
  <2>1. /\ schema' = schema /\ pc' = pc /\ rows' = rows /\ left' = left
        /\ clearing' = clearing
    BY <1>7 DEF vars, txns, data
  <2>2. QED BY <1>1, <2>1 DEF ResetInv, Migrating
<1>8. QED BY <1>1, <1>3, <1>4, <1>5, <1>6, <1>7 DEF Next

LEMMA ResetInvSuffices == ResetInv => ResetGoesThrough
<1>1. SUFFICES ASSUME ResetInv PROVE ResetGoesThrough
  OBVIOUS
<1>2. Len(ClearOrder) = 14 /\ 14 + 1 = 15
  BY TablesOfModels
<1>3. ASSUME clearing \in 1..14 PROVE ~Refused(ClearOrder[clearing])
  <2>1. left = rows \ Cleared(clearing) /\ schema = SchemaAt(HeadRevision)
    BY <1>1, <1>3 DEF ResetInv
  <2>2. QED BY <1>3, <2>1, NoDeleteIsRefused
<1>4. ASSUME clearing = 15 PROVE left = rows \intersect {"users", "audit_events"}
  <2>1. left = rows \ Cleared(15) /\ rows \subseteq TableNames
    BY <1>1, <1>4 DEF ResetInv
  <2>2. QED BY <2>1, TablesOfModels
<1>5. QED BY <1>2, <1>3, <1>4 DEF ResetGoesThrough

\* ResetGoesThrough: whatever rows there are, and whatever migrates meanwhile, no
\* delete of a reset is refused, and the users and the audit events are left.
THEOREM ResetsGoThrough == Spec => []ResetGoesThrough
<1>1. Init => ResetInv
  BY DEF Init, ResetInv
<1>2. QED BY <1>1, OneMigrationAtATime, NextKeepsReset, ResetInvSuffices, PTL DEF Spec

=============================================================================
