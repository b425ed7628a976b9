------------------------ MODULE ReleaseBootstrapProofs ------------------------
(***************************************************************************)
(* Proofs about the release bootstrap, for any number of bootstraps and    *)
(* any number of crashes and resets.                                       *)
(*                                                                         *)
(* A reset makes the dataset the baseline.  So while the history says that *)
(* it has not been the baseline since a reading began, there was no reset, *)
(* and what was changed when the reading began still is.  Whoever changes  *)
(* the dataset changes one of the two tables that a fingerprint reads      *)
(* last, and these give the change away.                                   *)
(***************************************************************************)
EXTENDS ReleaseBootstrap, TLAPS

Reading(b) == pc[b] \in {"count", "final count", "fingerprint", "final fingerprint"}
Fingerprinting(b) == pc[b] \in {"fingerprint", "final fingerprint"}

\* Every change shows in one of the last two tables, and only rows change.
ChangesShow ==
  /\ changed # {} => filled
  /\ changed # {} => "analyst_actions" \in changed \/ "scenario_runs" \in changed

\* What a reading knows that has not seen the baseline.
Suspicious(b) ==
  Reading(b) /\ ~ held[b] =>
    /\ ~ Baseline
    /\ ~ filled /\ (read[b].next > 1 \/ Fingerprinting(b)) => ~ read[b].counts
    /\ Fingerprinting(b) /\ read[b].next = 14 /\ read[b].counts /\ read[b].rows
         => "scenario_runs" \in changed
    /\ Fingerprinting(b) /\ read[b].next > 14 => ~ (read[b].counts /\ read[b].rows)

\* What a bootstrap knows that began on a dataset.
Found(b) ==
  read[b].found =>
    /\ pc[b] \in {"count", "final count"} => filled /\ (read[b].next > 1 => ~ read[b].zero)
    /\ pc[b] # "initialize"

BootstrapInv ==
  /\ TypeOK
  /\ ChangesShow
  /\ \A b \in Bootstraps : Suspicious(b) /\ Found(b)

-----------------------------------------------------------------------------
LEMMA LastTables ==
  /\ Len(FINGERPRINT_MODELS) = 14
  /\ FINGERPRINT_MODELS[13] = "analyst_actions"
  /\ FINGERPRINT_MODELS[14] = "scenario_runs"
BY DEF FINGERPRINT_MODELS

LEMMA FirstCount == Len(COUNTED) = 7
BY DEF COUNTED

LEMMA OneMore == \A n \in Nat : n + 1 \in Nat
OBVIOUS

LEMMA FirstRead ==
  /\ \A n : n = 1 => ~ (n > 1) /\ n # 14 /\ ~ (n > 14)
  /\ \A n \in Nat : n > 7 => n > 1
OBVIOUS

LEMMA WrittenTables ==
  {"devices", "beneficiaries", "sessions", "cyber_events", "transactions", "incidents",
   "risk_contributions", "analyst_actions", "scenario_runs"} \subseteq Tables
<1>1. \A k \in 1..14 : FINGERPRINT_MODELS[k] \in Tables
  BY LastTables DEF Tables
<1>2. /\ 5 \in 1..14 /\ 6 \in 1..14 /\ 7 \in 1..14 /\ 8 \in 1..14 /\ 9 \in 1..14
      /\ 11 \in 1..14 /\ 12 \in 1..14 /\ 13 \in 1..14 /\ 14 \in 1..14
  OBVIOUS
<1>3. /\ FINGERPRINT_MODELS[5] \in Tables /\ FINGERPRINT_MODELS[6] \in Tables
      /\ FINGERPRINT_MODELS[7] \in Tables /\ FINGERPRINT_MODELS[8] \in Tables
      /\ FINGERPRINT_MODELS[9] \in Tables /\ FINGERPRINT_MODELS[11] \in Tables
      /\ FINGERPRINT_MODELS[12] \in Tables /\ FINGERPRINT_MODELS[13] \in Tables
      /\ FINGERPRINT_MODELS[14] \in Tables
  BY <1>1, <1>2
<1>4. /\ FINGERPRINT_MODELS[5] = "devices" /\ FINGERPRINT_MODELS[6] = "beneficiaries"
      /\ FINGERPRINT_MODELS[7] = "sessions" /\ FINGERPRINT_MODELS[8] = "cyber_events"
      /\ FINGERPRINT_MODELS[9] = "transactions" /\ FINGERPRINT_MODELS[11] = "incidents"
      /\ FINGERPRINT_MODELS[12] = "risk_contributions"
      /\ FINGERPRINT_MODELS[13] = "analyst_actions"
      /\ FINGERPRINT_MODELS[14] = "scenario_runs"
  BY DEF FINGERPRINT_MODELS
<1> QED
  BY <1>3, <1>4, Zenon

\* What the steps of a reading write, field by field.
LEMMA ReadingFields ==
  ASSUME NEW r, NEW found
  PROVE  /\ NothingRead(found).next = 1 /\ NothingRead(found).found = found
         /\ AfterCount(r).next = r.next + 1 /\ AfterCount(r).found = r.found
         /\ AfterCount(r).zero = (r.zero /\ ~ filled)
         /\ AfterCount(r).counts = (r.counts /\ filled /\ COUNTED[r.next] \notin grown)
         /\ AfterTable(r).next = r.next + 1 /\ AfterTable(r).found = r.found
         /\ AfterTable(r).counts = r.counts
         /\ AfterTable(r).rows = (r.rows /\ filled /\ FINGERPRINT_MODELS[r.next] \notin changed)
         /\ FromFirstTable(r).next = 1 /\ FromFirstTable(r).counts = r.counts
         /\ FromFirstTable(r).found = r.found
BY Zenon DEF NothingRead, AfterCount, AfterTable, FromFirstTable

LEMMA ReadingsStayReadings ==
  ASSUME TypeOK, NEW r \in Readings
  PROVE  /\ AfterCount(r) \in Readings
         /\ AfterTable(r) \in Readings
         /\ FromFirstTable(r) \in Readings
         /\ NothingRead(filled) \in Readings /\ NothingRead(FALSE) \in Readings
<1>1. /\ r.next \in Nat /\ r.zero \in BOOLEAN /\ r.counts \in BOOLEAN /\ r.rows \in BOOLEAN
      /\ r.found \in BOOLEAN /\ filled \in BOOLEAN
  BY DEF TypeOK, Readings
<1>2. r.next + 1 \in Nat /\ 1 \in Nat
  BY <1>1
<1>3. /\ (r.zero /\ ~ filled) \in BOOLEAN
      /\ (r.counts /\ filled /\ COUNTED[r.next] \notin grown) \in BOOLEAN
      /\ (r.rows /\ filled /\ FINGERPRINT_MODELS[r.next] \notin changed) \in BOOLEAN
  BY Zenon
<1>4. AfterCount(r) \in Readings
  BY <1>1, <1>2, <1>3, Zenon DEF AfterCount, Readings
<1>5. AfterTable(r) \in Readings
  BY <1>1, <1>2, <1>3, Zenon DEF AfterTable, Readings
<1>6. FromFirstTable(r) \in Readings
  BY <1>1, <1>2, Zenon DEF FromFirstTable, Readings
<1>7. NothingRead(filled) \in Readings /\ NothingRead(FALSE) \in Readings
  BY <1>1, <1>2, Zenon DEF NothingRead, Readings
<1> QED
  BY <1>4, <1>5, <1>6, <1>7

\* The end of a command keeps the types of what it resets.
LEMMA EndsKeepTypes ==
  ASSUME TypeOK, NEW b \in Bootstraps, NEW at \in {"seed", "done", "failed", "refused"},
         End(b, at)
  PROVE  /\ pc' \in [Bootstraps -> {"idle", "count", "initialize", "fingerprint", "seed",
                                    "store", "final count", "final fingerprint", "done",
                                    "failed", "refused"}]
         /\ read' \in [Bootstraps -> Readings]
         /\ missing' \in [Bootstraps -> SUBSET DemoUsers]
         /\ held' \in [Bootstraps -> BOOLEAN]
<1>1. NothingRead(FALSE) \in Readings
  BY DEF NothingRead, Readings
<1> QED
  BY <1>1 DEF End, Goto, TypeOK

LEMMA TypeIsInductive == TypeOK /\ [Next]_vars => TypeOK'
<1> SUFFICES ASSUME TypeOK, [Next]_vars PROVE TypeOK'
  OBVIOUS
<1> USE DEF TypeOK
<1>1. ASSUME NEW b \in Bootstraps, Start(b) PROVE TypeOK'
  BY <1>1, ReadingsStayReadings DEF Start, Goto, BeginReading, Baseline, dataset
<1>2. ASSUME NEW b \in Bootstraps, CountTable(b) PROVE TypeOK'
  BY <1>2, ReadingsStayReadings DEF CountTable, dataset
<1>3. ASSUME NEW b \in Bootstraps, Decide(b) PROVE TypeOK'
  <2>1. UNCHANGED <<configured, filled, changed, grown, users, events>>
    BY <1>3 DEF Decide, dataset
  <2>2. CASE Goto(b, "initialize") /\ UNCHANGED <<read, missing, held>>
    BY <2>1, <2>2 DEF Goto
  <2>3. CASE /\ Goto(b, "fingerprint")
             /\ read' = [read EXCEPT ![b] = FromFirstTable(read[b])]
             /\ UNCHANGED <<missing, held>>
    BY <2>1, <2>3, ReadingsStayReadings DEF Goto
  <2>4. CASE End(b, "refused")
    BY <2>1, <2>4, EndsKeepTypes
  <2> QED
    BY <1>3, <2>2, <2>3, <2>4 DEF Decide
<1>4. ASSUME NEW b \in Bootstraps, Initialize(b) PROVE TypeOK'
  BY <1>4 DEF Initialize, Goto, Noted
<1>5. ASSUME NEW b \in Bootstraps, InitializeConflict(b) PROVE TypeOK'
  BY <1>5, ReadingsStayReadings DEF InitializeConflict, End, Goto, dataset
<1>6. ASSUME NEW b \in Bootstraps, ReadTable(b) PROVE TypeOK'
  BY <1>6, ReadingsStayReadings DEF ReadTable, dataset
<1>7. ASSUME NEW b \in Bootstraps, Verify(b) PROVE TypeOK'
  BY <1>7, ReadingsStayReadings DEF Verify, End, Goto, dataset
<1>8. ASSUME NEW b \in Bootstraps, LookUpUsers(b) PROVE TypeOK'
  <2>1. UNCHANGED <<configured, filled, changed, grown, users, events>>
    BY <1>8 DEF LookUpUsers, dataset
  <2>2. CASE End(b, "refused")
    BY <2>1, <2>2, EndsKeepTypes
  <2>3. CASE /\ Goto(b, "store")
             /\ missing' = [missing EXCEPT ![b] = {u \in DemoUsers : users[u] = "none"}]
             /\ UNCHANGED <<read, held>>
    BY <2>1, <2>3 DEF Goto
  <2> QED
    BY <1>8, <2>2, <2>3 DEF LookUpUsers
<1>9. ASSUME NEW b \in Bootstraps, StoreUsers(b) PROVE TypeOK'
  BY <1>9, ReadingsStayReadings DEF StoreUsers, Goto, BeginReading, Baseline, dataset
<1>10. ASSUME NEW b \in Bootstraps, StoreConflict(b) PROVE TypeOK'
  BY <1>10, ReadingsStayReadings DEF StoreConflict, End, Goto, dataset
<1>11. ASSUME NEW b \in Bootstraps, FinalFingerprint(b) PROVE TypeOK'
  BY <1>11, ReadingsStayReadings DEF FinalFingerprint, Goto, dataset
<1>12. ASSUME NEW b \in Bootstraps, Crash(b) PROVE TypeOK'
  <2>1. UNCHANGED <<configured, filled, changed, grown, users>> /\ End(b, "failed")
        /\ events' = events + 1
    BY <1>12, Zenon DEF Crash, dataset
  <2>2. events' \in Nat
    BY <2>1, OneMore, Zenon
  <2> QED
    BY <2>1, <2>2, EndsKeepTypes
<1>13. CASE Works
  <2>1. ASSUME NEW tables \in SUBSET Tables, NEW more \in SUBSET tables, Work(tables, more)
        PROVE TypeOK'
    BY <2>1 DEF Work, steps
  <2>3. CASE RunScenario
    BY <2>1, WrittenTables, <2>3 DEF RunScenario
  <2>4. CASE FailScenario
    BY <2>1, WrittenTables, <2>4 DEF FailScenario
  <2>5. CASE Act
    BY <2>1, WrittenTables, <2>5 DEF Act
  <2>6. CASE AdministratorResets
    <3>1. held' \in [Bootstraps -> BOOLEAN]
      <4>1. \A b \in Bootstraps : (held[b] \/ TRUE) \in BOOLEAN
        BY Zenon
      <4> QED
        BY <2>6, <4>1, Zenon DEF AdministratorResets, Noted
    <3>2. filled' = TRUE /\ changed' = {} /\ grown' = {} /\ events' = events + 1
      BY <2>6, Zenon DEF AdministratorResets
    <3>3. UNCHANGED <<configured, users, pc, read, missing>>
      BY <2>6 DEF AdministratorResets, steps
    <3>4. events' \in Nat
      BY <3>2, OneMore, Zenon
    <3>5. changed' \subseteq Tables /\ grown' \subseteq changed' /\ filled' \in BOOLEAN
      BY <3>2, Zenon
    <3> QED
      BY <3>1, <3>3, <3>4, <3>5
  <2> QED
    BY <1>13, <2>3, <2>4, <2>5, <2>6 DEF Works
<1>14. CASE UNCHANGED vars
  BY <1>14 DEF vars, dataset, steps
<1> QED
  BY <1>1, <1>2, <1>3, <1>4, <1>5, <1>6, <1>7, <1>8, <1>9, <1>10, <1>11, <1>12, <1>13, <1>14
  DEF Next, Step

-----------------------------------------------------------------------------
(* The invariant, one bootstrap at a time. *)

\* Who does not move keeps what it knows: the dataset is as it was, or grew, or
\* was reset, which its history then says.
LEMMA BystandersKnow ==
  ASSUME BootstrapInv, NEW c \in Bootstraps,
         pc'[c] = pc[c], read'[c] = read[c],
         filled => filled',
         held'[c] \/ (~ held[c] /\ filled' = filled /\ changed \subseteq changed')
  PROVE  Suspicious(c)' /\ Found(c)'
<1>1. Suspicious(c) /\ Found(c)
  BY DEF BootstrapInv
<1>2. Found(c)'
  BY <1>1 DEF Found
<1>3. Suspicious(c)'
  BY <1>1 DEF Suspicious, Reading, Fingerprinting, Baseline
<1> QED
  BY <1>2, <1>3

\* What one bootstrap does to its own place, and nothing to the dataset.
Own(b) ==
  /\ UNCHANGED <<filled, changed, grown>>
  /\ \A c \in Bootstraps \ {b} : pc'[c] = pc[c] /\ read'[c] = read[c] /\ held'[c] = held[c]

LEMMA OwnStep ==
  ASSUME BootstrapInv, TypeOK', NEW b \in Bootstraps, Own(b), Suspicious(b)', Found(b)'
  PROVE  BootstrapInv'
<1>1. ChangesShow'
  BY DEF BootstrapInv, ChangesShow, Own
<1>2. ASSUME NEW c \in Bootstraps, c # b PROVE Suspicious(c)' /\ Found(c)'
  <2>1. pc'[c] = pc[c] /\ read'[c] = read[c] /\ held'[c] = held[c]
    BY <1>2 DEF Own
  <2>2. held[c] \in BOOLEAN /\ filled' = filled /\ changed' = changed
    BY DEF BootstrapInv, TypeOK, Own
  <2> QED
    BY <2>1, <2>2, BystandersKnow
<1> QED
  BY <1>1, <1>2 DEF BootstrapInv

\* A command that ends knows nothing.
LEMMA EndsKnowNothing ==
  ASSUME TypeOK, NEW b \in Bootstraps, NEW at \in {"seed", "done", "failed", "refused"},
         End(b, at), UNCHANGED dataset
  PROVE  Own(b) /\ Suspicious(b)' /\ Found(b)'
<1>1. pc'[b] = at /\ read'[b] = NothingRead(FALSE)
  BY DEF End, Goto, TypeOK
<1>2. Own(b)
  BY DEF End, Goto, TypeOK, Own, dataset
<1>3. Suspicious(b)'
  BY <1>1 DEF Suspicious, Reading
<1>4. Found(b)'
  BY <1>1 DEF Found, NothingRead
<1> QED
  BY <1>2, <1>3, <1>4

\* A reading that begins now has seen nothing but whether there is a dataset.
LEMMA BeginnersKnow ==
  ASSUME TypeOK, NEW b \in Bootstraps, NEW at \in {"count", "refused", "final count"},
         Goto(b, at), BeginReading(b), held' = [held EXCEPT ![b] = Baseline],
         UNCHANGED dataset
  PROVE  Own(b) /\ Suspicious(b)' /\ Found(b)'
<1>1. pc'[b] = at
  BY DEF Goto, TypeOK
<1>0. held'[b] = Baseline
  BY DEF TypeOK
<1>2. Own(b)
  BY DEF Goto, BeginReading, TypeOK, Own, dataset
<1>3. UNCHANGED <<filled, changed>> /\ filled \in BOOLEAN
  BY DEF dataset, TypeOK
<1>4. read'[b].next = 1 /\ read'[b].found = filled
  <2>1. read'[b] = NothingRead(filled)
    BY DEF BeginReading, TypeOK
  <2>2. NothingRead(filled).next = 1 /\ NothingRead(filled).found = filled
    BY ReadingFields
  <2> QED
    BY <2>1, <2>2, Zenon
<1>5. Suspicious(b)'
  <2>1. ~ Fingerprinting(b)' /\ ~ (read'[b].next > 1)
    <3>1. read'[b].next = 1
      BY <1>4, Zenon
    <3>2. ~ (read'[b].next > 1)
      BY <3>1, FirstRead, Zenon
    <3>3. ~ Fingerprinting(b)'
      BY <1>1 DEF Fingerprinting
    <3> QED
      BY <3>2, <3>3
  <2>2. ~ held'[b] => ~ Baseline'
    BY <1>0, <1>3, Zenon DEF Baseline
  <2> QED
    BY <2>1, <2>2 DEF Suspicious
<1>6. Found(b)'
  <2>1. read'[b].found => filled'
    BY <1>3, <1>4, Zenon
  <2>2. pc'[b] # "initialize" /\ ~ (read'[b].next > 1)
    <3>1. read'[b].next = 1
      BY <1>4, Zenon
    <3>2. ~ (read'[b].next > 1)
      BY <3>1, FirstRead, Zenon
    <3>3. pc'[b] # "initialize"
      BY <1>1
    <3> QED
      BY <3>2, <3>3
  <2> QED
    BY <2>1, <2>2 DEF Found
<1> QED
  BY <1>2, <1>5, <1>6

LEMMA CountsKnow ==
  ASSUME BootstrapInv, TypeOK', NEW b \in Bootstraps, CountTable(b)
  PROVE  BootstrapInv'
<1>1. /\ pc'[b] = pc[b] /\ read'[b] = AfterCount(read[b]) /\ held'[b] = held[b]
      /\ filled' = filled /\ changed' = changed
      /\ pc[b] \in {"count", "final count"} /\ read[b] \in Readings /\ Own(b)
  BY DEF BootstrapInv, TypeOK, CountTable, dataset, Own
<1>2. /\ read'[b].next = read[b].next + 1 /\ read'[b].zero = (read[b].zero /\ ~ filled)
      /\ read'[b].counts = (read[b].counts /\ filled /\ COUNTED[read[b].next] \notin grown)
      /\ read'[b].found = read[b].found
  <2>1. read'[b] = AfterCount(read[b])
    BY <1>1
  <2> QED
    BY <2>1, ReadingFields
<1>3. Suspicious(b) /\ Found(b)
  BY DEF BootstrapInv
<1>4. Suspicious(b)'
  <2>1. ~ Fingerprinting(b)' /\ Reading(b)
    BY <1>1 DEF Fingerprinting, Reading
  <2>2. ~ held'[b] => ~ Baseline'
    BY <1>1, <1>3, <2>1 DEF Suspicious, Baseline
  <2>3. ~ filled' => ~ read'[b].counts
    BY <1>1, <1>2, Zenon
  <2> QED
    BY <2>1, <2>2, <2>3 DEF Suspicious
<1>5. Found(b)'
  BY <1>1, <1>2, <1>3 DEF Found
<1> QED
  BY <1>1, <1>4, <1>5, OwnStep

LEMMA TablesKnow ==
  ASSUME BootstrapInv, TypeOK', NEW b \in Bootstraps, ReadTable(b)
  PROVE  BootstrapInv'
<1>1. /\ pc'[b] = pc[b] /\ read'[b] = AfterTable(read[b]) /\ held'[b] = held[b]
      /\ filled' = filled /\ changed' = changed
      /\ pc[b] \in {"fingerprint", "final fingerprint"} /\ read[b] \in Readings /\ Own(b)
      /\ read[b].next <= 14 /\ read[b].next \in Nat
  BY LastTables DEF BootstrapInv, TypeOK, ReadTable, dataset, Own, Readings
<1>2. /\ read'[b].next = read[b].next + 1 /\ read'[b].counts = read[b].counts
      /\ read'[b].rows = (read[b].rows /\ filled
                          /\ FINGERPRINT_MODELS[read[b].next] \notin changed)
      /\ read'[b].found = read[b].found
  <2>1. read'[b] = AfterTable(read[b])
    BY <1>1
  <2> QED
    BY <2>1, ReadingFields
<1>6. read[b].next \in Nat /\ read'[b].next = read[b].next + 1 /\ read[b].next <= 14
  BY <1>1, <1>2, Zenon
<1>3. Suspicious(b) /\ Found(b) /\ ChangesShow
  BY DEF BootstrapInv
<1>4. Suspicious(b)'
  <2> SUFFICES ASSUME ~ held'[b] PROVE Suspicious(b)'
    BY DEF Suspicious
  <2>1. Fingerprinting(b)' /\ Fingerprinting(b) /\ Reading(b) /\ ~ held[b]
    BY <1>1 DEF Fingerprinting, Reading
  <2>2. ~ Baseline /\ (~ filled => ~ read[b].counts)
    BY <1>3, <2>1 DEF Suspicious
  <2>3. ~ Baseline'
    BY <1>1, <2>2 DEF Baseline
  <2>4. ~ filled' => ~ read'[b].counts
    BY <1>1, <1>2, <2>2
  <2>5. ASSUME read'[b].next = 14, read'[b].counts, read'[b].rows
        PROVE  "scenario_runs" \in changed'
    <3>1. read[b].next = 13
      BY <1>6, <2>5
    <3>2. filled /\ FINGERPRINT_MODELS[13] \notin changed
      BY <1>2, <2>5, <3>1
    <3> QED
      BY <1>1, <1>3, <2>2, <3>2, LastTables DEF Baseline, ChangesShow
  <2>6. read'[b].next > 14 => ~ (read'[b].counts /\ read'[b].rows)
    <3>1. read'[b].next > 14 => read[b].next = 14
      BY <1>6
    <3> QED
      BY <1>2, <1>3, <2>1, <3>1, LastTables DEF Suspicious
  <2> QED
    BY <2>3, <2>4, <2>5, <2>6 DEF Suspicious
<1>5. Found(b)'
  BY <1>1, <1>2, <1>3 DEF Found
<1> QED
  BY <1>1, <1>4, <1>5, OwnStep

\* From the counts to the fingerprint.
LEMMA FingerprintsBegin ==
  ASSUME BootstrapInv, TypeOK', NEW b \in Bootstraps, pc[b] \in {"count", "final count"},
         read[b].next > Len(COUNTED), NEW at \in {"fingerprint", "final fingerprint"},
         Goto(b, at), read' = [read EXCEPT ![b] = FromFirstTable(read[b])],
         UNCHANGED <<filled, changed, grown, held>>
  PROVE  BootstrapInv'
<1>1. /\ pc'[b] = at /\ read'[b] = FromFirstTable(read[b]) /\ held'[b] = held[b] /\ Own(b)
      /\ read[b].next \in Nat
  BY DEF BootstrapInv, TypeOK, Goto, Own, Readings
<1>2. read'[b].next = 1 /\ read'[b].counts = read[b].counts
  <2>1. read'[b] = FromFirstTable(read[b])
    BY <1>1
  <2>2. /\ FromFirstTable(read[b]).next = 1
        /\ FromFirstTable(read[b]).counts = read[b].counts
    BY ReadingFields
  <2> QED
    BY <2>1, <2>2, Zenon
<1>3. Suspicious(b)
  BY DEF BootstrapInv
<1>4. Suspicious(b)'
  <2> SUFFICES ASSUME ~ held'[b] PROVE Suspicious(b)'
    BY DEF Suspicious
  <2>1. Reading(b) /\ ~ held[b] /\ read[b].next > 1
    <3>1. read[b].next > 1
      BY <1>1, FirstCount, FirstRead, Zenon
    <3> QED
      BY <1>1, <3>1 DEF Reading
  <2>2. ~ Baseline /\ (~ filled => ~ read[b].counts)
    BY <1>3, <2>1 DEF Suspicious
  <2>3. ~ Baseline' /\ (~ filled' => ~ read'[b].counts)
    BY <1>2, <2>2 DEF Baseline
  <2>4. read'[b].next = 1
    BY <1>2, Zenon
  <2>5. ~ (read'[b].next = 14) /\ ~ (read'[b].next > 14)
    BY <2>4, FirstRead, Zenon
  <2> QED
    BY <2>3, <2>5, Zenon DEF Suspicious
<1>5. Found(b)'
  BY <1>1 DEF Found
<1> QED
  BY <1>1, <1>4, <1>5, OwnStep

LEMMA CommandsEnd ==
  ASSUME BootstrapInv, TypeOK', NEW b \in Bootstraps,
         NEW at \in {"seed", "done", "failed", "refused"}, End(b, at), UNCHANGED dataset
  PROVE  BootstrapInv'
BY EndsKnowNothing, OwnStep DEF BootstrapInv

LEMMA DecisionsKnow ==
  ASSUME BootstrapInv, TypeOK', NEW b \in Bootstraps, Decide(b)
  PROVE  BootstrapInv'
<1>1. /\ pc[b] = "count" /\ read[b].next > Len(COUNTED) /\ read[b].next \in Nat
      /\ UNCHANGED dataset /\ UNCHANGED <<filled, changed, grown>>
  BY DEF BootstrapInv, TypeOK, Decide, Readings, dataset
<1>2. CASE Initializes(read[b]) /\ Goto(b, "initialize") /\ UNCHANGED <<read, missing, held>>
  <2>1. pc'[b] = "initialize" /\ read'[b] = read[b] /\ Own(b)
    BY <1>1, <1>2 DEF Goto, BootstrapInv, TypeOK, Own
  <2>2. ~ read[b].found
    <3>1. read[b].next > 1
      BY <1>1, FirstCount, FirstRead, Zenon
    <3> QED
      BY <1>1, <1>2, <3>1, Zenon DEF BootstrapInv, Found, Initializes
  <2>3. Suspicious(b)'
    BY <2>1 DEF Suspicious, Reading
  <2>4. Found(b)'
    BY <2>1, <2>2 DEF Found
  <2> QED
    BY <2>1, <2>3, <2>4, OwnStep
<1>3. CASE /\ Goto(b, "fingerprint")
           /\ read' = [read EXCEPT ![b] = FromFirstTable(read[b])]
           /\ UNCHANGED <<missing, held>>
  BY <1>1, <1>3, FingerprintsBegin
<1>4. CASE End(b, "refused")
  BY <1>1, <1>4, CommandsEnd
<1> QED
  BY <1>2, <1>3, <1>4 DEF Decide

\* A reset makes the dataset the baseline, and every history says so.
LEMMA ResetsAreNoted ==
  ASSUME BootstrapInv, TypeOK', filled' = TRUE, changed' = {}, Noted(TRUE),
         NEW b \in Bootstraps, read' = read, pc'[b] = "seed" \/ pc'[b] = pc[b],
         \A c \in Bootstraps \ {b} : pc'[c] = pc[c]
  PROVE  BootstrapInv'
<1>1. ChangesShow'
  BY DEF ChangesShow
<1>2. ASSUME NEW c \in Bootstraps PROVE Suspicious(c)'
  <2>1. held'[c]
    BY Zenon DEF Noted
  <2> QED
    BY <2>1, Zenon DEF Suspicious
<1>3. ASSUME NEW c \in Bootstraps PROVE Found(c)'
  <2>1. Found(c) /\ read'[c] = read[c]
    BY DEF BootstrapInv
  <2>2. pc'[c] = "seed" \/ pc'[c] = pc[c]
    OBVIOUS
  <2> QED
    BY <2>1, <2>2 DEF Found
<1> QED
  BY <1>1, <1>2, <1>3 DEF BootstrapInv

LEMMA WorkIsKnown ==
  ASSUME BootstrapInv, TypeOK', NEW tables, NEW more, Work(tables, more),
         "analyst_actions" \in tables \/ "scenario_runs" \in tables
  PROVE  BootstrapInv'
<1>1. /\ filled /\ filled' = filled /\ changed' = changed \union tables
      /\ UNCHANGED <<pc, read, held>>
  BY DEF Work, steps
<1>2. ChangesShow'
  BY <1>1 DEF ChangesShow
<1>3. ASSUME NEW c \in Bootstraps PROVE Suspicious(c)' /\ Found(c)'
  <2>1. pc'[c] = pc[c] /\ read'[c] = read[c] /\ held'[c] = held[c] /\ (filled => filled')
    BY <1>1
  <2>2. held'[c] \/ (~ held[c] /\ filled' = filled /\ changed \subseteq changed')
    BY <1>1, <2>1, Zenon
  <2> QED
    BY <2>1, <2>2, BystandersKnow
<1> QED
  BY <1>2, <1>3 DEF BootstrapInv

LEMMA BootstrapInvIsInductive == BootstrapInv /\ [Next]_vars => BootstrapInv'
<1> SUFFICES ASSUME BootstrapInv, [Next]_vars PROVE BootstrapInv'
  OBVIOUS
<1> TypeOK /\ TypeOK'
  BY TypeIsInductive DEF BootstrapInv
<1>1. ASSUME NEW b \in Bootstraps, Start(b) PROVE BootstrapInv'
  <2>1. Goto(b, IF configured THEN "count" ELSE "refused")
        /\ BeginReading(b) /\ held' = [held EXCEPT ![b] = Baseline] /\ UNCHANGED dataset
    BY <1>1, Zenon DEF Start, dataset
  <2>2. CASE configured
    BY <2>1, <2>2, BeginnersKnow, OwnStep
  <2>3. CASE ~ configured
    BY <2>1, <2>3, BeginnersKnow, OwnStep
  <2> QED
    BY <2>2, <2>3
<1>2. ASSUME NEW b \in Bootstraps, CountTable(b) PROVE BootstrapInv'
  BY <1>2, CountsKnow
<1>3. ASSUME NEW b \in Bootstraps, Decide(b) PROVE BootstrapInv'
  BY <1>3, DecisionsKnow
<1>4. ASSUME NEW b \in Bootstraps, Initialize(b) PROVE BootstrapInv'
  <2>1. filled' = TRUE /\ changed' = {} /\ Noted(TRUE) /\ read' = read /\ Goto(b, "seed")
    BY <1>4, Zenon DEF Initialize
  <2>2. pc'[b] = "seed" /\ \A c \in Bootstraps \ {b} : pc'[c] = pc[c]
    BY <2>1 DEF Goto, TypeOK
  <2> QED
    BY <2>1, <2>2, ResetsAreNoted
<1>5. ASSUME NEW b \in Bootstraps, InitializeConflict(b) PROVE BootstrapInv'
  BY <1>5, CommandsEnd DEF InitializeConflict
<1>6. ASSUME NEW b \in Bootstraps, ReadTable(b) PROVE BootstrapInv'
  BY <1>6, TablesKnow
<1>7. ASSUME NEW b \in Bootstraps, Verify(b) PROVE BootstrapInv'
  <2>1. UNCHANGED dataset /\ (End(b, "refused") \/ End(b, "seed") \/ End(b, "done"))
    BY <1>7, Zenon DEF Verify
  <2> QED
    BY <2>1, CommandsEnd
<1>8. ASSUME NEW b \in Bootstraps, LookUpUsers(b) PROVE BootstrapInv'
  <2>1. CASE End(b, "refused")
    BY <1>8, <2>1, CommandsEnd DEF LookUpUsers
  <2>2. CASE Goto(b, "store") /\ UNCHANGED <<read, held>>
    <3>1. /\ pc'[b] = "store" /\ read'[b] = read[b] /\ Own(b)
      BY <1>8, <2>2 DEF LookUpUsers, Goto, TypeOK, Own, dataset
    <3>2. Suspicious(b)'
      BY <3>1 DEF Suspicious, Reading
    <3>3. Found(b)'
      BY <3>1 DEF Found
    <3> QED
      BY <3>1, <3>2, <3>3, OwnStep
  <2> QED
    BY <1>8, <2>1, <2>2 DEF LookUpUsers
<1>9. ASSUME NEW b \in Bootstraps, StoreUsers(b) PROVE BootstrapInv'
  <2>1. Goto(b, "final count") /\ BeginReading(b) /\ held' = [held EXCEPT ![b] = Baseline]
        /\ UNCHANGED dataset
    BY <1>9, Zenon DEF StoreUsers, dataset
  <2> QED
    BY <2>1, BeginnersKnow, OwnStep
<1>10. ASSUME NEW b \in Bootstraps, StoreConflict(b) PROVE BootstrapInv'
  BY <1>10, CommandsEnd DEF StoreConflict
<1>11. ASSUME NEW b \in Bootstraps, FinalFingerprint(b) PROVE BootstrapInv'
  BY <1>11, FingerprintsBegin DEF FinalFingerprint, dataset
<1>12. ASSUME NEW b \in Bootstraps, Crash(b) PROVE BootstrapInv'
  BY <1>12, CommandsEnd DEF Crash
<1>13. CASE RunScenario \/ FailScenario \/ Act
  BY <1>13, WorkIsKnown DEF RunScenario, FailScenario, Act
<1>14. CASE AdministratorResets
  <2>1. filled' = TRUE /\ changed' = {} /\ Noted(TRUE) /\ read' = read /\ pc' = pc
    BY <1>14, Zenon DEF AdministratorResets, steps
  <2>2. CASE Bootstraps = {}
    BY <2>1, <2>2 DEF BootstrapInv, ChangesShow
  <2>3. CASE Bootstraps # {}
    BY <2>1, <2>3, ResetsAreNoted
  <2> QED
    BY <2>2, <2>3
<1>15. CASE UNCHANGED vars
  BY <1>15 DEF vars, dataset, steps, BootstrapInv, ChangesShow, Suspicious, Found, Reading,
               Fingerprinting, Baseline
<1> QED
  BY <1>1, <1>2, <1>3, <1>4, <1>5, <1>6, <1>7, <1>8, <1>9, <1>10, <1>11, <1>12, <1>13,
     <1>14, <1>15 DEF Next, Step, Works

LEMMA InitEstablishes == Init => BootstrapInv
<1> SUFFICES ASSUME Init PROVE BootstrapInv
  OBVIOUS
<1>1. NothingRead(FALSE) \in Readings
  BY DEF NothingRead, Readings
<1>2. read \in [Bootstraps -> Readings]
  BY <1>1 DEF Init
<1>3. TypeOK
  <2>1. users \in [DemoUsers -> {"none", "outdated", "right", "foreign"}]
    <3>1. CASE users = [admin |-> "none", analyst |-> "foreign"]
      BY <3>1 DEF DemoUsers
    <3>2. CASE users = [u \in DemoUsers |-> "none"] \/ users = [u \in DemoUsers |-> "outdated"]
      BY <3>2
    <3> QED
      BY <3>1, <3>2 DEF Init
  <2>2. configured \in BOOLEAN /\ filled \in BOOLEAN /\ changed = {} /\ grown = {} /\ events = 0
    BY DEF Init
  <2>3. pc = [b \in Bootstraps |-> "idle"] /\ missing = [b \in Bootstraps |-> {}]
        /\ held = [b \in Bootstraps |-> FALSE]
    BY DEF Init
  <2> QED
    BY <1>2, <2>1, <2>2, <2>3 DEF TypeOK
<1>4. ChangesShow
  BY DEF Init, ChangesShow
<1>5. ASSUME NEW b \in Bootstraps PROVE Suspicious(b) /\ Found(b)
  <2>1. pc[b] = "idle" /\ read[b] = NothingRead(FALSE)
    BY DEF Init
  <2>2. ~ read[b].found
    <3>1. NothingRead(FALSE).found = FALSE
      BY ReadingFields
    <3>2. read[b].found = NothingRead(FALSE).found
      BY <2>1
    <3>3. read[b].found = FALSE
      BY <3>1, <3>2, Zenon
    <3> QED
      BY <3>3, Zenon
  <2> QED
    BY <2>1, <2>2 DEF Suspicious, Found, Reading
<1> QED
  BY <1>3, <1>4, <1>5 DEF BootstrapInv

-----------------------------------------------------------------------------
LEMMA BootstrapInvHolds == Spec => []BootstrapInv
BY InitEstablishes, BootstrapInvIsInductive, PTL DEF Spec

\* The state is of its types with any number of bootstraps, crashes and resets
\* (the typing the other two results rest on).
THEOREM BootstrapTypeCorrect == Spec => []TypeOK
BY BootstrapInvHolds, PTL DEF BootstrapInv

\* Who accepts a fingerprint has verified it; who initialises resets.
LEMMA OnlyVerifyLeaves ==
  ASSUME BootstrapInv, [Next]_vars, NEW c \in Bootstraps,
         pc[c] \in {"fingerprint", "final fingerprint"}, pc'[c] \in {"seed", "done"}
  PROVE  Verify(c)
<1>1. pc[c] # pc'[c] /\ pc \in [Bootstraps -> {"idle", "count", "initialize", "fingerprint",
                             "seed", "store", "final count", "final fingerprint", "done",
                             "failed", "refused"}]
  BY DEF BootstrapInv, TypeOK
<1>2. PICK b \in Bootstraps : Step(b) \/ Crash(b)
  BY <1>1 DEF Next, Works, RunScenario, FailScenario, Act, Work, AdministratorResets, vars, steps
<1>3. b = c
  BY <1>1, <1>2 DEF Step, Start, CountTable, Decide, Initialize, InitializeConflict, ReadTable,
     Verify, LookUpUsers, StoreUsers, StoreConflict, FinalFingerprint, Crash, End, Goto
<1> QED
  BY <1>1, <1>2, <1>3 DEF Step, Start, CountTable, Decide, Initialize, InitializeConflict,
     ReadTable, LookUpUsers, StoreUsers, StoreConflict, FinalFingerprint, Crash, End, Goto

\* A verification that accepts the counts and the fingerprint, read table by
\* table, accepts a dataset that was the baseline at some moment since it began
\* (release_bootstrap.py:73-87 and 99-106).
THEOREM AcceptedIsBaseline == Spec => AcceptedMeansBaseline
<1> DEFINE Acceptable == \A b \in Bootstraps :
             pc[b] \in {"fingerprint", "final fingerprint"} /\ pc'[b] \in {"seed", "done"}
               => held[b]
<1>1. BootstrapInv /\ [Next]_vars => Acceptable
  <2> SUFFICES ASSUME BootstrapInv, [Next]_vars, NEW c \in Bootstraps,
                      pc[c] \in {"fingerprint", "final fingerprint"},
                      pc'[c] \in {"seed", "done"}
               PROVE  held[c]
    OBVIOUS
  <2>1. Verify(c) /\ pc'[c] # "refused"
    BY OnlyVerifyLeaves
  <2>2. read[c].counts /\ read[c].rows /\ read[c].next > 14
    BY <2>1, LastTables DEF Verify, End, Goto, BootstrapInv, TypeOK
  <2> QED
    BY <2>2 DEF BootstrapInv, Suspicious, Reading, Fingerprinting
<1>2. BootstrapInv /\ [Next]_vars => [Acceptable]_vars
  BY <1>1
<1> HIDE DEF Acceptable
<1>3. Spec => [][Acceptable]_vars
  BY <1>2, BootstrapInvHolds, PTL DEF Spec
<1> QED
  BY <1>3 DEF AcceptedMeansBaseline, Acceptable

\* The reset is that of a bootstrap that has counted zero everywhere, and it has
\* not when it began on a dataset (release_bootstrap.py:63-72).
THEOREM NeverReplacesFound == Spec => FoundDatasetIsNeverReset
<1> DEFINE Spared == \A b \in Bootstraps :
             pc[b] = "initialize" /\ pc'[b] = "seed" => ~ read[b].found
<1>1. BootstrapInv => Spared
  BY Zenon DEF BootstrapInv, Found
<1>2. BootstrapInv /\ [Next]_vars => [Spared]_vars
  BY <1>1
<1> HIDE DEF Spared
<1>3. Spec => [][Spared]_vars
  BY <1>2, BootstrapInvHolds, PTL DEF Spec
<1> QED
  BY <1>3 DEF FoundDatasetIsNeverReset, Spared
=============================================================================
