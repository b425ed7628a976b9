--------------------------- MODULE CaseReadingProofs ---------------------------
(***************************************************************************)
(* Proofs about CaseReading, for any number of clients, any bounds on      *)
(* actions and resets and any size of the pages; and about Provenance, for *)
(* any signals that a session and a transfer may have: what the engine     *)
(* stores can be paired, a detail is explained by what it shows, and a     *)
(* walk through the list misses nothing and repeats nothing.               *)
(***************************************************************************)
EXTENDS CaseReading, FiniteSetTheorems, SequenceTheorems, TLAPS

-----------------------------------------------------------------------------
(* What the engines store can be paired again. *)

CyberEvents == {CyberEventType[k] : k \in 1..Len(CyberEventType)}

\* The codes of the device rules and of the transaction rules.
DeviceCodes == {"first_seen_fingerprint", "untrusted_device_posture"}
TransferCodes ==
  {"new_beneficiary", "recent_beneficiary", "high_amount", "amount_deviation",
   "velocity_spike", "destination_risk", "unusual_channel", "historical_deviation"}

\* What the engines are given: the events and device codes of a session, the
\* codes that the rules find in a transfer, and the answers of the anomaly models.
Features ==
  [events : SUBSET CyberEvents, device : SUBSET DeviceCodes, outlier : BOOLEAN,
   transfer : SUBSET TransferCodes, transferOutlier : BOOLEAN]

\* The rule that has the code of an interaction's cyber component.
InteractionCodes == DOMAIN INTERACTION_COMPONENT_CODES
CyberComponents ==
  {"new_device", "failed_mfa", "endpoint_alert", "risky_network", "impossible_travel"}
TransactionComponents == {"new_beneficiary", "high_amount", "velocity_spike"}

LEMMA CatalogueCodes ==
  /\ \A code \in InteractionCodes :
       /\ INTERACTION_COMPONENT_CODES[code][1] \in CyberComponents
       /\ INTERACTION_COMPONENT_CODES[code][2] \in TransactionComponents
  /\ \A n \in 1..Len(Attempts) : Attempts[n][1] \in InteractionCodes
BY DEF InteractionCodes, INTERACTION_COMPONENT_CODES, CyberComponents,
       TransactionComponents, Attempts

\* A rule with an event among those of the session is triggered by one of them.
LEMMA TriggerIsEvent ==
  ASSUME NEW features, NEW types, types \intersect features.events # {}
  PROVE  Trigger(features, types) \in features.events
BY DEF Trigger

\* A cyber component of an interaction comes from one rule, and has an event of
\* the session.
LEMMA CyberComponentIsUnique ==
  ASSUME NEW features \in Features, NEW code \in CyberComponents,
         code \in Codes(CyberContributions(features))
  PROVE  \E c \in CyberContributions(features) :
           /\ c.code = code
           /\ c.category = "cyber_rule"
           /\ c.event \in features.events
           /\ \A d \in CyberContributions(features) : d.code = code => d = c
<1> DEFINE byEvent == {CyberContribution("cyber_rule", r[1], Trigger(features, r[2])) :
                         r \in {x \in CyberRules : x[2] \intersect features.events # {}}}
           byDevice == {CyberContribution("cyber_rule", dev, EventOf(features, "new_device")) :
                          dev \in features.device}
           all == CyberContributions(features)
<1> USE DEF CyberContribution, Contribution
<1>1. \A d \in all : d.code = code => d \in byEvent
  <2>1. \A d \in byDevice : d.code \in DeviceCodes
    BY DEF Features
  <2>2. \A d \in all :
          \/ d \in byEvent \/ d \in byDevice
          \/ d.code \in {"cyber_behavioural_deviation", "cyber_baseline_exposure"}
    BY DEF CyberContributions
  <2>3. QED BY <2>1, <2>2 DEF CyberComponents, DeviceCodes
<1>2. \A d \in byEvent : \E r \in CyberRules :
        /\ r[2] \intersect features.events # {}
        /\ d = CyberContribution("cyber_rule", r[1], Trigger(features, r[2]))
  OBVIOUS
<1>3. \A r, x \in CyberRules : r[1] = x[1] => r = x
  BY DEF CyberRules
<1>4. PICK c \in all : c.code = code
  BY DEF Codes
<1>5. PICK r \in CyberRules :
        /\ r[2] \intersect features.events # {}
        /\ c = CyberContribution("cyber_rule", r[1], Trigger(features, r[2]))
  BY <1>1, <1>2, <1>4
<1>6. c.category = "cyber_rule" /\ c.event \in features.events /\ r[1] = code
  BY <1>4, <1>5, TriggerIsEvent
<1>7. ASSUME NEW d \in all, d.code = code PROVE d = c
  <2>1. PICK x \in CyberRules :
          d = CyberContribution("cyber_rule", x[1], Trigger(features, x[2]))
    BY <1>1, <1>2, <1>7
  <2>2. x[1] = code
    BY <1>7, <2>1
  <2>3. x = r
    BY <1>3, <1>6, <2>2
  <2>4. QED BY <1>5, <2>1, <2>3
<1>8. QED BY <1>4, <1>6, <1>7

\* A transaction component of an interaction comes from one rule, and rests on
\* the transaction and the baseline.
LEMMA TransactionComponentIsUnique ==
  ASSUME NEW features \in Features, NEW code \in TransactionComponents,
         code \in Codes(TransactionContributions(features))
  PROVE  /\ TransactionContribution("transaction_rule", code)
              \in TransactionContributions(features)
         /\ \A d \in TransactionContributions(features) :
              d.code = code => d = TransactionContribution("transaction_rule", code)
BY DEF TransactionContributions, TransactionContribution, Contribution, Codes,
       TransactionComponents

\* No cyber contribution has the code of a transaction rule or of an
\* interaction, no transaction contribution that of a cyber rule.
LEMMA CodesAreApart ==
  ASSUME NEW features \in Features
  PROVE  /\ \A c \in CyberContributions(features) :
              /\ c.category \in CYBER_CATEGORIES
              /\ c.code \notin TransactionComponents
         /\ \A c \in TransactionContributions(features) :
              /\ c.category \in TRANSACTION_CATEGORIES
              /\ c.code \notin CyberComponents
<1> USE DEF Contribution
<1>1. ASSUME NEW c \in CyberContributions(features)
      PROVE  c.category \in CYBER_CATEGORIES /\ c.code \notin TransactionComponents
  <2>1. \/ \E r \in CyberRules : \E event : c = CyberContribution("cyber_rule", r[1], event)
        \/ \E code \in DeviceCodes : \E event : c = CyberContribution("cyber_rule", code, event)
        \/ \E event : c = CyberContribution("cyber_rule", "cyber_baseline_exposure", event)
        \/ \E event : c = CyberContribution("cyber_anomaly", "cyber_behavioural_deviation", event)
    BY DEF CyberContributions, Features
  <2>2. QED
    BY <2>1 DEF CyberContribution, CyberRules, DeviceCodes, CYBER_CATEGORIES,
                TransactionComponents
<1>2. ASSUME NEW c \in TransactionContributions(features)
      PROVE  c.category \in TRANSACTION_CATEGORIES /\ c.code \notin CyberComponents
  <2>1. \/ \E code \in TransferCodes : c = TransactionContribution("transaction_rule", code)
        \/ c = TransactionContribution("transaction_rule", "transaction_baseline_exposure")
        \/ c = TransactionContribution("transaction_anomaly",
                                       "transaction_behavioural_deviation")
    BY DEF TransactionContributions, Features
  <2>2. QED
    BY <2>1 DEF TransactionContribution, TransferCodes, TRANSACTION_CATEGORIES,
                CyberComponents
<1>3. QED BY <1>1, <1>2

\* What evaluate_interactions adds is, whatever the bonus so far, an
\* interaction of the catalogue whose two components are there.
LEMMA InteractionsAreEligible ==
  ASSUME NEW cyber, NEW transaction
  PROVE  \A c \in Interactions(cyber, transaction) :
           \E code \in InteractionCodes, n \in 1..Len(Attempts) :
             LET components == INTERACTION_COMPONENT_CODES[code] IN
             /\ components[1] \in Codes(cyber) /\ components[2] \in Codes(transaction)
             /\ c = Contribution("correlation", code, WithCode(cyber, components[1]).event,
                                 "transaction", WithCode(transaction, components[2]).baseline,
                                 Attempts[n][2])
<1> DEFINE eligible(code) ==
             /\ INTERACTION_COMPONENT_CODES[code][1] \in Codes(cyber)
             /\ INTERACTION_COMPONENT_CODES[code][2] \in Codes(transaction)
             /\ code = "risky_network_new_beneficiary"
                  => ~ ("new_device" \in Codes(cyber) /\ "new_beneficiary" \in Codes(transaction))
           interaction(code, points) ==
             LET components == INTERACTION_COMPONENT_CODES[code]
             IN  Contribution("correlation", code, WithCode(cyber, components[1]).event,
                              "transaction", WithCode(transaction, components[2]).baseline, points)
           step(n, before) ==
             IF eligible(Attempts[n][1]) /\ BonusOf(before) + Attempts[n][2] <= 18
               THEN before \union {interaction(Attempts[n][1], Attempts[n][2])} ELSE before
           F(f) == [n \in 0..Len(Attempts) |-> IF n = 0 THEN {} ELSE step(n, f[n - 1])]
           accepted == CHOOSE f : f = F(f)
<1>1. Interactions(cyber, transaction) = accepted[Len(Attempts)]
  BY Zenon DEF Interactions
<1> HIDE DEF interaction, eligible
<1>2. accepted = F(accepted)
  <2> DEFINE a1 == step(1, {})
             a2 == step(2, a1)
             a3 == step(3, a2)
             a4 == step(4, a3)
             a5 == step(5, a4)
             f == [n \in 0..5 |-> IF n = 0 THEN {} ELSE IF n = 1 THEN a1 ELSE IF n = 2 THEN a2
                                  ELSE IF n = 3 THEN a3 ELSE IF n = 4 THEN a4 ELSE a5]
  <2>1. Len(Attempts) = 5
    BY DEF Attempts
  <2> HIDE DEF step
  <2>2. f = F(f)
    <3>1. \A n \in 0..5 : f[n] = IF n = 0 THEN {} ELSE step(n, f[n - 1])
      OBVIOUS
    <3>2. QED BY <2>1, <3>1
  <2>3. QED BY <2>2
<1>3. Len(Attempts) = 5
  BY DEF Attempts
<1> HIDE DEF accepted, step
<1>4. /\ accepted[0] = {}
      /\ \A n \in 1..5 : accepted[n] = step(n, accepted[n - 1])
  <2>1. accepted = [n \in 0..5 |-> IF n = 0 THEN {} ELSE step(n, accepted[n - 1])]
    BY <1>2, <1>3
  <2>2. \A n \in 0..5 : accepted[n] = IF n = 0 THEN {} ELSE step(n, accepted[n - 1])
    BY <2>1
  <2>3. QED BY <2>2
<1> DEFINE Good(c) == \E n \in 1..5 :
             eligible(Attempts[n][1]) /\ c = interaction(Attempts[n][1], Attempts[n][2])
<1>5. \A n \in 1..5 : (\A c \in accepted[n - 1] : Good(c)) => \A c \in accepted[n] : Good(c)
  BY <1>4 DEF step
<1>6. \A c \in accepted[5] : Good(c)
  <2> HIDE DEF Good
  <2>0. \A c \in accepted[0] : Good(c)
    BY <1>4
  <2>1. \A c \in accepted[1] : Good(c)
    BY <1>5, <2>0
  <2>2. \A c \in accepted[2] : Good(c)
    BY <1>5, <2>1
  <2>3. \A c \in accepted[3] : Good(c)
    BY <1>5, <2>2
  <2>4. \A c \in accepted[4] : Good(c)
    BY <1>5, <2>3
  <2>5. QED BY <1>5, <2>4
<1>7. ASSUME NEW c \in Interactions(cyber, transaction)
      PROVE  \E code \in InteractionCodes, n \in 1..Len(Attempts) :
               LET components == INTERACTION_COMPONENT_CODES[code] IN
               /\ components[1] \in Codes(cyber) /\ components[2] \in Codes(transaction)
               /\ c = Contribution("correlation", code, WithCode(cyber, components[1]).event,
                                   "transaction",
                                   WithCode(transaction, components[2]).baseline,
                                   Attempts[n][2])
  <2>1. PICK n \in 1..Len(Attempts) :
          eligible(Attempts[n][1]) /\ c = interaction(Attempts[n][1], Attempts[n][2])
    BY <1>1, <1>3, <1>6
  <2>2. Attempts[n][1] \in InteractionCodes
    BY CatalogueCodes
  <2>3. QED BY <2>1, <2>2 DEF eligible, interaction
<1>8. QED BY <1>7

\* Whatever the engines find, every interaction they store has exactly one
\* contribution for each of its components, from the same event and transaction.
THEOREM EngineIsProjectable ==
  \A features \in Features : Projectable(ScenarioContributions(features))
<1> SUFFICES ASSUME NEW features \in Features
             PROVE  Projectable(ScenarioContributions(features))
  OBVIOUS
<1> DEFINE cyber == CyberContributions(features)
           transaction == TransactionContributions(features)
           interactions == Interactions(cyber, transaction)
           all == ScenarioContributions(features)
<1>1. all = cyber \union transaction \union interactions
  BY DEF ScenarioContributions
<1> SUFFICES ASSUME NEW c \in all, c.category = "correlation"
             PROVE  \E p \in Pairs(all) : p[1] = c
  BY DEF Projectable
<1>2. c \in interactions
  BY <1>1, CodesAreApart DEF CYBER_CATEGORIES, TRANSACTION_CATEGORIES
<1>3. PICK code \in InteractionCodes, n \in 1..Len(Attempts) :
        LET components == INTERACTION_COMPONENT_CODES[code] IN
        /\ components[1] \in Codes(cyber) /\ components[2] \in Codes(transaction)
        /\ c = Contribution("correlation", code, WithCode(cyber, components[1]).event,
                            "transaction", WithCode(transaction, components[2]).baseline,
                            Attempts[n][2])
  BY <1>2, InteractionsAreEligible
<1> DEFINE first == INTERACTION_COMPONENT_CODES[code][1]
           second == INTERACTION_COMPONENT_CODES[code][2]
<1>4. first \in CyberComponents /\ second \in TransactionComponents
  BY CatalogueCodes
<1>5. first \in Codes(cyber) /\ second \in Codes(transaction)
  BY <1>3
<1>6. /\ c.code = code
      /\ c.event = WithCode(cyber, first).event
      /\ c.transaction = "transaction"
      /\ c.baseline = WithCode(transaction, second).baseline
  BY <1>3 DEF Contribution
<1>7. ASSUME NEW d \in interactions PROVE d.code \in InteractionCodes
  <2>1. PICK k \in InteractionCodes, m \in 1..Len(Attempts) :
          d = Contribution("correlation", k,
                WithCode(cyber, INTERACTION_COMPONENT_CODES[k][1]).event, "transaction",
                WithCode(transaction, INTERACTION_COMPONENT_CODES[k][2]).baseline,
                Attempts[m][2])
    BY InteractionsAreEligible
  <2>2. QED BY <2>1 DEF Contribution
<1>8. \A d \in interactions : d.code \notin CyberComponents /\ d.code \notin TransactionComponents
  BY <1>7
  DEF InteractionCodes, INTERACTION_COMPONENT_CODES, CyberComponents, TransactionComponents
<1> HIDE DEF cyber, transaction, interactions, all, first, second
<1>9. PICK x \in cyber :
        /\ x.code = first /\ x.category = "cyber_rule" /\ x.event \in features.events
        /\ \A d \in cyber : d.code = first => d = x
  BY <1>4, <1>5, CyberComponentIsUnique DEF cyber
<1>10. PICK y \in transaction :
         /\ y = TransactionContribution("transaction_rule", second)
         /\ \A d \in transaction : d.code = second => d = y
  BY <1>4, <1>5, TransactionComponentIsUnique DEF transaction
<1>11. y.code = second /\ y.category = "transaction_rule" /\ y.transaction = "transaction"
  BY <1>10 DEF TransactionContribution, Contribution
<1>12. WithCode(cyber, first) = x /\ WithCode(transaction, second) = y
  BY <1>9, <1>10, <1>11 DEF WithCode
<1>13. x.event # None
  BY <1>9 DEF Features, CyberEvents, CyberEventType, None
<1>14. Candidates(all, c, 1) = {x}
  <2>1. Candidates(all, c, 1) = {d \in all : d.code = first}
    BY <1>6 DEF Candidates, InteractionCodes, first
  <2>2. \A d \in transaction : d.code # first
    BY <1>4, CodesAreApart DEF transaction
  <2>3. QED BY <1>1, <1>4, <1>8, <1>9, <2>1, <2>2
<1>15. Candidates(all, c, 2) = {y}
  <2>1. Candidates(all, c, 2) = {d \in all : d.code = second}
    BY <1>6 DEF Candidates, InteractionCodes, second
  <2>2. \A d \in cyber : d.code # second
    BY <1>4, CodesAreApart DEF cyber
  <2>3. QED BY <1>1, <1>4, <1>8, <1>10, <1>11, <2>1, <2>2
<1>16. ValidatePair(c, x, y)
  BY <1>6, <1>9, <1>11, <1>12, <1>13
  DEF ValidatePair, CYBER_CATEGORIES, TRANSACTION_CATEGORIES, None
<1>17. <<c, x, y>> \in Pairs(all)
  BY <1>1, <1>14, <1>15, <1>16 DEF Pairs
<1>18. QED BY <1>17

\* The single contribution of each stream is what a stored bonus of the
\* background rests on: it is paired by its sources.
LEMMA BackgroundIsProjectable ==
  ASSUME NEW bonus
  PROVE  Projectable(BackgroundContributions(bonus))
<1> DEFINE all == BackgroundContributions(bonus)
           x == Contribution("cyber_rule", "background_cyber", "login_success", None,
                             "baseline", 0)
           y == Contribution("transaction_rule", "background_transaction", None,
                             "transaction", "baseline", 0)
           z == Contribution("correlation", "background_correlation", "login_success",
                             "transaction", "baseline", bonus)
<1>1. all = {x, y} \union (IF bonus = 0 THEN {} ELSE {z})
  BY DEF BackgroundContributions
<1> SUFFICES ASSUME NEW c \in all, c.category = "correlation"
             PROVE  \E p \in Pairs(all) : p[1] = c
  BY DEF Projectable
<1>2. /\ x.category = "cyber_rule" /\ x.event = "login_success" /\ x.transaction = "none"
      /\ y.category = "transaction_rule" /\ y.event = "none" /\ y.transaction = "transaction"
      /\ y.baseline = "baseline"
      /\ z.category = "correlation" /\ z.event = "login_success"
      /\ z.transaction = "transaction" /\ z.baseline = "baseline"
      /\ z.code = "background_correlation"
  BY DEF Contribution, None
<1> HIDE DEF x, y, z, all
<1>3. c = z /\ all = {x, y, z}
  BY <1>1, <1>2
<1>4. z.code \notin DOMAIN INTERACTION_COMPONENT_CODES
  BY <1>2 DEF INTERACTION_COMPONENT_CODES
<1>5. Candidates(all, z, 1) = {x}
  <2>1. Candidates(all, z, 1) = UniqueSourceMatches(all, CYBER_CATEGORIES, z)
    BY <1>4 DEF Candidates
  <2>2. QED BY <1>2, <1>3, <2>1 DEF UniqueSourceMatches, CYBER_CATEGORIES
<1>6. Candidates(all, z, 2) = {y}
  <2>1. Candidates(all, z, 2) = UniqueSourceMatches(all, TRANSACTION_CATEGORIES, z)
    BY <1>4 DEF Candidates
  <2>2. QED BY <1>2, <1>3, <2>1 DEF UniqueSourceMatches, TRANSACTION_CATEGORIES
<1>7. ValidatePair(z, x, y)
  BY <1>2 DEF ValidatePair, CYBER_CATEGORIES, TRANSACTION_CATEGORIES, None
<1>8. <<z, x, y>> \in Pairs(all)
  BY <1>2, <1>3, <1>5, <1>6, <1>7 DEF Pairs
<1>9. QED BY <1>3, <1>8

\* What the seeding and the scenarios store of any incident can be paired.
LEMMA StoredIsProjectable ==
  ASSUME NEW i \in Incidents
  PROVE  Projectable(Contributions[i]) /\ MatchesBonus(Contributions[i], i)
<1>1. NORMAL_ACTIVITY \in Features /\ ACCOUNT_TAKEOVER \in Features
  <2>1. CyberEvents = {"endpoint_alert", "impossible_travel", "login_failed", "login_success",
                       "mfa_failed", "mfa_success", "new_device", "proxy_detected", "risky_ip",
                       "session_token_anomaly", "unusual_location", "unusual_login_time"}
    BY DEF CyberEvents, CyberEventType
  <2>2. QED BY <2>1 DEF NORMAL_ACTIVITY, ACCOUNT_TAKEOVER, Features, TransferCodes
<1>2. Projectable(Contributions[i])
  BY <1>1, EngineIsProjectable, BackgroundIsProjectable
  DEF Contributions, Incidents, Background, Scenarios
<1>3. QED BY <1>2 DEF MatchesBonus, Bonus

-----------------------------------------------------------------------------
(* The detail of an incident: types, and what a reading knows. *)

Pair == IncidentStatus \X TransactionStatus

\* A record of an analyst's action, a row of an incident with its actions, and
\* what a client has read of one.
Entry == [at : Nat, previous : Pair, new : Pair]

Row == [there : BOOLEAN, status : IncidentStatus, transaction : TransactionStatus,
        updated : Nat, actions : Seq(Entry)]

Places == {"idle", "row", "contributions", "actions", "events", "project", "detail",
           "404", "500"}

Reading ==
  [at : Places, incident : Incidents, row : Row,
   contributions : SUBSET UNION {Contributions[i] : i \in Incidents},
   actions : Seq(Entry), events : SUBSET UNION {Events[i] : i \in Incidents}, reset : Nat]

Typed ==
  /\ case \in [Incidents -> Row]
  /\ clock \in Nat /\ reset \in Nat
  /\ reading \in [Clients -> Reading]

\* The actions lead from a fresh case to a row, and from there on.
Explains(i, row, actions) ==
  \E n \in 0..Len(actions) :
    /\ SubSeq(actions, 1, n) = row.actions
    /\ n = 0 => row = Fresh(i)
    /\ n > 0 => /\ actions[n].new = <<row.status, row.transaction>>
                /\ actions[n].at = row.updated
    /\ \A k \in (n + 1)..Len(actions) :
         actions[k].previous =
           IF k = 1 THEN <<row.status, row.transaction>> ELSE actions[k - 1].new

\* The last action of an incident left it as it is.
CaseExplained(i) ==
  case[i].there =>
    LET log == case[i].actions IN
    /\ log = <<>> => case[i] = Fresh(i)
    /\ log # <<>> => /\ log[Len(log)].new = <<case[i].status, case[i].transaction>>
                     /\ log[Len(log)].at = case[i].updated

\* What a client has read, while no reset came in between, is a state of the
\* incident and what it rests on; the actions it has not read yet still
\* continue the row that it has read.
Sound(r) ==
  LET read == reading[r] IN
  /\ read.reset <= reset
  /\ Undisturbed(read) =>
       /\ read.at \in {"contributions", "actions", "events", "project", "detail"} =>
            case[read.incident].there
       /\ read.at \in {"contributions", "actions"} =>
            Explains(read.incident, read.row, case[read.incident].actions)
       /\ read.at \in {"events", "project", "detail"} =>
            Explains(read.incident, read.row, read.actions)
       /\ read.at \in {"actions", "events", "project", "detail"} =>
            read.contributions = Contributions[read.incident]
       /\ read.at # "500"
  /\ read.at = "detail" =>
       Projectable(read.contributions) /\ MatchesBonus(read.contributions, read.incident)

ReadingInv ==
  /\ Typed
  /\ \A i \in Incidents : CaseExplained(i)
  /\ \A r \in Clients : Sound(r)

\* The statuses after an action of an analyst are statuses.
LEMMA AfterIsPair ==
  ASSUME NEW status \in IncidentStatus, NEW txn \in TransactionStatus, NEW action \in Actions
  PROVE  <<StatusAfter(status, action), TransactionAfter(txn, action)>> \in Pair
<1>1. action \in AnalystActionType
  BY ActionsAreActions
<1>2. StatusAfter(status, action) \in IncidentStatus
  BY <1>1 DEF StatusAfter, IncidentTransition, IncidentStatus, AnalystActionType
<1>3. TransactionAfter(txn, action) \in TransactionStatus
  BY <1>1 DEF TransactionAfter, SimulatedResponse, TransactionStatus, AnalystActionType
<1>4. QED BY <1>2, <1>3 DEF Pair

\* A new incident and a missing one are rows.
LEMMA FreshIsRow ==
  ASSUME NEW i \in Incidents
  PROVE  Fresh(i) \in Row /\ Fresh(i).actions = <<>> /\ Absent \in Row /\ ~ Absent.there
BY DEF Fresh, Absent, Row, IncidentStatus, TransactionStatus

\* An incident's own actions explain its row.
LEMMA RowsAreExplained ==
  ASSUME Typed, NEW i \in Incidents, CaseExplained(i), case[i].there
  PROVE  Explains(i, case[i], case[i].actions)
<1> DEFINE log == case[i].actions
           n == Len(log)
<1>1. log \in Seq(Entry)
  BY DEF Typed, Row
<1>2. n \in 0..n /\ SubSeq(log, 1, n) = log /\ (n = 0 <=> log = <<>>)
  BY <1>1
<1>3. n = 0 => case[i] = Fresh(i)
  BY <1>2 DEF CaseExplained
<1>4. n > 0 => log[n].new = <<case[i].status, case[i].transaction>>
               /\ log[n].at = case[i].updated
  BY <1>2 DEF CaseExplained
<1>5. \A k \in (n + 1)..n : FALSE
  BY <1>2
<1> HIDE DEF n
<1>6. QED BY <1>2, <1>3, <1>4, <1>5 DEF Explains, n

\* An action that continues the actions keeps them an explanation.
LEMMA ExplanationGrows ==
  ASSUME NEW i, NEW row, NEW log \in Seq(Entry), NEW e \in Entry,
         Explains(i, row, log),
         log = <<>> => e.previous = <<row.status, row.transaction>>,
         log # <<>> => e.previous = log[Len(log)].new
  PROVE  Explains(i, row, Append(log, e))
<1> DEFINE longer == Append(log, e)
<1>1. PICK n \in 0..Len(log) :
        /\ SubSeq(log, 1, n) = row.actions
        /\ n = 0 => row = Fresh(i)
        /\ n > 0 => log[n].new = <<row.status, row.transaction>> /\ log[n].at = row.updated
        /\ \A k \in (n + 1)..Len(log) :
             log[k].previous =
               IF k = 1 THEN <<row.status, row.transaction>> ELSE log[k - 1].new
  BY DEF Explains
<1>2. /\ Len(log) \in Nat /\ Len(longer) = Len(log) + 1
      /\ \A k \in 1..Len(log) : longer[k] = log[k]
      /\ longer[Len(log) + 1] = e
      /\ log = <<>> <=> Len(log) = 0
  OBVIOUS
<1>3. SubSeq(longer, 1, n) = SubSeq(log, 1, n)
  OBVIOUS
<1> HIDE DEF longer
<1>4. ASSUME NEW k \in (n + 1)..Len(longer)
      PROVE  longer[k].previous =
               IF k = 1 THEN <<row.status, row.transaction>> ELSE longer[k - 1].new
  <2>1. CASE k <= Len(log)
    BY <1>1, <1>2, <2>1
  <2>2. CASE k = Len(log) + 1
    <3>1. longer[k].previous = e.previous
      BY <1>2, <2>2
    <3>2. CASE Len(log) = 0
      BY <1>2, <2>2, <3>1, <3>2
    <3>3. CASE Len(log) > 0
      <4>1. k # 1 /\ longer[k - 1] = log[Len(log)]
        BY <1>2, <2>2, <3>3
      <4>2. QED BY <1>2, <3>1, <3>3, <4>1
    <3>4. QED BY <1>2, <3>2, <3>3
  <2>3. QED BY <1>2, <2>1, <2>2
<1>5. n \in 0..Len(longer)
  BY <1>2
<1>6. n > 0 => longer[n] = log[n]
  BY <1>2
<1>7. QED BY <1>1, <1>3, <1>4, <1>5, <1>6 DEF Explains, longer

\* What a client has read stays sound when neither it nor an incident changes.
LEMMA BystanderStaysSound ==
  ASSUME Typed, NEW r \in Clients, Sound(r), reading'[r] = reading[r], UNCHANGED <<case, reset>>
  PROVE  Sound(r)'
BY DEF Sound, Undisturbed

\* An analyst's action continues the actions of its incident.
LEMMA ActKeepsReadings ==
  ASSUME ReadingInv, NEW i \in Incidents, NEW action \in Actions, Act(i, action)
  PROVE  ReadingInv'
<1> USE DEF ReadingInv
<1> DEFINE c == case[i]
           status == StatusAfter(c.status, action)
           transaction == TransactionAfter(c.transaction, action)
           e == [at |-> clock + 1, previous |-> <<c.status, c.transaction>>,
                 new |-> <<status, transaction>>]
           row == [there |-> TRUE, status |-> status, transaction |-> transaction,
                   updated |-> clock + 1, actions |-> Append(c.actions, e)]
<1>1. /\ c.there
      /\ case' = [case EXCEPT ![i] = row]
      /\ clock' = clock + 1
      /\ UNCHANGED <<reset, reading>>
  BY DEF Act
<1>2. /\ c \in Row /\ c.status \in IncidentStatus /\ c.transaction \in TransactionStatus
      /\ c.actions \in Seq(Entry) /\ clock + 1 \in Nat
  BY DEF Typed, Row
<1>3. <<status, transaction>> \in Pair
  BY <1>2, AfterIsPair
<1>4. e \in Entry
  BY <1>2, <1>3 DEF Entry, Pair
<1>5. row \in Row
  <2>1. Append(c.actions, e) \in Seq(Entry)
    BY <1>2, <1>4
  <2>2. status \in IncidentStatus /\ transaction \in TransactionStatus
    BY <1>3 DEF Pair
  <2>3. QED BY <1>2, <2>1, <2>2 DEF Row
<1>6. /\ row.there /\ row.actions = Append(c.actions, e) /\ row.updated = e.at
      /\ <<row.status, row.transaction>> = e.new
      /\ e.previous = <<c.status, c.transaction>>
  OBVIOUS
<1> HIDE DEF row, e
<1>7. Typed'
  BY <1>1, <1>2, <1>5 DEF Typed
<1>8. case'[i] = row /\ \A j \in Incidents \ {i} : case'[j] = case[j]
  BY <1>1 DEF Typed
<1>9. ASSUME NEW j \in Incidents PROVE CaseExplained(j)'
  <2>1. CASE j = i
    <3>1. /\ row.actions # <<>>
          /\ row.actions[Len(row.actions)] = e
      BY <1>2, <1>4, <1>6
    <3>2. QED BY <1>6, <1>8, <2>1, <3>1 DEF CaseExplained
  <2>2. CASE j # i
    BY <1>8, <2>2 DEF CaseExplained
  <2>3. QED BY <2>1, <2>2
<1>10. ASSUME NEW r \in Clients PROVE Sound(r)'
  <2> DEFINE read == reading[r]
  <2>1. Sound(r) /\ read \in Reading /\ read.incident \in Incidents
    BY DEF Typed, Reading
  <2>2. CASE read.incident = i
    <3>1. ASSUME Explains(i, read.row, c.actions) PROVE Explains(i, read.row, row.actions)
      <4>1. c.actions = <<>> => e.previous = <<read.row.status, read.row.transaction>>
        <5>1. ASSUME c.actions = <<>>
              PROVE  read.row = Fresh(i) /\ c = Fresh(i)
          <6>1. Len(c.actions) = 0
            BY <5>1
          <6>2. read.row = Fresh(i)
            BY <3>1, <6>1 DEF Explains
          <6>3. c = Fresh(i)
            BY <1>1, <5>1 DEF CaseExplained
          <6>4. QED BY <6>2, <6>3
        <5>2. QED BY <1>6, <5>1
      <4>2. c.actions # <<>> => e.previous = c.actions[Len(c.actions)].new
        BY <1>1, <1>6 DEF CaseExplained
      <4>3. QED BY <1>2, <1>4, <1>6, <3>1, <4>1, <4>2, ExplanationGrows
    <3>2. case'[i].there /\ case'[i].actions = row.actions
      BY <1>6, <1>8
    <3>3. QED BY <1>1, <2>1, <2>2, <3>1, <3>2 DEF Sound, Undisturbed
  <2>3. CASE read.incident # i
    BY <1>1, <1>8, <2>1, <2>3 DEF Sound, Undisturbed
  <2>4. QED BY <2>2, <2>3
<1>11. QED BY <1>7, <1>9, <1>10

\* A scenario adds an incident that nobody has read.
LEMMA RunKeepsReadings ==
  ASSUME ReadingInv, NEW i \in Incidents, Run(i)
  PROVE  ReadingInv'
<1> USE DEF ReadingInv
<1>1. ~ case[i].there /\ case' = [case EXCEPT ![i] = Fresh(i)] /\ UNCHANGED <<clock, reset, reading>>
  BY DEF Run
<1>2. Typed'
  BY <1>1, FreshIsRow DEF Typed
<1>3. case'[i] = Fresh(i) /\ \A j \in Incidents \ {i} : case'[j] = case[j]
  BY <1>1 DEF Typed
<1>4. ASSUME NEW j \in Incidents PROVE CaseExplained(j)'
  BY <1>3, FreshIsRow DEF CaseExplained
<1>5. ASSUME NEW r \in Clients PROVE Sound(r)'
  <2>1. Sound(r) /\ reading[r].incident \in Incidents
    BY DEF Typed, Reading
  <2>2. CASE reading[r].incident = i
    BY <1>1, <2>1, <2>2 DEF Sound, Undisturbed
  <2>3. CASE reading[r].incident # i
    BY <1>1, <1>3, <2>1, <2>3 DEF Sound, Undisturbed
  <2>4. QED BY <2>2, <2>3
<1>6. QED BY <1>2, <1>4, <1>5

\* After a reset every reading that is under way is disturbed.
LEMMA ResetKeepsReadings ==
  ASSUME ReadingInv, Reset
  PROVE  ReadingInv'
<1> USE DEF ReadingInv
<1>1. /\ reset' = reset + 1
      /\ case' = [i \in Incidents |-> IF i \in Background THEN Fresh(i) ELSE Absent]
      /\ UNCHANGED <<clock, reading>>
  BY DEF Reset
<1>2. Typed'
  BY <1>1, FreshIsRow DEF Typed
<1>3. ASSUME NEW i \in Incidents PROVE CaseExplained(i)'
  BY <1>1, FreshIsRow DEF CaseExplained
<1>4. ASSUME NEW r \in Clients PROVE Sound(r)'
  <2>1. reading[r].reset \in Nat /\ reading[r].reset <= reset /\ reset \in Nat
    BY DEF Typed, Reading, Sound
  <2>2. reading'[r].reset <= reset' /\ ~ Undisturbed(reading[r])'
    BY <1>1, <2>1 DEF Undisturbed
  <2>3. Sound(r)
    OBVIOUS
  <2>4. QED BY <1>1, <2>2, <2>3 DEF Sound
<1>5. QED BY <1>2, <1>3, <1>4

\* A step of one client that leaves the incidents alone keeps what all know, if
\* it keeps what that client knows.
LEMMA ClientKeepsReadings ==
  ASSUME ReadingInv, NEW r \in Clients, NEW new \in Reading,
         reading' = [reading EXCEPT ![r] = new], Sound(r)',
         UNCHANGED <<case, clock, reset>>
  PROVE  ReadingInv'
<1> USE DEF ReadingInv
<1>1. Typed'
  BY DEF Typed
<1>2. \A i \in Incidents : CaseExplained(i)'
  BY DEF CaseExplained
<1>3. ASSUME NEW q \in Clients \ {r} PROVE Sound(q)'
  <2>1. reading'[q] = reading[q]
    BY DEF Typed
  <2>2. QED BY <2>1, BystanderStaysSound
<1>4. QED BY <1>1, <1>2, <1>3

\* A client that asks has read nothing yet.
LEMMA AskKeepsReadings ==
  ASSUME ReadingInv, NEW r \in Clients, NEW i \in Incidents, Ask(r, i)
  PROVE  ReadingInv'
<1> DEFINE new == [NoReading EXCEPT !.at = "row", !.incident = i, !.reset = reset]
<1>1. reading' = [reading EXCEPT ![r] = new] /\ UNCHANGED <<case, clock, reset>>
  BY DEF Ask
<1>2. reset \in Nat
  BY DEF ReadingInv, Typed
<1>3. NoReading \in Reading
  BY FreshIsRow DEF NoReading, Reading, Places, Incidents, Background
<1>4. new \in Reading /\ new.at = "row" /\ new.reset = reset
  BY <1>2, <1>3 DEF Reading, Places
<1> HIDE DEF new
<1>5. Sound(r)'
  <2>1. reading'[r] = new
    BY <1>1 DEF ReadingInv, Typed
  <2>2. QED BY <1>1, <1>2, <1>4, <2>1 DEF Sound
<1>6. QED BY <1>1, <1>4, <1>5, ClientKeepsReadings

\* The row that is read is explained by the actions that there are.
LEMMA ReadRowKeepsReadings ==
  ASSUME ReadingInv, NEW r \in Clients, ReadRow(r)
  PROVE  ReadingInv'
<1> DEFINE read == reading[r]
           c == case[read.incident]
           new == [read EXCEPT !.at = IF c.there THEN "contributions" ELSE "404",
                               !.row = IF c.there THEN c ELSE Absent]
<1>1. reading' = [reading EXCEPT ![r] = new] /\ UNCHANGED <<case, clock, reset>>
  BY DEF ReadRow, ReadingInv, Typed
<1>2. read \in Reading /\ c \in Row /\ read.incident \in Incidents
  BY DEF ReadingInv, Typed, Reading
<1>3. /\ new.at = (IF c.there THEN "contributions" ELSE "404")
      /\ new.row = (IF c.there THEN c ELSE Absent)
      /\ new.incident = read.incident /\ new.reset = read.reset
  BY <1>2 DEF Reading
<1>4. new \in Reading
  BY <1>2, FreshIsRow DEF Reading, Places
<1>5. Sound(r)'
  <2>1. reading'[r] = new
    BY <1>1 DEF ReadingInv, Typed
  <2>2. read.reset <= reset
    BY DEF ReadingInv, Sound
  <2>3. c.there => Explains(read.incident, c, c.actions)
    BY <1>2, RowsAreExplained DEF ReadingInv
  <2> HIDE DEF new
  <2>4. QED BY <1>1, <1>3, <2>1, <2>2, <2>3 DEF Sound, Undisturbed
<1>6. QED BY <1>1, <1>4, <1>5, ClientKeepsReadings

\* Without a reset the contributions are those of the incident.
LEMMA ReadContributionsKeepsReadings ==
  ASSUME ReadingInv, NEW r \in Clients, ReadContributions(r)
  PROVE  ReadingInv'
<1> DEFINE read == reading[r]
           i == read.incident
           new == [read EXCEPT !.at = "actions",
                     !.contributions = IF case[i].there THEN Contributions[i] ELSE {}]
<1>1. /\ read.at = "contributions"
      /\ reading' = [reading EXCEPT ![r] = new] /\ UNCHANGED <<case, clock, reset>>
  BY DEF ReadContributions, ReadingInv, Typed
<1>2. read \in Reading /\ i \in Incidents
  BY DEF ReadingInv, Typed, Reading
<1>3. /\ new.at = "actions" /\ new.incident = i /\ new.reset = read.reset /\ new.row = read.row
      /\ new.contributions = (IF case[i].there THEN Contributions[i] ELSE {})
  BY <1>2 DEF Reading
<1>4. new \in Reading
  <2>1. Contributions[i] \in SUBSET UNION {Contributions[j] : j \in Incidents}
    BY <1>2
  <2>2. QED BY <1>2, <2>1 DEF Reading, Places
<1>5. Sound(r)'
  <2>1. reading'[r] = new
    BY <1>1 DEF ReadingInv, Typed
  <2>2. Sound(r)
    BY DEF ReadingInv
  <2> HIDE DEF new
  <2>3. QED BY <1>1, <1>3, <2>1, <2>2 DEF Sound, Undisturbed
<1>6. QED BY <1>1, <1>4, <1>5, ClientKeepsReadings

\* The actions that are read are those that explain the row.
LEMMA ReadActionsKeepsReadings ==
  ASSUME ReadingInv, NEW r \in Clients, ReadActions(r)
  PROVE  ReadingInv'
<1> DEFINE read == reading[r]
           i == read.incident
           new == [read EXCEPT !.at = "events", !.actions = case[i].actions]
<1>1. /\ read.at = "actions"
      /\ reading' = [reading EXCEPT ![r] = new] /\ UNCHANGED <<case, clock, reset>>
  BY DEF ReadActions, ReadingInv, Typed
<1>2. read \in Reading /\ i \in Incidents /\ case[i].actions \in Seq(Entry)
  BY DEF ReadingInv, Typed, Reading, Row
<1>3. /\ new.at = "events" /\ new.incident = i /\ new.reset = read.reset /\ new.row = read.row
      /\ new.contributions = read.contributions /\ new.actions = case[i].actions
  BY <1>2 DEF Reading
<1>4. new \in Reading
  BY <1>2 DEF Reading, Places
<1>5. Sound(r)'
  <2>1. reading'[r] = new
    BY <1>1 DEF ReadingInv, Typed
  <2>2. Sound(r)
    BY DEF ReadingInv
  <2> HIDE DEF new
  <2>3. QED BY <1>1, <1>3, <2>1, <2>2 DEF Sound, Undisturbed
<1>6. QED BY <1>1, <1>4, <1>5, ClientKeepsReadings

\* The events change nothing of what was read before.
LEMMA ReadEventsKeepsReadings ==
  ASSUME ReadingInv, NEW r \in Clients, ReadEvents(r)
  PROVE  ReadingInv'
<1> DEFINE read == reading[r]
           i == read.incident
           new == [read EXCEPT !.at = "project",
                     !.events = IF case[i].there THEN Events[i] ELSE {}]
<1>1. /\ read.at = "events"
      /\ reading' = [reading EXCEPT ![r] = new] /\ UNCHANGED <<case, clock, reset>>
  BY DEF ReadEvents, ReadingInv, Typed
<1>2. read \in Reading /\ i \in Incidents
  BY DEF ReadingInv, Typed, Reading
<1>3. /\ new.at = "project" /\ new.incident = i /\ new.reset = read.reset /\ new.row = read.row
      /\ new.contributions = read.contributions /\ new.actions = read.actions
  BY <1>2 DEF Reading
<1>4. new \in Reading
  <2>1. Events[i] \in SUBSET UNION {Events[j] : j \in Incidents}
    BY <1>2
  <2>2. QED BY <1>2, <2>1 DEF Reading, Places
<1>5. Sound(r)'
  <2>1. reading'[r] = new
    BY <1>1 DEF ReadingInv, Typed
  <2>2. Sound(r)
    BY DEF ReadingInv
  <2> HIDE DEF new
  <2>3. QED BY <1>1, <1>3, <2>1, <2>2 DEF Sound, Undisturbed
<1>6. QED BY <1>1, <1>4, <1>5, ClientKeepsReadings

\* A detail that no reset disturbed is not refused, and one that is shown
\* passed both checks.
LEMMA ProjectKeepsReadings ==
  ASSUME ReadingInv, NEW r \in Clients, Project(r)
  PROVE  ReadingInv'
<1> DEFINE read == reading[r]
           accepted == Projectable(read.contributions)
                         /\ MatchesBonus(read.contributions, read.incident)
           new == [read EXCEPT !.at = IF accepted THEN "detail" ELSE "500"]
<1>1. /\ read.at = "project"
      /\ reading' = [reading EXCEPT ![r] = new] /\ UNCHANGED <<case, clock, reset>>
  BY DEF Project, ReadingInv, Typed
<1>2. read \in Reading /\ read.incident \in Incidents
  BY DEF ReadingInv, Typed, Reading
<1>3. /\ new.at = (IF accepted THEN "detail" ELSE "500")
      /\ new.incident = read.incident /\ new.reset = read.reset /\ new.row = read.row
      /\ new.contributions = read.contributions /\ new.actions = read.actions
  BY <1>2 DEF Reading
<1>4. new \in Reading
  BY <1>2 DEF Reading, Places
<1>5. Sound(r)'
  <2>1. reading'[r] = new
    BY <1>1 DEF ReadingInv, Typed
  <2>2. Sound(r)
    BY DEF ReadingInv
  <2>3. Undisturbed(read) => accepted
    BY <1>1, <1>2, <2>2, StoredIsProjectable DEF Sound
  <2>4. Undisturbed(reading[r])' <=> Undisturbed(read)
    BY <1>1, <1>3, <2>1 DEF Undisturbed
  <2> HIDE DEF new
  <2>5. new.at = "detail" => accepted
    BY <1>3
  <2> HIDE DEF accepted
  <2>6. /\ new.reset <= reset'
        /\ Undisturbed(read) =>
             /\ case'[new.incident].there
             /\ Explains(new.incident, new.row, new.actions)
             /\ new.contributions = Contributions[new.incident]
             /\ new.at # "500"
             /\ new.at \notin {"contributions", "actions"}
    BY <1>1, <1>3, <2>2, <2>3 DEF Sound
  <2>7. new.at = "detail" =>
          Projectable(new.contributions) /\ MatchesBonus(new.contributions, new.incident)
    BY <1>3, <2>5 DEF accepted
  <2>8. QED BY <1>1, <2>1, <2>4, <2>6, <2>7 DEF Sound
<1>6. QED BY <1>1, <1>4, <1>5, ClientKeepsReadings

\* Who walks through the list reads no incident.
LEMMA ListKeepsReadings ==
  ASSUME ReadingInv, NEW w \in Clients, List(w)
  PROVE  ReadingInv'
<1>1. UNCHANGED <<case, clock, reset>>
  BY DEF List, Walk, Count, Rows
<1>2. CASE UNCHANGED reading
  BY <1>1, <1>2, BystanderStaysSound DEF ReadingInv, Typed, CaseExplained
<1>3. CASE reading' = [reading EXCEPT ![w] = NoReading]
  <2>1. NoReading \in Reading
    BY FreshIsRow DEF NoReading, Reading, Places, Incidents, Background
  <2>2. reading'[w] = NoReading
    BY <1>3 DEF ReadingInv, Typed
  <2>3. NoReading.at = "idle" /\ NoReading.reset = 0
    BY DEF NoReading
  <2>4. reset \in Nat
    BY DEF ReadingInv, Typed
  <2>5. Sound(w)'
    BY <1>1, <2>2, <2>3, <2>4 DEF Sound
  <2>6. QED BY <1>1, <1>3, <2>1, <2>5, ClientKeepsReadings
<1>4. QED BY <1>2, <1>3 DEF List, Walk, Count, Rows

\* Before the first request nothing has been read.
LEMMA InitReads == Init => ReadingInv
<1> SUFFICES ASSUME Init PROVE ReadingInv
  OBVIOUS
<1> USE DEF Init
<1>1. NoReading \in Reading
  BY FreshIsRow DEF NoReading, Reading, Places, Incidents, Background
<1>2. Typed
  BY <1>1, FreshIsRow DEF Typed
<1>3. \A i \in Incidents : CaseExplained(i)
  BY FreshIsRow DEF CaseExplained
<1>4. \A r \in Clients : Sound(r)
  <2>1. NoReading.at = "idle" /\ NoReading.reset = 0
    BY DEF NoReading
  <2>2. QED BY <2>1 DEF Sound
<1>5. QED BY <1>2, <1>3, <1>4 DEF ReadingInv

LEMMA NextReads == ReadingInv /\ [Next]_vars => ReadingInv'
<1> SUFFICES ASSUME ReadingInv, [Next]_vars PROVE ReadingInv'
  OBVIOUS
<1>1. CASE UNCHANGED vars
  BY <1>1, BystanderStaysSound DEF vars, ReadingInv, Typed, CaseExplained
<1>2. CASE Write
  BY <1>2, ActKeepsReadings, RunKeepsReadings, ResetKeepsReadings DEF Write
<1>3. ASSUME NEW r \in Clients, Read(r) PROVE ReadingInv'
  BY <1>3, AskKeepsReadings, ReadRowKeepsReadings, ReadContributionsKeepsReadings,
     ReadActionsKeepsReadings, ReadEventsKeepsReadings, ProjectKeepsReadings DEF Read
<1>4. ASSUME NEW w \in Clients, List(w) PROVE ReadingInv'
  BY <1>4, ListKeepsReadings
<1>5. QED BY <1>1, <1>2, <1>3, <1>4 DEF Next

\* In every reachable state what a client has read of an incident, as long as
\* no reset came in between, is one state of it and what led there and on: the
\* inductive invariant.
THEOREM ReadingsAreSound == Spec => []ReadingInv
BY InitReads, NextReads, PTL DEF Spec

\* The actions in a detail lead to the status, the transaction and the token
\* that it shows, and from there only on.
THEOREM DetailsExplainStatus == Spec => []StatusIsExplained
<1>1. ReadingInv => StatusIsExplained
  <2> SUFFICES ASSUME ReadingInv, NEW r \in Clients, reading[r].at = "detail",
                      Undisturbed(reading[r])
               PROVE  Explains(reading[r].incident, reading[r].row, reading[r].actions)
    BY DEF StatusIsExplained, Explains
  <2>1. QED BY DEF ReadingInv, Sound
<1>2. QED BY <1>1, ReadingsAreSound, PTL

\* A detail that is shown has the evidence for the whole bonus of its incident,
\* also when a reset removed the incident while it was read.
THEOREM DetailsEvidenceBonus == Spec => []BonusIsEvidenced
<1>1. ReadingInv => BonusIsEvidenced
  <2> SUFFICES ASSUME ReadingInv, NEW r \in Clients, reading[r].at = "detail"
               PROVE  Bonus(reading[r].incident)
                        = BonusOf({p[1] : p \in Pairs(reading[r].contributions)})
    BY DEF BonusIsEvidenced
  <2> DEFINE all == reading[r].contributions
             paired == {p[1] : p \in Pairs(all)}
  <2>1. Projectable(all) /\ MatchesBonus(all, reading[r].incident)
    BY DEF ReadingInv, Sound
  <2>2. paired = {c \in all : c.category = "correlation"}
    BY <2>1 DEF Projectable, Pairs
  <2>3. {c \in paired : c.category = "correlation"} = {c \in all : c.category = "correlation"}
    BY <2>2
  <2> HIDE DEF paired
  <2>4. BonusOf(paired) = BonusOf(all)
    BY <2>3, Zenon DEF BonusOf
  <2>5. QED BY <2>1, <2>4 DEF MatchesBonus, paired
<1>2. QED BY <1>1, ReadingsAreSound, PTL

\* No detail is refused for its provenance but for a reset in the middle.
THEOREM RefusalsComeFromResets == Spec => []OnlyResetsHideProvenance
<1>1. ReadingInv => OnlyResetsHideProvenance
  BY DEF ReadingInv, Sound, OnlyResetsHideProvenance
<1>2. QED BY <1>1, ReadingsAreSound, PTL
-----------------------------------------------------------------------------
(* The list: how the ORDER BY orders, and the pages of one order. *)

Walking ==
  [at : {"idle", "count", "rows", "end"},
   sort : {"created_at", "updated_at", "severity", "fused_score", "status"},
   descending : BOOLEAN, filter : {"all", "critical", "open"},
   page : Nat, total : Nat, shown : Seq(Incidents), reset : Nat, run : Nat]

\* A walk by what analysts cannot change.
Fixed(walk) == walk.sort \in Immutable /\ walk.filter # "open"

\* No incident has come or gone since the walk began.
Steady(walk) == Undisturbed(walk) /\ walk.run = run

\* The pages before the next one are the beginning of every order there is.
Shows(walk) ==
  \A order \in Orders(walk) :
    /\ (walk.page - 1) * PageSize <= Len(order)
    /\ walk.shown = SubSeq(order, 1, (walk.page - 1) * PageSize)

OnTrack(walk) ==
  /\ walk.reset <= reset /\ walk.run <= run
  /\ walk.at \in {"count", "rows"} => walk.page # 0
  /\ Fixed(walk) /\ Steady(walk) =>
       /\ walk.at \in {"count", "rows"} => Shows(walk)
       /\ walk.at = "rows" => walk.total = Cardinality(Listed(walk))
       /\ walk.at = "end" => walk.shown \in Orders(walk)

WalkingInv ==
  /\ reset \in Nat /\ run \in Nat
  /\ walking \in [Clients -> Walking]
  /\ \A w \in Clients : OnTrack(walking[w])

\* What analysts cannot change orders any two incidents in one way.
LEMMA OrderIsStrict ==
  ASSUME NEW walk \in Walking, Fixed(walk), NEW i \in Incidents, NEW j \in Incidents,
         Precedes(i, j, walk)
  PROVE  ~ Precedes(j, i, walk)
<1>1. \A x \in Incidents : SortKey(x, walk.sort) \in Nat /\ CreatedAt[x] \in Nat
  BY DEF Fixed, Immutable, SortKey, CreatedAt, FusedScore, SeverityOrder, Incidents, Background,
         Scenarios
<1>2. QED BY <1>1 DEF Precedes

LEMMA ListedIsFinite ==
  ASSUME NEW walk
  PROVE  /\ Listed(walk) \subseteq Incidents /\ IsFiniteSet(Listed(walk))
         /\ Cardinality(Listed(walk)) \in Nat
<1>1. Incidents = ((({} \cup {"background_low"}) \cup {"background_critical"})
                      \cup {"normal_activity"}) \cup {"account_takeover"}
  BY DEF Incidents, Background, Scenarios
<1>2. \A S, x : IsFiniteSet(S) => IsFiniteSet(S \cup {x})
  BY FS_AddElement
<1>3. IsFiniteSet(Incidents)
  BY <1>1, <1>2, FS_EmptySet
<1>4. QED BY <1>3, FS_Subset, FS_CardinalityType DEF Listed

\* An order has every listed incident in one place.
LEMMA OrdersAreBijections ==
  ASSUME NEW walk, NEW order \in Orders(walk)
  PROVE  /\ IsFiniteSet(Listed(walk)) /\ Cardinality(Listed(walk)) \in Nat
         /\ order \in Seq(Incidents) /\ Len(order) = Cardinality(Listed(walk))
         /\ order \in [1..Len(order) -> Listed(walk)]
         /\ \A j, k \in 1..Len(order) : order[j] = order[k] => j = k
         /\ \A x \in Listed(walk) : \E k \in 1..Len(order) : order[k] = x
<1> DEFINE L == Listed(walk)
           n == Cardinality(L)
<1>1. L \subseteq Incidents /\ IsFiniteSet(L) /\ n \in Nat
  BY ListedIsFinite
<1>2. /\ order \in [1..n -> L]
      /\ \A j, k \in 1..n : j # k => order[j] # order[k]
  BY DEF Orders, SetToSeqs
<1>3. order \in Seq(L) /\ Len(order) = n
  BY <1>1, <1>2
<1>4. order \in Seq(Incidents)
  BY <1>1, <1>3
<1>5. order \in Injection(1..n, L)
  BY <1>2 DEF Injection, IsInjective
<1>6. Cardinality(1..n) = n
  BY <1>1, FS_Interval
<1>7. order \in Surjection(1..n, L)
  BY <1>1, <1>5, <1>6, FS_Injection
<1>8. \A x \in L : \E k \in 1..n : order[k] = x
  BY <1>7 DEF Surjection
<1>9. QED BY <1>1, <1>2, <1>3, <1>4, <1>8

\* As many incidents precede one as stand before it.
LEMMA PlaceIsRank ==
  ASSUME NEW walk \in Walking, Fixed(walk), NEW order \in Orders(walk),
         NEW k \in 1..Len(order)
  PROVE  Cardinality({x \in Listed(walk) : Precedes(x, order[k], walk)}) = k - 1
<1> DEFINE L == Listed(walk)
           before == {x \in L : Precedes(x, order[k], walk)}
           f == [j \in 1..(k - 1) |-> order[j]]
<1>1. /\ order \in [1..Len(order) -> L] /\ Len(order) \in Nat
      /\ \A j, m \in 1..Len(order) : order[j] = order[m] => j = m
      /\ \A x \in L : \E j \in 1..Len(order) : order[j] = x
  BY OrdersAreBijections
<1>2. \A j, m \in 1..Len(order) : j < m => Precedes(order[j], order[m], walk)
  BY DEF Orders
<1>3. L \subseteq Incidents
  BY DEF Listed
<1>4. \A x \in Incidents : ~ Precedes(x, x, walk)
  BY OrderIsStrict
<1>5. ASSUME NEW j \in 1..Len(order)
      PROVE  order[j] \in before <=> j < k
  <2>1. CASE j < k
    BY <1>1, <1>2, <2>1
  <2>2. CASE j = k
    BY <1>1, <1>3, <1>4, <2>2
  <2>3. CASE j > k
    <3>1. Precedes(order[k], order[j], walk)
      BY <1>2, <2>3
    <3>2. ~ Precedes(order[j], order[k], walk)
      BY <1>1, <1>3, <3>1, OrderIsStrict
    <3>3. QED BY <2>3, <3>2
  <2>4. QED BY <2>1, <2>2, <2>3
<1> HIDE DEF before
<1>6. before \subseteq L
  BY DEF before
<1>7. f \in Bijection(1..(k - 1), before)
  <2>1. \A j \in 1..(k - 1) : j \in 1..Len(order) /\ f[j] = order[j] /\ order[j] \in before
    BY <1>1, <1>5
  <2>2. f \in [1..(k - 1) -> before]
    BY <2>1
  <2>3. \A j, m \in 1..(k - 1) : f[j] = f[m] => j = m
    BY <1>1, <2>1
  <2>4. \A x \in before : \E j \in 1..(k - 1) : f[j] = x
    <3>1. SUFFICES ASSUME NEW x \in before PROVE \E j \in 1..(k - 1) : f[j] = x
      OBVIOUS
    <3>2. PICK j \in 1..Len(order) : order[j] = x
      BY <1>1, <1>6
    <3>3. j < k
      BY <1>5, <3>2
    <3>4. j \in 1..(k - 1)
      BY <3>3
    <3>5. QED BY <2>1, <3>2, <3>4
  <2> HIDE DEF f
  <2>5. QED BY <2>2, <2>3, <2>4 DEF Bijection, Injection, Surjection, IsInjective
<1>8. Cardinality(1..(k - 1)) = k - 1 /\ IsFiniteSet(1..(k - 1))
  BY FS_Interval
<1>9. Cardinality(before) = Cardinality(1..(k - 1))
  BY <1>7, <1>8, FS_Bijection DEF ExistsBijection
<1>10. QED BY <1>8, <1>9 DEF before

\* So the ORDER BY, which ends with the identity, allows one order only.
LEMMA OneOrder ==
  ASSUME NEW walk \in Walking, Fixed(walk), NEW order \in Orders(walk),
         NEW other \in Orders(walk)
  PROVE  order = other
<1>1. Len(order) = Len(other)
  BY OrdersAreBijections
<1>2. ASSUME NEW k \in 1..Len(order) PROVE order[k] = other[k]
  <2>1. order[k] \in Listed(walk)
    BY OrdersAreBijections
  <2>2. \A x \in Listed(walk) : \E j \in 1..Len(other) : other[j] = x
    BY OrdersAreBijections
  <2>3. PICK j \in 1..Len(other) : other[j] = order[k]
    BY <2>1, <2>2
  <2>4. j - 1 = k - 1
    BY <2>3, PlaceIsRank, ZenonT(60)
  <2>5. QED BY <2>3, <2>4
<1>3. order \in Seq(Incidents) /\ other \in Seq(Incidents)
  BY OrdersAreBijections
<1>4. QED BY <1>1, <1>2, <1>3, SeqEqual

\* The order stays while no incident comes or goes.
LEMMA OrderStays ==
  ASSUME NEW walk \in Walking, Fixed(walk),
         \A i \in Incidents : case'[i].there = case[i].there
  PROVE  /\ Listed(walk)' = Listed(walk)
         /\ Orders(walk)' = Orders(walk)
<1>1. walk.filter \in {"all", "critical"} /\ walk.sort \in Immutable
  BY DEF Walking, Fixed
<1>2. Listed(walk)' = Listed(walk)
  BY <1>1 DEF Listed, Matches
<1>3. \A i, j \in Incidents : Precedes(i, j, walk)' <=> Precedes(i, j, walk)
  BY <1>1 DEF Precedes, SortKey, Immutable
<1>4. QED
  <2>1. \A s \in SetToSeqs(Listed(walk)) : \A k \in 1..Len(s) : s[k] \in Incidents
    <3>1. Cardinality(Listed(walk)) \in Nat /\ Listed(walk) \subseteq Incidents
      BY ListedIsFinite
    <3>2. QED BY <3>1 DEF SetToSeqs
  <2>2. QED BY <1>2, <1>3, <2>1 DEF Orders

\* The pages that are left: a full one, or the rest.
LEMMA PagesAreFull ==
  ASSUME NEW total \in Nat, NEW page \in Nat \ {0}
  PROVE  /\ page * PageSize \in Nat /\ page * PageSize = (page - 1) * PageSize + PageSize
         /\ page < TotalPages(total) => page * PageSize < total
         /\ ~ page < TotalPages(total) => total <= page * PageSize
<1> DEFINE pages == (total + PageSize - 1) \div PageSize
<1>1. PageSize \in Nat \ {0}
  BY PagesHoldItems
<1>2. pages \in Int
      /\ pages * PageSize <= total + PageSize - 1
      /\ total + PageSize - 1 < pages * PageSize + PageSize
  BY <1>1
<1>3. page * PageSize \in Nat /\ page * PageSize = (page - 1) * PageSize + PageSize
  BY <1>1
<1> HIDE DEF pages
<1>4. ASSUME page < pages PROVE page * PageSize < total
  <2>1. (page + 1) * PageSize <= pages * PageSize
    BY <1>1, <1>2, <1>4
  <2>2. (page + 1) * PageSize = page * PageSize + PageSize
    BY <1>1
  <2>3. page * PageSize \in Int /\ pages * PageSize \in Int
    BY <1>1, <1>2
  <2>4. QED BY <1>1, <1>2, <2>1, <2>2, <2>3
<1>5. ASSUME ~ page < pages PROVE total <= page * PageSize
  <2>1. pages * PageSize <= page * PageSize
    BY <1>1, <1>2, <1>5
  <2>2. page * PageSize \in Int /\ pages * PageSize \in Int
    BY <1>1, <1>2
  <2>3. QED BY <1>1, <1>2, <2>1, <2>2
<1>6. QED BY <1>3, <1>4, <1>5 DEF TotalPages, pages

\* A page has incidents of its order.
LEMMA PageOfIncidents ==
  ASSUME NEW order \in Seq(Incidents), NEW page \in Nat \ {0}
  PROVE  Page(order, page) \in Seq(Incidents)
<1> DEFINE from == (page - 1) * PageSize
           to == page * PageSize
           last == Min({to, Len(order)})
<1>1. from \in Nat /\ to \in Nat /\ Len(order) \in Nat
  <2>1. PageSize \in Nat \ {0} /\ page - 1 \in Nat
    BY PagesHoldItems
  <2>2. QED BY <2>1
<1> HIDE DEF from, to
<1>2. last \in 0..Len(order)
  BY <1>1 DEF Min
<1> HIDE DEF last
<1>3. \A k \in (from + 1)..last : order[k] \in Incidents
  <2>1. \A k \in (from + 1)..last : k \in 1..Len(order)
    BY <1>1, <1>2
  <2>2. QED BY <2>1, ElementOfSeq
<1>4. SubSeq(order, from + 1, last) \in Seq(Incidents)
  BY <1>1, <1>2, <1>3, SubSeqProperties
<1>5. QED BY <1>4 DEF Page, from, to, last

\* A page of an order continues what the pages before it showed.
LEMMA PageContinues ==
  ASSUME NEW order \in Seq(Incidents), NEW page \in Nat \ {0},
         (page - 1) * PageSize <= Len(order)
  PROVE  LET so_far == SubSeq(order, 1, (page - 1) * PageSize) IN
         /\ page * PageSize <= Len(order) =>
              so_far \o Page(order, page) = SubSeq(order, 1, page * PageSize)
         /\ Len(order) <= page * PageSize => so_far \o Page(order, page) = order
<1> DEFINE from == (page - 1) * PageSize
           to == page * PageSize
           last == Min({to, Len(order)})
<1>1. from \in Nat /\ to \in Nat /\ from <= to /\ from <= Len(order) /\ Len(order) \in Nat
  <2>1. PageSize \in Nat \ {0} /\ page - 1 \in Nat
    BY PagesHoldItems
  <2>2. from \in Nat
    BY <2>1
  <2>3. QED BY <2>1, <2>2, PagesAreFull
<1> HIDE DEF from, to
<1>2. last = IF to <= Len(order) THEN to ELSE Len(order)
  BY <1>1 DEF Min
<1> HIDE DEF last
<1>3. last \in from..Len(order)
  BY <1>1, <1>2
<1>4. Page(order, page) = SubSeq(order, from + 1, last)
  BY DEF Page, from, to, last
<1>5. SubSeq(order, 1, from) \o SubSeq(order, from + 1, last) = SubSeq(order, 1, last)
  BY <1>1, <1>3, ConcatAdjacentSubSeq
<1>6. SubSeq(order, 1, Len(order)) = order
  BY SubSeqFull
<1>7. to <= Len(order) =>
        SubSeq(order, 1, from) \o Page(order, page) = SubSeq(order, 1, to)
  BY <1>2, <1>4, <1>5
<1>8. Len(order) <= to => SubSeq(order, 1, from) \o Page(order, page) = order
  <2>1. Len(order) <= to => last = Len(order)
    BY <1>1, <1>2
  <2>2. QED BY <1>4, <1>5, <1>6, <2>1
<1>9. QED BY <1>7, <1>8 DEF from, to

\* A walk stays on track while the incidents stay where they are.
LEMMA WalksStayOnTrack ==
  ASSUME NEW walk \in Walking, OnTrack(walk),
         \A i \in Incidents : case'[i].there = case[i].there, UNCHANGED <<reset, run>>
  PROVE  OnTrack(walk)'
<1>1. Fixed(walk) => Listed(walk)' = Listed(walk) /\ Orders(walk)' = Orders(walk)
  BY OrderStays
<1>2. QED BY <1>1 DEF OnTrack, Shows, Fixed, Steady, Undisturbed

\* A step of one client that leaves the incidents alone keeps all on track, if it
\* keeps that client there.
LEMMA ClientKeepsTrack ==
  ASSUME WalkingInv, NEW w \in Clients, NEW new \in Walking, OnTrack(new),
         walking' = [walking EXCEPT ![w] = new], UNCHANGED <<case, reset, run>>
  PROVE  WalkingInv'
<1>1. walking' \in [Clients -> Walking] /\ reset' \in Nat /\ run' \in Nat
  BY DEF WalkingInv
<1>2. \A walk \in Walking : OnTrack(walk) => OnTrack(walk)'
  BY WalksStayOnTrack
<1>3. ASSUME NEW q \in Clients PROVE OnTrack(walking[q])'
  <2>1. \E walk \in Walking : walk = walking'[q] /\ OnTrack(walk)
    <3>1. CASE q = w
      BY <3>1 DEF WalkingInv
    <3>2. CASE q # w
      BY <3>2 DEF WalkingInv
    <3>3. QED BY <3>1, <3>2
  <2>2. PICK walk \in Walking : walk = walking'[q] /\ OnTrack(walk)
    BY <2>1
  <2>3. OnTrack(walk)'
    BY <1>2, <2>2
  <2>4. QED BY <2>2, <2>3 DEF OnTrack, Shows, Fixed, Steady, Undisturbed
<1>4. QED BY <1>1, <1>3 DEF WalkingInv

LEMMA NoWalkIsOnTrack ==
  ASSUME reset \in Nat, run \in Nat
  PROVE  NoWalk \in Walking /\ OnTrack(NoWalk)
<1>1. /\ NoWalk \in Walking
      /\ NoWalk.at = "idle" /\ NoWalk.reset = 0 /\ NoWalk.run = 0
  BY DEF NoWalk, Walking
<1>2. QED BY <1>1 DEF OnTrack

\* A walk begins with no page shown.
LEMMA WalkKeepsTrack ==
  ASSUME WalkingInv, NEW w \in Clients, NEW sort \in Sorts, NEW descending \in BOOLEAN,
         NEW filter \in Filters, Walk(w, sort, descending, filter)
  PROVE  WalkingInv'
<1>1. reset \in Nat /\ run \in Nat
  BY DEF WalkingInv
<1>2. PICK new : new = [NoWalk EXCEPT !.at = "count", !.sort = sort, !.descending = descending,
                          !.filter = filter, !.page = 1, !.reset = reset, !.run = run]
  OBVIOUS
<1>3. walking' = [walking EXCEPT ![w] = new] /\ UNCHANGED <<case, reset, run>>
  BY <1>2 DEF Walk
<1>4. new = [at |-> "count", sort |-> sort, descending |-> descending, filter |-> filter,
             page |-> 1, total |-> 0, shown |-> <<>>, reset |-> reset, run |-> run]
  BY <1>2 DEF NoWalk
<1>5. /\ sort \in {"created_at", "updated_at", "severity", "fused_score", "status"}
      /\ filter \in {"all", "critical", "open"}
  BY SortsAreSorts, FiltersAreFilters
<1>6. <<>> \in Seq(Incidents)
  OBVIOUS
<1>7. new \in Walking
  BY <1>1, <1>4, <1>5, <1>6 DEF Walking
<1>8. OnTrack(new)
  <2>1. (new.page - 1) * PageSize = 0
    BY <1>4, PagesHoldItems
  <2>2. \A order \in Orders(new) : 0 <= Len(order) /\ SubSeq(order, 1, 0) = <<>>
    <3>1. SUFFICES ASSUME NEW order \in Orders(new)
                   PROVE  0 <= Len(order) /\ SubSeq(order, 1, 0) = <<>>
      OBVIOUS
    <3>2. order \in Seq(Incidents)
      BY OrdersAreBijections
    <3>3. QED BY <3>2, SubSeqEmpty, LenProperties
  <2>3. Shows(new)
    <3>1. new.shown = <<>>
      BY <1>4
    <3>2. QED BY <2>1, <2>2, <3>1 DEF Shows
  <2>4. QED BY <1>1, <1>4, <2>3 DEF OnTrack
<1>9. QED BY <1>3, <1>7, <1>8, ClientKeepsTrack

\* The count of a page is the length of every order there is.
LEMMA CountKeepsTrack ==
  ASSUME WalkingInv, NEW w \in Clients, Count(w)
  PROVE  WalkingInv'
<1>1. PICK walk \in Walking : walk = walking[w] /\ OnTrack(walk)
  BY DEF WalkingInv
<1>2. PICK total \in Nat : total = Cardinality(Listed(walk))
  BY ListedIsFinite
<1>3. PICK new : new = [walk EXCEPT !.at = "rows", !.total = total]
  OBVIOUS
<1>4. /\ walk.at = "count" /\ walking' = [walking EXCEPT ![w] = new]
      /\ UNCHANGED <<case, reset, run>>
  BY <1>1, <1>2, <1>3 DEF Count, WalkingInv, Walking
<1>5. /\ new \in Walking /\ new.at = "rows" /\ new.total = total
      /\ new.sort = walk.sort /\ new.descending = walk.descending /\ new.filter = walk.filter
      /\ new.page = walk.page /\ new.shown = walk.shown
      /\ new.reset = walk.reset /\ new.run = walk.run
  BY <1>3 DEF Walking
<1>6. Listed(new) = Listed(walk) /\ Orders(new) = Orders(walk)
  BY <1>5 DEF Listed, Orders, Precedes
<1>7. OnTrack(new)
  BY <1>1, <1>2, <1>4, <1>5, <1>6 DEF OnTrack, Shows, Fixed, Steady, Undisturbed
<1>8. QED BY <1>4, <1>5, <1>7, ClientKeepsTrack

\* A page continues what was shown, and the last one completes the order.
LEMMA RowsKeepsTrack ==
  ASSUME WalkingInv, NEW w \in Clients, Rows(w)
  PROVE  WalkingInv'
<1>1. PICK walk \in Walking : walk = walking[w] /\ OnTrack(walk)
  BY DEF WalkingInv
<1>2. PICK order \in Orders(walk) :
        walking' = [walking EXCEPT
          ![w].shown = @ \o Page(order, walking[w].page),
          ![w].at = IF walking[w].page < TotalPages(walking[w].total) THEN "count" ELSE "end",
          ![w].page = @ + 1]
  BY <1>1 DEF Rows
<1>3. walk.at = "rows" /\ UNCHANGED <<case, reset, run>>
  BY <1>1 DEF Rows
<1>4. order \in Seq(Incidents) /\ Len(order) = Cardinality(Listed(walk))
  BY OrdersAreBijections
<1>5. PICK page, shown, at :
        /\ page = walk.page /\ shown = walk.shown \o Page(order, walk.page)
        /\ at = IF walk.page < TotalPages(walk.total) THEN "count" ELSE "end"
  OBVIOUS
<1>6. PICK new :
        new = [walk EXCEPT !.shown = shown, !.at = at, !.page = page + 1]
  OBVIOUS
<1>7. walking' = [walking EXCEPT ![w] = new]
  BY <1>1, <1>2, <1>5, <1>6 DEF WalkingInv, Walking
<1>8. /\ new.at = at
      /\ new.page = page + 1 /\ new.shown = shown /\ new.total = walk.total
      /\ new.sort = walk.sort /\ new.descending = walk.descending /\ new.filter = walk.filter
      /\ new.reset = walk.reset /\ new.run = walk.run
  BY <1>6 DEF Walking
<1>9. page \in Nat \ {0} /\ walk.total \in Nat
  BY <1>1, <1>3, <1>5 DEF OnTrack, Walking
<1>10. new \in Walking
  <2>1. shown \in Seq(Incidents)
    <3>1. Page(order, page) \in Seq(Incidents) /\ walk.shown \in Seq(Incidents)
      BY <1>4, <1>9, PageOfIncidents DEF Walking
    <3>2. QED BY <1>5, <3>1
  <2>2. at \in {"count", "end"} /\ page + 1 \in Nat
    BY <1>5, <1>9
  <2>3. QED BY <1>6, <2>1, <2>2 DEF Walking
<1>11. Listed(new) = Listed(walk) /\ Orders(new) = Orders(walk)
  BY <1>8 DEF Listed, Orders, Precedes
<1>12. ASSUME Fixed(walk), Steady(walk)
       PROVE  IF at = "count" THEN Shows(new) ELSE shown = order
  <2>1. /\ (page - 1) * PageSize <= Len(order)
        /\ walk.shown = SubSeq(order, 1, (page - 1) * PageSize)
        /\ walk.total = Len(order)
    BY <1>1, <1>3, <1>4, <1>5, <1>12 DEF OnTrack, Shows
  <2>2. /\ page * PageSize \in Nat /\ Len(order) \in Nat
        /\ at = "count" => page * PageSize < Len(order)
        /\ at # "count" => Len(order) <= page * PageSize
    BY <1>5, <1>9, <2>1, PagesAreFull
  <2>3. /\ page * PageSize <= Len(order) => shown = SubSeq(order, 1, page * PageSize)
        /\ Len(order) <= page * PageSize => shown = order
    BY <1>4, <1>5, <1>9, <2>1, PageContinues
  <2>4. CASE at = "count"
    <3>1. page * PageSize <= Len(order) /\ shown = SubSeq(order, 1, page * PageSize)
      BY <2>2, <2>3, <2>4
    <3>2. \A other \in Orders(new) : other = order
      BY <1>11, <1>12, OneOrder
    <3>3. new.page - 1 = page
      BY <1>8, <1>9
    <3>4. QED BY <1>8, <2>4, <3>1, <3>2, <3>3 DEF Shows
  <2>5. CASE at # "count"
    BY <2>2, <2>3, <2>5
  <2>6. QED BY <2>4, <2>5
<1>13. OnTrack(new)
  <2>1. Fixed(new) = Fixed(walk) /\ Steady(new) = Steady(walk)
    BY <1>8 DEF Fixed, Steady, Undisturbed
  <2>2. new.page # 0
    BY <1>8, <1>9
  <2>3. new.at # "rows" /\ (at = "count" <=> new.at = "count") /\ (at # "count" <=> new.at = "end")
    BY <1>5, <1>8
  <2>4. new.reset <= reset /\ new.run <= run
    BY <1>1, <1>8 DEF OnTrack
  <2>5. Fixed(new) /\ Steady(new) => IF at = "count" THEN Shows(new) ELSE new.shown \in Orders(new)
    BY <1>8, <1>11, <1>12, <2>1
  <2>6. QED BY <2>2, <2>3, <2>4, <2>5 DEF OnTrack
<1>14. QED BY <1>3, <1>7, <1>10, <1>13, ClientKeepsTrack

\* An action takes no incident from the list; a run and a reset disturb every
\* walk under way.
LEMMA WriteKeepsTrack ==
  ASSUME WalkingInv, case \in [Incidents -> Row], Write
  PROVE  WalkingInv'
<1>1. UNCHANGED walking
  BY DEF Write, Act, Run, Reset
<1>2. reset' \in Nat /\ run' \in Nat
  <2>1. reset \in Nat /\ run \in Nat
    BY DEF WalkingInv
  <2>2. (reset' = reset \/ reset' = reset + 1) /\ (run' = run \/ run' = run + 1)
    BY Zenon DEF Write, Act, Run, Reset
  <2>3. QED BY <2>1, <2>2
<1>3. SUFFICES ASSUME NEW w \in Clients PROVE OnTrack(walking[w])'
  BY <1>1, <1>2 DEF WalkingInv
<1>4. PICK walk \in Walking : walk = walking[w] /\ OnTrack(walk)
  BY DEF WalkingInv
<1>5. SUFFICES OnTrack(walk)'
  BY <1>1, <1>4 DEF OnTrack, Shows, Fixed, Steady, Undisturbed
<1>6. walk.reset \in Nat /\ walk.run \in Nat /\ reset \in Nat /\ run \in Nat
  BY DEF WalkingInv, Walking
<1>7. ASSUME NEW i \in Incidents, NEW action \in Actions, Act(i, action)
      PROVE  OnTrack(walk)'
  <2>1. UNCHANGED <<reset, run>> /\ case[i].there
    BY <1>7 DEF Act
  <2>2. PICK new : new.there /\ case' = [case EXCEPT ![i] = new]
    BY <1>7 DEF Act
  <2>3. \A j \in Incidents : case'[j].there = case[j].there
    BY <2>1, <2>2 DEF Row
  <2>4. QED BY <1>4, <2>1, <2>3, WalksStayOnTrack
<1>8. ASSUME NEW i \in Incidents, Run(i) PROVE OnTrack(walk)'
  <2>1. run' = run + 1 /\ reset' = reset
    BY <1>8 DEF Run
  <2>2. QED BY <1>4, <1>6, <2>1 DEF OnTrack, Steady
<1>9. ASSUME Reset PROVE OnTrack(walk)'
  <2>1. reset' = reset + 1 /\ run' = run
    BY <1>9 DEF Reset
  <2>2. QED BY <1>4, <1>6, <2>1 DEF OnTrack, Steady, Undisturbed
<1>10. QED BY <1>7, <1>8, <1>9 DEF Write

\* Who reads an incident walks through no list.
LEMMA ReadKeepsTrack ==
  ASSUME WalkingInv, NEW r \in Clients, Read(r)
  PROVE  WalkingInv'
<1>1. UNCHANGED <<case, reset, run>>
  BY DEF Read, Ask, ReadRow, ReadContributions, ReadActions, ReadEvents, Project
<1>2. walking' = [walking EXCEPT ![r] = walking[r]] \/ walking' = [walking EXCEPT ![r] = NoWalk]
  <2>1. walking = [walking EXCEPT ![r] = walking[r]]
    BY DEF WalkingInv
  <2>2. QED
    BY <2>1 DEF Read, Ask, ReadRow, ReadContributions, ReadActions, ReadEvents, Project
<1>3. /\ walking[r] \in Walking /\ OnTrack(walking[r])
      /\ NoWalk \in Walking /\ OnTrack(NoWalk)
  BY NoWalkIsOnTrack DEF WalkingInv
<1>4. QED BY <1>1, <1>2, <1>3, ClientKeepsTrack

LEMMA NextKeepsTrack == WalkingInv /\ ReadingInv /\ [Next]_vars => WalkingInv'
<1> SUFFICES ASSUME WalkingInv, ReadingInv, [Next]_vars PROVE WalkingInv'
  OBVIOUS
<1>1. CASE UNCHANGED vars
  <2>1. UNCHANGED <<case, walking, reset, run>>
    BY <1>1 DEF vars
  <2>2. \A walk \in Walking : OnTrack(walk) => OnTrack(walk)'
    BY <2>1, WalksStayOnTrack
  <2>3. ASSUME NEW w \in Clients PROVE OnTrack(walking[w])'
    <3>1. PICK walk \in Walking : walk = walking[w] /\ OnTrack(walk)
      BY DEF WalkingInv
    <3>2. QED BY <2>1, <2>2, <3>1 DEF OnTrack, Shows, Fixed, Steady, Undisturbed
  <2>4. QED BY <2>1, <2>3 DEF WalkingInv
<1>2. CASE Write
  BY <1>2, WriteKeepsTrack DEF ReadingInv, Typed
<1>3. ASSUME NEW r \in Clients, Read(r) PROVE WalkingInv'
  BY <1>3, ReadKeepsTrack
<1>4. ASSUME NEW w \in Clients, List(w) PROVE WalkingInv'
  BY <1>4, WalkKeepsTrack, CountKeepsTrack, RowsKeepsTrack DEF List
<1>5. QED BY <1>1, <1>2, <1>3, <1>4 DEF Next

\* In every reachable state a walk that nothing disturbed has shown the
\* beginning of the one order there is: the inductive invariant of the list.
THEOREM WalksStayOnTheList == Spec => []WalkingInv
<1>1. Init => WalkingInv
  <2> SUFFICES ASSUME Init PROVE WalkingInv
    OBVIOUS
  <2>1. reset = 0 /\ run = 0 /\ walking = [w \in Clients |-> NoWalk]
    BY DEF Init
  <2>2. NoWalk \in Walking /\ OnTrack(NoWalk)
    BY <2>1, NoWalkIsOnTrack
  <2>3. QED BY <2>1, <2>2 DEF WalkingInv
<1>2. QED BY <1>1, NextKeepsTrack, ReadingsAreSound, PTL DEF Spec

\* A walk through the pages shows every incident once, whatever analysts do in
\* the meantime, when it sorts and filters by what they cannot change, for
\* pages of any size.
THEOREM PagesShowEveryIncident == Spec => []PagesCoverTheList
<1>1. WalkingInv => PagesCoverTheList
  <2> SUFFICES ASSUME WalkingInv, NEW w \in Clients, NEW walk, walk = walking[w],
                      walk.at = "end", Steady(walk), Fixed(walk)
               PROVE  IsInjective(walk.shown) /\ ToSet(walk.shown) = Listed(walk)
    BY DEF PagesCoverTheList, Steady, Fixed
  <2>1. walk.shown \in Orders(walk)
    BY DEF WalkingInv, OnTrack
  <2>2. PICK order \in Orders(walk) : order = walk.shown
    BY <2>1
  <2>3. DOMAIN order = 1..Len(order)
    BY OrdersAreBijections
  <2>4. IsInjective(order)
    BY <2>3, OrdersAreBijections DEF IsInjective
  <2>5. ToSet(order) = Listed(walk)
    BY <2>3, OrdersAreBijections DEF ToSet
  <2>6. QED BY <2>2, <2>4, <2>5
<1>2. QED BY <1>1, WalksStayOnTheList, PTL
=============================================================================
