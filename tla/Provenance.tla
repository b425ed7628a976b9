------------------------------ MODULE Provenance ------------------------------
(***************************************************************************)
(* Where the points of an incident come from.  The engines give every      *)
(* contribution the event, transaction and baseline it rests on; the       *)
(* contributions are stored; and the detail of an incident later pairs     *)
(* each cross-domain interaction with its two components again, from what  *)
(* is stored and without guessing.                                         *)
(*                                                                         *)
(* A pure module.  An event is named by its type, as a session of a        *)
(* scenario has at most one of each; points, labels and times are left     *)
(* out, except for the points of interactions, which make up the bonus.    *)
(* The definition named Faulty... is a way the one after it could be wrong. *)
(***************************************************************************)
EXTENDS Naturals, Sequences, FiniteSetsExt

None == "none"

\* The event types in the order of their values.
CyberEventType ==
  <<"endpoint_alert", "impossible_travel", "login_failed", "login_success", "mfa_failed",
    "mfa_success", "new_device", "proxy_detected", "risky_ip", "session_token_anomaly",
    "unusual_location", "unusual_login_time">>

Contribution(category, code, event, transaction, baseline, points) ==
  [category |-> category, code |-> code, event |-> event, transaction |-> transaction,
   baseline |-> baseline, points |-> points]

\* A scored contribution of a stream; its points are not looked at here.
CyberContribution(category, code, event) ==
  Contribution(category, code, event, None, "baseline", 0)
TransactionContribution(category, code) ==
  Contribution(category, code, None, "transaction", "baseline", 0)

\* features.event_ids.get: the event of a type, if the session has one.
EventOf(features, type) == IF type \in features.events THEN type ELSE None

Representative(events) ==
  LET present == SelectSeq(CyberEventType, LAMBDA type : type \in events)
  IN  IF present = <<>> THEN None ELSE present[1]

\* The rules of CyberRiskEngine: the events that trigger a code.
CyberRules ==
  {<<"new_device", {"new_device"}>>, <<"failed_mfa", {"mfa_failed"}>>,
   <<"risky_network", {"risky_ip", "proxy_detected"}>>,
   <<"unusual_location", {"unusual_location"}>>,
   <<"impossible_travel", {"impossible_travel"}>>, <<"endpoint_alert", {"endpoint_alert"}>>,
   <<"unusual_login_time", {"unusual_login_time"}>>,
   <<"session_token_anomaly", {"session_token_anomaly"}>>}

\* A proxy counts only without a risky address.
Trigger(features, types) ==
  IF "risky_ip" \in types \intersect features.events THEN "risky_ip"
  ELSE CHOOSE type \in types : type \in features.events

CyberContributions(features) ==
  LET byEvent == {CyberContribution("cyber_rule", r[1], Trigger(features, r[2])) :
                    r \in {x \in CyberRules : x[2] \intersect features.events # {}}}
      byDevice == {CyberContribution("cyber_rule", code, EventOf(features, "new_device")) :
                     code \in features.device}
      anomaly == IF features.outlier
                   THEN {CyberContribution("cyber_anomaly", "cyber_behavioural_deviation",
                                           Representative(features.events))}
                   ELSE {}
  IN  (IF byEvent \union byDevice = {}
         THEN {CyberContribution("cyber_rule", "cyber_baseline_exposure", None)}
         ELSE byEvent \union byDevice)
      \union anomaly

TransactionContributions(features) ==
  (IF features.transfer = {}
     THEN {TransactionContribution("transaction_rule", "transaction_baseline_exposure")}
     ELSE {TransactionContribution("transaction_rule", code) : code \in features.transfer})
  \union
  (IF features.transferOutlier
     THEN {TransactionContribution("transaction_anomaly",
                                   "transaction_behavioural_deviation")}
     ELSE {})

\* The cyber and the transaction contribution that make an interaction.
INTERACTION_COMPONENT_CODES ==
  [new_device_new_beneficiary    |-> <<"new_device", "new_beneficiary">>,
   failed_mfa_high_amount        |-> <<"failed_mfa", "high_amount">>,
   endpoint_velocity_spike       |-> <<"endpoint_alert", "velocity_spike">>,
   risky_network_new_beneficiary |-> <<"risky_network", "new_beneficiary">>,
   impossible_travel_high_amount |-> <<"impossible_travel", "high_amount">>]

\* The interactions in the order they are tried, and their points.
Attempts ==
  <<<<"new_device_new_beneficiary", 6>>, <<"failed_mfa_high_amount", 6>>,
    <<"endpoint_velocity_spike", 6>>, <<"risky_network_new_beneficiary", 4>>,
    <<"impossible_travel_high_amount", 6>>>>

Codes(contributions) == {c.code : c \in contributions}

WithCode(contributions, code) == CHOOSE c \in contributions : c.code = code

\* The points of the interactions, summed.
BonusOf(contributions) ==
  MapThenSumSet(LAMBDA c : c.points, {c \in contributions : c.category = "correlation"})

\* evaluate_interactions: both components are there, the weaker use of a new
\* beneficiary gives way to the stronger, and the bonus stays within its cap.
Interactions(cyber, transaction) ==
  LET eligible(code) ==
        /\ INTERACTION_COMPONENT_CODES[code][1] \in Codes(cyber)
        /\ INTERACTION_COMPONENT_CODES[code][2] \in Codes(transaction)
        /\ code = "risky_network_new_beneficiary"
             => ~ ("new_device" \in Codes(cyber) /\ "new_beneficiary" \in Codes(transaction))
      interaction(code, points) ==
        LET components == INTERACTION_COMPONENT_CODES[code]
        IN  Contribution("correlation", code, WithCode(cyber, components[1]).event,
                         "transaction", WithCode(transaction, components[2]).baseline, points)
      accepted[n \in 0..Len(Attempts)] ==
        IF n = 0 THEN {}
        ELSE LET before == accepted[n - 1]
                 code == Attempts[n][1]
             IN  IF eligible(code) /\ BonusOf(before) + Attempts[n][2] <= 18
                   THEN before \union {interaction(code, Attempts[n][2])} ELSE before
  IN  accepted[Len(Attempts)]

\* What a scenario run stores of its features.
ScenarioContributions(features) ==
  LET cyber == CyberContributions(features)
      transaction == TransactionContributions(features)
  IN  cyber \union transaction \union Interactions(cyber, transaction)

\* What the seeding stores of a background incident with a bonus or without.
BackgroundContributions(bonus) ==
  {Contribution("cyber_rule", "background_cyber", "login_success", None, "baseline", 0),
   Contribution("transaction_rule", "background_transaction", None, "transaction",
                "baseline", 0)}
  \union
  (IF bonus = 0 THEN {}
   ELSE {Contribution("correlation", "background_correlation", "login_success",
                      "transaction", "baseline", bonus)})

-----------------------------------------------------------------------------
(* The projection. *)

CYBER_CATEGORIES == {"cyber_rule", "cyber_anomaly"}
TRANSACTION_CATEGORIES == {"transaction_rule", "transaction_anomaly"}

\* The categories are not looked at.
FaultyUniqueSourceMatches(contributions, categories, interaction) ==
  {c \in contributions :
     \/ "cyber_rule" \in categories /\ c.event = interaction.event
     \/ "transaction_rule" \in categories /\ c.transaction = interaction.transaction}

\* The contributions of a stream with the source of the interaction; there
\* must be exactly one.
UniqueSourceMatches(contributions, categories, interaction) ==
  {c \in contributions :
     /\ c.category \in categories
     /\ \/ "cyber_rule" \in categories /\ c.event = interaction.event
        \/ "transaction_rule" \in categories /\ c.transaction = interaction.transaction}

\* The contributions that may be a component: by code for the interactions of
\* the catalogue, by source for the historical ones.
Candidates(contributions, interaction, side) ==
  IF interaction.code \in DOMAIN INTERACTION_COMPONENT_CODES
    THEN {c \in contributions : c.code = INTERACTION_COMPONENT_CODES[interaction.code][side]}
  ELSE IF side = 1
    THEN UniqueSourceMatches(contributions, CYBER_CATEGORIES, interaction)
  ELSE UniqueSourceMatches(contributions, TRANSACTION_CATEGORIES, interaction)

ValidatePair(interaction, cyber, transaction) ==
  /\ cyber.category \in CYBER_CATEGORIES
  /\ transaction.category \in TRANSACTION_CATEGORIES
  /\ interaction.event # None /\ cyber.event = interaction.event
  /\ interaction.transaction # None /\ transaction.transaction = interaction.transaction
  /\ interaction.baseline # None => transaction.baseline = interaction.baseline

\* Every interaction with its two components.
Pairs(contributions) ==
  {p \in {c \in contributions : c.category = "correlation"} \X contributions \X contributions :
     /\ Candidates(contributions, p[1], 1) = {p[2]}
     /\ Candidates(contributions, p[1], 2) = {p[3]}
     /\ ValidatePair(p[1], p[2], p[3])}

\* No IncidentProvenanceError: each interaction has its pair.
Projectable(contributions) ==
  \A c \in contributions : c.category = "correlation" =>
    \E p \in Pairs(contributions) : p[1] = c

-----------------------------------------------------------------------------
(* The fixtures. *)

NORMAL_ACTIVITY ==
  [events |-> {"login_success", "mfa_success"}, device |-> {}, outlier |-> FALSE,
   transfer |-> {}, transferOutlier |-> FALSE]

LEGITIMATE_NEW_DEVICE ==
  [events |-> {"new_device", "unusual_login_time", "mfa_success"},
   device |-> {"first_seen_fingerprint", "untrusted_device_posture"}, outlier |-> TRUE,
   transfer |-> {}, transferOutlier |-> FALSE]

ACCOUNT_TAKEOVER ==
  [events |-> {"new_device", "mfa_failed", "risky_ip", "unusual_location",
               "endpoint_alert", "unusual_login_time"},
   device |-> {}, outlier |-> TRUE,
   transfer |-> {"new_beneficiary", "high_amount", "velocity_spike", "destination_risk",
                 "historical_deviation"},
   transferOutlier |-> TRUE]
=============================================================================
