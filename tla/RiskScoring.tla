---------------------------- MODULE RiskScoring ----------------------------
(***************************************************************************)
(* The risk engine: the points of the two rule engines, the anomaly points *)
(* of each stream, the cross-domain interactions, the fused score and the  *)
(* decision it leads to.                                                   *)
(*                                                                         *)
(* The engine is a pure function.  To relate its value on neighbouring     *)
(* inputs the module walks over them: it starts from an ordinary session   *)
(* and transfer and makes one feature riskier in each step.  Hours, days,  *)
(* ratios and deviations are in hundredths, and so are raw fused scores.   *)
(***************************************************************************)
EXTENDS Integers

CONSTANT
  Grids   \* the grids of features that are walked over

VARIABLES
  grid,        \* the features that this walk considers
  session,     \* the signals in the session, and the hours outside the window
  transfer,    \* the features of the transaction
  anomaly      \* of each stream: the points of the anomaly model

vars == <<grid, session, transfer, anomaly>>

AllCyberSignals ==
  {"new_device", "first_seen_fingerprint", "untrusted_device_posture", "failed_mfa",
   "risky_network", "unusual_location", "impossible_travel", "endpoint_alert",
   "unusual_login_time", "session_token_anomaly"}

RiskLevel == {"low", "medium", "high"}

\* What a grid offers: signals of a session, hours a login may be outside the
\* usual window, ages of a beneficiary in days, ratios and deviations of an amount,
\* whether the channel is known, how many deviations a stream may describe.
ASSUME GridsAreTyped ==
  \A g \in Grids :
    /\ g.signals \subseteq AllCyberSignals /\ g.channels \subseteq BOOLEAN
    /\ g.hours \subseteq Nat /\ g.ages \subseteq Nat /\ g.amount_ratios \subseteq Nat
    /\ g.velocity_ratios \subseteq Nat /\ g.deviations \subseteq Nat
    /\ g.deviation_counts \subseteq Nat

-----------------------------------------------------------------------------
Least(a, b) == IF a <= b THEN a ELSE b
Clamp(low, high, n) == IF n < low THEN low ELSE IF n > high THEN high ELSE n

Points(triggered, n) == IF triggered THEN n ELSE 0

\* Two graduated thresholds: the upper one is tried first.
Graduated(value, upper, most, lower, less) ==
  IF value >= upper THEN most ELSE IF value >= lower THEN less ELSE 0

LoginTimePoints(hours) == IF hours <= 200 THEN 4 ELSE 6

\* The contributions of CyberRiskEngine, summed.
CyberSignalPoints(s) ==
  Points("new_device" \in s.signals, 12)
  + Points("first_seen_fingerprint" \in s.signals, 8)
  + Points("untrusted_device_posture" \in s.signals, 6)
  + Points("failed_mfa" \in s.signals, 14)
  + Points("risky_network" \in s.signals, 10)
  + Points("unusual_location" \in s.signals, 8)
  + Points("impossible_travel" \in s.signals, 16)
  + Points("endpoint_alert" \in s.signals, 18)
  + Points("unusual_login_time" \in s.signals, LoginTimePoints(s.hours))
  + Points("session_token_anomaly" \in s.signals, 16)

NewBeneficiary(f) == ~ f.beneficiary_known /\ f.beneficiary_age <= 100

FaultyBeneficiaryPoints(f) ==
  IF ~ f.beneficiary_known
    THEN Points(f.beneficiary_age <= 100, 15) ELSE Points(f.beneficiary_age < 700, 8)

BeneficiaryPoints(f) ==
  IF NewBeneficiary(f) THEN 15 ELSE Points(f.beneficiary_age < 700, 8)

AmountPoints(f)   == Graduated(f.amount_ratio, 500, 18, 300, 10)
VelocityPoints(f) == Graduated(f.velocity_ratio, 300, 14, 200, 8)
DestinationPoints(f) ==
  Points(f.destination_risk = "high", 10) + Points(f.destination_risk = "medium", 5)
ChannelPoints(f)   == Points(~ f.channel_known, 8)
DeviationPoints(f) == Graduated(f.deviation, 500, 12, 300, 7)

\* The contributions of TransactionRiskEngine, summed.
TransferSignalPoints(f) ==
  BeneficiaryPoints(f) + AmountPoints(f) + VelocityPoints(f)
  + DestinationPoints(f) + ChannelPoints(f) + DeviationPoints(f)

\* A stream without a signal has the ten points of ordinary exposure.
RulePoints(signalPoints) ==
  IF signalPoints = 0 THEN 10 ELSE Least(100, signalPoints)

FaultyAnomalyPoints(isOutlier, described) == IF isOutlier THEN 20 * described ELSE 0

\* The model is a gate; two points for each distinct deviation described.
AnomalyPoints(isOutlier, described) ==
  IF isOutlier THEN Least(10, 2 * described) ELSE 0

StreamScore(rulePoints, anomalyPoints) == Least(100, rulePoints + anomalyPoints)

-----------------------------------------------------------------------------
(* The interactions, in the order they are tried. *)

Accept(total, eligible, points) ==
  IF eligible /\ total + points <= 18 THEN total + points ELSE total

NewDeviceNewBeneficiary(s, f) == "new_device" \in s.signals /\ NewBeneficiary(f)
FailedMfaHighAmount(s, f) == "failed_mfa" \in s.signals /\ f.amount_ratio >= 500
EndpointVelocitySpike(s, f) == "endpoint_alert" \in s.signals /\ f.velocity_ratio >= 200
RiskyNetworkNewBeneficiary(s, f) ==
  /\ "risky_network" \in s.signals
  /\ NewBeneficiary(f)
  /\ ~ NewDeviceNewBeneficiary(s, f)
ImpossibleTravelHighAmount(s, f) ==
  "impossible_travel" \in s.signals /\ f.amount_ratio >= 500

\* evaluate_interactions: an interaction that would pass the cap is dropped.
Bonus(s, f) ==
  LET a == Accept(0, NewDeviceNewBeneficiary(s, f), 6)
      b == Accept(a, FailedMfaHighAmount(s, f), 6)
      c == Accept(b, EndpointVelocitySpike(s, f), 6)
      d == Accept(c, RiskyNetworkNewBeneficiary(s, f), 4)
  IN Accept(d, ImpossibleTravelHighAmount(s, f), 6)

-----------------------------------------------------------------------------
(* Fusion and decision. *)

FaultyRawFused(cyber, transaction, bonus) ==
  60 * Clamp(0, 100, cyber) + 30 * Clamp(0, 100, transaction) + 100 * Clamp(0, 18, bonus)

\* The weighted sum of the clamped inputs, in hundredths.
RawFused(cyber, transaction, bonus) ==
  45 * Clamp(0, 100, cyber) + 45 * Clamp(0, 100, transaction) + 100 * Clamp(0, 18, bonus)

FaultyFused(cyber, transaction, bonus) ==
  Clamp(0, 100, (RawFused(cyber, transaction, bonus) + 99) \div 100)

\* Clamped, then rounded half up, once.
Fused(cyber, transaction, bonus) ==
  (Clamp(0, 10000, RawFused(cyber, transaction, bonus)) + 50) \div 100

Severity(score) ==
  IF score <= 19 THEN "low" ELSE IF score <= 39 THEN "guarded"
  ELSE IF score <= 59 THEN "elevated" ELSE IF score <= 79 THEN "high" ELSE "critical"

Decision(score) ==
  [low      |-> "permitted",
   guarded  |-> "permitted",
   elevated |-> "pending",
   high     |-> "held",
   critical |-> "held"][Severity(score)]

CyberRulePoints == RulePoints(CyberSignalPoints(session))
TransferRulePoints == RulePoints(TransferSignalPoints(transfer))
CyberScore == StreamScore(CyberRulePoints, anomaly.cyber)
TransferScore == StreamScore(TransferRulePoints, anomaly.transfer)
FusedScore == Fused(CyberScore, TransferScore, Bonus(session, transfer))

-----------------------------------------------------------------------------
(* The walk. *)

Init ==
  /\ grid \in Grids
  /\ session = [signals |-> {}, hours |-> 0]
  /\ transfer = [beneficiary_known |-> TRUE, beneficiary_age |-> 36500,
                 amount_ratio |-> 100, velocity_ratio |-> 100,
                 destination_risk |-> "low", channel_known |-> TRUE, deviation |-> 0]
  /\ anomaly = [cyber |-> 0, transfer |-> 0]

\* One more signal in the session, or a login further out of the window.
RiskierSession ==
  /\ \/ \E s \in grid.signals \ session.signals :
          session' = [session EXCEPT !.signals = @ \union {s}]
     \/ \E h \in grid.hours :
          h > session.hours /\ session' = [session EXCEPT !.hours = h]
  /\ UNCHANGED <<grid, transfer, anomaly>>

\* One feature of the transaction becomes riskier.
RiskierTransfer ==
  /\ \/ transfer' = [transfer EXCEPT !.beneficiary_known = FALSE]
     \/ \E a \in grid.ages :
          a < transfer.beneficiary_age /\ transfer' = [transfer EXCEPT !.beneficiary_age = a]
     \/ \E r \in grid.amount_ratios :
          r > transfer.amount_ratio /\ transfer' = [transfer EXCEPT !.amount_ratio = r]
     \/ \E r \in grid.velocity_ratios :
          r > transfer.velocity_ratio /\ transfer' = [transfer EXCEPT !.velocity_ratio = r]
     \/ \E level \in RiskLevel :
          /\ <<transfer.destination_risk, level>> \in
               {<<"low", "medium">>, <<"low", "high">>, <<"medium", "high">>}
          /\ transfer' = [transfer EXCEPT !.destination_risk = level]
     \/ \E known \in grid.channels :
          ~ known /\ transfer' = [transfer EXCEPT !.channel_known = known]
     \/ \E d \in grid.deviations :
          d > transfer.deviation /\ transfer' = [transfer EXCEPT !.deviation = d]
  /\ UNCHANGED <<grid, session, anomaly>>

\* The model sees an outlier with more deviations described.
RiskierAnomaly ==
  /\ \E n \in grid.deviation_counts :
       \/ /\ AnomalyPoints(TRUE, n) > anomaly.cyber
          /\ anomaly' = [anomaly EXCEPT !.cyber = AnomalyPoints(TRUE, n)]
       \/ /\ AnomalyPoints(TRUE, n) > anomaly.transfer
          /\ anomaly' = [anomaly EXCEPT !.transfer = AnomalyPoints(TRUE, n)]
  /\ UNCHANGED <<grid, session, transfer>>

Next == RiskierSession \/ RiskierTransfer \/ RiskierAnomaly

Spec == Init /\ [][Next]_vars

-----------------------------------------------------------------------------
(* Properties. *)

Transfers ==
  [beneficiary_known : BOOLEAN, beneficiary_age : Nat, amount_ratio : Nat,
   velocity_ratio : Nat, destination_risk : RiskLevel, channel_known : BOOLEAN,
   deviation : Nat]

\* The inputs are typed, and the anomaly points of a stream are at most ten.
TypeOK ==
  /\ grid \in Grids
  /\ session \in [signals : SUBSET AllCyberSignals, hours : Nat]
  /\ transfer \in Transfers
  /\ anomaly \in [cyber : 0..10, transfer : 0..10]

QuietSession == CyberSignalPoints(session) = 0
QuietTransfer == TransferSignalPoints(transfer) = 0

\* A transfer is held only on evidence in both domains.  However much one
\* stream scores, and whatever the anomaly model adds to both, a session or a
\* transfer without a single rule signal keeps the fused score below the hold.
HoldNeedsBothDomains ==
  Decision(FusedScore) = "held" => ~ QuietSession /\ ~ QuietTransfer

\* The anomaly model never holds a transfer independently: where it tips the
\* decision, the rules alone already asked for a step-up verification.
AnomalyNeverHoldsAlone ==
  Decision(FusedScore) = "held" =>
    Decision(Fused(CyberRulePoints, TransferRulePoints, Bonus(session, transfer)))
      # "permitted"

\* A score is its raw score rounded to the nearest, half up, within 0..100.
IsRounded(score, raw) ==
  /\ score \in 0..100
  /\ raw <= 10000 => -50 < 100 * score - raw /\ 100 * score - raw <= 50
  /\ raw > 10000 => score = 100

\* A severity, and with it a decision, begins half a point below its first score.
IsGraded(score, raw) ==
  /\ Severity(score) = "low" <=> raw < 1950
  /\ Decision(score) = "permitted" <=> raw < 3950
  /\ Decision(score) = "held" <=> raw >= 5950
  /\ Severity(score) = "critical" <=> raw >= 7950

\* The score and its decision are those the unrounded score calls for: it is rounded
\* once, by half a point at most and never out of 0..100, so that 39.5 asks for a
\* step-up verification and 59.5 holds the transfer, and nothing below does.
RoundedOnce ==
  LET raw == RawFused(CyberScore, TransferScore, Bonus(session, transfer)) IN
  IsRounded(FusedScore, raw) /\ IsGraded(FusedScore, raw)

\* More evidence never lowers the score of a stream that had some: neither a
\* threshold that is passed nor the replacement of one contribution by another
\* costs points.  The first signal may, as it replaces the ten points of
\* ordinary exposure.
EvidenceStep ==
  /\ ~ QuietSession => CyberScore' >= CyberScore
  /\ ~ QuietTransfer => TransferScore' >= TransferScore
EvidenceNeverLowersScore == [][EvidenceStep]_vars

\* What the documents say of the bonus: the points of the eligible interactions,
\* clamped to 18.  evaluate_interactions drops what does not fit instead.
BonusIsCappedSum ==
  Bonus(session, transfer) =
    Least(18, Points(NewDeviceNewBeneficiary(session, transfer), 6)
              + Points(FailedMfaHighAmount(session, transfer), 6)
              + Points(EndpointVelocitySpike(session, transfer), 6)
              + Points(RiskyNetworkNewBeneficiary(session, transfer), 4)
              + Points(ImpossibleTravelHighAmount(session, transfer), 6))
=============================================================================
