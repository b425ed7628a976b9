------------------------- MODULE RiskScoringProofs -------------------------
(***************************************************************************)
(* Proofs about RiskScoring, for every session, every transfer and every   *)
(* anomaly points the engine can produce: bounds of the scores, and that   *)
(* no feature lowers a stream when it becomes riskier.                     *)
(***************************************************************************)
EXTENDS RiskScoring, TLAPS

-----------------------------------------------------------------------------
(* Arithmetic of the engine. *)

\* The points of a session are a natural number; without a point there is
\* none of the signals that take part in an interaction.
LEMMA SessionPoints ==
  ASSUME NEW s \in [signals : SUBSET AllCyberSignals, hours : Nat]
  PROVE  /\ CyberSignalPoints(s) \in Nat
         /\ CyberSignalPoints(s) = 0 =>
              \A x \in {"new_device", "failed_mfa", "endpoint_alert", "risky_network",
                        "impossible_travel"} : x \notin s.signals
<1> DEFINE P(x, n) == Points(x \in s.signals, n)
<1>1. LoginTimePoints(s.hours) \in Nat
  BY DEF LoginTimePoints
<1>2. \A x, n : n \in Nat => P(x, n) \in Nat /\ (x \in s.signals => P(x, n) = n)
  BY DEF Points
<1>3. CyberSignalPoints(s) =
        P("new_device", 12) + P("first_seen_fingerprint", 8)
        + P("untrusted_device_posture", 6) + P("failed_mfa", 14) + P("risky_network", 10)
        + P("unusual_location", 8) + P("impossible_travel", 16) + P("endpoint_alert", 18)
        + P("unusual_login_time", LoginTimePoints(s.hours))
        + P("session_token_anomaly", 16)
  BY DEF CyberSignalPoints
<1> HIDE DEF P
<1>4. /\ P("new_device", 12) \in Nat /\ P("first_seen_fingerprint", 8) \in Nat
      /\ P("untrusted_device_posture", 6) \in Nat /\ P("failed_mfa", 14) \in Nat
      /\ P("risky_network", 10) \in Nat /\ P("unusual_location", 8) \in Nat
      /\ P("impossible_travel", 16) \in Nat /\ P("endpoint_alert", 18) \in Nat
      /\ P("unusual_login_time", LoginTimePoints(s.hours)) \in Nat
      /\ P("session_token_anomaly", 16) \in Nat
  BY <1>1, <1>2
<1>5. ASSUME CyberSignalPoints(s) = 0,
             NEW x \in {"new_device", "failed_mfa", "endpoint_alert", "risky_network",
                        "impossible_travel"}
      PROVE  x \notin s.signals
  <2>1. /\ P("new_device", 12) = 0 /\ P("failed_mfa", 14) = 0
        /\ P("risky_network", 10) = 0 /\ P("impossible_travel", 16) = 0
        /\ P("endpoint_alert", 18) = 0
    <3> DEFINE p1 == P("new_device", 12)  p2 == P("first_seen_fingerprint", 8)
               p3 == P("untrusted_device_posture", 6)  p4 == P("failed_mfa", 14)
               p5 == P("risky_network", 10)  p6 == P("unusual_location", 8)
               p7 == P("impossible_travel", 16)  p8 == P("endpoint_alert", 18)
               p9 == P("unusual_login_time", LoginTimePoints(s.hours))
               p10 == P("session_token_anomaly", 16)
    <3>1. p1 + p2 + p3 + p4 + p5 + p6 + p7 + p8 + p9 + p10 = 0
      BY <1>3, <1>5
    <3>2. /\ p1 \in Nat /\ p2 \in Nat /\ p3 \in Nat /\ p4 \in Nat /\ p5 \in Nat
          /\ p6 \in Nat /\ p7 \in Nat /\ p8 \in Nat /\ p9 \in Nat /\ p10 \in Nat
      BY <1>4
    <3> HIDE DEF p1, p2, p3, p4, p5, p6, p7, p8, p9, p10
    <3>3. p1 = 0 /\ p4 = 0 /\ p5 = 0 /\ p7 = 0 /\ p8 = 0
      BY <3>1, <3>2
    <3>4. QED BY <3>3 DEF p1, p4, p5, p7, p8
  <2>2. QED BY <1>2, <1>5, <2>1
<1>6. CyberSignalPoints(s) \in Nat
  BY <1>3, <1>4
<1>7. QED BY <1>5, <1>6

\* The points of a transfer are a natural number of at most 77; without a
\* point it has none of the features that take part in an interaction.
LEMMA TransferPoints ==
  ASSUME NEW f \in Transfers
  PROVE  /\ TransferSignalPoints(f) \in 0..77
         /\ TransferSignalPoints(f) = 0 =>
              ~ NewBeneficiary(f) /\ f.amount_ratio < 500 /\ f.velocity_ratio < 200
<1> USE DEF Transfers
<1>1. BeneficiaryPoints(f) \in 0..15 /\ (BeneficiaryPoints(f) = 0 => ~ NewBeneficiary(f))
  BY DEF BeneficiaryPoints, Points
<1>2. AmountPoints(f) \in 0..18 /\ (AmountPoints(f) = 0 => f.amount_ratio < 500)
  BY DEF AmountPoints, Graduated
<1>3. VelocityPoints(f) \in 0..14 /\ (VelocityPoints(f) = 0 => f.velocity_ratio < 200)
  BY DEF VelocityPoints, Graduated
<1>4. DestinationPoints(f) \in 0..10
  BY DEF DestinationPoints, Points
<1>5. ChannelPoints(f) \in 0..8
  BY DEF ChannelPoints, Points
<1>6. DeviationPoints(f) \in 0..12
  BY DEF DeviationPoints, Graduated
<1>7. QED BY <1>1, <1>2, <1>3, <1>4, <1>5, <1>6 DEF TransferSignalPoints

\* A stream has between 1 and 100 rule points, ten when it is quiet.
LEMMA RulePointsInRange ==
  ASSUME NEW n \in Nat
  PROVE  RulePoints(n) \in 1..100 /\ (n = 0 => RulePoints(n) = 10)
BY DEF RulePoints, Least

\* The anomaly points are at most ten.
LEMMA AnomalyAtMostTen ==
  ASSUME NEW n \in Nat
  PROVE  AnomalyPoints(TRUE, n) \in 0..10
BY DEF AnomalyPoints, Least

\* The anomaly adds at most ten points to a stream, and takes none away.
LEMMA StreamScoreInRange ==
  ASSUME NEW r \in 1..100, NEW a \in 0..10
  PROVE  /\ StreamScore(r, a) \in 1..100
         /\ r <= StreamScore(r, a)
         /\ StreamScore(r, a) <= r + 10
BY DEF StreamScore, Least

\* The bonus is at most 18, and nothing if one side is quiet.
LEMMA BonusInRange ==
  ASSUME NEW s \in [signals : SUBSET AllCyberSignals, hours : Nat], NEW f \in Transfers
  PROVE  /\ Bonus(s, f) \in 0..18
         /\ CyberSignalPoints(s) = 0 \/ TransferSignalPoints(f) = 0 => Bonus(s, f) = 0
<1> DEFINE e1 == NewDeviceNewBeneficiary(s, f)
           e2 == FailedMfaHighAmount(s, f)
           e3 == EndpointVelocitySpike(s, f)
           e4 == RiskyNetworkNewBeneficiary(s, f)
           e5 == ImpossibleTravelHighAmount(s, f)
<1>1. \A total \in 0..18, e \in BOOLEAN, n \in {4, 6} : Accept(total, e, n) \in 0..18
  BY DEF Accept
<1>2. e1 \in BOOLEAN /\ e2 \in BOOLEAN /\ e3 \in BOOLEAN /\ e4 \in BOOLEAN /\ e5 \in BOOLEAN
  BY DEF NewDeviceNewBeneficiary, FailedMfaHighAmount, EndpointVelocitySpike,
         RiskyNetworkNewBeneficiary, ImpossibleTravelHighAmount
<1>3. Bonus(s, f) \in 0..18
  <2> DEFINE a == Accept(0, e1, 6)
             b == Accept(a, e2, 6)
             c == Accept(b, e3, 6)
             d == Accept(c, e4, 4)
  <2>1. Bonus(s, f) = Accept(d, e5, 6)
    BY DEF Bonus
  <2> HIDE DEF e1, e2, e3, e4, e5
  <2>2. a \in 0..18
    BY <1>1, <1>2
  <2> HIDE DEF a
  <2>3. b \in 0..18
    BY <1>1, <1>2, <2>2
  <2> HIDE DEF b
  <2>4. c \in 0..18
    BY <1>1, <1>2, <2>3
  <2> HIDE DEF c
  <2>5. d \in 0..18
    BY <1>1, <1>2, <2>4
  <2> HIDE DEF d
  <2>6. QED BY <1>1, <1>2, <2>1, <2>5
<1>4. ASSUME CyberSignalPoints(s) = 0 \/ TransferSignalPoints(f) = 0
      PROVE  Bonus(s, f) = 0
  <2>1. ~ e1 /\ ~ e2 /\ ~ e3 /\ ~ e4 /\ ~ e5
    <3>1. CASE CyberSignalPoints(s) = 0
      BY <3>1, SessionPoints DEF NewDeviceNewBeneficiary, FailedMfaHighAmount,
         EndpointVelocitySpike, RiskyNetworkNewBeneficiary, ImpossibleTravelHighAmount
    <3>2. CASE TransferSignalPoints(f) = 0
      <4>1. ~ NewBeneficiary(f) /\ f.amount_ratio < 500 /\ f.velocity_ratio < 200
        BY <3>2, TransferPoints
      <4>2. f.amount_ratio \in Nat /\ f.velocity_ratio \in Nat
        BY DEF Transfers
      <4>3. QED BY <4>1, <4>2 DEF NewDeviceNewBeneficiary, FailedMfaHighAmount,
         EndpointVelocitySpike, RiskyNetworkNewBeneficiary, ImpossibleTravelHighAmount
    <3>3. QED BY <1>4, <3>1, <3>2
  <2>2. QED BY <2>1 DEF Bonus, Accept
<1>5. QED BY <1>3, <1>4

\* The fused score is the raw score rounded to the nearest, half up, and 100
\* where the raw score is more.
LEMMA FusedIsNearest ==
  ASSUME NEW c \in 1..100, NEW t \in 1..100, NEW b \in 0..18
  PROVE  IsRounded(Fused(c, t, b), RawFused(c, t, b))
<1>1. PICK raw \in Nat : raw = 45 * c + 45 * t + 100 * b
  OBVIOUS
<1>2. RawFused(c, t, b) = raw
  BY <1>1 DEF RawFused, Clamp
<1>3. CASE raw <= 10000
  <2>1. Fused(c, t, b) = (raw + 50) \div 100
    BY <1>2, <1>3 DEF Fused, Clamp
  <2>2. (raw + 50) \div 100 \in 0..100
    BY <1>3
  <2>3. -50 < 100 * ((raw + 50) \div 100) - raw /\ 100 * ((raw + 50) \div 100) - raw <= 50
    BY <1>3
  <2>4. QED BY <1>2, <1>3, <2>1, <2>2, <2>3 DEF IsRounded
<1>4. CASE raw > 10000
  <2>1. Fused(c, t, b) = (10000 + 50) \div 100
    BY <1>2, <1>4 DEF Fused, Clamp
  <2>2. QED BY <1>2, <1>4, <2>1 DEF IsRounded
<1>5. QED BY <1>3, <1>4

LEMMA FusedIsGraded ==
  ASSUME NEW c \in 1..100, NEW t \in 1..100, NEW b \in 0..18
  PROVE  IsGraded(Fused(c, t, b), RawFused(c, t, b))
<1> DEFINE score == Fused(c, t, b)
<1>1. PICK raw \in Nat : RawFused(c, t, b) = raw
  BY DEF RawFused, Clamp
<1>2. score \in 0..100 /\ (raw <= 10000 => -50 < 100 * score - raw /\ 100 * score - raw <= 50)
      /\ (raw > 10000 => score = 100)
  <2>1. IsRounded(score, raw)
    BY <1>1, FusedIsNearest
  <2> HIDE DEF score
  <2>2. QED BY <2>1 DEF IsRounded
<1> HIDE DEF score
<1>3. /\ score <= 19 <=> raw < 1950
      /\ score <= 39 <=> raw < 3950
      /\ score > 59 <=> raw >= 5950
      /\ score > 79 <=> raw >= 7950
  BY <1>2
<1>4. /\ Severity(score) = "low" <=> score <= 19
      /\ Decision(score) = "permitted" <=> score <= 39
      /\ Decision(score) = "held" <=> score > 59
      /\ Severity(score) = "critical" <=> score > 79
  BY <1>2 DEF Severity, Decision
<1>5. IsGraded(score, raw)
  BY <1>3, <1>4 DEF IsGraded
<1>6. QED BY <1>1, <1>5 DEF score

\* The fused score is in range.
LEMMA FusedInRange ==
  ASSUME NEW c \in 1..100, NEW t \in 1..100, NEW b \in 0..18
  PROVE  Fused(c, t, b) \in 0..100
<1>1. IsRounded(Fused(c, t, b), RawFused(c, t, b))
  BY FusedIsNearest, Zenon
<1>2. QED BY <1>1 DEF IsRounded

\* Without a bonus, two scores of 120 in sum do not hold a transfer.
LEMMA QuietNeverHolds ==
  ASSUME NEW c \in 1..100, NEW t \in 1..100, c + t <= 120
  PROVE  Decision(Fused(c, t, 0)) # "held"
<1>1. PICK raw \in 0..5400 : raw = 45 * c + 45 * t
  OBVIOUS
<1>2. Fused(c, t, 0) = (raw + 50) \div 100
  BY <1>1 DEF Fused, RawFused, Clamp
<1>3. (raw + 50) \div 100 \in 0..59
  OBVIOUS
<1>4. QED BY <1>2, <1>3 DEF Decision, Severity

\* Ten points less in either stream do not take a held transfer to permitted.
LEMMA TenPointsLess ==
  ASSUME NEW c \in 1..100, NEW t \in 1..100, NEW b \in 0..18,
         NEW d \in 1..100, NEW u \in 1..100,
         c <= d + 10, t <= u + 10,
         Decision(Fused(c, t, b)) = "held"
  PROVE  Decision(Fused(d, u, b)) # "permitted"
<1>1. /\ Fused(c, t, b) \in 0..100
      /\ Fused(d, u, b) \in 0..100
  BY FusedInRange, Zenon
<1>2. Fused(c, t, b) >= 60
  BY <1>1 DEF Decision, Severity
<1>3. PICK raw \in Nat : raw = 45 * c + 45 * t + 100 * b
  OBVIOUS
<1>4. PICK less \in Nat : less = 45 * d + 45 * u + 100 * b
  OBVIOUS
<1>5. raw <= less + 900
  BY <1>3, <1>4
<1>6. Fused(c, t, b) = (Clamp(0, 10000, raw) + 50) \div 100
  BY <1>3 DEF Fused, RawFused, Clamp
<1>7. Fused(d, u, b) = (Clamp(0, 10000, less) + 50) \div 100
  BY <1>4 DEF Fused, RawFused, Clamp
<1>8. Clamp(0, 10000, raw) >= 5950
  BY <1>2, <1>6 DEF Clamp
<1>9. Clamp(0, 10000, less) >= 5050 /\ Clamp(0, 10000, less) \in Nat
  BY <1>5, <1>8 DEF Clamp
<1>10. Fused(d, u, b) >= 50
  BY <1>7, <1>9
<1>11. QED BY <1>1, <1>10 DEF Decision, Severity

-----------------------------------------------------------------------------
\* The inputs of the engine stay typed and its anomaly points at most ten, for
\* any grid of features.
THEOREM TypeCorrect == Spec => []TypeOK
<1>1. Init => TypeOK
  BY DEF Init, TypeOK, Transfers, RiskLevel
<1>2. TypeOK /\ [Next]_vars => TypeOK'
  <2> SUFFICES ASSUME TypeOK, [Next]_vars PROVE TypeOK'
    OBVIOUS
  <2> USE DEF TypeOK
  <2>1. CASE RiskierSession
    BY <2>1, GridsAreTyped DEF RiskierSession
  <2>2. CASE RiskierTransfer
    <3>1. transfer' \in Transfers
      <4> USE GridsAreTyped DEF Transfers, RiskLevel
      <4>1. CASE transfer' = [transfer EXCEPT !.beneficiary_known = FALSE]
        BY <4>1
      <4>2. ASSUME NEW a \in grid.ages, transfer' = [transfer EXCEPT !.beneficiary_age = a]
            PROVE  transfer' \in Transfers
        BY <4>2
      <4>3. ASSUME NEW n \in grid.amount_ratios, transfer' = [transfer EXCEPT !.amount_ratio = n]
            PROVE  transfer' \in Transfers
        BY <4>3
      <4>4. ASSUME NEW n \in grid.velocity_ratios,
                   transfer' = [transfer EXCEPT !.velocity_ratio = n]
            PROVE  transfer' \in Transfers
        BY <4>4
      <4>5. ASSUME NEW level \in RiskLevel,
                   transfer' = [transfer EXCEPT !.destination_risk = level]
            PROVE  transfer' \in Transfers
        BY <4>5
      <4>6. ASSUME NEW known \in grid.channels,
                   transfer' = [transfer EXCEPT !.channel_known = known]
            PROVE  transfer' \in Transfers
        BY <4>6
      <4>7. ASSUME NEW n \in grid.deviations, transfer' = [transfer EXCEPT !.deviation = n]
            PROVE  transfer' \in Transfers
        BY <4>7
      <4>8. QED BY <2>2, <4>1, <4>2, <4>3, <4>4, <4>5, <4>6, <4>7, Zenon
                DEF RiskierTransfer
    <3>2. QED BY <2>2, <3>1 DEF RiskierTransfer
  <2>3. CASE RiskierAnomaly
    <3>1. grid.deviation_counts \subseteq Nat
      BY GridsAreTyped
    <3>2. PICK n \in grid.deviation_counts :
            \/ anomaly' = [anomaly EXCEPT !.cyber = AnomalyPoints(TRUE, n)]
            \/ anomaly' = [anomaly EXCEPT !.transfer = AnomalyPoints(TRUE, n)]
      BY <2>3, Zenon DEF RiskierAnomaly
    <3>3. AnomalyPoints(TRUE, n) \in 0..10
      BY <3>1, AnomalyAtMostTen
    <3>4. anomaly' \in [cyber : 0..10, transfer : 0..10]
      BY <3>2, <3>3
    <3>5. UNCHANGED <<grid, session, transfer>>
      BY <2>3 DEF RiskierAnomaly
    <3> QED
      BY <3>4, <3>5
  <2>4. CASE UNCHANGED vars
    BY <2>4 DEF vars
  <2>5. QED BY <2>1, <2>2, <2>3, <2>4 DEF Next
<1>3. QED BY <1>1, <1>2, PTL DEF Spec

\* What the parts of the score are on a typed input.
LEMMA PartsInRange ==
  ASSUME TypeOK
  PROVE  /\ CyberRulePoints \in 1..100 /\ TransferRulePoints \in 1..100
         /\ CyberScore \in 1..100 /\ TransferScore \in 1..100
         /\ CyberScore <= CyberRulePoints + 10
         /\ TransferScore <= TransferRulePoints + 10
         /\ QuietSession => CyberRulePoints = 10
         /\ QuietTransfer => TransferRulePoints = 10
         /\ Bonus(session, transfer) \in 0..18
         /\ QuietSession \/ QuietTransfer => Bonus(session, transfer) = 0
<1>1. CyberSignalPoints(session) \in Nat /\ TransferSignalPoints(transfer) \in Nat
  BY SessionPoints, TransferPoints DEF TypeOK
<1>2. /\ CyberRulePoints \in 1..100 /\ TransferRulePoints \in 1..100
      /\ QuietSession => CyberRulePoints = 10
      /\ QuietTransfer => TransferRulePoints = 10
  BY <1>1, RulePointsInRange
     DEF CyberRulePoints, TransferRulePoints, QuietSession, QuietTransfer
<1>3. anomaly.cyber \in 0..10 /\ anomaly.transfer \in 0..10
  BY DEF TypeOK
<1>4. /\ CyberScore \in 1..100 /\ TransferScore \in 1..100
      /\ CyberScore <= CyberRulePoints + 10
      /\ TransferScore <= TransferRulePoints + 10
  BY <1>2, <1>3, StreamScoreInRange DEF CyberScore, TransferScore
<1>5. /\ Bonus(session, transfer) \in 0..18
      /\ QuietSession \/ QuietTransfer => Bonus(session, transfer) = 0
  BY BonusInRange DEF TypeOK, QuietSession, QuietTransfer
<1>6. QED BY <1>2, <1>4, <1>5

\* A transfer is held only on evidence in both domains, whatever the features:
\* with one stream at 100 and the other quiet, even the anomaly points leave
\* the fused score at 54.
THEOREM HoldsRestOnBothDomains == Spec => []HoldNeedsBothDomains
<1>1. TypeOK => HoldNeedsBothDomains
  <2> SUFFICES ASSUME TypeOK, QuietSession \/ QuietTransfer
               PROVE  Decision(FusedScore) # "held"
    BY DEF HoldNeedsBothDomains
  <2>1. CyberScore \in 1..100 /\ TransferScore \in 1..100
    BY PartsInRange
  <2>2. CyberScore + TransferScore <= 120
    BY PartsInRange
  <2>3. FusedScore = Fused(CyberScore, TransferScore, 0)
    BY PartsInRange DEF FusedScore
  <2>4. Decision(Fused(CyberScore, TransferScore, 0)) # "held"
    BY <2>1, <2>2, QuietNeverHolds, Zenon
  <2>5. QED BY <2>3, <2>4
<1>2. QED BY <1>1, TypeCorrect, PTL

\* The anomaly model never holds a transfer that the rules alone would permit:
\* it adds at most nine points to the fused score.
THEOREM AnomalyIsNeverAlone == Spec => []AnomalyNeverHoldsAlone
<1>1. TypeOK => AnomalyNeverHoldsAlone
  <2> SUFFICES ASSUME TypeOK, Decision(FusedScore) = "held"
               PROVE  Decision(Fused(CyberRulePoints, TransferRulePoints,
                                     Bonus(session, transfer))) # "permitted"
    BY DEF AnomalyNeverHoldsAlone
  <2>1. /\ CyberRulePoints \in 1..100 /\ TransferRulePoints \in 1..100
        /\ CyberScore \in 1..100 /\ TransferScore \in 1..100
        /\ CyberScore <= CyberRulePoints + 10
        /\ TransferScore <= TransferRulePoints + 10
        /\ Bonus(session, transfer) \in 0..18
    BY PartsInRange
  <2>2. Decision(Fused(CyberScore, TransferScore, Bonus(session, transfer))) = "held"
    BY DEF FusedScore
  <2>3. QED BY <2>1, <2>2, TenPointsLess, Zenon
<1>2. QED BY <1>1, TypeCorrect, PTL

\* The fused score is the raw score rounded once, to the nearest and half up, and its
\* severity and decision begin half a point below the first score that has them.
THEOREM ScoresAreRoundedOnce == Spec => []RoundedOnce
<1>1. TypeOK => RoundedOnce
  <2> SUFFICES ASSUME TypeOK PROVE RoundedOnce
    OBVIOUS
  <2>1. /\ CyberScore \in 1..100 /\ TransferScore \in 1..100
        /\ Bonus(session, transfer) \in 0..18
    BY PartsInRange
  <2>2. QED BY <2>1, FusedIsNearest, FusedIsGraded, Zenon DEF RoundedOnce, FusedScore
<1>2. QED BY <1>1, TypeCorrect, PTL
-----------------------------------------------------------------------------
(* The scores are monotone in the evidence. *)

\* More signals, or a login further out of the window, cost no points.
LEMMA MoreSignalsMorePoints ==
  ASSUME NEW s \in [signals : SUBSET AllCyberSignals, hours : Nat],
         NEW r \in [signals : SUBSET AllCyberSignals, hours : Nat],
         s.signals \subseteq r.signals, s.hours <= r.hours
  PROVE  CyberSignalPoints(s) <= CyberSignalPoints(r)
<1> DEFINE P(v, x, n) == Points(x \in v.signals, n)
<1>1. /\ LoginTimePoints(s.hours) \in Nat
      /\ LoginTimePoints(r.hours) \in Nat
      /\ LoginTimePoints(s.hours) <= LoginTimePoints(r.hours)
  BY DEF LoginTimePoints
<1>2. \A x : \A n, m \in Nat : n <= m =>
        P(s, x, n) \in Nat /\ P(r, x, m) \in Nat /\ P(s, x, n) <= P(r, x, m)
  BY DEF Points
<1>3. \A v : CyberSignalPoints(v) =
        P(v, "new_device", 12) + P(v, "first_seen_fingerprint", 8)
        + P(v, "untrusted_device_posture", 6) + P(v, "failed_mfa", 14)
        + P(v, "risky_network", 10) + P(v, "unusual_location", 8)
        + P(v, "impossible_travel", 16) + P(v, "endpoint_alert", 18)
        + P(v, "unusual_login_time", LoginTimePoints(v.hours))
        + P(v, "session_token_anomaly", 16)
  BY DEF CyberSignalPoints
<1> HIDE DEF P
<1> DEFINE Grows(x, n, m) ==
             P(s, x, n) \in Nat /\ P(r, x, m) \in Nat /\ P(s, x, n) <= P(r, x, m)
<1>4. /\ Grows("new_device", 12, 12) /\ Grows("first_seen_fingerprint", 8, 8)
      /\ Grows("untrusted_device_posture", 6, 6) /\ Grows("failed_mfa", 14, 14)
      /\ Grows("risky_network", 10, 10) /\ Grows("unusual_location", 8, 8)
      /\ Grows("impossible_travel", 16, 16) /\ Grows("endpoint_alert", 18, 18)
      /\ Grows("unusual_login_time", LoginTimePoints(s.hours), LoginTimePoints(r.hours))
      /\ Grows("session_token_anomaly", 16, 16)
  BY <1>1, <1>2
<1>5. QED BY <1>3, <1>4

\* In g every feature of a transfer is at least as risky as in f.
RiskLevelUp ==
  {<<"low", "low">>, <<"low", "medium">>, <<"low", "high">>, <<"medium", "medium">>,
   <<"medium", "high">>, <<"high", "high">>}

AtLeastAsRisky(f, g) ==
  /\ g.beneficiary_known => f.beneficiary_known
  /\ g.beneficiary_age <= f.beneficiary_age
  /\ f.amount_ratio <= g.amount_ratio
  /\ f.velocity_ratio <= g.velocity_ratio
  /\ <<f.destination_risk, g.destination_risk>> \in RiskLevelUp
  /\ g.channel_known => f.channel_known
  /\ f.deviation <= g.deviation

\* Riskier features cost no points: neither a threshold that is passed, nor
\* the points of a new beneficiary that replace those of a recent one.
LEMMA RiskierFeaturesMorePoints ==
  ASSUME NEW f \in Transfers, NEW g \in Transfers, AtLeastAsRisky(f, g)
  PROVE  TransferSignalPoints(f) <= TransferSignalPoints(g)
<1> USE DEF Transfers, AtLeastAsRisky
<1>1. /\ BeneficiaryPoints(f) \in Nat /\ BeneficiaryPoints(g) \in Nat
      /\ BeneficiaryPoints(f) <= BeneficiaryPoints(g)
  BY DEF BeneficiaryPoints, NewBeneficiary, Points
<1>2. /\ AmountPoints(f) \in Nat /\ AmountPoints(g) \in Nat
      /\ AmountPoints(f) <= AmountPoints(g)
  BY DEF AmountPoints, Graduated
<1>3. /\ VelocityPoints(f) \in Nat /\ VelocityPoints(g) \in Nat
      /\ VelocityPoints(f) <= VelocityPoints(g)
  BY DEF VelocityPoints, Graduated
<1>4. /\ DestinationPoints(f) \in Nat /\ DestinationPoints(g) \in Nat
      /\ DestinationPoints(f) <= DestinationPoints(g)
  BY DEF DestinationPoints, Points, RiskLevelUp
<1>5. /\ ChannelPoints(f) \in Nat /\ ChannelPoints(g) \in Nat
      /\ ChannelPoints(f) <= ChannelPoints(g)
  BY DEF ChannelPoints, Points
<1>6. /\ DeviationPoints(f) \in Nat /\ DeviationPoints(g) \in Nat
      /\ DeviationPoints(f) <= DeviationPoints(g)
  BY DEF DeviationPoints, Graduated
<1>7. QED BY <1>1, <1>2, <1>3, <1>4, <1>5, <1>6 DEF TransferSignalPoints

\* A stream that has points keeps its score when points are added.
LEMMA MorePointsMoreScore ==
  ASSUME NEW n \in Nat, NEW m \in Nat, n # 0, n <= m,
         NEW a \in 0..10, NEW b \in 0..10, a <= b
  PROVE  StreamScore(RulePoints(n), a) <= StreamScore(RulePoints(m), b)
BY DEF StreamScore, RulePoints, Least

\* A session only grows.
LEMMA SessionGrows ==
  ASSUME TypeOK, [Next]_vars
  PROVE  session.signals \subseteq session'.signals /\ session.hours <= session'.hours
<1> USE DEF TypeOK
<1>1. CASE RiskierSession
  <2>1. ASSUME NEW x \in grid.signals,
               session' = [session EXCEPT !.signals = @ \union {x}]
        PROVE  session.signals \subseteq session'.signals /\ session.hours <= session'.hours
    BY <2>1
  <2>2. ASSUME NEW h \in grid.hours, h > session.hours,
               session' = [session EXCEPT !.hours = h]
        PROVE  session.signals \subseteq session'.signals /\ session.hours <= session'.hours
    BY <2>2, GridsAreTyped
  <2>3. QED BY <1>1, <2>1, <2>2 DEF RiskierSession
<1>2. CASE UNCHANGED session
  BY <1>2
<1>3. QED BY <1>1, <1>2 DEF Next, RiskierTransfer, RiskierAnomaly, vars

\* A transfer only becomes riskier.
LEMMA TransferGrows ==
  ASSUME TypeOK, [Next]_vars
  PROVE  AtLeastAsRisky(transfer, transfer')
<1> USE DEF TypeOK, Transfers, RiskLevel, AtLeastAsRisky, RiskLevelUp
<1>1. CASE RiskierTransfer
  <2> USE GridsAreTyped
  <2>1. CASE transfer' = [transfer EXCEPT !.beneficiary_known = FALSE]
    BY <2>1
  <2>2. ASSUME NEW a \in grid.ages, a < transfer.beneficiary_age,
               transfer' = [transfer EXCEPT !.beneficiary_age = a]
        PROVE  AtLeastAsRisky(transfer, transfer')
    BY <2>2
  <2>3. ASSUME NEW n \in grid.amount_ratios, n > transfer.amount_ratio,
               transfer' = [transfer EXCEPT !.amount_ratio = n]
        PROVE  AtLeastAsRisky(transfer, transfer')
    BY <2>3
  <2>4. ASSUME NEW n \in grid.velocity_ratios, n > transfer.velocity_ratio,
               transfer' = [transfer EXCEPT !.velocity_ratio = n]
        PROVE  AtLeastAsRisky(transfer, transfer')
    BY <2>4
  <2>5. ASSUME NEW level \in RiskLevel,
               <<transfer.destination_risk, level>> \in
                 {<<"low", "medium">>, <<"low", "high">>, <<"medium", "high">>},
               transfer' = [transfer EXCEPT !.destination_risk = level]
        PROVE  AtLeastAsRisky(transfer, transfer')
    BY <2>5
  <2>6. ASSUME NEW known \in grid.channels, ~ known,
               transfer' = [transfer EXCEPT !.channel_known = known]
        PROVE  AtLeastAsRisky(transfer, transfer')
    BY <2>6
  <2>7. ASSUME NEW d \in grid.deviations, d > transfer.deviation,
               transfer' = [transfer EXCEPT !.deviation = d]
        PROVE  AtLeastAsRisky(transfer, transfer')
    BY <2>7
  <2>8. QED BY <1>1, <2>1, <2>2, <2>3, <2>4, <2>5, <2>6, <2>7, Zenon DEF RiskierTransfer
<1>2. CASE UNCHANGED transfer
  BY <1>2
<1>3. QED BY <1>1, <1>2, Zenon DEF Next, RiskierSession, RiskierAnomaly, vars

\* The anomaly points of a stream only grow.
LEMMA AnomalyGrows ==
  ASSUME TypeOK, [Next]_vars
  PROVE  anomaly.cyber <= anomaly'.cyber /\ anomaly.transfer <= anomaly'.transfer
<1> USE DEF TypeOK
<1>1. CASE RiskierAnomaly
  <2>1. PICK n \in grid.deviation_counts :
          \/ /\ AnomalyPoints(TRUE, n) > anomaly.cyber
             /\ anomaly' = [anomaly EXCEPT !.cyber = AnomalyPoints(TRUE, n)]
          \/ /\ AnomalyPoints(TRUE, n) > anomaly.transfer
             /\ anomaly' = [anomaly EXCEPT !.transfer = AnomalyPoints(TRUE, n)]
    BY <1>1, Zenon DEF RiskierAnomaly
  <2>2. AnomalyPoints(TRUE, n) \in 0..10
    BY AnomalyAtMostTen, GridsAreTyped
  <2>3. PICK most \in 0..10 : most = AnomalyPoints(TRUE, n)
    BY <2>2
  <2>4. \/ most > anomaly.cyber /\ anomaly' = [anomaly EXCEPT !.cyber = most]
        \/ most > anomaly.transfer /\ anomaly' = [anomaly EXCEPT !.transfer = most]
    BY <2>1, <2>3
  <2>5. QED BY <2>4
<1>2. CASE UNCHANGED anomaly
  BY <1>2
<1>3. QED BY <1>1, <1>2, Zenon DEF Next, RiskierSession, RiskierTransfer, vars

\* Whatever becomes riskier, a stream that had a signal does not score less.
THEOREM EvidenceIsMonotone == Spec => EvidenceNeverLowersScore
<1>1. TypeOK /\ TypeOK' /\ [Next]_vars => EvidenceStep
  <2> SUFFICES ASSUME TypeOK, TypeOK', [Next]_vars PROVE EvidenceStep
    OBVIOUS
  <2>1. /\ anomaly.cyber \in 0..10 /\ anomaly'.cyber \in 0..10
        /\ anomaly.transfer \in 0..10 /\ anomaly'.transfer \in 0..10
    BY DEF TypeOK
  <2>2. anomaly.cyber <= anomaly'.cyber /\ anomaly.transfer <= anomaly'.transfer
    BY AnomalyGrows
  <2>3. ASSUME ~ QuietSession PROVE CyberScore' >= CyberScore
    <3> DEFINE n == CyberSignalPoints(session)
               m == CyberSignalPoints(session')
    <3>1. /\ session \in [signals : SUBSET AllCyberSignals, hours : Nat]
          /\ session' \in [signals : SUBSET AllCyberSignals, hours : Nat]
      BY DEF TypeOK
    <3>2. n \in Nat /\ m \in Nat
      BY <3>1, SessionPoints
    <3>3. n # 0 /\ n <= m
      BY <2>3, <3>1, SessionGrows, MoreSignalsMorePoints DEF QuietSession
    <3> HIDE DEF n, m
    <3>4. StreamScore(RulePoints(n), anomaly.cyber) <= StreamScore(RulePoints(m), anomaly'.cyber)
      BY <2>1, <2>2, <3>2, <3>3, MorePointsMoreScore
    <3>5. /\ StreamScore(RulePoints(n), anomaly.cyber) \in 1..100
          /\ StreamScore(RulePoints(m), anomaly'.cyber) \in 1..100
      BY <2>1, <3>2, RulePointsInRange, StreamScoreInRange
    <3>6. QED BY <3>4, <3>5 DEF CyberScore, CyberRulePoints, n, m
  <2>4. ASSUME ~ QuietTransfer PROVE TransferScore' >= TransferScore
    <3> DEFINE n == TransferSignalPoints(transfer)
               m == TransferSignalPoints(transfer')
    <3>1. transfer \in Transfers /\ transfer' \in Transfers
      BY DEF TypeOK, Transfers
    <3>2. n \in Nat /\ m \in Nat
      BY <3>1, TransferPoints
    <3>3. n # 0 /\ n <= m
      BY <2>4, <3>1, TransferGrows, RiskierFeaturesMorePoints DEF QuietTransfer
    <3> HIDE DEF n, m
    <3>4. StreamScore(RulePoints(n), anomaly.transfer)
            <= StreamScore(RulePoints(m), anomaly'.transfer)
      BY <2>1, <2>2, <3>2, <3>3, MorePointsMoreScore
    <3>5. /\ StreamScore(RulePoints(n), anomaly.transfer) \in 1..100
          /\ StreamScore(RulePoints(m), anomaly'.transfer) \in 1..100
      BY <2>1, <3>2, RulePointsInRange, StreamScoreInRange
    <3>6. QED BY <3>4, <3>5 DEF TransferScore, TransferRulePoints, n, m
  <2>5. QED BY <2>3, <2>4 DEF EvidenceStep
<1>2. QED BY <1>1, TypeCorrect, PTL DEF Spec, EvidenceNeverLowersScore
=============================================================================
