---------------------------- MODULE MCRiskScoring ----------------------------
(* The grids that TLC walks over. *)
EXTENDS RiskScoring

\* Every threshold of the transaction rules, one hundredth below and at it.
Thresholds ==
  [signals |-> {"endpoint_alert"}, hours |-> {},
   ages |-> {0, 100, 101, 699, 700},
   amount_ratios |-> {299, 300, 499, 500}, velocity_ratios |-> {199, 200, 299, 300},
   deviations |-> {299, 300, 499, 500}, channels |-> {FALSE}, deviation_counts |-> {5}]

\* Sets of cyber signals worth up to 108 points against the transaction signals
\* of interactions.
Interactions ==
  [signals |-> {"new_device", "first_seen_fingerprint", "untrusted_device_posture",
                "failed_mfa", "risky_network", "impossible_travel", "endpoint_alert",
                "unusual_login_time", "session_token_anomaly"},
   hours |-> {201}, ages |-> {0}, amount_ratios |-> {500}, velocity_ratios |-> {300},
   deviations |-> {}, channels |-> {}, deviation_counts |-> {5}]

\* The signals of the five interactions.
Bonuses ==
  [Interactions EXCEPT !.signals = AllCyberSignals, !.deviation_counts = {}]

AllGrids == {Thresholds, Interactions}
BonusGrids == {Bonuses}
=============================================================================
