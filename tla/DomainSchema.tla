----------------------------- MODULE DomainSchema -----------------------------
(***************************************************************************)
(* The database schema, as the migrations create it and as the ORM declares *)
(* it.                                                                     *)
(*                                                                         *)
(* A schema is a set of objects <<kind, owner, ...>>: types, tables, the   *)
(* use a table's columns make of a type, foreign keys, checks, unique      *)
(* constraints, indexes, the function and the trigger that keep audit      *)
(* events append-only, and the columns that a later revision adds.         *)
(* Columns that live and die with their table are left out, and so are     *)
(* primary keys, lengths and defaults; names are those of the naming       *)
(* convention without its prefixes.                                        *)
(***************************************************************************)
EXTENDS Sequences, FiniteSets

(* Revision 0002: the tables, in the order of their creation.  A reference is *)
(* <<name, table, what happens on delete>>.                                   *)

crypto_assets ==
  [table |-> "crypto_assets", refs |-> {},
   types |-> {"algorithm_family", "data_sensitivity", "migration_status", "quantum_priority"},
   checks |-> {"confidentiality_years_nonnegative", "name_not_blank", "priority_score_range"},
   uniques |-> {"name"}]

customers ==
  [table |-> "customers", refs |-> {}, types |-> {"risk_segment"},
   checks |-> {"display_name_not_blank", "home_country_iso2"}, uniques |-> {}]

users ==
  [table |-> "users", refs |-> {}, types |-> {"user_role"},
   checks |-> {"password_hash_argon2id", "email_normalized", "display_name_not_blank"},
   uniques |-> {"email"}]

accounts ==
  [table |-> "accounts", refs |-> {<<"customer_id", "customers", "CASCADE">>},
   types |-> {"account_type", "account_status"},
   checks |-> {"currency_inr", "daily_count_nonnegative", "typical_max_nonnegative",
               "typical_range_ordered", "typical_min_nonnegative"},
   uniques |-> {"id_customer"}]

audit_events ==
  [table |-> "audit_events", refs |-> {<<"actor_user_id", "users", "RESTRICT">>},
   types |-> {"audit_event_type"},
   checks |-> {"entity_id_not_blank", "entity_type_not_blank", "request_id_not_blank"},
   uniques |-> {}]

behavioural_baselines ==
  [table |-> "behavioural_baselines", refs |-> {<<"customer_id", "customers", "CASCADE">>},
   types |-> {},
   checks |-> {"daily_count_nonnegative", "median_amount_nonnegative",
               "sample_window_ordered", "mad_nonnegative", "beneficiary_age_nonnegative",
               "login_end_hour_range", "login_start_hour_range"},
   uniques |-> {}]

beneficiaries ==
  [table |-> "beneficiaries", refs |-> {<<"customer_id", "customers", "CASCADE">>},
   types |-> {"risk_level"}, checks |-> {"display_name_not_blank"},
   uniques |-> {"id_customer"}]

devices ==
  [table |-> "devices", refs |-> {<<"customer_id", "customers", "CASCADE">>},
   types |-> {"device_type", "device_posture"}, checks |-> {"seen_window_ordered"},
   uniques |-> {"customer_fingerprint", "id_customer"}]

transaction_channels ==
  [table |-> "transaction_channels",
   refs |-> {<<"crypto_asset_id", "crypto_assets", "RESTRICT">>},
   types |-> {"transaction_channel_code"}, checks |-> {"name_not_blank"},
   uniques |-> {"channel_code"}]

sessions ==
  [table |-> "sessions",
   refs |-> {<<"account_customer", "accounts", "CASCADE">>,
             <<"device_customer", "devices", "CASCADE">>},
   types |-> {"session_status"}, checks |-> {"time_window_ordered"},
   uniques |-> {"device_identity", "identity"}]

cyber_events ==
  [table |-> "cyber_events", refs |-> {<<"session_identity", "sessions", "CASCADE">>},
   types |-> {"cyber_event_type", "event_severity"}, checks |-> {}, uniques |-> {}]

transactions ==
  [table |-> "transactions",
   refs |-> {<<"beneficiary_customer", "beneficiaries", "RESTRICT">>,
             <<"channel_id", "transaction_channels", "RESTRICT">>,
             <<"session_identity", "sessions", "CASCADE">>},
   types |-> {"transaction_status", "risk_level"},
   checks |-> {"currency_inr", "amount_nonnegative"}, uniques |-> {"identity"}]

incidents ==
  [table |-> "incidents",
   refs |-> {<<"transaction_identity", "transactions", "CASCADE">>},
   types |-> {"scenario_key", "severity", "recommended_action", "incident_status"},
   checks |-> {"correlation_bonus_range", "cyber_score_range", "fused_score_range",
               "transaction_score_range", "update_time_ordered"},
   uniques |-> {}]

analyst_actions ==
  [table |-> "analyst_actions",
   refs |-> {<<"analyst_id", "users", "RESTRICT">>,
             <<"incident_id", "incidents", "CASCADE">>},
   types |-> {"analyst_action_type", "incident_status", "transaction_status"},
   checks |-> {"meaningful_action", "note_length"}, uniques |-> {}]

risk_contributions ==
  [table |-> "risk_contributions",
   refs |-> {<<"incident_id", "incidents", "CASCADE">>,
             <<"source_event_id", "cyber_events", "SET NULL">>},
   types |-> {"contribution_category"},
   checks |-> {"correlation_points_cap", "anomaly_points_cap",
               "display_order_nonnegative", "points_range"},
   uniques |-> {"incident_code"}]

scenario_runs ==
  [table |-> "scenario_runs",
   refs |-> {<<"result_incident_id", "incidents", "SET NULL">>},
   types |-> {"scenario_key", "scenario_run_status"},
   checks |-> {"time_window_ordered", "seed_nonnegative"},
   uniques |-> {"run_fingerprint", "scenario_key"}]

Tables0002 ==
  <<crypto_assets, customers, users, accounts, audit_events, behavioural_baselines,
    beneficiaries, devices, transaction_channels, sessions, cyber_events, transactions,
    incidents, analyst_actions, risk_contributions, scenario_runs>>

\* The types the downgrade of 0002 drops, in its order.
ENUM_TYPE_NAMES ==
  <<"account_status", "account_type", "algorithm_family", "analyst_action_type",
    "audit_event_type", "contribution_category", "cyber_event_type", "data_sensitivity",
    "device_posture", "device_type", "event_severity", "incident_status",
    "migration_status", "quantum_priority", "recommended_action", "risk_level",
    "risk_segment", "scenario_key", "scenario_run_status", "session_status", "severity",
    "transaction_channel_code", "transaction_status", "user_role">>

-----------------------------------------------------------------------------
(* The tables as the ORM declares them: the definition of the table, its     *)
(* indexes, and the columns that were not there when the table was created.  *)

User ==
  [table |-> "users", refs |-> {}, types |-> {"user_role"}, indexes |-> {}, columns |-> {},
   checks |-> {"email_normalized", "display_name_not_blank", "password_hash_argon2id"},
   uniques |-> {"email"}]

Customer ==
  [table |-> "customers", refs |-> {}, types |-> {"risk_segment"}, indexes |-> {},
   columns |-> {}, checks |-> {"display_name_not_blank", "home_country_iso2"},
   uniques |-> {}]

Account ==
  [table |-> "accounts", refs |-> {<<"customer_id", "customers", "CASCADE">>},
   types |-> {"account_type", "account_status"}, indexes |-> {}, columns |-> {},
   checks |-> {"currency_inr", "typical_min_nonnegative", "typical_max_nonnegative",
               "typical_range_ordered", "daily_count_nonnegative"},
   uniques |-> {"id_customer"}]

BehaviourBaseline ==
  [table |-> "behavioural_baselines", refs |-> {<<"customer_id", "customers", "CASCADE">>},
   types |-> {}, indexes |-> {"customer_id"},
   columns |-> {"known_device_ids", "known_beneficiary_ids", "usual_destination_risks",
                "typical_transaction_velocity_30m"},
   checks |-> {"sample_window_ordered", "login_start_hour_range", "login_end_hour_range",
               "median_amount_nonnegative", "mad_nonnegative", "daily_count_nonnegative",
               "beneficiary_age_nonnegative", "velocity_30m_nonnegative"},
   uniques |-> {"customer"}]

Device ==
  [table |-> "devices", refs |-> {<<"customer_id", "customers", "CASCADE">>},
   types |-> {"device_type", "device_posture"}, indexes |-> {}, columns |-> {},
   checks |-> {"seen_window_ordered"}, uniques |-> {"id_customer", "customer_fingerprint"}]

Session ==
  [table |-> "sessions",
   refs |-> {<<"account_customer", "accounts", "CASCADE">>,
             <<"device_customer", "devices", "CASCADE">>},
   types |-> {"session_status"}, indexes |-> {}, columns |-> {},
   checks |-> {"time_window_ordered"}, uniques |-> {"identity", "device_identity"}]

CyberEvent ==
  [table |-> "cyber_events", refs |-> {<<"session_identity", "sessions", "CASCADE">>},
   types |-> {"cyber_event_type", "event_severity"}, indexes |-> {"session_event_time"},
   columns |-> {}, checks |-> {}, uniques |-> {}]

Beneficiary ==
  [table |-> "beneficiaries", refs |-> {<<"customer_id", "customers", "CASCADE">>},
   types |-> {"risk_level"}, indexes |-> {}, columns |-> {},
   checks |-> {"display_name_not_blank"}, uniques |-> {"id_customer"}]

CryptoAsset ==
  [table |-> "crypto_assets", refs |-> {}, indexes |-> {}, columns |-> {},
   types |-> {"algorithm_family", "data_sensitivity", "migration_status", "quantum_priority"},
   checks |-> {"confidentiality_years_nonnegative", "priority_score_range", "name_not_blank"},
   uniques |-> {"name"}]

TransactionChannel ==
  [table |-> "transaction_channels",
   refs |-> {<<"crypto_asset_id", "crypto_assets", "RESTRICT">>},
   types |-> {"transaction_channel_code"}, indexes |-> {}, columns |-> {},
   checks |-> {"name_not_blank"}, uniques |-> {"channel_code"}]

Transaction ==
  [table |-> "transactions",
   refs |-> {<<"session_identity", "sessions", "CASCADE">>,
             <<"beneficiary_customer", "beneficiaries", "RESTRICT">>,
             <<"channel_id", "transaction_channels", "RESTRICT">>},
   types |-> {"transaction_status", "risk_level"}, indexes |-> {"account_created_at"},
   columns |-> {}, checks |-> {"amount_nonnegative", "currency_inr"},
   uniques |-> {"identity"}]

Incident ==
  [table |-> "incidents",
   refs |-> {<<"transaction_identity", "transactions", "CASCADE">>},
   types |-> {"scenario_key", "severity", "recommended_action", "incident_status"},
   indexes |-> {"severity_created_at", "status_created_at", "customer_created_at",
                "transaction", "scenario_key"},
   columns |-> {"raw_fused_score", "summary", "signal_narrative", "decision_explanation",
                "action_explanation", "engine_version", "model_version"},
   checks |-> {"cyber_score_range", "transaction_score_range", "correlation_bonus_range",
               "raw_fused_score_range", "fused_score_range", "update_time_ordered"},
   uniques |-> {}]

RiskContribution ==
  [table |-> "risk_contributions",
   refs |-> {<<"incident_id", "incidents", "CASCADE">>,
             <<"source_event_id", "cyber_events", "SET NULL">>,
             <<"source_transaction_id", "transactions", "SET NULL">>,
             <<"source_baseline_id", "behavioural_baselines", "SET NULL">>},
   types |-> {"contribution_category"}, indexes |-> {},
   columns |-> {"source_transaction_id", "source_baseline_id"},
   checks |-> {"points_range", "anomaly_points_cap", "correlation_points_cap",
               "display_order_nonnegative"},
   uniques |-> {"incident_code"}]

AnalystAction ==
  [table |-> "analyst_actions",
   refs |-> {<<"incident_id", "incidents", "CASCADE">>,
             <<"analyst_id", "users", "RESTRICT">>},
   types |-> {"analyst_action_type", "incident_status", "transaction_status"},
   indexes |-> {"incident_created_at"}, columns |-> {},
   checks |-> {"note_length", "meaningful_action"}, uniques |-> {}]

ScenarioRun ==
  [table |-> "scenario_runs",
   refs |-> {<<"result_incident_id", "incidents", "SET NULL">>},
   types |-> {"scenario_key", "scenario_run_status"}, indexes |-> {}, columns |-> {},
   checks |-> {"seed_nonnegative", "time_window_ordered"},
   uniques |-> {"scenario_key", "run_fingerprint"}]

AuditEvent ==
  [table |-> "audit_events", refs |-> {<<"actor_user_id", "users", "RESTRICT">>},
   types |-> {"audit_event_type"}, columns |-> {},
   indexes |-> {"entity_created_at", "request_id"},
   checks |-> {"entity_type_not_blank", "entity_id_not_blank", "request_id_not_blank"},
   uniques |-> {}]

Models ==
  {User, Customer, Account, BehaviourBaseline, Device, Session, CyberEvent, Beneficiary,
   CryptoAsset, TransactionChannel, Transaction, Incident, RiskContribution,
   AnalystAction, ScenarioRun, AuditEvent}
-----------------------------------------------------------------------------
\* What CREATE TABLE makes, its types aside.
TableObjects(d) ==
  {<<"table", d.table>>}
  \union {<<"uses", d.table, n>> : n \in d.types}
  \union {<<"fk", d.table, r[1], r[2], r[3]>> : r \in d.refs}
  \union {<<"check", d.table, n>> : n \in d.checks}
  \union {<<"unique", d.table, n>> : n \in d.uniques}

\* What a model needs of the schema.
ModelObjects(d) ==
  TableObjects(d)
  \union {<<"type", n>> : n \in d.types}
  \union {<<"index", d.table, n>> : n \in d.indexes}
  \union {<<"column", d.table, n>> : n \in d.columns}

Metadata == UNION {ModelObjects(d) : d \in Models}
=============================================================================
