--------------------------- MODULE CaseTransitions ---------------------------
(***************************************************************************)
(* The transition tables of the analyst workflow: which action an incident *)
(* and its simulated transaction accept, and where it takes them.  A pure  *)
(* module: no state, used by the workflow service and by the scenario      *)
(* lifecycle.  The definitions named Faulty... are ways it could be wrong.  *)
(***************************************************************************)

IncidentStatus ==
  {"open", "in_review", "confirmed_fraud", "legitimate", "closed"}

TransactionStatus ==
  {"pending", "permitted", "held", "released", "declined", "cancelled"}

AnalystActionType ==
  {"add_note", "start_review", "mark_confirmed_fraud", "mark_legitimate",
   "simulate_hold", "simulate_release", "simulate_decline", "close_incident"}

\* PATCH names a target status; "open" is no key of the table.
PatchAction ==
  [in_review       |-> "start_review",
   confirmed_fraud |-> "mark_confirmed_fraud",
   legitimate      |-> "mark_legitimate",
   closed          |-> "close_incident"]

\* The actions that move the incident: the statuses they leave, the one they reach.
IncidentTransition ==
  [start_review         |-> [from |-> {"open"}, to |-> "in_review"],
   mark_confirmed_fraud |-> [from |-> {"open", "in_review"}, to |-> "confirmed_fraud"],
   mark_legitimate      |-> [from |-> {"open", "in_review"}, to |-> "legitimate"],
   close_incident       |-> [from |-> {"in_review", "confirmed_fraud", "legitimate"},
                             to |-> "closed"]]

\* The actions that move the transaction, while the incident is not closed.
SimulatedResponse ==
  [simulate_hold    |-> [from |-> {"pending", "permitted", "released"}, to |-> "held"],
   simulate_release |-> [from |-> {"held"}, to |-> "released"],
   simulate_decline |-> [from |-> {"pending", "held"}, to |-> "declined"]]

\* _transition raises no WorkflowConflictError.
Accepts(status, txn, action) ==
  \/ action = "add_note"
  \/ /\ action \in DOMAIN IncidentTransition
     /\ status \in IncidentTransition[action].from
  \/ /\ action \in DOMAIN SimulatedResponse
     /\ status # "closed"
     /\ txn \in SimulatedResponse[action].from

FaultyStatusAfter(status, action) ==
  IF action \in DOMAIN IncidentTransition THEN action ELSE status

\* The two values _transition returns for an accepted action.
StatusAfter(status, action) ==
  IF action \in DOMAIN IncidentTransition THEN IncidentTransition[action].to ELSE status

TransactionAfter(txn, action) ==
  IF action \in DOMAIN SimulatedResponse THEN SimulatedResponse[action].to ELSE txn

FaultyAvailableActions(status, txn) ==
  {action \in AnalystActionType :
     action \in DOMAIN SimulatedResponse \/ Accepts(status, txn, action)}

\* available_actions_for: what the detail response offers to the analyst.
AvailableActions(status, txn) ==
  {action \in AnalystActionType : Accepts(status, txn, action)}
=============================================================================
