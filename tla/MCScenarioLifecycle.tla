------------------------ MODULE MCScenarioLifecycle ------------------------
(* Model values for TLC. *)
EXTENDS ScenarioLifecycle, TLC

CONSTANTS takeover, known, cust, web, run1, run2, reset1, reset2, ana

\* Rows are scanned in the order they were inserted.
ScanOrder == takeover :> 2 @@ known :> 1 @@ cust :> 1 @@ web :> 1

OneCustomer == [i \in IncidentKeys |-> cust]

\* The takeover scenario inserts a device and a beneficiary of its own.
TakeoverBrings == {"device", "beneficiary"} \X ScenarioKeys

TwoRunners == Permutations({run1, run2})
=============================================================================
