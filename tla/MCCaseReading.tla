---------------------------- MODULE MCCaseReading ----------------------------
(* One client; the writers are part of the module. *)
EXTENDS CaseReading, TLC

CONSTANTS client
=============================================================================
