-------------------------- MODULE MCSchemaMigrations --------------------------
(* The container and the hook of the first deploy, and one operator. *)
EXTENDS SchemaMigrations, TLC

CONSTANTS container, hook, operator
=============================================================================
