-------------------------- MODULE MCReleaseBootstrap --------------------------
(* The hook of the first deploy and an operator who runs the command as well. *)
EXTENDS ReleaseBootstrap, TLC

CONSTANTS hook, operator
=============================================================================
