--------------------------- MODULE MCAccessControl ---------------------------
(* Two worker threads, the seeded analyst and at most one client address. *)
EXTENDS AccessControl, TLC

CONSTANTS t1, t2, client, analyst

SeedAnalyst == [u \in {analyst} |-> "analyst"]
AllThreads == Permutations(Threads)
=============================================================================
