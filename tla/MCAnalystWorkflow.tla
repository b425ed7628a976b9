------------------------- MODULE MCAnalystWorkflow -------------------------
(* Model values and command sets for TLC. *)
EXTENDS AnalystWorkflow, TLC

CONSTANTS i1, ghost, ana, bob, t1, t2, k1, k2, none, memo

Post(action) == [route |-> "action", of |-> action]
Patch(status) == [route |-> "patch", of |-> status]

Cmd(incidentId, analyst, key, note, ask) ==
  [incident |-> incidentId, analyst |-> analyst, key |-> key, note |-> note, ask |-> ask]

\* Two analysts race on one incident.  ana uses one key for two different
\* actions and another for a note; bob uses the same key text as ana.  Two
\* commands never reach the case: an unknown incident, an unsupported target.
RaceCommands ==
  {Cmd(i1, ana, k1, none, Post("start_review")),
   Cmd(i1, ana, k1, none, Patch("confirmed_fraud")),
   Cmd(i1, ana, k2, memo, Post("add_note")),
   Cmd(i1, bob, k1, none, Patch("closed")),
   Cmd(i1, bob, k1, none, Post("simulate_hold")),
   Cmd(ghost, bob, k2, none, Patch("closed")),
   Cmd(ghost, bob, k2, none, Patch("open"))}

\* Two analysts work through the simulated responses.
ResponseCommands ==
  {Cmd(i1, ana, k1, none, Post("simulate_hold")),
   Cmd(i1, ana, k2, none, Post("simulate_release")),
   Cmd(i1, bob, k1, none, Post("simulate_decline")),
   Cmd(i1, bob, k1, none, Patch("legitimate"))}

RaceThreads == Permutations({t1, t2})
=============================================================================
