---------------------------- MODULE IncidentCase ----------------------------
(***************************************************************************)
(* What the analyst workflow promises of a case, whatever the number of    *)
(* threads: it moves in single atomic steps, each step the work of one     *)
(* action id that has not worked on the case before, along the edges       *)
(* below.  No locks, tokens, replies or crashes.                           *)
(***************************************************************************)
CONSTANTS Cases, ActionIds

VARIABLE case    \* status, transaction, and the action ids spent on each case

Disposition ==
  {<<"open", "in_review">>,
   <<"open", "confirmed_fraud">>, <<"in_review", "confirmed_fraud">>,
   <<"open", "legitimate">>, <<"in_review", "legitimate">>,
   <<"in_review", "closed">>, <<"confirmed_fraud", "closed">>,
   <<"legitimate", "closed">>}

Response ==
  {<<"pending", "held">>, <<"permitted", "held">>, <<"released", "held">>,
   <<"held", "released">>,
   <<"pending", "declined">>, <<"held", "declined">>}

Init ==
  \E t \in [Cases -> {"permitted", "pending", "held"}] :
    case = [i \in Cases |-> [status |-> "open", transaction |-> t[i], spent |-> {}]]

\* What one action may do to the two statuses: classify the case, answer the
\* transaction of a case that is not closed, or only leave a note.
Moves(c) ==
  {<<s[2], c.transaction>> : s \in {d \in Disposition : d[1] = c.status}}
  \union {<<c.status, x[2]>> :
            x \in {r \in Response : r[1] = c.transaction /\ c.status # "closed"}}
  \union {<<c.status, c.transaction>>}

Act(i, id) ==
  /\ id \notin case[i].spent
  /\ \E m \in Moves(case[i]) :
       case' = [case EXCEPT ![i] =
         [status |-> m[1], transaction |-> m[2], spent |-> case[i].spent \union {id}]]

Next == \E i \in Cases, id \in ActionIds : Act(i, id)

Spec == Init /\ [][Next]_case
=============================================================================
