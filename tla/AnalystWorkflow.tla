--------------------------- MODULE AnalystWorkflow ---------------------------
(***************************************************************************)
(* AnalystWorkflowService: the request threads that apply analyst actions  *)
(* to incidents, over one PostgreSQL database at READ COMMITTED.           *)
(*                                                                         *)
(* A thread handles one PATCH or POST request.  It takes the row lock of   *)
(* the incident, then the row lock of its transaction, copying each row as *)
(* it is when the lock is granted; then it looks the action up by its      *)
(* deterministic id, checks the concurrency token and the transition       *)
(* against its copies, and writes and commits from them.  A thread may die *)
(* before it commits: the database rolls its transaction back and the      *)
(* client hears nothing.  Clients repeat commands, with or without the     *)
(* token of the case they were looking at.                                 *)
(*                                                                         *)
(* The definitions named Faulty... are not the program: each is a way the  *)
(* definition that follows it could be wrong.                              *)
(***************************************************************************)
EXTENDS Integers, Sequences, CaseTransitions

CONSTANTS
  IncidentIds,      \* ids a request may name
  Incidents,        \* the ids that have a row, each with its own transaction
  Analysts,         \* analysts and admins
  Keys,             \* idempotency keys
  Notes,            \* notes, the absent one included
  Commands,         \* the commands that clients send
  Threads,          \* request threads of the API process
  NoThread,         \* the owner of a free row lock
  NoRequest,        \* what an idle thread handles
  NoView            \* the place of the view in a request without a token

VARIABLES
  incident,         \* committed incident rows: status and updated_at
  transaction,      \* committed status of the transaction of each incident
  analyst_actions,  \* committed actions of each incident, oldest first
  audit_events,     \* committed audit details of each incident, oldest first
  clock,            \* the last instant datetime.now(UTC) returned
  incident_lock,    \* the thread that holds each incident's row lock
  transaction_lock, \* the thread that holds each transaction's row lock
  pc,               \* where each thread is in apply_action
  request,          \* the request it handles
  copy,             \* the two rows as it read them under their locks
  reply             \* what it is about to answer

rows == <<incident, transaction, analyst_actions, audit_events, clock>>
locks == <<incident_lock, transaction_lock>>
vars == <<rows, locks, pc, request, copy, reply>>

-----------------------------------------------------------------------------
\* What a request asks: an action by name (POST), or a target status (PATCH).
Ask == [route : {"action"}, of : AnalystActionType]
         \union [route : {"patch"}, of : IncidentStatus]

\* A request, its token aside.
Command == [incident : IncidentIds, analyst : Analysts, key : Keys,
            note : Notes, ask : Ask]

\* The two rows as a thread copies them.
Copy == [status : IncidentStatus, transaction : TransactionStatus, updated_at : Nat]

\* A case as the detail page shows it; recorded counts the actions so far.
View == [status : IncidentStatus, transaction : TransactionStatus,
         updated_at : Nat, recorded : Nat]

\* The token expected_updated_at is seen.updated_at.  The rest of seen is not
\* sent: it is what the client was looking at when it took the token.
Request == [command : Commands, seen : View \union {NoView}]

AnalystAction ==
  [analyst : Analysts, key : Keys, action_type : AnalystActionType, note : Notes,
   previous_incident_status : IncidentStatus, new_incident_status : IncidentStatus,
   previous_transaction_status : TransactionStatus,
   new_transaction_status : TransactionStatus, created_at : Nat]

AuditEvent ==
  [actor : Analysts, fingerprint : Analysts \X Keys, action_type : AnalystActionType,
   previous_incident_status : IncidentStatus, new_incident_status : IncidentStatus,
   previous_transaction_status : TransactionStatus,
   new_transaction_status : TransactionStatus]

ASSUME IncidentsHaveIds == Incidents \subseteq IncidentIds
ASSUME CommandsAreCommands == Commands \subseteq Command
ASSUME NoThreadIsNoThread == NoThread \notin Threads
ASSUME NoRequestIsNoRequest == NoRequest \notin Request
ASSUME NoViewIsNoView == NoView \notin View

ViewOf(i) == [status      |-> incident[i].status,
              transaction |-> transaction[i],
              updated_at  |-> incident[i].updated_at,
              recorded    |-> Len(analyst_actions[i])]

Supported(ask) == ask.route = "patch" => ask.of \in DOMAIN PatchAction

ActionOf(ask) == IF ask.route = "patch" THEN PatchAction[ask.of] ELSE ask.of

\* The deterministic action id, within an incident.
IdOf(entry) == <<entry.analyst, entry.key>>

FaultyExisting(c) == {}

\* The rows found under the id of command c: none, or one.
Existing(c) ==
  {k \in DOMAIN analyst_actions[c.incident] :
     IdOf(analyst_actions[c.incident][k]) = IdOf(c)}

SameContent(entry, c) ==
  /\ entry.action_type = ActionOf(c.ask)
  /\ entry.note = c.note

Conflict == [outcome |-> "conflict"]
NotFound == [outcome |-> "not_found"]
NoReply  == [outcome |-> "none"]

Answer(outcome, rowsRead, action) ==
  [outcome |-> outcome, rows |-> rowsRead, action |-> action]

Blank == [status |-> "open", transaction |-> "permitted", updated_at |-> 0]

-----------------------------------------------------------------------------
(* Steps of a thread. *)

Goto(t, label) == pc' = [pc EXCEPT ![t] = label]

FaultyUnlock(t) ==
  /\ incident_lock' = [i \in Incidents |->
       IF incident_lock[i] = t THEN NoThread ELSE incident_lock[i]]
  /\ UNCHANGED transaction_lock

\* Ending the database transaction frees every lock of the thread.
Unlock(t) ==
  /\ incident_lock' = [i \in Incidents |->
       IF incident_lock[i] = t THEN NoThread ELSE incident_lock[i]]
  /\ transaction_lock' = [i \in Incidents |->
       IF transaction_lock[i] = t THEN NoThread ELSE transaction_lock[i]]

\* The thread ends its transaction without a write, and answers.
Refuse(t, answer) ==
  /\ reply' = [reply EXCEPT ![t] = answer]
  /\ copy' = [copy EXCEPT ![t] = Blank]
  /\ Goto(t, "reply")
  /\ Unlock(t)
  /\ UNCHANGED <<rows, request>>

\* A client sends a command, with the token of the case as it is now or with
\* none.  While the thread waits for its locks the token grows old.
Submit(t, c) ==
  /\ pc[t] = "idle"
  /\ \E seen \in {NoView} \union {ViewOf(i) : i \in Incidents \intersect {c.incident}} :
       request' = [request EXCEPT ![t] = [command |-> c, seen |-> seen]]
  /\ IF Supported(c.ask)
       THEN Goto(t, "lock_incident") /\ UNCHANGED reply
       ELSE Goto(t, "reply") /\ reply' = [reply EXCEPT ![t] = Conflict]
  /\ UNCHANGED <<rows, locks, copy>>

\* SELECT ... FROM incidents ... FOR UPDATE finds no row.
MissIncident(t) ==
  /\ pc[t] = "lock_incident"
  /\ request[t].command.incident \notin Incidents
  /\ Refuse(t, NotFound)

FaultyFree(i) == TRUE

\* FOR UPDATE is granted when no other transaction holds the incident row.
Free(i) == incident_lock[i] = NoThread

\* SELECT ... FROM incidents ... FOR UPDATE: waits for the lock, then reads.
LockIncident(t) ==
  LET i == request[t].command.incident IN
  /\ pc[t] = "lock_incident"
  /\ i \in Incidents
  /\ Free(i)
  /\ incident_lock' = [incident_lock EXCEPT ![i] = t]
  /\ copy' = [copy EXCEPT ![t] = [status      |-> incident[i].status,
                                  transaction |-> copy[t].transaction,
                                  updated_at  |-> incident[i].updated_at]]
  /\ Goto(t, "lock_transaction")
  /\ UNCHANGED <<rows, transaction_lock, request, reply>>

\* SELECT ... FROM transactions ... FOR UPDATE: waits for the lock, then reads.
LockTransaction(t) ==
  LET i == request[t].command.incident IN
  /\ pc[t] = "lock_transaction"
  /\ transaction_lock[i] = NoThread
  /\ transaction_lock' = [transaction_lock EXCEPT ![i] = t]
  /\ copy' = [copy EXCEPT ![t] = [status      |-> copy[t].status,
                                  transaction |-> transaction[i],
                                  updated_at  |-> copy[t].updated_at]]
  /\ Goto(t, "decide")
  /\ UNCHANGED <<rows, incident_lock, request, reply>>

\* The lookup by id found the action this very command recorded.
Replay(t) ==
  LET c == request[t].command IN
  /\ pc[t] = "decide"
  /\ \E k \in Existing(c) :
       /\ SameContent(analyst_actions[c.incident][k], c)
       /\ Refuse(t, Answer("replayed", copy[t], analyst_actions[c.incident][k]))

\* The lookup by id found an action with another type or note.
RejectReusedKey(t) ==
  LET c == request[t].command IN
  /\ pc[t] = "decide"
  /\ \E k \in Existing(c) : ~ SameContent(analyst_actions[c.incident][k], c)
  /\ Refuse(t, Conflict)

TokenHolds(t) ==
  request[t].seen # NoView => request[t].seen.updated_at = copy[t].updated_at

FaultyRejectStaleToken(t) ==
  /\ pc[t] = "decide"
  /\ ~ TokenHolds(t)
  /\ Refuse(t, Conflict)

\* incident.updated_at is not the expected_updated_at of the request.
RejectStaleToken(t) ==
  /\ pc[t] = "decide"
  /\ Existing(request[t].command) = {}
  /\ ~ TokenHolds(t)
  /\ Refuse(t, Conflict)

AcceptedByCopy(t) ==
  Accepts(copy[t].status, copy[t].transaction, ActionOf(request[t].command.ask))

\* _transition raises WorkflowConflictError.
RejectTransition(t) ==
  /\ pc[t] = "decide"
  /\ Existing(request[t].command) = {}
  /\ TokenHolds(t)
  /\ ~ AcceptedByCopy(t)
  /\ Refuse(t, Conflict)

\* The AnalystAction that command c records at instant now, from the two
\* statuses the thread read.
NewAction(c, before, now) ==
  LET action == ActionOf(c.ask) IN
  [analyst                     |-> c.analyst,
   key                         |-> c.key,
   action_type                 |-> action,
   note                        |-> c.note,
   previous_incident_status    |-> before.status,
   new_incident_status         |-> StatusAfter(before.status, action),
   previous_transaction_status |-> before.transaction,
   new_transaction_status      |-> TransactionAfter(before.transaction, action),
   created_at                  |-> now]

\* The details of the audit event: neither the note nor the raw key.
AuditDetails(entry) ==
  [actor                       |-> entry.analyst,
   fingerprint                 |-> IdOf(entry),
   action_type                 |-> entry.action_type,
   previous_incident_status    |-> entry.previous_incident_status,
   new_incident_status         |-> entry.new_incident_status,
   previous_transaction_status |-> entry.previous_transaction_status,
   new_transaction_status      |-> entry.new_transaction_status]

FaultyTouchedRow(entry, before, now) ==
  [status |-> entry.new_incident_status,
   updated_at |-> IF entry.action_type = "add_note" THEN before.updated_at ELSE now]

\* The incident row after an action: every action, notes included, renews
\* updated_at.
TouchedRow(entry, before, now) ==
  [status |-> entry.new_incident_status, updated_at |-> now]

\* The accepted action: both rows, the action and the audit event are written
\* from the thread's copies and become visible with one COMMIT.
Apply(t) ==
  LET c == request[t].command
      i == c.incident
      now == clock + 1
      entry == NewAction(c, copy[t], now)
      row == TouchedRow(entry, copy[t], now)
  IN
  /\ pc[t] = "decide"
  /\ Existing(c) = {}
  /\ TokenHolds(t)
  /\ AcceptedByCopy(t)
  /\ clock' = now
  /\ incident' = [incident EXCEPT ![i] = row]
  /\ transaction' = [transaction EXCEPT ![i] = entry.new_transaction_status]
  /\ analyst_actions' = [analyst_actions EXCEPT ![i] = Append(@, entry)]
  /\ audit_events' = [audit_events EXCEPT ![i] = Append(@, AuditDetails(entry))]
  /\ reply' = [reply EXCEPT ![t] =
       Answer("recorded",
              [status |-> row.status,
               transaction |-> entry.new_transaction_status,
               updated_at |-> row.updated_at],
              entry)]
  /\ copy' = [copy EXCEPT ![t] = Blank]
  /\ Goto(t, "reply")
  /\ Unlock(t)
  /\ UNCHANGED request

\* The request ends: its answer reaches the client, or is lost on the way.
Finish(t) ==
  /\ pc[t] = "reply"
  /\ Goto(t, "idle")
  /\ request' = [request EXCEPT ![t] = NoRequest]
  /\ reply' = [reply EXCEPT ![t] = NoReply]
  /\ UNCHANGED <<rows, locks, copy>>

\* The thread or its connection dies before COMMIT: the database rolls back
\* what it wrote and frees its locks.
Die(t) ==
  /\ pc[t] \in {"lock_incident", "lock_transaction", "decide"}
  /\ Goto(t, "idle")
  /\ request' = [request EXCEPT ![t] = NoRequest]
  /\ copy' = [copy EXCEPT ![t] = Blank]
  /\ Unlock(t)
  /\ UNCHANGED <<rows, reply>>

-----------------------------------------------------------------------------
\* The seeded incidents are open; their transactions were permitted, or left
\* pending or held by the decision of the scenario that created them.
Init ==
  /\ incident = [i \in Incidents |-> [status |-> "open", updated_at |-> 0]]
  /\ transaction \in [Incidents -> {"permitted", "pending", "held"}]
  /\ analyst_actions = [i \in Incidents |-> <<>>]
  /\ audit_events = [i \in Incidents |-> <<>>]
  /\ clock = 0
  /\ incident_lock = [i \in Incidents |-> NoThread]
  /\ transaction_lock = [i \in Incidents |-> NoThread]
  /\ pc = [t \in Threads |-> "idle"]
  /\ request = [t \in Threads |-> NoRequest]
  /\ copy = [t \in Threads |-> Blank]
  /\ reply = [t \in Threads |-> NoReply]

Decide(t) ==
  \/ Replay(t)
  \/ RejectReusedKey(t)
  \/ RejectStaleToken(t)
  \/ RejectTransition(t)
  \/ Apply(t)

Next ==
  \E t \in Threads :
    \/ \E c \in Commands : Submit(t, c)
    \/ MissIncident(t)
    \/ LockIncident(t)
    \/ LockTransaction(t)
    \/ Decide(t)
    \/ Finish(t)
    \/ Die(t)

Spec == Init /\ [][Next]_vars

\* A thread that can run a statement runs it.  PostgreSQL queues the waiters
\* of a row lock, so a thread that waits while others come and go gets it:
\* strong fairness on the first lock.  Clients and crashes are not fair.
Fairness ==
  \A t \in Threads :
    /\ SF_vars(LockIncident(t))
    /\ WF_vars(MissIncident(t) \/ LockTransaction(t) \/ Decide(t) \/ Finish(t))

FairSpec == Spec /\ Fairness

-----------------------------------------------------------------------------
(* Properties. *)

\* The types of the variables.
TypeOK ==
  /\ incident \in [Incidents -> [status : IncidentStatus, updated_at : Nat]]
  /\ transaction \in [Incidents -> TransactionStatus]
  /\ analyst_actions \in [Incidents -> Seq(AnalystAction)]
  /\ audit_events \in [Incidents -> Seq(AuditEvent)]
  /\ clock \in Nat
  /\ incident_lock \in [Incidents -> Threads \union {NoThread}]
  /\ transaction_lock \in [Incidents -> Threads \union {NoThread}]
  /\ pc \in [Threads -> {"idle", "lock_incident", "lock_transaction", "decide", "reply"}]
  /\ request \in [Threads -> Request \union {NoRequest}]
  /\ \A t \in Threads : pc[t] # "idle" => request[t] \in Request
  /\ \A t \in Threads : pc[t] \in {"lock_incident", "lock_transaction", "decide"} =>
       Supported(request[t].command.ask)
  /\ copy \in [Threads -> Copy]
  /\ DOMAIN reply = Threads

Last(i) == analyst_actions[i][Len(analyst_actions[i])]

\* The recorded actions of an incident are an unbroken account of how it came
\* to its current state: each starts from the two statuses its predecessor
\* left, and the last one left the statuses and the updated_at of the rows.
\* Two threads that both act on what they read before the other committed
\* would break it; the row locks are there to prevent that.
HistoryOf(i) ==
  LET log == analyst_actions[i] IN
  /\ \A k \in 1..(Len(log) - 1) :
       /\ log[k + 1].previous_incident_status = log[k].new_incident_status
       /\ log[k + 1].previous_transaction_status = log[k].new_transaction_status
  /\ log # <<>> =>
       /\ incident[i].status = Last(i).new_incident_status
       /\ transaction[i] = Last(i).new_transaction_status
       /\ incident[i].updated_at = Last(i).created_at
UnbrokenHistory == \A i \in Incidents : HistoryOf(i)

\* However often a command is sent, and however its answers are lost, the
\* pair of analyst and idempotency key acts on an incident at most once, and
\* the audit trail of the incident has one event for each action, in order.
OnceIn(i) ==
  LET log == analyst_actions[i] IN
  /\ \A j, k \in DOMAIN log : IdOf(log[j]) = IdOf(log[k]) => j = k
  /\ Len(audit_events[i]) = Len(log)
  /\ \A k \in DOMAIN log : audit_events[i][k] = AuditDetails(log[k])
ActsAtMostOnce == \A i \in Incidents : OnceIn(i)

\* Thread t takes its decision in this step, and answers outcome.
Decides(t, outcome) ==
  /\ pc[t] = "decide"
  /\ pc'[t] = "reply"
  /\ reply'[t].outcome = outcome

\* An action that carries a concurrency token is recorded only if the client
\* was looking at the case as it still is: same statuses, and no action of
\* anybody recorded since, not even a note.
TokenStep ==
  \A t \in Threads :
    Decides(t, "recorded") /\ request[t].seen # NoView =>
      request[t].seen = ViewOf(request[t].command.incident)
TokenMeansUnchanged == [][TokenStep]_vars

\* An action the page offered is not refused to a client whose token is still
\* current and whose key is fresh: what the page offers is what the service
\* accepts, no matter what other threads were doing meanwhile.
OfferStep ==
  \A t \in Threads :
    LET c == request[t].command IN
    /\ Decides(t, "conflict")
    /\ request[t].seen # NoView
    /\ \A k \in DOMAIN analyst_actions[c.incident] :
         IdOf(analyst_actions[c.incident][k]) # IdOf(c)
    /\ ActionOf(c.ask) \in AvailableActions(request[t].seen.status,
                                            request[t].seen.transaction)
    => request[t].seen # ViewOf(c.incident)
OfferedActionIsAccepted == [][OfferStep]_vars

\* A client that lost the answer to a recorded action and sends the command
\* again is told so, although its token is stale by now and the transition
\* may not be possible any more.
RetryStep ==
  \A t \in Threads :
    LET c == request[t].command
        log == analyst_actions[c.incident]
    IN
    /\ pc[t] = "decide"
    /\ pc'[t] = "reply"
    /\ \E k \in DOMAIN log : IdOf(log[k]) = IdOf(c) /\ SameContent(log[k], c)
    => reply'[t].outcome = "replayed" /\ IdOf(reply'[t].action) = IdOf(c)
RetryIsReplayed == [][RetryStep]_vars

\* The workflow implements the abstract case: a broken lock, a lost update, a
\* reopened or a doubly answered case are not steps of IncidentCase.
CaseOf(i) ==
  [status      |-> incident[i].status,
   transaction |-> transaction[i],
   spent       |-> {IdOf(analyst_actions[i][k]) : k \in DOMAIN analyst_actions[i]}]

Abstract == INSTANCE IncidentCase
  WITH Cases <- Incidents, ActionIds <- Analysts \X Keys,
       case <- [i \in Incidents |-> CaseOf(i)]

ImplementsCase == Abstract!Spec

\* Every request comes to an end, whoever holds the locks it waits for: no
\* thread leaves a lock behind, when it answers or when it dies.
EveryRequestEnds ==
  \A t \in Threads : pc[t] # "idle" ~> pc[t] = "idle"

\* The inductive invariant behind the safety properties.
Active(t) == pc[t] \in {"lock_transaction", "decide"}

\* A thread past its first lock holds it, and what it copied is still true.
CopiesAreCurrent ==
  \A t \in Threads :
    LET i == request[t].command.incident IN
    /\ Active(t) =>
         /\ i \in Incidents
         /\ incident_lock[i] = t
         /\ copy[t].status = incident[i].status
         /\ copy[t].updated_at = incident[i].updated_at
    /\ pc[t] = "decide" =>
         /\ transaction_lock[i] = t
         /\ copy[t].transaction = transaction[i]

\* updated_at names one version of a case: a view with the updated_at of the
\* case is the case.
TokensNameVersions ==
  /\ \A i \in Incidents : incident[i].updated_at <= clock
  /\ \A t \in Threads :
       pc[t] # "idle" /\ request[t].seen # NoView =>
         /\ request[t].command.incident \in Incidents
         /\ request[t].seen.updated_at <= clock
  /\ \A t \in Threads, i \in Incidents :
       /\ pc[t] # "idle"
       /\ request[t].seen # NoView
       /\ request[t].command.incident = i
       /\ request[t].seen.updated_at = incident[i].updated_at
       => request[t].seen = ViewOf(i)

Inv ==
  /\ TypeOK
  /\ CopiesAreCurrent
  /\ TokensNameVersions
  /\ UnbrokenHistory
  /\ ActsAtMostOnce
=============================================================================
