------------------------ MODULE AnalystWorkflowProofs ------------------------
(***************************************************************************)
(* Proofs about AnalystWorkflow, for any number of incidents, threads,     *)
(* analysts, keys and commands: its invariant, what a token, a key and a   *)
(* retry are answered with, and that it implements IncidentCase.           *)
(***************************************************************************)
EXTENDS AnalystWorkflow, TLAPS

USE DEF rows, locks, vars

-----------------------------------------------------------------------------
(* What the transition tables and the helpers return. *)

\* A supported request stands for an action of the enumeration.
LEMMA AskNamesAction ==
  ASSUME NEW ask \in Ask, Supported(ask)
  PROVE  ActionOf(ask) \in AnalystActionType
BY DEF Ask, Supported, ActionOf, PatchAction, AnalystActionType, IncidentStatus

\* The statuses after an action are statuses.
LEMMA AfterIsStatus ==
  ASSUME NEW status \in IncidentStatus, NEW txn \in TransactionStatus,
         NEW action \in AnalystActionType
  PROVE  /\ StatusAfter(status, action) \in IncidentStatus
         /\ TransactionAfter(txn, action) \in TransactionStatus
<1>1. StatusAfter(status, action) \in IncidentStatus
  BY DEF StatusAfter, IncidentTransition, IncidentStatus, AnalystActionType
<1>2. TransactionAfter(txn, action) \in TransactionStatus
  BY DEF TransactionAfter, SimulatedResponse, TransactionStatus, AnalystActionType
<1>3. QED BY <1>1, <1>2

\* The recorded action and its audit event are rows of their tables.
LEMMA NewActionIsRow ==
  ASSUME NEW c \in Commands, Supported(c.ask), NEW before \in Copy, NEW now \in Nat
  PROVE  /\ NewAction(c, before, now) \in AnalystAction
         /\ AuditDetails(NewAction(c, before, now)) \in AuditEvent
<1>1. c \in Command
  BY CommandsAreCommands
<1>2. ActionOf(c.ask) \in AnalystActionType
  BY <1>1, AskNamesAction DEF Command
<1>3. before.status \in IncidentStatus /\ before.transaction \in TransactionStatus
  BY DEF Copy
<1>4. /\ StatusAfter(before.status, ActionOf(c.ask)) \in IncidentStatus
      /\ TransactionAfter(before.transaction, ActionOf(c.ask)) \in TransactionStatus
  BY <1>2, <1>3, AfterIsStatus
<1>5. c.analyst \in Analysts /\ c.key \in Keys /\ c.note \in Notes
  BY <1>1 DEF Command
<1>6. NewAction(c, before, now) \in AnalystAction
  BY <1>2, <1>3, <1>4, <1>5 DEF NewAction, AnalystAction
<1>7. AuditDetails(NewAction(c, before, now)) \in AuditEvent
  BY <1>6 DEF AuditDetails, AnalystAction, AuditEvent, IdOf
<1>8. QED BY <1>6, <1>7

-----------------------------------------------------------------------------
(* Steps that leave the rows alone. *)

\* Unlocking types the lock tables and takes nothing from another thread.
LEMMA UnlockKeepsOthers ==
  ASSUME TypeOK, NEW t \in Threads, Unlock(t)
  PROVE  /\ incident_lock' \in [Incidents -> Threads \union {NoThread}]
         /\ transaction_lock' \in [Incidents -> Threads \union {NoThread}]
         /\ \A u \in Threads \ {t}, i \in Incidents :
              /\ incident_lock[i] = u => incident_lock'[i] = u
              /\ transaction_lock[i] = u => transaction_lock'[i] = u
BY DEF TypeOK, Unlock

\* The blank copy is typed.
LEMMA BlankIsCopy == Blank \in Copy
BY DEF Blank, Copy, IncidentStatus, TransactionStatus

\* A thread that gives up its locks without writing keeps the invariant,
\* whether it answers or dies.
LEMMA LeaveKeepsInv ==
  ASSUME Inv, NEW t \in Threads, Unlock(t), UNCHANGED rows,
         NEW label \in {"idle", "reply"}, Goto(t, label),
         copy' = [copy EXCEPT ![t] = Blank],
         DOMAIN reply' = Threads,
         request' = request \/ request' = [request EXCEPT ![t] = NoRequest],
         label = "reply" => request' = request /\ pc[t] # "idle"
  PROVE  Inv'
<1> USE DEF Inv
<1>1. TypeOK'
  <2>1. /\ incident_lock' \in [Incidents -> Threads \union {NoThread}]
        /\ transaction_lock' \in [Incidents -> Threads \union {NoThread}]
    BY UnlockKeepsOthers
  <2>2. pc' \in [Threads -> {"idle", "lock_incident", "lock_transaction", "decide", "reply"}]
    BY DEF TypeOK, Goto
  <2>3. copy' \in [Threads -> Copy]
    BY BlankIsCopy DEF TypeOK
  <2>4. /\ request' \in [Threads -> Request \union {NoRequest}]
        /\ \A u \in Threads : pc'[u] # "idle" => request'[u] \in Request
        /\ \A u \in Threads : pc'[u] \in {"lock_incident", "lock_transaction", "decide"} =>
             Supported(request'[u].command.ask)
    BY DEF TypeOK, Goto
  <2>5. QED BY <2>1, <2>2, <2>3, <2>4 DEF TypeOK
<1>2. CopiesAreCurrent'
  <2>1. \A u \in Threads \ {t} :
          pc'[u] = pc[u] /\ request'[u] = request[u] /\ copy'[u] = copy[u]
    BY DEF TypeOK, Goto
  <2>2. pc'[t] \in {"idle", "reply"}
    BY DEF TypeOK, Goto
  <2>3. QED BY <2>1, <2>2, UnlockKeepsOthers DEF CopiesAreCurrent, Active
<1>3. TokensNameVersions'
  <2>1. \A i \in Incidents : ViewOf(i)' = ViewOf(i)
    BY DEF ViewOf
  <2>2. \A u \in Threads :
          pc'[u] # "idle" => pc[u] # "idle" /\ request'[u] = request[u]
    BY DEF TypeOK, Goto
  <2>3. QED BY <2>1, <2>2 DEF TokensNameVersions
<1>4. UnbrokenHistory' /\ ActsAtMostOnce'
  BY DEF UnbrokenHistory, ActsAtMostOnce, HistoryOf, OnceIn, Last
<1>5. QED BY <1>1, <1>2, <1>3, <1>4

\* A view is typed.
LEMMA ViewOfIsView ==
  ASSUME TypeOK, NEW i \in Incidents
  PROVE  ViewOf(i) \in View
<1>1. Len(analyst_actions[i]) \in Nat
  BY DEF TypeOK
<1>2. QED BY <1>1 DEF TypeOK, ViewOf, View

\* A new request keeps the invariant: its view is the case as it is.
LEMMA SubmitKeepsInv ==
  ASSUME Inv, NEW t \in Threads, NEW c \in Commands, Submit(t, c)
  PROVE  Inv'
<1> USE DEF Inv
<1>1. PICK seen \in {NoView} \union {ViewOf(i) : i \in Incidents \intersect {c.incident}} :
        request' = [request EXCEPT ![t] = [command |-> c, seen |-> seen]]
  BY DEF Submit
<1>2. seen # NoView => c.incident \in Incidents /\ seen = ViewOf(c.incident)
  BY <1>1
<1>3. [command |-> c, seen |-> seen] \in Request
  BY <1>2, ViewOfIsView DEF Request
<1>4. /\ request' \in [Threads -> Request \union {NoRequest}]
      /\ request'[t] = [command |-> c, seen |-> seen]
      /\ \A u \in Threads \ {t} : request'[u] = request[u] /\ pc'[u] = pc[u]
  BY <1>1, <1>3 DEF TypeOK, Submit, Goto
<1>5. /\ pc' \in [Threads -> {"idle", "lock_incident", "lock_transaction", "decide", "reply"}]
      /\ pc'[t] \in {"lock_incident", "reply"}
      /\ pc'[t] = "lock_incident" => Supported(c.ask)
      /\ DOMAIN reply' = Threads
  BY ZenonT(60) DEF TypeOK, Submit, Goto
<1>6. UNCHANGED <<incident, transaction, analyst_actions, audit_events, clock,
                  incident_lock, transaction_lock, copy>>
  BY DEF Submit
<1>7. TypeOK'
  <2>1. \A u \in Threads : pc'[u] # "idle" => request'[u] \in Request
    BY <1>3, <1>4 DEF TypeOK
  <2>2. \A u \in Threads : pc'[u] \in {"lock_incident", "lock_transaction", "decide"} =>
          Supported(request'[u].command.ask)
    <3>1. ASSUME NEW u \in Threads \ {t},
                 pc'[u] \in {"lock_incident", "lock_transaction", "decide"}
          PROVE  Supported(request'[u].command.ask)
      BY <1>4, <3>1 DEF TypeOK
    <3>2. pc'[t] = "lock_incident" => Supported(request'[t].command.ask)
      BY <1>4, <1>5
    <3>3. QED BY <1>5, <3>1, <3>2
  <2>3. QED BY <1>4, <1>5, <1>6, <2>1, <2>2 DEF TypeOK
<1>8. CopiesAreCurrent'
  BY <1>4, <1>5, <1>6 DEF CopiesAreCurrent, Active
<1>9. TokensNameVersions'
  <2>1. \A i \in Incidents : ViewOf(i)' = ViewOf(i)
    BY <1>6 DEF ViewOf
  <2>2. \A i \in Incidents : ViewOf(i).updated_at = incident[i].updated_at
    BY DEF ViewOf
  <2>3. seen # NoView =>
          /\ c.incident \in Incidents
          /\ seen.updated_at <= clock'
          /\ seen = ViewOf(c.incident)'
    BY <1>2, <1>6, <2>1, <2>2 DEF TokensNameVersions
  <2>4. /\ request'[t].seen = seen
        /\ request'[t].command.incident = c.incident
    BY <1>4
  <2>5. QED BY <1>2, <1>4, <1>6, <2>1, <2>3, <2>4 DEF TokensNameVersions
<1>10. UnbrokenHistory' /\ ActsAtMostOnce'
  BY <1>6 DEF UnbrokenHistory, ActsAtMostOnce, HistoryOf, OnceIn, Last
<1>11. QED BY <1>7, <1>8, <1>9, <1>10

\* The first lock keeps the invariant: the copied incident row is current.
LEMMA LockIncidentKeepsInv ==
  ASSUME Inv, NEW t \in Threads, LockIncident(t)
  PROVE  Inv'
<1> USE DEF Inv
<1> DEFINE i == request[t].command.incident
<1>1. /\ i \in Incidents
      /\ incident_lock[i] = NoThread
      /\ pc[t] = "lock_incident"
      /\ incident_lock' = [incident_lock EXCEPT ![i] = t]
      /\ copy' = [copy EXCEPT ![t] = [status      |-> incident[i].status,
                                      transaction |-> copy[t].transaction,
                                      updated_at  |-> incident[i].updated_at]]
      /\ pc' = [pc EXCEPT ![t] = "lock_transaction"]
      /\ UNCHANGED <<rows, transaction_lock, request, reply>>
  BY DEF LockIncident, Free, Goto
<1>2. /\ copy' \in [Threads -> Copy]
      /\ copy'[t].status = incident[i].status
      /\ copy'[t].updated_at = incident[i].updated_at
      /\ \A u \in Threads \ {t} : copy'[u] = copy[u]
  <2>1. copy[t] \in Copy /\ incident[i].status \in IncidentStatus
        /\ incident[i].updated_at \in Nat
    BY <1>1 DEF TypeOK
  <2>2. QED BY <1>1, <2>1 DEF TypeOK, Copy
<1>3. TypeOK'
  BY <1>1, <1>2 DEF TypeOK
<1>4. CopiesAreCurrent'
  <2>1. \A u \in Threads \ {t} : pc'[u] = pc[u] /\ request'[u] = request[u]
    BY <1>1 DEF TypeOK
  <2>2. incident_lock'[i] = t /\ pc'[t] = "lock_transaction" /\ request'[t] = request[t]
    BY <1>1 DEF TypeOK
  <2>3. \A u \in Threads \ {t} :
          Active(u) => request[u].command.incident # i
    BY <1>1, NoThreadIsNoThread DEF CopiesAreCurrent, Active
  <2> DEFINE CopyIsCurrent(u) ==
               LET j == request[u].command.incident IN
               /\ Active(u) =>
                    /\ j \in Incidents
                    /\ incident_lock[j] = u
                    /\ copy[u].status = incident[j].status
                    /\ copy[u].updated_at = incident[j].updated_at
               /\ pc[u] = "decide" =>
                    /\ transaction_lock[j] = u
                    /\ copy[u].transaction = transaction[j]
  <2>4. ASSUME NEW u \in Threads \ {t} PROVE CopyIsCurrent(u)'
    <3>1. CopyIsCurrent(u)
      BY DEF CopiesAreCurrent
    <3>2. Active(u) => incident_lock'[request[u].command.incident]
                         = incident_lock[request[u].command.incident]
      BY <1>1, <2>3 DEF TypeOK
    <3>3. pc'[u] = pc[u] /\ request'[u] = request[u] /\ copy'[u] = copy[u]
          /\ transaction_lock' = transaction_lock
          /\ transaction' = transaction /\ incident' = incident
      BY <1>1, <1>2, <2>1 DEF rows
    <3> HIDE DEF Inv
    <3>4. QED BY <3>1, <3>2, <3>3 DEF Active
  <2>5. CopyIsCurrent(t)'
    <3>1. incident' = incident
      BY <1>1 DEF rows
    <3> HIDE DEF Inv
    <3>2. QED BY <1>1, <1>2, <2>2, <3>1
  <2> HIDE DEF Inv
  <2>6. QED BY <2>4, <2>5 DEF CopiesAreCurrent
<1>5. TokensNameVersions'
  BY <1>1 DEF TypeOK, TokensNameVersions, ViewOf
<1>6. UnbrokenHistory' /\ ActsAtMostOnce'
  BY <1>1 DEF UnbrokenHistory, ActsAtMostOnce, HistoryOf, OnceIn, Last
<1>7. QED BY <1>3, <1>4, <1>5, <1>6

\* The second lock keeps the invariant: the copied transaction is current.
LEMMA LockTransactionKeepsInv ==
  ASSUME Inv, NEW t \in Threads, LockTransaction(t)
  PROVE  Inv'
<1> USE DEF Inv
<1> DEFINE i == request[t].command.incident
<1>1. /\ transaction_lock[i] = NoThread
      /\ pc[t] = "lock_transaction"
      /\ transaction_lock' = [transaction_lock EXCEPT ![i] = t]
      /\ copy' = [copy EXCEPT ![t] = [status      |-> copy[t].status,
                                      transaction |-> transaction[i],
                                      updated_at  |-> copy[t].updated_at]]
      /\ pc' = [pc EXCEPT ![t] = "decide"]
      /\ UNCHANGED <<rows, incident_lock, request, reply>>
  BY DEF LockTransaction, Goto
<1>2. i \in Incidents
  BY <1>1 DEF CopiesAreCurrent, Active
<1>3. /\ copy' \in [Threads -> Copy]
      /\ copy'[t].status = copy[t].status
      /\ copy'[t].updated_at = copy[t].updated_at
      /\ copy'[t].transaction = transaction[i]
      /\ \A u \in Threads \ {t} : copy'[u] = copy[u]
  <2>1. copy[t] \in Copy /\ transaction[i] \in TransactionStatus
    BY <1>2 DEF TypeOK
  <2>2. QED BY <1>1, <2>1 DEF TypeOK, Copy
<1>4. TypeOK'
  BY <1>1, <1>2, <1>3 DEF TypeOK
<1>5. CopiesAreCurrent'
  <2>1. \A u \in Threads \ {t} : pc'[u] = pc[u] /\ request'[u] = request[u]
    BY <1>1 DEF TypeOK
  <2>2. transaction_lock'[i] = t /\ pc'[t] = "decide" /\ request'[t] = request[t]
    BY <1>1, <1>2 DEF TypeOK
  <2>3. \A u \in Threads \ {t} :
          pc[u] = "decide" => request[u].command.incident # i
    BY <1>1, NoThreadIsNoThread DEF CopiesAreCurrent, Active
  <2>4. QED BY <1>1, <1>2, <1>3, <2>1, <2>2, <2>3 DEF CopiesAreCurrent, Active, TypeOK
<1>6. TokensNameVersions'
  BY <1>1 DEF TypeOK, TokensNameVersions, ViewOf
<1>7. UnbrokenHistory' /\ ActsAtMostOnce'
  BY <1>1 DEF UnbrokenHistory, ActsAtMostOnce, HistoryOf, OnceIn, Last
<1>8. QED BY <1>4, <1>5, <1>6, <1>7

\* Finishing keeps the invariant: an idle thread handles no request.
LEMMA FinishKeepsInv ==
  ASSUME Inv, NEW t \in Threads, Finish(t)
  PROVE  Inv'
<1> USE DEF Inv
<1>1. /\ pc' = [pc EXCEPT ![t] = "idle"]
      /\ request' = [request EXCEPT ![t] = NoRequest]
      /\ DOMAIN reply' = Threads
      /\ UNCHANGED <<rows, locks, copy>>
  BY DEF Finish, Goto, TypeOK
<1>2. \A u \in Threads \ {t} : pc'[u] = pc[u] /\ request'[u] = request[u]
  BY <1>1 DEF TypeOK
<1>3. pc'[t] = "idle"
  BY <1>1 DEF TypeOK
<1>4. TypeOK'
  BY <1>1, <1>2, <1>3 DEF TypeOK
<1>5. CopiesAreCurrent'
  BY <1>1, <1>2, <1>3 DEF CopiesAreCurrent, Active
<1>6. TokensNameVersions'
  <2>1. \A i \in Incidents : ViewOf(i)' = ViewOf(i)
    BY <1>1 DEF ViewOf
  <2>2. QED BY <1>1, <1>2, <1>3, <2>1 DEF TokensNameVersions
<1>7. UnbrokenHistory' /\ ActsAtMostOnce'
  BY <1>1 DEF UnbrokenHistory, ActsAtMostOnce, HistoryOf, OnceIn, Last
<1>8. QED BY <1>4, <1>5, <1>6, <1>7

-----------------------------------------------------------------------------
(* The step that writes. *)

\* What an accepted action does to the rows of its incident, in terms of the
\* rows themselves: the copies it worked from are what the rows hold.
LEMMA ApplyInTermsOfRows ==
  ASSUME Inv, NEW t \in Threads, Apply(t)
  PROVE  LET c == request[t].command
             i == c.incident
             entry == NewAction(c, copy[t], clock + 1)
         IN /\ c \in Commands /\ Supported(c.ask)
            /\ i \in Incidents
            /\ copy[t] \in Copy
            /\ copy[t].status = incident[i].status
            /\ copy[t].transaction = transaction[i]
            /\ copy[t].updated_at = incident[i].updated_at
            /\ Existing(c) = {}
            /\ entry \in AnalystAction
            /\ AuditDetails(entry) \in AuditEvent
            /\ clock' = clock + 1
            /\ incident' = [incident EXCEPT ![i] =
                 [status |-> entry.new_incident_status, updated_at |-> clock + 1]]
            /\ transaction' = [transaction EXCEPT ![i] = entry.new_transaction_status]
            /\ analyst_actions' = [analyst_actions EXCEPT ![i] = Append(@, entry)]
            /\ audit_events' = [audit_events EXCEPT ![i] = Append(@, AuditDetails(entry))]
            /\ copy' = [copy EXCEPT ![t] = Blank]
            /\ pc' = [pc EXCEPT ![t] = "reply"]
            /\ DOMAIN reply' = Threads
            /\ Unlock(t)
            /\ UNCHANGED request
<1> USE DEF Inv
<1> DEFINE c == request[t].command
           i == c.incident
           entry == NewAction(c, copy[t], clock + 1)
<1>1. pc[t] = "decide"
  BY DEF Apply
<1>2. request[t] \in Request /\ Supported(c.ask) /\ copy[t] \in Copy /\ clock + 1 \in Nat
  BY <1>1 DEF TypeOK
<1>3. c \in Commands
  BY <1>2 DEF Request
<1>4. entry \in AnalystAction /\ AuditDetails(entry) \in AuditEvent
  BY <1>2, <1>3, NewActionIsRow
<1>5. /\ i \in Incidents
      /\ copy[t].status = incident[i].status
      /\ copy[t].transaction = transaction[i]
      /\ copy[t].updated_at = incident[i].updated_at
  BY <1>1 DEF CopiesAreCurrent, Active
<1>6. /\ Existing(c) = {}
      /\ clock' = clock + 1
      /\ incident' = [incident EXCEPT ![i] =
           [status |-> entry.new_incident_status, updated_at |-> clock + 1]]
      /\ transaction' = [transaction EXCEPT ![i] = entry.new_transaction_status]
      /\ analyst_actions' = [analyst_actions EXCEPT ![i] = Append(@, entry)]
      /\ audit_events' = [audit_events EXCEPT ![i] = Append(@, AuditDetails(entry))]
      /\ copy' = [copy EXCEPT ![t] = Blank]
      /\ pc' = [pc EXCEPT ![t] = "reply"]
      /\ Unlock(t)
      /\ UNCHANGED request
  BY DEF Apply, TouchedRow, Goto
<1>7. DOMAIN reply' = Threads
  BY DEF Apply, TypeOK
<1>8. QED BY <1>2, <1>3, <1>4, <1>5, <1>6, <1>7

\* What an accepted action writes keeps the invariant.
LEMMA WriteKeepsInv ==
  ASSUME Inv, NEW t \in Threads, pc[t] = "decide",
         NEW j \in Incidents, NEW e \in AnalystAction, NEW now \in Nat,
         request[t].command.incident = j,
         now = clock + 1,
         AuditDetails(e) \in AuditEvent,
         e.previous_incident_status = incident[j].status,
         e.previous_transaction_status = transaction[j],
         e.created_at = now,
         \A k \in DOMAIN analyst_actions[j] : IdOf(analyst_actions[j][k]) # IdOf(e),
         clock' = now,
         incident' = [incident EXCEPT ![j] =
           [status |-> e.new_incident_status, updated_at |-> now]],
         transaction' = [transaction EXCEPT ![j] = e.new_transaction_status],
         analyst_actions' = [analyst_actions EXCEPT ![j] = Append(@, e)],
         audit_events' = [audit_events EXCEPT ![j] = Append(@, AuditDetails(e))],
         copy' = [copy EXCEPT ![t] = Blank],
         pc' = [pc EXCEPT ![t] = "reply"],
         DOMAIN reply' = Threads,
         Unlock(t),
         request' = request
  PROVE  Inv'
<1> USE DEF Inv
<1>3. clock \in Nat
  BY DEF TypeOK
<1>4. \A u \in Threads \ {t} :
        pc'[u] = pc[u] /\ request'[u] = request[u] /\ copy'[u] = copy[u]
  BY DEF TypeOK
<1>5. \A k \in Incidents \ {j} :
        /\ incident'[k] = incident[k]
        /\ transaction'[k] = transaction[k]
        /\ analyst_actions'[k] = analyst_actions[k]
        /\ audit_events'[k] = audit_events[k]
  BY DEF TypeOK
<1>6. /\ incident'[j] = [status |-> e.new_incident_status, updated_at |-> now]
      /\ transaction'[j] = e.new_transaction_status
      /\ analyst_actions'[j] = Append(analyst_actions[j], e)
      /\ audit_events'[j] = Append(audit_events[j], AuditDetails(e))
  BY DEF TypeOK
<1>7. /\ analyst_actions[j] \in Seq(AnalystAction)
      /\ audit_events[j] \in Seq(AuditEvent)
  BY DEF TypeOK
<1>8. TypeOK'
  <2>1. /\ incident' \in [Incidents -> [status : IncidentStatus, updated_at : Nat]]
        /\ transaction' \in [Incidents -> TransactionStatus]
    BY DEF TypeOK, AnalystAction
  <2>2. /\ analyst_actions' \in [Incidents -> Seq(AnalystAction)]
        /\ audit_events' \in [Incidents -> Seq(AuditEvent)]
    BY <1>7 DEF TypeOK
  <2>3. /\ pc' \in [Threads -> {"idle", "lock_incident", "lock_transaction", "decide", "reply"}]
        /\ copy' \in [Threads -> Copy]
    BY BlankIsCopy DEF TypeOK
  <2>4. /\ incident_lock' \in [Incidents -> Threads \union {NoThread}]
        /\ transaction_lock' \in [Incidents -> Threads \union {NoThread}]
    BY UnlockKeepsOthers
  <2>5. \A u \in Threads :
          /\ pc'[u] # "idle" => request'[u] \in Request
          /\ pc'[u] \in {"lock_incident", "lock_transaction", "decide"} =>
               Supported(request'[u].command.ask)
    BY <1>3 DEF TypeOK
  <2>6. QED BY <2>1, <2>2, <2>3, <2>4, <2>5 DEF TypeOK
<1>9. CopiesAreCurrent'
  <2>1. ASSUME NEW u \in Threads \ {t}, Active(u)
        PROVE  request[u].command.incident \in Incidents \ {j}
    BY <1>3, <2>1 DEF CopiesAreCurrent, Active
  <2>2. pc'[t] = "reply"
    BY DEF TypeOK
  <2>3. \A u \in Threads \ {t} : Active(u)' <=> Active(u)
    BY <1>4 DEF Active
  <2>4. ASSUME NEW u \in Threads \ {t}, Active(u)
        PROVE  /\ incident_lock'[request[u].command.incident] = u
               /\ pc[u] = "decide" => transaction_lock'[request[u].command.incident] = u
    BY <2>1, <2>4, UnlockKeepsOthers DEF CopiesAreCurrent, Active
  <2>5. ASSUME NEW u \in Threads \ {t}, Active(u)
        PROVE  /\ copy'[u].status = incident'[request[u].command.incident].status
               /\ copy'[u].updated_at = incident'[request[u].command.incident].updated_at
               /\ pc[u] = "decide" =>
                    copy'[u].transaction = transaction'[request[u].command.incident]
    BY <1>4, <1>5, <2>1, <2>5 DEF CopiesAreCurrent, Active
  <2>6. QED BY <1>4, <2>1, <2>2, <2>3, <2>4, <2>5 DEF CopiesAreCurrent, Active
<1>10. TokensNameVersions'
  <2>1. \A k \in Incidents : incident'[k].updated_at <= clock'
    <3>1. incident'[j].updated_at <= clock'
      BY <1>6
    <3>2. ASSUME NEW k \in Incidents \ {j}
          PROVE  incident'[k].updated_at <= clock'
      <4>1. incident[k].updated_at \in Nat /\ incident[k].updated_at <= clock
        BY DEF TypeOK, TokensNameVersions
      <4>2. QED BY <1>3, <1>5, <4>1
    <3>3. QED BY <3>1, <3>2
  <2>2. \A k \in Incidents \ {j} : ViewOf(k)' = ViewOf(k)
    BY <1>5 DEF ViewOf
  <2>3. \A u \in Threads :
          pc'[u] # "idle" /\ request'[u].seen # NoView =>
            /\ request'[u].command.incident \in Incidents
            /\ request'[u].seen.updated_at <= clock
            /\ request'[u].seen \in View
            /\ pc[u] # "idle"
    BY <1>3, <1>4 DEF TokensNameVersions, TypeOK, Request
  <2>4. \A u \in Threads :
          pc'[u] # "idle" /\ request'[u].seen # NoView =>
            request'[u].seen.updated_at # incident'[j].updated_at
    BY <1>3, <1>6, <2>3 DEF View
  <2>5. \A u \in Threads :
          pc'[u] # "idle" /\ request'[u].seen # NoView =>
            request'[u].seen.updated_at <= clock'
    BY <1>3, <2>3 DEF View
  <2>6. QED BY <1>5, <2>1, <2>2, <2>3, <2>4, <2>5 DEF TokensNameVersions
<1>11. UnbrokenHistory'
  <2>1. /\ Len(analyst_actions'[j]) = Len(analyst_actions[j]) + 1
        /\ \A k \in 1..Len(analyst_actions[j]) :
             analyst_actions'[j][k] = analyst_actions[j][k]
        /\ analyst_actions'[j][Len(analyst_actions[j]) + 1] = e
        /\ Len(analyst_actions[j]) \in Nat
        /\ analyst_actions[j] # <<>> <=> Len(analyst_actions[j]) > 0
    BY <1>6, <1>7
  <2>2. \A k \in 1..Len(analyst_actions[j]) :
          /\ analyst_actions'[j][k + 1].previous_incident_status
               = analyst_actions'[j][k].new_incident_status
          /\ analyst_actions'[j][k + 1].previous_transaction_status
               = analyst_actions'[j][k].new_transaction_status
    <3>1. ASSUME NEW k \in 1..Len(analyst_actions[j]), k < Len(analyst_actions[j])
          PROVE  /\ analyst_actions'[j][k + 1].previous_incident_status
                      = analyst_actions'[j][k].new_incident_status
                 /\ analyst_actions'[j][k + 1].previous_transaction_status
                      = analyst_actions'[j][k].new_transaction_status
      BY <2>1, <3>1 DEF UnbrokenHistory, HistoryOf
    <3>2. Len(analyst_actions[j]) > 0 =>
            /\ e.previous_incident_status = Last(j).new_incident_status
            /\ e.previous_transaction_status = Last(j).new_transaction_status
      BY <2>1 DEF UnbrokenHistory, HistoryOf
    <3>3. QED BY <2>1, <3>1, <3>2, SMTT(40) DEF Last
  <2>3. /\ incident'[j].status = Last(j)'.new_incident_status
        /\ transaction'[j] = Last(j)'.new_transaction_status
        /\ incident'[j].updated_at = Last(j)'.created_at
    BY <1>6, <2>1 DEF Last
  <2>4. HistoryOf(j)'
    BY <2>1, <2>2, <2>3 DEF HistoryOf
  <2>5. \A k \in Incidents \ {j} : HistoryOf(k)'
    BY <1>5 DEF UnbrokenHistory, HistoryOf, Last
  <2>6. QED BY <2>4, <2>5 DEF UnbrokenHistory
<1>12. ActsAtMostOnce'
  <2>1. /\ DOMAIN analyst_actions[j] = 1..Len(analyst_actions[j])
        /\ DOMAIN analyst_actions'[j] = 1..(Len(analyst_actions[j]) + 1)
        /\ \A k \in 1..Len(analyst_actions[j]) :
             /\ analyst_actions'[j][k] = analyst_actions[j][k]
             /\ audit_events'[j][k] = audit_events[j][k]
        /\ analyst_actions'[j][Len(analyst_actions[j]) + 1] = e
        /\ audit_events'[j][Len(analyst_actions[j]) + 1] = AuditDetails(e)
        /\ Len(audit_events'[j]) = Len(analyst_actions'[j])
        /\ Len(analyst_actions[j]) \in Nat
    <3>1. Len(audit_events[j]) = Len(analyst_actions[j])
      BY DEF ActsAtMostOnce, OnceIn
    <3>2. QED BY <1>6, <1>7, <3>1
  <2>2. \A k \in 1..Len(analyst_actions[j]) : IdOf(analyst_actions[j][k]) # IdOf(e)
    BY <2>1 DEF Existing
  <2>3. \A k \in 1..(Len(analyst_actions[j]) + 1) :
          audit_events'[j][k] = AuditDetails(analyst_actions'[j][k])
    BY <2>1 DEF ActsAtMostOnce, OnceIn
  <2>4. \A k, m \in 1..(Len(analyst_actions[j]) + 1) :
          IdOf(analyst_actions'[j][k]) = IdOf(analyst_actions'[j][m]) => k = m
    BY <2>1, <2>2 DEF ActsAtMostOnce, OnceIn
  <2>5. OnceIn(j)'
    BY <2>1, <2>3, <2>4 DEF OnceIn
  <2>6. \A k \in Incidents \ {j} : OnceIn(k)'
    BY <1>5 DEF ActsAtMostOnce, OnceIn
  <2>7. QED BY <2>5, <2>6 DEF ActsAtMostOnce
<1>13. QED BY <1>8, <1>9, <1>10, <1>11, <1>12

\* An accepted action keeps the invariant.
LEMMA ApplyKeepsInv ==
  ASSUME Inv, NEW t \in Threads, Apply(t)
  PROVE  Inv'
<1> DEFINE c == request[t].command
           i == c.incident
           entry == NewAction(c, copy[t], clock + 1)
<1>1. /\ i \in Incidents
      /\ copy[t].status = incident[i].status
      /\ copy[t].transaction = transaction[i]
      /\ Existing(c) = {}
      /\ entry \in AnalystAction
      /\ AuditDetails(entry) \in AuditEvent
      /\ clock' = clock + 1
      /\ incident' = [incident EXCEPT ![i] =
           [status |-> entry.new_incident_status, updated_at |-> clock + 1]]
      /\ transaction' = [transaction EXCEPT ![i] = entry.new_transaction_status]
      /\ analyst_actions' = [analyst_actions EXCEPT ![i] = Append(@, entry)]
      /\ audit_events' = [audit_events EXCEPT ![i] = Append(@, AuditDetails(entry))]
      /\ copy' = [copy EXCEPT ![t] = Blank]
      /\ pc' = [pc EXCEPT ![t] = "reply"]
      /\ DOMAIN reply' = Threads
      /\ Unlock(t)
      /\ request' = request
  BY ApplyInTermsOfRows
<1>2. /\ entry.previous_incident_status = copy[t].status
      /\ entry.previous_transaction_status = copy[t].transaction
      /\ entry.created_at = clock + 1
      /\ IdOf(entry) = IdOf(c)
  BY DEF NewAction, IdOf
<1>3. \A k \in DOMAIN analyst_actions[i] : IdOf(analyst_actions[i][k]) # IdOf(entry)
  <2>1. \A k \in DOMAIN analyst_actions[i] : IdOf(analyst_actions[i][k]) # IdOf(c)
    <3>1. Existing(c) = {}
      BY <1>1
    <3> HIDE DEF entry
    <3>2. QED BY <3>1 DEF Existing
  <2>2. IdOf(entry) = IdOf(c)
    BY <1>2
  <2> HIDE DEF c, i, entry
  <2>3. QED BY <2>1, <2>2
<1>4. pc[t] = "decide" /\ clock + 1 \in Nat
  BY DEF Apply, Inv, TypeOK
<1>5. request[t].command.incident = i
  OBVIOUS
<1> HIDE DEF entry, i, c
<1>6. QED BY <1>1, <1>2, <1>3, <1>4, <1>5, WriteKeepsInv

-----------------------------------------------------------------------------
(* The theorems. *)

\* The seeded state satisfies the invariant.
LEMMA InitInv == Init => Inv
<1> SUFFICES ASSUME Init PROVE Inv
  OBVIOUS
<1>1. TypeOK
  BY BlankIsCopy DEF Init, TypeOK, IncidentStatus, TransactionStatus
<1>2. CopiesAreCurrent /\ TokensNameVersions
  BY DEF Init, CopiesAreCurrent, TokensNameVersions, Active
<1>3. UnbrokenHistory
  <2>1. ASSUME NEW i \in Incidents PROVE HistoryOf(i)
    BY DEF Init, HistoryOf
  <2>2. QED BY <2>1 DEF UnbrokenHistory
<1>4. ActsAtMostOnce
  BY DEF Init, ActsAtMostOnce, OnceIn
<1>5. QED BY <1>1, <1>2, <1>3, <1>4 DEF Inv

\* Every step of every thread keeps the invariant.
LEMMA NextInv == Inv /\ [Next]_vars => Inv'
<1> SUFFICES ASSUME Inv, [Next]_vars PROVE Inv'
  OBVIOUS
<1>1. CASE UNCHANGED vars
  <2>1. \A i \in Incidents : ViewOf(i)' = ViewOf(i)
    BY <1>1 DEF ViewOf
  <2>2. TypeOK' /\ CopiesAreCurrent'
    BY <1>1 DEF Inv, TypeOK, CopiesAreCurrent, Active
  <2>3. TokensNameVersions'
    BY <1>1, <2>1 DEF Inv, TokensNameVersions
  <2>4. UnbrokenHistory' /\ ActsAtMostOnce'
    BY <1>1 DEF Inv, UnbrokenHistory, ActsAtMostOnce, HistoryOf, OnceIn, Last
  <2>5. QED BY <2>2, <2>3, <2>4 DEF Inv
<1>2. ASSUME NEW t \in Threads, NEW c \in Commands, Submit(t, c) PROVE Inv'
  BY <1>2, SubmitKeepsInv
<1>3. ASSUME NEW t \in Threads, NEW answer, pc[t] # "idle", Refuse(t, answer) PROVE Inv'
  <2>1. DOMAIN reply' = Threads
    BY <1>3 DEF Refuse, Inv, TypeOK
  <2>2. QED BY <1>3, <2>1, LeaveKeepsInv DEF Refuse
<1>4. ASSUME NEW t \in Threads, MissIncident(t) PROVE Inv'
  BY <1>3, <1>4 DEF MissIncident
<1>5. ASSUME NEW t \in Threads, LockIncident(t) PROVE Inv'
  BY <1>5, LockIncidentKeepsInv
<1>6. ASSUME NEW t \in Threads, LockTransaction(t) PROVE Inv'
  BY <1>6, LockTransactionKeepsInv
<1>7. ASSUME NEW t \in Threads, Decide(t) PROVE Inv'
  <2>1. CASE Apply(t)
    BY <2>1, ApplyKeepsInv
  <2>2. CASE Replay(t) \/ RejectReusedKey(t) \/ RejectStaleToken(t) \/ RejectTransition(t)
    BY <1>3, <2>2 DEF Replay, RejectReusedKey, RejectStaleToken, RejectTransition
  <2>3. QED BY <1>7, <2>1, <2>2 DEF Decide
<1>8. ASSUME NEW t \in Threads, Finish(t) PROVE Inv'
  BY <1>8, FinishKeepsInv
<1>9. ASSUME NEW t \in Threads, Die(t) PROVE Inv'
  <2>1. DOMAIN reply' = Threads
    BY <1>9 DEF Die, Inv, TypeOK
  <2>2. QED BY <1>9, <2>1, LeaveKeepsInv DEF Die
<1>10. QED
  BY <1>1, <1>2, <1>4, <1>5, <1>6, <1>7, <1>8, <1>9 DEF Next

\* In every reachable state the row locks, the rows that requests have copied and
\* the tokens that clients hold agree with the database: the inductive invariant,
\* on which the other theorems rest.
THEOREM SpecInv == Spec => []Inv
BY InitInv, NextInv, PTL DEF Spec

\* The variables keep their types.
THEOREM TypeCorrect == Spec => []TypeOK
<1>1. Inv => TypeOK
  BY DEF Inv
<1>2. QED BY <1>1, SpecInv, PTL

\* The recorded actions of every incident are an unbroken chain from its
\* seeded state to its rows, however many threads act on it.
THEOREM HistoryIsUnbroken == Spec => []UnbrokenHistory
<1>1. Inv => UnbrokenHistory
  BY DEF Inv
<1>2. QED BY <1>1, SpecInv, PTL

\* An analyst's idempotency key takes effect on an incident at most once, and
\* is audited exactly as often.
THEOREM KeysActAtMostOnce == Spec => []ActsAtMostOnce
<1>1. Inv => ActsAtMostOnce
  BY DEF Inv
<1>2. QED BY <1>1, SpecInv, PTL

\* A step in which a thread passes from its decision to its answer is a
\* decision of that thread.
LEMMA DecisionIsOfThread ==
  ASSUME Inv, [Next]_vars, NEW t \in Threads, pc[t] = "decide", pc'[t] = "reply"
  PROVE  Decide(t)
<1>1. pc \in [Threads -> {"idle", "lock_incident", "lock_transaction", "decide", "reply"}]
  BY DEF Inv, TypeOK
<1>2. ~ UNCHANGED vars
  OBVIOUS
<1>3. ASSUME NEW u \in Threads, NEW c \in Commands, Submit(u, c) PROVE FALSE
  BY <1>1, <1>3 DEF Submit, Goto
<1>4. ASSUME NEW u \in Threads,
             MissIncident(u) \/ LockIncident(u) \/ LockTransaction(u) \/ Finish(u) \/ Die(u)
      PROVE  FALSE
  BY <1>1, <1>4
  DEF MissIncident, LockIncident, LockTransaction, Finish, Die, Refuse, Goto
<1>5. ASSUME NEW u \in Threads, Decide(u) PROVE u = t
  BY <1>1, <1>5
  DEF Decide, Replay, RejectReusedKey, RejectStaleToken, RejectTransition, Apply, Refuse, Goto
<1>6. QED BY <1>2, <1>3, <1>4, <1>5 DEF Next

\* The answer of a thread that ends without a write is the one it gives.
LEMMA RefusalAnswers ==
  ASSUME Inv, NEW t \in Threads, NEW answer, Refuse(t, answer)
  PROVE  reply'[t] = answer
BY DEF Refuse, Inv, TypeOK

\* A step that answers "recorded" is the Apply step of that thread.
LEMMA RecordedMeansApplied ==
  ASSUME Inv, [Next]_vars, NEW t \in Threads, Decides(t, "recorded")
  PROVE  Apply(t)
<1>1. pc[t] = "decide" /\ pc'[t] = "reply" /\ reply'[t].outcome = "recorded"
  BY DEF Decides
<1>2. Decide(t)
  BY <1>1, DecisionIsOfThread
<1>3. ~ Refuse(t, Conflict)
  BY <1>1, RefusalAnswers DEF Conflict
<1>4. ASSUME NEW view, NEW action PROVE ~ Refuse(t, Answer("replayed", view, action))
  <2>1. Answer("replayed", view, action).outcome # "recorded"
    BY DEF Answer
  <2>2. QED BY <1>1, <2>1, RefusalAnswers
<1>5. ~ Replay(t)
  BY <1>4 DEF Replay
<1>6. QED
  BY <1>2, <1>3, <1>5 DEF Decide, RejectReusedKey, RejectStaleToken, RejectTransition

\* An action with a token is recorded only on the very case its client saw.
THEOREM TokensGuardActions == Spec => TokenMeansUnchanged
<1>1. Inv /\ [Next]_vars => TokenStep
  <2> SUFFICES ASSUME Inv, [Next]_vars, NEW t \in Threads,
                      Decides(t, "recorded"), request[t].seen # NoView
               PROVE  request[t].seen = ViewOf(request[t].command.incident)
    BY DEF TokenStep
  <2>1. Apply(t)
    BY RecordedMeansApplied
  <2>2. request[t].seen.updated_at = copy[t].updated_at /\ pc[t] = "decide"
    BY <2>1 DEF Apply, TokenHolds
  <2>3. /\ request[t].command.incident \in Incidents
        /\ copy[t].updated_at = incident[request[t].command.incident].updated_at
    BY <2>2 DEF Inv, CopiesAreCurrent, Active
  <2>4. QED BY <2>2, <2>3 DEF Inv, TokensNameVersions
<1>2. QED BY <1>1, SpecInv, PTL DEF Spec, TokenMeansUnchanged

\* What a deciding thread knows: its incident has a row, and its copies are
\* the rows.
LEMMA DecidingOnCurrentRows ==
  ASSUME Inv, NEW t \in Threads, pc[t] = "decide"
  PROVE  LET i == request[t].command.incident
         IN /\ i \in Incidents
            /\ copy[t].status = incident[i].status
            /\ copy[t].transaction = transaction[i]
            /\ copy[t].updated_at = incident[i].updated_at
BY DEF Inv, CopiesAreCurrent, Active

\* A command that finds its own action is answered with it: neither the token
\* nor the transition is looked at any more.
THEOREM RetriesAreReplayed == Spec => RetryIsReplayed
<1>1. Inv /\ [Next]_vars => RetryStep
  <2> SUFFICES ASSUME Inv, [Next]_vars, NEW t \in Threads,
                      pc[t] = "decide", pc'[t] = "reply",
                      NEW k \in DOMAIN analyst_actions[request[t].command.incident],
                      IdOf(analyst_actions[request[t].command.incident][k])
                        = IdOf(request[t].command),
                      SameContent(analyst_actions[request[t].command.incident][k],
                                  request[t].command)
               PROVE  /\ reply'[t].outcome = "replayed"
                      /\ IdOf(reply'[t].action) = IdOf(request[t].command)
    BY DEF RetryStep
  <2> DEFINE c == request[t].command
             log == analyst_actions[c.incident]
  <2>1. c.incident \in Incidents
    BY DecidingOnCurrentRows
  <2>2. k \in Existing(c)
    BY DEF Existing
  <2>3. \A j \in Existing(c) : j = k
    BY <2>1 DEF Existing, Inv, ActsAtMostOnce, OnceIn
  <2>4. Replay(t)
    <3>1. ~ RejectReusedKey(t)
      BY <2>3 DEF RejectReusedKey
    <3>2. ~ (RejectStaleToken(t) \/ RejectTransition(t) \/ Apply(t))
      BY <2>2 DEF RejectStaleToken, RejectTransition, Apply
    <3>3. QED BY <3>1, <3>2, DecisionIsOfThread DEF Decide
  <2>5. Refuse(t, Answer("replayed", copy[t], log[k]))
    BY <2>3, <2>4 DEF Replay
  <2>6. reply'[t] = Answer("replayed", copy[t], log[k])
    BY <2>5, RefusalAnswers
  <2>7. QED BY <2>6 DEF Answer
<1>2. QED BY <1>1, SpecInv, PTL DEF Spec, RetryIsReplayed

\* An action the page offered is not refused while the case is still the one
\* the client saw and its key is fresh.
THEOREM OfferedActionsAreAccepted == Spec => OfferedActionIsAccepted
<1>1. Inv /\ [Next]_vars => OfferStep
  <2> SUFFICES ASSUME Inv, [Next]_vars, NEW t \in Threads,
                      Decides(t, "conflict"),
                      \A k \in DOMAIN analyst_actions[request[t].command.incident] :
                        IdOf(analyst_actions[request[t].command.incident][k])
                          # IdOf(request[t].command),
                      ActionOf(request[t].command.ask)
                        \in AvailableActions(request[t].seen.status,
                                             request[t].seen.transaction),
                      request[t].seen = ViewOf(request[t].command.incident)
               PROVE  FALSE
    BY DEF OfferStep
  <2> DEFINE c == request[t].command
             i == c.incident
  <2>1. pc[t] = "decide" /\ pc'[t] = "reply" /\ reply'[t].outcome = "conflict"
    BY DEF Decides
  <2>2. /\ request[t].seen.status = copy[t].status
        /\ request[t].seen.transaction = copy[t].transaction
        /\ request[t].seen.updated_at = copy[t].updated_at
    <3>1. /\ copy[t].status = incident[i].status
          /\ copy[t].transaction = transaction[i]
          /\ copy[t].updated_at = incident[i].updated_at
      BY <2>1, DecidingOnCurrentRows
    <3>2. /\ request[t].seen.status = incident[i].status
          /\ request[t].seen.transaction = transaction[i]
          /\ request[t].seen.updated_at = incident[i].updated_at
      BY DEF ViewOf
    <3>3. QED BY <3>1, <3>2
  <2>3. Existing(c) = {}
    BY DEF Existing
  <2>4. TokenHolds(t)
    BY <2>2 DEF TokenHolds
  <2>5. AcceptedByCopy(t)
    BY <2>2 DEF AcceptedByCopy, AvailableActions
  <2>6. Apply(t)
    <3>1. ~ (Replay(t) \/ RejectReusedKey(t))
      BY <2>3 DEF Replay, RejectReusedKey
    <3>2. ~ (RejectStaleToken(t) \/ RejectTransition(t))
      BY <2>4, <2>5 DEF RejectStaleToken, RejectTransition
    <3>3. QED BY <2>1, <3>1, <3>2, DecisionIsOfThread DEF Decide
  <2>7. reply'[t].outcome = "recorded"
    <3>1. PICK rowsRead, action : reply' = [reply EXCEPT ![t] = Answer("recorded", rowsRead, action)]
      BY <2>6 DEF Apply
    <3>2. t \in DOMAIN reply
      BY DEF Inv, TypeOK
    <3>3. reply'[t] = Answer("recorded", rowsRead, action)
      BY <3>1, <3>2
    <3>4. QED BY <3>3 DEF Answer
  <2>8. QED BY <2>1, <2>7
<1>2. QED BY <1>1, SpecInv, PTL DEF Spec, OfferedActionIsAccepted

-----------------------------------------------------------------------------
(* Refinement: the threads implement the atomic case. *)

\* An accepted transition is one of the moves of the abstract case.
LEMMA AcceptedIsMove ==
  ASSUME NEW c, NEW action \in AnalystActionType,
         c.status \in IncidentStatus, c.transaction \in TransactionStatus,
         Accepts(c.status, c.transaction, action)
  PROVE  <<StatusAfter(c.status, action), TransactionAfter(c.transaction, action)>>
           \in Abstract!Moves(c)
<1>1. CASE action = "add_note"
  BY <1>1 DEF StatusAfter, TransactionAfter, IncidentTransition, SimulatedResponse,
              Abstract!Moves
<1>2. CASE action \in DOMAIN IncidentTransition
  <2>1. TransactionAfter(c.transaction, action) = c.transaction
    BY <1>2 DEF TransactionAfter, IncidentTransition, SimulatedResponse
  <2>2. <<c.status, StatusAfter(c.status, action)>> \in Abstract!Disposition
    BY <1>2 DEF Accepts, StatusAfter, IncidentTransition, SimulatedResponse,
                Abstract!Disposition
  <2>3. QED BY <2>1, <2>2 DEF Abstract!Moves
<1>3. CASE action \in DOMAIN SimulatedResponse
  <2>1. StatusAfter(c.status, action) = c.status
    BY <1>3 DEF StatusAfter, IncidentTransition, SimulatedResponse
  <2>2. c.status # "closed"
        /\ <<c.transaction, TransactionAfter(c.transaction, action)>> \in Abstract!Response
    BY <1>3 DEF Accepts, TransactionAfter, IncidentTransition, SimulatedResponse,
                Abstract!Response
  <2>3. QED BY <2>1, <2>2 DEF Abstract!Moves
<1>4. QED BY <1>1, <1>2, <1>3 DEF Accepts

\* What a write does to the abstract cases.
LEMMA CaseAfterWrite ==
  ASSUME TypeOK, NEW j \in Incidents, NEW e \in AnalystAction, NEW now,
         incident' = [incident EXCEPT ![j] =
           [status |-> e.new_incident_status, updated_at |-> now]],
         transaction' = [transaction EXCEPT ![j] = e.new_transaction_status],
         analyst_actions' = [analyst_actions EXCEPT ![j] = Append(@, e)]
  PROVE  /\ CaseOf(j)' = [status      |-> e.new_incident_status,
                          transaction |-> e.new_transaction_status,
                          spent       |-> CaseOf(j).spent \union {IdOf(e)}]
         /\ \A k \in Incidents \ {j} : CaseOf(k)' = CaseOf(k)
<1> DEFINE log == analyst_actions[j]
<1>1. /\ log \in Seq(AnalystAction)
      /\ analyst_actions'[j] = Append(log, e)
      /\ incident'[j].status = e.new_incident_status
      /\ transaction'[j] = e.new_transaction_status
  BY DEF TypeOK
<1>2. {IdOf(analyst_actions'[j][k]) : k \in DOMAIN analyst_actions'[j]}
        = {IdOf(log[k]) : k \in DOMAIN log} \union {IdOf(e)}
  <2>1. /\ DOMAIN log = 1..Len(log)
        /\ Len(log) \in Nat
        /\ DOMAIN Append(log, e) = 1..(Len(log) + 1)
        /\ \A k \in 1..Len(log) : Append(log, e)[k] = log[k]
        /\ Append(log, e)[Len(log) + 1] = e
    BY <1>1
  <2> HIDE DEF log
  <2>2. \A k \in 1..(Len(log) + 1) : k \in 1..Len(log) \/ k = Len(log) + 1
    BY <2>1
  <2>3. {IdOf(Append(log, e)[k]) : k \in DOMAIN Append(log, e)}
          \subseteq {IdOf(log[k]) : k \in DOMAIN log} \union {IdOf(e)}
    BY <2>1, <2>2
  <2>4. {IdOf(log[k]) : k \in DOMAIN log} \union {IdOf(e)}
          \subseteq {IdOf(Append(log, e)[k]) : k \in DOMAIN Append(log, e)}
    BY <2>1
  <2>5. QED BY <1>1, <2>3, <2>4, ZenonT(60)
<1>3. CaseOf(j)' = [status      |-> e.new_incident_status,
                    transaction |-> e.new_transaction_status,
                    spent       |-> CaseOf(j).spent \union {IdOf(e)}]
  BY <1>1, <1>2 DEF CaseOf
<1>4. \A k \in Incidents \ {j} : CaseOf(k)' = CaseOf(k)
  BY DEF CaseOf, TypeOK
<1>5. QED BY <1>3, <1>4

\* Apply is one step of the abstract case, under a fresh action id.
LEMMA ApplyIsAct ==
  ASSUME Inv, NEW t \in Threads, Apply(t)
  PROVE  LET c == request[t].command
         IN Abstract!Act(c.incident, IdOf(c))
<1> DEFINE c == request[t].command
           i == c.incident
           entry == NewAction(c, copy[t], clock + 1)
           log == analyst_actions[i]
<1>1. /\ i \in Incidents
      /\ c \in Commands /\ Supported(c.ask)
      /\ copy[t].status = incident[i].status
      /\ copy[t].transaction = transaction[i]
      /\ Existing(c) = {}
      /\ entry \in AnalystAction
      /\ incident' = [incident EXCEPT ![i] =
           [status |-> entry.new_incident_status, updated_at |-> clock + 1]]
      /\ transaction' = [transaction EXCEPT ![i] = entry.new_transaction_status]
      /\ analyst_actions' = [analyst_actions EXCEPT ![i] = Append(@, entry)]
  BY ApplyInTermsOfRows
<1>2. /\ entry.new_incident_status = StatusAfter(copy[t].status, ActionOf(c.ask))
      /\ entry.new_transaction_status = TransactionAfter(copy[t].transaction, ActionOf(c.ask))
      /\ IdOf(entry) = IdOf(c)
  BY DEF NewAction, IdOf
<1>3. ActionOf(c.ask) \in AnalystActionType
  BY <1>1, CommandsAreCommands, AskNamesAction DEF Command
<1>4. Accepts(copy[t].status, copy[t].transaction, ActionOf(c.ask))
  BY DEF Apply, AcceptedByCopy
<1>5. IdOf(c) \notin CaseOf(i).spent
  BY <1>1 DEF Existing, CaseOf
<1>6. <<entry.new_incident_status, entry.new_transaction_status>>
        \in Abstract!Moves(CaseOf(i))
  <2>1. CaseOf(i).status = copy[t].status /\ CaseOf(i).transaction = copy[t].transaction
    BY <1>1 DEF CaseOf
  <2>2. incident[i].status \in IncidentStatus /\ transaction[i] \in TransactionStatus
    BY <1>1 DEF Inv, TypeOK
  <2>3. QED BY <1>1, <1>2, <1>3, <1>4, <2>1, <2>2, AcceptedIsMove
<1>7. PICK j \in Incidents : j = i
  BY <1>1
<1>8. IdOf(c) \notin CaseOf(j).spent
  BY <1>5, <1>7
<1>9. <<entry.new_incident_status, entry.new_transaction_status>>
        \in Abstract!Moves(CaseOf(j))
  BY <1>6, <1>7
<1>10. PICK e \in AnalystAction : e = entry
  BY <1>1
<1>11. /\ incident' = [incident EXCEPT ![j] =
            [status |-> e.new_incident_status, updated_at |-> clock + 1]]
       /\ transaction' = [transaction EXCEPT ![j] = e.new_transaction_status]
       /\ analyst_actions' = [analyst_actions EXCEPT ![j] = Append(@, e)]
  BY <1>1, <1>7, <1>10
<1>12. /\ CaseOf(j)' = [status      |-> e.new_incident_status,
                        transaction |-> e.new_transaction_status,
                        spent       |-> CaseOf(j).spent \union {IdOf(e)}]
       /\ \A k \in Incidents \ {j} : CaseOf(k)' = CaseOf(k)
  BY <1>11, CaseAfterWrite DEF Inv
<1>13. [k \in Incidents |-> CaseOf(k)]'
         = [[k \in Incidents |-> CaseOf(k)] EXCEPT ![j] =
              [status      |-> e.new_incident_status,
               transaction |-> e.new_transaction_status,
               spent       |-> CaseOf(j).spent \union {IdOf(e)}]]
  BY <1>12
<1>14. IdOf(e) = IdOf(c)
  BY <1>2, <1>10
<1>15. Abstract!Act(j, IdOf(e))
  <2>1. <<e.new_incident_status, e.new_transaction_status>> \in Abstract!Moves(CaseOf(j))
    BY <1>9, <1>10
  <2>2. IdOf(e) \notin CaseOf(j).spent
    BY <1>8, <1>14
  <2> DEFINE all == [k \in Incidents |-> CaseOf(k)]
  <2>3. all[j] = CaseOf(j)
    OBVIOUS
  <2>4. all' = [all EXCEPT ![j] =
              [status      |-> e.new_incident_status,
               transaction |-> e.new_transaction_status,
               spent       |-> all[j].spent \union {IdOf(e)}]]
    BY <1>13, <2>3
  <2>5. QED BY <2>1, <2>2, <2>3, <2>4 DEF Abstract!Act
<1>16. QED BY <1>7, <1>14, <1>15

\* The abstract case starts where the workflow starts.
LEMMA InitIsInit == Init => Abstract!Init
<1> SUFFICES ASSUME Init PROVE Abstract!Init
  OBVIOUS
<1>1. transaction \in [Incidents -> {"permitted", "pending", "held"}]
  BY DEF Init
<1>2. \A i \in Incidents :
        CaseOf(i) = [status |-> "open", transaction |-> transaction[i], spent |-> {}]
  <2>1. ASSUME NEW i \in Incidents
        PROVE  /\ incident[i].status = "open"
               /\ {IdOf(analyst_actions[i][k]) : k \in DOMAIN analyst_actions[i]} = {}
    <3>1. analyst_actions[i] = <<>> /\ incident[i].status = "open"
      BY DEF Init
    <3>2. DOMAIN analyst_actions[i] = {}
      BY <3>1
    <3>3. QED BY <3>1, <3>2
  <2>2. QED BY <2>1 DEF CaseOf
<1>3. QED BY <1>1, <1>2 DEF Abstract!Init

\* Every step is an abstract step or leaves every case as it is.
LEMMA NextIsNext ==
  Inv /\ [Next]_vars => [Abstract!Next]_[i \in Incidents |-> CaseOf(i)]
<1> SUFFICES ASSUME Inv, [Next]_vars
             PROVE  Abstract!Next \/ UNCHANGED [i \in Incidents |-> CaseOf(i)]
  OBVIOUS
<1>1. ASSUME NEW t \in Threads, Apply(t) PROVE Abstract!Next
  <2>1. request[t].command \in Commands /\ request[t].command.incident \in Incidents
    BY <1>1, ApplyInTermsOfRows
  <2>2. IdOf(request[t].command) \in Analysts \X Keys
    BY <2>1, CommandsAreCommands DEF Command, IdOf
  <2>3. QED BY <1>1, <2>1, <2>2, ApplyIsAct DEF Abstract!Next
<1>2. ASSUME UNCHANGED rows PROVE UNCHANGED [i \in Incidents |-> CaseOf(i)]
  BY <1>2 DEF CaseOf
<1>3. CASE UNCHANGED vars
  BY <1>2, <1>3
<1>4. ASSUME NEW t \in Threads, NEW c \in Commands, Submit(t, c) PROVE UNCHANGED rows
  BY <1>4 DEF Submit
<1>5. ASSUME NEW t \in Threads,
             \/ MissIncident(t) \/ LockIncident(t) \/ LockTransaction(t)
             \/ Replay(t) \/ RejectReusedKey(t) \/ RejectStaleToken(t)
             \/ RejectTransition(t) \/ Finish(t) \/ Die(t)
      PROVE  UNCHANGED rows
  BY <1>5 DEF MissIncident, LockIncident, LockTransaction, Replay, RejectReusedKey,
              RejectStaleToken, RejectTransition, Finish, Die, Refuse
<1>6. QED BY <1>1, <1>2, <1>3, <1>4, <1>5 DEF Next, Decide

\* The concurrent workflow, with its locks, retries and crashes, implements
\* the atomic case of IncidentCase.
THEOREM WorkflowImplementsCase == Spec => ImplementsCase
BY InitIsInit, NextIsNext, SpecInv, PTL DEF Spec, ImplementsCase, Abstract!Spec
=============================================================================
