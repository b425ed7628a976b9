----------------------------- MODULE CaseReading -----------------------------
(***************************************************************************)
(* Reading incidents while they change.  The detail of an incident is read *)
(* in four statements and the list in two, each of which sees what was     *)
(* committed when it began; between them analysts act, a scenario runs and *)
(* a reset replaces the dataset, each in one commit.                       *)
(*                                                                         *)
(* A client has one request under way: the detail of an incident, or the   *)
(* pages of the list, one after the other.                                 *)
(*                                                                         *)
(* The definitions named Faulty... are not the program: each is a way the  *)
(* definition that follows it could be wrong.                              *)
(***************************************************************************)
EXTENDS CaseTransitions, Provenance, SequencesExt

CONSTANTS
  Clients,
  Actions,     \* the actions analysts take
  Sorts,       \* the columns clients sort the list by
  Filters,     \* the filters they use
  PageSize,
  MaxActions,  \* bound on the actions of analysts
  MaxResets    \* bound on the resets

ASSUME PagesHoldItems == PageSize \in Nat \ {0}
ASSUME ActionsAreActions == Actions \subseteq AnalystActionType
ASSUME SortsAreSorts ==
  Sorts \subseteq {"created_at", "updated_at", "severity", "fused_score", "status"}
ASSUME FiltersAreFilters == Filters \subseteq {"all", "critical", "open"}

VARIABLES
  case,     \* the incidents, with their transactions and their actions
  clock,    \* the number of commits on incidents so far
  reset,    \* the number of resets so far
  run,      \* history: the number of scenario runs so far
  reading,  \* what each client has read of an incident
  walking   \* where it is in the list

vars == <<case, clock, reset, run, reading, walking>>

-----------------------------------------------------------------------------
(* The incidents: two of the background, which every reset creates again, and *)
(* those of two scenarios.  Identities are deterministic, and so is all that  *)
(* analysts do not change.                                                    *)

Background == {"background_low", "background_critical"}
Scenarios == {"normal_activity", "account_takeover"}
Incidents == Background \union Scenarios

Contributions ==
  [background_low      |-> BackgroundContributions(0),
   background_critical |-> BackgroundContributions(12),
   normal_activity     |-> ScenarioContributions(NORMAL_ACTIVITY),
   account_takeover    |-> ScenarioContributions(ACCOUNT_TAKEOVER)]

Events ==
  [background_low      |-> {"login_success"},
   background_critical |-> {"login_success", "mfa_success"},
   normal_activity     |-> NORMAL_ACTIVITY.events,
   account_takeover    |-> ACCOUNT_TAKEOVER.events]

\* correlation_bonus of the incident, as its row has it.
Bonus(i) == BonusOf(Contributions[i])

FusedScore ==
  [background_low |-> 9, background_critical |-> 86, normal_activity |-> 9,
   account_takeover |-> 89]

CreatedAt ==
  [background_low |-> 1, background_critical |-> 2, normal_activity |-> 3,
   account_takeover |-> 4]

SeverityOrder(i) == IF FusedScore[i] <= 19 THEN 0 ELSE 4

\* A new incident is open; what becomes of its transaction is the decision.
Fresh(i) ==
  [there |-> TRUE, status |-> "open",
   transaction |-> IF FusedScore[i] >= 60 THEN "held" ELSE "permitted",
   updated |-> 0, actions |-> <<>>]

Absent == [there |-> FALSE, status |-> "open", transaction |-> "permitted",
           updated |-> 0, actions |-> <<>>]

-----------------------------------------------------------------------------
(* The writers. *)

\* An analyst's action: the incident, its transaction and the record of the
\* action in one commit.
Act(i, action) ==
  /\ case[i].there
  /\ clock < MaxActions
  /\ Accepts(case[i].status, case[i].transaction, action)
  /\ LET c == case[i]
         status == StatusAfter(c.status, action)
         transaction == TransactionAfter(c.transaction, action)
     IN  case' = [case EXCEPT ![i] =
           [there |-> TRUE, status |-> status, transaction |-> transaction,
            updated |-> clock + 1,
            actions |-> Append(c.actions,
              [at |-> clock + 1, previous |-> <<c.status, c.transaction>>,
               new |-> <<status, transaction>>])]]
  /\ clock' = clock + 1
  /\ UNCHANGED <<reset, run, reading, walking>>

\* A scenario that has no incident yet runs.
Run(i) ==
  /\ i \in Scenarios /\ ~ case[i].there
  /\ case' = [case EXCEPT ![i] = Fresh(i)]
  /\ run' = run + 1
  /\ UNCHANGED <<clock, reset, reading, walking>>

Reset ==
  /\ reset < MaxResets
  /\ reset' = reset + 1
  /\ case' = [i \in Incidents |-> IF i \in Background THEN Fresh(i) ELSE Absent]
  /\ UNCHANGED <<clock, run, reading, walking>>

-----------------------------------------------------------------------------
(* The detail. *)

NoReading ==
  [at |-> "idle", incident |-> "background_low", row |-> Absent, contributions |-> {},
   actions |-> <<>>, events |-> {}, reset |-> 0]

Waiting(r) ==
  /\ reading[r].at \in {"idle", "404", "500", "detail"}
  /\ walking[r].at \in {"idle", "end"}

NoWalk ==
  [at |-> "idle", sort |-> "created_at", descending |-> TRUE, filter |-> "all",
   page |-> 0, total |-> 0, shown |-> <<>>, reset |-> 0, run |-> 0]

Ask(r, i) ==
  /\ Waiting(r)
  /\ walking' = [walking EXCEPT ![r] = NoWalk]
  /\ reading' = [reading EXCEPT ![r] =
       [NoReading EXCEPT !.at = "row", !.incident = i, !.reset = reset]]
  /\ UNCHANGED <<case, clock, reset, run>>

\* The incident joined with its transaction, customer, session and so on.
ReadRow(r) ==
  /\ reading[r].at = "row"
  /\ LET c == case[reading[r].incident] IN
     reading' = [reading EXCEPT ![r].at = IF c.there THEN "contributions" ELSE "404",
                                ![r].row = IF c.there THEN c ELSE Absent]
  /\ UNCHANGED <<case, clock, reset, run, walking>>

ReadContributions(r) ==
  /\ reading[r].at = "contributions"
  /\ LET i == reading[r].incident IN
     reading' = [reading EXCEPT ![r].at = "actions",
       ![r].contributions = IF case[i].there THEN Contributions[i] ELSE {}]
  /\ UNCHANGED <<case, clock, reset, run, walking>>

ReadActions(r) ==
  /\ reading[r].at = "actions"
  /\ reading' = [reading EXCEPT ![r].at = "events",
       ![r].actions = case[reading[r].incident].actions]
  /\ UNCHANGED <<case, clock, reset, run, walking>>

\* The incident is refreshed before the response is put together.
FaultyReadEvents(r) ==
  /\ reading[r].at = "events"
  /\ LET i == reading[r].incident IN
     reading' = [reading EXCEPT ![r].at = "project", ![r].row = case[i],
       ![r].events = IF case[i].there THEN Events[i] ELSE {}]
  /\ UNCHANGED <<case, clock, reset, run, walking>>

ReadEvents(r) ==
  /\ reading[r].at = "events"
  /\ LET i == reading[r].incident IN
     reading' = [reading EXCEPT ![r].at = "project",
       ![r].events = IF case[i].there THEN Events[i] ELSE {}]
  /\ UNCHANGED <<case, clock, reset, run, walking>>

\* No check of the sum.
FaultyMatchesBonus(contributions, i) == TRUE

MatchesBonus(contributions, i) == BonusOf(contributions) = Bonus(i)

\* The response is put together, or refused for its provenance.
Project(r) ==
  /\ reading[r].at = "project"
  /\ LET contributions == reading[r].contributions IN
     reading' = [reading EXCEPT ![r].at =
       IF Projectable(contributions) /\ MatchesBonus(contributions, reading[r].incident)
         THEN "detail" ELSE "500"]
  /\ UNCHANGED <<case, clock, reset, run, walking>>

-----------------------------------------------------------------------------
(* The list. *)

StatusRank ==
  [open |-> 0, in_review |-> 1, confirmed_fraud |-> 2, legitimate |-> 3, closed |-> 4]

SortKey(i, sort) ==
  CASE sort = "created_at"  -> CreatedAt[i]
    [] sort = "updated_at"  -> case[i].updated
    [] sort = "severity"    -> SeverityOrder(i)
    [] sort = "fused_score" -> FusedScore[i]
    [] sort = "status"      -> StatusRank[case[i].status]

\* The sorted column alone.
FaultyPrecedes(i, j, w) ==
  IF w.descending THEN SortKey(i, w.sort) >= SortKey(j, w.sort)
  ELSE SortKey(i, w.sort) <= SortKey(j, w.sort)

\* Whether the ORDER BY lets an incident precede another.
Precedes(i, j, w) ==
  \/ SortKey(i, w.sort) # SortKey(j, w.sort)
     /\ (SortKey(i, w.sort) > SortKey(j, w.sort) <=> w.descending)
  \/ SortKey(i, w.sort) = SortKey(j, w.sort) /\ CreatedAt[i] > CreatedAt[j]

Matches(i, filter) ==
  CASE filter = "all"      -> TRUE
    [] filter = "critical" -> SeverityOrder(i) = 4
    [] filter = "open"     -> case[i].status = "open"

Listed(w) == {i \in Incidents : case[i].there /\ Matches(i, w.filter)}

\* What the statement of a page may return: the orders that the ORDER BY allows.
Orders(w) ==
  {s \in SetToSeqs(Listed(w)) : \A j, k \in 1..Len(s) : j < k => Precedes(s[j], s[k], w)}

Page(order, n) == SubSeq(order, (n - 1) * PageSize + 1, Min({n * PageSize, Len(order)}))

TotalPages(total) == (total + PageSize - 1) \div PageSize

Walk(w, sort, descending, filter) ==
  /\ Waiting(w)
  /\ reading' = [reading EXCEPT ![w] = NoReading]
  /\ walking' = [walking EXCEPT ![w] =
       [NoWalk EXCEPT !.at = "count", !.sort = sort, !.descending = descending,
        !.filter = filter, !.page = 1, !.reset = reset, !.run = run]]
  /\ UNCHANGED <<case, clock, reset, run>>

Count(w) ==
  /\ walking[w].at = "count"
  /\ walking' = [walking EXCEPT ![w].at = "rows", ![w].total = Cardinality(Listed(walking[w]))]
  /\ UNCHANGED <<case, clock, reset, run, reading>>

\* The rows of the page; the walker goes on while there are pages left.
Rows(w) ==
  /\ walking[w].at = "rows"
  /\ \E order \in Orders(walking[w]) :
       walking' = [walking EXCEPT
         ![w].shown = @ \o Page(order, walking[w].page),
         ![w].at = IF walking[w].page < TotalPages(walking[w].total) THEN "count" ELSE "end",
         ![w].page = @ + 1]
  /\ UNCHANGED <<case, clock, reset, run, reading>>
-----------------------------------------------------------------------------
Init ==
  /\ case = [i \in Incidents |-> IF i \in Background THEN Fresh(i) ELSE Absent]
  /\ clock = 0 /\ reset = 0 /\ run = 0
  /\ reading = [r \in Clients |-> NoReading]
  /\ walking = [w \in Clients |-> NoWalk]

Write ==
  \/ \E i \in Incidents, action \in Actions : Act(i, action)
  \/ \E i \in Incidents : Run(i)
  \/ Reset

Read(r) ==
  \/ \E i \in Incidents : Ask(r, i)
  \/ ReadRow(r) \/ ReadContributions(r) \/ ReadActions(r) \/ ReadEvents(r) \/ Project(r)

List(w) ==
  \/ \E sort \in Sorts, descending \in BOOLEAN, filter \in Filters :
       Walk(w, sort, descending, filter)
  \/ Count(w) \/ Rows(w)

Next == Write \/ \E c \in Clients : Read(c) \/ List(c)

Spec == Init /\ [][Next]_vars
-----------------------------------------------------------------------------
Undisturbed(x) == x.reset = reset

\* The detail explains the state it shows.  However the actions of analysts
\* fall between the statements, the listed actions lead from the start of the
\* case to the status, the transaction and the token that the detail shows, and
\* from there only on: none that the token knows of is missing.
StatusIsExplained ==
  \A r \in Clients :
    LET read == reading[r] IN
    read.at = "detail" /\ Undisturbed(read) =>
      \E n \in 0..Len(read.actions) :
        /\ SubSeq(read.actions, 1, n) = read.row.actions
        /\ n = 0 => read.row = Fresh(read.incident)
        /\ n > 0 => /\ read.actions[n].new = <<read.row.status, read.row.transaction>>
                    /\ read.actions[n].at = read.row.updated
        /\ \A k \in (n + 1)..Len(read.actions) :
             read.actions[k].previous =
               IF k = 1 THEN <<read.row.status, read.row.transaction>>
               ELSE read.actions[k - 1].new

\* An incident with a bonus is never shown without the evidence for it: a
\* detail has all of its interactions with both their components, even when a
\* reset removed the incident half way through.
BonusIsEvidenced ==
  \A r \in Clients :
    reading[r].at = "detail" =>
      Bonus(reading[r].incident) = BonusOf({p[1] : p \in Pairs(reading[r].contributions)})

\* A detail is refused only for a reset: what the engines and the seeding
\* store can always be paired again.
OnlyResetsHideProvenance ==
  \A r \in Clients : reading[r].at = "500" => ~ Undisturbed(reading[r])

Immutable == {"created_at", "severity", "fused_score"}

\* A walk through the pages shows every incident once, whatever analysts do in
\* the meantime, when it sorts and filters by what they cannot change.
PagesCoverTheList ==
  \A w \in Clients :
    LET walk == walking[w] IN
    (/\ walk.at = "end" /\ Undisturbed(walk) /\ walk.run = run
     /\ walk.sort \in Immutable /\ walk.filter # "open") =>
      IsInjective(walk.shown) /\ ToSet(walk.shown) = Listed(walk)
=============================================================================
