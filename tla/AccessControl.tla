---------------------------- MODULE AccessControl ----------------------------
(***************************************************************************)
(* Logins, public demo access and the authorization of every other request *)
(* of one API process: the worker threads, the two in-process limiters,    *)
(* the connection pool, the rows of the users, and the tokens in the hands *)
(* of clients.                                                             *)
(*                                                                         *)
(* A login asks the failure limiter, reads the user, verifies the password *)
(* and only then tells the limiter: other threads come in between.  A demo *)
(* access takes a place in its limiter first and issues the token later.   *)
(* Every other request decodes its token, reads the user and checks the    *)
(* dependency of its route.  A thread holds a database connection from its *)
(* first statement to its last; a run or a reset of the scenarios needs a  *)
(* second one, and a thread that finds the pool empty gives up after the   *)
(* pool's timeout.                                                         *)
(*                                                                         *)
(* Instants are kept as ages: how many ticks ago, the size of the window   *)
(* standing for everything older.                                          *)
(*                                                                         *)
(* The definitions named Faulty... are not the program: each is a way the  *)
(* definition that follows it could be wrong.                              *)
(***************************************************************************)
EXTENDS Integers, Sequences, FiniteSets

CONSTANTS
  Threads,      \* worker threads of the process
  Users,        \* the accounts that requests name, by normalized email
  DemoAnalyst,  \* the account of public demo access
  SeededRole,   \* the role the seeding gives each account
  Clients,      \* client addresses
  FailureLimit, \* failures that block an account
  DemoLimit,    \* demo accesses granted to an address in a window
  Window,       \* length of both windows, in ticks
  TokenLife,    \* ticks until a token expires
  PoolSize,     \* connections of the pool, its overflow included
  NoUser,       \* the row of an account that was not seeded
  NoToken,      \* the token of a thread that has none
  NoRoute,      \* the route of a thread that serves none
  Nobody        \* the subject of an idle thread

VARIABLES
  configured,   \* whether a JWT secret is set
  demo_enabled, \* whether public demo access is enabled
  users,        \* committed rows of the accounts
  failures,     \* ages of the failures kept for each account, oldest first
  requests,     \* ages of the demo accesses kept for each address, oldest first
  tokens,       \* unexpired tokens in the hands of clients
  pc,           \* where each thread is
  subject,      \* the account or the address it works for
  row,          \* the user row it read
  token,        \* the token it issues or was given
  route,        \* the dependency of the route it serves
  issued        \* history: ages of the demo tokens handed to each address

config == <<configured, demo_enabled>>
limiters == <<failures, requests>>
locals == <<subject, row, token, route>>
vars == <<config, users, limiters, tokens, pc, locals, issued>>

UserRole == {"analyst", "admin"}
AccessMode == {"standard", "demo_read_only"}

\* The row of a user: password, names and last login aside.
UserRow == [role : UserRole, active : BOOLEAN]

\* The claims of a token; how is not a claim: it remembers what the token was
\* issued for.
Claims == [user : Users, role : UserRole, access_mode : AccessMode,
           how : {"password", "demo"}, age : 0..TokenLife]

\* The dependency that guards a route: reads, the mutations of incidents, and
\* runs and resets of the scenarios.
Routes == {"current_user", "writable_user", "admin_user"}

ASSUME FiniteThreads == IsFiniteSet(Threads)
ASSUME LimitsArePositive ==
  /\ FailureLimit \in Nat \ {0}
  /\ DemoLimit \in Nat \ {0}
  /\ Window \in Nat \ {0}
  /\ TokenLife \in Nat \ {0}
  /\ PoolSize \in Nat
ASSUME SeedsAreRoles == DemoAnalyst \in Users /\ SeededRole \in [Users -> UserRole]
ASSUME NoUserIsNoRow == NoUser \notin UserRow

-----------------------------------------------------------------------------
\* What is left of a deque of ages when its expired head is popped.
Active(deque) ==
  LET expired == {k \in 1..Len(deque) : \A j \in 1..k : deque[j] >= Window}
  IN  SubSeq(deque, Cardinality(expired) + 1, Len(deque))

FaultyIsAllowed(u) == Len(Active(failures[u])) <= FailureLimit

IsAllowed(u) == Len(Active(failures[u])) < FailureLimit

\* The connections a thread holds.
Connections(t) ==
  IF pc[t] \in {"failed", "issuing", "demo_issuing", "authorizing", "opening"} THEN 1
  ELSE IF pc[t] = "handling" THEN (IF route[t] = "admin_user" THEN 2 ELSE 1)
  ELSE 0

Waiting(t) == pc[t] \in {"blocked", "looking", "demo_looking", "loading", "opening"}

InUse == LET n[S \in SUBSET Threads] ==
               IF S = {} THEN 0
               ELSE LET t == CHOOSE t \in S : TRUE IN Connections(t) + n[S \ {t}]
         IN  n[Threads]

ConnectionIsFree == InUse < PoolSize

CreateAccessToken(u, read, mode, purpose) ==
  [user |-> u, role |-> read.role, access_mode |-> mode, how |-> purpose, age |-> 0]

\* What the client holds when a thread has answered with its token.
HandOver(t) == IF token[t].age < TokenLife THEN tokens \union {token[t]} ELSE tokens

-----------------------------------------------------------------------------
Idle(t) ==
  /\ pc' = [pc EXCEPT ![t] = "idle"]
  /\ subject' = [subject EXCEPT ![t] = Nobody]
  /\ row' = [row EXCEPT ![t] = NoUser]
  /\ token' = [token EXCEPT ![t] = NoToken]
  /\ route' = [route EXCEPT ![t] = NoRoute]

Goto(t, there) == pc' = [pc EXCEPT ![t] = there]

(* Login. *)

\* A login starts with the question to the limiter, which forgets what expired.
AskLogin(t, u) ==
  /\ pc[t] = "idle"
  /\ failures' = [failures EXCEPT ![u] = Active(@)]
  /\ subject' = [subject EXCEPT ![t] = u]
  /\ IF IsAllowed(u) THEN Goto(t, "looking") ELSE Goto(t, "blocked")
  /\ UNCHANGED <<config, users, requests, tokens, row, token, route, issued>>

FaultyRefuseBlocked(t) ==
  /\ pc[t] = "blocked"
  /\ ConnectionIsFree
  /\ failures' = [failures EXCEPT ![subject[t]] = Append(Active(@), 0)]
  /\ Idle(t)
  /\ UNCHANGED <<config, users, requests, tokens, issued>>

\* 429: the refusal is audited and committed; the limiter hears nothing of it.
RefuseBlocked(t) ==
  /\ pc[t] = "blocked"
  /\ ConnectionIsFree
  /\ Idle(t)
  /\ UNCHANGED <<config, users, limiters, tokens, issued>>

\* The user is read and the password verified: against a dummy when there is
\* no user.
Verify(t) ==
  /\ pc[t] = "looking"
  /\ ConnectionIsFree
  /\ \E password_valid \in BOOLEAN :
       IF users[subject[t]] # NoUser /\ users[subject[t]].active /\ password_valid
         THEN /\ row' = [row EXCEPT ![t] = users[subject[t]]]
              /\ Goto(t, "issuing")
         ELSE Goto(t, "failed") /\ UNCHANGED row
  /\ UNCHANGED <<config, users, limiters, tokens, subject, token, route, issued>>

\* 401: the limiter is told, then the failure is audited and committed.
RecordFailure(t) ==
  /\ pc[t] = "failed"
  /\ failures' = [failures EXCEPT ![subject[t]] = Append(Active(@), 0)]
  /\ Idle(t)
  /\ UNCHANGED <<config, users, requests, tokens, issued>>

\* The token carries the role that was read; last login and audit are committed.
IssueToken(t) ==
  /\ pc[t] = "issuing"
  /\ configured
  /\ token' = [token EXCEPT ![t] =
       CreateAccessToken(subject[t], row[t], "standard", "password")]
  /\ row' = [row EXCEPT ![t] = NoUser]
  /\ Goto(t, "resetting")
  /\ UNCHANGED <<config, users, limiters, tokens, subject, route, issued>>

\* 503: without a secret there is no token; the limiter keeps its failures.
FailIssue(t) ==
  /\ pc[t] = "issuing"
  /\ ~configured
  /\ Idle(t)
  /\ UNCHANGED <<config, users, limiters, tokens, issued>>

\* After the commit the failures are forgotten, and the client gets the token.
ResetLimiter(t) ==
  /\ pc[t] = "resetting"
  /\ failures' = [failures EXCEPT ![subject[t]] = <<>>]
  /\ tokens' = HandOver(t)
  /\ Idle(t)
  /\ UNCHANGED <<config, users, requests, issued>>

(* Public demo access. *)

FaultyConsume(t, c) ==
  /\ pc[t] = "idle"
  /\ demo_enabled
  /\ Len(Active(requests[c])) <= DemoLimit
  /\ requests' = [requests EXCEPT ![c] = Append(Active(@), 0)]
  /\ subject' = [subject EXCEPT ![t] = c]
  /\ Goto(t, "demo_looking")
  /\ UNCHANGED <<config, users, failures, tokens, row, token, route, issued>>

\* A place in the window is taken under the limiter's lock.
Consume(t, c) ==
  /\ pc[t] = "idle"
  /\ demo_enabled
  /\ Len(Active(requests[c])) < DemoLimit
  /\ requests' = [requests EXCEPT ![c] = Append(Active(@), 0)]
  /\ subject' = [subject EXCEPT ![t] = c]
  /\ Goto(t, "demo_looking")
  /\ UNCHANGED <<config, users, failures, tokens, row, token, route, issued>>

\* 429: the window is full.  (404, when demo access is disabled, does nothing.)
RefuseDemo(t, c) ==
  /\ pc[t] = "idle"
  /\ demo_enabled
  /\ Len(Active(requests[c])) >= DemoLimit
  /\ requests' = [requests EXCEPT ![c] = Active(@)]
  /\ UNCHANGED <<config, users, failures, tokens, pc, locals, issued>>

DemoAvailable == /\ users[DemoAnalyst] # NoUser
                 /\ users[DemoAnalyst].active
                 /\ users[DemoAnalyst].role = "analyst"

FaultyReadAnalyst(t) ==
  /\ pc[t] = "demo_looking"
  /\ ConnectionIsFree
  /\ DemoAvailable /\ configured
  /\ token' = [token EXCEPT ![t] =
       CreateAccessToken(DemoAnalyst, users[DemoAnalyst], "standard", "demo")]
  /\ Goto(t, "demo_issuing")
  /\ UNCHANGED <<config, users, limiters, tokens, subject, row, route, issued>>

\* The analyst is read and a read-only token made for it.
ReadAnalyst(t) ==
  /\ pc[t] = "demo_looking"
  /\ ConnectionIsFree
  /\ DemoAvailable /\ configured
  /\ token' = [token EXCEPT ![t] =
       CreateAccessToken(DemoAnalyst, users[DemoAnalyst], "demo_read_only", "demo")]
  /\ Goto(t, "demo_issuing")
  /\ UNCHANGED <<config, users, limiters, tokens, subject, row, route, issued>>

\* 503: no such analyst, or no secret.  The place in the window stays taken.
DemoUnavailable(t) ==
  /\ pc[t] = "demo_looking"
  /\ ConnectionIsFree
  /\ ~(DemoAvailable /\ configured)
  /\ Idle(t)
  /\ UNCHANGED <<config, users, limiters, tokens, issued>>

\* Last login and audit are committed, and the client gets the token.
IssueDemo(t) ==
  /\ pc[t] = "demo_issuing"
  /\ tokens' = HandOver(t)
  /\ issued' = [issued EXCEPT ![subject[t]] = Append(Active(@), 0)]
  /\ Idle(t)
  /\ UNCHANGED <<config, users, limiters>>

(* Every other request. *)

\* A request with a token that decodes.  (Without one, with an expired or a
\* forged one, or without a secret it ends here: 401 or 503.)
Decode(t, k, r) ==
  /\ pc[t] = "idle"
  /\ configured
  /\ k \in tokens
  /\ token' = [token EXCEPT ![t] = k]
  /\ route' = [route EXCEPT ![t] = r]
  /\ subject' = [subject EXCEPT ![t] = k.user]
  /\ Goto(t, "loading")
  /\ UNCHANGED <<config, users, limiters, tokens, row, issued>>

StillHolds(read, k) == read # NoUser /\ read.active /\ read.role = k.role

\* The user is read; 401 when it is gone, inactive, or has another role.
LoadUser(t) ==
  /\ pc[t] = "loading"
  /\ ConnectionIsFree
  /\ IF StillHolds(users[subject[t]], token[t])
       THEN /\ row' = [row EXCEPT ![t] = users[subject[t]]]
            /\ Goto(t, "authorizing")
            /\ UNCHANGED <<subject, token, route>>
       ELSE Idle(t)
  /\ UNCHANGED <<config, users, limiters, tokens, issued>>

\* What the dependency of a route asks of the token's mode and the user read.
Permitted(k, read, r) ==
  CASE r = "current_user"  -> TRUE
    [] r = "writable_user" -> k.access_mode # "demo_read_only"
    [] r = "admin_user"    -> k.access_mode # "demo_read_only" /\ read.role = "admin"

\* 403 is audited and committed; a run or reset goes on to open its own session.
Authorize(t) ==
  /\ pc[t] = "authorizing"
  /\ IF Permitted(token[t], row[t], route[t])
       THEN /\ IF route[t] = "admin_user" THEN Goto(t, "opening") ELSE Goto(t, "handling")
            /\ UNCHANGED locals
       ELSE Idle(t)
  /\ UNCHANGED <<config, users, limiters, tokens, issued>>

\* The service takes a second connection; the first stays with the request.
OpenSession(t) ==
  /\ pc[t] = "opening"
  /\ ConnectionIsFree
  /\ Goto(t, "handling")
  /\ UNCHANGED <<config, users, limiters, tokens, locals, issued>>

Answer(t) ==
  /\ pc[t] = "handling"
  /\ Idle(t)
  /\ UNCHANGED <<config, users, limiters, tokens, issued>>

FaultyTimeout(t) ==
  /\ Waiting(t)
  /\ pc[t] # "opening"
  /\ ~ConnectionIsFree
  /\ Idle(t)
  /\ UNCHANGED <<config, users, limiters, tokens, issued>>

\* 500: no connection came free in time; what the thread held goes back.
Timeout(t) ==
  /\ Waiting(t)
  /\ ~ConnectionIsFree
  /\ Idle(t)
  /\ UNCHANGED <<config, users, limiters, tokens, issued>>

(* The world around the threads. *)

Older(deque) == [k \in 1..Len(deque) |->
                   IF deque[k] < Window THEN deque[k] + 1 ELSE Window]

\* Time passes: entries age, and tokens, those being issued included; an expired
\* token is of no use any more, a decoded one is not asked again.
Tick ==
  /\ failures' = [u \in Users |-> Older(failures[u])]
  /\ requests' = [c \in Clients |-> Older(requests[c])]
  /\ issued' = [c \in Clients |-> Active(Older(issued[c]))]
  /\ tokens' = {[k EXCEPT !.age = @ + 1] : k \in {k \in tokens : k.age + 1 < TokenLife}}
  /\ token' = [t \in Threads |->
                 IF pc[t] \in {"resetting", "demo_issuing"} /\ token[t].age < TokenLife
                   THEN [token[t] EXCEPT !.age = @ + 1] ELSE token[t]]
  /\ UNCHANGED <<config, users, pc, subject, row, route>>

\* The seeding creates the account, or gives it back its role and activity.
UpsertDemoUser(u) ==
  /\ users' = [users EXCEPT ![u] = [role |-> SeededRole[u], active |-> TRUE]]
  /\ UNCHANGED <<config, limiters, tokens, pc, locals, issued>>

\* An operator changes a row in the database.
Administer(u) ==
  /\ users[u] # NoUser
  /\ \E changed \in UserRow : users' = [users EXCEPT ![u] = changed]
  /\ UNCHANGED <<config, limiters, tokens, pc, locals, issued>>

\* The process restarts: its threads and its limiters are gone.
Restart ==
  /\ failures' = [u \in Users |-> <<>>]
  /\ requests' = [c \in Clients |-> <<>>]
  /\ issued' = [c \in Clients |-> <<>>]
  /\ pc' = [t \in Threads |-> "idle"]
  /\ subject' = [t \in Threads |-> Nobody]
  /\ row' = [t \in Threads |-> NoUser]
  /\ token' = [t \in Threads |-> NoToken]
  /\ route' = [t \in Threads |-> NoRoute]
  /\ UNCHANGED <<config, users, tokens>>
-----------------------------------------------------------------------------
Init ==
  /\ configured \in BOOLEAN
  /\ demo_enabled \in BOOLEAN
  /\ users = [u \in Users |-> NoUser]
  /\ failures = [u \in Users |-> <<>>]
  /\ requests = [c \in Clients |-> <<>>]
  /\ issued = [c \in Clients |-> <<>>]
  /\ tokens = {}
  /\ pc = [t \in Threads |-> "idle"]
  /\ subject = [t \in Threads |-> Nobody]
  /\ row = [t \in Threads |-> NoUser]
  /\ token = [t \in Threads |-> NoToken]
  /\ route = [t \in Threads |-> NoRoute]

\* A client sends a request, which a free thread takes.
Ask(t) ==
  \/ \E u \in Users : AskLogin(t, u)
  \/ \E c \in Clients : Consume(t, c) \/ RefuseDemo(t, c)
  \/ \E k \in tokens, r \in Routes : Decode(t, k, r)

\* A thread goes on with the request it has.
Serve(t) ==
  \/ RefuseBlocked(t) \/ Verify(t) \/ RecordFailure(t)
  \/ IssueToken(t) \/ FailIssue(t) \/ ResetLimiter(t)
  \/ ReadAnalyst(t) \/ DemoUnavailable(t) \/ IssueDemo(t)
  \/ LoadUser(t) \/ Authorize(t) \/ OpenSession(t) \/ Answer(t)
  \/ Timeout(t)

Next ==
  \/ \E t \in Threads : Ask(t) \/ Serve(t)
  \/ \E u \in Users : UpsertDemoUser(u) \/ Administer(u)
  \/ Tick
  \/ Restart

Fairness == WF_vars(Tick) /\ \A t \in Threads : WF_vars(Serve(t))

Spec == Init /\ [][Next]_vars /\ Fairness
-----------------------------------------------------------------------------
TypeOK ==
  /\ configured \in BOOLEAN /\ demo_enabled \in BOOLEAN
  /\ users \in [Users -> UserRow \union {NoUser}]
  /\ failures \in [Users -> Seq(0..Window)]
  /\ requests \in [Clients -> Seq(0..Window)]
  /\ issued \in [Clients -> Seq(0..Window)]
  /\ tokens \subseteq Claims
  /\ pc \in [Threads -> {"idle", "blocked", "looking", "failed", "issuing", "resetting",
                         "demo_looking", "demo_issuing", "loading", "authorizing",
                         "opening", "handling"}]
  /\ subject \in [Threads -> Users \union Clients \union {Nobody}]
  /\ row \in [Threads -> UserRow \union {NoUser}]
  /\ token \in [Threads -> Claims \union {NoToken}]
  /\ route \in [Threads -> Routes \union {NoRoute}]

\* The threads that the limiter let pass and that may still report a failure.
InFlight(u) == {t \in Threads : pc[t] \in {"looking", "failed"} /\ subject[t] = u}

\* Threads that verify passwords at the same time may overshoot the limit of
\* failures, but by no more than there are other threads: an account never has
\* more failures within the window than the limit and the other threads, those
\* still to be recorded included.
FailuresAreBounded ==
  \A u \in Users :
    Len(failures[u]) + Cardinality(InFlight(u)) <= FailureLimit - 1 + Cardinality(Threads)

\* Refused attempts do not prolong a block: however often a blocked account is
\* tried, the limiter lets an attempt pass again.
BlockEnds == \A u \in Users : ~IsAllowed(u) ~> IsAllowed(u)

\* The demo limiter counts when a request enters and not when its token is
\* handed over; still, no address gets more demo tokens within a window than
\* the limit and the threads that were on their way.
IssuanceIsBounded ==
  \A c \in Clients : Len(Active(issued[c])) <= DemoLimit + Cardinality(Threads)

\* A handler that changes anything runs only for a token that a password was
\* given for, and for a user that was active in the role of the token, an
\* admin for runs and resets: whatever happened to the account since.
WritesNeedPassword ==
  \A t \in Threads :
    pc[t] = "handling" /\ route[t] # "current_user" =>
      /\ token[t].how = "password"
      /\ StillHolds(row[t], token[t])
      /\ route[t] = "admin_user" => token[t].role = "admin"

\* Every request is answered, also when every connection is held by a request
\* that waits for a second one.
EveryRequestEnds == \A t \in Threads : pc[t] # "idle" ~> pc[t] = "idle"
=============================================================================
