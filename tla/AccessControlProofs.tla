------------------------- MODULE AccessControlProofs -------------------------
(***************************************************************************)
(* For every number of threads, accounts and addresses and all limits: the *)
(* model is well typed, an account never has more failures in its window   *)
(* than the limit and the other threads, an address never more demo tokens *)
(* than the limit and the threads that were on their way, and nothing is   *)
(* changed for a token that no password was given for.                     *)
(***************************************************************************)
EXTENDS AccessControl, FiniteSetTheorems, SequenceTheorems, TLAPS

\* Where a thread works for an account, and where for an address.
Accounts(t) ==
  pc[t] \in {"blocked", "looking", "failed", "issuing", "resetting", "loading",
             "authorizing", "opening", "handling"} => subject[t] \in Users

Addresses(t) == pc[t] \in {"demo_looking", "demo_issuing"} => subject[t] \in Clients

\* A demo token is read-only.
Honest(k) == k.how = "demo" => k.access_mode = "demo_read_only"

\* What a thread has read and was given, by where it is.
Carries(t) ==
  /\ pc[t] = "issuing" => row[t] \in UserRow
  /\ pc[t] \in {"resetting", "demo_issuing", "loading", "authorizing", "opening",
                "handling"} => token[t] \in Claims /\ Honest(token[t])
  /\ pc[t] \in {"loading", "authorizing", "opening", "handling"} => route[t] \in Routes
  /\ pc[t] \in {"authorizing", "opening", "handling"} => StillHolds(row[t], token[t])
  /\ pc[t] \in {"opening", "handling"} => Permitted(token[t], row[t], route[t])

LocalTo(t) == Accounts(t) /\ Addresses(t) /\ Carries(t)

Local == \A t \in Threads : LocalTo(t)

TokensAreHonest == \A k \in tokens : Honest(k)

\* The inductive invariant.
AccessInv == TypeOK /\ Local /\ TokensAreHonest /\ FailuresAreBounded
-----------------------------------------------------------------------------
\* Popping the expired head of a deque leaves a deque that is no longer.
LEMMA ActiveIsShorter ==
  ASSUME NEW q \in Seq(0..Window)
  PROVE  Active(q) \in Seq(0..Window) /\ Len(Active(q)) <= Len(q)
<1> DEFINE expired == {k \in 1..Len(q) : \A j \in 1..k : q[j] >= Window}
<1>1. IsFiniteSet(1..Len(q)) /\ Cardinality(1..Len(q)) = Len(q)
  <2>1. Len(q) \in Nat
    OBVIOUS
  <2> QED BY <2>1, FS_Interval, SMTT(40)
<1>2. Cardinality(expired) \in 0..Len(q)
  <2>1. IsFiniteSet(expired) /\ Cardinality(expired) <= Cardinality(1..Len(q))
    BY <1>1, FS_Subset
  <2> QED BY <1>1, <2>1, FS_CardinalityType
<1>3. Active(q) = SubSeq(q, Cardinality(expired) + 1, Len(q))
  BY DEF Active
<1> HIDE DEF expired
<1>4. PICK n \in 0..Len(q) : Active(q) = SubSeq(q, n + 1, Len(q))
  BY <1>2, <1>3
<1>5. \A i \in (n + 1)..Len(q) : q[i] \in 0..Window
  <2>1. Len(q) \in Nat
    OBVIOUS
  <2>2. (n + 1)..Len(q) \subseteq 1..Len(q)
    BY <2>1
  <2>3. \A i \in 1..Len(q) : q[i] \in 0..Window
    BY ElementOfSeq
  <2> QED BY <2>2, <2>3
<1>6. /\ SubSeq(q, n + 1, Len(q)) \in Seq(0..Window)
      /\ Len(SubSeq(q, n + 1, Len(q)))
           = IF n + 1 <= Len(q) THEN Len(q) - (n + 1) + 1 ELSE 0
  <2>1. n + 1 \in Int /\ Len(q) \in Int
    OBVIOUS
  <2> QED BY <1>5, <2>1, SubSeqProperties
<1> QED BY <1>4, <1>6

\* Ageing keeps every entry of a deque.
LEMMA OlderKeepsLength ==
  ASSUME NEW q \in Seq(0..Window)
  PROVE  Older(q) \in Seq(0..Window) /\ Len(Older(q)) = Len(q)
BY LimitsArePositive DEF Older

\* A place at the end of an aged deque.
LEMMA AppendIsDeque ==
  ASSUME NEW q \in Seq(0..Window)
  PROVE  /\ Append(Active(q), 0) \in Seq(0..Window)
         /\ Len(Append(Active(q), 0)) <= Len(q) + 1
BY ActiveIsShorter, LimitsArePositive

LEMMA EmptyIsDeque == <<>> \in Seq(0..Window)
OBVIOUS

LEMMA InitEstablishes == Init => AccessInv
<1> SUFFICES ASSUME Init PROVE AccessInv
  OBVIOUS
<1>1. TypeOK
  BY EmptyIsDeque DEF Init, TypeOK
<1>2. Local
  BY DEF Init, Local, LocalTo, Accounts, Addresses, Carries
<1>3. TokensAreHonest
  BY DEF Init, TokensAreHonest
<1>4. FailuresAreBounded
  <2> SUFFICES ASSUME NEW u \in Users
               PROVE  Len(failures[u]) + Cardinality(InFlight(u))
                        <= FailureLimit - 1 + Cardinality(Threads)
    BY DEF FailuresAreBounded
  <2>1. InFlight(u) = {}
    BY DEF Init, InFlight
  <2>2. Cardinality(InFlight(u)) = 0
    BY <2>1, FS_EmptySet
  <2>3. Len(failures[u]) = 0
    BY DEF Init
  <2> QED BY <2>2, <2>3, FiniteThreads, FS_CardinalityType, LimitsArePositive
<1> QED BY <1>1, <1>2, <1>3, <1>4 DEF AccessInv
-----------------------------------------------------------------------------
LEMMA TypeStep == AccessInv /\ [Next]_vars => TypeOK'
<1> SUFFICES ASSUME AccessInv, [Next]_vars PROVE TypeOK'
  OBVIOUS
<1> USE DEF AccessInv, config, limiters, locals
<1>1. ASSUME NEW t \in Threads, NEW u \in Users, AskLogin(t, u) PROVE TypeOK'
  <2>1. Active(failures[u]) \in Seq(0..Window)
    BY ActiveIsShorter DEF TypeOK
  <2> QED BY <1>1, <2>1 DEF TypeOK, AskLogin, Goto
<1>2. ASSUME NEW t \in Threads, NEW c \in Clients, Consume(t, c) PROVE TypeOK'
  <2>1. Append(Active(requests[c]), 0) \in Seq(0..Window)
    BY AppendIsDeque DEF TypeOK
  <2> QED BY <1>2, <2>1 DEF TypeOK, Consume, Goto
<1>3. ASSUME NEW t \in Threads, NEW c \in Clients, RefuseDemo(t, c) PROVE TypeOK'
  <2>1. Active(requests[c]) \in Seq(0..Window)
    BY ActiveIsShorter DEF TypeOK
  <2> QED BY <1>3, <2>1 DEF TypeOK, RefuseDemo
<1>4. ASSUME NEW t \in Threads, NEW k \in tokens, NEW r \in Routes, Decode(t, k, r)
      PROVE  TypeOK'
  <2>1. k \in Claims /\ k.user \in Users
    BY DEF TypeOK, Claims
  <2> QED BY <1>4, <2>1 DEF TypeOK, Decode, Goto
<1>5. ASSUME NEW t \in Threads, RefuseBlocked(t) PROVE TypeOK'
  BY <1>5 DEF TypeOK, RefuseBlocked, Idle
<1>6. ASSUME NEW t \in Threads, Verify(t) PROVE TypeOK'
  <2>1. subject[t] \in Users
    BY <1>6 DEF Verify, Local, LocalTo, Accounts
  <2>2. users[subject[t]] \in UserRow \union {NoUser}
    BY <2>1 DEF TypeOK
  <2> QED BY <1>6, <2>2 DEF TypeOK, Verify, Goto
<1>7. ASSUME NEW t \in Threads, RecordFailure(t) PROVE TypeOK'
  <2>1. subject[t] \in Users
    BY <1>7 DEF RecordFailure, Local, LocalTo, Accounts
  <2>2. Append(Active(failures[subject[t]]), 0) \in Seq(0..Window)
    BY <2>1, AppendIsDeque DEF TypeOK
  <2> QED BY <1>7, <2>2 DEF TypeOK, RecordFailure, Idle
<1>8. ASSUME NEW t \in Threads, IssueToken(t) PROVE TypeOK'
  <2>1. subject[t] \in Users /\ row[t].role \in UserRole
    BY <1>8 DEF IssueToken, Local, LocalTo, Accounts, Carries, UserRow
  <2>2. CreateAccessToken(subject[t], row[t], "standard", "password") \in Claims
    BY <2>1, LimitsArePositive DEF CreateAccessToken, Claims, AccessMode
  <2> QED BY <1>8, <2>2 DEF TypeOK, IssueToken, Goto
<1>9. ASSUME NEW t \in Threads, FailIssue(t) PROVE TypeOK'
  BY <1>9 DEF TypeOK, FailIssue, Idle
<1>10. ASSUME NEW t \in Threads, ResetLimiter(t) PROVE TypeOK'
  <2>1. token[t] \in Claims
    BY <1>10 DEF ResetLimiter, Local, LocalTo, Carries
  <2> QED BY <1>10, <2>1, EmptyIsDeque DEF TypeOK, ResetLimiter, HandOver, Idle
<1>11. ASSUME NEW t \in Threads, ReadAnalyst(t) PROVE TypeOK'
  <2>1. users[DemoAnalyst].role \in UserRole
    BY <1>11, SeedsAreRoles DEF ReadAnalyst, DemoAvailable, TypeOK, UserRow
  <2>2. CreateAccessToken(DemoAnalyst, users[DemoAnalyst], "demo_read_only", "demo") \in Claims
    BY <2>1, SeedsAreRoles, LimitsArePositive DEF CreateAccessToken, Claims, AccessMode
  <2> QED BY <1>11, <2>2 DEF TypeOK, ReadAnalyst, Goto
<1>12. ASSUME NEW t \in Threads, DemoUnavailable(t) PROVE TypeOK'
  BY <1>12 DEF TypeOK, DemoUnavailable, Idle
<1>13. ASSUME NEW t \in Threads, IssueDemo(t) PROVE TypeOK'
  <2>1. token[t] \in Claims /\ subject[t] \in Clients
    BY <1>13 DEF IssueDemo, Local, LocalTo, Addresses, Carries
  <2>2. Append(Active(issued[subject[t]]), 0) \in Seq(0..Window)
    BY <2>1, AppendIsDeque DEF TypeOK
  <2> QED BY <1>13, <2>1, <2>2 DEF TypeOK, IssueDemo, HandOver, Idle
<1>14. ASSUME NEW t \in Threads, LoadUser(t) PROVE TypeOK'
  <2>1. users[subject[t]] \in UserRow \union {NoUser}
    BY <1>14 DEF LoadUser, Local, LocalTo, Accounts, TypeOK
  <2> QED BY <1>14, <2>1, ZenonT(60) DEF TypeOK, LoadUser, Goto, Idle
<1>15. ASSUME NEW t \in Threads, Authorize(t) PROVE TypeOK'
  BY <1>15 DEF TypeOK, Authorize, Goto, Idle
<1>16. ASSUME NEW t \in Threads, OpenSession(t) PROVE TypeOK'
  BY <1>16 DEF TypeOK, OpenSession, Goto, Idle
<1>17. ASSUME NEW t \in Threads, Answer(t) PROVE TypeOK'
  BY <1>17 DEF TypeOK, Answer, Idle
<1>18. ASSUME NEW t \in Threads, Timeout(t) PROVE TypeOK'
  BY <1>18 DEF TypeOK, Timeout, Idle
<1>19. CASE Tick
  <2>1. /\ failures' \in [Users -> Seq(0..Window)]
        /\ requests' \in [Clients -> Seq(0..Window)]
    BY <1>19, OlderKeepsLength DEF TypeOK, Tick
  <2>2. issued' \in [Clients -> Seq(0..Window)]
    <3>1. \A c \in Clients : Active(Older(issued[c])) \in Seq(0..Window)
      BY OlderKeepsLength, ActiveIsShorter DEF TypeOK
    <3> QED BY <1>19, <3>1 DEF TypeOK, Tick
  <2>3. \A k \in Claims : k.age + 1 \in 0..TokenLife => [k EXCEPT !.age = @ + 1] \in Claims
    BY DEF Claims
  <2>4. tokens' \subseteq Claims
    <3>1. \A k \in tokens : k \in Claims /\ k.age \in Nat
      BY DEF TypeOK, Claims
    <3> QED BY <1>19, <2>3, <3>1, LimitsArePositive DEF Tick
  <2>5. token' \in [Threads -> Claims \union {NoToken}]
    <3>1. ASSUME NEW t \in Threads, pc[t] \in {"resetting", "demo_issuing"},
                 token[t].age < TokenLife
          PROVE  [token[t] EXCEPT !.age = @ + 1] \in Claims
      <4>1. token[t] \in Claims /\ token[t].age \in Nat
        BY <3>1 DEF Local, LocalTo, Carries, Claims
      <4> QED BY <2>3, <3>1, <4>1, LimitsArePositive
    <3> QED BY <1>19, <3>1 DEF TypeOK, Tick
  <2> QED BY <1>19, <2>1, <2>2, <2>4, <2>5 DEF TypeOK, Tick
<1>20. ASSUME NEW u \in Users, UpsertDemoUser(u) PROVE TypeOK'
  BY <1>20, SeedsAreRoles DEF TypeOK, UpsertDemoUser, UserRow
<1>21. ASSUME NEW u \in Users, Administer(u) PROVE TypeOK'
  BY <1>21 DEF TypeOK, Administer
<1>22. CASE Restart
  BY <1>22, EmptyIsDeque DEF TypeOK, Restart
<1>23. CASE UNCHANGED vars
  BY <1>23 DEF TypeOK, vars
<1> QED
  BY <1>1, <1>2, <1>3, <1>4, <1>5, <1>6, <1>7, <1>8, <1>9, <1>10, <1>11, <1>12, <1>13, <1>14, <1>15, <1>16, <1>17, <1>18,
     <1>19, <1>20, <1>21, <1>22, <1>23
     DEF Next, Ask, Serve
-----------------------------------------------------------------------------
\* A thread whose locals stay keeps what is local to it.
LEMMA SameLocals ==
  ASSUME NEW s \in Threads, LocalTo(s), pc'[s] = pc[s], subject'[s] = subject[s],
         row'[s] = row[s], token'[s] = token[s], route'[s] = route[s]
  PROVE  LocalTo(s)'
BY DEF LocalTo, Accounts, Addresses, Carries

\* The steps of one thread leave the others alone.
LEMMA OthersKeep ==
  ASSUME AccessInv, NEW t \in Threads, NEW s \in Threads, s # t, Ask(t) \/ Serve(t)
  PROVE  LocalTo(s)'
<1>1. /\ pc'[s] = pc[s] /\ subject'[s] = subject[s]
      /\ row'[s] = row[s] /\ token'[s] = token[s] /\ route'[s] = route[s]
  <2>1. CASE Ask(t)
    BY <2>1 DEF AccessInv, TypeOK, Ask, AskLogin, Consume, RefuseDemo, Decode, Goto, locals
  <2>2. CASE Serve(t)
    BY <2>2 DEF AccessInv, TypeOK, Serve, RefuseBlocked, Verify, RecordFailure, IssueToken,
       FailIssue, ResetLimiter, ReadAnalyst, DemoUnavailable, IssueDemo, LoadUser, Authorize,
       OpenSession, Answer, Timeout, Goto, Idle, locals
  <2> QED BY <2>1, <2>2
<1> QED BY <1>1, SameLocals DEF AccessInv, Local

LEMMA IdleIsLocal ==
  ASSUME NEW t \in Threads, AccessInv, Idle(t)
  PROVE  LocalTo(t)'
BY DEF AccessInv, TypeOK, Idle, LocalTo, Accounts, Addresses, Carries

LEMMA LocalStep == AccessInv /\ [Next]_vars => Local'
<1> SUFFICES ASSUME AccessInv, [Next]_vars PROVE Local'
  OBVIOUS
<1> USE DEF config, limiters, locals, Goto
<1>1. ASSUME NEW t \in Threads, Ask(t) PROVE LocalTo(t)'
  <2>1. ASSUME NEW u \in Users, AskLogin(t, u) PROVE LocalTo(t)'
    BY <2>1 DEF AccessInv, TypeOK, AskLogin, LocalTo, Accounts, Addresses, Carries
  <2>2. ASSUME NEW c \in Clients, Consume(t, c) PROVE LocalTo(t)'
    BY <2>2 DEF AccessInv, TypeOK, Consume, LocalTo, Accounts, Addresses, Carries
  <2>3. ASSUME NEW c \in Clients, RefuseDemo(t, c) PROVE LocalTo(t)'
    BY <2>3, SameLocals DEF AccessInv, Local, RefuseDemo
  <2>4. ASSUME NEW k \in tokens, NEW r \in Routes, Decode(t, k, r) PROVE LocalTo(t)'
    <3>1. k \in Claims /\ k.user \in Users /\ Honest(k)
      BY DEF AccessInv, TypeOK, TokensAreHonest, Claims
    <3> QED BY <2>4, <3>1 DEF AccessInv, TypeOK, Decode, LocalTo, Accounts, Addresses, Carries
  <2> QED BY <1>1, <2>1, <2>2, <2>3, <2>4 DEF Ask
<1>2. ASSUME NEW t \in Threads, Serve(t) PROVE LocalTo(t)'
  <2>1. LocalTo(t)
    BY DEF AccessInv, Local
  <2>2. CASE Verify(t)
    <3>1. users[subject[t]] # NoUser => users[subject[t]] \in UserRow
      BY <2>1, <2>2 DEF Verify, LocalTo, Accounts, AccessInv, TypeOK
    <3> QED BY <2>1, <2>2, <3>1
            DEF AccessInv, TypeOK, Verify, LocalTo, Accounts, Addresses, Carries
  <2>3. CASE IssueToken(t)
    <3>1. CreateAccessToken(subject[t], row[t], "standard", "password") \in Claims
      BY <2>1, <2>3, LimitsArePositive
         DEF IssueToken, LocalTo, Accounts, Carries, CreateAccessToken, Claims, AccessMode, UserRow
    <3>2. Honest(CreateAccessToken(subject[t], row[t], "standard", "password"))
      BY DEF Honest, CreateAccessToken
    <3> QED BY <2>1, <2>3, <3>1, <3>2
            DEF AccessInv, TypeOK, IssueToken, LocalTo, Accounts, Addresses, Carries
  <2>4. CASE ReadAnalyst(t)
    <3> DEFINE k == CreateAccessToken(DemoAnalyst, users[DemoAnalyst], "demo_read_only", "demo")
    <3>1. users[DemoAnalyst].role \in UserRole
      BY <2>4, SeedsAreRoles DEF ReadAnalyst, DemoAvailable, AccessInv, TypeOK, UserRow
    <3>2. k \in Claims /\ Honest(k)
      BY <3>1, SeedsAreRoles, LimitsArePositive DEF CreateAccessToken, Claims, AccessMode, Honest
    <3>3. token'[t] = k /\ pc'[t] = "demo_issuing" /\ subject'[t] = subject[t]
      BY <2>4 DEF AccessInv, TypeOK, ReadAnalyst
    <3> HIDE DEF k
    <3> QED BY <2>1, <2>4, <3>2, <3>3
            DEF ReadAnalyst, LocalTo, Accounts, Addresses, Carries
  <2>5. CASE LoadUser(t)
    <3>1. CASE StillHolds(users[subject[t]], token[t])
      BY <2>1, <2>5, <3>1
         DEF AccessInv, TypeOK, LoadUser, LocalTo, Accounts, Addresses, Carries, StillHolds
    <3>2. CASE ~StillHolds(users[subject[t]], token[t])
      BY <2>5, <3>2, IdleIsLocal DEF LoadUser
    <3> QED BY <3>1, <3>2
  <2>6. CASE Authorize(t)
    <3>1. CASE Permitted(token[t], row[t], route[t])
      BY <2>1, <2>6, <3>1
         DEF AccessInv, TypeOK, Authorize, LocalTo, Accounts, Addresses, Carries
    <3>2. CASE ~Permitted(token[t], row[t], route[t])
      BY <2>6, <3>2, IdleIsLocal DEF Authorize
    <3> QED BY <3>1, <3>2
  <2>7. CASE OpenSession(t)
    BY <2>1, <2>7 DEF AccessInv, TypeOK, OpenSession, LocalTo, Accounts, Addresses, Carries
  <2> QED BY <1>2, <2>2, <2>3, <2>4, <2>5, <2>6, <2>7, IdleIsLocal
          DEF Serve, RefuseBlocked, RecordFailure, FailIssue, ResetLimiter, DemoUnavailable,
              IssueDemo, Answer, Timeout
<1>3. ASSUME Tick, NEW s \in Threads PROVE LocalTo(s)'
  <2>1. LocalTo(s)
    BY DEF AccessInv, Local
  <2>2. CASE pc[s] \in {"resetting", "demo_issuing"} /\ token[s].age < TokenLife
    <3> DEFINE k == [token[s] EXCEPT !.age = @ + 1]
    <3>1. token[s] \in Claims /\ Honest(token[s])
      BY <2>1, <2>2 DEF LocalTo, Carries
    <3>2. k \in Claims /\ Honest(k)
      BY <2>2, <3>1, LimitsArePositive DEF Claims, Honest
    <3>3. token'[s] = k /\ pc' = pc /\ subject' = subject
      BY <1>3, <2>2 DEF Tick
    <3> HIDE DEF k
    <3> QED BY <2>1, <2>2, <3>2, <3>3 DEF LocalTo, Accounts, Addresses, Carries
  <2>3. CASE ~(pc[s] \in {"resetting", "demo_issuing"} /\ token[s].age < TokenLife)
    BY <1>3, <2>1, <2>3, SameLocals DEF Tick
  <2> QED BY <2>2, <2>3
<1>4. ASSUME Restart, NEW s \in Threads PROVE LocalTo(s)'
  BY <1>4 DEF Restart, LocalTo, Accounts, Addresses, Carries
<1>5. ASSUME NEW u \in Users, UpsertDemoUser(u) \/ Administer(u), NEW s \in Threads
      PROVE  LocalTo(s)'
  BY <1>5, SameLocals DEF UpsertDemoUser, Administer, AccessInv, Local
<1>6. ASSUME UNCHANGED vars, NEW s \in Threads PROVE LocalTo(s)'
  BY <1>6, SameLocals DEF vars, AccessInv, Local
<1> QED BY <1>1, <1>2, <1>3, <1>4, <1>5, <1>6, OthersKeep DEF Next, Local
-----------------------------------------------------------------------------
LEMMA HonestStep == AccessInv /\ [Next]_vars => TokensAreHonest'
<1> SUFFICES ASSUME AccessInv, [Next]_vars, NEW k \in tokens' PROVE Honest(k)
  BY DEF TokensAreHonest, Honest
<1> USE DEF config, limiters, locals
<1>1. CASE k \in tokens
  BY <1>1 DEF AccessInv, TokensAreHonest
<1>2. ASSUME NEW t \in Threads, ResetLimiter(t) \/ IssueDemo(t) PROVE Honest(k)
  <2>1. Honest(token[t])
    BY <1>2 DEF AccessInv, Local, LocalTo, Carries, ResetLimiter, IssueDemo
  <2>2. k \in tokens \union {token[t]}
    BY <1>2 DEF ResetLimiter, IssueDemo, HandOver
  <2> QED BY <1>1, <2>1, <2>2
<1>3. CASE Tick
  <2>1. PICK j \in tokens : k = [j EXCEPT !.age = @ + 1]
    BY <1>3 DEF Tick
  <2>2. j \in Claims /\ Honest(j)
    BY DEF AccessInv, TypeOK, TokensAreHonest
  <2> QED BY <2>1, <2>2 DEF Honest, Claims
<1>4. CASE tokens' = tokens
  BY <1>1, <1>4
<1> QED BY <1>2, <1>3, <1>4 DEF Next, Ask, AskLogin, Consume, RefuseDemo, Decode,
     Serve, RefuseBlocked, Verify, RecordFailure, IssueToken, FailIssue, ReadAnalyst,
     DemoUnavailable, LoadUser, Authorize, OpenSession, Answer, Timeout, UpsertDemoUser,
     Administer, Restart, vars

\* An account's failures and its attempts in flight, counted together.
Load(u) == Len(failures[u]) + Cardinality(InFlight(u))

LEMMA FiniteInFlight ==
  ASSUME NEW u
  PROVE  /\ IsFiniteSet(InFlight(u))
         /\ Cardinality(InFlight(u)) \in Nat
         /\ Cardinality(InFlight(u)) <= Cardinality(Threads)
BY FiniteThreads, FS_Subset, FS_CardinalityType DEF InFlight

LEMMA FiniteInFlightNext ==
  ASSUME NEW u
  PROVE  /\ IsFiniteSet(InFlight(u)')
         /\ Cardinality(InFlight(u)') \in Nat
         /\ Cardinality(InFlight(u)') <= Cardinality(Threads)
BY FiniteThreads, FS_Subset, FS_CardinalityType DEF InFlight

\* No attempt joins and no failure is added: the load does not grow.
LEMMA LoadDoesNotGrow ==
  ASSUME AccessInv, NEW u \in Users, failures'[u] \in Seq(0..Window),
         Len(failures'[u]) <= Len(failures[u]), InFlight(u)' \subseteq InFlight(u)
  PROVE  Load(u)' <= FailureLimit - 1 + Cardinality(Threads)
<1>1. Cardinality(InFlight(u)') <= Cardinality(InFlight(u))
  BY FiniteInFlight, FS_Subset
<1>2. Load(u) <= FailureLimit - 1 + Cardinality(Threads)
  BY DEF AccessInv, FailuresAreBounded, Load
<1>3. Len(failures[u]) \in Nat /\ Len(failures'[u]) \in Nat
  BY DEF AccessInv, TypeOK
<1>4. Cardinality(Threads) \in Nat
  BY FiniteThreads, FS_CardinalityType
<1> QED BY <1>1, <1>2, <1>3, <1>4, FiniteInFlight, FiniteInFlightNext, LimitsArePositive DEF Load

LEMMA BoundStep == AccessInv /\ [Next]_vars => FailuresAreBounded'
<1> SUFFICES ASSUME AccessInv, [Next]_vars, NEW u \in Users
             PROVE  Load(u)' <= FailureLimit - 1 + Cardinality(Threads)
  BY DEF FailuresAreBounded, Load
<1> USE DEF config, limiters, locals, Goto
<1>0. failures[u] \in Seq(0..Window) /\ TypeOK'
  BY TypeStep DEF AccessInv, TypeOK
<1>1. ASSUME NEW t \in Threads, NEW v \in Users, AskLogin(t, v)
      PROVE  Load(u)' <= FailureLimit - 1 + Cardinality(Threads)
  <2>1. Active(failures[u]) \in Seq(0..Window) /\ Len(Active(failures[u])) <= Len(failures[u])
    BY <1>0, ActiveIsShorter
  <2>2. CASE u = v /\ IsAllowed(u)
    <3>1. Len(failures'[u]) < FailureLimit
      BY <1>1, <2>2 DEF AskLogin, IsAllowed, AccessInv, TypeOK
    <3>2. Len(failures'[u]) \in Nat /\ Cardinality(Threads) \in Nat
      BY <1>0, FiniteThreads, FS_CardinalityType DEF TypeOK
    <3> QED BY <3>1, <3>2, FiniteInFlightNext, LimitsArePositive DEF Load
  <2>3. CASE ~(u = v /\ IsAllowed(u))
    <3>1. InFlight(u)' \subseteq InFlight(u)
      BY <1>1, <2>3 DEF AskLogin, InFlight, AccessInv, TypeOK
    <3>2. failures'[u] \in {failures[u], Active(failures[u])}
      BY <1>1 DEF AskLogin, AccessInv, TypeOK
    <3>3. Len(failures'[u]) <= Len(failures[u]) /\ failures'[u] \in Seq(0..Window)
      BY <1>0, <2>1, <3>2
    <3> QED BY <3>1, <3>3, LoadDoesNotGrow
  <2> QED BY <2>2, <2>3
<1>2. ASSUME NEW t \in Threads, RecordFailure(t)
      PROVE  Load(u)' <= FailureLimit - 1 + Cardinality(Threads)
  <2>1. CASE subject[t] = u
    <3>1. InFlight(u)' = InFlight(u) \ {t} /\ t \in InFlight(u)
      BY <1>2, <2>1 DEF RecordFailure, Idle, InFlight, AccessInv, TypeOK
    <3>2. Cardinality(InFlight(u)') = Cardinality(InFlight(u)) - 1
      BY <3>1, FiniteInFlight, FS_RemoveElement
    <3>3. Len(failures'[u]) <= Len(failures[u]) + 1
      <4>1. failures'[u] = Append(Active(failures[u]), 0)
        BY <1>2, <2>1 DEF RecordFailure, AccessInv, TypeOK
      <4> QED BY <1>0, <4>1, AppendIsDeque
    <3>4. Load(u) <= FailureLimit - 1 + Cardinality(Threads)
      BY DEF AccessInv, FailuresAreBounded, Load
    <3>5. Len(failures'[u]) \in Nat /\ Len(failures[u]) \in Nat /\ Cardinality(Threads) \in Nat
      BY <1>0, FiniteThreads, FS_CardinalityType DEF TypeOK
    <3> QED BY <3>2, <3>3, <3>4, <3>5, FiniteInFlight, LimitsArePositive DEF Load
  <2>2. CASE subject[t] # u
    <3>1. InFlight(u)' \subseteq InFlight(u)
      BY <1>2, <2>2 DEF RecordFailure, Idle, InFlight, AccessInv, TypeOK
    <3>2. failures'[u] = failures[u]
      BY <1>2, <2>2 DEF RecordFailure, AccessInv, TypeOK
    <3>3. Len(failures'[u]) <= Len(failures[u]) /\ failures'[u] \in Seq(0..Window)
      BY <1>0, <3>2
    <3> QED BY <3>1, <3>3, LoadDoesNotGrow
  <2> QED BY <2>1, <2>2
<1>3. ASSUME NEW t \in Threads, ResetLimiter(t)
      PROVE  Load(u)' <= FailureLimit - 1 + Cardinality(Threads)
  <2>1. InFlight(u)' \subseteq InFlight(u)
    BY <1>3 DEF ResetLimiter, Idle, InFlight, AccessInv, TypeOK
  <2>2. failures'[u] \in {failures[u], <<>>}
    BY <1>3 DEF ResetLimiter, AccessInv, TypeOK
  <2>3. Len(failures'[u]) <= Len(failures[u]) /\ failures'[u] \in Seq(0..Window)
    <3>1. Len(failures[u]) \in Nat
      BY <1>0, LenProperties
    <3>2. CASE failures'[u] = <<>>
      <4>1. Len(failures'[u]) = 0
        BY <3>2
      <4> QED BY <3>1, <3>2, <4>1, EmptyIsDeque
    <3>3. CASE failures'[u] = failures[u]
      BY <1>0, <3>1, <3>3
    <3> QED BY <2>2, <3>2, <3>3
  <2> QED BY <2>1, <2>3, LoadDoesNotGrow
<1>4. ASSUME Tick PROVE Load(u)' <= FailureLimit - 1 + Cardinality(Threads)
  <2>1. failures'[u] = Older(failures[u]) /\ InFlight(u)' = InFlight(u)
    BY <1>4 DEF Tick, InFlight
  <2>2. Len(failures'[u]) <= Len(failures[u]) /\ failures'[u] \in Seq(0..Window)
    <3>1. Len(failures[u]) \in Nat
      BY <1>0, LenProperties
    <3> QED BY <1>0, <2>1, <3>1, OlderKeepsLength
  <2> QED BY <2>1, <2>2, LoadDoesNotGrow
<1>5. ASSUME Restart PROVE Load(u)' <= FailureLimit - 1 + Cardinality(Threads)
  <2>1. failures'[u] = <<>> /\ InFlight(u)' \subseteq InFlight(u)
    BY <1>5 DEF Restart, InFlight
  <2>2. Len(failures'[u]) = 0 /\ Len(failures[u]) \in Nat
    BY <1>0, <2>1, LenProperties
  <2>3. Len(failures'[u]) <= Len(failures[u]) /\ failures'[u] \in Seq(0..Window)
    <3>1. failures'[u] \in Seq(0..Window)
      BY <2>1, EmptyIsDeque
    <3> QED BY <2>2, <3>1
  <2> QED BY <2>1, <2>3, LoadDoesNotGrow
<1>6. ASSUME failures' = failures, InFlight(u)' \subseteq InFlight(u)
      PROVE  Load(u)' <= FailureLimit - 1 + Cardinality(Threads)
  BY <1>0, <1>6, LoadDoesNotGrow
<1>7. ASSUME NEW t \in Threads,
             \/ \E c \in Clients : Consume(t, c) \/ RefuseDemo(t, c)
             \/ \E k \in tokens, r \in Routes : Decode(t, k, r)
      PROVE  Load(u)' <= FailureLimit - 1 + Cardinality(Threads)
  BY <1>6, <1>7 DEF Consume, RefuseDemo, Decode, InFlight, AccessInv, TypeOK
<1>8. ASSUME NEW t \in Threads, Serve(t), ~RecordFailure(t), ~ResetLimiter(t)
      PROVE  Load(u)' <= FailureLimit - 1 + Cardinality(Threads)
  BY <1>6, <1>8 DEF Serve, RefuseBlocked, Verify, IssueToken, FailIssue, ReadAnalyst,
     DemoUnavailable, IssueDemo, LoadUser, Authorize, OpenSession, Answer, Timeout, Idle,
     InFlight, AccessInv, TypeOK
<1>9. ASSUME NEW v \in Users, UpsertDemoUser(v) \/ Administer(v)
      PROVE  Load(u)' <= FailureLimit - 1 + Cardinality(Threads)
  BY <1>6, <1>9 DEF UpsertDemoUser, Administer, InFlight
<1>10. ASSUME UNCHANGED vars PROVE Load(u)' <= FailureLimit - 1 + Cardinality(Threads)
  BY <1>6, <1>10 DEF vars, InFlight
<1> QED BY <1>1, <1>2, <1>3, <1>4, <1>5, <1>7, <1>8, <1>9, <1>10 DEF Next, Ask

\* The invariant holds in every reachable state.
LEMMA AccessInvHolds == Spec => []AccessInv
<1>1. AccessInv /\ [Next]_vars => AccessInv'
  BY TypeStep, LocalStep, HonestStep, BoundStep DEF AccessInv
<1> QED BY <1>1, InitEstablishes, PTL DEF Spec

\* Every variable has its type, for all constants.
THEOREM AccessTypeCorrect == Spec => []TypeOK
BY AccessInvHolds, PTL DEF AccessInv

\* Concurrent attempts overshoot the failure limit of an account by no more
\* than the threads that try at the same time.
THEOREM FailuresStayBounded == Spec => []FailuresAreBounded
BY AccessInvHolds, PTL DEF AccessInv

\* No handler that writes runs for a demo token, or for a token whose role the
\* user did not have, active, when the request was admitted.
THEOREM WritesAreAuthorized == Spec => []WritesNeedPassword
<1>1. AccessInv => WritesNeedPassword
  BY DEF AccessInv, Local, LocalTo, Carries, WritesNeedPassword, Honest, Permitted, Routes,
         StillHolds, Claims
<1> QED BY <1>1, AccessInvHolds, PTL
-----------------------------------------------------------------------------
(* The demo limiter.                                                       *)
(*                                                                         *)
(* The limiter counts places and the client gets tokens.  Count both back   *)
(* from now: for the k-th last token handed to an address as many places    *)
(* have been taken since its instant as k and the requests on their way     *)
(* exceed the threads there are.  That much is true at each step, whatever   *)
(* the ages, and the last window cannot hold more places than the limit.    *)

\* Active pops the expired head, and nothing else.
LEMMA ActivePopsTheHead ==
  ASSUME NEW q \in Seq(0..Window)
  PROVE  \E d \in 0..Len(q) :
           /\ Active(q) = SubSeq(q, d + 1, Len(q))
           /\ \A j \in 1..d : q[j] >= Window
           /\ d < Len(q) => q[d + 1] < Window
<1> DEFINE expired == {k \in 1..Len(q) : \A j \in 1..k : q[j] >= Window}
           d == Cardinality(expired)
<1>1. Len(q) \in Nat /\ \A k \in 1..Len(q) : q[k] \in 0..Window
  <2>1. Len(q) \in Nat
    OBVIOUS
  <2>2. \A k \in 1..Len(q) : q[k] \in 0..Window
    BY ElementOfSeq
  <2>3. QED BY <2>1, <2>2
<1>2. \A n \in Nat : IsFiniteSet(1..n) /\ Cardinality(1..n) = n
  BY FS_Interval, SMTT(40)
<1>3. IsFiniteSet(expired) /\ d \in Nat /\ d <= Len(q)
  BY <1>1, <1>2, FS_Subset, FS_CardinalityType
<1>4. \A k \in expired : 1..k \subseteq expired
  BY <1>1
<1>5. 1..d \subseteq expired
  <2> SUFFICES ASSUME NEW k \in 1..d, k \notin expired PROVE FALSE
    OBVIOUS
  <2>1. expired \subseteq 1..(k - 1)
    <3> SUFFICES ASSUME NEW j \in expired, j >= k PROVE FALSE
      BY <1>1, <1>3
    <3>1. k \in 1..j
      BY <1>1, <1>3
    <3> QED BY <1>4, <3>1
  <2>2. k - 1 \in Nat
    BY <1>3
  <2>3. d <= k - 1
    BY <1>2, <2>1, <2>2, FS_Subset
  <2> QED BY <1>3, <2>3
<1>6. d + 1 \notin expired
  <2> SUFFICES ASSUME d + 1 \in expired PROVE FALSE
    OBVIOUS
  <2>1. 1..(d + 1) \subseteq expired
    BY <1>4
  <2>2. d + 1 \in Nat
    BY <1>3
  <2>3. Cardinality(1..(d + 1)) <= d
    BY <1>3, <2>1, FS_Subset
  <2> QED BY <1>2, <1>3, <2>2, <2>3
<1>7. \A j \in 1..d : q[j] >= Window
  BY <1>5, <1>3
<1>8. d < Len(q) => q[d + 1] < Window
  <2> SUFFICES ASSUME d < Len(q) PROVE q[d + 1] < Window
    OBVIOUS
  <2>1. d + 1 \in 1..Len(q)
    BY <1>1, <1>3
  <2>2. PICK j \in 1..(d + 1) : ~(q[j] >= Window)
    BY <1>6, <2>1
  <2>3. j = d + 1
    BY <1>3, <1>7, <2>2
  <2>4. q[d + 1] \in 0..Window
    BY <1>1, <2>1
  <2> QED BY <2>2, <2>3, <2>4, LimitsArePositive
<1>9. Active(q) = SubSeq(q, d + 1, Len(q))
  BY DEF Active
<1>10. d \in 0..Len(q)
  BY <1>1, <1>3
<1> HIDE DEF d, expired
<1> QED BY <1>7, <1>8, <1>9, <1>10

\* The k-th entry of a deque from its end.
Latest(q, k) == q[Len(q) - k + 1]

\* Seen from its end a deque keeps its entries when the head is popped, and loses
\* none that is younger than the window.
LEMMA ActiveFromTheEnd ==
  ASSUME NEW q \in Seq(0..Window)
  PROVE  /\ Len(Active(q)) \in 0..Len(q)
         /\ \A k \in 1..Len(Active(q)) : Latest(Active(q), k) = Latest(q, k)
         /\ \A k \in 1..Len(q) : Latest(q, k) < Window => k <= Len(Active(q))
         /\ Len(Active(q)) > 0 => Latest(q, Len(Active(q))) < Window
<1>1. PICK d \in 0..Len(q) :
        /\ Active(q) = SubSeq(q, d + 1, Len(q))
        /\ \A j \in 1..d : q[j] >= Window
        /\ d < Len(q) => q[d + 1] < Window
  BY ActivePopsTheHead
<1> DEFINE n == Len(q)
<1>2. n \in Nat /\ \A k \in 1..n : q[k] \in 0..Window
  <2>1. n \in Nat
    OBVIOUS
  <2>2. \A k \in 1..n : q[k] \in 0..Window
    BY ElementOfSeq
  <2>3. QED BY <2>1, <2>2
<1>3. d + 1 \in Int /\ n \in Int /\ \A i \in (d + 1)..n : q[i] \in 0..Window
  BY <1>2
<1>4. /\ Len(Active(q)) = IF d + 1 <= n THEN n - (d + 1) + 1 ELSE 0
      /\ \A i \in 1..(n - (d + 1) + 1) : Active(q)[i] = q[(d + 1) + i - 1]
  BY <1>1, <1>3, SubSeqProperties
<1>5. Len(Active(q)) = n - d
  BY <1>2, <1>4
<1>6. \A i \in 1..(n - d) : Active(q)[i] = q[d + i]
  BY <1>2, <1>4
<1> HIDE DEF n
<1>7. Len(Active(q)) \in 0..Len(q)
  BY <1>2, <1>5 DEF n
<1>8. ASSUME NEW k \in 1..Len(Active(q))
      PROVE  Latest(Active(q), k) = Latest(q, k)
  <2>1. (n - d) - k + 1 \in 1..(n - d) /\ d + ((n - d) - k + 1) = n - k + 1
    BY <1>2, <1>5
  <2> QED BY <1>5, <1>6, <2>1 DEF Latest, n
<1>9. ASSUME NEW k \in 1..Len(q), Latest(q, k) < Window
      PROVE  k <= Len(Active(q))
  <2>1. n - k + 1 \in 1..n /\ q[n - k + 1] < Window
    BY <1>2, <1>9 DEF Latest, n
  <2>2. q[n - k + 1] \in 0..Window
    BY <1>2, <2>1
  <2>3. ~(n - k + 1 \in 1..d)
    BY <1>1, <2>1, <2>2, LimitsArePositive
  <2> QED BY <1>2, <1>5, <2>1, <2>3
<1>10. ASSUME Len(Active(q)) > 0
       PROVE  Latest(q, Len(Active(q))) < Window
  <2>1. d < n /\ n - (n - d) + 1 = d + 1
    BY <1>2, <1>5, <1>10
  <2> QED BY <1>1, <1>5, <2>1 DEF Latest, n
<1> QED BY <1>7, <1>8, <1>9, <1>10

LEMMA AppendFromTheEnd ==
  ASSUME NEW q \in Seq(0..Window)
  PROVE  /\ Append(q, 0) \in Seq(0..Window) /\ Len(Append(q, 0)) = Len(q) + 1
         /\ Latest(Append(q, 0), 1) = 0
         /\ \A k \in 2..(Len(q) + 1) : Latest(Append(q, 0), k) = Latest(q, k - 1)
<1>1. 0 \in 0..Window /\ Len(q) \in Nat
  BY LimitsArePositive
<1>2. /\ Append(q, 0) \in Seq(0..Window) /\ Len(Append(q, 0)) = Len(q) + 1
      /\ \A k \in 1..Len(q) : Append(q, 0)[k] = q[k]
      /\ Append(q, 0)[Len(q) + 1] = 0
  BY <1>1
<1>3. \A k \in 2..(Len(q) + 1) :
        Len(q) + 1 - k + 1 \in 1..Len(q) /\ Len(q) + 1 - k + 1 = Len(q) - (k - 1) + 1
  BY <1>1
<1>4. Len(q) + 1 - 1 + 1 = Len(q) + 1
  BY <1>1
<1> QED BY <1>2, <1>3, <1>4 DEF Latest

LEMMA OlderFromTheEnd ==
  ASSUME NEW q \in Seq(0..Window)
  PROVE  /\ Older(q) \in Seq(0..Window) /\ Len(Older(q)) = Len(q)
         /\ \A k \in 1..Len(q) :
              /\ Latest(q, k) \in 0..Window
              /\ Latest(Older(q), k) = IF Latest(q, k) < Window THEN Latest(q, k) + 1 ELSE Window
<1>1. Older(q) \in Seq(0..Window) /\ Len(Older(q)) = Len(q) /\ Len(q) \in Nat
  BY OlderKeepsLength
<1>2. \A k \in 1..Len(q) : Len(q) - k + 1 \in 1..Len(q)
  BY <1>1
<1>3. \A k \in 1..Len(q) : q[k] \in 0..Window
  BY ElementOfSeq
<1> QED BY <1>1, <1>2, <1>3 DEF Latest, Older

\* For the k-th last of the tokens issued there are k + n places taken no earlier.
Backed(places, tokens_out, n) ==
  \A k \in 1..Len(tokens_out) : Latest(tokens_out, k) < Window =>
    \A j \in 1..(k + n) :
      j <= Len(places) /\ Latest(places, j) <= Latest(tokens_out, k)

LEMMA BackedByFewer ==
  ASSUME NEW r, NEW i \in Seq(0..Window), NEW m \in Int, NEW n \in Int, m <= n, Backed(r, i, n)
  PROVE  Backed(r, i, m)
<1>1. \A k \in 1..Len(i) : 1..(k + m) \subseteq 1..(k + n)
  <2>1. Len(i) \in Nat
    OBVIOUS
  <2> QED BY <2>1
<1> QED BY <1>1 DEF Backed

LEMMA BackedAfterPop ==
  ASSUME NEW r \in Seq(0..Window), NEW i \in Seq(0..Window), NEW n \in Int, Backed(r, i, n)
  PROVE  Backed(Active(r), i, n)
<1> SUFFICES ASSUME NEW k \in 1..Len(i), Latest(i, k) < Window, NEW j \in 1..(k + n)
             PROVE  j <= Len(Active(r)) /\ Latest(Active(r), j) <= Latest(i, k)
  BY DEF Backed
<1>1. Len(i) \in Nat /\ Len(r) \in Nat /\ Len(Active(r)) \in 0..Len(r)
  BY ActiveFromTheEnd
<1>2. j \in Nat /\ j >= 1
  BY <1>1
<1>3. j <= Len(r) /\ Latest(r, j) <= Latest(i, k)
  BY DEF Backed
<1>4. j \in 1..Len(r) /\ Latest(r, j) \in 0..Window /\ Latest(i, k) \in 0..Window
  BY <1>1, <1>2, <1>3, OlderFromTheEnd
<1>5. Latest(r, j) < Window
  BY <1>3, <1>4, LimitsArePositive
<1>6. j <= Len(Active(r))
  BY <1>4, <1>5, ActiveFromTheEnd
<1>7. j \in 1..Len(Active(r))
  BY <1>1, <1>2, <1>6
<1> QED BY <1>3, <1>6, <1>7, ActiveFromTheEnd

\* A place is taken.
LEMMA BackedAfterConsume ==
  ASSUME NEW r \in Seq(0..Window), NEW i \in Seq(0..Window), NEW n \in Int, Backed(r, i, n)
  PROVE  Backed(Append(Active(r), 0), i, n + 1)
<1> DEFINE a == Active(r)
<1>1. a \in Seq(0..Window) /\ Backed(a, i, n)
  BY ActiveIsShorter, BackedAfterPop
<1> HIDE DEF a
<1> SUFFICES ASSUME NEW k \in 1..Len(i), Latest(i, k) < Window, NEW j \in 1..(k + (n + 1))
             PROVE  j <= Len(Append(a, 0)) /\ Latest(Append(a, 0), j) <= Latest(i, k)
  BY DEF Backed, a
<1>2. Len(i) \in Nat /\ Len(a) \in Nat /\ Len(Append(a, 0)) = Len(a) + 1
  BY <1>1, AppendFromTheEnd
<1>3. Latest(i, k) \in 0..Window
  BY OlderFromTheEnd
<1>4. CASE j = 1
  BY <1>1, <1>2, <1>3, <1>4, AppendFromTheEnd, LimitsArePositive
<1>5. CASE j # 1
  <2>1. j - 1 \in 1..(k + n)
    BY <1>2, <1>5
  <2>2. j - 1 <= Len(a) /\ Latest(a, j - 1) <= Latest(i, k)
    BY <1>1, <2>1 DEF Backed
  <2>3. j \in 2..(Len(a) + 1)
    BY <1>2, <2>1, <2>2
  <2>4. Latest(Append(a, 0), j) = Latest(a, j - 1)
    BY <1>1, <2>3, AppendFromTheEnd
  <2> QED BY <1>2, <2>2, <2>3, <2>4
<1> QED BY <1>4, <1>5

\* A token is handed over by one of at most as many requests as there are threads.
LEMMA BackedAfterIssue ==
  ASSUME NEW r \in Seq(0..Window), NEW i \in Seq(0..Window), NEW n \in Int, n <= 0,
         Backed(r, i, n)
  PROVE  Backed(r, Append(Active(i), 0), n - 1)
<1> DEFINE a == Active(i)
<1>1. /\ a \in Seq(0..Window) /\ Len(a) \in 0..Len(i)
      /\ \A k \in 1..Len(a) : Latest(a, k) = Latest(i, k)
  BY ActiveIsShorter, ActiveFromTheEnd
<1> HIDE DEF a
<1>2. Len(i) \in Nat /\ Len(a) \in Nat /\ Len(Append(a, 0)) = Len(a) + 1
  BY <1>1, AppendFromTheEnd
<1> SUFFICES ASSUME NEW k \in 1..(Len(a) + 1), Latest(Append(a, 0), k) < Window,
                    NEW j \in 1..(k + (n - 1))
             PROVE  j <= Len(r) /\ Latest(r, j) <= Latest(Append(a, 0), k)
  BY <1>2 DEF Backed, a
<1>3. k \in 2..(Len(a) + 1) /\ k - 1 \in 1..Len(a) /\ k - 1 \in 1..Len(i)
  BY <1>1, <1>2
<1>4. Latest(Append(a, 0), k) = Latest(i, k - 1)
  BY <1>1, <1>3, AppendFromTheEnd
<1>5. j \in 1..((k - 1) + n)
  BY <1>3
<1> QED BY <1>3, <1>4, <1>5 DEF Backed

\* Time passes.
LEMMA BackedAfterTick ==
  ASSUME NEW r \in Seq(0..Window), NEW i \in Seq(0..Window), NEW n \in Int, Backed(r, i, n)
  PROVE  Backed(Older(r), Active(Older(i)), n)
<1> DEFINE a == Active(Older(i))
<1>1. /\ a \in Seq(0..Window) /\ Len(a) \in 0..Len(i) /\ Len(i) \in Nat
      /\ \A k \in 1..Len(a) : Latest(a, k) = Latest(Older(i), k)
  BY OlderFromTheEnd, ActiveIsShorter, ActiveFromTheEnd
<1> HIDE DEF a
<1> SUFFICES ASSUME NEW k \in 1..Len(a), Latest(a, k) < Window, NEW j \in 1..(k + n)
             PROVE  j <= Len(Older(r)) /\ Latest(Older(r), j) <= Latest(a, k)
  BY DEF Backed, a
<1>2. k \in 1..Len(i)
  BY <1>1
<1>3. /\ Latest(i, k) \in 0..Window
      /\ Latest(a, k) = IF Latest(i, k) < Window THEN Latest(i, k) + 1 ELSE Window
  BY <1>1, <1>2, OlderFromTheEnd
<1>4. Latest(i, k) < Window /\ Latest(a, k) = Latest(i, k) + 1
  BY <1>3, LimitsArePositive
<1>5. j <= Len(r) /\ Latest(r, j) <= Latest(i, k)
  BY <1>2, <1>4 DEF Backed
<1>6. j \in 1..Len(r) /\ Len(r) \in Nat
  BY <1>1, <1>5
<1>7. /\ Latest(r, j) \in 0..Window /\ Len(Older(r)) = Len(r)
      /\ Latest(Older(r), j) = IF Latest(r, j) < Window THEN Latest(r, j) + 1 ELSE Window
  BY <1>6, OlderFromTheEnd
<1> QED BY <1>3, <1>4, <1>5, <1>7, LimitsArePositive

\* What the last window holds of tokens, it holds of places, but for -n.
LEMMA BackedIsBounded ==
  ASSUME NEW r \in Seq(0..Window), NEW i \in Seq(0..Window), NEW n \in Int, n <= 0,
         Backed(r, i, n)
  PROVE  Len(Active(i)) <= Len(r) - n
<1>1. Len(Active(i)) \in Nat /\ Len(i) \in Nat /\ Len(r) \in Nat /\ Len(Active(i)) <= Len(i)
  BY ActiveFromTheEnd
<1>2. CASE Len(Active(i)) + n <= 0
  BY <1>1, <1>2
<1>3. CASE Len(Active(i)) + n > 0
  <2> DEFINE k == Len(Active(i))
  <2>1. k \in 1..Len(i) /\ k + n \in 1..(k + n)
    BY <1>1, <1>3
  <2>2. Latest(i, k) < Window
    BY <1>1, <2>1, ActiveFromTheEnd
  <2> HIDE DEF k
  <2>3. k + n <= Len(r)
    BY <2>1, <2>2 DEF Backed
  <2> QED BY <1>1, <2>3 DEF k
<1> QED BY <1>1, <1>2, <1>3

\* The demo requests of an address that have a place and no answer yet.
DemoInFlight(c) ==
  {t \in Threads : pc[t] \in {"demo_looking", "demo_issuing"} /\ subject[t] = c}

\* How many more requests are on their way than there are threads: none or fewer.
Excess(c) == Cardinality(DemoInFlight(c)) - Cardinality(Threads)

PlacesAreTaken(c) ==
  /\ Len(requests[c]) <= DemoLimit
  /\ Backed(requests[c], issued[c], Excess(c))

DemoInv == AccessInv /\ \A c \in Clients : PlacesAreTaken(c)

LEMMA ExcessIsNegative ==
  \A c : /\ IsFiniteSet(DemoInFlight(c)) /\ Cardinality(DemoInFlight(c)) \in Nat
         /\ Cardinality(Threads) \in Nat
         /\ Excess(c) \in Int /\ Excess(c) <= 0
<1> TAKE c
<1>1. DemoInFlight(c) \subseteq Threads
  BY DEF DemoInFlight
<1>2. /\ IsFiniteSet(DemoInFlight(c))
      /\ Cardinality(DemoInFlight(c)) <= Cardinality(Threads)
  BY <1>1, FiniteThreads, FS_Subset
<1>3. Cardinality(DemoInFlight(c)) \in Nat /\ Cardinality(Threads) \in Nat
  BY <1>2, FiniteThreads, FS_CardinalityType
<1> QED BY <1>2, <1>3 DEF Excess

LEMMA ExcessIsNegativeNext ==
  (\A c : /\ IsFiniteSet(DemoInFlight(c)) /\ Cardinality(DemoInFlight(c)) \in Nat
          /\ Cardinality(Threads) \in Nat
          /\ Excess(c) \in Int /\ Excess(c) <= 0)'
BY ExcessIsNegative, PTL

\* No request joins, no place is taken and no token handed over.
LEMMA PlacesStay ==
  ASSUME DemoInv, NEW c \in Clients, DemoInFlight(c)' \subseteq DemoInFlight(c),
         requests'[c] = requests[c], issued'[c] = issued[c]
  PROVE  PlacesAreTaken(c)'
<1>1. Cardinality(DemoInFlight(c)') <= Cardinality(DemoInFlight(c))
  BY ExcessIsNegative, FS_Subset
<1>2. Excess(c)' <= Excess(c)
  BY <1>1, ExcessIsNegative, ExcessIsNegativeNext DEF Excess
<1>3. issued[c] \in Seq(0..Window)
  BY DEF DemoInv, AccessInv, TypeOK
<1>4. PlacesAreTaken(c)
  BY DEF DemoInv
<1>5. Backed(requests[c], issued[c], Excess(c)')
  BY <1>2, <1>3, <1>4, BackedByFewer, ExcessIsNegative, ExcessIsNegativeNext DEF PlacesAreTaken
<1> QED BY <1>4, <1>5 DEF PlacesAreTaken, Backed

LEMMA PlacesStep == DemoInv /\ [Next]_vars => \A c \in Clients : PlacesAreTaken(c)'
<1> SUFFICES ASSUME DemoInv, [Next]_vars, NEW c \in Clients PROVE PlacesAreTaken(c)'
  OBVIOUS
<1> USE DEF config, limiters, locals, Goto
<1>0. /\ requests[c] \in Seq(0..Window) /\ issued[c] \in Seq(0..Window)
      /\ AccessInv /\ PlacesAreTaken(c)
      /\ Len(requests[c]) \in Nat
  BY DEF DemoInv, AccessInv, TypeOK
<1>1. ASSUME NEW t \in Threads, NEW a \in Clients, Consume(t, a) PROVE PlacesAreTaken(c)'
  <2>1. CASE a = c
    <3>1. /\ requests'[c] = Append(Active(requests[c]), 0) /\ issued'[c] = issued[c]
          /\ DemoInFlight(c)' = DemoInFlight(c) \union {t} /\ t \notin DemoInFlight(c)
      BY <1>0, <1>1, <2>1 DEF Consume, DemoInFlight, AccessInv, TypeOK
    <3>2. Cardinality(DemoInFlight(c)') = Cardinality(DemoInFlight(c)) + 1
      BY <3>1, ExcessIsNegative, FS_AddElement
    <3>3. Excess(c)' = Excess(c) + 1
      BY <3>2, ExcessIsNegative DEF Excess
    <3>4. Backed(requests'[c], issued'[c], Excess(c)')
      BY <1>0, <3>1, <3>3, BackedAfterConsume, ExcessIsNegative DEF PlacesAreTaken
    <3>5. Len(Active(requests[c])) < DemoLimit
      BY <1>1, <2>1 DEF Consume
    <3>6. Active(requests[c]) \in Seq(0..Window)
      BY <1>0, ActiveIsShorter
    <3>7. Len(requests'[c]) <= DemoLimit
      BY <3>1, <3>5, <3>6, AppendFromTheEnd, LimitsArePositive
    <3> QED BY <3>4, <3>7 DEF PlacesAreTaken, Backed
  <2>2. CASE a # c
    BY <1>0, <1>1, <2>2, PlacesStay DEF Consume, DemoInFlight, AccessInv, TypeOK
  <2> QED BY <2>1, <2>2
<1>2. ASSUME NEW t \in Threads, NEW a \in Clients, RefuseDemo(t, a) PROVE PlacesAreTaken(c)'
  <2>1. DemoInFlight(c)' = DemoInFlight(c)
    BY <1>2 DEF RefuseDemo, DemoInFlight
  <2>2. CASE a = c
    <3>1. requests'[c] = Active(requests[c]) /\ issued'[c] = issued[c]
      BY <1>0, <1>2, <2>2 DEF RefuseDemo, AccessInv, TypeOK
    <3>2. Excess(c)' = Excess(c)
      BY <2>1 DEF Excess
    <3>3. Backed(requests'[c], issued'[c], Excess(c)')
      BY <1>0, <3>1, <3>2, BackedAfterPop, ExcessIsNegative DEF PlacesAreTaken
    <3>4. Len(requests'[c]) <= DemoLimit
      <4>1. Len(Active(requests[c])) <= Len(requests[c]) /\ Len(Active(requests[c])) \in Nat
        BY <1>0, ActiveIsShorter
      <4> QED BY <1>0, <3>1, <4>1, LimitsArePositive DEF PlacesAreTaken
    <3> QED BY <3>3, <3>4 DEF PlacesAreTaken, Backed
  <2>3. CASE a # c
    BY <1>0, <1>2, <2>1, <2>3, PlacesStay DEF RefuseDemo, AccessInv, TypeOK
  <2> QED BY <2>2, <2>3
<1>3. ASSUME NEW t \in Threads, IssueDemo(t) PROVE PlacesAreTaken(c)'
  <2>1. requests' = requests /\ pc[t] = "demo_issuing"
    BY <1>3 DEF IssueDemo
  <2>2. CASE subject[t] = c
    <3>1. /\ issued'[c] = Append(Active(issued[c]), 0)
          /\ DemoInFlight(c)' = DemoInFlight(c) \ {t} /\ t \in DemoInFlight(c)
      BY <1>0, <1>3, <2>2 DEF IssueDemo, Idle, DemoInFlight, AccessInv, TypeOK
    <3>2. Cardinality(DemoInFlight(c)') = Cardinality(DemoInFlight(c)) - 1
      BY <3>1, ExcessIsNegative, FS_RemoveElement
    <3>3. Excess(c)' = Excess(c) - 1
      BY <3>2, ExcessIsNegative DEF Excess
    <3>4. Backed(requests'[c], issued'[c], Excess(c)')
      BY <1>0, <2>1, <3>1, <3>3, BackedAfterIssue, ExcessIsNegative DEF PlacesAreTaken
    <3> QED BY <1>0, <2>1, <3>4 DEF PlacesAreTaken, Backed
  <2>3. CASE subject[t] # c
    <3>1. issued'[c] = issued[c] /\ DemoInFlight(c)' \subseteq DemoInFlight(c)
      BY <1>0, <1>3, <2>3 DEF IssueDemo, Idle, DemoInFlight, AccessInv, TypeOK
    <3> QED BY <2>1, <3>1, PlacesStay
  <2> QED BY <2>2, <2>3
<1>4. ASSUME Tick PROVE PlacesAreTaken(c)'
  <2>1. /\ requests'[c] = Older(requests[c]) /\ issued'[c] = Active(Older(issued[c]))
        /\ DemoInFlight(c)' = DemoInFlight(c)
    BY <1>4 DEF Tick, DemoInFlight
  <2>2. Excess(c)' = Excess(c)
    BY <2>1 DEF Excess
  <2>3. Backed(requests'[c], issued'[c], Excess(c)')
    BY <1>0, <2>1, <2>2, BackedAfterTick, ExcessIsNegative DEF PlacesAreTaken
  <2>4. Len(requests'[c]) <= DemoLimit
    BY <1>0, <2>1, OlderKeepsLength DEF PlacesAreTaken
  <2> QED BY <2>3, <2>4 DEF PlacesAreTaken, Backed
<1>5. ASSUME Restart PROVE PlacesAreTaken(c)'
  <2>1. requests'[c] = <<>> /\ issued'[c] = <<>>
    BY <1>5 DEF Restart
  <2>2. Len(requests'[c]) = 0 /\ Len(issued'[c]) = 0
    BY <2>1
  <2> QED BY <2>2, LimitsArePositive DEF PlacesAreTaken, Backed
<1>6. ASSUME requests' = requests, issued' = issued, DemoInFlight(c)' \subseteq DemoInFlight(c)
      PROVE  PlacesAreTaken(c)'
  BY <1>6, PlacesStay
<1>7. ASSUME NEW t \in Threads,
             \/ \E u \in Users : AskLogin(t, u)
             \/ \E k \in tokens, r \in Routes : Decode(t, k, r)
      PROVE  PlacesAreTaken(c)'
  BY <1>0, <1>6, <1>7 DEF AskLogin, Decode, DemoInFlight, AccessInv, TypeOK
<1>8. ASSUME NEW t \in Threads, Serve(t), ~IssueDemo(t) PROVE PlacesAreTaken(c)'
  BY <1>0, <1>6, <1>8 DEF Serve, RefuseBlocked, Verify, RecordFailure, IssueToken, FailIssue,
     ResetLimiter, ReadAnalyst, DemoUnavailable, LoadUser, Authorize, OpenSession, Answer,
     Timeout, Idle, DemoInFlight, AccessInv, TypeOK
<1>9. ASSUME NEW v \in Users, UpsertDemoUser(v) \/ Administer(v) PROVE PlacesAreTaken(c)'
  BY <1>6, <1>9 DEF UpsertDemoUser, Administer, DemoInFlight
<1>10. ASSUME UNCHANGED vars PROVE PlacesAreTaken(c)'
  BY <1>6, <1>10 DEF vars, DemoInFlight
<1> QED BY <1>1, <1>2, <1>3, <1>4, <1>5, <1>7, <1>8, <1>9, <1>10 DEF Next, Ask

\* No address gets more demo tokens within a window than the limit and the threads
\* that were on their way, whenever the tokens are handed over.
THEOREM IssuanceStaysBounded == Spec => []IssuanceIsBounded
<1>1. Init => DemoInv
  <2> SUFFICES ASSUME Init, NEW c \in Clients PROVE PlacesAreTaken(c)
    BY InitEstablishes DEF DemoInv
  <2>1. Len(requests[c]) = 0 /\ Len(issued[c]) = 0
    BY DEF Init
  <2> QED BY <2>1, LimitsArePositive DEF PlacesAreTaken, Backed
<1>2. DemoInv /\ [Next]_vars => DemoInv'
  BY TypeStep, LocalStep, HonestStep, BoundStep, PlacesStep DEF DemoInv, AccessInv
<1>3. DemoInv => IssuanceIsBounded
  <2> SUFFICES ASSUME DemoInv, NEW c \in Clients
               PROVE  Len(Active(issued[c])) <= DemoLimit + Cardinality(Threads)
    BY DEF IssuanceIsBounded
  <2>1. requests[c] \in Seq(0..Window) /\ issued[c] \in Seq(0..Window) /\ PlacesAreTaken(c)
    BY DEF DemoInv, AccessInv, TypeOK
  <2>2. Len(Active(issued[c])) <= Len(requests[c]) - Excess(c)
    BY <2>1, BackedIsBounded, ExcessIsNegative DEF PlacesAreTaken
  <2>3. Len(requests[c]) \in Nat /\ Len(Active(issued[c])) \in Nat
    BY <2>1, ActiveIsShorter
  <2> QED BY <2>1, <2>2, <2>3, ExcessIsNegative, LimitsArePositive DEF PlacesAreTaken, Excess
<1> QED BY <1>1, <1>2, <1>3, PTL DEF Spec
=============================================================================
