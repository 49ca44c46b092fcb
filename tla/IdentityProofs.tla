--------------------------- MODULE IdentityProofs ---------------------------
(***************************************************************************)
(* Of sessions and scopes, for any number of users, sessions and requests: *)
(* a session that ended stays ended, one that was idle too long has ended, *)
(* and a call is made only with a role its user had.                       *)
(***************************************************************************)
EXTENDS Identity, FiniteSetTheorems, WellFoundedInduction, TLAPS

Times == 0..MaxTime
MemberRoles == Given \cup {Nobody}

Rows ==
    [row : {"there"}, user : Users, created : Times, expires : Nat, seen : Times,
     revoked : Times \cup {Never}]

\* What a request can be at.
Finding == [at : {"find"}, id : Ids, moment : Times]
Touching == [at : {"touch"}, id : Ids, moment : Times, user : Users]
States ==
    {Idle} \cup [at : {"login"}, user : Users] \cup Finding \cup Touching
    \cup [at : {"identity"}, user : Users]
    \cup [at : {"scope"}, workspace : Workspaces, role : Given]
    \cup [at : {"call"}, workspace : Workspaces, capability : Wanted]

Types ==
    /\ clock \in Times
    /\ disabled \subseteq Users
    /\ role \in [Workspaces -> [Users -> MemberRoles]]
    /\ session \in [Ids -> {Unused, Deleted} \cup Rows]
    /\ request \in [Requests -> States]
    /\ acts \in [Ids -> SUBSET Times]
    /\ held \in [Requests -> SUBSET (Workspaces \X MemberRoles)]

\* A session acts from its creation on.
Begun(id, m) == \E c \in acts[id] : c <= m /\ \A n \in acts[id] : c <= n

\* Every time that is noted anywhere has come, and lies after the creation of the
\* session it is noted for.
ActsOrdered(id) ==
    /\ session[id] = Unused <=> acts[id] = {}
    /\ \A m \in acts[id] : m <= clock
    /\ There(id) => /\ session[id].expires = session[id].created + Lifetime
                    /\ session[id].seen \in acts[id]
Arrived(r) ==
    request[r].at \in {"find", "touch"} =>
        request[r].moment <= clock /\ Begun(request[r].id, request[r].moment)
Ordered == (\A id \in Ids : ActsOrdered(id)) /\ (\A r \in Requests : Arrived(r))

\* What Find saw of the session holds of the moment that Touch will note.
Lives(id, m) ==
    There(id) => /\ m < session[id].created + Lifetime
                 /\ session[id].revoked = Never \/ m <= session[id].revoked
Near(id, m) == \E s \in acts[id] : m - s < IdleTimeout
Judged ==
    \A r \in Requests : request[r].at = "touch" =>
        Lives(request[r].id, request[r].moment) /\ Near(request[r].id, request[r].moment)

\* What the user of a request is now, the user has been since it came.
Tracked ==
    \A r \in Requests :
        /\ request[r].at \in {"touch", "identity"} => RolesOf(request[r].user) \subseteq held[r]
        /\ request[r].at = "scope" => <<request[r].workspace, request[r].role>> \in held[r]

IInv ==
    Types /\ Ordered /\ Judged /\ Tracked /\ EndIsFinal /\ NoIdleGap /\ ScopeIsEarned

-----------------------------------------------------------------------------
\* A nonempty set of numbers has a least element.
LEMMA LeastNumber ==
    ASSUME NEW S \in SUBSET Nat, S # {}
    PROVE  \E m \in S : \A n \in S : m <= n
<1> DEFINE Below == {0..n : n \in S}
<1> DEFINE Less == StrictSubsetOrdering(Nat)
<1>1. Below \subseteq FiniteSubsetsOf(Nat) /\ Below # {}
  <2>1. ASSUME NEW n \in S PROVE 0..n \in FiniteSubsetsOf(Nat)
    <3>1. IsFiniteSet(0..n) /\ 0..n \in SUBSET Nat
      BY FS_Interval
    <3>2. QED
      BY <3>1 DEF FiniteSubsetsOf
  <2>2. QED
    BY <2>1
<1>2. PICK x \in Below : \A y \in Below : <<y, x>> \notin Less
  <2>1. IsWellFoundedOn(Less, FiniteSubsetsOf(Nat))
    BY FS_StrictSubsetOrderingWellFounded
  <2> HIDE DEF Below, Less
  <2>2. QED
    BY <1>1, <2>1, WFMin
<1>3. PICK m \in S : x = 0..m
  OBVIOUS
<1>4. ASSUME NEW n \in S, n < m PROVE FALSE
  <2>1. 0..n \subseteq 0..m /\ m \notin 0..n /\ m \in 0..m
    BY <1>4
  <2>2. 0..n \in SUBSET Nat /\ 0..m \in SUBSET Nat /\ 0..n # 0..m
    BY <2>1
  <2>3. <<0..n, 0..m>> \in Less
    BY <2>1, <2>2 DEF StrictSubsetOrdering
  <2>4. QED
    BY <1>2, <1>3, <2>3
<1>5. QED
  BY <1>4

\* Whoever comes between the first time and a later one of a set without gaps
\* finds an earlier time within the limit, in whatever order times are added.
LEMMA NoGapBefore ==
    ASSUME NEW S \in SUBSET Nat, NEW m \in Nat, NEW limit \in Nat,
           \A n \in S : (\A first \in S : n <= first) \/ \E s \in S : s < n /\ n - s < limit,
           NEW c \in S, c <= m, \A n \in S : c <= n,
           NEW near \in S, m - near < limit
    PROVE  m = c \/ \E s \in S : s < m /\ m - s < limit
<1> SUFFICES ASSUME m # c, near >= m PROVE \E s \in S : s < m /\ m - s < limit
  OBVIOUS
<1> DEFINE Later == {n \in S : n >= m}
<1>1. PICK t \in Later : \A n \in Later : t <= n
  BY LeastNumber
<1>2. PICK s \in S : s < t /\ t - s < limit
  BY <1>1
<1>3. s < m
  BY <1>1, <1>2
<1>4. QED
  BY <1>1, <1>2, <1>3

LEMMA NothingActs == Unused.row = "unused" /\ Deleted.row = "deleted" /\ Idle.at = "idle"
BY DEF Unused, Deleted, Idle

LEMMA InitIsGood == Init => IInv
<1> SUFFICES ASSUME Init PROVE IInv
  OBVIOUS
<1> USE IdentityAssumption DEF Init
<1>1. Types
  BY DEF Types, Times, States, MemberRoles
<1>2. Ordered /\ Judged /\ Tracked
  BY NothingActs DEF Ordered, ActsOrdered, Arrived, Judged, Tracked, There
<1>3. EndIsFinal /\ NoIdleGap /\ ScopeIsEarned
  BY NothingActs DEF EndIsFinal, NoIdleGap, ScopeIsEarned
<1>4. QED
  BY <1>1, <1>2, <1>3 DEF IInv

-----------------------------------------------------------------------------
LEMMA TypesStay == Types /\ [Next]_vars => Types'
<1> SUFFICES ASSUME Types, [Next]_vars PROVE Types'
  OBVIOUS
<1> USE IdentityAssumption DEF Types
<1>1. ASSUME NEW r \in Requests, Authenticate(r) PROVE Types'
  BY <1>1 DEF Authenticate, Step, States
<1>2. ASSUME NEW r \in Requests, CreateSession(r) PROVE Types'
  <2>1. PICK id \in Ids :
          /\ session' = [session EXCEPT ![id] = Row(request[r].user, clock)]
          /\ acts' = [acts EXCEPT ![id] = {clock}]
    BY <1>2 DEF CreateSession
  <2>2. request[r].user \in Users
    BY <1>2, NothingActs DEF CreateSession, States, Finding, Touching
  <2>3. Row(request[r].user, clock) \in Rows
    BY <2>2 DEF Row, Rows, Times
  <2>4. QED
    BY <1>2, <2>1, <2>3 DEF CreateSession, Step, States
<1>3. ASSUME NEW r \in Requests, Arrive(r) PROVE Types'
  BY <1>3 DEF Arrive, Step, States, Finding
<1>4. ASSUME NEW r \in Requests, Find(r) PROVE Types'
  <2>1. request[r] \in Finding
    BY <1>4, NothingActs DEF Find, States, Touching
  <2>2. CASE There(request[r].id) /\ IsUsable(session[request[r].id], request[r].moment)
    <3>1. session[request[r].id] \in Rows
      BY <2>1, <2>2, NothingActs DEF There, Finding
    <3>2. session[request[r].id].user \in Users
      BY <3>1 DEF Rows
    <3>3. RolesOf(session[request[r].id].user) \subseteq Workspaces \X MemberRoles
      BY <3>2 DEF RolesOf
    <3> DEFINE next == [at |-> "touch", id |-> request[r].id,
                        moment |-> request[r].moment, user |-> session[request[r].id].user]
    <3>4. next \in States
      BY <2>1, <3>2 DEF States, Finding, Touching
    <3>5. request' = [request EXCEPT ![r] = next]
      BY <1>4, <2>2 DEF Find, Step
    <3>6. held' = [held EXCEPT ![r] = RolesOf(session[request[r].id].user)]
      BY <1>4, <2>2 DEF Find
    <3> HIDE DEF next
    <3>7. request' \in [Requests -> States]
      BY <3>4, <3>5
    <3>8. held' \in [Requests -> SUBSET (Workspaces \X MemberRoles)]
      BY <3>3, <3>6
    <3>9. QED
      BY <1>4, <3>7, <3>8 DEF Find
  <2>3. CASE ~(There(request[r].id) /\ IsUsable(session[request[r].id], request[r].moment))
    BY <1>4, <2>3 DEF Find, Step, States
  <2>4. QED
    BY <2>2, <2>3
<1>5. ASSUME NEW r \in Requests, Touch(r) PROVE Types'
  <2>1. request[r] \in Touching
    BY <1>5, NothingActs DEF Touch, States, Finding
  <2>2. session' \in [Ids -> {Unused, Deleted} \cup Rows]
    <3>1. ASSUME session[request[r].id].row = "there"
          PROVE [session[request[r].id] EXCEPT !.seen = request[r].moment] \in Rows
      BY <2>1, <3>1, NothingActs DEF Rows, Touching
    <3>2. QED
      BY <1>5, <2>1, <3>1 DEF Touch
  <2>3. request' \in [Requests -> States]
    BY <1>5, <2>1 DEF Touch, Authenticated, Step, States, Touching
  <2>4. acts' \in [Ids -> SUBSET Times]
    BY <1>5, <2>1 DEF Touch, Authenticated, Touching
  <2>5. QED
    BY <1>5, <2>2, <2>3, <2>4 DEF Touch
<1>6. ASSUME NEW r \in Requests, AuthorizeWorkspace(r) PROVE Types'
  <2>1. request[r] \in [at : {"identity"}, user : Users]
    BY <1>6, NothingActs DEF AuthorizeWorkspace, States, Finding, Touching
  <2>2. PICK w \in Workspaces :
           IF role[w][request[r].user] = Nobody THEN End(r)
           ELSE /\ Step(r, [at |-> "scope", workspace |-> w, role |-> role[w][request[r].user]])
                /\ UNCHANGED held
    BY <1>6 DEF AuthorizeWorkspace
  <2>3. role[w][request[r].user] \in MemberRoles
    BY <2>1
  <2>4. CASE role[w][request[r].user] = Nobody
    BY <1>6, <2>2, <2>4 DEF AuthorizeWorkspace, End, Step, States
  <2>5. CASE role[w][request[r].user] # Nobody
    <3>1. [at |-> "scope", workspace |-> w, role |-> role[w][request[r].user]] \in States
      BY <2>3, <2>5 DEF States, MemberRoles
    <3>2. QED
      BY <1>6, <2>2, <2>5, <3>1 DEF AuthorizeWorkspace, Step
  <2>6. QED
    BY <2>4, <2>5
<1>7. ASSUME NEW r \in Requests, Require(r) PROVE Types'
  <2>1. request[r].workspace \in Workspaces
    BY <1>7, NothingActs DEF Require, States, Finding, Touching
  <2>2. PICK c \in Wanted :
           IF c \notin Grants[request[r].role] THEN End(r)
           ELSE /\ Step(r, [at |-> "call", workspace |-> request[r].workspace, capability |-> c])
                /\ UNCHANGED held
    BY <1>7 DEF Require
  <2>3. [at |-> "call", workspace |-> request[r].workspace, capability |-> c] \in States
    BY <2>1 DEF States
  <2>4. Idle \in States
    BY DEF States
  <2>5. QED
    BY <1>7, <2>2, <2>3, <2>4 DEF Require, End, Step
<1>8. ASSUME NEW r \in Requests, Return(r) PROVE Types'
  BY <1>8 DEF Return, End, Step, States
<1>9. ASSUME NEW id \in Ids, There(id) PROVE Revoked(session[id]) \in Rows
  BY <1>9, NothingActs DEF There, Revoked, Rows, Times
<1>10. CASE Revoke
  BY <1>9, <1>10 DEF Revoke
<1>11. CASE RevokeAllForUser
  BY <1>9, <1>11 DEF RevokeAllForUser
<1>12. CASE DeleteExpired
  BY <1>12 DEF DeleteExpired
<1>13. CASE SetRole
  <2>1. PICK w \in Workspaces, u \in Users, new \in MemberRoles :
          /\ role' = [role EXCEPT ![w][u] = new]
          /\ held' = [r \in Requests |->
                        IF request[r].at \in {"touch", "identity"} /\ request[r].user = u
                        THEN held[r] \cup {<<w, new>>} ELSE held[r]]
    BY <1>13 DEF SetRole, MemberRoles
  <2>2. held' \in [Requests -> SUBSET (Workspaces \X MemberRoles)]
    BY <2>1
  <2>3. role' \in [Workspaces -> [Users -> MemberRoles]]
    BY <2>1
  <2>4. QED
    BY <1>13, <2>2, <2>3 DEF SetRole
<1>14. CASE Disable
  BY <1>14 DEF Disable
<1>15. CASE Tick
  BY <1>15 DEF Tick, Times
<1>16. CASE UNCHANGED vars
  BY <1>16 DEF vars
<1>17. QED
  BY <1>1, <1>2, <1>3, <1>4, <1>5, <1>6, <1>7, <1>8, <1>10, <1>11, <1>12, <1>13, <1>14,
     <1>15, <1>16 DEF Next

-----------------------------------------------------------------------------
Timed == Ordered /\ Judged /\ EndIsFinal /\ NoIdleGap

\* A request that has come and is not let in yet.
Waiting(r) == request[r].at \in {"find", "touch"}

LEMMA WaitingTypes ==
    ASSUME Types, NEW r \in Requests, Waiting(r)
    PROVE  request[r].id \in Ids /\ request[r].moment \in Nat
BY IdentityAssumption, NothingActs DEF Types, Waiting, States, Finding, Touching, Times

LEMMA EndsOfLives == EndIsFinal <=> \A id \in Ids : \A m \in acts[id] : Lives(id, m)
BY DEF EndIsFinal, Lives

\* What only moves requests that are past their session leaves all times alone.
LEMMA OthersKeepTimes ==
    ASSUME Timed, UNCHANGED <<clock, session, acts>>,
           \A r \in Requests : Waiting(r)' => request'[r] = request[r]
    PROVE  Timed'
<1>1. Ordered'
  BY DEF Timed, Ordered, ActsOrdered, Arrived, Begun, There, Waiting
<1>2. Judged'
  BY DEF Timed, Judged, Lives, Near, There, Waiting
<1>3. EndIsFinal' /\ NoIdleGap'
  BY DEF Timed, EndIsFinal, NoIdleGap, There
<1>4. QED
  BY <1>1, <1>2, <1>3 DEF Timed

\* A new session acts when it is created.
LEMMA CreateKeepsTimes ==
    ASSUME Types, Timed, NEW r \in Requests, CreateSession(r) PROVE Timed'
<1> USE IdentityAssumption DEF Types, Times
<1>1. PICK id \in Ids :
         /\ session[id] = Unused
         /\ session' = [session EXCEPT ![id] = Row(request[r].user, clock)]
         /\ acts' = [acts EXCEPT ![id] = {clock}]
  BY DEF CreateSession
<1>2. /\ request' = [request EXCEPT ![r] = Idle]
      /\ UNCHANGED <<clock, disabled, role, held, changes>>
  BY DEF CreateSession, Step
<1>3. acts[id] = {}
  BY <1>1 DEF Timed, Ordered, ActsOrdered
<1>4. ASSUME NEW q \in Requests, Waiting(q)'
      PROVE  /\ request'[q] = request[q] /\ Waiting(q)
             /\ request[q].id \in Ids \ {id} /\ request[q].moment \in Nat
  <2>1. request'[q] = request[q] /\ Waiting(q)
    BY <1>2, <1>4, NothingActs DEF Waiting
  <2>2. Begun(request[q].id, request[q].moment)
    BY <2>1 DEF Timed, Ordered, Arrived, Waiting
  <2>3. QED
    BY <1>3, <2>1, <2>2, WaitingTypes DEF Begun
<1>5. /\ session'[id] # Unused /\ There(id)' /\ acts'[id] = {clock}
      /\ session'[id].expires = clock + Lifetime /\ session'[id].created = clock
      /\ session'[id].seen = clock /\ session'[id].revoked = Never
  BY <1>1, NothingActs DEF Row, There
<1>6. \A i \in Ids \ {id} : session'[i] = session[i] /\ acts'[i] = acts[i]
  BY <1>1
<1>7. Ordered'
  <2>1. ActsOrdered(id)'
    BY <1>2, <1>5 DEF ActsOrdered
  <2>2. ASSUME NEW i \in Ids \ {id} PROVE ActsOrdered(i)'
    BY <1>2, <1>6 DEF Timed, Ordered, ActsOrdered, There
  <2>3. ASSUME NEW q \in Requests PROVE Arrived(q)'
    BY <1>2, <1>4, <1>6 DEF Timed, Ordered, Arrived, Begun, Waiting
  <2>4. QED
    BY <2>1, <2>2, <2>3 DEF Ordered
<1>8. Judged'
  BY <1>4, <1>6 DEF Timed, Judged, Lives, Near, There, Waiting
<1>9. EndIsFinal'
  <2>1. \A m \in acts'[id] : Lives(id, m)'
    BY <1>5 DEF Lives
  <2>2. \A i \in Ids \ {id} : \A m \in acts'[i] : Lives(i, m)'
    BY <1>6, EndsOfLives DEF Timed, Lives, There
  <2>3. QED
    BY <2>1, <2>2 DEF EndIsFinal, Lives
<1>10. NoIdleGap'
  BY <1>5, <1>6 DEF Timed, NoIdleGap
<1>11. QED
  BY <1>7, <1>8, <1>9, <1>10 DEF Timed

\* A request that arrives finds a session that has begun ...
LEMMA ArriveKeepsTimes ==
    ASSUME Types, Timed, NEW r \in Requests, Arrive(r) PROVE Timed'
<1> USE IdentityAssumption DEF Types, Times
<1>1. PICK id \in Ids :
         /\ session[id] # Unused
         /\ request' = [request EXCEPT ![r] = [at |-> "find", id |-> id, moment |-> clock]]
  BY DEF Arrive, Step
<1>2. UNCHANGED <<clock, session, acts>>
  BY DEF Arrive
<1>3. Begun(id, clock)
  <2>1. acts[id] # {} /\ acts[id] \in SUBSET Nat
    BY <1>1 DEF Timed, Ordered, ActsOrdered
  <2>2. PICK c \in acts[id] : \A n \in acts[id] : c <= n
    BY <2>1, LeastNumber
  <2>3. QED
    BY <2>2 DEF Timed, Ordered, ActsOrdered, Begun
<1>4. Ordered'
  BY <1>1, <1>2, <1>3 DEF Timed, Ordered, ActsOrdered, Arrived, Begun, There
<1>5. Judged'
  BY <1>1, <1>2 DEF Timed, Judged, Lives, Near, There
<1>6. EndIsFinal' /\ NoIdleGap'
  BY <1>2 DEF Timed, EndIsFinal, NoIdleGap, There
<1>7. QED
  BY <1>4, <1>5, <1>6 DEF Timed

\* ... and what Find sees is what Touch relies on.
LEMMA FindKeepsTimes ==
    ASSUME Types, Timed, NEW r \in Requests, Find(r) PROVE Timed'
<1> USE IdentityAssumption DEF Types, Times
<1>1. UNCHANGED <<clock, session, acts>> /\ Waiting(r)
  BY DEF Find, Waiting
<1>2. PICK id \in Ids, m \in Nat : id = request[r].id /\ m = request[r].moment
  BY <1>1, WaitingTypes
<1>3. CASE There(id) /\ IsUsable(session[id], m)
  <2>1. session[id] \in Rows
    BY <1>3, NothingActs DEF There
  <2>2. request' = [request EXCEPT ![r] = [at |-> "touch", id |-> id, moment |-> m,
                                           user |-> session[id].user]]
    BY <1>2, <1>3 DEF Find, Step
  <2>3. Lives(id, m) /\ Near(id, m)
    BY <1>3, <2>1 DEF Timed, Ordered, ActsOrdered, IsUsable, Lives, Near
  <2>4. m <= clock /\ Begun(id, m)
    BY <1>1, <1>2 DEF Timed, Ordered, Arrived, Waiting
  <2>5. Ordered'
    BY <1>1, <2>2, <2>4 DEF Timed, Ordered, ActsOrdered, Arrived, Begun, There
  <2>6. Judged'
    BY <1>1, <2>2, <2>3 DEF Timed, Judged, Lives, Near, There
  <2>7. EndIsFinal' /\ NoIdleGap'
    BY <1>1 DEF Timed, EndIsFinal, NoIdleGap, There
  <2>8. QED
    BY <2>5, <2>6, <2>7 DEF Timed
<1>4. CASE ~(There(id) /\ IsUsable(session[id], m))
  <2>1. request' = [request EXCEPT ![r] = Idle]
    BY <1>2, <1>4 DEF Find, Step
  <2>2. \A q \in Requests : Waiting(q)' => request'[q] = request[q]
    BY <2>1, NothingActs DEF Waiting
  <2>3. QED
    BY <1>1, <2>2, OthersKeepTimes
<1>5. QED
  BY <1>3, <1>4

\* The moment that Touch adds to the times of its session lies where Find put it.
LEMMA TouchKeepsTimes ==
    ASSUME Types, Timed, NEW r \in Requests, Touch(r) PROVE Timed'
<1> USE IdentityAssumption DEF Types, Times
<1>1. Waiting(r) /\ request[r].at = "touch"
  BY DEF Touch, Waiting
<1>2. PICK id \in Ids, m \in Nat : id = request[r].id /\ m = request[r].moment
  BY <1>1, WaitingTypes
<1>3. m <= clock /\ Begun(id, m) /\ Lives(id, m) /\ Near(id, m)
  BY <1>1, <1>2 DEF Timed, Ordered, Arrived, Waiting, Judged
<1>4. /\ session' = [session EXCEPT ![id] =
                        IF @.row = "there" THEN [@ EXCEPT !.seen = m] ELSE @]
      /\ acts' = [acts EXCEPT ![id] = @ \cup {m}]
      /\ request' = [request EXCEPT ![r] = [at |-> "identity", user |-> request[r].user]]
      /\ UNCHANGED clock
  BY <1>2 DEF Touch, Authenticated, Step
<1>5. ASSUME NEW q \in Requests, Waiting(q)'
      PROVE  request'[q] = request[q] /\ Waiting(q)
             /\ request[q].id \in Ids /\ request[q].moment \in Nat
  <2>1. request'[q] = request[q] /\ Waiting(q)
    BY <1>4, <1>5 DEF Waiting
  <2>2. QED
    BY <2>1, WaitingTypes
<1>6. \A i \in Ids \ {id} : session'[i] = session[i] /\ acts'[i] = acts[i]
  BY <1>4
<1>7. acts'[id] = acts[id] \cup {m} /\ acts[id] \in SUBSET Nat
  BY <1>4
<1>8. /\ There(id) => session'[id] = [session[id] EXCEPT !.seen = m]
      /\ ~There(id) => session'[id] = session[id]
  BY <1>4 DEF There
<1>9. /\ There(id)' <=> There(id)
      /\ There(id) => /\ session'[id].seen = m
                      /\ session'[id].created = session[id].created
                      /\ session'[id].expires = session[id].expires
                      /\ session'[id].revoked = session[id].revoked
  <2>1. CASE There(id)
    <3>1. session[id] \in Rows
      BY <2>1, NothingActs DEF There
    <3>2. QED
      BY <1>8, <2>1, <3>1 DEF There, Rows
  <2>2. CASE ~There(id)
    BY <1>8, <2>2 DEF There
  <2>3. QED
    BY <2>1, <2>2
<1>10. ASSUME NEW i \in Ids, NEW k \in Nat, Begun(i, k) PROVE Begun(i, k)'
  <2>1. CASE i = id
    <3>1. PICK c \in acts[id] : c <= m /\ \A n \in acts[id] : c <= n
      BY <1>3 DEF Begun
    <3>2. c <= k
      BY <1>7, <1>10, <2>1, <3>1 DEF Begun
    <3>3. QED
      BY <1>7, <2>1, <3>1, <3>2 DEF Begun
  <2>2. CASE i # id
    BY <1>6, <1>10, <2>2 DEF Begun
  <2>3. QED
    BY <2>1, <2>2
<1>11. ASSUME NEW i \in Ids, NEW k \in Nat, Lives(i, k) PROVE Lives(i, k)'
  BY <1>6, <1>9, <1>11 DEF Lives, There
<1>12. ASSUME NEW i \in Ids, NEW k \in Nat, Near(i, k) PROVE Near(i, k)'
  BY <1>6, <1>7, <1>12 DEF Near
<1>13. Ordered'
  <2>1. ActsOrdered(id)'
    <3>1. session'[id] # Unused
      <4>1. session[id] # Unused
        BY <1>3 DEF Begun, Timed, Ordered, ActsOrdered
      <4>2. CASE There(id)
        BY <1>9, <4>2, NothingActs DEF There
      <4>3. CASE ~There(id)
        BY <1>8, <4>1, <4>3
      <4>4. QED
        BY <4>2, <4>3
    <3>2. QED
      BY <1>3, <1>4, <1>7, <1>9, <3>1 DEF Timed, Ordered, ActsOrdered
  <2>2. ASSUME NEW i \in Ids \ {id} PROVE ActsOrdered(i)'
    BY <1>4, <1>6 DEF Timed, Ordered, ActsOrdered, There
  <2>3. ASSUME NEW q \in Requests, Waiting(q)' PROVE Arrived(q)'
    <3>1. PICK i \in Ids, k \in Nat : i = request[q].id /\ k = request[q].moment
      BY <1>5, <2>3
    <3>2. k <= clock /\ Begun(i, k)
      BY <1>5, <2>3, <3>1 DEF Timed, Ordered, Arrived, Waiting
    <3>3. Begun(i, k)'
      BY <1>10, <3>2
    <3>4. request'[q].id = i /\ request'[q].moment = k
      BY <1>5, <2>3, <3>1
    <3>5. QED
      BY <1>4, <3>2, <3>3, <3>4 DEF Arrived, Begun
  <2>4. QED
    BY <2>1, <2>2, <2>3 DEF Ordered, Arrived, Waiting
<1>14. Judged'
  <2>1. ASSUME NEW q \in Requests, request'[q].at = "touch"
        PROVE  (Lives(request[q].id, request[q].moment) /\ Near(request[q].id, request[q].moment))'
    <3>1. Waiting(q)'
      BY <2>1 DEF Waiting
    <3>2. PICK i \in Ids, k \in Nat : i = request[q].id /\ k = request[q].moment
      BY <1>5, <3>1
    <3>3. Lives(i, k) /\ Near(i, k) /\ request'[q].id = i /\ request'[q].moment = k
      BY <1>5, <2>1, <3>1, <3>2 DEF Timed, Judged
    <3>4. Lives(i, k)' /\ Near(i, k)'
      BY <1>11, <1>12, <3>3
    <3>5. QED
      BY <3>3, <3>4 DEF Lives, Near, There
  <2>2. QED
    BY <2>1 DEF Judged
<1>15. EndIsFinal'
  <2>1. ASSUME NEW i \in Ids, NEW k \in acts'[i] PROVE Lives(i, k) /\ k \in Nat
    <3>1. k \in acts[i] \/ (i = id /\ k = m)
      BY <1>6, <1>7
    <3>2. \A n \in acts[i] : Lives(i, n) /\ n \in Nat
      BY EndsOfLives DEF Timed
    <3>3. QED
      BY <1>3, <3>1, <3>2
  <2>2. \A i \in Ids : \A k \in acts'[i] : Lives(i, k)'
    BY <1>11, <2>1
  <2>3. QED
    BY <2>2 DEF EndIsFinal, Lives
<1>16. NoIdleGap'
  <2>1. PICK near \in acts[id] : m - near < IdleTimeout
    BY <1>3 DEF Near
  <2>2. PICK c \in acts[id] : c <= m /\ \A n \in acts[id] : c <= n
    BY <1>3 DEF Begun
  <2>3. \A n \in acts[id] : (\A first \in acts[id] : n <= first)
                            \/ \E s \in acts[id] : s < n /\ n - s < IdleTimeout
    BY DEF Timed, NoIdleGap
  <2>4. IdleTimeout \in Nat
    OBVIOUS
  <2>5. m = c \/ \E s \in acts[id] : s < m /\ m - s < IdleTimeout
    <3> DEFINE S == acts[id]
    <3>1. /\ S \in SUBSET Nat /\ near \in S /\ c \in S
          /\ \A n \in S : (\A first \in S : n <= first) \/ \E s \in S : s < n /\ n - s < IdleTimeout
          /\ c <= m /\ \A n \in S : c <= n
      BY <1>7, <2>1, <2>2, <2>3
    <3> HIDE DEF S
    <3>2. m = c \/ \E s \in S : s < m /\ m - s < IdleTimeout
      BY <2>1, <2>4, <3>1, NoGapBefore
    <3>3. QED
      BY <3>2 DEF S
  <2>6. ASSUME NEW n \in acts'[id]
        PROVE  \/ \A first \in acts'[id] : n <= first
               \/ \E s \in acts'[id] : s < n /\ n - s < IdleTimeout
    <3>1. CASE n = m
      BY <1>7, <2>2, <2>5, <3>1
    <3>2. CASE n \in acts[id]
      BY <1>7, <2>2, <2>3, <3>2
    <3>3. QED
      BY <1>7, <3>1, <3>2
  <2>7. QED
    BY <1>6, <2>6 DEF Timed, NoIdleGap
<1>17. QED
  BY <1>13, <1>14, <1>15, <1>16 DEF Timed

\* Sessions end at the present moment, which no time that is noted is later than.
LEMMA EndingKeepsTimes ==
    ASSUME Types, Timed, UNCHANGED <<clock, request, acts>>,
           \A id \in Ids : \/ session'[id] = session[id]
                           \/ There(id) /\ session'[id] \in {Deleted, Revoked(session[id])}
    PROVE  Timed'
<1> USE IdentityAssumption DEF Types, Times
<1>1. ASSUME NEW id \in Ids, There(id)'
      PROVE  /\ There(id)
             /\ session'[id].expires = session[id].expires
             /\ session'[id].created = session[id].created
             /\ session'[id].seen = session[id].seen
             /\ session'[id].revoked =
                   IF session'[id] # session[id] /\ session[id].revoked = Never
                   THEN clock ELSE session[id].revoked
  <2>1. session'[id] # Deleted
    BY <1>1, NothingActs DEF There
  <2>2. CASE session'[id] = session[id]
    BY <1>1, <2>2 DEF There
  <2>3. CASE There(id) /\ session'[id] = Revoked(session[id])
    <3>1. session[id] \in Rows
      BY <2>3, NothingActs DEF There
    <3>2. QED
      BY <2>3, <3>1 DEF Revoked, Rows
  <2>4. QED
    BY <2>1, <2>2, <2>3
<1>2. ASSUME NEW id \in Ids PROVE session'[id] = Unused <=> session[id] = Unused
  <2>1. CASE session'[id] = session[id]
    BY <2>1
  <2>2. CASE There(id) /\ session'[id] = Deleted
    BY <2>2, NothingActs DEF There
  <2>3. CASE There(id) /\ session'[id] = Revoked(session[id])
    <3>1. session[id] \in Rows
      BY <2>3, NothingActs DEF There
    <3>2. session'[id].row = "there"
      BY <2>3, <3>1 DEF Revoked, Rows
    <3>3. QED
      BY <2>3, <3>2, NothingActs DEF There
  <2>4. QED
    BY <2>1, <2>2, <2>3
<1>3. ASSUME NEW id \in Ids, NEW m \in Nat, m <= clock, Lives(id, m) PROVE Lives(id, m)'
  BY <1>1, <1>3 DEF Lives
<1>4. Ordered'
  <2>1. ASSUME NEW id \in Ids PROVE ActsOrdered(id)'
    BY <1>1, <1>2 DEF Timed, Ordered, ActsOrdered
  <2>2. QED
    BY <2>1 DEF Timed, Ordered, Arrived, Begun
<1>5. Judged'
  <2>1. ASSUME NEW q \in Requests, request[q].at = "touch"
        PROVE  Lives(request[q].id, request[q].moment)'
    <3>1. Waiting(q)
      BY <2>1 DEF Waiting
    <3>2. PICK i \in Ids, k \in Nat : i = request[q].id /\ k = request[q].moment
      BY <3>1, WaitingTypes
    <3>3. k <= clock /\ Lives(i, k)
      BY <2>1, <3>1, <3>2 DEF Timed, Ordered, Arrived, Waiting, Judged
    <3>4. Lives(i, k)'
      BY <1>3, <3>3
    <3>5. QED
      BY <3>2, <3>4 DEF Lives, There
  <2>2. QED
    BY <2>1 DEF Timed, Judged, Near
<1>6. EndIsFinal'
  <2>1. ASSUME NEW id \in Ids, NEW m \in acts[id] PROVE Lives(id, m)'
    <3>1. m \in Nat /\ m <= clock /\ Lives(id, m)
      BY EndsOfLives DEF Timed, Ordered, ActsOrdered
    <3>2. QED
      BY <1>3, <3>1
  <2>2. QED
    BY <2>1 DEF EndIsFinal, Lives
<1>7. NoIdleGap'
  BY DEF Timed, NoIdleGap
<1>8. QED
  BY <1>4, <1>5, <1>6, <1>7 DEF Timed

LEMMA TimesStay == Types /\ Timed /\ [Next]_vars => Timed'
<1> SUFFICES ASSUME Types, Timed, [Next]_vars PROVE Timed'
  OBVIOUS
<1>1. ASSUME NEW r \in Requests,
             \/ Authenticate(r) \/ AuthorizeWorkspace(r) \/ Require(r) \/ Return(r)
      PROVE  Timed'
  <2>1. UNCHANGED <<clock, session, acts>>
    BY <1>1 DEF Authenticate, AuthorizeWorkspace, Require, Return
  <2>2. \A q \in Requests : Waiting(q)' => request'[q] = request[q]
    BY <1>1, NothingActs
       DEF Authenticate, AuthorizeWorkspace, Require, Return, End, Step, Waiting, Types
  <2>3. QED
    BY <2>1, <2>2, OthersKeepTimes
<1>2. ASSUME NEW r \in Requests, CreateSession(r) \/ Arrive(r) \/ Find(r) \/ Touch(r)
      PROVE  Timed'
  BY <1>2, CreateKeepsTimes, ArriveKeepsTimes, FindKeepsTimes, TouchKeepsTimes
<1>3. CASE Revoke \/ RevokeAllForUser \/ DeleteExpired
  <2>1. UNCHANGED <<clock, request, acts>>
    BY <1>3 DEF Revoke, RevokeAllForUser, DeleteExpired
  <2>2. \A id \in Ids : \/ session'[id] = session[id]
                        \/ There(id) /\ session'[id] \in {Deleted, Revoked(session[id])}
    BY <1>3 DEF Types, Revoke, RevokeAllForUser, DeleteExpired
  <2>3. QED
    BY <2>1, <2>2, EndingKeepsTimes
<1>4. CASE SetRole \/ Disable \/ UNCHANGED vars
  <2>1. UNCHANGED <<clock, session, acts, request>>
    BY <1>4 DEF SetRole, Disable, vars
  <2>2. QED
    BY <2>1, OthersKeepTimes
<1>5. CASE Tick
  <2>1. clock' = clock + 1 /\ UNCHANGED <<session, acts, request>> /\ clock \in Nat
    BY <1>5, IdentityAssumption DEF Tick, Types, Times
  <2>2. Ordered'
    <3>1. ASSUME NEW id \in Ids PROVE ActsOrdered(id)'
      BY <2>1, IdentityAssumption DEF Timed, Ordered, ActsOrdered, There, Types, Times
    <3>2. ASSUME NEW r \in Requests PROVE Arrived(r)'
      BY <2>1, WaitingTypes DEF Timed, Ordered, Arrived, Begun, Waiting
    <3>3. QED
      BY <3>1, <3>2 DEF Ordered
  <2>3. Judged' /\ EndIsFinal' /\ NoIdleGap'
    BY <2>1 DEF Timed, Judged, Lives, Near, EndIsFinal, NoIdleGap, There
  <2>4. QED
    BY <2>2, <2>3 DEF Timed
<1>6. QED
  BY <1>1, <1>2, <1>3, <1>4, <1>5 DEF Next

-----------------------------------------------------------------------------
LEMMA ScopesStay == Types /\ Tracked /\ ScopeIsEarned /\ [Next]_vars => (Tracked /\ ScopeIsEarned)'
<1> SUFFICES ASSUME Types, Tracked, ScopeIsEarned, [Next]_vars PROVE (Tracked /\ ScopeIsEarned)'
  OBVIOUS
<1> DEFINE Good(r) ==
        /\ request[r].at \in {"touch", "identity"} => RolesOf(request[r].user) \subseteq held[r]
        /\ request[r].at = "scope" => /\ <<request[r].workspace, request[r].role>> \in held[r]
                                      /\ request[r].role # Nobody
        /\ request[r].at = "call" =>
              \E h \in held[r] : /\ h[1] = request[r].workspace /\ h[2] # Nobody
                                 /\ request[r].capability \in Grants[h[2]]
<1>1. \A r \in Requests : Good(r)
  BY NothingActs, RolesAssumption
     DEF Tracked, ScopeIsEarned, Types, States, Finding, Touching
<1>2. SUFFICES ASSUME NEW r \in Requests PROVE Good(r)'
  BY DEF Tracked, ScopeIsEarned
<1>3. CASE request'[r] = request[r] /\ held'[r] = held[r] /\ role' = role
  BY <1>1, <1>3 DEF RolesOf
<1>4. CASE request'[r] = Idle
  BY <1>4, NothingActs
<1>5. ASSUME NEW q \in Requests,
             \/ Authenticate(q) \/ CreateSession(q) \/ Arrive(q) \/ Find(q) \/ Touch(q)
             \/ AuthorizeWorkspace(q) \/ Require(q) \/ Return(q)
      PROVE  Good(r)'
  <2>1. role' = role /\ (q # r => request'[r] = request[r] /\ held'[r] = held[r])
    BY <1>5 DEF Types, Authenticate, CreateSession, Arrive, Find, Touch, Authenticated,
                AuthorizeWorkspace, Require, Return, End, Step
  <2>2. CASE q # r
    BY <1>3, <2>1, <2>2
  <2>3. CASE q = r /\ (Authenticate(r) \/ Arrive(r))
    <3>1. request'[r].at \in {"login", "find"}
      BY <2>3 DEF Authenticate, Arrive, Step, Types
    <3>2. QED
      BY <3>1
  <2>4. CASE q = r /\ (CreateSession(r) \/ Return(r))
    <3>1. request'[r] = Idle
      BY <2>4 DEF CreateSession, Return, End, Step, Types
    <3>2. QED
      BY <1>4, <3>1
  <2>5. CASE q = r /\ Find(r)
    <3>1. \/ request'[r] = Idle
          \/ /\ request'[r].at = "touch"
             /\ held'[r] = RolesOf(request'[r].user)
      BY <2>5 DEF Find, Step, Types
    <3>2. CASE request'[r] # Idle
      BY <2>1, <3>1, <3>2 DEF RolesOf
    <3>3. QED
      BY <1>4, <3>2
  <2>6. CASE q = r /\ Touch(r)
    <3>1. /\ request'[r] = [at |-> "identity", user |-> request[r].user]
          /\ request[r].at = "touch" /\ held'[r] = held[r]
      BY <2>6 DEF Touch, Authenticated, Step, Types
    <3>2. RolesOf(request[r].user) \subseteq held[r]
      BY <1>1, <3>1
    <3>3. request'[r].at = "identity" /\ request'[r].user = request[r].user
      BY <3>1
    <3>4. RolesOf(request[r].user)' = RolesOf(request[r].user)
      BY <2>1, <3>3 DEF RolesOf
    <3>5. QED
      BY <3>1, <3>2, <3>3, <3>4
  <2>7. CASE q = r /\ AuthorizeWorkspace(r)
    <3>1. request[r].at = "identity" /\ RolesOf(request[r].user) \subseteq held[r]
      BY <1>1, <2>7 DEF AuthorizeWorkspace
    <3>2. PICK w \in Workspaces :
             IF role[w][request[r].user] = Nobody THEN End(r)
             ELSE /\ Step(r, [at |-> "scope", workspace |-> w,
                              role |-> role[w][request[r].user]])
                  /\ UNCHANGED held
      BY <2>7 DEF AuthorizeWorkspace
    <3>3. CASE role[w][request[r].user] = Nobody
      <4>1. request'[r] = Idle
        BY <3>2, <3>3 DEF End, Step, Types
      <4>2. QED
        BY <1>4, <4>1
    <3>4. CASE role[w][request[r].user] # Nobody
      <4>1. <<w, role[w][request[r].user]>> \in held[r]
        BY <3>1 DEF RolesOf
      <4>2. /\ request'[r] = [at |-> "scope", workspace |-> w,
                              role |-> role[w][request[r].user]]
            /\ held'[r] = held[r]
        BY <3>2, <3>4 DEF Step, Types
      <4>3. QED
        BY <3>4, <4>1, <4>2
    <3>5. QED
      BY <3>3, <3>4
  <2>8. CASE q = r /\ Require(r)
    <3>1. <<request[r].workspace, request[r].role>> \in held[r] /\ request[r].role # Nobody
      BY <1>1, <2>8 DEF Require
    <3>2. PICK c \in Wanted :
             IF c \notin Grants[request[r].role] THEN End(r)
             ELSE /\ Step(r, [at |-> "call", workspace |-> request[r].workspace,
                              capability |-> c])
                  /\ UNCHANGED held
      BY <2>8 DEF Require
    <3>3. CASE c \notin Grants[request[r].role]
      <4>1. request'[r] = Idle
        BY <3>2, <3>3 DEF End, Step, Types
      <4>2. QED
        BY <1>4, <4>1
    <3>4. CASE c \in Grants[request[r].role]
      <4>1. /\ request'[r] = [at |-> "call", workspace |-> request[r].workspace,
                              capability |-> c]
            /\ held'[r] = held[r]
        BY <3>2, <3>4 DEF Step, Types
      <4>2. QED
        BY <3>1, <3>4, <4>1
    <3>5. QED
      BY <3>3, <3>4
  <2>9. QED
    BY <1>5, <2>2, <2>3, <2>4, <2>5, <2>6, <2>7, <2>8
<1>6. CASE SetRole
  <2>1. PICK w \in Workspaces, u \in Users, new \in MemberRoles :
          /\ role' = [role EXCEPT ![w][u] = new]
          /\ held' = [q \in Requests |->
                        IF request[q].at \in {"touch", "identity"} /\ request[q].user = u
                        THEN held[q] \cup {<<w, new>>} ELSE held[q]]
    BY <1>6 DEF SetRole, MemberRoles
  <2>2. request' = request /\ held[r] \subseteq held'[r]
    BY <1>6, <2>1 DEF SetRole
  <2>3. ASSUME request[r].at \in {"touch", "identity"}
        PROVE  RolesOf(request[r].user)' \subseteq held'[r]
    <3>1. RolesOf(request[r].user) \subseteq held[r]
      BY <1>1, <2>3
    <3>2. ASSUME NEW v \in Workspaces
          PROVE  <<v, role'[v][request[r].user]>> \in held'[r]
      <4>1. CASE v = w /\ request[r].user = u
        BY <2>1, <2>3, <4>1 DEF Types
      <4>2. CASE ~(v = w /\ request[r].user = u)
        <5>1. role'[v][request[r].user] = role[v][request[r].user]
          BY <2>1, <4>2 DEF Types
        <5>2. QED
          BY <2>2, <3>1, <5>1 DEF RolesOf
      <4>3. QED
        BY <4>1, <4>2
    <3>3. QED
      BY <2>2, <3>2 DEF RolesOf
  <2>4. QED
    BY <1>1, <2>2, <2>3
<1>7. CASE \/ Revoke \/ RevokeAllForUser \/ DeleteExpired \/ Disable \/ Tick
           \/ UNCHANGED vars
  <2>1. UNCHANGED <<request, held, role>>
    BY <1>7 DEF Revoke, RevokeAllForUser, DeleteExpired, Disable, Tick, vars
  <2>2. QED
    BY <1>3, <2>1
<1>8. QED
  BY <1>5, <1>6, <1>7 DEF Next

LEMMA Inductive == Spec => []IInv
<1>1. IInv <=> Types /\ Timed /\ Tracked /\ ScopeIsEarned
  BY DEF IInv, Timed
<1>2. IInv' <=> Types' /\ Timed' /\ (Tracked /\ ScopeIsEarned)'
  BY DEF IInv, Timed
<1>3. IInv /\ [Next]_vars => IInv'
  BY <1>1, <1>2, TypesStay, TimesStay, ScopesStay
<1>4. QED
  BY InitIsGood, <1>3, PTL DEF Spec

-----------------------------------------------------------------------------
\* No session lets a request pass after its lifetime, nor one that came after it
\* was revoked, for any requests in flight (scope.py, PgSessionRepository).
THEOREM EndsAreFinal == Spec => []EndIsFinal
<1>1. IInv => EndIsFinal
  BY DEF IInv
<1>2. QED
  BY Inductive, <1>1, PTL

\* Between the creation of a session and any request it let pass it was never
\* idle for the timeout, however late and out of order requests note their use
\* (resolve_session, touch).
THEOREM IdleSessionsEnd == Spec => []NoIdleGap
<1>1. IInv => NoIdleGap
  BY DEF IInv
<1>2. QED
  BY Inductive, <1>1, PTL

\* A call runs in a workspace only with a capability of a role its user has had
\* there since the request was let in (authorize_workspace, require).
THEOREM ScopesAreEarned == Spec => []ScopeIsEarned
<1>1. IInv => ScopeIsEarned
  BY DEF IInv
<1>2. QED
  BY Inductive, <1>1, PTL
=============================================================================
