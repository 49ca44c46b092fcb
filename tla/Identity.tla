------------------------------ MODULE Identity ------------------------------
(***************************************************************************)
(* Sessions and scopes (explorer/security/identity over                    *)
(* PgSessionRepository): a login makes a session, a request turns its      *)
(* token into an identity and that into a scope in one workspace, while    *)
(* other requests do the same, sessions are revoked and swept and          *)
(* memberships change.  Every statement is a transaction of its own.       *)
(***************************************************************************)
EXTENDS Integers, FiniteSets

CONSTANTS
    Users, Workspaces,
    Ids,            \* session ids; each is used at most once
    Requests,       \* requests under way at the same time
    Lifetime,       \* DEFAULT_LIFETIME
    IdleTimeout,    \* DEFAULT_IDLE_TIMEOUT
    MaxTime,        \* bound on the clock
    MaxChanges,     \* bound on changes of membership and accounts
    Given, Wanted,  \* the roles and the capabilities an instance looks at
    Never, Nobody   \* not a time, not a role

ASSUME IdentityAssumption ==
    /\ Lifetime \in Nat \ {0} /\ IdleTimeout \in Nat \ {0} /\ MaxTime \in Nat
    /\ Never \notin 0..MaxTime

Capabilities == {"read", "run_experiment", "write_content", "delete_content",
                 "invoke_high_risk_tool", "approve", "reverse_tokenization",
                 "manage_workspace"}
Roles == {"reader", "author", "approver", "admin"}
Grants ==
    [reader |-> {"read"},
     author |-> {"read", "run_experiment", "write_content"},
     approver |-> {"read", "run_experiment", "approve", "invoke_high_risk_tool"},
     admin |-> Capabilities]

ASSUME RolesAssumption ==
    Given \subseteq Roles /\ Wanted \subseteq Capabilities /\ Nobody \notin Roles

VARIABLES
    clock,
    disabled,   \* accounts that are disabled
    role,       \* workspace_membership: role[w][u], or Nobody
    session,    \* user_session: the row of each id
    request,    \* what each request is at
    acts,       \* history: when each session was created or let a request pass
    held,       \* history: what each request's user has been since it came
    changes     \* changes so far

vars == <<clock, disabled, role, session, request, acts, held, changes>>

Unused == [row |-> "unused"]
Deleted == [row |-> "deleted"]
Row(u, now) == [row |-> "there", user |-> u, created |-> now, expires |-> now + Lifetime,
                seen |-> now, revoked |-> Never]
There(id) == session[id].row = "there"

Idle == [at |-> "idle"]

\* Mutant: a session in use never expires.
IsUsable_Sliding(s, now) == s.revoked = Never /\ now - s.seen < IdleTimeout

\* SessionRecord.is_usable.
IsUsable(s, now) == s.revoked = Never /\ now < s.expires /\ now - s.seen < IdleTimeout

-----------------------------------------------------------------------------
Init ==
    /\ clock = 0 /\ changes = 0
    /\ disabled = {}
    /\ role \in [Workspaces -> [Users -> Given \cup {Nobody}]]
    /\ session = [id \in Ids |-> Unused]
    /\ request = [r \in Requests |-> Idle]
    /\ acts = [id \in Ids |-> {}]
    /\ held = [r \in Requests |-> {}]

Step(r, next) == request' = [request EXCEPT ![r] = next]

\* The request ends here.
End(r) == Step(r, Idle) /\ held' = [held EXCEPT ![r] = {}]

\* authenticate_password: an account that is there and not disabled when it is
\* read; the password is the right one, or the request stays where it is.
Authenticate(r) ==
    /\ request[r] = Idle
    /\ \E u \in Users \ disabled : Step(r, [at |-> "login", user |-> u])
    /\ UNCHANGED <<clock, disabled, role, session, acts, held, changes>>

\* build_session and create: the clock is read anew, the row is inserted.
CreateSession(r) ==
    /\ request[r].at = "login"
    /\ \E id \in Ids :
          /\ session[id] = Unused
          /\ session' = [session EXCEPT ![id] = Row(request[r].user, clock)]
          /\ acts' = [acts EXCEPT ![id] = {clock}]
    /\ Step(r, Idle)
    /\ UNCHANGED <<clock, disabled, role, held, changes>>

\* A token there has been: resolve_session reads the clock before it looks for
\* the session.
Arrive(r) ==
    /\ request[r] = Idle
    /\ \E id \in {i \in Ids : session[i] # Unused} :
          Step(r, [at |-> "find", id |-> id, moment |-> clock])
    /\ UNCHANGED <<clock, disabled, role, session, acts, held, changes>>

RolesOf(u) == {<<w, role[w][u]>> : w \in Workspaces}

\* The row is read and judged by the time the request came.
Find(r) ==
    LET s == session[request[r].id]
    IN /\ request[r].at = "find"
       /\ IF There(request[r].id) /\ IsUsable(s, request[r].moment)
          THEN /\ Step(r, [at |-> "touch", id |-> request[r].id,
                           moment |-> request[r].moment, user |-> s.user])
               /\ held' = [held EXCEPT ![r] = RolesOf(s.user)]
          ELSE Step(r, Idle) /\ UNCHANGED held
       /\ UNCHANGED <<clock, disabled, role, session, acts, changes>>

Authenticated(r) ==
    /\ Step(r, [at |-> "identity", user |-> request[r].user])
    /\ acts' = [acts EXCEPT ![request[r].id] = @ \cup {request[r].moment}]

\* Mutant: the time of the write is noted, not the time of the request.
Touch_Late(r) ==
    /\ request[r].at = "touch"
    /\ session' = [session EXCEPT ![request[r].id] =
                      IF @.row = "there" THEN [@ EXCEPT !.seen = clock] ELSE @]
    /\ Authenticated(r)
    /\ UNCHANGED <<clock, disabled, role, held, changes>>

\* Whatever became of the row since, the last use is noted if it is still there.
Touch(r) ==
    /\ request[r].at = "touch"
    /\ session' = [session EXCEPT ![request[r].id] =
                      IF @.row = "there" THEN [@ EXCEPT !.seen = request[r].moment] ELSE @]
    /\ Authenticated(r)
    /\ UNCHANGED <<clock, disabled, role, held, changes>>

\* Mutant: a user who belongs to some workspace is let into any.
AuthorizeWorkspace_Anywhere(r) ==
    /\ request[r].at = "identity"
    /\ \E w, v \in Workspaces :
          IF role[v][request[r].user] = Nobody THEN End(r)
          ELSE /\ Step(r, [at |-> "scope", workspace |-> w, role |-> role[v][request[r].user]])
               /\ UNCHANGED held
    /\ UNCHANGED <<clock, disabled, role, session, acts, changes>>

\* authorize_workspace: who is not a member is told there is no such workspace.
AuthorizeWorkspace(r) ==
    /\ request[r].at = "identity"
    /\ \E w \in Workspaces :
          IF role[w][request[r].user] = Nobody THEN End(r)
          ELSE /\ Step(r, [at |-> "scope", workspace |-> w, role |-> role[w][request[r].user]])
               /\ UNCHANGED held
    /\ UNCHANGED <<clock, disabled, role, session, acts, changes>>

\* WorkspaceScope.require by the role the scope was made with, then the call in
\* the workspace of the scope.
Require(r) ==
    /\ request[r].at = "scope"
    /\ \E c \in Wanted :
          IF c \notin Grants[request[r].role] THEN End(r)
          ELSE /\ Step(r, [at |-> "call", workspace |-> request[r].workspace, capability |-> c])
               /\ UNCHANGED held
    /\ UNCHANGED <<clock, disabled, role, session, acts, changes>>

Return(r) ==
    /\ request[r].at = "call"
    /\ End(r)
    /\ UNCHANGED <<clock, disabled, role, session, acts, changes>>

-----------------------------------------------------------------------------
(* What goes on beside the requests. *)

\* The first revocation stands.
Revoked(s) == [s EXCEPT !.revoked = IF @ = Never THEN clock ELSE @]

Revoke ==
    /\ \E id \in Ids :
          /\ There(id)
          /\ session' = [session EXCEPT ![id] = Revoked(@)]
    /\ UNCHANGED <<clock, disabled, role, request, acts, held, changes>>

RevokeAllForUser ==
    /\ \E u \in Users :
          session' = [id \in Ids |-> IF There(id) /\ session[id].user = u
                                     THEN Revoked(session[id]) ELSE session[id]]
    /\ UNCHANGED <<clock, disabled, role, request, acts, held, changes>>

\* The sweeper removes what is past its lifetime, revoked or not.
DeleteExpired ==
    /\ session' = [id \in Ids |-> IF There(id) /\ session[id].expires < clock
                                  THEN Deleted ELSE session[id]]
    /\ UNCHANGED <<clock, disabled, role, request, acts, held, changes>>

\* Members come, change and go.
SetRole ==
    /\ changes < MaxChanges /\ changes' = changes + 1
    /\ \E w \in Workspaces, u \in Users, new \in Given \cup {Nobody} :
          /\ role' = [role EXCEPT ![w][u] = new]
          /\ held' = [r \in Requests |->
                        IF request[r].at \in {"touch", "identity"} /\ request[r].user = u
                        THEN held[r] \cup {<<w, new>>} ELSE held[r]]
    /\ UNCHANGED <<clock, disabled, session, request, acts>>

Disable ==
    /\ changes < MaxChanges /\ changes' = changes + 1
    /\ \E u \in Users \ disabled : disabled' = disabled \cup {u}
    /\ UNCHANGED <<clock, role, session, request, acts, held>>

Tick ==
    /\ clock < MaxTime /\ clock' = clock + 1
    /\ UNCHANGED <<disabled, role, session, request, acts, held, changes>>

Next ==
    \/ \E r \in Requests :
          \/ Authenticate(r) \/ CreateSession(r)
          \/ Arrive(r) \/ Find(r) \/ Touch(r) \/ AuthorizeWorkspace(r) \/ Require(r) \/ Return(r)
    \/ Revoke \/ RevokeAllForUser \/ DeleteExpired \/ SetRole \/ Disable \/ Tick

Spec == Init /\ [][Next]_vars

-----------------------------------------------------------------------------
\* A session that was idle for the timeout has ended for good: from its creation
\* to any request it let pass there was never so long a time without one,
\* however late and in whatever order the requests note it (resolve_session,
\* touch).
NoIdleGap ==
    \A id \in Ids : \A m \in acts[id] :
        \/ \A first \in acts[id] : m <= first
        \/ \E s \in acts[id] : s < m /\ m - s < IdleTimeout

\* However often it is used, a session ends with its lifetime, and once it was
\* revoked no request that comes later passes (PgSessionRepository.touch,
\* revoke).
EndIsFinal ==
    \A id \in Ids : There(id) =>
        \A m \in acts[id] :
            /\ m < session[id].created + Lifetime
            /\ session[id].revoked = Never \/ m <= session[id].revoked

\* A call is made in a workspace only with a capability that a role of the
\* request's user there gave at some time since the request was let in, however
\* memberships change on the way (authorize_workspace, require).
ScopeIsEarned ==
    \A r \in Requests : request[r].at = "call" =>
        \E h \in held[r] :
            /\ h[1] = request[r].workspace /\ h[2] # Nobody
            /\ request[r].capability \in Grants[h[2]]
=============================================================================
