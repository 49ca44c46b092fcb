SPECIFICATION Spec
CONSTANTS
    Users = {u1}
    Workspaces = {w1, w2}
    Ids = {s1}
    Requests = {r1, r2}
    Lifetime = 4
    IdleTimeout = 2
    MaxTime = 5
    MaxChanges = 1
    Given = {"author", "approver"}
    Wanted = {"read", "write_content", "approve"}
    Never = Never
    Nobody = Nobody
SYMMETRY Symmetric
INVARIANTS NoIdleGap EndIsFinal ScopeIsEarned
