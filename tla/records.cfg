SPECIFICATION Spec
CONSTANTS
    Workspaces = {w1, w2}
    Users = {u1}
    Writers = {a, b}
    Batches = {b1, b2, b3, b4}
    Versions = {1}
    MaxTokens = 2
    MaxChunks = 2
    MaxRows = 7
    Processes = {p1, p2}
    Trees <- WorkingTrees
    Deployed <- Current
    Areas = {{}, {"workspace", "app_user", "membership", "retention_policy", "run", "tool_invocation", "approval"},
             {"workspace", "experiment", "prompt_template", "prompt_template_version",
              "price_table", "run", "trace_event"},
             {"workspace", "document", "embedding"}}
    Global = Global
    None = None
SYMMETRY Symmetric
INVARIANTS ReferencesHold
PROPERTIES ServesItsSchema TenantIsolation ReplacedWhole RunsOnlyAdvance
