--------------------------- MODULE Classification ---------------------------
(***************************************************************************)
(* explorer/storage/classification.py: what is kept, where, and which      *)
(* clock it is on.  The registry is a table; the set of categories that    *)
(* need a period is computed from it.                                      *)
(***************************************************************************)

\* DataClass, Store and RetentionDriver.
Classes == {"content", "derived", "configuration", "telemetry"}
Stores == {"object_store", "postgres", "audit_chain"}
Drivers ==
    {"policy",      \* POLICY_PER_WORKSPACE
     "source",      \* FOLLOWS_SOURCE
     "indefinite", "survives"}

Kept(class, store, retention) == [class |-> class, store |-> store, retention |-> retention]

\* Classification.__post_init__: content has a real clock.
Allowed(c) ==
    /\ c.class \in Classes /\ c.store \in Stores /\ c.retention \in Drivers
    /\ c.class = "content" => c.retention \in {"policy", "source"}

-----------------------------------------------------------------------------
Content ==
    [document |-> Kept("content", "object_store", "policy"),
     sanitized_artifact |-> Kept("content", "object_store", "policy"),
     chunk_text |-> Kept("content", "object_store", "source"),
     embedding |-> Kept("content", "postgres", "source"),
     token_vault_mapping |-> Kept("content", "postgres", "policy")]

Derived ==
    [chunk_metadata |-> Kept("derived", "postgres", "source"),
     finding_metadata |-> Kept("derived", "postgres", "source"),
     run_metrics |-> Kept("derived", "postgres", "indefinite")]

\* workspace, identity, experiment, prompt_template, price_table,
\* retention_policy and approval.
Configuration ==
    [c \in {"workspace", "identity", "experiment", "prompt_template", "price_table",
            "retention_policy", "approval"} |->
        Kept("configuration", "postgres", "indefinite")]

Telemetry ==
    [c \in {"session", "trace_event"} |-> Kept("telemetry", "postgres", "policy")]

Audit == [audit_record |-> Kept("derived", "audit_chain", "survives")]

\* BY_CATEGORY.
Registry ==
    LET Plus(f, g) ==
            [c \in DOMAIN f \cup DOMAIN g |-> IF c \in DOMAIN f THEN f[c] ELSE g[c]]
    IN Plus(Content, Plus(Derived, Plus(Configuration, Plus(Telemetry, Audit))))

ContentCategories == {c \in DOMAIN Registry : Registry[c].class = "content"}

\* RETENTION_REQUIRED_CATEGORIES.
Required == {c \in DOMAIN Registry : Registry[c].retention = "policy"}

\* TABLE_CATEGORY.
TableCategory ==
    [workspace |-> "workspace", app_user |-> "identity", membership |-> "identity",
     user_session |-> "session", experiment |-> "experiment", run |-> "run_metrics",
     tool_invocation |-> "run_metrics", approval |-> "approval", document |-> "document",
     chunk |-> "chunk_metadata", embedding |-> "embedding", trace_event |-> "trace_event",
     prompt_template |-> "prompt_template", prompt_template_version |-> "prompt_template",
     retention_policy |-> "retention_policy", price_table |-> "price_table"]

\* classify: an unknown category is a KeyError.
Classify(table) == Registry[TableCategory[table]]
=============================================================================
