----------------------------- MODULE AgentLoop -----------------------------
(***************************************************************************)
(* One agent runtime over the turns of its session (agent/graph.py): the   *)
(* reasoning, tool and respond nodes, their routing, and the budgets of    *)
(* utils/budgets.py they consult.  The model, the chunks of a scan, the    *)
(* clock, a cancel from another thread and Streamlit, which may stop the   *)
(* script between two nodes, are the environment.                          *)
(***************************************************************************)
EXTENDS Naturals

CONSTANTS
    MaxIterations,      \* MAX_REASONING_ITERATIONS
    MaxTokens,          \* MAX_LLM_TOKENS_PER_SESSION
    RecursionLimit,     \* LangGraph's default limit on the nodes of an invocation
    MaxCalls,           \* tool calls in one response          (bound)
    MaxUsage,           \* tokens one response may be billed   (bound)
    MaxEstimate,        \* largest estimate of a prompt        (bound)
    Chunks,             \* chunks of the content a tool scans  (bound)
    MaxResets           \* resets in other browsers           (bound)

ASSUME LimitsAssumption ==
    /\ MaxIterations \in Nat \ {0} /\ MaxTokens \in Nat \ {0} /\ RecursionLimit \in Nat
    /\ MaxCalls \in Nat \ {0} /\ MaxEstimate \in Nat \ {0}
    /\ MaxUsage \in Nat /\ Chunks \in Nat /\ MaxResets \in Nat

VARIABLES
    node,           \* the node of the graph, or where inside it the turn is
    iterations,     \* TurnBudget.iterations
    cancelled,      \* TurnBudget.cancelled
    late,           \* elapsed > max_seconds
    used,           \* TurnBudget.session_tokens_used
    spent,          \* history: the tokens the session was billed
    resets,         \* history: how often its runtime was rebuilt
    calls,          \* tool calls of the last response
    answered,       \* of these, the ones with a ToolMessage
    handled,        \* of these, the ones the loop of the tool node has reached
    chunk,          \* chunks the running tool has scanned
    steps,          \* nodes run in this invocation of the graph
    reply           \* final_text of the app, by what it says

budget == <<iterations, cancelled, late, used>>
batch == <<calls, answered, handled>>
bill == <<spent, resets>>
vars == <<node, budget, bill, batch, chunk, steps, reply>>

Init ==
    /\ node = "idle"
    /\ iterations = 0 /\ cancelled = FALSE /\ late = FALSE /\ used = 0
    /\ spent = 0 /\ resets = 0
    /\ calls = 0 /\ answered = 0 /\ handled = 0
    /\ chunk = 0 /\ steps = 0 /\ reply = "none"

\* A graph step: the next node is entered.
Enter(n) == node' = n /\ steps' = steps + 1

\* Mutant: the budget of the new turn does not carry the session's tokens over.
StartTurn_FreshTokens ==
    /\ node = "idle"
    /\ iterations' = 0 /\ cancelled' = FALSE /\ late' = FALSE /\ used' = 0
    /\ node' = "reasoning" /\ steps' = 1
    /\ calls' = 0 /\ answered' = 0 /\ handled' = 0
    /\ reply' = "none"
    /\ UNCHANGED <<bill, chunk>>

\* start_turn: a new TurnBudget that carries over the session's tokens.
StartTurn ==
    /\ node = "idle"
    /\ iterations' = 0 /\ cancelled' = FALSE /\ late' = FALSE
    /\ node' = "reasoning" /\ steps' = 1
    /\ calls' = 0 /\ answered' = 0 /\ handled' = 0
    /\ reply' = "none"
    /\ UNCHANGED <<used, bill, chunk>>

\* Mutant: the check between steps does not look at the cancel flag.
Exhausted_NoCancel(estimate) ==
    used + estimate > MaxTokens \/ late \/ iterations >= MaxIterations

\* check_tokens and check, in the reasoning node.
Exhausted(estimate) ==
    used + estimate > MaxTokens \/ cancelled \/ late \/ iterations >= MaxIterations

\* The reasoning node says which limit was hit, without calling the model ...
Refuse ==
    /\ node = "reasoning"
    /\ \E estimate \in 1..MaxEstimate : Exhausted(estimate)
    /\ node' = "routing"
    /\ reply' = "limit"
    /\ calls' = 0 /\ answered' = 0 /\ handled' = 0
    /\ UNCHANGED <<budget, bill, chunk, steps>>

\* ... or calls it.
Ask ==
    /\ node = "reasoning"
    /\ \E estimate \in 1..MaxEstimate : ~Exhausted(estimate)
    /\ node' = "asking"
    /\ UNCHANGED <<budget, bill, batch, chunk, steps, reply>>

\* The response: text, tool calls, both or neither, and what it cost.
Answer ==
    /\ node = "asking"
    /\ \E n \in 0..MaxCalls, cost \in 0..MaxUsage :
          /\ calls' = n
          /\ used' = used + cost
          /\ spent' = spent + cost
    /\ UNCHANGED resets
    /\ reply' \in {reply, "text"}
    /\ answered' = 0 /\ handled' = 0
    /\ node' = "routing"
    /\ UNCHANGED <<iterations, cancelled, late, chunk, steps>>

\* The call of the model raises.
Fail ==
    /\ node = "asking"
    /\ reply' = "error"
    /\ calls' = 0 /\ answered' = 0 /\ handled' = 0
    /\ node' = "routing"
    /\ UNCHANGED <<budget, bill, chunk, steps>>

\* _should_continue.
Route ==
    /\ node = "routing"
    /\ IF cancelled \/ iterations >= MaxIterations \/ late \/ calls = 0
       THEN Enter("respond") ELSE Enter("tools")
    /\ UNCHANGED <<budget, bill, batch, chunk, reply>>

-----------------------------------------------------------------------------
\* Mutant: a call of a tool that does not exist is answered but not counted.
SkipCall_Uncounted ==
    /\ node = "tools" /\ handled < calls
    /\ handled' = handled + 1
    /\ answered' = answered + 1
    /\ UNCHANGED <<node, budget, bill, calls, chunk, steps, reply>>

\* _tool_node, one call: answered at once (no such tool, the arguments or the
\* source are refused, the turn is cancelled) ...
SkipCall ==
    /\ node = "tools" /\ handled < calls
    /\ handled' = handled + 1
    /\ iterations' = iterations + 1
    /\ answered' = answered + 1
    /\ UNCHANGED <<node, cancelled, late, used, bill, calls, chunk, steps, reply>>

\* ... or a scan or scrub, whose ToolBudget.check passed ...
StartTool ==
    /\ node = "tools" /\ handled < calls
    /\ ~cancelled
    /\ handled' = handled + 1
    /\ iterations' = iterations + 1
    /\ chunk' = 0
    /\ node' = "scanning"
    /\ UNCHANGED <<cancelled, late, used, bill, calls, answered, steps, reply>>

\* ... and which scans its content chunk by chunk ...
ScanChunk ==
    /\ node = "scanning"
    /\ chunk < Chunks
    /\ chunk' = chunk + 1
    /\ UNCHANGED <<node, budget, bill, batch, steps, reply>>

\* Mutant: a scan that is not through when it raises is tried again.
EndTool_Retried ==
    /\ node = "scanning"
    /\ IF chunk < Chunks
       THEN UNCHANGED <<node, answered>> /\ chunk' = 0
       ELSE answered' = answered + 1 /\ node' = "tools" /\ UNCHANGED chunk
    /\ UNCHANGED <<budget, bill, calls, handled, steps, reply>>

\* ... until it is through or something raises.
EndTool ==
    /\ node = "scanning"
    /\ answered' = answered + 1
    /\ node' = "tools"
    /\ UNCHANGED <<budget, bill, calls, handled, chunk, steps, reply>>

EndTools ==
    /\ node = "tools" /\ handled = calls
    /\ Enter("reasoning")
    /\ UNCHANGED <<budget, bill, batch, chunk, reply>>

\* The respond node; the app appends final_text to the transcript if there is any.
Respond ==
    /\ node = "respond"
    /\ node' = "idle"
    /\ UNCHANGED <<budget, bill, batch, chunk, steps, reply>>

-----------------------------------------------------------------------------
InTurn == node # "idle"

\* AgentRuntime.cancel, from another thread.
Cancel ==
    /\ InTurn /\ ~cancelled
    /\ cancelled' = TRUE
    /\ UNCHANGED <<node, iterations, late, used, bill, batch, chunk, steps, reply>>

\* PER_TURN_TIMEOUT_SECONDS have passed.
Expire ==
    /\ InTurn /\ ~late
    /\ late' = TRUE
    /\ UNCHANGED <<node, iterations, cancelled, used, bill, batch, chunk, steps, reply>>

\* Streamlit stops the script where it consumes the update of a node.
Abort ==
    /\ \/ node = "routing"
       \/ node = "reasoning" /\ steps > 1
    /\ node' = "idle"
    /\ UNCHANGED <<budget, bill, batch, chunk, steps, reply>>

\* "Reset session" in another browser clears every cached runtime, and with
\* this one its TurnBudget; the session itself goes on.
Rebuild ==
    /\ resets < MaxResets
    /\ node = "idle"
    /\ iterations' = 0 /\ cancelled' = FALSE /\ late' = FALSE /\ used' = 0
    /\ resets' = resets + 1
    /\ UNCHANGED <<node, spent, batch, chunk, steps, reply>>

Runs == Refuse \/ Ask \/ Answer \/ Fail \/ Route \/ SkipCall \/ StartTool
        \/ ScanChunk \/ EndTool \/ EndTools \/ Respond
Next == StartTurn \/ Runs \/ Cancel \/ Expire \/ Abort \/ Rebuild

Spec == Init /\ [][Next]_vars

\* A node that runs comes to its end: the model answers or raises, a tool
\* returns.  Nobody has to start a turn, cancel one, or wait for the clock.
FairSpec == Spec /\ WF_vars(Runs)

-----------------------------------------------------------------------------
TypeOK ==
    /\ node \in {"idle", "reasoning", "asking", "routing", "tools", "scanning", "respond"}
    /\ iterations \in 0..(MaxIterations + MaxCalls)
    /\ cancelled \in BOOLEAN /\ late \in BOOLEAN
    /\ used \in Nat /\ spent \in Nat /\ resets \in 0..MaxResets
    /\ calls \in 0..MaxCalls
    /\ answered \in 0..calls /\ handled \in 0..calls
    /\ chunk \in 0..Chunks
    /\ steps \in Nat
    /\ reply \in {"none", "text", "limit", "error"}

\* However the model mixes calls of tools that exist and that do not, the
\* iteration budget ends the turn before LangGraph's recursion limit raises.
WithinRecursionLimit == steps <= RecursionLimit

\* Over all turns of a session each runtime bills less than the allowance and
\* one response, for which the estimate was too low.
SpendBounded == spent < (resets + 1) * (MaxTokens + MaxUsage)

\* The model is asked again only when each call of its last response has its
\* answer: the API refuses a conversation in which one has none.
AskedWhenAnswered == node = "asking" => answered = calls

\* A cancelled turn asks the model nothing more and starts no further tool.
CancelStopsTurn ==
    [][cancelled /\ node' # node => node' \notin {"asking", "scanning"}]_vars

\* Every turn comes to an end: the budget, not the clock, sees to it.
TurnEnds == InTurn ~> ~InTurn

-----------------------------------------------------------------------------
(* What documents of the repository say and the code does not do. *)

\* "IF a limit is exceeded, THEN THE Agent SHALL inform the user": a turn that
\* is cut short while tool calls are pending says so.
LimitIsReported ==
    [][node = "routing" /\ node' = "respond" /\ calls > 0 => reply = "limit"]_vars

\* "the flag is checked between chunks": after a cancel no further chunk is
\* begun by the tool that was running.
CancelStopsScan == [][cancelled => chunk' <= chunk]_vars
=============================================================================
