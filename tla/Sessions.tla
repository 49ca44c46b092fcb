------------------------------ MODULE Sessions ------------------------------
(***************************************************************************)
(* Session state of the Streamlit app: the registry of SessionContext      *)
(* objects with its idle sweep (pii_agent/session/context.py), the stores  *)
(* a context owns (content_store.py), the runtimes the app caches per      *)
(* session (apps/pii_agent_app.py, agent/graph.py) and the scan and scrub  *)
(* tools that work in them (tools/agent_tools.py, core/pipeline.py).       *)
(*                                                                         *)
(* Streamlit reruns the script of a browser session on every interaction,  *)
(* one run at a time; the runs of different browser sessions are threads   *)
(* of one process.  A browser session stands for its session id.           *)
(***************************************************************************)
EXTENDS Naturals, Sequences, FiniteSets

CONSTANTS
    Browsers,       \* browser sessions
    MaxContexts,    \* SessionContext objects alive at a time       (bound)
    MaxRaw,         \* records of raw content a session has at a time (bound)
    MaxClean,       \* cleaned copies a session has at a time         (bound)
    MaxIdle,        \* SESSION_IDLE_TIMEOUT_SECONDS, in ticks of the clock
    MaxResults,     \* MAX_SESSION_RESULTS
    Resetters,      \* browser sessions that may press "Reset session" (bound)
    Scanners,       \* browser sessions whose agent uses its tools    (bound)
    Active          \* browser sessions somebody keeps using

ASSUME BoundsAssumption ==
    /\ MaxContexts \in Nat /\ MaxRaw \in Nat /\ MaxClean \in Nat /\ MaxIdle \in Nat
    /\ MaxResults \in Nat \ {0}
ASSUME UsersAssumption == Active \cup Resetters \cup Scanners \subseteq Browsers

Contexts == 1..MaxContexts
None == 0                           \* no context
Handles == [session : Browsers, no : 1..MaxRaw, clean : {FALSE}]
           \cup [session : Browsers, no : 1..MaxClean, clean : {TRUE}]
Report == [session |-> "none", no |-> 0, clean |-> FALSE]   \* a result without an artifact

VARIABLES
    registry,       \* _contexts
    idle,           \* ticks since the registered context was touched
    store,          \* the records of the content store of each context
    results,        \* the results each context keeps for the UI, oldest first
    cache,          \* the context of the runtime cached for each session
    pc,             \* where the script run of each session is
    session,        \* local: the context the run got from the registry
    agent,          \* local: the context of the runtime it got from the cache
    victims,        \* local: contexts it took out of the registry
    tearing,        \* local: the one it is tearing down
    source,         \* local: the record its tool works on
    artifact        \* local: the cleaned record its tool has made

stores == <<registry, idle, store, results, cache>>
locals == <<session, agent, victims, tearing, source, artifact>>
vars == <<stores, pc, locals>>

NoHandle == Report

Init ==
    /\ registry = [b \in Browsers |-> None]
    /\ idle = [b \in Browsers |-> 0]
    /\ store = [c \in Contexts |-> {}]
    /\ results = [c \in Contexts |-> <<>>]
    /\ cache = [b \in Browsers |-> None]
    /\ pc = [b \in Browsers |-> "away"]
    /\ session = [b \in Browsers |-> None]
    /\ agent = [b \in Browsers |-> None]
    /\ victims = [b \in Browsers |-> {}]
    /\ tearing = [b \in Browsers |-> None]
    /\ source = [b \in Browsers |-> NoHandle]
    /\ artifact = [b \in Browsers |-> NoHandle]

Goto(b, label) == pc' = [pc EXCEPT ![b] = label]

Registered(c) == \E b \in Browsers : registry[b] = c

\* Contexts somebody still has a reference to; the others are garbage.
Referenced ==
    UNION {{registry[b], cache[b], session[b], agent[b]} \cup victims[b] : b \in Browsers}

Fresh(b, clean) ==
    {h \in Handles :
        /\ h.session = b /\ h.clean = clean
        /\ \A a \in Browsers : h \notin {source[a], artifact[a]}
        /\ \A c \in Contexts : h \notin store[c] /\ \A i \in DOMAIN results[c] : results[c][i] # h}
NewHandle(b, clean) == CHOOSE h \in Fresh(b, clean) : TRUE

\* What a run drops the last reference to is collected, with its content.
Collect ==
    /\ store' = [c \in Contexts |-> IF c \in Referenced' THEN store[c] ELSE {}]
    /\ results' = [c \in Contexts |-> IF c \in Referenced' THEN results[c] ELSE <<>>]

-----------------------------------------------------------------------------
\* get_session_context: the registered context, touched, or a new one.
Obtain(b, c) ==
    IF registry[b] # None
    THEN /\ c = registry[b]
         /\ idle' = [idle EXCEPT ![b] = 0]
         /\ UNCHANGED <<registry, store, results>>
    ELSE /\ Contexts \ Referenced # {}
         /\ c = CHOOSE free \in Contexts \ Referenced : TRUE
         /\ registry' = [registry EXCEPT ![b] = c]
         /\ idle' = [idle EXCEPT ![b] = 0]
         /\ store' = [store EXCEPT ![c] = {}]
         /\ results' = [results EXCEPT ![c] = <<>>]

\* A rerun begins: session = get_session_context(_session_id()).
Enter(b) ==
    /\ pc[b] = "away"
    /\ \E c \in Contexts : Obtain(b, c) /\ session' = [session EXCEPT ![b] = c]
    /\ Goto(b, "entered")
    /\ UNCHANGED <<cache, agent, victims, tearing, source, artifact>>

Stale == {a \in Browsers : registry[a] # None /\ idle[a] > MaxIdle}

\* Mutant: the stale contexts stay registered until they are torn down.
PopStale_Listed(b) ==
    /\ pc[b] = "entered"
    /\ victims' = [victims EXCEPT ![b] = {registry[a] : a \in Stale}]
    /\ Goto(b, "tearing")
    /\ UNCHANGED <<stores, session, agent, tearing, source, artifact>>

\* sweep_idle_sessions: the stale contexts leave the registry, under its lock.
PopStale(b) ==
    /\ pc[b] = "entered"
    /\ victims' = [victims EXCEPT ![b] = {registry[a] : a \in Stale}]
    /\ registry' = [a \in Browsers |-> IF a \in Stale THEN None ELSE registry[a]]
    /\ idle' = [a \in Browsers |-> IF a \in Stale THEN 0 ELSE idle[a]]
    /\ Goto(b, "tearing")
    /\ UNCHANGED <<store, results, cache, session, agent, tearing, source,
                   artifact>>

\* Mutant: teardown forgets the content store.
TearStore_Shallow(b) ==
    /\ pc[b] \in {"tearing", "resetting"}
    /\ tearing[b] = None
    /\ \E c \in victims[b] : tearing' = [tearing EXCEPT ![b] = c]
    /\ UNCHANGED <<stores, pc, session, agent, victims, source, artifact>>

\* teardown, outside the lock: first the content store is cleared ...
TearStore(b) ==
    /\ pc[b] \in {"tearing", "resetting"}
    /\ tearing[b] = None
    /\ \E c \in victims[b] :
          /\ store' = [store EXCEPT ![c] = {}]
          /\ tearing' = [tearing EXCEPT ![b] = c]
    /\ UNCHANGED <<registry, idle, results, cache, pc, session, agent, victims,
                   source, artifact>>

\* ... then the results.
TearResults(b) ==
    /\ tearing[b] # None
    /\ results' = [results EXCEPT ![tearing[b]] = <<>>]
    /\ victims' = [victims EXCEPT ![b] = @ \ {tearing[b]}]
    /\ tearing' = [tearing EXCEPT ![b] = None]
    /\ UNCHANGED <<registry, idle, store, cache, pc, session, agent, source,
                   artifact>>

\* _runtime_for: the cached runtime, or a new one over the registered context.
Bind(b) ==
    /\ pc[b] = "tearing" /\ victims[b] = {}
    /\ IF cache[b] # None
       THEN /\ agent' = [agent EXCEPT ![b] = cache[b]]
            /\ UNCHANGED stores
       ELSE \E c \in Contexts :
               /\ Obtain(b, c)
               /\ cache' = [cache EXCEPT ![b] = c]
               /\ agent' = [agent EXCEPT ![b] = c]
    /\ Goto(b, "ready")
    /\ UNCHANGED <<session, victims, tearing, source, artifact>>

-----------------------------------------------------------------------------
\* An uploaded file, of a new name, is loaded into the context of the run.
Upload(b) ==
    /\ pc[b] = "ready"
    /\ Fresh(b, FALSE) # {}
    /\ store' = [store EXCEPT ![session[b]] = @ \cup {NewHandle(b, FALSE)}]
    /\ UNCHANGED <<registry, idle, results, cache, pc, locals>>

\* A scan or scrub tool starts in the runtime's context on a record that is
\* there, by handle or label, or on a file it loads first (_resolve_source).
StartTool(b) ==
    /\ b \in Scanners
    /\ pc[b] = "ready"
    /\ \E h \in store[agent[b]] \cup (IF Fresh(b, FALSE) = {} THEN {}
                                     ELSE {NewHandle(b, FALSE)}) :
          /\ store' = [store EXCEPT ![agent[b]] = @ \cup {h}]
          /\ source' = [source EXCEPT ![b] = h]
    /\ Goto(b, "scanning")
    /\ UNCHANGED <<registry, idle, results, cache, session, agent, victims,
                   tearing, artifact>>

\* scrub: the scan is done and the content is fetched a second time.
Refetch(b) ==
    /\ pc[b] = "scanning"
    /\ source[b] \in store[agent[b]]
    /\ Goto(b, "applying")
    /\ UNCHANGED <<stores, locals>>

\* The verified text is put into the store (put_sanitized).
Publish(b) ==
    /\ pc[b] = "applying"
    /\ Fresh(b, TRUE) # {}
    /\ artifact' = [artifact EXCEPT ![b] = NewHandle(b, TRUE)]
    /\ store' = [store EXCEPT ![agent[b]] = @ \cup {NewHandle(b, TRUE)}]
    /\ source' = [source EXCEPT ![b] = NoHandle]
    /\ Goto(b, "published")
    /\ UNCHANGED <<registry, idle, results, cache, session, agent, victims,
                   tearing>>

\* Mutant: an evicted result leaves its artifact in the content store.
Keep_Leaks(c, r) ==
    /\ results' = [results EXCEPT ![c] =
                     IF Len(@) < MaxResults THEN Append(@, r) ELSE Append(Tail(@), r)]
    /\ UNCHANGED store

\* Mutant: eviction takes the newest artifact instead of the oldest.
Keep_WrongEnd(c, r) ==
    IF Len(results[c]) < MaxResults
    THEN results' = [results EXCEPT ![c] = Append(@, r)] /\ UNCHANGED store
    ELSE /\ results' = [results EXCEPT ![c] = Append(Tail(@), r)]
         /\ store' = [store EXCEPT ![c] = @ \ {r}]

\* record_result: the oldest result over the limit goes, and its artifact.
Keep(c, r) ==
    IF Len(results[c]) < MaxResults
    THEN results' = [results EXCEPT ![c] = Append(@, r)] /\ UNCHANGED store
    ELSE /\ results' = [results EXCEPT ![c] = Append(Tail(@), r)]
         /\ store' = [store EXCEPT ![c] = @ \ {Head(results[c])}]

EndTool(b) ==
    /\ source' = [source EXCEPT ![b] = NoHandle]
    /\ artifact' = [artifact EXCEPT ![b] = NoHandle]
    /\ Goto(b, "ready")
    /\ UNCHANGED <<session, agent, victims, tearing>>

\* The result is recorded for the UI: with its artifact after a scrub that
\* published one, without after a scan or a refusal.
RecordResult(b) ==
    /\ \/ pc[b] \in {"scanning", "applying"} /\ Keep(agent[b], Report)
       \/ pc[b] = "published" /\ Keep(agent[b], artifact[b])
    /\ EndTool(b)
    /\ UNCHANGED <<registry, idle, cache>>

\* The tool raises: the content is not there any more, or a detector escapes.
ToolFails(b) ==
    /\ pc[b] \in {"scanning", "applying"}
    /\ EndTool(b)
    /\ UNCHANGED stores

\* The run is over; its locals go.
Finish(b) ==
    /\ pc[b] = "ready"
    /\ session' = [session EXCEPT ![b] = None]
    /\ agent' = [agent EXCEPT ![b] = None]
    /\ Goto(b, "away")
    /\ UNCHANGED <<registry, idle, cache, victims, tearing, source, artifact>>
    /\ Collect

\* "Reset session": drop_session_context ...
Reset(b) ==
    /\ b \in Resetters
    /\ pc[b] = "ready"
    /\ victims' = [victims EXCEPT ![b] = {registry[b]} \ {None}]
    /\ registry' = [registry EXCEPT ![b] = None]
    /\ idle' = [idle EXCEPT ![b] = 0]
    /\ Goto(b, "resetting")
    /\ UNCHANGED <<store, results, cache, session, agent, tearing, source,
                   artifact>>

\* ... and every cached runtime, of all sessions.  The browser goes on under a
\* new session id, which takes the place of the old one here.
EndReset(b) ==
    /\ pc[b] = "resetting" /\ victims[b] = {}
    /\ cache' = [a \in Browsers |-> None]
    /\ session' = [session EXCEPT ![b] = None]
    /\ agent' = [agent EXCEPT ![b] = None]
    /\ Goto(b, "away")
    /\ UNCHANGED <<registry, idle, victims, tearing, source, artifact>>
    /\ Collect

\* The monotonic clock.
Tick ==
    /\ idle' = [b \in Browsers |->
                  IF registry[b] # None /\ idle[b] <= MaxIdle THEN idle[b] + 1 ELSE idle[b]]
    /\ UNCHANGED <<registry, store, results, cache, pc, locals>>

Run(b) ==
    \/ PopStale(b) \/ TearStore(b) \/ TearResults(b) \/ Bind(b)
    \/ Refetch(b) \/ Publish(b) \/ RecordResult(b) \/ ToolFails(b)
    \/ EndReset(b)

Next ==
    \/ \E b \in Browsers :
          Enter(b) \/ Run(b) \/ Upload(b) \/ StartTool(b) \/ Finish(b) \/ Reset(b)
    \/ Tick

Spec == Init /\ [][Next]_vars

\* A run that has begun goes on, and ends because the turn it serves has a
\* bounded number of tool calls.  Only the sessions in Active begin new ones
\* again and again.
Fairness ==
    /\ \A b \in Browsers : WF_vars(Run(b)) /\ SF_vars(Finish(b))
    /\ \A b \in Active : WF_vars(Enter(b))
FairSpec == Spec /\ Fairness

-----------------------------------------------------------------------------
Listed(c) == {results[c][i] : i \in DOMAIN results[c]}

\* What the UI of a live session offers for download is there, however many
\* results were evicted and whoever was swept meanwhile.
ListedIsThere ==
    \A c \in Contexts : Registered(c) => {h \in Listed(c) : h.clean} \subseteq store[c]

\* A cleaned copy a live session holds can be reached from its UI, or its tool
\* is about to list it: none is kept for nobody.
NoHiddenCopy ==
    \A c \in Contexts : Registered(c) =>
        {h \in store[c] : h.clean} \subseteq
            Listed(c) \cup {artifact[b] : b \in {a \in Browsers : agent[a] = c}}

\* A sweep never takes the content of a session that is in the registry, not
\* even of one that comes back while it is being swept.
SweepSparesLive ==
    [][\A c \in Contexts :
          Registered(c) /\ Registered(c)' =>
              \A h \in store[c] \ store'[c] : h.clean]_store

\* While somebody uses the app, every record an idle session holds goes, unless
\* the session is used again: no run of another session, and no return of its
\* own, keeps the sweep from clearing it.
Idle(c) ==
    \E b \in Browsers :
        \/ registry[b] = c /\ idle[b] > MaxIdle
        \/ c \in victims[b] \ {tearing[b]}
Touched(c) == \E b \in Browsers : registry[b] = c /\ idle[b] <= MaxIdle
IdleIsForgotten ==
    \A h \in Handles :
        (\E c \in Contexts : h \in store[c] /\ Idle(c))
            ~> (\A c \in Contexts : h \in store[c] => Touched(c))

-----------------------------------------------------------------------------
(* What comments of the repository say and the code does not do. *)

\* "A long scan keeps its own session alive."
WorkKeepsAlive ==
    \A b \in Browsers :
        pc[b] \in {"scanning", "applying"} /\ pc'[b] = pc[b] /\ Registered(agent[b])
        => Registered(agent[b])'
LongScanStaysAlive == [][WorkKeepsAlive]_vars

\* The sweep is "a retention control": content is held by live sessions only,
\* by runs that are still using it, or until the sweep has come round to it.
NoContentRetained ==
    \A c \in Contexts :
        /\ c \in Referenced
        /\ store[c] # {}
        => \/ Registered(c)
           \/ \E b \in Browsers : c \in {session[b], agent[b]} \cup victims[b]
=============================================================================
