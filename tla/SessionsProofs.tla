--------------------------- MODULE SessionsProofs ---------------------------
(***************************************************************************)
(* What sweeps, resets and evictions do to the content of sessions, for    *)
(* any number of browser sessions, contexts and records: what a live       *)
(* session lists is there, what it holds cleaned is listed, and no sweep   *)
(* takes anything from it.                                                 *)
(***************************************************************************)
EXTENDS Sessions, SequenceTheorems, TLAPS

Clean == {h \in Handles : h.clean}
Results == Clean \cup {Report}
Maybe == Contexts \cup {None}

Types ==
    /\ registry \in [Browsers -> Maybe]
    /\ store \in [Contexts -> SUBSET Handles]
    /\ results \in [Contexts -> Seq(Results)]
    /\ cache \in [Browsers -> Maybe]
    /\ pc \in [Browsers -> {"away", "entered", "tearing", "ready", "scanning", "applying",
                            "published", "resetting"}]
    /\ session \in [Browsers -> Maybe]
    /\ agent \in [Browsers -> Maybe]
    /\ victims \in [Browsers -> SUBSET Contexts]
    /\ tearing \in [Browsers -> Maybe]
    /\ source \in [Browsers -> Handles \cup {NoHandle}]
    /\ artifact \in [Browsers -> Results]

\* Which locals a run has at each place.
Placed(b) ==
    /\ pc[b] # "away" => session[b] \in Contexts
    /\ pc[b] \in {"ready", "scanning", "applying", "published", "resetting"} =>
          agent[b] \in Contexts
    /\ pc[b] = "published" <=> artifact[b] # NoHandle
    /\ pc[b] \notin {"tearing", "resetting"} => victims[b] = {}

\* No two browser sessions have a context in common.
Apart == \A a, b \in Browsers : registry[a] = registry[b] /\ registry[a] # None => a = b

\* What is swept or reset has left the registry, and does not come back.
Doomed(b) ==
    /\ tearing[b] # None => tearing[b] \in victims[b]
    /\ \A c \in victims[b] : ~Registered(c)

\* A cleaned copy is listed once, or about to be by one tool.
Once ==
    /\ \A c \in Contexts : \A i, j \in DOMAIN results[c] :
          i # j /\ results[c][i] \in Clean => results[c][i] # results[c][j]
    /\ \A b \in Browsers : artifact[b] # NoHandle =>
          /\ \A c \in Contexts : artifact[b] \notin Listed(c)
          /\ \A a \in Browsers \ {b} : artifact[a] # artifact[b]

\* A copy about to be listed is there.
Pending ==
    \A b \in Browsers : artifact[b] # NoHandle /\ Registered(agent[b]) =>
        artifact[b] \in store[agent[b]]

Contents == Once /\ Pending /\ ListedIsThere /\ NoHiddenCopy

IInv ==
    /\ Types
    /\ Apart
    /\ \A b \in Browsers : Placed(b) /\ Doomed(b)
    /\ Contents

\* What a step takes from a context that is registered before and after it is
\* cleaned copies only.
Spares == \A c \in Contexts :
    Registered(c) /\ Registered(c)' => \A h \in store[c] \ store'[c] : h.clean

-----------------------------------------------------------------------------
LEMMA HandleTypes ==
    /\ NoHandle = Report /\ Report \notin Handles /\ ~Report.clean
    /\ None \notin Contexts
<1>1. ASSUME NEW h \in Handles PROVE h.no # 0
  <2>1. CASE h \in [session : Browsers, no : 1..MaxRaw, clean : {FALSE}]
    <3>1. h.no \in 1..MaxRaw
      BY <2>1
    <3>2. QED
      BY <3>1, BoundsAssumption
  <2>2. CASE h \in [session : Browsers, no : 1..MaxClean, clean : {TRUE}]
    <3>1. h.no \in 1..MaxClean
      BY <2>2
    <3>2. QED
      BY <3>1, BoundsAssumption
  <2>3. QED
    BY <2>1, <2>2 DEF Handles
<1>2. Report.no = 0 /\ Report.clean = FALSE
  BY DEF Report
<1>3. QED
  BY <1>1, <1>2, BoundsAssumption DEF NoHandle, Contexts, None

LEMMA FreshTypes ==
    ASSUME NEW b, NEW clean, Fresh(b, clean) # {}
    PROVE  NewHandle(b, clean) \in Fresh(b, clean) /\ NewHandle(b, clean) \in Handles
BY DEF NewHandle, Fresh

\* A context nobody refers to.
LEMMA FreeContext ==
    ASSUME Types, NEW c \in Contexts \ Referenced
    PROVE  /\ ~Registered(c)
           /\ \A b \in Browsers :
                 c \notin victims[b] \cup {registry[b], cache[b], session[b], agent[b]}
BY DEF Referenced, Registered

\* Obtaining a context registers it, and a new one is empty.
LEMMA ObtainRegisters ==
    ASSUME Types, NEW b \in Browsers, NEW c \in Contexts, Obtain(b, c)
    PROVE  /\ registry' = [registry EXCEPT ![b] = c]
           /\ \/ registry[b] = c /\ UNCHANGED <<store, results>>
              \/ /\ c \notin Referenced /\ registry[b] = None
                 /\ store' = [store EXCEPT ![c] = {}]
                 /\ results' = [results EXCEPT ![c] = <<>>]
<1>1. CASE registry[b] # None
  BY <1>1 DEF Obtain, Types
<1>2. CASE registry[b] = None
  <2>1. Contexts \ Referenced # {} /\ c = CHOOSE free \in Contexts \ Referenced : TRUE
    BY <1>2 DEF Obtain
  <2>2. c \in Contexts \ Referenced
    BY <2>1
  <2>3. QED
    BY <1>2, <2>2 DEF Obtain
<1>3. QED
  BY <1>1, <1>2

\* Obtaining and collecting keep the types of stores and results.
LEMMA ObtainTypes ==
    ASSUME Types, NEW b \in Browsers, NEW c \in Contexts, Obtain(b, c)
    PROVE  /\ registry' \in [Browsers -> Maybe]
           /\ store' \in [Contexts -> SUBSET Handles]
           /\ results' \in [Contexts -> Seq(Results)]
<1>1. <<>> \in Seq(Results)
  BY EmptySeq
<1>2. registry' = [registry EXCEPT ![b] = c]
  BY ObtainRegisters
<1>3. \/ UNCHANGED <<store, results>>
      \/ /\ store' = [store EXCEPT ![c] = {}]
         /\ results' = [results EXCEPT ![c] = <<>>]
  BY ObtainRegisters
<1>4. store' \in [Contexts -> SUBSET Handles]
  BY <1>3 DEF Types
<1>5. results' \in [Contexts -> Seq(Results)]
  BY <1>1, <1>3 DEF Types
<1>6. QED
  BY <1>2, <1>4, <1>5 DEF Types, Maybe

LEMMA CollectTypes ==
    ASSUME Types, Collect
    PROVE  /\ store' \in [Contexts -> SUBSET Handles]
           /\ results' \in [Contexts -> Seq(Results)]
<1>1. <<>> \in Seq(Results)
  BY EmptySeq
<1>2. QED
  BY <1>1 DEF Types, Collect

LEMMA KeepTypes ==
    ASSUME Types, NEW c \in Contexts, NEW r \in Results, Keep(c, r)
    PROVE  /\ store' \in [Contexts -> SUBSET Handles]
           /\ results' \in [Contexts -> Seq(Results)]
<1>1. results[c] \in Seq(Results)
  BY DEF Types
<1>2. CASE Len(results[c]) < MaxResults
  <2>1. Append(results[c], r) \in Seq(Results)
    BY <1>1, AppendProperties
  <2>2. QED
    BY <1>2, <2>1 DEF Keep, Types
<1>3. CASE ~(Len(results[c]) < MaxResults)
  <2>1. results[c] # <<>>
    BY <1>3, BoundsAssumption
  <2>2. Tail(results[c]) \in Seq(Results)
    BY <1>1, <2>1, HeadTailProperties
  <2>3. Append(Tail(results[c]), r) \in Seq(Results)
    BY <2>2, AppendProperties
  <2>4. QED
    BY <1>3, <2>3 DEF Keep, Types
<1>4. QED
  BY <1>2, <1>3

-----------------------------------------------------------------------------
LEMMA InitIsGood == Init => IInv
<1> SUFFICES ASSUME Init PROVE IInv
  OBVIOUS
<1> USE DEF Init
<1>1. <<>> \in Seq(Results) /\ Len(<<>>) = 0 /\ DOMAIN <<>> = {}
  BY EmptySeq
<1>2. Types
  BY <1>1, HandleTypes DEF Types, Maybe, Results
<1>3. Apart /\ \A b \in Browsers : Placed(b) /\ Doomed(b)
  BY DEF Apart, Placed, Doomed
<1>4. Once /\ Pending
  BY <1>1 DEF Once, Pending
<1>5. ListedIsThere /\ NoHiddenCopy
  BY HandleTypes DEF ListedIsThere, NoHiddenCopy, Registered, Contexts
<1>6. QED
  BY <1>2, <1>3, <1>4, <1>5 DEF IInv, Contents

LEMMA TypesStay ==
    ASSUME Types, \A b \in Browsers : Placed(b), [Next]_vars PROVE Types'
<1> USE HandleTypes DEF Types, stores, locals, Goto, Maybe
<1>1. ASSUME NEW b \in Browsers, Enter(b) PROVE Types'
  <2>1. PICK c \in Contexts : Obtain(b, c) /\ session' = [session EXCEPT ![b] = c]
    BY <1>1 DEF Enter
  <2>2. QED
    BY <1>1, <2>1, ObtainTypes DEF Enter
<1>2. ASSUME NEW b \in Browsers, PopStale(b) PROVE Types'
  <2>1. {registry[a] : a \in Stale} \subseteq Contexts
    BY DEF Stale
  <2>2. QED
    BY <1>2, <2>1 DEF PopStale
<1>3. ASSUME NEW b \in Browsers, TearStore(b) PROVE Types'
  BY <1>3 DEF TearStore
<1>4. ASSUME NEW b \in Browsers, TearResults(b) PROVE Types'
  <2>1. <<>> \in Seq(Results)
    BY EmptySeq
  <2>2. QED
    BY <1>4, <2>1 DEF TearResults
<1>5. ASSUME NEW b \in Browsers, Bind(b) PROVE Types'
  <2>1. CASE cache[b] # None
    BY <1>5, <2>1 DEF Bind
  <2>2. CASE cache[b] = None
    <3>1. PICK c \in Contexts : /\ Obtain(b, c)
                                /\ cache' = [cache EXCEPT ![b] = c]
                                /\ agent' = [agent EXCEPT ![b] = c]
      BY <1>5, <2>2 DEF Bind
    <3>2. QED
      BY <1>5, <3>1, ObtainTypes DEF Bind
  <2>3. QED
    BY <2>1, <2>2
<1>6. ASSUME NEW b \in Browsers, Upload(b) PROVE Types'
  <2>1. session[b] \in Contexts
    BY <1>6 DEF Upload, Placed
  <2>2. NewHandle(b, FALSE) \in Handles
    BY <1>6, FreshTypes DEF Upload
  <2>3. store' \in [Contexts -> SUBSET Handles]
    BY <1>6, <2>1, <2>2 DEF Upload
  <2>4. QED
    BY <1>6, <2>3 DEF Upload
<1>7. ASSUME NEW b \in Browsers, StartTool(b) PROVE Types'
  <2>1. agent[b] \in Contexts
    BY <1>7 DEF StartTool, Placed
  <2>2. PICK h \in Handles : /\ store' = [store EXCEPT ![agent[b]] = @ \cup {h}]
                             /\ source' = [source EXCEPT ![b] = h]
    BY <1>7, <2>1, FreshTypes DEF StartTool
  <2>3. QED
    BY <1>7, <2>1, <2>2 DEF StartTool
<1>8. ASSUME NEW b \in Browsers, Refetch(b) PROVE Types'
  BY <1>8 DEF Refetch
<1>9. ASSUME NEW b \in Browsers, Publish(b) PROVE Types'
  <2>1. agent[b] \in Contexts
    BY <1>9 DEF Publish, Placed
  <2>2. NewHandle(b, TRUE) \in Clean
    BY <1>9, FreshTypes DEF Publish, Fresh, Clean
  <2>3. QED
    BY <1>9, <2>1, <2>2 DEF Publish, Results, Clean
<1>10. ASSUME NEW b \in Browsers, RecordResult(b) PROVE Types'
  <2>1. PICK r \in Results : Keep(agent[b], r)
    BY <1>10 DEF RecordResult, Results
  <2>2. agent[b] \in Contexts
    BY <1>10 DEF RecordResult, Placed
  <2>3. QED
    BY <1>10, <2>1, <2>2, KeepTypes DEF RecordResult, EndTool, Results
<1>11. ASSUME NEW b \in Browsers, ToolFails(b) PROVE Types'
  BY <1>11 DEF ToolFails, EndTool, Results
<1>12. ASSUME NEW b \in Browsers, Finish(b) PROVE Types'
  BY <1>12, CollectTypes DEF Finish
<1>13. ASSUME NEW b \in Browsers, Reset(b) PROVE Types'
  BY <1>13 DEF Reset
<1>14. ASSUME NEW b \in Browsers, EndReset(b) PROVE Types'
  BY <1>14, CollectTypes DEF EndReset
<1>15. CASE Tick \/ UNCHANGED vars
  BY <1>15 DEF Tick, vars
<1>16. QED
  BY <1>1, <1>2, <1>3, <1>4, <1>5, <1>6, <1>7, <1>8, <1>9, <1>10, <1>11, <1>12, <1>13,
     <1>14, <1>15 DEF Next, Run

-----------------------------------------------------------------------------
\* Whom each run works for, and that what is doomed stays out of the registry.
Roles == Apart /\ \A b \in Browsers : Placed(b) /\ Doomed(b)

LEMMA ObtainKeepsRoles ==
    ASSUME Types, Roles, NEW b \in Browsers, NEW c \in Contexts, Obtain(b, c),
           UNCHANGED <<victims, tearing>>
    PROVE  Apart' /\ \A a \in Browsers : Doomed(a)'
<1> USE HandleTypes
<1>1. registry' = [registry EXCEPT ![b] = c]
  BY ObtainRegisters
<1>2. \A a \in Browsers \ {b} : registry[a] # c
  BY ObtainRegisters, FreeContext DEF Roles, Apart
<1>3. \A a \in Browsers : c \notin victims[a]
  BY ObtainRegisters, FreeContext DEF Roles, Doomed, Registered
<1>4. Apart'
  BY <1>1, <1>2 DEF Roles, Apart, Types
<1>5. \A d \in Contexts \ {c} : Registered(d)' => Registered(d)
  BY <1>1 DEF Registered, Types
<1>6. \A a \in Browsers : Doomed(a)'
  BY <1>3, <1>5 DEF Roles, Doomed, Types
<1>7. QED
  BY <1>4, <1>6

\* Where the registry stays or loses contexts.
LEMMA LossKeepsRoles ==
    ASSUME Types, Roles,
           \A a \in Browsers : registry'[a] \in {registry[a], None},
           \A a \in Browsers : /\ tearing'[a] # None => tearing'[a] \in victims'[a]
                               /\ \A c \in victims'[a] : c \in victims[a] \/ ~Registered(c)'
    PROVE  Apart' /\ \A a \in Browsers : Doomed(a)'
<1>1. \A c : c # None /\ Registered(c)' => Registered(c)
  BY DEF Registered
<1>2. ASSUME NEW a \in Browsers, NEW c \in victims[a] PROVE ~Registered(c)'
  BY <1>1, HandleTypes DEF Roles, Doomed, Types
<1>3. QED
  BY <1>2 DEF Roles, Apart, Doomed

LEMMA RolesStay ==
    ASSUME Types, Roles, [Next]_vars PROVE Roles'
<1> USE HandleTypes DEF Goto, stores, locals
<1>1. ASSUME NEW b \in Browsers, Enter(b) PROVE Roles'
  <2>1. PICK c \in Contexts : Obtain(b, c) /\ session' = [session EXCEPT ![b] = c]
    BY <1>1 DEF Enter
  <2>2. \A a \in Browsers : Placed(a)'
    BY <1>1, <2>1 DEF Enter, Placed, Types, Roles
  <2>3. QED
    BY <1>1, <2>1, <2>2, ObtainKeepsRoles DEF Enter, Roles
<1>2. ASSUME NEW b \in Browsers, Bind(b) PROVE Roles'
  <2>1. CASE cache[b] # None
    <3>1. \A a \in Browsers : Placed(a)'
      BY <1>2, <2>1 DEF Bind, Placed, Types, Maybe, Roles
    <3>2. UNCHANGED <<registry, victims, tearing>>
      BY <1>2, <2>1 DEF Bind
    <3>3. QED
      BY <3>1, <3>2 DEF Roles, Apart, Doomed, Registered
  <2>2. CASE cache[b] = None
    <3>1. PICK c \in Contexts : /\ Obtain(b, c)
                                /\ cache' = [cache EXCEPT ![b] = c]
                                /\ agent' = [agent EXCEPT ![b] = c]
      BY <1>2, <2>2 DEF Bind
    <3>2. \A a \in Browsers : Placed(a)'
      BY <1>2, <3>1 DEF Bind, Placed, Types, Roles
    <3>3. QED
      BY <1>2, <3>1, <3>2, ObtainKeepsRoles DEF Bind, Roles
  <2>3. QED
    BY <2>1, <2>2
<1>3. ASSUME NEW b \in Browsers, PopStale(b) PROVE Roles'
  <2>1. \A a \in Browsers : Placed(a)'
    BY <1>3 DEF PopStale, Placed, Types, Roles
  <2>2. \A a \in Browsers : registry'[a] = IF a \in Stale THEN None ELSE registry[a]
    BY <1>3 DEF PopStale
  <2>3. ASSUME NEW c \in victims'[b] PROVE ~Registered(c)'
    <3>1. PICK a \in Stale : c = registry[a] /\ c # None
      BY <1>3, <2>3 DEF PopStale, Types, Stale
    <3>2. \A d \in Browsers \ {a} : registry[d] # c
      BY <3>1 DEF Roles, Apart, Stale
    <3>3. QED
      BY <2>2, <3>1, <3>2 DEF Registered
  <2>4. \A a \in Browsers \ {b} : victims'[a] = victims[a]
    BY <1>3 DEF PopStale, Types
  <2>5. tearing' = tearing /\ tearing[b] = None
    BY <1>3 DEF PopStale, Roles, Doomed, Placed
  <2>6. QED
    BY <2>1, <2>2, <2>3, <2>4, <2>5, LossKeepsRoles DEF Roles, Doomed
<1>4. ASSUME NEW b \in Browsers, TearStore(b) \/ TearResults(b) PROVE Roles'
  <2>1. UNCHANGED <<registry, pc, session, agent, artifact>>
    BY <1>4 DEF TearStore, TearResults
  <2>2. \A a \in Browsers : /\ tearing'[a] # None => tearing'[a] \in victims'[a]
                            /\ victims'[a] \subseteq victims[a]
    BY <1>4 DEF TearStore, TearResults, Types, Roles, Doomed
  <2>3. \A a \in Browsers : Placed(a)'
    BY <2>1, <2>2 DEF Placed, Roles
  <2>4. QED
    BY <2>3, <2>1, <2>2, LossKeepsRoles DEF Roles
<1>5. ASSUME NEW b \in Browsers, Reset(b) PROVE Roles'
  <2>1. \A a \in Browsers : Placed(a)'
    BY <1>5 DEF Reset, Placed, Types, Roles
  <2>2. /\ registry' = [registry EXCEPT ![b] = None]
        /\ victims' = [victims EXCEPT ![b] = {registry[b]} \ {None}]
        /\ tearing' = tearing
    BY <1>5 DEF Reset
  <2>3. \A c \in victims'[b] : ~Registered(c)'
    BY <2>2 DEF Roles, Apart, Registered, Types
  <2>4. tearing[b] = None
    BY <1>5 DEF Reset, Roles, Doomed, Placed
  <2>5. QED
    BY <2>1, <2>2, <2>3, <2>4, LossKeepsRoles DEF Roles, Doomed, Types
<1>6. ASSUME NEW b \in Browsers,
             \/ Upload(b) \/ StartTool(b) \/ Refetch(b) \/ Publish(b) \/ RecordResult(b)
             \/ ToolFails(b) \/ Finish(b) \/ EndReset(b)
      PROVE  Roles'
  <2>1. UNCHANGED <<registry, victims, tearing>>
    BY <1>6 DEF Upload, StartTool, Refetch, Publish, RecordResult, ToolFails, EndTool, Finish,
                EndReset
  <2>2. \A a \in Browsers : Placed(a)'
    <3>1. CASE Upload(b) \/ Refetch(b) \/ Finish(b) \/ EndReset(b)
      BY <1>6, <3>1 DEF Upload, Refetch, Finish, EndReset, Placed, Types, Roles
    <3>2. CASE StartTool(b) \/ RecordResult(b) \/ ToolFails(b)
      BY <1>6, <3>2 DEF StartTool, RecordResult, ToolFails, EndTool, Placed, Types, Roles
    <3>3. CASE Publish(b)
      <4>1. NewHandle(b, TRUE) # NoHandle
        BY <3>3, FreshTypes DEF Publish
      <4>2. QED
        BY <3>3, <4>1 DEF Publish, Placed, Types, Roles
    <3>4. QED
      BY <1>6, <3>1, <3>2, <3>3
  <2>3. QED
    BY <2>1, <2>2 DEF Roles, Apart, Doomed, Registered
<1>7. CASE Tick \/ UNCHANGED vars
  <2>1. UNCHANGED <<registry, victims, tearing, pc, session, agent, artifact>>
    BY <1>7 DEF Tick, vars
  <2>2. QED
    BY <2>1 DEF Roles, Apart, Doomed, Registered, Placed
<1>8. QED
  BY <1>1, <1>2, <1>3, <1>4, <1>5, <1>6, <1>7 DEF Next, Run

-----------------------------------------------------------------------------
\* What a step does to a context: nothing, or it empties one nobody registers.
Emptied(c) ==
    /\ ~Registered(c)
    /\ results'[c] \in {results[c], <<>>}
    /\ Registered(c)' => /\ store'[c] = {} /\ results'[c] = <<>>
                         /\ \A a \in Browsers : artifact[a] # NoHandle => agent[a] # c
Kept(c) == store'[c] = store[c] /\ results'[c] = results[c] /\ (Registered(c)' => Registered(c))

LEMMA EmptyingKeepsContents ==
    ASSUME Types, Roles, Contents, UNCHANGED artifact,
           \A a \in Browsers : artifact[a] # NoHandle => agent'[a] = agent[a],
           \A c \in Contexts : Kept(c) \/ Emptied(c)
    PROVE  Contents' /\ Spares
<1> USE HandleTypes DEF Kept, Emptied
<1>1. DOMAIN <<>> = {}
  BY EmptySeq
<1>2. \A c \in Contexts : Listed(c)' \subseteq Listed(c)
  BY <1>1 DEF Listed
<1>3. Spares
  BY DEF Spares
<1>4. Once'
  <2>1. ASSUME NEW c \in Contexts, NEW i \in DOMAIN results'[c], NEW j \in DOMAIN results'[c],
               i # j, results'[c][i] \in Clean
        PROVE  results'[c][i] # results'[c][j]
    BY <1>1, <2>1 DEF Contents, Once
  <2>2. QED
    BY <1>2, <2>1 DEF Contents, Once, Clean
<1>5. Pending'
  <2>1. ASSUME NEW b \in Browsers, artifact[b] # NoHandle, NEW c \in Contexts, agent[b] = c,
               Registered(c)'
        PROVE  artifact[b] \in store'[c]
    <3>1. CASE Kept(c)
      BY <2>1, <3>1 DEF Contents, Pending
    <3>2. CASE Emptied(c)
      BY <2>1, <3>2
    <3>3. QED
      BY <3>1, <3>2
  <2>2. \A b \in Browsers : artifact[b] # NoHandle => agent[b] \in Contexts
    BY DEF Types, Roles, Placed
  <2>3. QED
    BY <2>1, <2>2 DEF Pending, Registered
<1>6. ListedIsThere'
  BY <1>1 DEF Contents, ListedIsThere, Listed
<1>7. NoHiddenCopy'
  <2>1. ASSUME NEW c \in Contexts, Registered(c)', NEW h \in store'[c], h.clean
        PROVE  h \in Listed(c)' \/ \E b \in Browsers : agent'[b] = c /\ h = artifact'[b]
    <3>1. store'[c] = store[c] /\ results'[c] = results[c] /\ Registered(c)
      BY <2>1
    <3>2. h \in Listed(c) \/ \E b \in Browsers : agent[b] = c /\ h = artifact[b]
      BY <2>1, <3>1 DEF Contents, NoHiddenCopy
    <3>3. QED
      BY <2>1, <3>1, <3>2 DEF Listed
  <2>2. QED
    BY <2>1 DEF NoHiddenCopy
<1>8. QED
  BY <1>3, <1>4, <1>5, <1>6, <1>7 DEF Contents

LEMMA ObtainKeepsContents ==
    ASSUME Types, Roles, Contents, NEW b \in Browsers, NEW c \in Contexts, Obtain(b, c),
           UNCHANGED artifact,
           \A a \in Browsers : artifact[a] # NoHandle => agent'[a] = agent[a]
    PROVE  Contents' /\ Spares
<1>1. registry' = [registry EXCEPT ![b] = c]
  BY ObtainRegisters
<1>2. CASE registry[b] = c /\ UNCHANGED <<store, results>>
  BY <1>1, <1>2, EmptyingKeepsContents DEF Kept, Registered, Types
<1>3. CASE /\ c \notin Referenced
           /\ store' = [store EXCEPT ![c] = {}]
           /\ results' = [results EXCEPT ![c] = <<>>]
  <2>1. ~Registered(c) /\ \A a \in Browsers : agent[a] # c
    BY <1>3, FreeContext
  <2>2. store'[c] = {} /\ results'[c] = <<>>
    BY <1>3 DEF Types
  <2>3. \A d \in Contexts \ {c} : store'[d] = store[d] /\ results'[d] = results[d]
    BY <1>3 DEF Types
  <2>4. \A d \in Contexts \ {c} : Registered(d)' => Registered(d)
    BY <1>1 DEF Registered, Types
  <2>5. \A d \in Contexts : Kept(d) \/ Emptied(d)
    BY <2>1, <2>2, <2>3, <2>4 DEF Kept, Emptied
  <2>6. QED
    BY <2>5, EmptyingKeepsContents
<1>4. QED
  BY <1>2, <1>3, ObtainRegisters

\* A record that is put in, and is no new cleaned copy, changes nothing.
LEMMA PuttingKeepsContents ==
    ASSUME Types, Contents, NEW x \in Contexts, NEW h \in Handles, h \in store[x] \/ ~h.clean,
           store' = [store EXCEPT ![x] = @ \cup {h}],
           UNCHANGED <<registry, results, agent, artifact>>
    PROVE  Contents' /\ Spares
<1>1. \A c \in Contexts : /\ store[c] \subseteq store'[c]
                          /\ \A g \in store'[c] \ store[c] : ~g.clean
  BY DEF Types
<1>2. Spares
  BY <1>1 DEF Spares
<1>3. Once'
  BY DEF Contents, Once, Listed
<1>4. Pending'
  BY <1>1 DEF Contents, Pending, Registered, Types, Maybe
<1>5. ListedIsThere' /\ NoHiddenCopy'
  BY <1>1 DEF Contents, ListedIsThere, NoHiddenCopy, Listed, Registered
<1>6. QED
  BY <1>2, <1>3, <1>4, <1>5 DEF Contents

LEMMA PublishKeepsContents ==
    ASSUME Types, Roles, Contents, NEW b \in Browsers, Publish(b)
    PROVE  Contents' /\ Spares
<1> USE HandleTypes
<1> DEFINE n == NewHandle(b, TRUE)
           x == agent[b]
<1>1. /\ n \in Handles /\ n \in Clean
      /\ \A a \in Browsers : n # artifact[a]
      /\ \A c \in Contexts : n \notin Listed(c)
  <2>1. n \in Fresh(b, TRUE) /\ n \in Handles
    BY FreshTypes DEF Publish
  <2>2. QED
    BY <2>1 DEF Fresh, Clean, Listed
<1>2. x \in Contexts /\ artifact[b] = NoHandle
  BY DEF Publish, Roles, Placed
<1>3. /\ artifact' = [artifact EXCEPT ![b] = n]
      /\ store' = [store EXCEPT ![x] = @ \cup {n}]
      /\ UNCHANGED <<registry, results, agent>>
  BY DEF Publish
<1> HIDE DEF n
<1>4. \A c \in Contexts : Listed(c)' = Listed(c) /\ Registered(c)' = Registered(c)
  BY <1>3 DEF Listed, Registered
<1>5. \A c \in Contexts : store[c] \subseteq store'[c] /\ store'[c] \subseteq store[c] \cup {n}
  BY <1>3 DEF Types
<1>6. \A c \in Contexts \ {x} : store'[c] = store[c]
  BY <1>3 DEF Types
<1>7. artifact'[b] = n /\ \A a \in Browsers \ {b} : artifact'[a] = artifact[a]
  BY <1>3 DEF Types
<1>8. Once'
  BY <1>1, <1>3, <1>4, <1>7 DEF Contents, Once
<1>9. Pending'
  BY <1>1, <1>2, <1>3, <1>5, <1>7 DEF Contents, Pending, Registered, Types, Maybe
<1>10. ListedIsThere'
  BY <1>4, <1>5 DEF Contents, ListedIsThere
<1>11. NoHiddenCopy'
  <2>1. ASSUME NEW c \in Contexts, Registered(c), NEW h \in store'[c], h.clean
        PROVE  h \in Listed(c) \/ \E a \in Browsers : agent[a] = c /\ h = artifact'[a]
    <3>1. CASE h = n
      <4>1. CASE c = x
        BY <1>7, <3>1, <4>1
      <4>2. CASE c # x
        BY <1>6, <1>7, <2>1, <3>1, <4>2, <1>1 DEF Contents, NoHiddenCopy
      <4>3. QED
        BY <4>1, <4>2
    <3>2. CASE h # n
      <4>1. h \in Listed(c) \/ \E a \in Browsers : agent[a] = c /\ h = artifact[a]
        BY <1>5, <2>1, <3>2 DEF Contents, NoHiddenCopy
      <4>2. QED
        BY <1>2, <1>7, <2>1, <4>1
    <3>3. QED
      BY <3>1, <3>2
  <2>2. QED
    BY <1>3, <1>4, <2>1 DEF NoHiddenCopy
<1>12. Spares
  BY <1>5 DEF Spares
<1>13. QED
  BY <1>8, <1>9, <1>10, <1>11, <1>12 DEF Contents

\* What is left of a list of results when one more is kept, and what becomes of
\* the artifacts.
LEMMA KeepLists ==
    ASSUME Types, Once, NEW x \in Contexts, NEW r \in Results, Keep(x, r), r \notin Listed(x) \cap Clean
    PROVE  /\ \A c \in Contexts \ {x} : store'[c] = store[c] /\ results'[c] = results[c]
           /\ r \in Listed(x)'
           /\ Listed(x)' \subseteq Listed(x) \cup {r}
           /\ store'[x] \subseteq store[x]
           /\ store[x] \ store'[x] \subseteq Listed(x)
           /\ \A h \in Listed(x) \cap Clean : h \in store'[x] => h \in Listed(x)'
           /\ \A h \in Clean : h \in Listed(x)' /\ h \in store[x] => h \in store'[x]
           /\ \A i, j \in DOMAIN results'[x] :
                 i # j /\ results'[x][i] \in Clean => results'[x][i] # results'[x][j]
<1> DEFINE s == results[x]
           t == results'[x]
<1>1. s \in Seq(Results) /\ Len(s) \in Nat /\ DOMAIN s = 1..Len(s)
  BY LenProperties DEF Types
<1>2. \A c \in Contexts \ {x} : store'[c] = store[c] /\ results'[c] = results[c]
  BY DEF Keep, Types
<1>3. CASE Len(s) < MaxResults
  <2>1. t = Append(s, r) /\ store' = store
    BY <1>3 DEF Keep, Types
  <2>2. /\ Len(t) = Len(s) + 1 /\ DOMAIN t = 1..(Len(s) + 1)
        /\ \A i \in 1..Len(s) : t[i] = s[i]
        /\ t[Len(s) + 1] = r
    BY <1>1, <2>1, AppendProperties
  <2> HIDE DEF s, t
  <2>3. \A i \in DOMAIN t : i = Len(s) + 1 \/ i \in 1..Len(s)
    BY <1>1, <2>2
  <2>4. {t[i] : i \in DOMAIN t} = {s[i] : i \in DOMAIN s} \cup {r}
    BY <1>1, <2>2, <2>3
  <2>5. \A i, j \in DOMAIN t : i # j /\ t[i] \in Clean => t[i] # t[j]
    <3>1. \A i, j \in 1..Len(s) : i # j /\ s[i] \in Clean => s[i] # s[j]
      BY <1>1 DEF Once, s
    <3>2. \A i \in 1..Len(s) : s[i] # r \/ r \notin Clean
      BY <1>1 DEF Listed, s
    <3>3. QED
      BY <2>2, <2>3, <3>1, <3>2
  <2>6. QED
    BY <1>2, <2>1, <2>4, <2>5 DEF Listed, s, t
<1>4. CASE ~(Len(s) < MaxResults)
  <2>1. t = Append(Tail(s), r) /\ store' = [store EXCEPT ![x] = @ \ {Head(s)}]
    BY <1>4 DEF Keep, Types
  <2>2. Len(s) >= 1 /\ s # <<>>
    BY <1>1, <1>4, BoundsAssumption
  <2>3. /\ Head(s) = s[1] /\ Tail(s) \in Seq(Results) /\ Len(Tail(s)) = Len(s) - 1
        /\ \A i \in 1..(Len(s) - 1) : Tail(s)[i] = s[i + 1]
    BY <1>1, <2>2, HeadTailProperties
  <2>4. /\ DOMAIN t = 1..Len(s)
        /\ \A i \in 1..(Len(s) - 1) : t[i] = s[i + 1]
        /\ t[Len(s)] = r
    <3> HIDE DEF s, t
    <3> DEFINE u == Tail(s)
    <3>1. u \in Seq(Results) /\ Len(u) = Len(s) - 1 /\ t = Append(u, r)
      BY <2>1, <2>3
    <3> HIDE DEF u
    <3>2. /\ Len(t) = Len(u) + 1 /\ DOMAIN t = 1..Len(t)
          /\ \A i \in 1..Len(u) : t[i] = u[i]
          /\ t[Len(u) + 1] = r
      BY <3>1, AppendProperties, LenProperties
    <3>3. \A i \in 1..(Len(s) - 1) : u[i] = s[i + 1]
      BY <2>3 DEF u
    <3>4. Len(s) \in Nat /\ Len(u) = Len(s) - 1
      BY <1>1, <3>1
    <3>5. Len(u) + 1 = Len(s)
      BY <3>4
    <3>6. Len(t) = Len(s)
      BY <3>2, <3>5
    <3>7. QED
      BY <3>2, <3>3, <3>4, <3>5, <3>6
  <2>5. store'[x] = store[x] \ {s[1]}
    BY <2>1, <2>3 DEF Types
  <2> HIDE DEF s, t
  <2>6. \A i \in DOMAIN t : i = Len(s) \/ (i \in 1..(Len(s) - 1) /\ i + 1 \in DOMAIN s)
    BY <1>1, <2>2, <2>4
  <2>7. \A i \in DOMAIN s : i = 1 \/ (i - 1 \in 1..(Len(s) - 1) /\ t[i - 1] = s[i])
    BY <1>1, <2>2, <2>4
  <2>8. \A i, j \in DOMAIN s : i # j /\ s[i] \in Clean => s[i] # s[j]
    BY DEF Once, s
  <2>9. \A i \in DOMAIN s : s[i] # r \/ r \notin Clean
    BY DEF Listed, s
  <2>10. r \in {t[i] : i \in DOMAIN t}
    BY <1>1, <2>2, <2>4
  <2>11. {t[i] : i \in DOMAIN t} \subseteq {s[i] : i \in DOMAIN s} \cup {r}
    BY <2>4, <2>6
  <2>12. s[1] \in Clean => s[1] \notin {t[i] : i \in DOMAIN t}
    <3>1. 1 \in DOMAIN s
      BY <1>1, <2>2
    <3>2. \A i \in DOMAIN t : \/ i = Len(s) /\ t[i] = r
                              \/ t[i] = s[i + 1] /\ i + 1 \in DOMAIN s /\ i + 1 # 1
      BY <1>1, <2>4, <2>6
    <3>3. QED
      BY <2>8, <2>9, <3>1, <3>2
  <2>13. \A i \in DOMAIN s : s[i] = s[1] \/ s[i] \in {t[j] : j \in DOMAIN t}
    BY <1>1, <2>2, <2>4, <2>7
  <2>14. \A i, j \in DOMAIN t : i # j /\ t[i] \in Clean => t[i] # t[j]
    <3>1. ASSUME NEW i \in DOMAIN t, NEW j \in DOMAIN t, i # j, t[i] \in Clean PROVE t[i] # t[j]
      <4>1. CASE i = Len(s)
        BY <2>4, <2>6, <2>9, <3>1, <4>1
      <4>2. CASE j = Len(s)
        BY <2>4, <2>6, <2>9, <3>1, <4>2
      <4>3. CASE i # Len(s) /\ j # Len(s)
        <5>1. i + 1 \in DOMAIN s /\ j + 1 \in DOMAIN s /\ t[i] = s[i + 1] /\ t[j] = s[j + 1]
          BY <2>4, <2>6, <3>1, <4>3
        <5>2. i + 1 # j + 1
          BY <1>1, <2>6, <3>1, <4>3
        <5>3. QED
          BY <2>8, <3>1, <5>1, <5>2
      <4>4. QED
        BY <4>1, <4>2, <4>3
    <3>2. QED
      BY <3>1
  <2>15. s[1] \in {s[i] : i \in DOMAIN s}
    BY <1>1, <2>2
  <2>16. QED
    BY <1>2, <2>5, <2>10, <2>11, <2>12, <2>13, <2>14, <2>15 DEF Listed, s, t
<1>5. QED
  BY <1>3, <1>4

\* A result is recorded: with the artifact that was about to be listed, or a
\* report of a run that has none.
LEMMA RecordKeepsContents ==
    ASSUME Types, Roles, Contents, NEW b \in Browsers, RecordResult(b)
    PROVE  Contents' /\ Spares
<1> USE HandleTypes
<1>1. PICK x \in Contexts, r \in Results : x = agent[b] /\ r = artifact[b] /\ Keep(x, r)
  BY DEF RecordResult, Roles, Placed, Types
<1>2. /\ UNCHANGED <<registry, agent>>
      /\ artifact'[b] = NoHandle
      /\ \A a \in Browsers \ {b} : artifact'[a] = artifact[a]
  BY DEF RecordResult, EndTool, Types
<1>3. \A a \in Browsers \ {b} : artifact[a] # NoHandle => artifact[a] # r
  BY <1>1 DEF Contents, Once
<1>4. r \in Clean <=> r # NoHandle
  BY <1>1 DEF Results, Clean
<1>5. r \notin Listed(x) \cap Clean
  BY <1>1, <1>4 DEF Contents, Once
<1>6. Once
  BY DEF Contents
<1>7. /\ \A c \in Contexts \ {x} : store'[c] = store[c] /\ results'[c] = results[c]
      /\ r \in Listed(x)'
      /\ Listed(x)' \subseteq Listed(x) \cup {r}
      /\ store'[x] \subseteq store[x]
      /\ store[x] \ store'[x] \subseteq Listed(x)
      /\ \A h \in Listed(x) \cap Clean : h \in store'[x] => h \in Listed(x)'
      /\ \A h \in Clean : h \in Listed(x)' /\ h \in store[x] => h \in store'[x]
      /\ \A i, j \in DOMAIN results'[x] :
            i # j /\ results'[x][i] \in Clean => results'[x][i] # results'[x][j]
  BY <1>1, <1>5, <1>6, KeepLists
<1>8. \A c \in Contexts \ {x} : Listed(c)' = Listed(c)
  BY <1>7 DEF Listed
<1>9. \A c : Registered(c)' <=> Registered(c)
  BY <1>2 DEF Registered
<1>10. \A c \in Contexts : store[c] \subseteq Handles /\ Listed(c) \subseteq Results
  <2>1. ASSUME NEW c \in Contexts PROVE Listed(c) \subseteq Results
    <3>1. results[c] \in Seq(Results)
      BY DEF Types
    <3>2. \A i \in DOMAIN results[c] : results[c][i] \in Results
      BY <3>1, ElementOfSeq, LenProperties
    <3>3. QED
      BY <3>2 DEF Listed
  <2>2. QED
    BY <2>1 DEF Types
<1>11. Spares
  <2>1. ASSUME NEW h \in store[x] \ store'[x] PROVE h.clean
    BY <1>1, <1>7, <1>10, <2>1 DEF Results, Clean
  <2>2. QED
    BY <1>7, <2>1 DEF Spares
<1>12. Once'
  <2>1. ASSUME NEW c \in Contexts, NEW i \in DOMAIN results'[c], NEW j \in DOMAIN results'[c],
               i # j, results'[c][i] \in Clean
        PROVE  results'[c][i] # results'[c][j]
    BY <1>6, <1>7, <2>1 DEF Once
  <2>2. ASSUME NEW a \in Browsers, artifact'[a] # NoHandle
        PROVE  /\ \A c \in Contexts : artifact'[a] \notin Listed(c)'
               /\ \A d \in Browsers \ {a} : artifact'[d] # artifact'[a]
    <3>1. a # b /\ artifact'[a] = artifact[a] /\ artifact[a] # r
      BY <1>2, <1>3, <2>2
    <3>2. \A c \in Contexts : artifact[a] \notin Listed(c)
      BY <1>6, <2>2, <3>1 DEF Once
    <3>3. \A c \in Contexts : artifact'[a] \notin Listed(c)'
      BY <1>1, <1>7, <1>8, <3>1, <3>2
    <3>4. \A d \in Browsers \ {a} : artifact'[d] # artifact'[a]
      BY <1>2, <1>6, <2>2, <3>1 DEF Once
    <3>5. QED
      BY <3>3, <3>4
  <2>3. QED
    BY <2>1, <2>2 DEF Once
<1>13. Pending'
  <2>1. ASSUME NEW a \in Browsers, artifact'[a] # NoHandle, Registered(agent[a])
        PROVE  artifact'[a] \in store'[agent[a]]
    <3>1. a # b /\ artifact'[a] = artifact[a]
      BY <1>2, <2>1
    <3>2. agent[a] \in Contexts
      BY <2>1, <3>1 DEF Roles, Placed, Types
    <3>3. artifact[a] \in store[agent[a]] /\ artifact[a] \notin Listed(agent[a])
      BY <2>1, <3>1, <3>2 DEF Contents, Pending, Once
    <3>4. QED
      BY <1>7, <3>1, <3>2, <3>3
  <2>2. QED
    BY <1>2, <1>9, <2>1 DEF Pending
<1>14. ListedIsThere'
  <2>1. ASSUME NEW c \in Contexts, Registered(c), NEW h \in Listed(c)', h.clean
        PROVE  h \in store'[c]
    <3>1. CASE c # x
      BY <1>7, <1>8, <2>1, <3>1 DEF Contents, ListedIsThere
    <3>2. CASE c = x
      <4>1. h \in Results /\ h \in Clean
        BY <1>1, <1>7, <1>10, <2>1, <3>2 DEF Results
      <4>2. h \in store[x]
        <5>1. CASE h = r
          BY <1>1, <1>4, <2>1, <3>2, <4>1, <5>1 DEF Contents, Pending
        <5>2. CASE h # r
          BY <1>7, <2>1, <3>2, <5>2 DEF Contents, ListedIsThere
        <5>3. QED
          BY <5>1, <5>2
      <4>3. QED
        BY <1>7, <2>1, <3>2, <4>1, <4>2
    <3>3. QED
      BY <3>1, <3>2
  <2>2. QED
    BY <1>9, <2>1 DEF ListedIsThere
<1>15. NoHiddenCopy'
  <2>1. ASSUME NEW c \in Contexts, Registered(c), NEW h \in store'[c], h.clean
        PROVE  h \in Listed(c)' \/ \E a \in Browsers : agent[a] = c /\ h = artifact'[a]
    <3>1. h \in store[c] /\ h \in Clean
      BY <1>7, <1>10, <2>1 DEF Clean
    <3>2. CASE h \in Listed(c)
      BY <1>7, <1>8, <2>1, <3>1, <3>2
    <3>3. CASE h \notin Listed(c)
      <4>1. PICK a \in Browsers : agent[a] = c /\ h = artifact[a]
        BY <2>1, <3>1, <3>3 DEF Contents, NoHiddenCopy
      <4>2. CASE a = b
        BY <1>1, <1>7, <4>1, <4>2
      <4>3. CASE a # b
        BY <1>2, <4>1, <4>3
      <4>4. QED
        BY <4>2, <4>3
    <3>4. QED
      BY <3>2, <3>3
  <2>2. QED
    BY <1>2, <1>9, <2>1 DEF NoHiddenCopy
<1>16. QED
  BY <1>11, <1>12, <1>13, <1>14, <1>15 DEF Contents

LEMMA ContentsStay ==
    ASSUME Types, Roles, Roles', Contents, [Next]_vars
    PROVE  Contents' /\ Spares
<1> USE HandleTypes
<1>1. ASSUME NEW b \in Browsers, Enter(b) PROVE Contents' /\ Spares
  <2>1. PICK c \in Contexts : Obtain(b, c)
    BY <1>1 DEF Enter
  <2>2. UNCHANGED <<artifact, agent>>
    BY <1>1 DEF Enter
  <2>3. QED
    BY <2>1, <2>2, ObtainKeepsContents
<1>2. ASSUME NEW b \in Browsers, Bind(b) PROVE Contents' /\ Spares
  <2>1. /\ UNCHANGED artifact
        /\ \A a \in Browsers : artifact[a] # NoHandle => agent'[a] = agent[a]
    BY <1>2 DEF Bind, Roles, Placed, Types
  <2>2. CASE cache[b] # None
    BY <1>2, <2>1, <2>2, EmptyingKeepsContents DEF Bind, stores, Kept, Registered
  <2>3. CASE cache[b] = None
    <3>1. PICK c \in Contexts : Obtain(b, c)
      BY <1>2, <2>3 DEF Bind
    <3>2. QED
      BY <2>1, <3>1, ObtainKeepsContents
  <2>4. QED
    BY <2>2, <2>3
<1>3. ASSUME NEW b \in Browsers, PopStale(b) \/ Reset(b) PROVE Contents' /\ Spares
  <2>1. UNCHANGED <<artifact, agent, store, results>>
    BY <1>3 DEF PopStale, Reset
  <2>2. \A a \in Browsers : registry'[a] \in {registry[a], None}
    BY <1>3 DEF PopStale, Reset, Types
  <2>3. \A c \in Contexts : Registered(c)' => Registered(c)
    BY <2>2 DEF Registered
  <2>4. QED
    BY <2>1, <2>3, EmptyingKeepsContents DEF Kept
<1>4. ASSUME NEW b \in Browsers, TearStore(b) \/ TearResults(b) PROVE Contents' /\ Spares
  <2>1. UNCHANGED <<artifact, agent, registry>>
    BY <1>4 DEF TearStore, TearResults
  <2>2. PICK d \in Contexts : /\ ~Registered(d)
                              /\ \A c \in Contexts \ {d} : store'[c] = store[c]
                                                           /\ results'[c] = results[c]
                              /\ results'[d] \in {results[d], <<>>}
    BY <1>4 DEF TearStore, TearResults, Types, Roles, Doomed, Maybe
  <2>3. \A c \in Contexts : Registered(c)' <=> Registered(c)
    BY <2>1 DEF Registered
  <2>4. QED
    BY <2>1, <2>2, <2>3, EmptyingKeepsContents DEF Kept, Emptied
<1>5. ASSUME NEW b \in Browsers, Finish(b) \/ EndReset(b) PROVE Contents' /\ Spares
  <2>1. UNCHANGED <<artifact, registry>> /\ Collect
    BY <1>5 DEF Finish, EndReset
  <2>2. \A a \in Browsers : artifact[a] # NoHandle => agent'[a] = agent[a]
    BY <1>5 DEF Finish, EndReset, Roles, Placed, Types
  <2>3. \A c \in Contexts : Registered(c)' <=> Registered(c)
    BY <2>1 DEF Registered
  <2>4. \A c \in Contexts : Registered(c) => c \in Referenced'
    BY <2>1 DEF Registered, Referenced
  <2>5. \A c \in Contexts : Kept(c) \/ Emptied(c)
    BY <2>1, <2>3, <2>4 DEF Collect, Kept, Emptied
  <2>6. QED
    BY <2>1, <2>2, <2>5, EmptyingKeepsContents
<1>6. ASSUME NEW b \in Browsers, Upload(b) \/ StartTool(b) PROVE Contents' /\ Spares
  <2>1. UNCHANGED <<registry, results, agent, artifact>>
    BY <1>6 DEF Upload, StartTool, locals
  <2>2. ASSUME Fresh(b, FALSE) # {}
        PROVE  NewHandle(b, FALSE) \in Handles /\ ~NewHandle(b, FALSE).clean
    BY <2>2, FreshTypes DEF Fresh
  <2>3. CASE Upload(b)
    <3>1. session[b] \in Contexts /\ Fresh(b, FALSE) # {}
      BY <2>3 DEF Upload, Roles, Placed
    <3>2. QED
      BY <2>1, <2>2, <2>3, <3>1, PuttingKeepsContents DEF Upload
  <2>4. CASE StartTool(b)
    <3>1. agent[b] \in Contexts
      BY <2>4 DEF StartTool, Roles, Placed
    <3>2. PICK h \in Handles : /\ h \in store[agent[b]] \/ ~h.clean
                               /\ store' = [store EXCEPT ![agent[b]] = @ \cup {h}]
      BY <2>2, <2>4, <3>1 DEF StartTool, Types
    <3>3. QED
      BY <2>1, <3>1, <3>2, PuttingKeepsContents
  <2>5. QED
    BY <1>6, <2>3, <2>4
<1>7. ASSUME NEW b \in Browsers, Refetch(b) \/ ToolFails(b) PROVE Contents' /\ Spares
  <2>1. UNCHANGED <<registry, store, results, agent, artifact>>
    BY <1>7 DEF Refetch, ToolFails, EndTool, stores, locals, Roles, Placed, Types
  <2>2. QED
    BY <2>1, EmptyingKeepsContents DEF Kept, Registered
<1>8. CASE Tick \/ UNCHANGED vars
  <2>1. UNCHANGED <<registry, store, results, agent, artifact>>
    BY <1>8 DEF Tick, vars, stores, locals
  <2>2. QED
    BY <2>1, EmptyingKeepsContents DEF Kept, Registered
<1>9. QED
  BY <1>1, <1>2, <1>3, <1>4, <1>5, <1>6, <1>7, <1>8, PublishKeepsContents, RecordKeepsContents
  DEF Next, Run

LEMMA Inductive == IInv /\ [Next]_vars => IInv' /\ Spares
<1> SUFFICES ASSUME IInv, [Next]_vars PROVE IInv' /\ Spares
  OBVIOUS
<1>1. Types /\ Roles /\ Contents
  BY DEF IInv, Roles
<1>2. Types'
  BY <1>1, TypesStay DEF Roles
<1>3. Roles'
  BY <1>1, RolesStay
<1>4. Contents' /\ Spares
  BY <1>1, <1>3, ContentsStay
<1>5. QED
  BY <1>2, <1>3, <1>4 DEF IInv, Roles

LEMMA Invariance == Spec => []IInv
<1>1. IInv /\ [Next]_vars => IInv'
  BY Inductive
<1>2. QED
  BY InitIsGood, <1>1, PTL DEF Spec

\* Whatever was evicted and whoever was swept or reset meanwhile, each cleaned
\* copy the UI of a registered session lists is in its content store.
THEOREM ListedContentIsThere == Spec => []ListedIsThere
<1>1. IInv => ListedIsThere
  BY DEF IInv, Contents
<1>2. QED
  BY Invariance, <1>1, PTL

\* No cleaned copy a registered session holds is out of reach of its UI.
THEOREM NoCopyIsHidden == Spec => []NoHiddenCopy
<1>1. IInv => NoHiddenCopy
  BY DEF IInv, Contents
<1>2. QED
  BY Invariance, <1>1, PTL

\* No step of a sweep, a reset or another session takes raw content from a
\* context that is registered before and after it.
THEOREM SweepsSpareTheLive == Spec => SweepSparesLive
<1>1. IInv /\ [Next]_vars => [Spares]_store
  BY Inductive
<1>2. IInv /\ [Next]_vars =>
        [\A c \in Contexts : Registered(c) /\ Registered(c)' =>
             \A h \in store[c] \ store'[c] : h.clean]_store
  BY <1>1 DEF Spares
<1>3. QED
  BY Invariance, <1>2, PTL DEF Spec, SweepSparesLive
=============================================================================
