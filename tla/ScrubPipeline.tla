--------------------------- MODULE ScrubPipeline ---------------------------
(***************************************************************************)
(* One call of scan() or scrub() (pii_agent/core/pipeline.py) over one     *)
(* stored document: the chunk loop with the detectors of                   *)
(* pii_agent/core/detector.py, the CoverageLedger they report to           *)
(* (pii_agent/models/coverage.py), and the three gates in front of the     *)
(* sanitized artifact: coverage, BLOCK, and the verification re-scan       *)
(* (pii_agent/core/verifier.py).                                           *)
(*                                                                         *)
(* The document is the set of sensitive values in it, each in one chunk.   *)
(* Policy is resolved per value before the behaviour starts: what          *)
(* PolicyEngine.resolve_one will answer for it.  Bytes are counted in      *)
(* chunks.  Offsets, overlap and reconciliation are left out.              *)
(***************************************************************************)
EXTENDS Naturals, FiniteSets

CONSTANTS
    Values,         \* sensitive values a document may hold
    Types,          \* entity types
    TypeOf,         \* the entity type of each value
    PassOf,         \* the detector pass that recognises each value
    ChunkOf,        \* the chunk each value lies in
    N,              \* number of chunks of the document
    Abuts,          \* pairs of values with only whitespace between them
    Required,       \* required_detectors of the profile
    Asked,          \* the requests a behaviour may start with
    Faults          \* what may go wrong, a subset of FaultKinds

Patterns == {"presidio", "custom_security"}
Detectors == Patterns \cup {"spacy"}
Passes == Detectors \cup {"second"}     \* "second": detect_spaced_evasion
Chunks == 1..N
Actions == {"ALLOW", "REMOVE", "BLOCK"}

FaultKinds ==
    {"detector",    \* a detector raises or cannot be loaded
     "slow",        \* a detector exceeds its time budget
     "second",      \* the analyzer raises in the second pass
     "nlp",         \* the shared spaCy pass raises
     "recheck",     \* the faults above also strike the verification re-scan
     "audit"}       \* AuditSink.append raises

ASSUME ValuesAssumption ==
    /\ IsFiniteSet(Values)
    /\ TypeOf \in [Values -> Types]
    /\ PassOf \in [Values -> Passes]
    /\ ChunkOf \in [Values -> Chunks]
    /\ Abuts \subseteq Values \X Values
ASSUME NAssumption == N \in Nat \ {0}
ASSUME RequiredAssumption == Required \subseteq Detectors
ASSUME FaultsAssumption == Faults \subseteq FaultKinds

\* The document and the ScanOptions of one call.
Requests ==
    [mode : {"scan", "scrub"},
     present : SUBSET Values,               \* the values in the document
     blank : SUBSET Chunks,                 \* chunks of whitespace
     policy : [Values -> Actions],          \* resolve_one of each value
     sensitive : SUBSET Types,              \* is_destination_sensitive
     destination : BOOLEAN,                 \* a destination was given
     dryRun : BOOLEAN,
     limit : 0..N,                          \* max_bytes; N stands for None
     approved : BOOLEAN]                    \* truncation_approved

ASSUME AskedAssumption ==
    \A r \in Asked : r \in Requests /\ \A v \in r.present : ChunkOf[v] \notin r.blank

VARIABLES
    request,        \* the document and the ScanOptions
    loaded,         \* engines this process has loaded: get_spacy, get_analyzer
    step,           \* where the call is
    ledger,         \* CoverageLedger
    inspected,      \* history: which pass ran to its end over which chunk
    overran,        \* history: the detectors that exceeded their time budget
    found,          \* result.entities
    remaining,      \* the values the text under construction still holds
    rechecked,      \* history: the passes the re-scan ran to their end
    result,         \* ProcessingResult
    audited         \* records written for this call

vars == <<request, loaded, step, ledger, inspected, overran, found,
          remaining, rechecked, result, audited>>

-----------------------------------------------------------------------------
(* CoverageLedger *)

Ledgers ==
    [executed : SUBSET Detectors, failed : SUBSET Detectors,
     timedOut : SUBSET Detectors, chunks : 0..N, aborted : BOOLEAN]

\* Mutant: a detector that starts again is no longer failed.
Start_Resets(l, D) ==
    [l EXCEPT !.executed = @ \cup D, !.failed = @ \ D]

Start(l, D) == [l EXCEPT !.executed = @ \cup D]
Fail(l, D) == [Start(l, D) EXCEPT !.failed = @ \cup D]
Timeout(l, D) == [Start(l, D) EXCEPT !.timedOut = @ \cup D]
Unavailable(l, d) == [l EXCEPT !.executed = @ \ {d}, !.failed = @ \cup {d}]
Healthy(l) == l.executed \ (l.failed \cup l.timedOut)

\* bytes_total is 0 for a blank document.
Total == IF request.blank = Chunks THEN 0 ELSE N

IsComplete(l) ==
    /\ ~l.aborted
    /\ Total > 0 /\ l.chunks >= Total
    /\ Required \subseteq Healthy(l)

-----------------------------------------------------------------------------
(* detect_chunk: the shared spaCy pass, the pattern engine, spaCy on its own
   Doc or on the shared one ("given"), and the second pass. *)

Outcomes ==
    [shared : {"ok", "slow", "unavailable", "raises"},
     patterns : {"ok", "slow", "raises", "missing"},
     own : {"given", "ok", "slow", "raises", "unavailable"},
     second : {"ok", "raises"}]

\* What can happen when the faults in kinds may strike.  An engine that loaded
\* once stays loaded; one that failed to load is tried again.
Possible(o, kinds) ==
    /\ o.own = "given" <=> o.shared # "unavailable"
    /\ o.shared = "unavailable" => "detector" \in kinds /\ "spacy" \notin loaded
    /\ o.patterns = "missing" => "detector" \in kinds /\ "presidio" \notin loaded
    /\ "raises" \in {o.patterns, o.own} => "detector" \in kinds
    /\ "slow" \in {o.shared, o.patterns, o.own} => "slow" \in kinds
    /\ o.shared = "raises" => "nlp" \in kinds
    /\ o.second = "raises" => "second" \in kinds

\* DetectorUnavailable is caught around spaCy only; every other exception of
\* the shared pass, and a pattern engine that does not load, leave detect_chunk.
Escapes(o, blank) == o.shared = "raises" \/ (~blank /\ o.patterns = "missing")

Loads(o) ==
    loaded \cup (IF o.patterns = "missing" THEN {} ELSE {"presidio"})
           \cup (IF o.own = "unavailable" THEN {} ELSE {"spacy"})

AfterShared(l, o) ==
    IF o.shared = "unavailable" THEN Unavailable(l, "spacy") ELSE l

AfterPatterns(l, o) ==
    CASE o.patterns = "raises" -> Fail(Start(l, Patterns), Patterns)
      [] o.patterns = "slow" -> Timeout(Start(l, Patterns), Patterns)
      [] OTHER -> Start(l, Patterns)

\* The clock of detect_spacy runs only around a pass of its own.
AfterSpacy(l, o) ==
    CASE o.own = "unavailable" -> Unavailable(l, "spacy")
      [] o.own = "raises" -> Fail(Start(l, {"spacy"}), {"spacy"})
      [] o.own = "slow" -> Timeout(Start(l, {"spacy"}), {"spacy"})
      [] OTHER -> Start(l, {"spacy"})

\* The second pass reports nothing, whatever happens to it.  Over a chunk of
\* whitespace the detectors return before they start.
Report(l, o, blank) ==
    IF blank THEN AfterShared(l, o)
    ELSE AfterSpacy(AfterPatterns(AfterShared(l, o), o), o)

\* The passes that looked at all of the text they were given.
Ran(o) ==
    (IF o.patterns \in {"ok", "slow"} THEN Patterns ELSE {})
    \cup (IF o.own \in {"given", "ok", "slow"} THEN {"spacy"} ELSE {})
    \cup (IF o.second = "ok" THEN {"second"} ELSE {})

\* The detectors whose time over this text exceeded chunk_timeout_for.
Slow(o) ==
    (IF o.patterns = "slow" THEN Patterns ELSE {})
    \cup (IF "slow" \in {o.shared, o.own} THEN {"spacy"} ELSE {})

-----------------------------------------------------------------------------
\* ProcessingResult: "warned" is the warning that the audit record is missing.
Results ==
    [refusal : {"none", "NEEDS_DESTINATION", "DEGRADED_COVERAGE",
                "BLOCKED_ARTIFACT", "RESIDUAL_PII_DETECTED"},
     unverified : BOOLEAN, verified : BOOLEAN, artifact : BOOLEAN, warned : BOOLEAN]

Init ==
    /\ request \in Asked
    /\ loaded \in SUBSET {"presidio", "spacy"}
    /\ step = "scanning"
    /\ ledger = [executed |-> {}, failed |-> {}, timedOut |-> {},
                 chunks |-> 0, aborted |-> FALSE]
    /\ inspected = {}
    /\ overran = {}
    /\ found = {}
    /\ remaining = request.present
    /\ rechecked = {}
    /\ result = [refusal |-> "none", unverified |-> FALSE,
                 verified |-> FALSE, artifact |-> FALSE, warned |-> FALSE]
    /\ audited = 0

\* The call ends with result r and one audit record.  What append() raises,
\* before the record is on disk or after (fsync), becomes a warning of the result.
EndAudited(r) ==
    /\ step' = "returned"
    /\ \/ audited' = audited + 1 /\ result' = r
       \/ /\ "audit" \in Faults
          /\ audited' \in {audited, audited + 1}
          /\ result' = [r EXCEPT !.warned = TRUE]

StopsHere == request.limit < N /\ ledger.chunks >= request.limit

\* One turn of the loop over the chunks.
ScanChunk ==
    /\ step = "scanning"
    /\ Total > 0 /\ ledger.chunks < N /\ ~StopsHere
    /\ \E o \in Outcomes :
          LET c == ledger.chunks + 1
              blank == c \in request.blank
          IN  /\ Possible(o, Faults)
              /\ loaded' = Loads(o)
              /\ IF Escapes(o, blank)
                 THEN /\ step' = "raised"
                      /\ UNCHANGED <<ledger, inspected, overran, found>>
                 ELSE /\ ledger' = [Report(ledger, o, blank) EXCEPT !.chunks = c]
                      /\ inspected' = inspected \cup
                             ({c} \X (IF blank THEN Passes ELSE Ran(o)))
                      /\ overran' = overran \cup (IF blank THEN {} ELSE Slow(o))
                      /\ found' = found \cup
                             {v \in request.present :
                                 ChunkOf[v] = c /\ PassOf[v] \in Ran(o)}
                      /\ UNCHANGED step
    /\ UNCHANGED <<request, remaining, rechecked, result, audited>>

\* A document of whitespace: reported at once, with nothing to cover.
ScanBlank ==
    /\ step = "scanning"
    /\ Total = 0
    /\ step' = IF request.mode = "scan" THEN "returned" ELSE "gates"
    /\ UNCHANGED <<request, loaded, ledger, inspected, overran, found, remaining,
                   rechecked, result, audited>>

\* resolve() raises DestinationRequired, unless nothing would be produced anyway.
NeedsDestination ==
    /\ ~request.destination
    /\ ~request.dryRun
    /\ \E v \in found : TypeOf[v] \in request.sensitive

\* The loop is over: coverage is judged and policy resolved.
FinishScan ==
    /\ step = "scanning"
    /\ Total > 0
    /\ ledger.chunks = N \/ StopsHere
    /\ ledger' = [ledger EXCEPT !.aborted = ledger.chunks < N /\ ~request.approved]
    /\ result' = [result EXCEPT
                    !.unverified = ~IsComplete(ledger'),
                    !.refusal = IF NeedsDestination THEN "NEEDS_DESTINATION"
                                                    ELSE "none"]
    /\ step' = IF request.mode = "scan" \/ NeedsDestination
               THEN "returned" ELSE "gates"
    /\ UNCHANGED <<request, loaded, inspected, overran, found, remaining, rechecked, audited>>

\* Gate 1: incomplete coverage withholds the artifact.
RefuseDegraded ==
    /\ step = "gates"
    /\ ~IsComplete(ledger)
    /\ EndAudited([result EXCEPT !.refusal = "DEGRADED_COVERAGE", !.unverified = TRUE])
    /\ UNCHANGED <<request, loaded, ledger, inspected, overran, found, remaining, rechecked>>

EndDryRun ==
    /\ step = "gates"
    /\ IsComplete(ledger)
    /\ request.dryRun
    /\ step' = "returned"
    /\ UNCHANGED <<request, loaded, ledger, inspected, overran, found, remaining,
                   rechecked, result, audited>>

Blocked == \E v \in found : request.policy[v] = "BLOCK"

\* Mutant: the gate returns before the audit record is written.
RefuseBlocked_Unaudited ==
    /\ step = "gates"
    /\ IsComplete(ledger) /\ ~request.dryRun
    /\ Blocked
    /\ result' = [result EXCEPT !.refusal = "BLOCKED_ARTIFACT"]
    /\ step' = "returned"
    /\ UNCHANGED <<request, loaded, ledger, inspected, overran, found, remaining,
                   rechecked, audited>>

\* Gate 2: a BLOCK decision withholds the artifact.
RefuseBlocked ==
    /\ step = "gates"
    /\ IsComplete(ledger) /\ ~request.dryRun
    /\ Blocked
    /\ EndAudited([result EXCEPT !.refusal = "BLOCKED_ARTIFACT"])
    /\ UNCHANGED <<request, loaded, ledger, inspected, overran, found, remaining, rechecked>>

\* Mutant: the artifact is built from a scan whose coverage nobody judged.
ApplyDecisions_Ungated ==
    /\ step = "gates"
    /\ ~request.dryRun
    /\ ~Blocked
    /\ remaining' = remaining \ {v \in found : request.policy[v] = "REMOVE"}
    /\ step' = "verifying"
    /\ UNCHANGED <<request, loaded, ledger, inspected, overran, found, rechecked, result, audited>>

\* apply_decisions: every value with an actionable decision is replaced.
ApplyDecisions ==
    /\ step = "gates"
    /\ IsComplete(ledger) /\ ~request.dryRun
    /\ ~Blocked
    /\ remaining' = remaining \ {v \in found : request.policy[v] = "REMOVE"}
    /\ step' = "verifying"
    /\ UNCHANGED <<request, loaded, ledger, inspected, overran, found, rechecked, result, audited>>

-----------------------------------------------------------------------------
(* verify_sanitized *)

ActionedTypes == {TypeOf[v] : v \in {u \in found : request.policy[u] # "ALLOW"}}

\* Mutant: what policy lets stay is not set off against what is found.
Permitted_Nothing(t) == 0

Permitted(t) ==
    Cardinality({v \in found : TypeOf[v] = t /\ request.policy[v] = "ALLOW"})

\* _touches_marker: the value stands right beside a replacement.
TouchesMarker(v) ==
    \E u \in request.present \ remaining : <<u, v>> \in Abuts \/ <<v, u>> \in Abuts

\* Mutant: the re-scan leaves the second pass out.
Seen_Patterns(o) ==
    {v \in remaining : PassOf[v] \in Ran(o) \ {"second"} /\ ~TouchesMarker(v)}

Seen(o) == {v \in remaining : PassOf[v] \in Ran(o) /\ ~TouchesMarker(v)}

\* More of an actioned type than policy lets stay.
Residual(o) ==
    \E t \in ActionedTypes : Cardinality({v \in Seen(o) : TypeOf[v] = t}) > Permitted(t)

\* Gate 3: the sanitized text goes through the detectors as one chunk, with no
\* ledger to report to; put_sanitized and the audit record follow.
Verify ==
    /\ step = "verifying"
    /\ \E o \in Outcomes :
          /\ Possible(o, IF "recheck" \in Faults THEN Faults ELSE {})
          /\ loaded' = Loads(o)
          /\ IF Escapes(o, FALSE)
             THEN step' = "raised" /\ UNCHANGED <<rechecked, result, audited>>
             ELSE /\ rechecked' = Ran(o)
                  /\ EndAudited(IF Residual(o)
                                THEN [result EXCEPT !.refusal = "RESIDUAL_PII_DETECTED"]
                                ELSE [result EXCEPT !.verified = TRUE, !.artifact = TRUE])
    /\ UNCHANGED <<request, ledger, inspected, overran, found, remaining>>

Next ==
    \/ ScanChunk \/ ScanBlank \/ FinishScan
    \/ RefuseDegraded \/ EndDryRun \/ RefuseBlocked \/ ApplyDecisions
    \/ Verify

Spec == Init /\ [][Next]_vars

-----------------------------------------------------------------------------
TypeOK ==
    /\ request \in Requests
    /\ loaded \subseteq {"presidio", "spacy"}
    /\ step \in {"scanning", "gates", "verifying", "returned", "raised"}
    /\ ledger \in Ledgers
    /\ inspected \subseteq Chunks \X Passes
    /\ overran \subseteq Detectors
    /\ found \subseteq request.present
    /\ remaining \subseteq request.present
    /\ rechecked \subseteq Passes
    /\ result \in Results
    /\ audited \in {0, 1}

\* A ledger that reports complete coverage tells the truth: every required
\* detector went through every chunk, whatever failed, timed out, was missing
\* and came back in between.
CoverageIsTrue ==
    IsComplete(ledger) =>
        \A c \in Chunks, d \in Required : <<c, d>> \in inspected

\* The values of a type that the re-scan saw in the artifact.
StillSeen(t) ==
    {v \in remaining : TypeOf[v] = t /\ PassOf[v] \in rechecked /\ ~TouchesMarker(v)}

\* The three gates, judged by what happened and not by what the result says of
\* itself.  An artifact exists only for a call that asked for one and carries no
\* refusal (artifact_available); every required detector went through the whole
\* document (gate 1); policy neither blocks a finding (gate 2) nor leaves one
\* open for want of a destination; and of each type that was scrubbed, the passes
\* of the re-scan that worked saw no more than policy lets stay (gate 3).
GatesHold ==
    result.artifact =>
        /\ request.mode = "scrub" /\ ~request.dryRun /\ result.refusal = "none"
        /\ \A c \in Chunks, d \in Required : <<c, d>> \in inspected
        /\ \A v \in found : request.policy[v] # "BLOCK"
        /\ request.destination \/ \A v \in found : TypeOf[v] \notin request.sensitive
        /\ \A t \in ActionedTypes : Cardinality(StillSeen(t)) <= Permitted(t)

\* Gate 3 makes up for what the scan missed without a trace: when every pass of
\* the re-scan works, no value of a type that was scrubbed stays in the artifact
\* against policy.
NoActionedSurvivor ==
    result.artifact /\ Passes \subseteq rechecked =>
        \A v \in remaining :
            request.policy[v] = "ALLOW" \/ TypeOf[v] \notin ActionedTypes

\* The gates refuse nothing they should let pass: where nothing failed in the
\* scan, a whole document is scrubbed of exactly what policy removes, unless
\* policy withholds it.  What ALLOW leaves in the text does not count as
\* residual.
CleanScrubPublishes ==
    (/\ step = "returned"
     /\ request.mode = "scrub" /\ ~request.dryRun
     /\ Total > 0 /\ request.limit = N
     /\ Chunks \X Passes \subseteq inspected /\ overran = {} /\ ledger.failed = {}
     /\ result.refusal \notin {"NEEDS_DESTINATION", "BLOCKED_ARTIFACT"})
    => /\ result.artifact
       /\ remaining = {v \in request.present : request.policy[v] = "ALLOW"}

\* No outcome gets past the trail unnoticed: a call that hands out an artifact,
\* or is refused at a gate, has its one record, or its result warns that the
\* record could not be written; and no record speaks of any other call: one that
\* only reports, that waits for a destination, or that an exception ends.
AuditedOrWarned ==
    LET concluded ==
            \/ result.artifact
            \/ result.refusal \in
                  {"DEGRADED_COVERAGE", "BLOCKED_ARTIFACT", "RESIDUAL_PII_DETECTED"}
    IN  /\ concluded => audited = 1 \/ result.warned
        /\ audited = 1 \/ result.warned => concluded /\ step = "returned"

-----------------------------------------------------------------------------
(* What comments and documents of the repository say and the code does not do. *)

\* "Fails closed at three gates": a result that claims verification was re-read
\* by every detector the profile requires.
VerifiedMeansRechecked == result.verified => Required \subseteq rechecked

\* "the result must not reach the user before the audit entry is durable": an
\* artifact that is handed out has its audit record.
PublishedIsAudited == step = "returned" /\ result.artifact => audited = 1

\* "Every processing request produces exactly one audit record".
EveryRequestAudited == step = "returned" => audited = 1

\* "engine failure already reported": a chunk whose second pass raised does not
\* pass for inspected.
SecondPassReported ==
    IsComplete(ledger) => \A c \in Chunks : <<c, "second">> \in inspected

\* "A detector exceeded its budget. Treated as incomplete coverage."
OverrunIsIncomplete == overran \cap Required # {} => ~IsComplete(ledger)

\* "Failure here is not fatal": trouble in the shared spaCy pass ends no call.
SharedPassNotFatal == step # "raised"
=============================================================================
