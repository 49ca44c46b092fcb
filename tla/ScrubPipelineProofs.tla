------------------------ MODULE ScrubPipelineProofs ------------------------
(***************************************************************************)
(* What a scrub guarantees for every document, profile, set of options and *)
(* combination of faults: the coverage ledger tells the truth, and no      *)
(* artifact passes a closed gate.                                          *)
(***************************************************************************)
EXTENDS ScrubPipeline, FiniteSetTheorems, TLAPS

\* A detector the ledger does not hold for failed went through every chunk so far.
Accounted ==
    \A d \in Detectors \ ledger.failed, c \in 1..ledger.chunks :
        <<c, d>> \in inspected

\* What is known of the result at each step of the call.
Undecided ==
    /\ result.refusal = "none" /\ ~result.artifact /\ ~result.verified
    /\ ~result.warned /\ audited = 0

Gated ==
    /\ step \in {"scanning", "gates", "verifying"} => Undecided
    /\ step \in {"gates", "verifying"} => request.mode = "scrub" /\ ~NeedsDestination
    /\ step = "verifying" => ~request.dryRun /\ ~Blocked /\ IsComplete(ledger)

IInv ==
    /\ TypeOK
    /\ request \in Asked
    /\ Accounted
    /\ Gated
    /\ GatesHold
    /\ AuditedOrWarned

-----------------------------------------------------------------------------
\* Reporting an outcome keeps the ledger well formed, never takes a failure
\* back, and marks failed whatever did not run to its end.
LEMMA ReportKeepsFailures ==
    ASSUME NEW l \in Ledgers, NEW o \in Outcomes, NEW blank \in BOOLEAN,
           ~Escapes(o, blank)
    PROVE  /\ Report(l, o, blank) \in Ledgers
           /\ l.failed \subseteq Report(l, o, blank).failed
           /\ ~blank => Detectors \ Report(l, o, blank).failed \subseteq Ran(o)
<1> DEFINE s == AfterShared(l, o)
<1> DEFINE p == AfterPatterns(s, o)
<1> DEFINE y == AfterSpacy(p, o)
<1>1. s \in Ledgers /\ l.failed \subseteq s.failed
  BY DEF Ledgers, AfterShared, Unavailable, Detectors, Patterns
<1>2. /\ p \in Ledgers /\ s.failed \subseteq p.failed
      /\ o.patterns = "raises" => Patterns \subseteq p.failed
  <2> HIDE DEF s
  <2>1. CASE o.patterns = "raises"
    BY <1>1, <2>1 DEF AfterPatterns, Fail, Start, Ledgers, Detectors, Patterns
  <2>2. CASE o.patterns = "slow"
    BY <1>1, <2>2 DEF AfterPatterns, Timeout, Start, Ledgers, Detectors, Patterns
  <2>3. CASE o.patterns \notin {"raises", "slow"}
    <3>1. p = Start(s, Patterns)
      BY <2>3 DEF AfterPatterns
    <3>2. QED
      BY <1>1, <2>3, <3>1 DEF Start, Ledgers, Detectors, Patterns
  <2>4. QED
    BY <2>1, <2>2, <2>3
<1>3. /\ y \in Ledgers /\ p.failed \subseteq y.failed
      /\ o.own \in {"raises", "unavailable"} => "spacy" \in y.failed
  <2> HIDE DEF p
  <2>1. CASE o.own = "unavailable"
    BY <1>2, <2>1 DEF AfterSpacy, Unavailable, Ledgers, Detectors, Patterns
  <2>2. CASE o.own = "raises"
    BY <1>2, <2>2 DEF AfterSpacy, Fail, Start, Ledgers, Detectors, Patterns
  <2>3. CASE o.own = "slow"
    BY <1>2, <2>3 DEF AfterSpacy, Timeout, Start, Ledgers, Detectors, Patterns
  <2>4. CASE o.own \notin {"unavailable", "raises", "slow"}
    <3>1. y = Start(p, {"spacy"})
      BY <2>4 DEF AfterSpacy
    <3>2. QED
      BY <1>2, <2>4, <3>1 DEF Start, Ledgers, Detectors, Patterns
  <2>5. QED
    BY <2>1, <2>2, <2>3, <2>4
<1>4. CASE blank
  BY <1>1, <1>4 DEF Report
<1>5. CASE ~blank
  <2>1. Report(l, o, blank) = y
    BY <1>5 DEF Report
  <2> HIDE DEF s, p, y
  <2>2. o.patterns # "missing"
    BY <1>5 DEF Escapes
  <2>3. ASSUME NEW d \in Detectors \ y.failed PROVE d \in Ran(o)
    <3>1. CASE d \in Patterns
      <4>1. o.patterns \in {"ok", "slow"}
        BY <1>2, <1>3, <2>2, <2>3, <3>1 DEF Outcomes
      <4>2. QED
        BY <3>1, <4>1 DEF Ran
    <3>2. CASE d = "spacy"
      <4>1. o.own \in {"given", "ok", "slow"}
        BY <1>3, <2>3, <3>2 DEF Outcomes
      <4>2. QED
        BY <3>2, <4>1 DEF Ran
    <3>3. QED
      BY <2>3, <3>1, <3>2 DEF Detectors
  <2>4. QED
    BY <1>1, <1>2, <1>3, <2>1, <2>3
<1>6. QED
  BY <1>4, <1>5

-----------------------------------------------------------------------------
LEMMA InitIsGood == Init => IInv
<1> SUFFICES ASSUME Init PROVE IInv
  OBVIOUS
<1> USE ValuesAssumption, NAssumption, RequiredAssumption DEF Init
<1>1. request \in Requests
  BY AskedAssumption
<1>2. TypeOK
  BY <1>1 DEF TypeOK, Ledgers, Requests, Results
<1>3. Accounted
  BY DEF Accounted
<1>4. Gated /\ GatesHold /\ AuditedOrWarned
  BY DEF Gated, Undecided, GatesHold, AuditedOrWarned
<1>5. QED
  BY <1>2, <1>3, <1>4 DEF IInv

\* A complete ledger has seen the last chunk, so the accounted chunks are all.
LEMMA CompleteMeansInspected == TypeOK /\ Accounted => CoverageIsTrue
<1> SUFFICES ASSUME TypeOK, Accounted, IsComplete(ledger),
                    NEW c \in Chunks, NEW d \in Required
             PROVE  <<c, d>> \in inspected
  BY DEF CoverageIsTrue
<1>1. d \in Detectors \ ledger.failed
  BY RequiredAssumption DEF IsComplete, Healthy
<1>2. c \in 1..ledger.chunks
  BY NAssumption DEF IsComplete, Total, Chunks, TypeOK, Ledgers
<1>3. QED
  BY <1>1, <1>2 DEF Accounted

\* What EndAudited makes of a call that nothing was written for yet.
LEMMA EndKeepsTrail ==
    ASSUME Undecided, NEW r \in Results, EndAudited(r),
           r.artifact \/ r.refusal \in
               {"DEGRADED_COVERAGE", "BLOCKED_ARTIFACT", "RESIDUAL_PII_DETECTED"}
    PROVE  /\ step' = "returned" /\ audited' \in {0, 1} /\ result' \in Results
           /\ result'.refusal = r.refusal /\ result'.artifact = r.artifact
           /\ AuditedOrWarned'
<1>1. step' = "returned" /\ audited = 0
  BY DEF EndAudited, Undecided
<1>2. CASE audited' = audited + 1 /\ result' = r
  BY <1>1, <1>2 DEF AuditedOrWarned
<1>3. CASE audited' \in {audited, audited + 1} /\ result' = [r EXCEPT !.warned = TRUE]
  <2>1. /\ result'.refusal = r.refusal /\ result'.artifact = r.artifact
        /\ result'.warned /\ result' \in Results
    BY <1>3 DEF Results
  <2>2. QED
    BY <1>1, <1>3, <2>1 DEF AuditedOrWarned
<1>4. QED
  BY <1>2, <1>3 DEF EndAudited

LEMMA StepIsGood == IInv /\ [Next]_vars => IInv'
<1> SUFFICES ASSUME IInv, [Next]_vars PROVE IInv'
  OBVIOUS
<1> USE NAssumption, RequiredAssumption
<1>1. CASE ScanChunk
  <2> DEFINE c == ledger.chunks + 1
  <2> DEFINE blank == c \in request.blank
  <2>1. PICK o \in Outcomes :
           /\ Possible(o, Faults)
           /\ loaded' = Loads(o)
           /\ IF Escapes(o, blank)
              THEN /\ step' = "raised"
                   /\ UNCHANGED <<ledger, inspected, overran, found>>
              ELSE /\ ledger' = [Report(ledger, o, blank) EXCEPT !.chunks = c]
                   /\ inspected' = inspected \cup
                          ({c} \X (IF blank THEN Passes ELSE Ran(o)))
                   /\ overran' = overran \cup (IF blank THEN {} ELSE Slow(o))
                   /\ found' = found \cup
                          {v \in request.present :
                              ChunkOf[v] = c /\ PassOf[v] \in Ran(o)}
                   /\ UNCHANGED step
    BY <1>1 DEF ScanChunk
  <2>2. /\ UNCHANGED <<request, remaining, rechecked, result, audited>>
        /\ step = "scanning" /\ ledger.chunks < N
    BY <1>1 DEF ScanChunk
  <2>3. ledger \in Ledgers /\ c \in Chunks
    BY <2>2 DEF IInv, TypeOK, Ledgers, Chunks
  <2>4. loaded' \subseteq {"presidio", "spacy"}
    BY <2>1 DEF IInv, TypeOK, Loads
  <2>5. Gated' /\ GatesHold' /\ AuditedOrWarned'
    BY <2>1, <2>2 DEF IInv, Gated, Undecided, GatesHold, AuditedOrWarned
  <2>6. CASE Escapes(o, blank)
    <3>1. TypeOK'
      BY <2>1, <2>2, <2>4, <2>6 DEF IInv, TypeOK
    <3>2. Accounted'
      <4>1. ledger' = ledger /\ inspected' = inspected
        BY <2>1, <2>6
      <4>2. QED
        BY <4>1 DEF IInv, Accounted
    <3>3. QED
      BY <2>2, <2>5, <3>1, <3>2 DEF IInv
  <2>7. CASE ~Escapes(o, blank)
    <3> DEFINE new == Report(ledger, o, blank)
    <3>1. /\ new \in Ledgers
          /\ ledger.failed \subseteq new.failed
          /\ ~blank => Detectors \ new.failed \subseteq Ran(o)
      <4>1. blank \in BOOLEAN
        OBVIOUS
      <4> HIDE DEF blank
      <4>2. QED
        BY <2>3, <2>7, <4>1, ReportKeepsFailures
    <3>2. Ran(o) \subseteq Passes /\ Slow(o) \subseteq Detectors
      BY DEF Ran, Slow, Passes, Detectors, Patterns
    <3> HIDE DEF new, blank
    <3>3. /\ ledger' = [new EXCEPT !.chunks = c]
          /\ inspected' = inspected \cup ({c} \X (IF blank THEN Passes ELSE Ran(o)))
      BY <2>1, <2>7 DEF new, blank
    <3>4. /\ ledger' \in Ledgers
          /\ ledger'.failed = new.failed /\ ledger'.chunks = c
      BY <2>3, <3>1, <3>3 DEF Ledgers, Chunks
    <3>5. TypeOK'
      <4>1. inspected' \subseteq Chunks \X Passes
        BY <2>3, <3>2, <3>3 DEF IInv, TypeOK
      <4>2. overran' \subseteq Detectors
        BY <2>1, <2>7, <3>2 DEF IInv, TypeOK
      <4>3. found' \subseteq request'.present
        BY <2>1, <2>2, <2>7 DEF IInv, TypeOK
      <4>4. QED
        BY <2>1, <2>2, <2>4, <2>7, <3>4, <4>1, <4>2, <4>3 DEF IInv, TypeOK
    <3>6. Accounted'
      <4> SUFFICES ASSUME NEW d \in Detectors \ ledger'.failed,
                          NEW k \in 1..ledger'.chunks
                   PROVE  <<k, d>> \in inspected'
        BY DEF Accounted
      <4>1. CASE k = c
        <5>1. d \in (IF blank THEN Passes ELSE Ran(o))
          BY <3>1, <3>4 DEF Passes
        <5>2. QED
          BY <3>3, <4>1, <5>1
      <4>2. CASE k # c
        <5>1. k \in 1..ledger.chunks
          BY <2>3, <3>4, <4>2 DEF Ledgers
        <5>2. d \in Detectors \ ledger.failed
          BY <3>1, <3>4
        <5>3. QED
          BY <3>3, <5>1, <5>2 DEF IInv, Accounted
      <4>3. QED
        BY <4>1, <4>2
    <3>7. QED
      BY <2>2, <2>5, <3>5, <3>6 DEF IInv
  <2>8. QED
    BY <2>6, <2>7
<1>2. CASE ScanBlank
  <2>1. request.present = {}
    BY <1>2, ValuesAssumption, AskedAssumption DEF IInv, ScanBlank, Total, Requests
  <2>2. found = {}
    BY <2>1 DEF IInv, TypeOK
  <2>3. TypeOK' /\ Accounted'
    BY <1>2 DEF IInv, ScanBlank, TypeOK, Accounted
  <2>4. Gated' /\ GatesHold' /\ AuditedOrWarned'
    BY <1>2, <2>2, AskedAssumption
    DEF IInv, ScanBlank, Gated, Undecided, GatesHold, AuditedOrWarned, NeedsDestination, Requests
  <2>5. QED
    BY <1>2, <2>3, <2>4 DEF IInv, ScanBlank
<1>3. CASE FinishScan
  <2>1. ledger' \in Ledgers /\ ledger'.failed = ledger.failed
        /\ ledger'.chunks = ledger.chunks
    BY <1>3 DEF FinishScan, IInv, TypeOK, Ledgers
  <2>2. IsComplete(ledger') \in BOOLEAN
    BY DEF IsComplete
  <2>3. TypeOK'
    BY <1>3, <2>1, <2>2 DEF FinishScan, IInv, TypeOK, Results
  <2>4. Accounted'
    BY <1>3, <2>1 DEF FinishScan, IInv, Accounted
  <2>5. /\ ~result'.artifact /\ ~result'.verified /\ ~result'.warned /\ audited' = 0
        /\ result'.refusal \in {"NEEDS_DESTINATION", "none"}
    BY <1>3 DEF FinishScan, IInv, TypeOK, Results, Gated, Undecided
  <2>6. step' \in {"returned", "gates"}
    BY <1>3 DEF FinishScan
  <2>7. step' = "gates" => /\ result'.refusal = "none"
                           /\ request'.mode = "scrub" /\ ~NeedsDestination'
    BY <1>3 DEF FinishScan, IInv, TypeOK, Results, Requests, NeedsDestination
  <2>8. QED
    BY <1>3, <2>3, <2>4, <2>5, <2>6, <2>7
    DEF FinishScan, IInv, Gated, Undecided, GatesHold, AuditedOrWarned
<1>4. CASE RefuseDegraded
  <2> DEFINE r == [result EXCEPT !.refusal = "DEGRADED_COVERAGE", !.unverified = TRUE]
  <2>1. Undecided /\ EndAudited(r)
    BY <1>4 DEF RefuseDegraded, IInv, Gated
  <2>2. r \in Results /\ ~r.artifact /\ r.refusal = "DEGRADED_COVERAGE"
    BY <2>1 DEF IInv, TypeOK, Results, Undecided
  <2> HIDE DEF r
  <2>3. /\ step' = "returned" /\ audited' \in {0, 1} /\ result' \in Results
        /\ ~result'.artifact /\ AuditedOrWarned'
    BY <2>1, <2>2, EndKeepsTrail
  <2>4. TypeOK' /\ Accounted'
    BY <1>4, <2>3 DEF RefuseDegraded, IInv, TypeOK, Accounted
  <2>5. QED
    BY <1>4, <2>3, <2>4 DEF RefuseDegraded, IInv, Gated, GatesHold
<1>5. CASE EndDryRun
  BY <1>5 DEF EndDryRun, IInv, TypeOK, Accounted, Gated, Undecided, GatesHold, AuditedOrWarned
<1>6. CASE RefuseBlocked
  <2> DEFINE r == [result EXCEPT !.refusal = "BLOCKED_ARTIFACT"]
  <2>1. Undecided /\ EndAudited(r)
    BY <1>6 DEF RefuseBlocked, IInv, Gated
  <2>2. r \in Results /\ ~r.artifact /\ r.refusal = "BLOCKED_ARTIFACT"
    BY <2>1 DEF IInv, TypeOK, Results, Undecided
  <2> HIDE DEF r
  <2>3. /\ step' = "returned" /\ audited' \in {0, 1} /\ result' \in Results
        /\ ~result'.artifact /\ AuditedOrWarned'
    BY <2>1, <2>2, EndKeepsTrail
  <2>4. TypeOK' /\ Accounted'
    BY <1>6, <2>3 DEF RefuseBlocked, IInv, TypeOK, Accounted
  <2>5. QED
    BY <1>6, <2>3, <2>4 DEF RefuseBlocked, IInv, Gated, GatesHold
<1>7. CASE ApplyDecisions
  <2>1. TypeOK' /\ Accounted'
    BY <1>7 DEF ApplyDecisions, IInv, TypeOK, Accounted
  <2>2. Gated'
    BY <1>7 DEF ApplyDecisions, IInv, Gated, Undecided, NeedsDestination, Blocked,
                IsComplete, Total, Healthy
  <2>3. GatesHold' /\ AuditedOrWarned'
    BY <1>7 DEF ApplyDecisions, IInv, Gated, Undecided, GatesHold, AuditedOrWarned
  <2>4. QED
    BY <1>7, <2>1, <2>2, <2>3 DEF ApplyDecisions, IInv
<1>8. CASE Verify
  <2> DEFINE R(o) == IF Residual(o) THEN [result EXCEPT !.refusal = "RESIDUAL_PII_DETECTED"]
                     ELSE [result EXCEPT !.verified = TRUE, !.artifact = TRUE]
  <2>1. PICK o \in Outcomes :
           /\ loaded' = Loads(o)
           /\ IF Escapes(o, FALSE)
              THEN step' = "raised" /\ UNCHANGED <<rechecked, result, audited>>
              ELSE rechecked' = Ran(o) /\ EndAudited(R(o))
    BY <1>8 DEF Verify
  <2>2. /\ step = "verifying"
        /\ UNCHANGED <<request, ledger, inspected, overran, found, remaining>>
    BY <1>8 DEF Verify
  <2>3. loaded' \subseteq {"presidio", "spacy"} /\ Ran(o) \subseteq Passes
    BY <2>1 DEF IInv, TypeOK, Loads, Ran, Passes, Detectors, Patterns
  <2>4. /\ Undecided /\ request.mode = "scrub" /\ ~request.dryRun
        /\ ~Blocked /\ ~NeedsDestination /\ IsComplete(ledger)
    BY <2>2 DEF IInv, Gated
  <2>5. Accounted'
    BY <2>2 DEF IInv, Accounted
  <2>6. CASE Escapes(o, FALSE)
    <3>1. UNCHANGED <<rechecked, result, audited>> /\ step' = "raised"
      BY <2>1, <2>6
    <3>2. TypeOK'
      BY <2>2, <2>3, <3>1 DEF IInv, TypeOK
    <3>3. Gated' /\ GatesHold' /\ AuditedOrWarned'
      BY <2>4, <3>1 DEF Gated, Undecided, GatesHold, AuditedOrWarned
    <3>4. QED
      BY <2>2, <2>5, <3>2, <3>3 DEF IInv
  <2>7. CASE ~Escapes(o, FALSE)
    <3>1. /\ R(o) \in Results
          /\ R(o).artifact \/ R(o).refusal = "RESIDUAL_PII_DETECTED"
          /\ R(o).artifact => ~Residual(o) /\ R(o).refusal = "none"
      BY <2>4 DEF IInv, TypeOK, Results, Undecided
    <3> HIDE DEF R
    <3>2. rechecked' = Ran(o) /\ EndAudited(R(o))
      BY <2>1, <2>7
    <3>3. /\ step' = "returned" /\ audited' \in {0, 1} /\ result' \in Results
          /\ result'.refusal = R(o).refusal /\ result'.artifact = R(o).artifact
          /\ AuditedOrWarned'
      BY <2>4, <3>1, <3>2, EndKeepsTrail
    <3>4. TypeOK'
      BY <2>2, <2>3, <3>2, <3>3 DEF IInv, TypeOK
    <3>5. GatesHold'
      <4> SUFFICES ASSUME result'.artifact PROVE GatesHold'
        BY DEF GatesHold
      <4>1. ~Residual(o) /\ result'.refusal = "none"
        BY <3>1, <3>3
      <4>2. \A c \in Chunks, d \in Required : <<c, d>> \in inspected'
        BY <2>2, <2>4, CompleteMeansInspected DEF IInv, CoverageIsTrue
      <4>3. request.destination \/ \A v \in found : TypeOf[v] \notin request.sensitive
        BY <2>4 DEF NeedsDestination
      <4>4. ASSUME NEW t \in ActionedTypes'
            PROVE  Cardinality(StillSeen(t)') <= Permitted(t)'
        <5> DEFINE S == {v \in Seen(o) : TypeOf[v] = t}
        <5>1. t \in ActionedTypes /\ Permitted(t)' = Permitted(t)
          BY <2>2, <4>4 DEF ActionedTypes, Permitted
        <5>2. StillSeen(t)' = S
          BY <2>2, <3>2 DEF StillSeen, Seen, TouchesMarker
        <5>3. S \in SUBSET Values
          BY AskedAssumption DEF Seen, IInv, TypeOK, Requests
        <5>4. Cardinality(S) \in Nat
          BY <5>3, ValuesAssumption, FS_Subset, FS_CardinalityType
        <5>5. Permitted(t) \in Nat
          <6> DEFINE P == {v \in found : TypeOf[v] = t /\ request.policy[v] = "ALLOW"}
          <6>1. P \in SUBSET Values
            BY AskedAssumption DEF IInv, TypeOK, Requests
          <6>2. Cardinality(P) \in Nat
            BY <6>1, ValuesAssumption, FS_Subset, FS_CardinalityType
          <6>3. QED
            BY <6>2 DEF Permitted
        <5>6. ~(Cardinality(S) > Permitted(t))
          BY <4>1, <5>1 DEF Residual
        <5> HIDE DEF S
        <5>7. Cardinality(S) <= Permitted(t)
          BY <5>4, <5>5, <5>6
        <5>8. QED
          BY <5>1, <5>2, <5>7
      <4>5. QED
        BY <2>2, <2>4, <4>1, <4>2, <4>3, <4>4 DEF GatesHold, Blocked
    <3>6. QED
      BY <2>2, <2>5, <3>3, <3>4, <3>5 DEF IInv, Gated
  <2>8. QED
    BY <2>6, <2>7
<1>9. CASE UNCHANGED vars
  <2>1. TypeOK' /\ Accounted'
    BY <1>9 DEF vars, IInv, TypeOK, Accounted
  <2>2. Gated'
    BY <1>9 DEF vars, IInv, Gated, Undecided, NeedsDestination, Blocked,
                IsComplete, Total, Healthy
  <2>3. /\ ActionedTypes' = ActionedTypes
        /\ \A t \in ActionedTypes : StillSeen(t)' = StillSeen(t) /\ Permitted(t)' = Permitted(t)
    BY <1>9 DEF vars, ActionedTypes, Permitted, StillSeen, TouchesMarker
  <2>4. GatesHold' /\ AuditedOrWarned'
    BY <1>9, <2>3 DEF vars, IInv, GatesHold, AuditedOrWarned
  <2>5. QED
    BY <1>9, <2>1, <2>2, <2>4 DEF vars, IInv
<1>10. QED
  BY <1>1, <1>2, <1>3, <1>4, <1>5, <1>6, <1>7, <1>8, <1>9 DEF Next

-----------------------------------------------------------------------------
LEMMA Inductive == Spec => []IInv
<1>1. QED
  BY InitIsGood, StepIsGood, PTL DEF Spec

\* Every reachable state of a scan or scrub has the types of ProcessingResult
\* and CoverageLedger (pipeline.py, coverage.py).
THEOREM TypeCorrect == Spec => []TypeOK
<1>1. IInv => TypeOK
  BY DEF IInv
<1>2. QED
  BY Inductive, <1>1, PTL

\* is_complete() answers True only when every required detector went through
\* every chunk to its end, for any mix of failures, recoveries, time-outs and
\* truncation (coverage.py, detector.py).
THEOREM CoverageNeverLies == Spec => []CoverageIsTrue
<1>1. IInv => CoverageIsTrue
  BY CompleteMeansInspected DEF IInv
<1>2. QED
  BY Inductive, <1>1, PTL

\* No artifact past any of the three gates of scrub() (pipeline.py): none of a
\* document a required detector did not go through, none against a BLOCK
\* decision or for an undecided destination, and none whose re-scan saw more of
\* a scrubbed type than policy lets stay.
THEOREM GatesNeverLeak == Spec => []GatesHold
<1>1. IInv => GatesHold
  BY DEF IInv
<1>2. QED
  BY Inductive, <1>1, PTL

\* Whatever append() does, an artifact or a refusal at a gate has its one audit
\* record or a warning that it is missing, and nothing else has one
\* (_write_audit and its callers in pipeline.py).
THEOREM OutcomesAreAudited == Spec => []AuditedOrWarned
<1>1. IInv => AuditedOrWarned
  BY DEF IInv
<1>2. QED
  BY Inductive, <1>1, PTL

-----------------------------------------------------------------------------
(* What the gates let through and what they keep back. *)

\* The ledger, read the other way: a detector that started and is not held for
\* failed or late is healthy, and what was looked at was found.
Recorded ==
    /\ ledger.timedOut \subseteq overran
    /\ inspected \subseteq (1..ledger.chunks) \X Passes
    /\ \A v \in request.present : <<ChunkOf[v], PassOf[v]>> \in inspected => v \in found
    /\ (1..ledger.chunks) \ request.blank # {} => Detectors \subseteq ledger.executed \cup ledger.failed
    /\ ledger.aborted => ledger.chunks < N /\ step # "scanning"

\* Once policy is applied, what stays is all but what it removes.
Removed ==
    /\ step \in {"scanning", "gates"} => remaining = request.present
    /\ step = "verifying" \/ result.artifact =>
          /\ remaining = request.present \ {v \in found : request.policy[v] = "REMOVE"}
          /\ ~Blocked

\* Each refusal has its reason.
Refused ==
    /\ result.refusal = "DEGRADED_COVERAGE" => ~IsComplete(ledger)
    /\ result.refusal = "RESIDUAL_PII_DETECTED" => found # request.present
    /\ step = "returned" /\ request.mode = "scrub" /\ ~request.dryRun =>
          result.artifact \/ result.refusal # "none"

Settled == Recorded /\ Removed /\ Refused

\* The detectors a ledger knows of.
Known(l) == l.executed \cup l.failed

\* What each report of a detector does to the ledger.
LEMMA EachReport ==
    ASSUME NEW l \in Ledgers, NEW D \in SUBSET Detectors
    PROVE  /\ Start(l, D) \in Ledgers /\ Known(Start(l, D)) = Known(l) \cup D
           /\ Start(l, D).timedOut = l.timedOut /\ Start(l, D).aborted = l.aborted
           /\ Fail(l, D) \in Ledgers /\ Known(Fail(l, D)) = Known(l) \cup D
           /\ Fail(l, D).timedOut = l.timedOut /\ Fail(l, D).aborted = l.aborted
           /\ Timeout(l, D) \in Ledgers /\ Known(Timeout(l, D)) = Known(l) \cup D
           /\ Timeout(l, D).timedOut = l.timedOut \cup D /\ Timeout(l, D).aborted = l.aborted
<1>1. /\ Start(l, D) \in Ledgers /\ Known(Start(l, D)) = Known(l) \cup D
      /\ Start(l, D).timedOut = l.timedOut /\ Start(l, D).aborted = l.aborted
  BY DEF Start, Known, Ledgers
<1>2. /\ Fail(l, D) \in Ledgers /\ Known(Fail(l, D)) = Known(l) \cup D
      /\ Fail(l, D).timedOut = l.timedOut /\ Fail(l, D).aborted = l.aborted
  BY DEF Fail, Start, Known, Ledgers
<1>3. /\ Timeout(l, D) \in Ledgers /\ Known(Timeout(l, D)) = Known(l) \cup D
      /\ Timeout(l, D).timedOut = l.timedOut \cup D /\ Timeout(l, D).aborted = l.aborted
  BY DEF Timeout, Start, Known, Ledgers
<1>4. QED
  BY <1>1, <1>2, <1>3

LEMMA SpacyMissing ==
    ASSUME NEW l \in Ledgers
    PROVE  LET u == Unavailable(l, "spacy")
           IN  /\ u \in Ledgers /\ Known(u) = Known(l) \cup {"spacy"}
               /\ u.timedOut = l.timedOut /\ u.aborted = l.aborted
BY DEF Unavailable, Known, Ledgers, Detectors

\* A report forgets no detector and, unless the chunk is blank, names them all;
\* what it holds for late was late.
LEMMA ReportNamesAll ==
    ASSUME NEW l \in Ledgers, NEW o \in Outcomes, NEW blank \in BOOLEAN
    PROVE  LET r == Report(l, o, blank)
           IN  /\ r \in Ledgers /\ Known(l) \subseteq Known(r) /\ r.aborted = l.aborted
               /\ ~blank => Detectors \subseteq Known(r)
               /\ r.timedOut \subseteq l.timedOut \cup (IF blank THEN {} ELSE Slow(o))
<1>1. PICK s, p, y :
         s = AfterShared(l, o) /\ p = AfterPatterns(s, o) /\ y = AfterSpacy(p, o)
  OBVIOUS
<1>2. Patterns \in SUBSET Detectors /\ {"spacy"} \in SUBSET Detectors
      /\ Detectors = Patterns \cup {"spacy"}
  BY DEF Detectors
<1>3. /\ s \in Ledgers /\ Known(l) \subseteq Known(s)
      /\ s.timedOut = l.timedOut /\ s.aborted = l.aborted
  <2>1. CASE o.shared = "unavailable"
    BY <1>1, <2>1, SpacyMissing DEF AfterShared
  <2>2. CASE o.shared # "unavailable"
    BY <1>1, <2>2 DEF AfterShared
  <2>3. QED
    BY <2>1, <2>2
<1>4. /\ p \in Ledgers /\ Known(p) = Known(s) \cup Patterns
      /\ p.aborted = s.aborted
      /\ p.timedOut = s.timedOut \/ (o.patterns = "slow" /\ p.timedOut = s.timedOut \cup Patterns)
  <2>1. PICK u : u = Start(s, Patterns)
    OBVIOUS
  <2>2. /\ u \in Ledgers /\ Known(u) = Known(s) \cup Patterns
        /\ u.timedOut = s.timedOut /\ u.aborted = s.aborted
    BY <1>2, <1>3, <2>1, EachReport
  <2>3. CASE o.patterns = "raises"
    BY <1>1, <1>2, <2>1, <2>2, <2>3, EachReport DEF AfterPatterns
  <2>4. CASE o.patterns = "slow"
    BY <1>1, <1>2, <2>1, <2>2, <2>4, EachReport DEF AfterPatterns
  <2>5. CASE o.patterns \notin {"raises", "slow"}
    <3>1. p = u
      BY <1>1, <2>1, <2>5 DEF AfterPatterns
    <3>2. QED
      BY <2>2, <3>1
  <2>6. QED
    BY <2>3, <2>4, <2>5
<1>5. /\ y \in Ledgers /\ Known(y) = Known(p) \cup {"spacy"}
      /\ y.aborted = p.aborted
      /\ y.timedOut = p.timedOut \/ (o.own = "slow" /\ y.timedOut = p.timedOut \cup {"spacy"})
  <2>1. PICK u : u = Start(p, {"spacy"})
    OBVIOUS
  <2>2. /\ u \in Ledgers /\ Known(u) = Known(p) \cup {"spacy"}
        /\ u.timedOut = p.timedOut /\ u.aborted = p.aborted
    BY <1>2, <1>4, <2>1, EachReport
  <2>3. CASE o.own = "unavailable"
    BY <1>1, <1>4, <2>3, SpacyMissing DEF AfterSpacy
  <2>4. CASE o.own = "raises"
    BY <1>1, <1>2, <2>1, <2>2, <2>4, EachReport DEF AfterSpacy
  <2>5. CASE o.own = "slow"
    BY <1>1, <1>2, <2>1, <2>2, <2>5, EachReport DEF AfterSpacy
  <2>6. CASE o.own \notin {"unavailable", "raises", "slow"}
    <3>1. y = u
      BY <1>1, <2>1, <2>6 DEF AfterSpacy
    <3>2. QED
      BY <2>2, <3>1
  <2>7. QED
    BY <2>3, <2>4, <2>5, <2>6
<1>6. CASE blank
  BY <1>1, <1>3, <1>6 DEF Report
<1>7. CASE ~blank
  <2>1. Report(l, o, blank) = y
    BY <1>1, <1>7 DEF Report
  <2>2. y.timedOut \subseteq l.timedOut \cup Slow(o)
    BY <1>3, <1>4, <1>5 DEF Slow
  <2>3. QED
    BY <1>2, <1>3, <1>4, <1>5, <1>7, <2>1, <2>2
<1>8. QED
  BY <1>6, <1>7

-----------------------------------------------------------------------------
LEMMA InitIsSettled == Init => Settled
<1> SUFFICES ASSUME Init PROVE Settled
  OBVIOUS
<1>1. ledger.chunks = 0 /\ ledger.timedOut = {} /\ inspected = {} /\ ~ledger.aborted
  BY DEF Init
<1>2. 1..0 = {}
  OBVIOUS
<1>3. QED
  BY <1>1, <1>2 DEF Init, Settled, Recorded, Removed, Refused

\* A value that is present stands in a chunk that is not blank.
LEMMA PresentIsNotBlank ==
    ASSUME IInv, NEW v \in request.present
    PROVE  /\ v \in Values /\ ChunkOf[v] \in Chunks \ request.blank
           /\ PassOf[v] \in Passes /\ request.policy[v] \in Actions
BY ValuesAssumption, AskedAssumption DEF IInv, TypeOK, Requests

LEMMA ScanSettles == ASSUME IInv, Settled, ScanChunk PROVE Settled'
<1>1. PICK c, blank : c = ledger.chunks + 1 /\ blank = (c \in request.blank)
  OBVIOUS
<1>2. PICK o \in Outcomes :
         IF Escapes(o, blank)
         THEN step' = "raised" /\ UNCHANGED <<ledger, inspected, overran, found>>
         ELSE /\ ledger' = [Report(ledger, o, blank) EXCEPT !.chunks = c]
              /\ inspected' = inspected \cup ({c} \X (IF blank THEN Passes ELSE Ran(o)))
              /\ overran' = overran \cup (IF blank THEN {} ELSE Slow(o))
              /\ found' = found \cup
                     {v \in request.present : ChunkOf[v] = c /\ PassOf[v] \in Ran(o)}
              /\ UNCHANGED step
  BY <1>1 DEF ScanChunk
<1>3. /\ step = "scanning" /\ UNCHANGED <<request, remaining, rechecked, result, audited>>
      /\ ledger \in Ledgers /\ ledger.chunks \in Nat
  BY DEF ScanChunk, IInv, TypeOK, Ledgers
<1>4. Undecided /\ remaining = request.present
  BY <1>3 DEF IInv, Gated, Settled, Removed
<1>5. step' \in {"scanning", "raised"}
  BY <1>2, <1>3
<1>6. Removed' /\ Refused'
  BY <1>3, <1>4, <1>5 DEF Removed, Refused, Undecided
<1>7. CASE Escapes(o, blank)
  <2>1. step' = "raised" /\ UNCHANGED <<ledger, inspected, overran, found>>
    BY <1>2, <1>7
  <2>2. Recorded'
    BY <1>3, <2>1 DEF Settled, Recorded
  <2>3. QED
    BY <1>6, <2>2 DEF Settled
<1>8. CASE ~Escapes(o, blank)
  <2>1. PICK r : r = Report(ledger, o, blank)
    OBVIOUS
  <2>2. /\ r \in Ledgers /\ Known(ledger) \subseteq Known(r) /\ r.aborted = ledger.aborted
        /\ ~blank => Detectors \subseteq Known(r)
        /\ r.timedOut \subseteq ledger.timedOut \cup (IF blank THEN {} ELSE Slow(o))
    <3>1. blank \in BOOLEAN
      BY <1>1
    <3>2. QED
      BY <1>3, <2>1, <3>1, ReportNamesAll
  <2>3. /\ ledger' = [r EXCEPT !.chunks = c] /\ step' = step
        /\ inspected' = inspected \cup ({c} \X (IF blank THEN Passes ELSE Ran(o)))
        /\ overran' = overran \cup (IF blank THEN {} ELSE Slow(o))
        /\ found' = found \cup {v \in request.present : ChunkOf[v] = c /\ PassOf[v] \in Ran(o)}
    BY <1>2, <1>8, <2>1
  <2>4. /\ ledger'.timedOut = r.timedOut /\ ledger'.chunks = c /\ ledger'.aborted = r.aborted
        /\ ledger'.executed = r.executed /\ ledger'.failed = r.failed
    BY <2>2, <2>3 DEF Ledgers
  <2>5. ledger'.timedOut \subseteq overran'
    BY <2>2, <2>3, <2>4 DEF Settled, Recorded
  <2>6. inspected' \subseteq (1..ledger'.chunks) \X Passes
    <3>1. (IF blank THEN Passes ELSE Ran(o)) \subseteq Passes
      BY DEF Ran, Passes, Detectors, Patterns
    <3>2. 1..ledger.chunks \subseteq 1..c /\ c \in 1..c
      BY <1>1, <1>3
    <3>3. QED
      BY <2>3, <2>4, <3>1, <3>2 DEF Settled, Recorded
  <2>7. ASSUME NEW v \in request.present, <<ChunkOf[v], PassOf[v]>> \in inspected'
        PROVE  v \in found'
    <3>1. CASE <<ChunkOf[v], PassOf[v]>> \in inspected
      BY <2>3, <3>1 DEF Settled, Recorded
    <3>2. CASE <<ChunkOf[v], PassOf[v]>> \in {c} \X (IF blank THEN Passes ELSE Ran(o))
      <4>1. ChunkOf[v] = c /\ ~blank
        BY <1>1, <3>2, PresentIsNotBlank
      <4>2. QED
        BY <2>3, <3>2, <4>1
    <3>3. QED
      BY <2>3, <2>7, <3>1, <3>2
  <2>8. (1..ledger'.chunks) \ request.blank # {} => Detectors \subseteq Known(ledger')
    <3>1. Known(ledger') = Known(r)
      BY <2>4 DEF Known
    <3>2. \A k \in 1..c : k # c => k \in 1..ledger.chunks
      BY <1>1, <1>3
    <3>3. (1..ledger.chunks) \ request.blank # {} => Detectors \subseteq Known(ledger)
      BY DEF Settled, Recorded, Known
    <3>4. QED
      BY <1>1, <2>2, <2>4, <3>1, <3>2, <3>3
  <2>9. ~ledger'.aborted
    BY <1>3, <2>2, <2>4 DEF Settled, Recorded
  <2>10. Recorded'
    BY <1>3, <2>5, <2>6, <2>7, <2>8, <2>9 DEF Recorded, Known
  <2>11. QED
    BY <1>6, <2>10 DEF Settled
<1>9. QED
  BY <1>7, <1>8

\* A set of values of one type, all of which policy allows, is not residual.
LEMMA AllowedIsNotResidual ==
    ASSUME IInv, Settled, step = "verifying", found = request.present, NEW o \in Outcomes
    PROVE  ~Residual(o)
<1> SUFFICES ASSUME NEW t \in ActionedTypes,
                    Cardinality({v \in Seen(o) : TypeOf[v] = t}) > Permitted(t)
             PROVE  FALSE
  BY DEF Residual
<1>1. PICK S, T : /\ S = {v \in Seen(o) : TypeOf[v] = t}
                  /\ T = {v \in found : TypeOf[v] = t /\ request.policy[v] = "ALLOW"}
  OBVIOUS
<1>2. S \in SUBSET T
  BY <1>1, PresentIsNotBlank DEF Settled, Removed, Seen, Blocked, Actions
<1>3. T \in SUBSET Values
  BY <1>1, PresentIsNotBlank
<1>4. IsFiniteSet(T)
  BY <1>3, ValuesAssumption, FS_Subset
<1>5. /\ Cardinality(S) <= Cardinality(T)
      /\ Cardinality(S) \in Nat /\ Cardinality(T) \in Nat
  BY <1>2, <1>4, FS_Subset, FS_CardinalityType
<1>6. QED
  BY <1>1, <1>5 DEF Permitted

LEMMA VerifySettles == ASSUME IInv, Settled, Verify PROVE Settled'
<1>1. PICK o \in Outcomes :
         IF Escapes(o, FALSE)
         THEN step' = "raised" /\ UNCHANGED <<rechecked, result, audited>>
         ELSE EndAudited(IF Residual(o)
                         THEN [result EXCEPT !.refusal = "RESIDUAL_PII_DETECTED"]
                         ELSE [result EXCEPT !.verified = TRUE, !.artifact = TRUE])
  BY DEF Verify
<1>2. /\ step = "verifying"
      /\ UNCHANGED <<request, ledger, inspected, overran, found, remaining>>
  BY DEF Verify
<1>3. Undecided /\ step' \in {"raised", "returned"}
  BY <1>1, <1>2 DEF IInv, Gated, EndAudited
<1>4. Recorded'
  BY <1>2, <1>3 DEF Settled, Recorded
<1>5. Removed'
  BY <1>2, <1>3 DEF Settled, Removed, Blocked
<1>6. Refused'
  <2>1. CASE Escapes(o, FALSE)
    BY <1>1, <1>2, <1>3, <2>1 DEF Refused, Undecided
  <2>2. CASE ~Escapes(o, FALSE) /\ Residual(o)
    <3>1. found # request.present
      BY <1>2, <2>2, AllowedIsNotResidual
    <3>2. result'.refusal = "RESIDUAL_PII_DETECTED" /\ result'.artifact = result.artifact
      BY <1>1, <2>2 DEF EndAudited, IInv, TypeOK, Results
    <3>3. QED
      BY <1>2, <3>1, <3>2 DEF Refused
  <2>3. CASE ~Escapes(o, FALSE) /\ ~Residual(o)
    <3>1. result'.artifact /\ result'.refusal = "none"
      BY <1>1, <1>3, <2>3 DEF EndAudited, IInv, TypeOK, Results, Undecided
    <3>2. QED
      BY <3>1 DEF Refused
  <2>4. QED
    BY <2>1, <2>2, <2>3
<1>7. QED
  BY <1>4, <1>5, <1>6 DEF Settled

LEMMA StepSettles == IInv /\ Settled /\ [Next]_vars => Settled'
<1> SUFFICES ASSUME IInv, Settled, [Next]_vars PROVE Settled'
  OBVIOUS
<1>1. CASE ScanBlank
  <2>1. UNCHANGED <<request, ledger, inspected, overran, found, remaining, result>>
        /\ step = "scanning" /\ Undecided
        /\ step' = IF request.mode = "scan" THEN "returned" ELSE "gates"
    BY <1>1 DEF ScanBlank, IInv, Gated
  <2>2. QED
    BY <2>1 DEF Settled, Recorded, Removed, Refused, Undecided
<1>2. CASE FinishScan
  <2>1. /\ step = "scanning" /\ Undecided /\ ledger \in Ledgers
        /\ ledger' = [ledger EXCEPT !.aborted = ledger.chunks < N /\ ~request.approved]
        /\ UNCHANGED <<request, inspected, overran, found, remaining>>
        /\ step' = IF request.mode = "scan" \/ NeedsDestination THEN "returned" ELSE "gates"
    BY <1>2 DEF FinishScan, IInv, Gated, TypeOK
  <2>2. /\ ledger'.timedOut = ledger.timedOut /\ ledger'.chunks = ledger.chunks
        /\ ledger'.executed = ledger.executed /\ ledger'.failed = ledger.failed
        /\ ledger'.aborted => ledger.chunks < N
    BY <2>1 DEF Ledgers
  <2>3. /\ result'.refusal = IF NeedsDestination THEN "NEEDS_DESTINATION" ELSE "none"
        /\ ~result'.artifact
    BY <1>2, <2>1 DEF FinishScan, IInv, TypeOK, Results, Undecided
  <2>4. Recorded'
    BY <2>1, <2>2 DEF Settled, Recorded
  <2>5. Removed'
    BY <2>1, <2>3 DEF Settled, Removed
  <2>6. Refused'
    BY <2>1, <2>3 DEF Refused
  <2>7. QED
    BY <2>4, <2>5, <2>6 DEF Settled
<1>3. CASE RefuseDegraded
  <2>1. /\ UNCHANGED <<request, ledger, inspected, overran, found, remaining>>
        /\ step = "gates" /\ step' = "returned" /\ ~IsComplete(ledger) /\ Undecided
        /\ result'.refusal = "DEGRADED_COVERAGE" /\ result'.artifact = result.artifact
    BY <1>3 DEF RefuseDegraded, EndAudited, IInv, Gated, TypeOK, Results
  <2>2. ~IsComplete(ledger)'
    BY <2>1 DEF IsComplete, Total, Healthy
  <2>3. QED
    BY <2>1, <2>2 DEF Settled, Recorded, Removed, Refused, Undecided
<1>4. CASE RefuseBlocked
  <2>1. /\ UNCHANGED <<request, ledger, inspected, overran, found, remaining>>
        /\ step = "gates" /\ step' = "returned" /\ Undecided
        /\ result'.refusal = "BLOCKED_ARTIFACT" /\ result'.artifact = result.artifact
    BY <1>4 DEF RefuseBlocked, EndAudited, IInv, Gated, TypeOK, Results
  <2>2. QED
    BY <2>1 DEF Settled, Recorded, Removed, Refused, Undecided
<1>5. CASE EndDryRun
  <2>1. /\ UNCHANGED <<request, ledger, inspected, overran, found, remaining, result>>
        /\ step = "gates" /\ step' = "returned" /\ Undecided /\ request.dryRun
    BY <1>5 DEF EndDryRun, IInv, Gated
  <2>2. QED
    BY <2>1 DEF Settled, Recorded, Removed, Refused, Undecided
<1>6. CASE ApplyDecisions
  <2>1. /\ UNCHANGED <<request, ledger, inspected, overran, found, result>>
        /\ step = "gates" /\ step' = "verifying" /\ Undecided /\ ~Blocked
        /\ remaining' = remaining \ {v \in found : request.policy[v] = "REMOVE"}
    BY <1>6 DEF ApplyDecisions, IInv, Gated
  <2>2. ~Blocked'
    BY <2>1 DEF Blocked
  <2>3. QED
    BY <2>1, <2>2 DEF Settled, Recorded, Removed, Refused, Undecided
<1>7. CASE UNCHANGED vars
  <2>1. UNCHANGED <<request, ledger, inspected, overran, found, remaining, result, step>>
    BY <1>7 DEF vars
  <2>2. Blocked' = Blocked /\ IsComplete(ledger)' = IsComplete(ledger)
    BY <2>1 DEF Blocked, IsComplete, Total, Healthy
  <2>3. QED
    BY <2>1, <2>2 DEF Settled, Recorded, Removed, Refused
<1>8. QED
  BY <1>1, <1>2, <1>3, <1>4, <1>5, <1>6, <1>7, ScanSettles, VerifySettles DEF Next

LEMMA SettledHolds == Spec => [](IInv /\ Settled)
BY InitIsGood, StepIsGood, InitIsSettled, StepSettles, PTL DEF Spec

\* The gates refuse nothing they should let pass: where the scan missed nothing
\* and nothing failed, a whole document is scrubbed of exactly what policy
\* removes, for every document and policy, also beside a replacement
\* (pipeline.py, coverage.py, verifier.py).
THEOREM CleanScrubsPublish == Spec => []CleanScrubPublishes
<1>1. IInv /\ Settled => CleanScrubPublishes
  <2> SUFFICES ASSUME IInv, Settled,
                      step = "returned", request.mode = "scrub", ~request.dryRun,
                      Total > 0, Chunks \X Passes \subseteq inspected, overran = {},
                      ledger.failed = {},
                      result.refusal \notin {"NEEDS_DESTINATION", "BLOCKED_ARTIFACT"}
               PROVE  /\ result.artifact
                      /\ remaining = {v \in request.present : request.policy[v] = "ALLOW"}
    BY DEF CleanScrubPublishes
  <2>1. found = request.present
    <3>1. \A v \in request.present : <<ChunkOf[v], PassOf[v]>> \in Chunks \X Passes
      BY PresentIsNotBlank
    <3>2. QED
      BY <3>1 DEF Settled, Recorded, IInv, TypeOK
  <2>2. ledger.chunks >= N /\ ledger.chunks \in 0..N
    <3>1. "second" \in Passes /\ N \in Chunks
      BY NAssumption DEF Passes, Chunks
    <3>2. <<N, "second">> \in inspected
      BY <3>1
    <3>3. N \in 1..ledger.chunks
      BY <3>2 DEF Settled, Recorded
    <3>4. QED
      BY <3>3, NAssumption DEF IInv, TypeOK, Ledgers
  <2>3. ~ledger.aborted
    BY <2>2, NAssumption DEF Settled, Recorded
  <2>4. Required \subseteq Healthy(ledger)
    <3>1. request.blank # Chunks /\ Total = N
      BY DEF Total
    <3>2. request.blank \subseteq Chunks
      BY DEF IInv, TypeOK, Requests
    <3>3. Chunks \ request.blank # {}
      BY <3>1, <3>2
    <3>4. ledger.chunks = N
      BY <2>2, NAssumption
    <3>5. Detectors \subseteq ledger.executed
      BY <3>3, <3>4 DEF Chunks, Settled, Recorded
    <3>6. ledger.timedOut = {}
      BY DEF Settled, Recorded
    <3>7. QED
      BY <3>5, <3>6, RequiredAssumption DEF Healthy
  <2>5. IsComplete(ledger)
    BY <2>2, <2>3, <2>4, NAssumption DEF IsComplete, Total
  <2>6. result.artifact
    BY <2>1, <2>5 DEF Settled, Refused, IInv, TypeOK, Results
  <2>7. \A v \in request.present : request.policy[v] \in {"ALLOW", "REMOVE"}
    BY <2>1, <2>6, PresentIsNotBlank DEF Settled, Removed, Blocked, Actions
  <2>8. QED
    BY <2>1, <2>6, <2>7 DEF Settled, Removed
<1>2. QED
  BY <1>1, SettledHolds, PTL

-----------------------------------------------------------------------------
\* What the re-scan lets through, when all of its passes worked.
LEMMA RescanCatches ==
    ASSUME Abuts = {}, IInv, Settled, step = "verifying", NEW o \in Outcomes,
           Passes \subseteq Ran(o), ~Residual(o), NEW v \in remaining, TypeOf[v] \in ActionedTypes
    PROVE  request.policy[v] = "ALLOW"
<1> DEFINE t == TypeOf[v]
           S == {u \in Seen(o) : TypeOf[u] = t}
           T == {u \in found : TypeOf[u] = t /\ request.policy[u] = "ALLOW"}
<1>1. Seen(o) = remaining
  <2>1. remaining \subseteq request.present
    BY DEF IInv, TypeOK
  <2>2. QED
    BY <2>1, PresentIsNotBlank DEF Seen, TouchesMarker
<1>2. T \in SUBSET S
  BY <1>1 DEF Settled, Removed, IInv, TypeOK
<1>3. IsFiniteSet(S)
  <2>1. S \in SUBSET Values
    BY <1>1, PresentIsNotBlank DEF IInv, TypeOK
  <2>2. QED
    BY <2>1, ValuesAssumption, FS_Subset
<1>4. /\ Cardinality(T) <= Cardinality(S)
      /\ Cardinality(S) \in Nat /\ Cardinality(T) \in Nat
      /\ Cardinality(S) = Cardinality(T) => S = T
  BY <1>2, <1>3, FS_Subset, FS_CardinalityType
<1>5. ~(Cardinality(S) > Cardinality(T))
  BY DEF Residual, Permitted
<1>6. S = T
  BY <1>4, <1>5
<1>7. QED
  BY <1>1, <1>6

\* Nothing but the re-scan makes an artifact, and after it nothing changes.
LEMMA StepKeepsNoSurvivor ==
    ASSUME Abuts = {}, IInv, Settled, NoActionedSurvivor, [Next]_vars
    PROVE  NoActionedSurvivor'
<1>1. CASE Verify
  <2>1. PICK o \in Outcomes :
           IF Escapes(o, FALSE)
           THEN UNCHANGED <<rechecked, result>>
           ELSE /\ rechecked' = Ran(o)
                /\ EndAudited(IF Residual(o)
                              THEN [result EXCEPT !.refusal = "RESIDUAL_PII_DETECTED"]
                              ELSE [result EXCEPT !.verified = TRUE, !.artifact = TRUE])
    BY <1>1 DEF Verify
  <2>2. /\ step = "verifying" /\ UNCHANGED <<request, found, remaining>> /\ ~result.artifact
    BY <1>1 DEF Verify, IInv, Gated, Undecided
  <2>3. result'.artifact => ~Escapes(o, FALSE) /\ ~Residual(o) /\ rechecked' = Ran(o)
    BY <2>1, <2>2 DEF EndAudited, IInv, TypeOK, Results
  <2>4. ActionedTypes' = ActionedTypes
    BY <2>2 DEF ActionedTypes
  <2>5. QED
    BY <2>2, <2>3, <2>4, RescanCatches DEF NoActionedSurvivor
<1>2. CASE ~Verify /\ ~UNCHANGED vars
  <2>1. step \in {"scanning", "gates"}
    BY <1>2 DEF Next, ScanChunk, ScanBlank, FinishScan, RefuseDegraded, EndDryRun,
                RefuseBlocked, ApplyDecisions
  <2>2. ~result.artifact
    BY <2>1 DEF IInv, Gated, Undecided
  <2>3. result'.artifact = result.artifact
    BY <1>2 DEF Next, ScanChunk, ScanBlank, FinishScan, RefuseDegraded, EndDryRun,
                RefuseBlocked, ApplyDecisions, EndAudited, IInv, TypeOK, Results
  <2>4. QED
    BY <2>2, <2>3 DEF NoActionedSurvivor
<1>3. CASE UNCHANGED vars
  BY <1>3 DEF vars, NoActionedSurvivor, ActionedTypes
<1>4. QED
  BY <1>1, <1>2, <1>3

\* Where no value stands right beside another, the re-scan makes up for what the
\* scan missed: when all its passes work, no value of a type that was scrubbed
\* stays in the artifact against policy (verify_sanitized of verifier.py).  Beside
\* a replacement it does not: _touches_marker drops what it finds there.
THEOREM SurvivorsAreCaught ==
    ASSUME Abuts = {}
    PROVE  Spec => []NoActionedSurvivor
<1>1. Init => NoActionedSurvivor
  BY DEF Init, NoActionedSurvivor
<1>2. Abuts = {} /\ (IInv /\ Settled) /\ NoActionedSurvivor /\ [Next]_vars => NoActionedSurvivor'
  BY StepKeepsNoSurvivor
<1>3. QED
  BY <1>1, <1>2, SettledHolds, PTL DEF Spec
=============================================================================
