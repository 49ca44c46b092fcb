---------------------------- MODULE Reconciler ----------------------------
(***************************************************************************)
(* core/reconciler.py: findings of several detectors that cover the same   *)
(* text are settled into the entities policy is applied to.                *)
(*                                                                         *)
(* A finding has a type, a span and the detectors that made it.  A score   *)
(* is calibrated unless spaCy alone found the entity, and an entity is     *)
(* flagged as base security when a security recognizer found it, so both   *)
(* follow from "by", also after merging.                                   *)
(***************************************************************************)
EXTENDS Spans

Findings(length) ==
    {e \in [type : Types, start : 0..length, end : 0..length,
            by : (SUBSET Detectors) \ {{}}] : e.start < e.end}

Calibrated(e) == e.by # {"spacy"}
Rank(e) == CHOOSE n \in {Precedence[d] : d \in e.by} :
               \A d \in e.by : Precedence[d] <= n

\* Mutant: length before credibility, as the code once had it.
PrecedenceKey_LongestFirst(e) ==
    <<e.end - e.start, IF e.type \in Backed THEN 1 ELSE 0, IF Calibrated(e) THEN 1 ELSE 0,
      Severity[e.type], Rank(e), NameOrder[e.type]>>

\* Credibility first: a passed checksum, a calibrated score, severity, then
\* length, the detector and the name.
PrecedenceKey(e) ==
    <<IF e.type \in Backed THEN 1 ELSE 0, IF Calibrated(e) THEN 1 ELSE 0,
      Severity[e.type], e.end - e.start, Rank(e), NameOrder[e.type]>>

\* Tuples are compared like Python compares them.
Weaker(e, f) ==
    LET k == PrecedenceKey(e)
        l == PrecedenceKey(f)
    IN \E i \in DOMAIN k : k[i] < l[i] /\ \A j \in 1..(i - 1) : k[j] = l[j]

MayNest(outer, inner) == Covers(outer, inner) /\ <<outer.type, inner.type>> \in Nestable

\* Findings of one type over one span count as one, made by all their detectors.
Merged(findings) ==
    {[e EXCEPT !.by = UNION {f.by : f \in {g \in findings :
                                  g.type = e.type /\ SameSpan(g, e)}}] : e \in findings}

\* What is left of a loser before or after its winners, if it is long enough to
\* be a value and not a label; separators at its end are dropped.
TrimAround(loser, winners, text) ==
    LET from == CHOOSE s \in {w.start : w \in winners} : \A w \in winners : s <= w.start
        to == CHOOSE e \in {w.end : w \in winners} : \A w \in winners : w.end <= e
        leading == from - loser.start
        trailing == loser.end - to
        before == leading >= trailing /\ leading >= MinTrim
        start == IF before THEN loser.start ELSE to
        solid == {i \in start..((IF before THEN from ELSE loser.end) - 1) :
                      text[i + 1] \notin StripChars}
        end == IF solid = {} THEN start
               ELSE 1 + CHOOSE i \in solid : \A j \in solid : j <= i
    IN IF /\ before \/ trailing >= MinTrim
          /\ end - start >= MinTrim
          /\ Cardinality({i \in solid : Folded(text[i + 1]) \in Alnum}) >= MinTrim
       THEN {[loser EXCEPT !.start = start, !.end = end]} ELSE {}

\* Mutant: a candidate is compared with one of the entities it overlaps.
Admit_OneConflict(kept, c, text) ==
    LET conflicting == {k \in kept : Overlaps(k, c)}
        first == CHOOSE k \in conflicting : \A j \in conflicting : k.start <= j.start
    IN IF \A k \in conflicting : MayNest(k, c) \/ MayNest(c, k) THEN kept \cup {c}
       ELSE IF Weaker(first, c)
            THEN (kept \ {first}) \cup TrimAround(first, {c}, text) \cup {c}
       ELSE kept \cup TrimAround(c, {first}, text)

\* One turn of the loop over the candidates: alone or nested it is kept; if it
\* beats all it overlaps they are trimmed or go; if it loses it is trimmed or
\* goes, and counts as corroboration where the spans are the same.
Admit(kept, c, text) ==
    LET conflicting == {k \in kept : Overlaps(k, c)}
        strongest == CHOOSE k \in conflicting : \A j \in conflicting : ~Weaker(k, j)
    IN IF \A k \in conflicting : MayNest(k, c) \/ MayNest(c, k) THEN kept \cup {c}
       ELSE IF Weaker(strongest, c)
            THEN (kept \ conflicting) \cup {c}
                 \cup UNION {TrimAround(k, {c}, text) : k \in conflicting}
       ELSE IF SameSpan(strongest, c)
            THEN (kept \ {strongest}) \cup {[strongest EXCEPT !.by = @ \cup c.by]}
       ELSE kept \cup TrimAround(c, conflicting, text)

\* Candidates come by position, the longest first.
ComesFirst(e, f) ==
    \/ e.start < f.start
    \/ e.start = f.start /\ e.end > f.end
    \/ SameSpan(e, f) /\ NameOrder[e.type] > NameOrder[f.type]

Reconcile(findings, text) ==
    LET merged == Merged(findings)
        candidates == InOrder(merged, {p \in merged \X merged : ComesFirst(p[1], p[2])})
        kept[i \in 0..Len(candidates)] ==
            IF i = 0 THEN {} ELSE Admit(kept[i - 1], candidates[i], text)
    IN kept[Len(candidates)]
=============================================================================
