------------------------------ MODULE DataPath ------------------------------
(***************************************************************************)
(* The way of a document through one scan_and_scrub (core/pipeline.py): it *)
(* is cut into chunks, each is searched, findings are taken to document    *)
(* offsets, filtered, reconciled, judged and applied, the text that is     *)
(* left is the artifact.  The session's token vault gives out tokens while *)
(* another thread may tear the session down.                               *)
(*                                                                         *)
(* ScrubPipeline models the failures of the same call; here every detector *)
(* works and the offsets are what matters.  An artifact is a sequence of   *)
(* the offsets that are left and of marks and tokens in between.           *)
(***************************************************************************)
EXTENDS Reconciler, Policy

CONSTANTS
    Families,       \* sets of calls: each a document with its settings
    Tokens,         \* surrogates the generator may draw, a range of integers
    NoTokens,       \* TOKENIZATION_PROHIBITED_TYPES
    LabelWidth,     \* width of a label like [REDACTED:US_SSN]
    FixedMask       \* _FIXED_MASK_WIDTH

VARIABLES
    case,       \* what was asked for
    stage, k,   \* where the call is, and its chunk
    profile,    \* the effective profile
    chunks, found, entities, todo,
    out,        \* the text so far
    vault,      \* [forward, seen] of the TokenVault
    minting,    \* tokenize() has found no token for this value, or has made one
    given,      \* every token given out: to which value, after how much teardown
    torn        \* steps of the teardown done: 0, 1 or 2

vars == <<case, stage, k, profile, chunks, found, entities, todo, out, vault,
          minting, given, torn>>

Plain(e) == [type |-> e.type, start |-> e.start, end |-> e.end, by |-> e.by]

\* What may be asked: any text with any patterns and guesses of the detectors,
\* under any directory of profiles.
Askable(call) ==
    LET doc == call.doc
    IN /\ doc.text \in Seq(Chars) /\ doc.size \in Nat
       /\ IsFiniteSet(doc.patterns) /\ IsFiniteSet(doc.noise)
       /\ \A p \in doc.patterns :
             p.type \in Types /\ p.text \in Seq(Chars) \ {<<>>} /\ p.by \in Detectors
       /\ \A e \in doc.noise : Plain(e) \in Findings(Len(doc.text))
       /\ IsFiniteSet(DOMAIN call.profiles) /\ DOMAIN call.profiles \subseteq ProfileNames
       /\ \A n \in DOMAIN call.profiles : call.profiles[n] \in Definitions(ProfileNames)
       /\ call.requested \in Seq(ProfileNames)
       /\ call.destination \in Destinations \cup {NoDestination}
       /\ call.request \in Actions \cup {NoRequest}

ASSUME DataPathAssumption ==
    /\ \A family \in Families : \A call \in family : Askable(call)
    /\ Tokens \subseteq Nat /\ NoTokens \subseteq Types
    /\ LabelWidth \in Nat \ {0} /\ FixedMask \in Nat \ {0}

Mark == -1
Surrogate(token) == -2 - token
Text == case.doc.text

\* A dictionary with one entry more.
Put(table, key, value) == [x \in DOMAIN table \cup {key} |-> IF x = key THEN value ELSE table[x]]

\* No token is being made.
None == [value |-> <<>>, token |-> Mark]

-----------------------------------------------------------------------------
Init ==
    /\ \E family \in Families : case \in family
    /\ stage = "resolve" /\ k = 1
    /\ profile = [ok |-> FALSE] /\ chunks = <<>>
    /\ found = {} /\ entities = {} /\ todo = <<>>
    /\ out = Offsets(case.doc.text)
    /\ vault = [forward |-> <<>>, seen |-> <<>>]
    /\ minting = None /\ given = {} /\ torn = 0

\* The profile decides how far chunks overlap.
Cut ==
    /\ stage = "resolve"
    /\ LET resolved == Resolve(case.profiles, case.requested)
       IN /\ profile' = resolved
          /\ IF resolved.ok
             THEN /\ chunks' = ChunkText(Text, PatternSpan(resolved.rules), case.doc.size)
                  /\ stage' = "detect"
             ELSE stage' = "refused" /\ UNCHANGED chunks
    /\ UNCHANGED <<case, k, found, entities, todo, out, vault, minting, given, torn>>

\* The first patterns in the normalized text of a chunk, and the second where
\* single characters stand apart.
Matches(chunk, first, second) ==
    LET plain == Normalize(SubSeq(Text, chunk.base + 1, chunk.end))
        closed == Collapse(plain.text)
        apart == Len(closed.text) < Len(plain.text)
        At(p, span, by) == [type |-> p.type, score |-> p.score, by |-> {by},
                            start |-> span.start, end |-> span.end]
    IN UNION ({{At(p, ToOriginal(plain.positions, s), p.by) : s \in Occurrences(p.text, plain.text)} :
                   p \in first}
              \cup {{At(p, ToOriginal(plain.positions, ToOriginal(closed.positions, s)), "presidio") :
                        s \in Occurrences(p.text, closed.text)} :
                   p \in {q \in second : apart}})

\* The second pass is for numbers with a checksum.
SpacedPatterns == {p \in case.doc.patterns : p.type \in SpacedPass}

Shifted(e, base) == [e EXCEPT !.start = @ + base, !.end = @ + base]

\* One chunk, with what is not found by a pattern where the chunk holds it
\* whole; offsets become those of the document.
Detect ==
    /\ stage = "detect"
    /\ LET chunk == chunks[k]
           matches == Matches(chunk, case.doc.patterns, SpacedPatterns)
       IN found' = found \cup {Shifted(e, chunk.base) : e \in matches}
                         \cup {e \in case.doc.noise : chunk.base <= e.start /\ e.end <= chunk.end}
    /\ IF k < Len(chunks) THEN k' = k + 1 /\ UNCHANGED stage
       ELSE stage' = "settle" /\ UNCHANGED k
    /\ UNCHANGED <<case, profile, chunks, entities, todo, out, vault, minting, given, torn>>

\* filter_by_profile.
Relevant(e) == Enabled(profile.rules, e.type) /\ e.score >= Threshold(profile.rules, e.type)

\* What the profile ignores is dropped before overlaps are settled.
Settle ==
    /\ stage = "settle"
    /\ entities' = Reconcile({Plain(e) : e \in {f \in found : Relevant(f)}}, Text)
    /\ stage' = "decide"
    /\ UNCHANGED <<case, k, profile, chunks, found, todo, out, vault, minting, given, torn>>

Action(e) == ResolveOne(profile.rules, e, e.start \in case.doc.exempt,
                        case.destination, case.request)

\* DecisionSet.actionable: by start offset, the last first; what starts at the
\* same place keeps the order of reconcile's result.
ActsBefore(e, f) ==
    \/ e.start > f.start
    \/ e.start = f.start /\ e.end < f.end
    \/ SameSpan(e, f) /\ NameOrder[e.type] > NameOrder[f.type]

Decide ==
    /\ stage = "decide"
    /\ IF \/ NeedsDestination(profile.rules, entities, case.destination)
          \/ \E e \in entities : Action(e) = "BLOCK"
       THEN stage' = "refused" /\ UNCHANGED todo
       ELSE /\ stage' = "apply"
            /\ LET acted == {e \in entities : Action(e) # "ALLOW"}
               IN todo' = InOrder(acted, {p \in acted \X acted : ActsBefore(p[1], p[2])})
    /\ UNCHANGED <<case, k, profile, chunks, found, entities, out, vault, minting, given, torn>>

-----------------------------------------------------------------------------
(* Applying. *)

ValueOf(e) == SubSeq(Text, e.start + 1, e.end)
Outside(e) == e.end > Len(out)
WantsToken(e) == Action(e) = "TOKENIZE" /\ e.type \notin NoTokens

Marks(e) ==
    LET width == IF Action(e) # "MASK" THEN LabelWidth
                 ELSE IF Severity[e.type] = 3 THEN FixedMask ELSE e.end - e.start
    IN [i \in 1..width |-> Mark]

\* Mutant: the end of the span counts from the end of the text.
Replace_LastOffByOne(e, items) ==
    /\ out' = SubSeq(out, 1, e.start) \o items \o SubSeq(out, e.end, Len(out))
    /\ todo' = Tail(todo)

Replace(e, items) ==
    /\ out' = SubSeq(out, 1, e.start) \o items \o SubSeq(out, e.end + 1, Len(out))
    /\ todo' = Tail(todo)

\* A span outside what is left of the text is skipped, all but a token is a
\* label or a mask.  A digest is a label, also where HASH is refused.
Apply ==
    /\ stage = "apply" /\ todo # <<>>
    /\ LET e == Head(todo)
       IN IF Outside(e) THEN todo' = Tail(todo) /\ UNCHANGED out
          ELSE ~WantsToken(e) /\ Replace(e, Marks(e))
    /\ UNCHANGED <<case, stage, k, profile, chunks, found, entities, vault, minting, given, torn>>

Give(e, token) ==
    /\ Replace(e, [i \in 1..LabelWidth |-> Surrogate(token)])
    /\ given' = given \cup {[value |-> ValueOf(e), token |-> token, torn |-> torn]}

Tokenizing(e) == stage = "apply" /\ todo # <<>> /\ e = Head(todo) /\ ~Outside(e) /\ WantsToken(e)

\* tokenize() returns the token the value has.
Reuse ==
    LET e == Head(todo)
    IN /\ Tokenizing(e) /\ minting = None
       /\ ValueOf(e) \in DOMAIN vault.seen
       /\ Give(e, vault.seen[ValueOf(e)])
       /\ UNCHANGED <<case, stage, k, profile, chunks, found, entities, vault, minting, torn>>

\* Mutant: the token drawn is not compared with those in use.
Mint_Unchecked ==
    LET e == Head(todo)
    IN /\ Tokenizing(e) /\ minting = None
       /\ ValueOf(e) \notin DOMAIN vault.seen
       /\ \E token \in Tokens :
             /\ minting' = [value |-> ValueOf(e), token |-> token]
             /\ vault' = [vault EXCEPT !.forward = Put(@, token, ValueOf(e))]
       /\ UNCHANGED <<case, stage, k, profile, chunks, found, entities, todo, out, given, torn>>

\* It has none: one that is not in use is drawn and entered.
Mint ==
    LET e == Head(todo)
    IN /\ Tokenizing(e) /\ minting = None
       /\ ValueOf(e) \notin DOMAIN vault.seen
       /\ \E token \in Tokens \ DOMAIN vault.forward :
             /\ minting' = [value |-> ValueOf(e), token |-> token]
             /\ vault' = [vault EXCEPT !.forward = Put(@, token, ValueOf(e))]
       /\ UNCHANGED <<case, stage, k, profile, chunks, found, entities, todo, out, given, torn>>

\* The second table is written after the first.
Remember ==
    LET e == Head(todo)
    IN /\ minting # None
       /\ vault' = [vault EXCEPT !.seen = Put(@, minting.value, minting.token)]
       /\ minting' = None
       /\ Give(e, minting.token)
       /\ UNCHANGED <<case, stage, k, profile, chunks, found, entities, torn>>

Finish ==
    /\ stage = "apply" /\ todo = <<>>
    /\ stage' = "done"
    /\ UNCHANGED <<case, k, profile, chunks, found, entities, todo, out, vault, minting, given, torn>>

\* TokenVault.clear, run by whoever resets or sweeps the session.
ClearForward ==
    /\ case.torn /\ torn = 0 /\ stage = "apply"
    /\ torn' = 1 /\ vault' = [vault EXCEPT !.forward = <<>>]
    /\ UNCHANGED <<case, stage, k, profile, chunks, found, entities, todo, out, minting, given>>

ClearSeen ==
    /\ torn = 1
    /\ torn' = 2 /\ vault' = [vault EXCEPT !.seen = <<>>]
    /\ UNCHANGED <<case, stage, k, profile, chunks, found, entities, todo, out, minting, given>>

Done == stage \in {"done", "refused"} /\ torn # 1 /\ UNCHANGED vars

Next ==
    \/ Cut \/ Detect \/ Settle \/ Decide
    \/ Apply \/ Reuse \/ Mint \/ Remember \/ Finish
    \/ ClearForward \/ ClearSeen \/ Done

Spec == Init /\ [][Next]_vars

-----------------------------------------------------------------------------
(* Properties. *)

\* What each chunk adds is the document, without a gap and without a character
\* twice, and whatever a rule of the profile can match is whole in one chunk,
\* wherever the line ends move the boundaries (core/chunker.py, chunk_text).
ChunksCover ==
    chunks # <<>> =>
        /\ chunks[1].base + chunks[1].prefix = 0
        /\ chunks[Len(chunks)].end = Len(Text)
        /\ \A i \in 1..(Len(chunks) - 1) :
              chunks[i + 1].base + chunks[i + 1].prefix = chunks[i].end
        /\ LET span == PatternSpan(profile.rules)
           IN \A s \in 0..(Len(Text) - span) :
                 \E i \in DOMAIN chunks : chunks[i].base <= s /\ s + span <= chunks[i].end

\* Where a pattern with a checksum stands in the document, also with invisible
\* characters in it or, where it has letters and digits alone and enough of
\* them, written apart, as long as the profile expects a match of that length.
Planted ==
    LET whole == [base |-> 0, end |-> Len(Text)]
        joined == {p \in SpacedPatterns : p.text \in Seq(Alnum) /\ Len(p.text) >= MinRun}
    IN {e \in {Plain(m) : m \in {n \in Matches(whole, case.doc.patterns, joined) :
                                    n.type \in Backed /\ Relevant(n)}} :
           e.end - e.start <= PatternSpan(profile.rules) /\ Text[e.end] \notin StripChars}

\* A value with a checksum that no other finding with one overlaps leaves
\* nothing in the artifact unless the profile allows what covers it: neither a
\* chunk's edge, nor invisible characters, nor a guess that covers it, nor the
\* filter lets it through (core/reconciler.py, core/detector.py, core/pipeline.py).
NoValueSurvives ==
    stage = "done" =>
        \A v \in Planted :
            \/ \E w \in found : /\ w.type \in Backed /\ Relevant(w) /\ Overlaps(v, w)
                                /\ ~(w.type = v.type /\ SameSpan(v, w))
            \/ \E e \in entities : e.type = v.type /\ Covers(e, v) /\ Action(e) = "ALLOW"
            \/ \A i \in DOMAIN out : ~(v.start <= out[i] /\ out[i] < v.end)

\* After reconciliation two entities overlap only where one of a permitted pair
\* lies within the other, also after a third has trimmed one of them, as long as
\* no detector takes the separator after a value for part of it
\* (core/reconciler.py, _trim_around).
SpansSettled ==
    (\A e \in found : Text[e.end] \notin StripChars) =>
    \A e \in entities : \A f \in entities \ {e} :
        Overlaps(e, f) => MayNest(e, f) \/ MayNest(f, e)

\* Where no entities are nested the artifact is the document without exactly
\* the spans acted on, in its order: no replacement moves another one's span
\* (core/applier.py, apply_decisions).
ExactRemoval ==
    LET acted == {e \in entities : Action(e) # "ALLOW"}
        Kept(i) == \A e \in acted : ~(e.start <= i /\ i < e.end)
    IN stage = "done" /\ (\A e, f \in acted : e # f => ~Overlaps(e, f)) =>
          /\ {i \in Range(out) : i >= 0} = {i \in 0..(Len(Text) - 1) : Kept(i)}
          /\ \A p, q \in DOMAIN out : p < q /\ out[q] >= 0 => out[p] < out[q]

\* Two values never share a token, and one value has one token, as long as no
\* teardown came between (session/token_vault.py, tokenize, _mint_surrogate).
TokensConsistent ==
    \A g, h \in given :
        /\ torn = 0 /\ g.token = h.token => g.value = h.value
        /\ g.torn = h.torn /\ g.value = h.value => g.token = h.token

\* No profile of the chain is undercut: an entity gets at least what each of
\* them says for the destination, or says at all where none speaks of it, and a
\* credential at least REDACT without an approved exception; a place that is
\* exempt and no credential aside (core/profile_resolver.py, _merge_rule).
StrictestWins ==
    \A e \in entities :
        LET rules == {case.profiles[n].rules[e.type] : n \in Range(profile.names)} \ {NoRule}
            there == {r \in rules : case.destination \in DOMAIN r.over}
            demands == IF there # {} THEN {r.over[case.destination] : r \in there}
                       ELSE {r.action : r \in rules}
        IN \/ Action(e) = "ALLOW" /\ e.start \in case.doc.exempt /\ ~IsBaseSecurity(e)
              /\ \E r \in rules : r.exempt
           \/ /\ \A a \in demands : Priority[Action(e)] >= Priority[a]
              /\ \/ e.type \notin BaseTypes \/ Priority[Action(e)] >= Priority["REDACT"]
                 \/ \E r \in rules : r.approved
=============================================================================
