------------------------------- MODULE Policy -------------------------------
(***************************************************************************)
(* What happens to a finding: profiles are read and checked                *)
(* (profiles/schema.py), resolved with their parents and BASE_SECURITY     *)
(* into one effective profile (core/profile_resolver.py), and the profile  *)
(* gives each entity its action (core/policy.py).                          *)
(*                                                                         *)
(* A directory of profiles is a function from names to definitions, each   *)
(* of them the names it inherits, a rule or NoRule for every type and the  *)
(* detectors it requires.                                                  *)
(***************************************************************************)
EXTENDS Spans, SequencesExt

CONSTANTS
    LowEntropy,     \* LOW_ENTROPY_TYPES
    BaseTypes,      \* BASE_SECURITY_TYPES
    ProfileNames,   \* names a profile may have
    Destinations,
    MaxScore,       \* confidence is a score in 0..MaxScore
    DefaultScore    \* DEFAULT_CONFIDENCE_THRESHOLD

Actions == {"ALLOW", "REPLACE", "MASK", "HASH", "TOKENIZE", "REDACT", "BLOCK"}
Priority == [ALLOW |-> 1, REPLACE |-> 2, MASK |-> 3, HASH |-> 4, TOKENIZE |-> 5,
             REDACT |-> 6, BLOCK |-> 7]
MostRestrictive(a, b) == IF Priority[a] >= Priority[b] THEN a ELSE b

NoRule == [enabled |-> FALSE, action |-> "none"]
NoRequest == "none"
NoDestination == "none"
Unset == -1
BaseSecurity == "BASE_SECURITY"

Rules ==
    [enabled : BOOLEAN, action : Actions,
     over : UNION {[D -> Actions] : D \in SUBSET Destinations},
     exempt : BOOLEAN, threshold : {Unset} \cup 0..MaxScore, span : Nat,
     approved : BOOLEAN]

Definitions(Names) ==
    [inherits : Seq(Names), rules : [Types -> Rules \cup {NoRule}],
     required : SUBSET Detectors]

ASSUME PolicyAssumption ==
    /\ LowEntropy \subseteq Types /\ BaseTypes \subseteq Types
    /\ BaseSecurity \in ProfileNames /\ NoDestination \notin Destinations
    /\ MaxScore \in Nat /\ DefaultScore \in 0..MaxScore

-----------------------------------------------------------------------------
(* Reading a profile. *)

\* Guardrail G14, on the action only, and guardrail G5, where an approved
\* exception is for the action and never for an override.
ValidRule(type, rule) ==
    /\ type \in LowEntropy => rule.action \notin {"ALLOW", "HASH"}
    /\ type \in BaseTypes =>
          /\ rule.approved \/ Priority[rule.action] >= Priority["REDACT"]
          /\ \A d \in DOMAIN rule.over : Priority[rule.over[d]] >= Priority["REDACT"]

ValidProfile(definition) ==
    /\ definition.required \subseteq Detectors
    /\ \A t \in Types : definition.rules[t] # NoRule => ValidRule(t, definition.rules[t])

\* A name can be loaded when its file is there and passes.
Loads(profiles, name) == name \in DOMAIN profiles /\ ValidProfile(profiles[name])

-----------------------------------------------------------------------------
(* Resolving. *)

\* Parents before children, depth first.  A chain longer than the directory
\* visits a name twice, which is refused like a name that does not load.
Chain(profiles, name) ==
    LET Refusal == [ok |-> FALSE, names |-> <<>>]
        depth == Cardinality(DOMAIN profiles)
        collect[d \in 0..depth] ==
            [n \in ProfileNames |->
                IF d = 0 \/ ~Loads(profiles, n) THEN Refusal
                ELSE LET parents == profiles[n].inherits
                         above == [i \in DOMAIN parents |-> collect[d - 1][parents[i]]]
                     IN IF \E i \in DOMAIN above : ~above[i].ok THEN Refusal
                        ELSE [ok |-> TRUE,
                              names |-> FlattenSeq([i \in DOMAIN above |-> above[i].names])
                                        \o <<n>>]]
    IN collect[depth][name]

\* Mutant: the later rule replaces the action of the earlier one.
MergeRule_Replaces(existing, incoming) ==
    IF existing = NoRule THEN incoming ELSE [incoming EXCEPT !.over = existing.over @@ @]

Lowest(a, b) == IF a = Unset THEN b ELSE IF b = Unset \/ a <= b THEN a ELSE b

\* An override that only one of two rules has is taken as it is.
MergeOverrides(old, new) ==
    [d \in DOMAIN old \cup DOMAIN new |->
        IF d \notin DOMAIN new THEN old[d]
        ELSE IF d \notin DOMAIN old THEN new[d]
        ELSE MostRestrictive(old[d], new[d])]

\* The stricter action, the lower threshold.  Approval is asked for when a rule
\* is read, and never of a merged one.
MergeRule(existing, incoming) ==
    IF existing = NoRule THEN incoming
    ELSE [enabled |-> existing.enabled \/ incoming.enabled,
          action |-> MostRestrictive(existing.action, incoming.action),
          over |-> MergeOverrides(existing.over, incoming.over),
          exempt |-> existing.exempt \/ incoming.exempt,
          threshold |-> Lowest(existing.threshold, incoming.threshold),
          span |-> Larger(existing.span, incoming.span),
          approved |-> incoming.approved]

\* The profiles that apply, in their order.  BASE_SECURITY comes first whatever is
\* requested.
Applied(profiles, requested) ==
    LET chains == [i \in 1..(Len(requested) + 1) |->
                      IF i = 1 THEN Chain(profiles, BaseSecurity)
                      ELSE IF requested[i - 1] = BaseSecurity THEN [ok |-> TRUE, names |-> <<>>]
                      ELSE Chain(profiles, requested[i - 1])]
    IN [ok |-> \A i \in DOMAIN chains : chains[i].ok,
        names |-> FlattenSeq([i \in DOMAIN chains |-> chains[i].names])]

\* The rules of a type, one after the other.
MergedRule(profiles, names, type) ==
    LET rule(n) == profiles[n].rules[type]
        merged[i \in 0..Len(names)] ==
            IF i = 0 THEN NoRule
            ELSE IF rule(names[i]) = NoRule THEN merged[i - 1]
            ELSE MergeRule(merged[i - 1], rule(names[i]))
    IN merged[Len(names)]

Resolve(profiles, requested) ==
    LET applied == Applied(profiles, requested)
    IN [ok |-> applied.ok, names |-> applied.names,
        required |-> UNION {profiles[n].required : n \in Range(applied.names)},
        rules |-> [t \in Types |-> MergedRule(profiles, applied.names, t)]]

-----------------------------------------------------------------------------
(* What an effective profile says. *)

Enabled(rules, type) == rules[type].enabled

Threshold(rules, type) ==
    IF rules[type] = NoRule \/ rules[type].threshold = Unset THEN DefaultScore
    ELSE rules[type].threshold

\* The longest span an enabled rule can match, never below the floor.
PatternSpan(rules) ==
    LET spans == {MinOverlap} \cup {rules[t].span : t \in {u \in Types : Enabled(rules, u)}}
    IN CHOOSE s \in spans : \A r \in spans : r <= s

\* What a type without a rule, or with a disabled one, gets is REDACT.
ActionFor(rules, type, destination) ==
    IF ~Enabled(rules, type) THEN "REDACT"
    ELSE IF destination \in DOMAIN rules[type].over THEN rules[type].over[destination]
    ELSE rules[type].action

DestinationSensitive(rules, type) == rules[type] # NoRule /\ DOMAIN rules[type].over # {}

\* Entities for which the caller has to be asked where the result goes.
NeedsDestination(rules, entities, destination) ==
    destination = NoDestination /\ \E e \in entities : DestinationSensitive(rules, e.type)

\* A type of BASE_SECURITY, or a finding of a security recognizer.
IsBaseSecurity(e) == e.type \in BaseTypes \/ "custom_security" \in e.by

\* The action of one entity: its place may exempt it, a credential gets what
\* the profile says, and a request can only make it stricter.
ResolveOne(rules, e, exempt, destination, request) ==
    LET mandated == ActionFor(rules, e.type, destination)
    IN IF IsBaseSecurity(e) THEN mandated
       ELSE IF rules[e.type] # NoRule /\ rules[e.type].exempt /\ exempt THEN "ALLOW"
       ELSE IF request = NoRequest THEN mandated
       ELSE MostRestrictive(mandated, request)
=============================================================================
