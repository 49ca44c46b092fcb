----------------------------- MODULE MCDataPath -----------------------------
(* DataPath on four families of calls.  Types: a number with a checksum, a   *)
(* PIN, a token with a checksum, a password and the header it stands in, a   *)
(* name and a place.                                                         *)
EXTENDS DataPath

MCTypes == {"ssn", "pin", "jwt", "password", "header", "person", "place"}
MCSeverity == [ssn |-> 2, pin |-> 2, jwt |-> 3, password |-> 3, header |-> 3,
               person |-> 2, place |-> 1]
MCNameOrder == [ssn |-> 7, pin |-> 6, jwt |-> 5, password |-> 4, header |-> 3,
                person |-> 2, place |-> 1]
MCNestable == {<<"header", "jwt">>, <<"header", "password">>, <<"place", "person">>}

Rule(action) == [enabled |-> TRUE, action |-> action, over |-> <<>>, exempt |-> FALSE,
                 threshold |-> Unset, span |-> 0, approved |-> FALSE]
NoRules == [t \in Types |-> NoRule]
Credentials == [t \in Types |->
    IF t \in {"jwt", "password", "header"} THEN Rule("REDACT") ELSE NoRule]
Profile(parents, rules) == [inherits |-> parents, rules |-> rules, required |-> {"presidio"}]

Directory(rules) == [BASE_SECURITY |-> Profile(<<>>, Credentials),
                     P |-> Profile(<<>>, rules)]
Call(doc, profiles, requested, destination, request, t) ==
    [doc |-> doc, profiles |-> profiles, requested |-> requested,
     destination |-> destination, request |-> request, torn |-> t]
Document(text, patterns, noise, exempt) ==
    [text |-> text, patterns |-> patterns, noise |-> noise, exempt |-> exempt, size |-> 1]
Finding(type, by, from, to) ==
    [type |-> type, start |-> from, end |-> to, by |-> {by}, score |-> 1]

Usual(span) == [NoRules EXCEPT !["ssn"] = [Rule("REDACT") EXCEPT !.span = span],
                               !["person"] = Rule("MASK"), !["place"] = Rule("REPLACE")]

\* Up to three findings that overlap in every way, over six characters.
SettleCases ==
    LET texts == {<<"a", "a", "a", "a", "a", "a">>, <<"a", "a", "=", "a", "a", "a">>}
        spans == {s \in (0..6) \X (0..6) : s[1] + 2 <= s[2]}
        by == [ssn |-> "presidio", person |-> "spacy", place |-> "spacy",
               header |-> "custom_security", password |-> "custom_security"]
        Triples(l, m, n) == {{Finding(l, by[l], s[1], s[2]), Finding(m, by[m], t[1], t[2]),
                              Finding(n, by[n], u[1], u[2])} :
                                s \in spans, t \in spans, u \in spans}
    IN {Call(Document(text, {}, noise, {}), Directory(Usual(0)),
             <<"P">>, "SIEM", NoRequest, FALSE) :
           text \in texts,
           noise \in Triples("place", "person", "ssn") \cup Triples("header", "password", "person")
                     \cup Triples("person", "person", "person")}

\* One value in a long document, with one line end, a guess that covers it and
\* that the profile allows or ignores, and invisible, foreign or spaced letters.
ChunkCases ==
    LET values == {<<"a", "b">>, <<"a", "zw", "b">>, <<"cyrillic a", "zw", "b">>,
                   <<"a", " ", "b">>}
        Body(value, at, line) ==
            [i \in 1..18 |-> IF at < i /\ i <= at + Len(value) THEN value[i - at]
                             ELSE IF i = line THEN LineEnd ELSE "="]
        pattern == [type |-> "ssn", text |-> <<"a", "b">>, score |-> 1, by |-> "presidio"]
        Guess(value, at) == Finding("place", "spacy", at - 1, at + Len(value) + 1)
        For(kind, rules) == IF kind = "ignored" THEN [rules EXCEPT !["place"].enabled = FALSE]
                            ELSE [rules EXCEPT !["place"].action = "ALLOW"]
    IN {Call(Document(Body(value, at, line), {pattern},
                      IF kind = "alone" THEN {} ELSE {Guess(value, at)}, {}),
             Directory(For(kind, Usual(span))),
             <<"P">>, "SIEM", NoRequest, FALSE) :
           value \in values, at \in 1..13, line \in 0..18, span \in 1..3,
           kind \in {"alone", "allowed", "ignored"}}

\* Two profiles with a rule each for one type.
PolicyCases ==
    LET rules == {[Rule(action) EXCEPT !.over = over] :
                     action \in Actions \ {"REPLACE"},
                     over \in {<<>>} \cup [{"SIEM"} -> {"ALLOW", "REDACT", "BLOCK"}]}
                 \cup {[Rule("MASK") EXCEPT !.approved = TRUE], Rule("HASH"),
                       [Rule("REDACT") EXCEPT !.exempt = TRUE],
                       [Rule("BLOCK") EXCEPT !.enabled = FALSE], NoRule}
        With(type, rule) == [NoRules EXCEPT ![type] = rule]
        doc(type) == Document(<<"a", "b">>, {}, {Finding(type, IF type = "password"
                                  THEN "custom_security" ELSE "presidio", 0, 1)}, {0})
    IN {Call(doc(type),
             [BASE_SECURITY |-> Profile(<<>>, Credentials),
              P |-> Profile(<<>>, With(type, above)), C |-> Profile(<<"P">>, With(type, below))],
             requested, destination, request, FALSE) :
           type \in {"ssn", "password", "person"}, above \in rules, below \in rules,
           requested \in {<<"C">>, <<"P", BaseSecurity>>},
           destination \in {"SIEM", NoDestination}, request \in {NoRequest, "HASH"}}

\* A profile that inherits from itself, and one that is not there.
RefusedCases ==
    {Call(Document(<<"a">>, {}, {}, {}),
          [BASE_SECURITY |-> Profile(<<>>, Credentials),
           P |-> Profile(<<"C">>, NoRules), C |-> Profile(<<parent>>, NoRules)],
          <<"P">>, "SIEM", NoRequest, FALSE) : parent \in {"P", "Q", BaseSecurity}}

\* A value twice with another one between, while the session is torn down.
TokenCases ==
    {Call(Document(<<"a", "=", "b", "=", "a">>, {},
                   {Finding(type, "presidio", i, i + 1) : i \in {0, 2, 4}}, {}),
          Directory([NoRules EXCEPT ![type] = Rule("TOKENIZE")]),
          <<"P">>, "SIEM", NoRequest, t) :
        type \in {"person", "pin"}, t \in BOOLEAN}

MCFamilies == {SettleCases, ChunkCases, PolicyCases, RefusedCases, TokenCases}
=============================================================================
