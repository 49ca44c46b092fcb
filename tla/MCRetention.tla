---------------------------- MODULE MCRetention ----------------------------
(***************************************************************************)
(* Instances of Retention: a new document and an old one, an old run and   *)
(* an old session.                                                         *)
(***************************************************************************)
EXTENDS Retention

CONSTANTS doc1, doc2, orig1, orig2, text1, alice, sweeper, run1, token1

Originals == [d \in Docs |-> IF d = doc1 THEN orig1 ELSE orig2]
Texts == [d \in Docs |-> IF d = doc1 THEN {text1} \cap Keys ELSE {}]
Births == [d \in Docs |-> IF d = doc1 THEN 1 ELSE 0]
OldRuns == [r \in Runs |-> 0]
OldSessions == [s \in Sessions |-> 0]

\* Every period configured, or one of those nothing is deleted by missing.
Beginnings ==
    {[c \in Categories |-> IF c = "sanitized_artifact" THEN p ELSE 1] : p \in {1, None}}
Settable == {<<"document", 2>>, <<"sanitized_artifact", 1>>}
=============================================================================
