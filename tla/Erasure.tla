------------------------------ MODULE Erasure ------------------------------
(***************************************************************************)
(* What cascade deletion promises of a document that lives in two stores:  *)
(* its content goes first and its row last.  A document is kept whole, or  *)
(* dangling (a row whose content is at least partly gone, which anyone can *)
(* see and finish), or gone from both stores, and it never comes back.     *)
(***************************************************************************)
CONSTANT Docs

VARIABLE phase

Init == phase = [d \in Docs |-> "kept"]

\* A first payload of the document goes.
Tear(d) ==
    /\ phase[d] = "kept"
    /\ phase' = [phase EXCEPT ![d] = "dangling"]

\* The rows go, of one document or with the workspace of several, when their
\* content is already gone.
Erase(S) ==
    /\ \A d \in S : phase[d] \in {"dangling", "gone"}
    /\ phase' = [d \in Docs |-> IF d \in S THEN "gone" ELSE phase[d]]

Next == (\E d \in Docs : Tear(d)) \/ (\E S \in SUBSET Docs : Erase(S))

Spec == Init /\ [][Next]_phase
=============================================================================
