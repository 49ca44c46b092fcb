----------------------------- MODULE MCDeletion -----------------------------
(***************************************************************************)
(* Instances of Deletion: a document with up to two chunk texts, and one   *)
(* beside it with none or one.                                             *)
(***************************************************************************)
EXTENDS Deletion, TLC

CONSTANTS doc1, doc2, orig1, orig2, text1, text2, text3, alice, sweeper

Originals == [d \in Docs |-> IF d = doc1 THEN orig1 ELSE orig2]
Texts == [d \in Docs |-> IF d = doc1 THEN {text1, text2} \cap Keys ELSE {text3} \cap Keys]
=============================================================================
