---------------------------- MODULE MCAuditChain ----------------------------
(***************************************************************************)
(* Instances of AuditChain: the writers of one session share its sink; the *)
(* writers of two sessions have a sink each over the same directory.       *)
(***************************************************************************)
EXTENDS AuditChain

CONSTANTS w1, w2, w3, s1, s2

OneSink == [w \in Writers |-> s1]
SinkPerSession == [w \in Writers |-> IF w = w1 THEN s1 ELSE s2]
=============================================================================
