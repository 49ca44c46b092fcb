---------------------------- MODULE MCAgentLoop ----------------------------
(***************************************************************************)
(* Instances of AgentLoop.  The recursion limit and the iteration limit    *)
(* are the real ones, 25 and 10.                                           *)
(***************************************************************************)
EXTENDS AgentLoop

=============================================================================
