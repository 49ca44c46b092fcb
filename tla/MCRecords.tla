----------------------------- MODULE MCRecords -----------------------------
(***************************************************************************)
(* Instances of Records: two workspaces, and working trees with one        *)
(* migration or two, on branches that make other tables or the same ones   *)
(* under the same number, with an edited file and with a file missing.     *)
(***************************************************************************)
EXTENDS Records, TLC

Symmetric ==
    Permutations(Workspaces) \cup Permutations(Writers) \cup Permutations(Batches)
        \cup Permutations(Processes)

File(name, makes, text) == [name |-> name, makes |-> makes, text |-> text]
Initial == File("initial", {"run"}, "first")
Current == <<Initial, File("sessions", {"session"}, "first")>>
WorkingTrees ==
    {Current, <<Initial>>, <<Initial, File("branch", {"alert"}, "first")>>,
     <<Initial, File("logins", {"session"}, "other")>>,
     <<File("initial", {"run"}, "edited"), File("sessions", {"session"}, "first")>>,
     [n \in {1, 3} |-> Initial]}
=============================================================================
