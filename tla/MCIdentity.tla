----------------------------- MODULE MCIdentity -----------------------------
EXTENDS Identity, TLC

Symmetric == Permutations(Workspaces) \cup Permutations(Requests)
=============================================================================
