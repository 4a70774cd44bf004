--------------------------- MODULE MCAdminConsole ---------------------------
(* Small instances of AdminConsole. *)
EXTENDS AdminConsoleRefinement, TLC

CONSTANTS t1, t2, p1, p2, a1, a2, r1, everyone

Symmetries == Permutations(Tabs) \cup Permutations(Publishers) \cup Permutations(Ids)

=============================================================================
