------------------------ MODULE MCEmailSubscription ------------------------
(***************************************************************************)
(* EmailSubscription on small sets.  Requests are interchangeable.         *)
(***************************************************************************)
EXTENDS EmailSubscription, TLC

Symmetry == Permutations(Requests)

============================================================================
