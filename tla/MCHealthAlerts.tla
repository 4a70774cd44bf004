--------------------------- MODULE MCHealthAlerts ---------------------------
(***************************************************************************)
(* HealthAlerts on small sets, with two short backoffs.                    *)
(***************************************************************************)
EXTENDS HealthAlerts, TLC

Symmetry == Permutations(Dispatches) \cup Permutations(Targets)

ShortBackoff == <<1, 2>>

============================================================================
