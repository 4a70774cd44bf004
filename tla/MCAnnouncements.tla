-------------------------- MODULE MCAnnouncements --------------------------
(***************************************************************************)
(* Announcements, and what it implements, on small sets.  Publishers,      *)
(* sessions and ticks are interchangeable: no action and no safety         *)
(* property names one of them.                                             *)
(***************************************************************************)
EXTENDS AnnouncementsRefinement, TLC

Symmetry == Permutations(Publishers) \cup Permutations(Sessions) \cup Permutations(Ticks)

============================================================================
