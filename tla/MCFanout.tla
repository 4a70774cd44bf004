------------------------------ MODULE MCFanout ------------------------------
(***************************************************************************)
(* Fanout and what it implements on small sets.  Two backoffs of different *)
(* length stand for the code's five.                                       *)
(***************************************************************************)
EXTENDS FanoutRefinement

ShortBackoff == <<1, 2>>

============================================================================
