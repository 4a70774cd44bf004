-------------------------- MODULE FanoutRefinement --------------------------
(***************************************************************************)
(* Fanout implements DeliveryLadder: the ledger is the same, and a pass    *)
(* is seen only when it commits.                                           *)
(***************************************************************************)
EXTENDS Fanout

Ladder == INSTANCE DeliveryLadder

\* However passes overlap, end late or are lost, the ledger changes only as the
\* ladder allows: a row is settled when it is due, once per attempt, with the
\* backoff of that attempt, and never of a channel that is not served.
ImplementsLadder == Ladder!Spec

============================================================================
