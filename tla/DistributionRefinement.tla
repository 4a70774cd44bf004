----------------------- MODULE DistributionRefinement -----------------------
(***************************************************************************)
(* Distribution implements DeliveryLadder without waits: what an enqueue,  *)
(* a pass and its crosspost do to the ledger is what Fanout does, notes    *)
(* left aside.  Together with how the notes change it is what HealthAlerts *)
(* takes for granted of the fan-out.                                       *)
(***************************************************************************)
EXTENDS Distribution, Sequences

\* A row without its note.  A failed row may be tried again at any time.
rowOf(entry) == [status |-> entry.status, attempts |-> entry.attempts, wait |-> 0]

Rows == [d \in Channels \X (Settings \cup Subscribers) |->
            IF d \in Targets /\ ledger[d] # Null THEN rowOf(ledger[d]) ELSE Null]

Ladder == INSTANCE DeliveryLadder WITH
    Targets        <- Settings \cup Subscribers,
    BackoffMinutes <- <<0>>,
    LongestPass    <- 0,
    ledger         <- Rows,
    orphans        <- {},
    known          <- enabled["worker"]

ASSUME NullIsNoRow == Null \notin Ladder!Entry

\* The rows a step changes, and what the ladder may have done to them.
Moved == {t \in Targets : ledger'[t] # ledger[t]}

LadderMoves ==
    \/ Ladder!Serve(enabled'["worker"])
    \/ Ladder!Enqueue(Moved)
    \/ \E written \in Ladder!AnyOutcomes(Moved) : Ladder!Settle(Moved, written, 0)

\* The rows the alert about failed crossposts is about.
Unpublished == {t \in Targets : ledger[t] # Null /\ ledger[t].note = "failed"}

OnlyDeliveryReports ==
    /\ Unpublished \subseteq Unpublished'
    /\ \A t \in Unpublished' \ Unpublished : t \in Due /\ ledger'[t].status = "delivered"

\* What the alerts take for granted.  However restarts, migrations and losses fall
\* between the statements of a pass, only a row that is open and of a channel the
\* worker serves is settled, by one attempt of the ladder; and only the step that
\* delivers a row reports its crosspost as failed, once and for all.  (Every step that
\* changes the ledger or what is served is a step of DeliveryLadder.)
FeedsTheAlerts ==
    /\ Ladder!Init
    /\ [][ledger' # ledger \/ enabled' # enabled => LadderMoves /\ OnlyDeliveryReports]_vars

=============================================================================
