--------------------------- MODULE DeliveryLadder ---------------------------
(***************************************************************************)
(* What fan-out promises to those who read the ledger: no passes, no       *)
(* locks, no connections.  A row that is due and whose channel is served   *)
(* is settled, alone or together with others: delivered, put off by its    *)
(* backoff, or given up.  Settled rows stay as they are.                   *)
(***************************************************************************)
EXTENDS Ledger

CONSTANT LongestPass    \* minutes from the now() of a transaction to its commit

VARIABLES ledger, orphans, known

vars == <<ledger, orphans, known>>

Init ==
    /\ ledger  = [d \in Deliveries |-> Null]
    /\ orphans = {}
    /\ known   = Channels

\* The rows of an announcement, written when it is published.
Enqueue(D) ==
    /\ \E d \in D : ledger[d] = Null
    /\ ledger' = [d \in Deliveries |->
                     IF d \in D /\ ledger[d] = Null THEN NewEntry ELSE ledger[d]]
    /\ UNCHANGED <<orphans, known>>

\* Somebody deletes the announcement of the rows D by hand.
LoseAnnouncement(D) ==
    /\ orphans' = orphans \cup D
    /\ UNCHANGED <<ledger, known>>

AdvanceTime ==
    /\ ledger' = [d \in Deliveries |-> IF ledger[d] = Null THEN Null ELSE Later(ledger[d], 1)]
    /\ UNCHANGED <<orphans, known>>

Due(d) ==
    /\ ledger[d] # Null
    /\ ledger[d].status \in {"pending", "failed"}
    /\ ledger[d].wait = 0
    /\ d[1] \in known

\* What a pass may write in a row, before its age is taken off the wait.  An
\* announcement may go while a pass works, so an orphan may be tried still.
Outcomes(d) ==
    {Delivered(ledger[d].attempts), Failed(ledger[d].attempts)}
        \cup IF d \in orphans THEN {Missing(ledger[d].attempts)} ELSE {}

Settle(D, written, age) ==
    /\ \A d \in D : Due(d) /\ written[d] \in Outcomes(d)
    /\ ledger' = [d \in Deliveries |-> IF d \in D THEN Later(written[d], age) ELSE ledger[d]]
    /\ UNCHANGED <<orphans, known>>

AnyOutcomes(D) == [D -> UNION {Outcomes(d) : d \in D}]

Serve(K) ==
    /\ known' = K
    /\ UNCHANGED <<ledger, orphans>>

Next ==
    \/ \E D \in SUBSET Deliveries : Enqueue(D)
    \/ \E D \in SUBSET Deliveries : LoseAnnouncement(D)
    \/ AdvanceTime
    \/ \E D \in SUBSET {d \in Deliveries : Due(d)} :
          \E written \in AnyOutcomes(D), age \in 0 .. LongestPass : Settle(D, written, age)
    \/ \E K \in SUBSET Channels : Serve(K)

Spec == Init /\ [][Next]_vars

============================================================================
