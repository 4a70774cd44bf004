------------------------------- MODULE Ledger -------------------------------
(***************************************************************************)
(* The rows of delivery_ledger and what one attempt makes of a row.  Rows  *)
(* of several announcements are alike: a member of Targets stands for a    *)
(* target and the revision sent to it, kind 'publish'.  The wait of a row  *)
(* is the time left until next_attempt_at.                                 *)
(***************************************************************************)
EXTENDS Naturals, FiniteSets, Sequences

CONSTANTS
    Channels,       \* email, webhook, discord, telegram, signal
    Targets,        \* subscriptions or channel settings of one channel
    MaxAttempts,    \* 5 in the code
    BackoffMinutes, \* <<2, 5, 10, 20, 30>> in the code
    Null

Deliveries == Channels \X Targets

Statuses == {"pending", "delivered", "failed", "exhausted"}

Entry == [status: Statuses, attempts: Nat, wait: Nat]

ASSUME LedgerAssumption ==
    /\ MaxAttempts \in Nat \ {0}
    /\ BackoffMinutes \in Seq(Nat) /\ BackoffMinutes # <<>>
    /\ Null \notin Nat /\ Null \notin Entry

NewEntry == [status |-> "pending", attempts |-> 0, wait |-> 0]

Monus(m, n) == IF m > n THEN m - n ELSE 0

\* An entry m minutes later.
Later(entry, m) == [entry EXCEPT !.wait = Monus(@, m)]

\* BACKOFF_MINUTES[Math.min(attempts - 1, BACKOFF_MINUTES.length - 1)]
Backoff(attempts) ==
    BackoffMinutes[IF attempts < Len(BackoffMinutes) THEN attempts ELSE Len(BackoffMinutes)]

\* Faulty variant: one attempt more than the limit.
GivesUpLate(attempts) == attempts > MaxAttempts

GivesUp(attempts) == attempts >= MaxAttempts

----------------------------------------------------------------------------
(* What becomes of a row that has had n attempts; waits count from the now() *)
(* of the transaction.                                                       *)

Delivered(n) == [status |-> "delivered", attempts |-> n + 1, wait |-> 0]

\* Faulty variant: the attempt is not counted.
FailedUncounted(n) == [status |-> "failed", attempts |-> n, wait |-> Backoff(1)]

Failed(n) == [status   |-> IF GivesUp(n + 1) THEN "exhausted" ELSE "failed",
              attempts |-> n + 1,
              wait     |-> Backoff(n + 1)]

\* The announcement of the row is gone.
Missing(n) == [status |-> "exhausted", attempts |-> n, wait |-> 0]

============================================================================
