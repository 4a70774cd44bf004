------------------------------- MODULE Fanout -------------------------------
(***************************************************************************)
(* The delivery of a published announcement (src/worker/fanout.ts): the    *)
(* rows of delivery_ledger, the passes that drain them, and the pool of    *)
(* database connections they share.                                        *)
(*                                                                         *)
(* runFanoutOnce is one transaction per batch.  It locks the rows it       *)
(* claims, calls an adapter for each, and commits what became of all of    *)
(* them together.  The worker starts a pass every 15 s whether or not the  *)
(* last one has ended, so passes overlap.  A message that has gone out     *)
(* stays out when its transaction is lost.                                 *)
(*                                                                         *)
(* Time is kept as what remains: an entry's wait is the time until its     *)
(* next_attempt_at, a pass's age the time since the now() of its           *)
(* transaction.  Rows overdue are claimed in any order.  The text of       *)
(* errors and the publish note are left out.                               *)
(***************************************************************************)
EXTENDS Ledger

CONSTANTS
    Passes,         \* runs of runFanoutOnce that may overlap in one process
    Connections,    \* size of the process's connection pool (4 in the code)
    Batch,          \* rows one pass may claim (20 in the code)
    LongestPass,    \* bound: minutes of a pass that are told apart
    MaxLosses       \* bound: transactions and processes lost

\* A pass: the attempts it read of each row it holds, and the rows it has
\* written but not committed, their waits counted from the pass's now().
Pass == [age: Nat, held: [Deliveries -> Nat \cup {Null}], done: [Deliveries -> Entry \cup {Null}]]

ASSUME FanoutAssumption ==
    /\ Connections \in Nat \ {0}
    /\ Batch \in Nat \ {0}
    /\ Null \notin Pass
    /\ LongestPass \in Nat /\ \A n \in DOMAIN BackoffMinutes : BackoffMinutes[n] <= LongestPass
    /\ MaxLosses \in Nat

VARIABLES
    ledger,     \* delivery_ledger: the entry of each delivery, or Null
    orphans,    \* deliveries whose announcement row is gone
    known,      \* the channels this process has an adapter for
    pass,       \* per pass, its open transaction or Null
    posts,      \* how often the message reached the target
    losses      \* how many transactions and processes were lost

vars == <<ledger, orphans, known, pass, posts, losses>>

Init ==
    /\ ledger  = [d \in Deliveries |-> Null]
    /\ orphans = {}
    /\ known   = Channels
    /\ pass    = [t \in Passes |-> Null]
    /\ posts   = [d \in Deliveries |-> 0]
    /\ losses  = 0

----------------------------------------------------------------------------
(* The pool and the locks *)

Open == {t \in Passes : pass[t] # Null}

\* Faulty variant: the pool keeps a connection for somebody else.
FreeConnectionBeyondOne == Cardinality(Open) + 1 < Connections

\* An open transaction keeps its connection to the end.
FreeConnection == Cardinality(Open) < Connections

Holds(t, d) == pass[t] # Null /\ pass[t].held[d] # Null
Todo(t)     == {d \in Deliveries : Holds(t, d) /\ pass[t].done[d] = Null}

\* Faulty variant: the rows are selected without for update.
NeverLocked(d) == FALSE

Locked(d) == \E t \in Passes : Holds(t, d)

----------------------------------------------------------------------------
(* Around the worker *)

\* enqueueDeliveries, in the transaction that publishes: on conflict do nothing.
Enqueue(D) ==
    /\ \E d \in D : ledger[d] = Null
    /\ ledger' = [d \in Deliveries |->
                     IF d \in D /\ ledger[d] = Null THEN NewEntry ELSE ledger[d]]
    /\ UNCHANGED <<orphans, known, pass, posts, losses>>

\* Somebody deletes the announcement by hand.
LoseAnnouncement(d) ==
    /\ d \notin orphans
    /\ orphans' = orphans \cup {d}
    /\ UNCHANGED <<ledger, known, pass, posts, losses>>

\* A pass older than every backoff need not be told from one older still.
AdvanceTime ==
    /\ \/ \E d \in Deliveries : ledger[d] # Null /\ ledger[d].wait > 0
       \/ \E t \in Open : pass[t].age < LongestPass
    /\ ledger' = [d \in Deliveries |->
                     IF ledger[d] = Null THEN Null ELSE Later(ledger[d], 1)]
    /\ pass' = [t \in Passes |->
                     IF pass[t] = Null THEN Null
                     ELSE [pass[t] EXCEPT !.age = IF @ < LongestPass THEN @ + 1 ELSE @]]
    /\ UNCHANGED <<orphans, known, posts, losses>>

----------------------------------------------------------------------------
(* runFanoutOnce *)

\* Faulty variant: a failed row is not picked up again.
DueOnce(d) == ledger[d] # Null /\ ledger[d].status = "pending"
                  /\ ledger[d].wait = 0 /\ d[1] \in known

\* Faulty variant: the status filter is forgotten.
DueWhateverStatus(d) == ledger[d] # Null /\ ledger[d].wait = 0 /\ d[1] \in known

Due(d) == /\ ledger[d] # Null
          /\ ledger[d].status \in {"pending", "failed"}
          /\ ledger[d].wait = 0
          /\ d[1] \in known

\* select ... limit Batch for update skip locked; an empty pass changes nothing.
Claim(t) ==
    LET free == {d \in Deliveries : Due(d) /\ ~ Locked(d)}
    IN  /\ pass[t] = Null
        /\ FreeConnection
        /\ \E claimed \in SUBSET free :
              /\ claimed # {}
              /\ Cardinality(claimed) = IF Cardinality(free) < Batch THEN Cardinality(free) ELSE Batch
              /\ pass' = [pass EXCEPT ![t] =
                     [age  |-> 0,
                      held |-> [d \in Deliveries |-> IF d \in claimed THEN ledger[d].attempts ELSE Null],
                      done |-> [d \in Deliveries |-> Null]]]
    /\ UNCHANGED <<ledger, orphans, known, posts, losses>>

\* An update of row d inside the transaction of pass t.
Write(t, d, entry) == pass' = [pass EXCEPT ![t].done[d] = entry]

\* The announcement of the row is missing.
GiveUpMissing(t, d) ==
    /\ d \in Todo(t)
    /\ d \in orphans
    /\ Write(t, d, Missing(pass[t].held[d]))
    /\ UNCHANGED <<ledger, orphans, known, posts, losses>>

\* Every adapter reads its target outside the transaction before it sends, which
\* takes a second connection of the same pool.
Deliver(t, d) ==
    /\ d \in Todo(t)
    /\ d \notin orphans
    /\ FreeConnection
    /\ posts' = [posts EXCEPT ![d] = @ + 1]
    /\ Write(t, d, Delivered(pass[t].held[d]))
    /\ UNCHANGED <<ledger, orphans, known, losses>>

\* The adapter throws.  After a timeout the message may be out all the same.
Fail(t, d) ==
    /\ d \in Todo(t)
    /\ d \notin orphans
    /\ FreeConnection
    /\ \/ UNCHANGED posts
       \/ posts' = [posts EXCEPT ![d] = @ + 1]
    /\ Write(t, d, Failed(pass[t].held[d]))
    /\ UNCHANGED <<ledger, orphans, known, losses>>

\* The batch is through: all its rows change together, their locks are gone.
Commit(t) ==
    /\ pass[t] # Null
    /\ Todo(t) = {}
    /\ ledger' = [d \in Deliveries |->
                     IF pass[t].done[d] = Null THEN ledger[d]
                     ELSE Later(pass[t].done[d], pass[t].age)]
    /\ pass' = [pass EXCEPT ![t] = Null]
    /\ UNCHANGED <<orphans, known, posts, losses>>

\* A statement fails or the connection is lost: nothing of the batch is recorded.
LosePass(t) ==
    /\ pass[t] # Null
    /\ losses < MaxLosses
    /\ losses' = losses + 1
    /\ pass' = [pass EXCEPT ![t] = Null]
    /\ UNCHANGED <<ledger, orphans, known, posts>>

\* The process dies or is deployed anew, perhaps with other ENABLED_CHANNELS.
Restart(K) ==
    /\ losses < MaxLosses
    /\ losses' = losses + 1
    /\ known' = K
    /\ pass' = [t \in Passes |-> Null]
    /\ UNCHANGED <<ledger, orphans, posts>>

Handle(t, d) == GiveUpMissing(t, d) \/ Deliver(t, d) \/ Fail(t, d)

Next ==
    \/ \E D \in SUBSET Deliveries : Enqueue(D)
    \/ \E d \in Deliveries : LoseAnnouncement(d)
    \/ AdvanceTime
    \/ \E t \in Passes : Claim(t) \/ Commit(t) \/ LosePass(t)
    \/ \E t \in Passes, d \in Deliveries : Handle(t, d)
    \/ \E K \in SUBSET Channels : Restart(K)

Spec == Init /\ [][Next]_vars

\* setInterval starts passes for ever, an adapter call ends by its timeout, and a
\* transaction whose rows are handled commits.  That a connection becomes free
\* is not assumed: it follows, or it does not.
Fairness ==
    /\ WF_vars(AdvanceTime)
    /\ \A t \in Passes : WF_vars(Claim(t)) /\ WF_vars(Commit(t))
    /\ \A t \in Passes, d \in Deliveries : WF_vars(Handle(t, d))

FairSpec == Spec /\ Fairness

----------------------------------------------------------------------------
(* Properties *)

\* Every variable has its type.
TypeOK ==
    /\ ledger \in [Deliveries -> Entry \cup {Null}]
    /\ orphans \subseteq Deliveries
    /\ known \subseteq Channels
    /\ pass \in [Passes -> Pass \cup {Null}]
    /\ posts \in [Deliveries -> Nat]
    /\ losses \in Nat

\* The rows a pass holds are as it read them, still to be delivered, and no
\* other pass holds them: for update skip locked, seen from the data.
HeldRowsAreOpen ==
    \A t \in Passes, d \in Deliveries : Holds(t, d) =>
        /\ ledger[d] # Null
        /\ ledger[d].status \in {"pending", "failed"}
        /\ ledger[d].attempts = pass[t].held[d]
        /\ \A u \in Passes : Holds(u, d) => u = t

Finished(d) == ledger[d] # Null /\ ledger[d].status \in {"delivered", "exhausted"}

\* Pass t has called the adapter for d and not committed.
Tried(t, d) == pass[t] # Null /\ pass[t].done[d] # Null

InFlight(d) == IF \E t \in Passes : Tried(t, d) THEN 1 ELSE 0

\* A target gets a message again only for an attempt on record as failed, or
\* after a transaction was lost with the message out: overlapping passes add none.
EveryCopyIsAccountedFor ==
    \A d \in Deliveries :
        posts[d] <= (IF ledger[d] = Null THEN 0 ELSE ledger[d].attempts) + InFlight(d) + losses

\* An entry tells what happened: 'delivered' only if the message went out,
\* 'exhausted' only after MAX_ATTEMPTS or without an announcement.
StatusTellsWhatHappened ==
    \A d \in Deliveries : ledger[d] # Null =>
        CASE ledger[d].status = "pending"   -> ledger[d].attempts = 0
          [] ledger[d].status = "failed"    -> ledger[d].attempts \in 1 .. MaxAttempts - 1
          [] ledger[d].status = "delivered" -> ledger[d].attempts \in 1 .. MaxAttempts /\ posts[d] > 0
          [] ledger[d].status = "exhausted" -> ledger[d].attempts = MaxAttempts \/ d \in orphans

\* A delivered row is never sent again, and an exhausted one keeps the
\* next_attempt_at that the health check compares with its window.
FinishedIsFrozen ==
    [][\A d \in Deliveries : Finished(d) =>
           /\ ledger'[d].status = ledger[d].status
           /\ ledger'[d].attempts = ledger[d].attempts
           /\ ledger'[d].wait <= ledger[d].wait
           /\ posts'[d] = posts[d]]_vars

\* The rows of a channel that is switched off keep their status and attempts,
\* and are not sent, however passes and deployments interleave.
SwitchedOffIsLeftAlone ==
    [][\A d \in Deliveries : ledger[d] # Null /\ d[1] \notin known =>
           /\ ledger'[d].status = ledger[d].status
           /\ ledger'[d].attempts = ledger[d].attempts
           /\ posts'[d] = posts[d]]_vars

\* Every delivery whose channel stays on is delivered or given up in the end.
EveryDeliveryEnds ==
    \A d \in Deliveries : <>[](d[1] \in known) => (ledger[d] # Null ~> Finished(d))

\* "adapter timeouts bound the lock time" (comment of runFanoutOnce): a pass ends.
LocksAreReleased ==
    \A t \in Passes : pass[t] # Null ~> pass[t] = Null

============================================================================
