---------------------------- MODULE HealthAlerts ----------------------------
(***************************************************************************)
(* The alerts about failed deliveries (src/core/health.ts, alerts.ts), on  *)
(* top of the ledger as DeliveryLadder describes it.                       *)
(*                                                                         *)
(* After its fan-out every tick asks the ledger for issues, one statement  *)
(* per kind, and inserts the key of each into alert_state.  A transaction  *)
(* then locks the keys nobody was told of, sends one mail about them and   *)
(* marks them.  Ticks overlap, in one process and between processes.  The  *)
(* mail is out before the transaction commits, or is lost.                 *)
(*                                                                         *)
(* The ledger here is that of one announcement; a mail is the set of       *)
(* keys it names.  Time is relative, as in the ledger: since is the age of *)
(* the time stamp that the queries read, up to Window.                     *)
(***************************************************************************)
EXTENDS Ledger

CONSTANTS
    Dispatches,     \* calls of dispatchHealthAlerts that may overlap
    LongestPass,    \* minutes from the now() of a fan-out pass to its commit
    Grace,          \* 30 minutes in the code
    Window,         \* 24 hours in the code
    MaxDelay,       \* bound: minutes the worker is late with anything
    MaxLosses       \* bound: sends that fail and processes that die

Kinds == {"exhausted", "publish_failed", "no_delivery"}

\* alertKey: kind, channel, target, announcement and revision.
Keys == Kinds \X Deliveries

Stages == Kinds \cup {"record", "send", "mark"}

\* A dispatch: where it is, the issues it saw, the keys it has locked, its age.
Run == [stage: Stages, keys: SUBSET Keys, fresh: SUBSET Keys, age: Nat]

ASSUME AlertsAssumption ==
    /\ LongestPass \in Nat /\ Grace \in Nat /\ MaxLosses \in Nat
    /\ Window \in Nat \ {0} /\ MaxDelay \in Nat \ {0}
    /\ Null \notin Run /\ Null \notin {"open", "notified"}

VARIABLES
    ledger, orphans, known,     \* the ledger, see DeliveryLadder
    since,          \* minutes since delivered_at or else next_attempt_at, up to Window
    unpublished,    \* delivered rows whose publish_note is like 'failed:%'
    publishedAgo,   \* minutes since published_at, up to Window, or Null
    alert,          \* alert_state: Null, "open" (notified_at is null) or "notified"
    run,            \* per dispatch, its progress or Null
    mails,          \* how many mails named the key
    idle,           \* minutes since a dispatch began
    losses          \* how many sends failed and processes died

Ladder == INSTANCE DeliveryLadder

ladderVars == <<ledger, orphans, known>>
issueVars  == <<ledger, orphans, known, since, unpublished, publishedAgo>>
alertVars  == <<alert, run, mails, idle, losses>>
vars       == <<issueVars, alertVars>>

Init ==
    /\ Ladder!Init
    /\ since = [d \in Deliveries |-> 0]
    /\ unpublished = {}
    /\ publishedAgo = Null
    /\ alert = [k \in Keys |-> Null]
    /\ run = [p \in Dispatches |-> Null]
    /\ mails = [k \in Keys |-> 0]
    /\ idle = 0
    /\ losses = 0

----------------------------------------------------------------------------
(* What the alerts watch *)

\* The web application may serve other channels than the worker does.
Publish(D) ==
    /\ publishedAgo = Null
    /\ Ladder!Enqueue(D)
    /\ publishedAgo' = 0
    /\ UNCHANGED <<since, unpublished, alertVars>>

\* A fan-out pass commits.  For Discord the post may not reach the followers.
FanOut(D) ==
    \E written \in Ladder!AnyOutcomes(D), age \in 0 .. LongestPass :
        /\ D # {}
        /\ Ladder!Settle(D, written, age)
        /\ since' = [d \in Deliveries |->
                        IF d \in D THEN Monus(age, written[d].wait) ELSE since[d]]
        /\ \E failed \in SUBSET {d \in D : written[d].status = "delivered"} :
              unpublished' = unpublished \cup failed
        /\ UNCHANGED <<publishedAgo, alertVars>>

LoseAnnouncement ==
    /\ publishedAgo # Null
    /\ orphans = {}
    /\ Ladder!LoseAnnouncement(Deliveries)
    /\ UNCHANGED <<since, unpublished, publishedAgo, alertVars>>

Capped(m) == IF m < Window THEN m + 1 ELSE Window

\* A worker that runs keeps no due row, no dispatch and no tick waiting for more
\* than MaxDelay.
InTime ==
    /\ idle < MaxDelay
    /\ \A p \in Dispatches : run[p] # Null => run[p].age < MaxDelay
    /\ \A d \in Deliveries : Ladder!Due(d) => since[d] < MaxDelay

AdvanceTime ==
    /\ publishedAgo # Null
    /\ InTime
    /\ Ladder!AdvanceTime
    /\ since' = [d \in Deliveries |->
                    IF ledger[d] # Null /\ ledger[d].wait = 0 THEN Capped(since[d]) ELSE since[d]]
    /\ publishedAgo' = Capped(publishedAgo)
    /\ run' = [p \in Dispatches |->
                  IF run[p] = Null THEN Null ELSE [run[p] EXCEPT !.age = @ + 1]]
    /\ idle' = idle + 1
    /\ UNCHANGED <<unpublished, alert, mails, losses>>

----------------------------------------------------------------------------
(* evaluateChannelHealth *)

\* next_attempt_at > now() - Window
Exhausted ==
    {d \in Deliveries : /\ ledger[d] # Null
                        /\ ledger[d].status = "exhausted"
                        /\ ledger[d].wait > 0 \/ since[d] < Window}

PublishFailed == {d \in unpublished : since[d] < Window}

\* Faulty variant: no grace period.
SilentAtOnce ==
    {d \in Deliveries : /\ ledger[d] # Null /\ d \notin orphans
                        /\ publishedAgo < Window
                        /\ ledger[d].status \notin {"delivered", "exhausted"}}

\* The join drops the rows whose announcement is gone.
Silent ==
    {d \in Deliveries : /\ ledger[d] # Null /\ d \notin orphans
                        /\ publishedAgo > Grace /\ publishedAgo < Window
                        /\ ledger[d].status \notin {"delivered", "exhausted"}}

Issues == [exhausted |-> Exhausted, publish_failed |-> PublishFailed, no_delivery |-> Silent]

Following == [exhausted |-> "publish_failed", publish_failed |-> "no_delivery",
              no_delivery |-> "record"]

\* One of the three queries, each with a snapshot of its own.
Query(p) ==
    /\ run[p] # Null /\ run[p].stage \in Kinds
    /\ LET keys == run[p].keys \cup ({run[p].stage} \X Issues[run[p].stage])
           next == Following[run[p].stage]
       IN  run' = [run EXCEPT ![p] =
                      IF next = "record" /\ keys = {} THEN Null
                      ELSE [@ EXCEPT !.stage = next, !.keys = keys]]
    /\ UNCHANGED <<issueVars, alert, mails, idle, losses>>

----------------------------------------------------------------------------
(* dispatchHealthAlerts *)

Begin(p) ==
    /\ publishedAgo # Null
    /\ run[p] = Null
    /\ run' = [run EXCEPT ![p] = [stage |-> "exhausted", keys |-> {}, fresh |-> {}, age |-> 0]]
    /\ idle' = 0
    /\ UNCHANGED <<issueVars, alert, mails, losses>>

\* insert into alert_state ... on conflict do nothing, one statement per key.
Record(p, k) ==
    /\ run[p] # Null /\ run[p].stage = "record" /\ k \in run[p].keys
    /\ alert[k] = Null
    /\ alert' = [alert EXCEPT ![k] = "open"]
    /\ UNCHANGED <<issueVars, run, mails, idle, losses>>

Locks(p) == IF run[p] = Null THEN {} ELSE run[p].fresh

\* Faulty variant: the keys are selected without for update.
NeverLocked(k) == FALSE

Locked(k) == \E p \in Dispatches : k \in Locks(p)

Untold(k) == alert[k] = "open"

\* select ... where notified_at is null for update skip locked
Claim(p) ==
    /\ run[p] # Null /\ run[p].stage = "record"
    /\ \A k \in run[p].keys : alert[k] # Null
    /\ LET fresh == {k \in run[p].keys : Untold(k) /\ ~ Locked(k)}
       IN  run' = [run EXCEPT ![p] =
                      IF fresh = {} THEN Null ELSE [@ EXCEPT !.stage = "send", !.fresh = fresh]]
    /\ UNCHANGED <<issueVars, alert, mails, idle, losses>>

Mailed(p) == [k \in Keys |-> IF k \in run[p].fresh THEN mails[k] + 1 ELSE mails[k]]

Send(p) ==
    /\ run[p] # Null /\ run[p].stage = "send"
    /\ mails' = Mailed(p)
    /\ run' = [run EXCEPT ![p].stage = "mark"]
    /\ UNCHANGED <<issueVars, alert, idle, losses>>

\* Faulty variant: the keys are marked although the send failed.
SendFailsButMarks(p) ==
    /\ run[p] # Null /\ run[p].stage = "send"
    /\ losses < MaxLosses
    /\ losses' = losses + 1
    /\ UNCHANGED mails
    /\ alert' = [k \in Keys |-> IF k \in run[p].fresh THEN "notified" ELSE alert[k]]
    /\ run' = [run EXCEPT ![p] = Null]
    /\ UNCHANGED <<issueVars, idle>>

\* The sender throws; after a timeout the mail may be out all the same.
SendFails(p) ==
    /\ run[p] # Null /\ run[p].stage = "send"
    /\ losses < MaxLosses
    /\ losses' = losses + 1
    /\ mails' \in {mails, Mailed(p)}
    /\ run' = [run EXCEPT ![p] = Null]
    /\ UNCHANGED <<issueVars, alert, idle>>

\* notified_at is set and the transaction commits.
Mark(p) ==
    /\ run[p] # Null /\ run[p].stage = "mark"
    /\ alert' = [k \in Keys |-> IF k \in run[p].fresh THEN "notified" ELSE alert[k]]
    /\ run' = [run EXCEPT ![p] = Null]
    /\ UNCHANGED <<issueVars, mails, idle, losses>>

\* The connection of a dispatch is lost, at any point.
Lose(p) ==
    /\ run[p] # Null
    /\ losses < MaxLosses
    /\ losses' = losses + 1
    /\ run' = [run EXCEPT ![p] = Null]
    /\ UNCHANGED <<issueVars, alert, mails, idle>>

\* The process dies or is deployed anew, perhaps with other ENABLED_CHANNELS.
Restart(K) ==
    /\ losses < MaxLosses
    /\ losses' = losses + 1
    /\ Ladder!Serve(K)
    /\ run' = [p \in Dispatches |-> Null]
    /\ UNCHANGED <<since, unpublished, publishedAgo, alert, mails, idle>>

Next ==
    \/ \E D \in SUBSET Deliveries : Publish(D)
    \/ \E D \in SUBSET {d \in Deliveries : Ladder!Due(d)} : FanOut(D)
    \/ LoseAnnouncement
    \/ AdvanceTime
    \/ \E p \in Dispatches :
          Begin(p) \/ Query(p) \/ Claim(p) \/ Send(p) \/ SendFails(p) \/ Mark(p) \/ Lose(p)
    \/ \E p \in Dispatches, k \in Keys : Record(p, k)
    \/ \E K \in SUBSET Channels : Restart(K)

Spec == Init /\ [][Next]_vars

----------------------------------------------------------------------------
(* Properties *)

\* Every variable has its type.
TypeOK ==
    /\ ledger \in [Deliveries -> Entry \cup {Null}]
    /\ orphans \subseteq Deliveries /\ known \subseteq Channels
    /\ since \in [Deliveries -> Nat]
    /\ unpublished \subseteq Deliveries
    /\ publishedAgo \in Nat \cup {Null}
    /\ alert \in [Keys -> {Null, "open", "notified"}]
    /\ run \in [Dispatches -> Run \cup {Null}]
    /\ mails \in [Keys -> Nat]
    /\ idle \in Nat /\ losses \in Nat

\* Some dispatch has sent its mail about k and not committed.
InFlight(k) == \E p \in Dispatches : k \in Locks(p) /\ run[p].stage = "mark"

\* "concurrent worker instances never double-alert" (README, Alerting): a key is
\* mailed again only after a transaction was lost between its mail and its commit.
EveryMailIsAccountedFor ==
    \A k \in Keys :
        mails[k] <= (IF alert[k] = "notified" \/ InFlight(k) THEN 1 ELSE 0) + losses

\* A mail stays true of the ledger: what it calls exhausted or delivered but not
\* published still is, and what it calls silent had its grace period.
AlertsAreTrue ==
    \A d \in Deliveries :
        /\ mails[<<"exhausted", d>>] > 0 => ledger[d].status = "exhausted"
        /\ mails[<<"publish_failed", d>>] > 0 => ledger[d].status = "delivered"
        /\ mails[<<"no_delivery", d>>] > 0 => publishedAgo > Grace

\* A delivery that is given up, or does not reach the followers, is reported
\* before its window closes.
EveryFailureIsReported ==
    \A d \in Deliveries :
        since[d] = Window =>
            /\ (ledger[d].status = "exhausted" /\ ledger[d].wait = 0) => mails[<<"exhausted", d>>] > 0
            /\ d \in unpublished => mails[<<"publish_failed", d>>] > 0

============================================================================
