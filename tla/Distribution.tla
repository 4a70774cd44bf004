---------------------------- MODULE Distribution ----------------------------
(***************************************************************************)
(* Who gets an announcement, and what becomes of one delivery of it: the   *)
(* targets an enqueue finds (src/core/outbox.ts) while settings and        *)
(* subscriptions change, the channels a process serves                     *)
(* (enabled-channels.ts, worker/adapters.ts), the adapters of email,       *)
(* Discord and Telegram statement by statement, and the crosspost          *)
(* (adapters/discord-publish.ts), with the note about it in the ledger     *)
(* (worker/fanout.ts).                                                     *)
(*                                                                         *)
(* One revision is sent.  A pass has a batch of one row: overlapping       *)
(* passes, larger batches and backoffs are Fanout's subject, the webhook's *)
(* adapter WebhookRegistration's.  Signal is a channel like Telegram.      *)
(***************************************************************************)
EXTENDS Integers

CONSTANTS
    Settings,       \* keys of channel_settings
    Subscribers,    \* ids of email subscriptions; who returns has another one
    Configurations, \* sets of channels ENABLED_CHANNELS may name
    MaxAttempts,    \* 5 in the code
    MaxLosses,      \* bound on transactions and processes that die
    MaxChanges,     \* bound on what people change
    Null

Services  == {"discord", "telegram"}
Channels  == Services \cup {"email"}
Targets   == (Services \X Settings) \cup ({"email"} \X Subscribers)
Processes == {"web", "worker"}

\* A row of channel_settings: whether its networks and types match the announcement,
\* and auto_publish, which only Discord's have.  A write replaces the whole config, so
\* that it has the address of its own channel and of no other.
Setting == {s \in [channel: Services, matching: BOOLEAN, auto: BOOLEAN] : s.channel = "discord" \/ s.auto}

Subscription == [verified: BOOLEAN, matching: BOOLEAN]

Notes == {"published", "already_published", "skipped", "failed"}

Entry == [status: {"pending", "failed", "delivered", "exhausted"}, attempts: Nat, note: Notes \cup {Null}]

\* The enqueue: the process it runs in, and what it has found so far.
Enqueue == [at: {"settings", "subscriptions", "insert"}, by: Processes, found: SUBSET Targets]

\* A pass: the row it holds, whether it saw the note's column, auto_publish as
\* it was read, the crosspost's attempt, the note, and what became of its
\* message (out, with the followers).
Places == {"claim", "read", "post", "lookup", "crosspost", "delivered", "failed"}
Pass == [at: Places, row: Targets \cup {Null}, noted: BOOLEAN, auto: BOOLEAN, try: 1..2,
         note: Notes \cup {Null}, out: BOOLEAN, followed: BOOLEAN]

ASSUME DistributionAssumption ==
    /\ Configurations \subseteq SUBSET Channels
    /\ MaxAttempts \in Nat \ {0} /\ MaxLosses \in Nat /\ MaxChanges \in Nat
    /\ Null \notin Setting \cup Subscription \cup Entry \cup Enqueue \cup Pass \cup Targets \cup Notes

VARIABLES
    setting,        \* table channel_settings
    subscription,   \* table subscriptions
    enabled,        \* per process, the channels its ENABLED_CHANNELS names
    bot,            \* DISCORD_BOT_TOKEN is set in the worker
    column,         \* delivery_ledger has publish_note (migration 020)
    enqueue,        \* the enqueue under way, or Null
    published,      \* whether it is committed
    ledger,         \* table delivery_ledger
    pass,           \* the pass under way, or Null
    posts,          \* per row, messages that reached their target
    late,           \* per row, those of attempts that failed all the same
    followed,       \* per row, messages that reached the followers
    losses, changes,
    ever, always    \* who was a target at some, at every moment of the enqueue

tables    == <<setting, subscription>>
processes == <<enabled, bot, column>>
history   == <<posts, late, followed>>
watched   == <<ever, always>>
vars == <<tables, processes, enqueue, published, ledger, pass, history, losses, changes, watched>>

NewEntry == [status |-> "pending", attempts |-> 0, note |-> Null]

\* Whatever was configured and subscribed before.
Init ==
    /\ setting \in [Settings -> Setting \cup {Null}]
    /\ subscription \in [Subscribers -> Subscription]
    /\ enabled \in [Processes -> {Channels}] /\ bot \in BOOLEAN /\ column \in BOOLEAN
    /\ enqueue = Null /\ published = FALSE /\ pass = Null
    /\ ledger = [t \in Targets |-> Null]
    /\ posts = [t \in Targets |-> 0] /\ late = posts /\ followed = posts
    /\ losses = 0 /\ changes = 0
    /\ ever = {} /\ always = {}

----------------------------------------------------------------------------
(* Targets *)

\* broadcastTargetsFor
BroadcastTargets == {t \in Services \X Settings :
    LET s == setting[t[2]] IN s # Null /\ s.channel = t[1] /\ s.matching}

\* The verified subscriptions that match.
SubscriptionTargets == {t \in {"email"} \X Subscribers :
    LET s == subscription[t[2]] IN s # Null /\ s.verified /\ s.matching}

\* Who an enqueue by this process would reach now.
Standing == {t \in BroadcastTargets \cup SubscriptionTargets : t[1] \in enabled[enqueue.by]}

Watch ==
    IF enqueue' = Null THEN ever' = {} /\ always' = {}
    ELSE IF enqueue = Null THEN ever' = Standing' /\ always' = Standing'
    ELSE ever' = ever \cup Standing' /\ always' = always \cap Standing'

----------------------------------------------------------------------------
(* Settings, subscriptions, processes *)

Change == changes < MaxChanges /\ changes' = changes + 1

\* scripts/setup-channel.ts
SetUpChannel(k, s) ==
    /\ Change
    /\ setting' = [setting EXCEPT ![k] = s]
    /\ setting' # setting
    /\ UNCHANGED <<subscription, processes, enqueue, published, ledger, pass, history, losses>>
    /\ Watch

\* A confirmation, a change of filters.
ChangeSubscription(s, matching) ==
    /\ Change
    /\ subscription[s] # Null
    /\ subscription' = [subscription EXCEPT ![s] = [verified |-> TRUE, matching |-> matching]]
    /\ subscription' # subscription
    /\ UNCHANGED <<setting, processes, enqueue, published, ledger, pass, history, losses>>
    /\ Watch

Unsubscribe(s) ==
    /\ Change
    /\ subscription[s] # Null
    /\ subscription' = [subscription EXCEPT ![s] = Null]
    /\ UNCHANGED <<setting, processes, enqueue, published, ledger, pass, history, losses>>
    /\ Watch

\* A process ends with the transaction it is in, and starts with another
\* environment, which it reads once.
Restart(p, channels, token) ==
    /\ Change
    /\ enabled' = [enabled EXCEPT ![p] = channels]
    /\ bot' = IF p = "worker" THEN token ELSE bot
    /\ IF p = "worker" /\ pass # Null THEN losses < MaxLosses /\ losses' = losses + 1 ELSE UNCHANGED losses
    /\ enqueue' = IF enqueue # Null /\ enqueue.by = p THEN Null ELSE enqueue
    /\ pass' = IF p = "worker" THEN Null ELSE pass
    /\ UNCHANGED <<tables, column, published, ledger, history>>
    /\ Watch

\* Migration 020, for which a pass that holds a row makes the table wait.
Migrate ==
    /\ ~ column /\ column' = TRUE
    /\ pass # Null => pass.row = Null
    /\ UNCHANGED <<tables, enabled, bot, enqueue, published, ledger, pass, history, losses, changes, watched>>

----------------------------------------------------------------------------
(* enqueueDeliveries *)

\* Faulty variant: subscriptions are not asked whether their channel is on.
EnabledBroadcasts(p, targets) == {t \in targets : t[1] \in enabled[p] \/ t[1] = "email"}

Enabled(p, targets) == {t \in targets : t[1] \in enabled[p]}

\* A publisher's operation or the worker's pass over the schedule.
Publish(p) ==
    /\ ~ published /\ enqueue = Null
    /\ enqueue' = [at |-> "settings", by |-> p, found |-> {}]
    /\ UNCHANGED <<tables, processes, published, ledger, pass, history, losses, changes>>
    /\ Watch

\* countFanoutTargets is two statements, each with its snapshot.
SelectSettings ==
    /\ enqueue # Null /\ enqueue.at = "settings"
    /\ enqueue' = [enqueue EXCEPT !.at = "subscriptions", !.found = BroadcastTargets]
    /\ UNCHANGED <<tables, processes, published, ledger, pass, history, losses, changes>>
    /\ Watch

SelectSubscriptions ==
    /\ enqueue # Null /\ enqueue.at = "subscriptions"
    /\ enqueue' = [enqueue EXCEPT !.at = "insert", !.found = @ \cup SubscriptionTargets]
    /\ UNCHANGED <<tables, processes, published, ledger, pass, history, losses, changes>>
    /\ Watch

\* The inserts, and the commit that makes them visible.
InsertDeliveries ==
    /\ enqueue # Null /\ enqueue.at = "insert"
    /\ ledger' = [t \in Targets |->
         IF t \in Enabled(enqueue.by, enqueue.found) THEN NewEntry ELSE ledger[t]]
    /\ enqueue' = Null /\ published' = TRUE
    /\ UNCHANGED <<tables, processes, pass, history, losses, changes>>
    /\ Watch

----------------------------------------------------------------------------
(* runFanoutOnce *)

Hands == UNCHANGED <<tables, processes, enqueue, published, changes, watched>>

\* The look for the column comes before the transaction.
BeginPass ==
    /\ pass = Null /\ enabled["worker"] # {}
    /\ pass' = [at |-> "claim", row |-> Null, noted |-> column, auto |-> FALSE, try |-> 1,
                note |-> Null, out |-> FALSE, followed |-> FALSE]
    /\ Hands /\ UNCHANGED <<ledger, history, losses>>

\* Faulty variant: a pass takes rows of any channel.
DueOfAnyChannel == {t \in Targets : ledger[t] # Null /\ ledger[t].status \in {"pending", "failed"}}

Due == {t \in Targets :
    ledger[t] # Null /\ ledger[t].status \in {"pending", "failed"} /\ t[1] \in enabled["worker"]}

In(place) == pass # Null /\ pass.at = place

Claim ==
    /\ In("claim")
    /\ \/ Due = {} /\ pass' = Null
       \/ \E t \in Due : pass' = [pass EXCEPT !.at = "read", !.row = t]
    /\ Hands /\ UNCHANGED <<ledger, history, losses>>

\* An attempt counts whatever comes of it.
Settled(status) ==
    LET entry == ledger[pass.row]
        n     == entry.attempts + 1
    IN  [ledger EXCEPT ![pass.row] =
          IF status = "delivered"
          THEN [status |-> status, attempts |-> n, note |-> IF pass.noted THEN pass.note ELSE entry.note]
          ELSE [entry EXCEPT !.status = IF n >= MaxAttempts THEN "exhausted" ELSE "failed", !.attempts = n]]

Commit ==
    /\ \E status \in {"delivered", "failed"} : In(status) /\ ledger' = Settled(status)
    /\ pass' = Null
    /\ Hands /\ UNCHANGED <<history, losses>>

\* The transaction or its process dies.
Lose ==
    /\ pass # Null /\ losses < MaxLosses
    /\ pass' = Null /\ losses' = losses + 1
    /\ Hands /\ UNCHANGED <<ledger, history>>

----------------------------------------------------------------------------
(* deliver *)

\* An adapter throws on a target that is gone, on a subscription that is not
\* verified and on a setting without an address of its service.
Deliverable(t) ==
    IF t[1] = "email"
    THEN subscription[t[2]] # Null /\ subscription[t[2]].verified
    ELSE setting[t[2]] # Null /\ setting[t[2]].channel = t[1]

ReadTarget ==
    /\ In("read")
    /\ pass' = IF Deliverable(pass.row)
               THEN [pass EXCEPT !.at = "post", !.auto = pass.row[1] \in Services /\ setting[pass.row[2]].auto]
               ELSE [pass EXCEPT !.at = "failed"]
    /\ Hands /\ UNCHANGED <<ledger, history, losses>>

Goto(place)   == pass' = [pass EXCEPT !.at = place]
Note(note)    == pass' = [pass EXCEPT !.at = "delivered", !.note = note, !.out = TRUE]
More(count)   == [count EXCEPT ![pass.row] = @ + 1]

\* The service accepts the message.  Discord's adapter goes on if the channel is
\* to be published and there is a token; the others have no note.
Accepted ==
    /\ In("post")
    /\ posts' = More(posts)
    /\ IF pass.row[1] # "discord" THEN Note(Null)
       ELSE IF pass.auto /\ bot THEN pass' = [pass EXCEPT !.at = "lookup", !.out = TRUE]
       ELSE Note("skipped")
    /\ Hands /\ UNCHANGED <<ledger, late, followed, losses>>

\* It refuses, or the answer is lost or unreadable.
Refused ==
    /\ In("post")
    /\ \/ UNCHANGED <<posts, late>>
       \/ posts' = More(posts) /\ late' = More(late)
    /\ Goto("failed")
    /\ Hands /\ UNCHANGED <<ledger, followed, losses>>

----------------------------------------------------------------------------
(* publishToFollowers *)

\* Faulty variant: a failure is thrown.
PublishThrows == Goto("failed")

\* A failure is a note: the message is out.
PublishFails == Note("failed")

\* No id of a message, no answer, or a channel that has no followers.
LookUp ==
    /\ In("lookup")
    /\ Goto("crosspost") \/ PublishFails \/ Note("skipped")
    /\ Hands /\ UNCHANGED <<ledger, history, losses>>

\* Faulty variant: having tried twice is enough.
TriedTwice == IF pass.try = 1 THEN pass' = [pass EXCEPT !.try = 2] ELSE Note("published")

\* A short wait is waited for once.
RateLimited == \/ pass.try = 1 /\ pass' = [pass EXCEPT !.try = 2]
               \/ PublishFails

Crosspost ==
    /\ In("crosspost")
    /\ \/ ~ pass.followed /\ followed' = More(followed) /\ (Note("published") \/ PublishFails)
       \/ pass.followed /\ Note("already_published") /\ UNCHANGED followed
       \/ (RateLimited \/ PublishFails) /\ UNCHANGED followed
    /\ Hands /\ UNCHANGED <<ledger, posts, late, losses>>

\* Somebody publishes the message in Discord.
PublishByHand ==
    /\ In("crosspost") /\ ~ pass.followed
    /\ pass' = [pass EXCEPT !.followed = TRUE] /\ followed' = More(followed)
    /\ Hands /\ UNCHANGED <<ledger, posts, late, losses>>

----------------------------------------------------------------------------

Next ==
    \/ \E k \in Settings, s \in Setting : SetUpChannel(k, s)
    \/ \E s \in Subscribers : Unsubscribe(s) \/ \E m \in BOOLEAN : ChangeSubscription(s, m)
    \/ \E p \in Processes : Publish(p) \/ \E C \in Configurations, b \in BOOLEAN : Restart(p, C, b)
    \/ Migrate \/ SelectSettings \/ SelectSubscriptions \/ InsertDeliveries
    \/ BeginPass \/ Claim \/ Commit \/ Lose
    \/ ReadTarget \/ Accepted \/ Refused \/ LookUp \/ Crosspost \/ PublishByHand

Spec == Init /\ [][Next]_vars

----------------------------------------------------------------------------
(* Properties *)

\* Every variable keeps to its type; a crosspost is tried twice at most, so that the
\* row's lock is held for a bounded time (publishToFollowers).
TypeOK ==
    /\ setting \in [Settings -> Setting \cup {Null}]
    /\ subscription \in [Subscribers -> Subscription \cup {Null}]
    /\ enabled \in [Processes -> SUBSET Channels] /\ bot \in BOOLEAN /\ column \in BOOLEAN
    /\ enqueue \in Enqueue \cup {Null} /\ published \in BOOLEAN
    /\ ledger \in [Targets -> Entry \cup {Null}]
    /\ pass \in Pass \cup {Null}
    /\ posts \in [Targets -> Nat] /\ late \in [Targets -> Nat] /\ followed \in [Targets -> Nat]
    /\ losses \in 0..MaxLosses /\ changes \in 0..MaxChanges
    /\ ever \subseteq Targets /\ always \subseteq Targets

\* Settings, subscriptions and their filters may change between the statements of
\* an enqueue, and the processes may serve different channels: nobody is left out who
\* was a target all the time, and nobody gets a row who was one at no moment
\* (countFanoutTargets).
TargetsAreThoseThatStood ==
    [][ledger' # ledger /\ pass' = pass =>
          /\ always \subseteq {t \in Targets : ledger'[t] # Null}
          /\ {t \in Targets : ledger'[t] # Null} \subseteq ever]_vars

Here(t) == IF pass # Null /\ pass.row = t /\ pass.out THEN 1 ELSE 0
Sent(t) == IF ledger[t] # Null /\ ledger[t].status = "delivered" THEN 1 ELSE 0

\* "From here on nothing may throw": whatever becomes of the crosspost, a message
\* that was accepted is posted again, and shown to the followers again, only
\* after a transaction was lost.
AcceptedOnce ==
    \A t \in Targets :
        /\ posts[t] - late[t] <= Sent(t) + Here(t) + losses
        /\ followed[t] <= Sent(t) + Here(t) + losses

\* The note says what became of the message: with the followers, or not unless a
\* lost transaction had put it there (publishToFollowers).
NotesAreTrue ==
    \A t \in Targets : Sent(t) = 1 =>
        /\ ledger[t].note \in {"published", "already_published"} => followed[t] > 0
        /\ ledger[t].note = "skipped" => followed[t] <= losses

============================================================================
