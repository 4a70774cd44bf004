------------------------- MODULE DistributionProofs -------------------------
(***************************************************************************)
(* Proofs about Distribution.  Who gets a row rests on what the enqueue    *)
(* has found so far, compared with who stood as a target before and since. *)
(* What became of a delivery rests on the lock of its row: from the claim  *)
(* to the commit nobody else settles it, and the pass knows whether its    *)
(* message is out and before the followers.                                *)
(***************************************************************************)
EXTENDS DistributionRefinement, TLAPS

----------------------------------------------------------------------------
(* The invariant *)

\* Nothing is in the ledger before the enqueue commits.  Whoever stood as a target
\* since it began is among those found, if the query for them is done, and who was
\* found and is served has stood.
EnqueueIsSound ==
    /\ ~ published => \A t \in Targets : ledger[t] = Null
    /\ enqueue # Null =>
          /\ ~ published
          /\ always \subseteq Standing /\ Standing \subseteq ever
          /\ enqueue.at = "subscriptions" =>
                /\ {t \in always : t[1] \in Services} \subseteq enqueue.found
                /\ Enabled(enqueue.by, enqueue.found) \subseteq ever
          /\ enqueue.at = "insert" =>
                /\ always \subseteq Enabled(enqueue.by, enqueue.found)
                /\ Enabled(enqueue.by, enqueue.found) \subseteq ever

\* A row is open as long as a pass holds it, and the pass says whether its message is out.
RowIsHeld ==
    pass # Null =>
        /\ pass.row = Null <=> pass.at = "claim"
        /\ pass.row # Null => ledger[pass.row] # Null /\ ledger[pass.row].status \in {"pending", "failed"}
        /\ pass.out <=> pass.at \in {"lookup", "crosspost", "delivered"}
        /\ pass.followed => pass.at \in {"crosspost", "delivered"}

\* What a pass is about to write about the followers is true.
PassTellsTheTruth ==
    pass # Null =>
        /\ pass.at = "crosspost" /\ pass.followed => followed[pass.row] > 0
        /\ pass.at = "delivered" =>
              /\ pass.note \in {"published", "already_published"} => followed[pass.row] > 0
              /\ pass.note = "skipped" => followed[pass.row] <= losses

Num(b) == IF b THEN 1 ELSE 0

\* The followers may have the message of a pass.
Shown(w) == w.followed \/ w.at = "delivered"

InHand(t) == IF pass # Null /\ pass.row = t THEN Num(Shown(pass)) ELSE 0

\* Copies beyond the one on record or in hand are losses; only a delivered row has a note.
CopiesAreCounted ==
    \A t \in Targets :
        /\ posts[t] - late[t] <= Sent(t) + Here(t) + losses
        /\ followed[t] <= Sent(t) + InHand(t) + losses
        /\ ledger[t] # Null /\ ledger[t].status # "delivered" => ledger[t].note = Null

DistributionInv ==
    TypeOK /\ EnqueueIsSound /\ RowIsHeld /\ PassTellsTheTruth /\ CopiesAreCounted /\ NotesAreTrue

----------------------------------------------------------------------------
(* The enqueue *)

\* Null is none of the values.
LEMMA NullIsNone ==
    /\ \A s \in Setting : s # Null
    /\ \A s \in Subscription : s # Null
    /\ \A e \in Entry : e # Null
    /\ \A e \in Enqueue : e # Null
    /\ \A w \in Pass : w # Null
    /\ \A t \in Targets : t # Null
    /\ \A n \in Notes : n # Null
  BY DistributionAssumption

\* A target is of a service or a subscription, not both.
LEMMA StandingIsTargets ==
    /\ BroadcastTargets \subseteq Services \X Settings
    /\ SubscriptionTargets \subseteq {"email"} \X Subscribers
    /\ Standing \subseteq Targets /\ Standing' \subseteq Targets
  <1>1. /\ BroadcastTargets \subseteq Services \X Settings
        /\ BroadcastTargets' \subseteq Services \X Settings
    BY DEF BroadcastTargets
  <1>2. /\ SubscriptionTargets \subseteq {"email"} \X Subscribers
        /\ SubscriptionTargets' \subseteq {"email"} \X Subscribers
    BY DEF SubscriptionTargets
  <1> QED
    BY <1>1, <1>2 DEF Standing, Targets

\* What is watched is ahead of every step of the enqueue.
LEMMA WatchKeeps ==
    ASSUME TypeOK, Watch
    PROVE  /\ ever' \subseteq Targets /\ always' \subseteq Targets
           /\ enqueue' # Null => always' \subseteq Standing' /\ Standing' \subseteq ever'
           /\ enqueue' # Null /\ enqueue # Null => always' \subseteq always /\ ever \subseteq ever'
  BY StandingIsTargets DEF Watch, TypeOK

\* An enqueue that waits, or dies, stays sound whatever happens to the tables.
LEMMA EnqueueWaits ==
    ASSUME DistributionInv, Watch, UNCHANGED <<ledger, published>>, enqueue' \in {enqueue, Null},
           enqueue' # Null => enabled'[enqueue.by] = enabled[enqueue.by]
    PROVE  EnqueueIsSound'
  <1>1. TypeOK /\ EnqueueIsSound
    BY DEF DistributionInv
  <1>2. CASE enqueue' = Null
    BY <1>1, <1>2 DEF EnqueueIsSound
  <1>3. CASE enqueue' # Null
    <2>1. enqueue' = enqueue /\ enqueue # Null
      BY <1>3
    <2>2. /\ always' \subseteq Standing' /\ Standing' \subseteq ever'
          /\ always' \subseteq always /\ ever \subseteq ever'
      BY <1>1, <1>3, <2>1, WatchKeeps
    <2>3. Enabled(enqueue.by, enqueue.found)' = Enabled(enqueue.by, enqueue.found)
      BY <2>1 DEF Enabled
    <2>4. {t \in always' : t[1] \in Services} \subseteq {t \in always : t[1] \in Services}
      BY <2>2
    <2> QED
      BY <1>1, <2>1, <2>2, <2>3, <2>4 DEF EnqueueIsSound
  <1> QED
    BY <1>2, <1>3

\* Who stands as a target does not change while the tables and the environment stay.
LEMMA StandingStays ==
    ASSUME UNCHANGED <<tables, enabled>>, enqueue'.by = enqueue.by
    PROVE  Standing' = Standing /\ BroadcastTargets' = BroadcastTargets /\ SubscriptionTargets' = SubscriptionTargets
  <1>1. BroadcastTargets' = BroadcastTargets /\ SubscriptionTargets' = SubscriptionTargets
    BY DEF BroadcastTargets, SubscriptionTargets, tables
  <1> QED
    BY <1>1 DEF Standing

\* Numbers a proof needs.
LEMMA Counts ==
    ASSUME DistributionInv, NEW t \in Targets
    PROVE  /\ posts[t] \in Nat /\ late[t] \in Nat /\ followed[t] \in Nat /\ losses \in Nat
           /\ Sent(t) \in {0, 1} /\ Here(t) \in {0, 1} /\ InHand(t) \in {0, 1}
  BY DistributionAssumption DEF DistributionInv, TypeOK, Sent, Here, InHand, Num

\* A pass that waits changes nothing; one that dies has its message as a loss.
LEMMA PassWaits ==
    ASSUME DistributionInv, UNCHANGED <<ledger, history>>,
           \/ pass' = pass /\ losses' = losses
           \/ pass' = Null /\ losses' = losses + 1
    PROVE  RowIsHeld' /\ PassTellsTheTruth' /\ CopiesAreCounted' /\ NotesAreTrue'
  <1>1. losses \in Nat /\ losses' \in {losses, losses + 1}
    BY DistributionAssumption DEF DistributionInv, TypeOK
  <1>2. RowIsHeld'
    BY DEF RowIsHeld, DistributionInv, history
  <1>3. PassTellsTheTruth'
    BY DEF PassTellsTheTruth, DistributionInv, history
  <1>4. ASSUME NEW t \in Targets
        PROVE  /\ posts'[t] - late'[t] <= Sent(t)' + Here(t)' + losses'
               /\ followed'[t] <= Sent(t)' + InHand(t)' + losses'
               /\ ledger'[t] # Null /\ ledger'[t].status # "delivered" => ledger'[t].note = Null
    <2>1. Sent(t)' = Sent(t) /\ UNCHANGED <<posts, late, followed>>
      BY DEF Sent, history
    <2>2. /\ posts[t] - late[t] <= Sent(t) + Here(t) + losses
          /\ followed[t] <= Sent(t) + InHand(t) + losses
          /\ ledger[t] # Null /\ ledger[t].status # "delivered" => ledger[t].note = Null
      BY DEF DistributionInv, CopiesAreCounted
    <2>3. CASE pass' = pass /\ losses' = losses
      BY <2>1, <2>2, <2>3 DEF Here, InHand
    <2>4. CASE pass' = Null /\ losses' = losses + 1
      <3>1. Here(t)' = 0 /\ InHand(t)' = 0
        BY <2>4 DEF Here, InHand
      <3> QED
        BY <2>1, <2>2, <2>4, <3>1, Counts
    <2> QED
      BY <2>3, <2>4
  <1>5. NotesAreTrue'
    <2> SUFFICES ASSUME NEW t \in Targets, Sent(t)' = 1
                 PROVE  /\ ledger[t].note \in {"published", "already_published"} => followed[t] > 0
                        /\ ledger[t].note = "skipped" => followed[t] <= losses'
      BY DEF NotesAreTrue, history
    <2>1. Sent(t) = 1
      BY DEF Sent
    <2>2. NotesAreTrue
      BY DEF DistributionInv
    <2> QED
      BY <1>1, <2>1, <2>2, Counts DEF NotesAreTrue
  <1> QED
    BY <1>2, <1>3, <1>4, <1>5 DEF CopiesAreCounted

\* Settings and subscriptions change at any moment.
LEMMA TablesKeepInv ==
    ASSUME DistributionInv,
           \/ \E k \in Settings, s \in Setting : SetUpChannel(k, s)
           \/ \E s \in Subscribers : Unsubscribe(s) \/ \E m \in BOOLEAN : ChangeSubscription(s, m)
    PROVE  DistributionInv'
  <1>1. /\ UNCHANGED <<processes, enqueue, published, ledger, pass, history, losses>> /\ Watch
        /\ changes < MaxChanges /\ changes' = changes + 1
    BY DEF SetUpChannel, Unsubscribe, ChangeSubscription, Change
  <1>2. TypeOK
    BY DEF DistributionInv
  <1>3. setting' \in [Settings -> Setting \cup {Null}]
    <2>1. setting \in [Settings -> Setting \cup {Null}]
      BY <1>2 DEF TypeOK
    <2> QED
      BY <2>1 DEF SetUpChannel, Unsubscribe, ChangeSubscription
  <1>4. subscription' \in [Subscribers -> Subscription \cup {Null}]
    <2>1. subscription \in [Subscribers -> Subscription \cup {Null}]
      BY <1>2 DEF TypeOK
    <2>2. \A m \in BOOLEAN : [verified |-> TRUE, matching |-> m] \in Subscription
      BY DEF Subscription
    <2> QED
      BY <2>1, <2>2 DEF SetUpChannel, Unsubscribe, ChangeSubscription
  <1>5. changes' \in 0 .. MaxChanges
    BY <1>1, <1>2, DistributionAssumption DEF TypeOK
  <1>6. TypeOK'
    BY <1>1, <1>2, <1>3, <1>4, <1>5, WatchKeeps DEF TypeOK, processes, history
  <1>7. EnqueueIsSound'
    BY <1>1, EnqueueWaits DEF processes
  <1> QED
    BY <1>1, <1>6, <1>7, PassWaits DEF DistributionInv

\* A restart takes the process's transactions with it.
LEMMA RestartKeepsInv ==
    ASSUME DistributionInv, NEW p \in Processes, NEW C \in Configurations, NEW b \in BOOLEAN, Restart(p, C, b)
    PROVE  DistributionInv'
  <1>1. /\ UNCHANGED <<tables, column, published, ledger, history>> /\ Watch
        /\ changes < MaxChanges /\ changes' = changes + 1
        /\ enabled' = [enabled EXCEPT ![p] = C] /\ bot' \in {bot, b}
        /\ enqueue' = IF enqueue # Null /\ enqueue.by = p THEN Null ELSE enqueue
    BY DEF Restart, Change
  <1>2. TypeOK
    BY DEF DistributionInv
  <1>3. \/ pass' = pass /\ losses' = losses
        \/ pass' = Null /\ losses' = losses + 1 /\ losses < MaxLosses
    BY DEF Restart
  <1>4. losses' \in 0 .. MaxLosses /\ changes' \in 0 .. MaxChanges
    BY <1>1, <1>2, <1>3, DistributionAssumption DEF TypeOK
  <1>5. enabled' \in [Processes -> SUBSET Channels]
    BY <1>1, <1>2, DistributionAssumption DEF TypeOK
  <1>6. TypeOK'
    BY <1>1, <1>2, <1>3, <1>4, <1>5, WatchKeeps DEF TypeOK, tables, history
  <1>7. enqueue' # Null => enabled'[enqueue.by] = enabled[enqueue.by]
    BY <1>1, <1>2 DEF TypeOK
  <1>8. EnqueueIsSound'
    BY <1>1, <1>7, EnqueueWaits
  <1> QED
    BY <1>1, <1>3, <1>6, <1>8, PassWaits DEF DistributionInv

\* The column changes nothing.
LEMMA MigrateKeepsInv ==
    ASSUME DistributionInv, Migrate
    PROVE  DistributionInv'
  <1>1. /\ column' = TRUE
        /\ UNCHANGED <<tables, enabled, bot, enqueue, published, ledger, pass, history, losses, changes, watched>>
    BY DEF Migrate
  <1>2. TypeOK'
    BY <1>1 DEF DistributionInv, TypeOK, tables, history, watched
  <1>3. EnqueueIsSound'
    BY <1>1, StandingStays DEF DistributionInv, EnqueueIsSound, Enabled, watched
  <1> QED
    BY <1>1, <1>2, <1>3, PassWaits DEF DistributionInv

\* A publisher or the worker begins an enqueue.
LEMMA PublishKeepsInv ==
    ASSUME DistributionInv, NEW p \in Processes, Publish(p)
    PROVE  DistributionInv'
  <1> DEFINE e == [at |-> "settings", by |-> p, found |-> {}]
  <1>1. /\ UNCHANGED <<tables, processes, published, ledger, pass, history, losses, changes>> /\ Watch
        /\ ~ published /\ enqueue' = e
    BY DEF Publish
  <1>2. e \in Enqueue /\ e.at = "settings"
    BY DEF Enqueue
  <1> HIDE DEF e
  <1>3. enqueue' # Null
    BY <1>1, <1>2, NullIsNone
  <1>4. TypeOK /\ EnqueueIsSound
    BY DEF DistributionInv
  <1>5. TypeOK'
    BY <1>1, <1>2, <1>4, WatchKeeps DEF TypeOK, tables, processes, history
  <1>6. EnqueueIsSound'
    BY <1>1, <1>2, <1>3, <1>4, WatchKeeps DEF EnqueueIsSound
  <1> QED
    BY <1>1, <1>5, <1>6, PassWaits DEF DistributionInv

\* What the first query finds stands now; so does whoever stood all the time.
LEMMA SelectSettingsKeepsInv ==
    ASSUME DistributionInv, SelectSettings
    PROVE  DistributionInv'
  <1> DEFINE e == [enqueue EXCEPT !.at = "subscriptions", !.found = BroadcastTargets]
  <1>1. /\ UNCHANGED <<tables, processes, published, ledger, pass, history, losses, changes>> /\ Watch
        /\ enqueue # Null /\ enqueue' = e
    BY DEF SelectSettings
  <1>2. TypeOK /\ EnqueueIsSound
    BY DEF DistributionInv
  <1>3. e \in Enqueue /\ e.at = "subscriptions" /\ e.found = BroadcastTargets /\ e.by = enqueue.by
    BY <1>1, <1>2, StandingIsTargets DEF TypeOK, Enqueue, Targets
  <1> HIDE DEF e
  <1>4. enqueue' # Null
    BY <1>1, <1>3, NullIsNone
  <1>5. TypeOK'
    BY <1>1, <1>2, <1>3, WatchKeeps DEF TypeOK, tables, processes, history
  <1>6. Standing' = Standing /\ enabled' = enabled
    BY <1>1, <1>3, StandingStays DEF processes
  <1>7. /\ always' \subseteq Standing' /\ Standing' \subseteq ever'
        /\ always' \subseteq always /\ ever \subseteq ever'
    BY <1>1, <1>2, <1>4, WatchKeeps
  <1>8. {t \in always' : t[1] \in Services} \subseteq BroadcastTargets
    BY <1>6, <1>7, StandingIsTargets DEF Standing, Services
  <1>9. Enabled(enqueue.by, BroadcastTargets) \subseteq ever'
    BY <1>6, <1>7 DEF Enabled, Standing
  <1>10. EnqueueIsSound'
    BY <1>1, <1>2, <1>3, <1>6, <1>7, <1>8, <1>9 DEF EnqueueIsSound, Enabled
  <1> QED
    BY <1>1, <1>5, <1>10, PassWaits DEF DistributionInv

\* So it is with the second, which leaves what the first has found.
LEMMA SelectSubscriptionsKeepsInv ==
    ASSUME DistributionInv, SelectSubscriptions
    PROVE  DistributionInv'
  <1> DEFINE found == enqueue.found \cup SubscriptionTargets
             e     == [enqueue EXCEPT !.at = "insert", !.found = found]
  <1>1. /\ UNCHANGED <<tables, processes, published, ledger, pass, history, losses, changes>> /\ Watch
        /\ enqueue # Null /\ enqueue.at = "subscriptions" /\ enqueue' = e
    BY DEF SelectSubscriptions
  <1>2. TypeOK /\ EnqueueIsSound
    BY DEF DistributionInv
  <1>3. found \subseteq Targets
    BY <1>1, <1>2, StandingIsTargets DEF TypeOK, Enqueue, Targets
  <1> HIDE DEF found
  <1>4. e \in Enqueue /\ e.at = "insert" /\ e.found = found /\ e.by = enqueue.by
    BY <1>1, <1>2, <1>3 DEF TypeOK, Enqueue
  <1> HIDE DEF e
  <1>5. enqueue' # Null
    BY <1>1, <1>4, NullIsNone
  <1>6. TypeOK'
    BY <1>1, <1>2, <1>4, WatchKeeps DEF TypeOK, tables, processes, history
  <1>7. Standing' = Standing /\ enabled' = enabled
    BY <1>1, <1>4, StandingStays DEF processes
  <1>8. /\ always' \subseteq Standing' /\ Standing' \subseteq ever'
        /\ always' \subseteq always /\ ever \subseteq ever'
    BY <1>1, <1>2, <1>5, WatchKeeps
  <1>9. always' \subseteq Enabled(enqueue.by, found)
    <2>1. ASSUME NEW t \in always'
          PROVE  t[1] \in enabled[enqueue.by] /\ t \in found
      <3>1. t \in Standing /\ t \in always
        BY <1>7, <1>8
      <3>2. CASE t \in SubscriptionTargets
        BY <3>1, <3>2 DEF Standing, found
      <3>3. CASE t \in BroadcastTargets
        <4>1. t[1] \in Services
          BY <3>3, StandingIsTargets
        <4> QED
          BY <1>1, <1>2, <3>1, <4>1 DEF EnqueueIsSound, Standing, found
      <3> QED
        BY <3>1, <3>2, <3>3 DEF Standing
    <2> QED
      BY <2>1 DEF Enabled
  <1>10. Enabled(enqueue.by, found) \subseteq ever'
    <2>1. Enabled(enqueue.by, found) \subseteq Enabled(enqueue.by, enqueue.found) \cup Standing
      BY DEF Enabled, Standing, found
    <2> QED
      BY <1>1, <1>2, <1>7, <1>8, <2>1 DEF EnqueueIsSound
  <1>11. EnqueueIsSound'
    BY <1>1, <1>2, <1>4, <1>7, <1>8, <1>9, <1>10 DEF EnqueueIsSound, Enabled
  <1> QED
    BY <1>1, <1>6, <1>11, PassWaits DEF DistributionInv

\* The inserts give a row to those that were found and are served, and to nobody else.
LEMMA InsertGives ==
    ASSUME DistributionInv, InsertDeliveries
    PROVE  /\ ledger' = [t \in Targets |-> IF t \in Enabled(enqueue.by, enqueue.found) THEN NewEntry ELSE Null]
           /\ NewEntry \in Entry /\ NewEntry # Null
           /\ {t \in Targets : ledger'[t] # Null} = Enabled(enqueue.by, enqueue.found)
  <1>1. enqueue # Null /\ TypeOK /\ EnqueueIsSound
    BY DEF InsertDeliveries, DistributionInv
  <1>2. \A t \in Targets : ledger[t] = Null
    BY <1>1 DEF EnqueueIsSound
  <1>3. NewEntry \in Entry /\ NewEntry # Null
    BY NullIsNone DEF NewEntry, Entry
  <1>4. Enabled(enqueue.by, enqueue.found) \subseteq Targets
    BY <1>1 DEF TypeOK, Enqueue, Enabled
  <1>5. ledger' = [t \in Targets |-> IF t \in Enabled(enqueue.by, enqueue.found) THEN NewEntry ELSE Null]
    BY <1>2 DEF InsertDeliveries
  <1> QED
    BY <1>3, <1>4, <1>5

\* Their rows are new: no pass holds one and nothing was sent for them.
LEMMA InsertKeepsInv ==
    ASSUME DistributionInv, InsertDeliveries
    PROVE  DistributionInv'
  <1>1. /\ UNCHANGED <<tables, processes, pass, history, losses, changes>> /\ Watch
        /\ enqueue # Null /\ enqueue' = Null /\ published' = TRUE
    BY DEF InsertDeliveries
  <1>2. TypeOK /\ EnqueueIsSound
    BY DEF DistributionInv
  <1>3. /\ ledger' = [t \in Targets |-> IF t \in Enabled(enqueue.by, enqueue.found) THEN NewEntry ELSE Null]
        /\ NewEntry \in Entry /\ NewEntry # Null
    BY InsertGives
  <1>4. \A t \in Targets : ledger[t] = Null
    BY <1>1, <1>2 DEF EnqueueIsSound
  <1>5. TypeOK'
    BY <1>1, <1>2, <1>3, WatchKeeps DEF TypeOK, tables, processes, history
  <1>6. EnqueueIsSound'
    BY <1>1 DEF EnqueueIsSound
  <1>7. \A t \in Targets : ledger'[t] = Null \/ ledger'[t] = NewEntry
    BY <1>3
  <1>8. NewEntry.status = "pending" /\ NewEntry.note = Null
    BY DEF NewEntry
  <1>9. ASSUME NEW t \in Targets
        PROVE  Sent(t)' = 0 /\ Sent(t) = 0
    BY <1>4, <1>7, <1>8 DEF Sent
  <1>10. pass # Null => pass.row = Null
    <2>1. pass # Null => pass.row \in Targets \cup {Null}
      BY <1>2 DEF TypeOK, Pass
    <2> QED
      BY <1>4, <2>1 DEF DistributionInv, RowIsHeld
  <1>11. RowIsHeld'
    BY <1>1, <1>10 DEF DistributionInv, RowIsHeld
  <1>12. PassTellsTheTruth'
    BY <1>1 DEF DistributionInv, PassTellsTheTruth, history
  <1>13. CopiesAreCounted'
    <2>1. \A t \in Targets : Here(t)' = Here(t) /\ InHand(t)' = InHand(t)
      BY <1>1 DEF Here, InHand
    <2> QED
      BY <1>1, <1>7, <1>8, <1>9, <2>1 DEF DistributionInv, CopiesAreCounted, history
  <1>14. NotesAreTrue'
    BY <1>9 DEF NotesAreTrue, Sent
  <1> QED
    BY <1>5, <1>6, <1>11, <1>12, <1>13, <1>14 DEF DistributionInv

----------------------------------------------------------------------------
(* The pass *)

\* Steps of a pass leave the enqueue alone, and what it watches.
LEMMA HandsOff ==
    ASSUME DistributionInv, Hands, pass' \in Pass \cup {Null}, losses' \in 0 .. MaxLosses,
           ledger' \in [Targets -> Entry \cup {Null}], ~ published => ledger' = ledger,
           posts' \in [Targets -> Nat], late' \in [Targets -> Nat], followed' \in [Targets -> Nat]
    PROVE  TypeOK' /\ EnqueueIsSound'
  <1>1. UNCHANGED <<tables, processes, enqueue, published, changes, watched>> /\ TypeOK /\ EnqueueIsSound
    BY DEF Hands, DistributionInv
  <1>2. TypeOK'
    BY <1>1 DEF TypeOK, tables, processes, watched
  <1>3. Standing' = Standing /\ enabled' = enabled
    BY <1>1, StandingStays DEF processes
  <1> QED
    BY <1>1, <1>2, <1>3 DEF EnqueueIsSound, Enabled, watched

\* A pass that holds a row holds one that is not delivered, and no other.
LEMMA RowInHand ==
    ASSUME DistributionInv, pass # Null, pass.at # "claim"
    PROVE  /\ pass \in Pass /\ pass.row \in Targets /\ pass.out \in BOOLEAN /\ Shown(pass) \in BOOLEAN
           /\ ledger[pass.row] # Null /\ ledger[pass.row] \in Entry
           /\ ledger[pass.row].status \in {"pending", "failed"} /\ ledger[pass.row].note = Null
           /\ Sent(pass.row) = 0 /\ Here(pass.row) = Num(pass.out) /\ InHand(pass.row) = Num(Shown(pass))
           /\ \A t \in Targets : t # pass.row => Here(t) = 0 /\ InHand(t) = 0
  <1>1. pass \in Pass /\ ledger \in [Targets -> Entry \cup {Null}]
    BY DEF DistributionInv, TypeOK
  <1>2. pass.row \in Targets /\ pass.out \in BOOLEAN /\ Shown(pass) \in BOOLEAN
    BY <1>1 DEF DistributionInv, RowIsHeld, Pass, Shown
  <1>3. ledger[pass.row] # Null /\ ledger[pass.row].status \in {"pending", "failed"}
    BY <1>2, NullIsNone DEF DistributionInv, RowIsHeld
  <1>4. ledger[pass.row].note = Null
    BY <1>2, <1>3 DEF DistributionInv, CopiesAreCounted
  <1>5. Sent(pass.row) = 0
    BY <1>3 DEF Sent
  <1> QED
    BY <1>1, <1>2, <1>3, <1>4, <1>5 DEF Here, InHand, Num

Plus(count, n) == [count EXCEPT ![pass.row] = @ + n]

LEMMA PlusCounts ==
    ASSUME DistributionInv, pass # Null, pass.at # "claim", NEW n \in {0, 1},
           NEW count \in [Targets -> Nat]
    PROVE  /\ Plus(count, n) \in [Targets -> Nat]
           /\ Plus(count, n)[pass.row] = count[pass.row] + n
           /\ \A t \in Targets : t # pass.row => Plus(count, n)[t] = count[t]
           /\ count = Plus(count, 0) /\ More(count) = Plus(count, 1)
  <1>1. pass.row \in Targets
    BY RowInHand
  <1> QED
    BY <1>1 DEF Plus, More

\* The pass goes on with its row, whose message goes out at most as often as it notes,
\* and to the followers too.
LEMMA RowMoves ==
    ASSUME DistributionInv, pass # Null, pass.at # "claim", Hands, UNCHANGED <<ledger, losses>>,
           NEW w \in Pass, pass' = w, w.row = pass.row, w.at # "claim",
           w.out <=> w.at \in {"lookup", "crosspost", "delivered"},
           w.followed => w.at \in {"crosspost", "delivered"},
           NEW m \in {0, 1}, NEW n \in {0, 1}, NEW f \in {0, 1},
           posts' = Plus(posts, m), late' = Plus(late, n), followed' = Plus(followed, f),
           Num(pass.out) + m <= Num(w.out) + n,
           Num(Shown(pass)) + f <= Num(Shown(w)),
           w.at = "crosspost" /\ w.followed => followed[pass.row] + f > 0,
           w.at = "delivered" =>
              /\ w.note \in {"published", "already_published"} => followed[pass.row] + f > 0
              /\ w.note = "skipped" => followed[pass.row] + f <= losses
    PROVE  DistributionInv'
  <1>1. TypeOK /\ pass.row \in Targets /\ w # Null
    BY RowInHand, NullIsNone DEF DistributionInv
  <1>2. /\ posts \in [Targets -> Nat] /\ late \in [Targets -> Nat] /\ followed \in [Targets -> Nat]
        /\ losses \in Nat /\ losses \in 0 .. MaxLosses /\ ledger \in [Targets -> Entry \cup {Null}]
    BY <1>1, DistributionAssumption DEF TypeOK
  <1>3. TypeOK' /\ EnqueueIsSound'
    BY <1>2, PlusCounts, HandsOff
  <1>4. RowIsHeld'
    BY <1>1, RowInHand, NullIsNone DEF RowIsHeld
  <1>5. followed'[pass.row] = followed[pass.row] + f
    BY <1>2, PlusCounts
  <1>6. PassTellsTheTruth'
    BY <1>1, <1>5 DEF PassTellsTheTruth
  <1>7. ASSUME NEW t \in Targets
        PROVE  /\ posts'[t] - late'[t] <= Sent(t)' + Here(t)' + losses'
               /\ followed'[t] <= Sent(t)' + InHand(t)' + losses'
               /\ ledger'[t] # Null /\ ledger'[t].status # "delivered" => ledger'[t].note = Null
    <2>1. /\ posts[t] - late[t] <= Sent(t) + Here(t) + losses
          /\ followed[t] <= Sent(t) + InHand(t) + losses
          /\ ledger[t] # Null /\ ledger[t].status # "delivered" => ledger[t].note = Null
      BY DEF DistributionInv, CopiesAreCounted
    <2>2. Sent(t)' = Sent(t)
      BY DEF Sent
    <2>3. /\ Here(t)' = IF t = pass.row THEN Num(w.out) ELSE 0
          /\ InHand(t)' = IF t = pass.row THEN Num(Shown(w)) ELSE 0
      BY <1>1 DEF Here, InHand, Num, Shown
    <2>4. CASE t = pass.row
      <3>1. /\ posts'[t] = posts[t] + m /\ late'[t] = late[t] + n /\ followed'[t] = followed[t] + f
        BY <1>2, <2>4, PlusCounts
      <3>2. Here(t) = Num(pass.out) /\ InHand(t) = Num(Shown(pass)) /\ Sent(t) = 0
        BY <2>4, RowInHand
      <3>3. /\ Num(pass.out) \in Nat /\ Num(w.out) \in Nat
            /\ Num(Shown(pass)) \in Nat /\ Num(Shown(w)) \in Nat
        BY DEF Num
      <3> QED
        BY <1>2, <2>1, <2>2, <2>3, <2>4, <3>1, <3>2, <3>3
    <2>5. CASE t # pass.row
      <3>1. /\ posts'[t] = posts[t] /\ late'[t] = late[t] /\ followed'[t] = followed[t]
        BY <1>2, <2>5, PlusCounts
      <3>2. Here(t) = 0 /\ InHand(t) = 0
        BY <2>5, RowInHand
      <3> QED
        BY <1>2, <2>1, <2>2, <2>3, <2>5, <3>1, <3>2
    <2> QED
      BY <2>4, <2>5
  <1>8. NotesAreTrue'
    <2> SUFFICES ASSUME NEW t \in Targets, Sent(t)' = 1
                 PROVE  /\ ledger'[t].note \in {"published", "already_published"} => followed'[t] > 0
                        /\ ledger'[t].note = "skipped" => followed'[t] <= losses'
      BY DEF NotesAreTrue
    <2>1. Sent(t) = 1
      BY DEF Sent
    <2>2. followed'[t] = followed[t]
      BY <1>2, <2>1, PlusCounts, RowInHand
    <2> QED
      BY <2>1, <2>2 DEF DistributionInv, NotesAreTrue
  <1> QED
    BY <1>3, <1>4, <1>6, <1>7, <1>8 DEF DistributionInv, CopiesAreCounted

\* The pass goes on and sends nothing.
LEMMA RowWaits ==
    ASSUME DistributionInv, pass # Null, pass.at # "claim", Hands, UNCHANGED <<ledger, losses, history>>,
           NEW w \in Pass, pass' = w, w.row = pass.row, w.at # "claim",
           w.out <=> w.at \in {"lookup", "crosspost", "delivered"},
           w.followed => w.at \in {"crosspost", "delivered"},
           pass.out => w.out,
           Shown(pass) => Shown(w),
           w.at = "crosspost" /\ w.followed => followed[pass.row] > 0,
           w.at = "delivered" =>
              /\ w.note \in {"published", "already_published"} => followed[pass.row] > 0
              /\ w.note = "skipped" => followed[pass.row] <= losses
    PROVE  DistributionInv'
  <1>1. posts \in [Targets -> Nat] /\ late \in [Targets -> Nat] /\ followed \in [Targets -> Nat]
    BY DEF DistributionInv, TypeOK
  <1>2. posts' = Plus(posts, 0) /\ late' = Plus(late, 0) /\ followed' = Plus(followed, 0)
    BY <1>1, PlusCounts DEF history
  <1>3. pass.row \in Targets /\ followed[pass.row] \in Nat
    BY <1>1, RowInHand
  <1>4. Num(pass.out) + 0 <= Num(w.out) + 0 /\ Num(Shown(pass)) + 0 <= Num(Shown(w))
    BY DEF Num
  <1>5. followed[pass.row] + 0 = followed[pass.row]
    BY <1>3
  <1> QED
    BY <1>2, <1>4, <1>5, RowMoves

\* A pass that holds nothing, or ends without a row, changes nothing.
LEMMA ClaimKeepsInv ==
    ASSUME DistributionInv, BeginPass \/ Claim
    PROVE  DistributionInv'
  <1>1. Hands /\ UNCHANGED <<ledger, history, losses>> /\ TypeOK
    BY DEF BeginPass, Claim, DistributionInv
  <1>2. PICK w \in Pass \cup {Null} :
           /\ pass' = w
           /\ w # Null => /\ ~ w.out /\ ~ w.followed /\ w.at \in {"claim", "read"}
                          /\ w.row = Null <=> w.at = "claim"
                          /\ w.row # Null => ledger[w.row] # Null /\ ledger[w.row].status \in {"pending", "failed"}
    <2>1. CASE BeginPass
      <3> DEFINE w == [at |-> "claim", row |-> Null, noted |-> column, auto |-> FALSE, try |-> 1,
                       note |-> Null, out |-> FALSE, followed |-> FALSE]
      <3>1. w \in Pass
        BY <1>1 DEF Pass, Places, TypeOK
      <3> QED
        BY <2>1, <3>1 DEF BeginPass
    <2>2. CASE Claim
      <3>1. pass # Null /\ pass.at = "claim" /\ pass \in Pass
        BY <1>1, <2>2 DEF Claim, In, TypeOK
      <3>2. ~ pass.out /\ ~ pass.followed
        BY <3>1 DEF DistributionInv, RowIsHeld
      <3>3. ASSUME NEW t \in Due, pass' = [pass EXCEPT !.at = "read", !.row = t]
            PROVE  /\ pass' \in Pass /\ pass'.out = pass.out /\ pass'.followed = pass.followed
                   /\ pass'.at = "read" /\ pass'.row = t /\ t # Null
                   /\ ledger[t] # Null /\ ledger[t].status \in {"pending", "failed"}
        BY <3>1, <3>3, NullIsNone DEF Pass, Places, Due
      <3> QED
        BY <2>2, <3>1, <3>2, <3>3 DEF Claim
    <2> QED
      BY <2>1, <2>2
  <1>3. /\ posts \in [Targets -> Nat] /\ late \in [Targets -> Nat] /\ followed \in [Targets -> Nat]
        /\ losses \in 0 .. MaxLosses /\ ledger \in [Targets -> Entry \cup {Null}]
    BY <1>1 DEF TypeOK
  <1>4. TypeOK' /\ EnqueueIsSound'
    BY <1>1, <1>2, <1>3, HandsOff DEF history
  <1>5. RowIsHeld' /\ PassTellsTheTruth'
    BY <1>1, <1>2, NullIsNone DEF RowIsHeld, PassTellsTheTruth
  <1>6. pass = Null \/ (pass.at = "claim" /\ ~ pass.out /\ ~ Shown(pass))
    BY DEF BeginPass, Claim, In, DistributionInv, RowIsHeld, Shown
  <1>7. ASSUME NEW t \in Targets
        PROVE  Sent(t)' = Sent(t) /\ Here(t)' = Here(t) /\ InHand(t)' = InHand(t)
    <2>1. Here(t) = 0 /\ InHand(t) = 0
      BY <1>6 DEF Here, InHand, Num
    <2>2. Here(t)' = 0 /\ InHand(t)' = 0
      BY <1>2 DEF Here, InHand, Num, Shown
    <2> QED
      BY <1>1, <2>1, <2>2 DEF Sent
  <1>8. CopiesAreCounted'
    BY <1>1, <1>7 DEF DistributionInv, CopiesAreCounted, history
  <1>9. NotesAreTrue'
    BY <1>1, <1>7 DEF DistributionInv, NotesAreTrue, history
  <1> QED
    BY <1>4, <1>5, <1>8, <1>9 DEF DistributionInv

\* The adapter reads its target; whether it is to be published is a truth value.
LEMMA ReadKeepsInv ==
    ASSUME DistributionInv, ReadTarget
    PROVE  DistributionInv'
  <1> DEFINE auto == pass.row[1] \in Services /\ setting[pass.row[2]].auto
  <1>1. /\ pass # Null /\ pass.at = "read" /\ Hands /\ UNCHANGED <<ledger, losses, history>>
        /\ pass' = IF Deliverable(pass.row) THEN [pass EXCEPT !.at = "post", !.auto = auto]
                   ELSE [pass EXCEPT !.at = "failed"]
    BY DEF ReadTarget, In
  <1>2. pass \in Pass /\ pass.row \in Targets /\ ~ pass.out /\ ~ pass.followed
    BY <1>1, RowInHand DEF DistributionInv, RowIsHeld
  <1>3. Deliverable(pass.row) => auto \in BOOLEAN
    <2>1. CASE pass.row[1] \in Services
      <3>1. pass.row[2] \in Settings /\ pass.row[1] # "email"
        BY <1>2, <2>1 DEF Targets, Services
      <3>2. Deliverable(pass.row) => setting[pass.row[2]] \in Setting
        BY <3>1 DEF Deliverable, DistributionInv, TypeOK
      <3> QED
        BY <3>2 DEF Setting
    <2>2. CASE pass.row[1] \notin Services
      BY <2>2
    <2> QED
      BY <2>1, <2>2
  <1> HIDE DEF auto
  <1>4. /\ pass' \in Pass /\ pass'.row = pass.row /\ pass'.at \in {"post", "failed"}
        /\ pass'.out = pass.out /\ pass'.followed = pass.followed
    BY <1>1, <1>2, <1>3 DEF Pass, Places
  <1> QED
    BY <1>1, <1>2, <1>4, RowWaits DEF Shown

\* A pass with a note has its message out, and does not remember a try of its own.
LEMMA NotedPass ==
    ASSUME pass \in Pass, NEW note \in Notes \cup {Null}, Note(note)
    PROVE  /\ pass' \in Pass /\ pass'.at = "delivered" /\ pass'.note = note /\ pass'.out
           /\ pass'.row = pass.row /\ pass'.followed = pass.followed
  BY DEF Note, Pass, Places

LEMMA GonePass ==
    ASSUME pass \in Pass, NEW place \in Places, Goto(place)
    PROVE  /\ pass' \in Pass /\ pass'.at = place /\ pass'.row = pass.row
           /\ pass'.out = pass.out /\ pass'.followed = pass.followed
  BY DEF Goto, Pass

\* Of a message that is not shown yet the followers have what losses left them.
LEMMA NotShown ==
    ASSUME DistributionInv, pass # Null, pass.at # "claim", ~ Shown(pass)
    PROVE  followed[pass.row] <= losses
  <1>1. pass.row \in Targets /\ Sent(pass.row) = 0 /\ InHand(pass.row) = 0
    BY RowInHand DEF Num
  <1> QED
    BY <1>1, Counts DEF DistributionInv, CopiesAreCounted

LEMMA PostKeepsInv ==
    ASSUME DistributionInv, Accepted \/ Refused
    PROVE  DistributionInv'
  <1>1. /\ pass # Null /\ pass.at = "post" /\ Hands /\ UNCHANGED <<ledger, followed, losses>>
    BY DEF Accepted, Refused, In
  <1>2. pass \in Pass /\ pass.row \in Targets /\ ~ pass.out /\ ~ pass.followed /\ ~ Shown(pass)
    BY <1>1, RowInHand DEF DistributionInv, RowIsHeld, Shown
  <1>3. followed[pass.row] \in Nat /\ followed[pass.row] <= losses /\ losses \in Nat
    BY <1>1, <1>2, NotShown, Counts
  <1>4. posts \in [Targets -> Nat] /\ late \in [Targets -> Nat] /\ followed \in [Targets -> Nat]
    BY DEF DistributionInv, TypeOK
  <1>5. followed' = Plus(followed, 0) /\ followed[pass.row] + 0 = followed[pass.row]
    BY <1>1, <1>3, <1>4, PlusCounts
  <1>6. CASE Accepted
    <2>1. posts' = Plus(posts, 1) /\ late' = Plus(late, 0)
      BY <1>1, <1>4, <1>6, PlusCounts DEF Accepted
    <2>2. /\ pass' \in Pass /\ pass'.row = pass.row /\ pass'.followed = pass.followed /\ pass'.out
          /\ pass'.at \in {"lookup", "delivered"}
          /\ pass'.at = "delivered" => pass'.note \in {Null, "skipped"}
      <3>1. CASE pass' = [pass EXCEPT !.at = "lookup", !.out = TRUE]
        BY <1>2, <3>1 DEF Pass, Places
      <3>2. CASE Note(Null) \/ Note("skipped")
        BY <1>2, <3>2, NotedPass DEF Notes
      <3> QED
        BY <1>6, <3>1, <3>2 DEF Accepted
    <2>3. pass'.note = Null => pass'.note \notin {"published", "already_published", "skipped"}
      BY NullIsNone DEF Notes
    <2>4. Num(pass.out) + 1 <= Num(pass'.out) + 0 /\ Num(Shown(pass)) + 0 <= Num(Shown(pass'))
      BY <1>2, <2>2 DEF Num
    <2>5. pass'.at = "delivered" =>
             /\ pass'.note \in {"published", "already_published"} => followed[pass.row] + 0 > 0
             /\ pass'.note = "skipped" => followed[pass.row] + 0 <= losses
      BY <1>3, <1>5, <2>2, <2>3
    <2> QED
      BY <1>1, <1>2, <1>5, <2>1, <2>2, <2>4, <2>5, RowMoves
  <1>7. CASE Refused
    <2>1. /\ pass' \in Pass /\ pass'.at = "failed" /\ pass'.row = pass.row
          /\ pass'.out = pass.out /\ pass'.followed = pass.followed
      BY <1>2, <1>7, GonePass DEF Refused, Places
    <2>2. Num(Shown(pass)) + 0 <= Num(Shown(pass'))
      BY <1>2, <2>1 DEF Num, Shown
    <2>3. CASE UNCHANGED <<posts, late>>
      BY <1>1, <1>2, <2>1, <2>3, RowWaits DEF history, Shown
    <2>4. CASE posts' = More(posts) /\ late' = More(late)
      <3>1. posts' = Plus(posts, 1) /\ late' = Plus(late, 1)
        BY <1>1, <1>4, <2>4, PlusCounts
      <3>2. Num(pass.out) + 1 <= Num(pass'.out) + 1
        BY <2>1 DEF Num
      <3> QED
        BY <1>1, <1>2, <1>5, <2>1, <2>2, <3>1, <3>2, RowMoves
    <2> QED
      BY <1>7, <2>3, <2>4 DEF Refused
  <1> QED
    BY <1>6, <1>7

LEMMA LookUpKeepsInv ==
    ASSUME DistributionInv, LookUp
    PROVE  DistributionInv'
  <1>1. /\ pass # Null /\ pass.at = "lookup" /\ Hands /\ UNCHANGED <<ledger, history, losses>>
        /\ Goto("crosspost") \/ Note("failed") \/ Note("skipped")
    BY DEF LookUp, In, PublishFails
  <1>2. pass \in Pass /\ pass.row \in Targets /\ pass.out /\ ~ pass.followed /\ ~ Shown(pass)
    BY <1>1, RowInHand DEF DistributionInv, RowIsHeld, Shown
  <1>3. followed[pass.row] <= losses
    BY <1>1, <1>2, NotShown
  <1>4. /\ pass' \in Pass /\ pass'.row = pass.row /\ pass'.followed = pass.followed /\ pass'.out
        /\ pass'.at = "crosspost" \/ (pass'.at = "delivered" /\ pass'.note \in {"failed", "skipped"})
    <2>1. CASE Goto("crosspost")
      BY <1>2, <2>1, GonePass DEF Places
    <2>2. CASE Note("failed") \/ Note("skipped")
      BY <1>2, <2>2, NotedPass DEF Notes
    <2> QED
      BY <1>1, <2>1, <2>2
  <1> QED
    BY <1>1, <1>2, <1>3, <1>4, RowWaits DEF Shown

LEMMA CrosspostKeepsInv ==
    ASSUME DistributionInv, Crosspost \/ PublishByHand
    PROVE  DistributionInv'
  <1>1. /\ pass # Null /\ pass.at = "crosspost" /\ Hands /\ UNCHANGED <<ledger, posts, late, losses>>
    BY DEF Crosspost, PublishByHand, In
  <1>2. /\ pass \in Pass /\ pass.row \in Targets /\ pass.out
        /\ Shown(pass) <=> pass.followed
        /\ pass.followed => followed[pass.row] > 0
    BY <1>1, RowInHand DEF DistributionInv, RowIsHeld, PassTellsTheTruth, Shown
  <1>3. posts \in [Targets -> Nat] /\ late \in [Targets -> Nat] /\ followed \in [Targets -> Nat]
    BY DEF DistributionInv, TypeOK
  <1>4. CASE followed' = More(followed) /\ ~ pass.followed
    <2>1. posts' = Plus(posts, 0) /\ late' = Plus(late, 0) /\ followed' = Plus(followed, 1)
      BY <1>1, <1>3, <1>4, PlusCounts
    <2>2. /\ pass' \in Pass /\ pass'.row = pass.row /\ pass'.out
          /\ \/ pass'.at = "delivered" /\ pass'.note \in {"published", "failed"}
             \/ pass'.at = "crosspost" /\ pass'.followed
      <3>1. CASE Note("published") \/ PublishFails
        BY <1>2, <3>1, NotedPass DEF Notes, PublishFails
      <3>2. CASE pass' = [pass EXCEPT !.followed = TRUE]
        BY <1>1, <1>2, <3>2 DEF Pass
      <3>3. CASE UNCHANGED followed
        BY <1>2, <1>3, <1>4, <3>3 DEF More
      <3> QED
        BY <1>4, <3>1, <3>2, <3>3 DEF Crosspost, PublishByHand
    <2>3. Num(pass.out) + 0 <= Num(pass'.out) + 0 /\ Num(Shown(pass)) + 1 <= Num(Shown(pass'))
      BY <1>2, <1>4, <2>2 DEF Num, Shown
    <2>4. followed[pass.row] + 1 > 0
      BY <1>2, <1>3
    <2> QED
      BY <1>1, <2>1, <2>2, <2>3, <2>4, RowMoves
  <1>5. CASE UNCHANGED followed
    <2>1. /\ pass' \in Pass /\ pass'.row = pass.row /\ pass'.out /\ pass'.followed = pass.followed
          /\ \/ pass'.at = "delivered" /\ pass'.note = "failed"
             \/ pass'.at = "delivered" /\ pass'.note = "already_published" /\ pass.followed
             \/ pass'.at = "crosspost"
      <3>1. CASE PublishFails
        BY <1>2, <3>1, NotedPass DEF Notes, PublishFails
      <3>2. CASE pass.followed /\ Note("already_published")
        BY <1>2, <3>2, NotedPass DEF Notes
      <3>3. CASE RateLimited
        <4>1. CASE pass.try = 1 /\ pass' = [pass EXCEPT !.try = 2]
          BY <1>1, <1>2, <4>1 DEF Pass
        <4> QED
          BY <3>1, <3>3, <4>1 DEF RateLimited
      <3>4. ~ (followed' = More(followed))
        BY <1>2, <1>3, <1>5 DEF More
      <3> QED
        BY <1>5, <3>1, <3>2, <3>3, <3>4 DEF Crosspost, PublishByHand
    <2> QED
      BY <1>1, <1>2, <1>5, <2>1, RowWaits DEF Shown, history
  <1> QED
    BY <1>4, <1>5 DEF Crosspost, PublishByHand

\* What a commit writes in the row of its pass.
LEMMA SettledEntry ==
    ASSUME DistributionInv, Commit
    PROVE  /\ pass # Null /\ pass.at \in {"delivered", "failed"} /\ pass' = Null
           /\ Hands /\ UNCHANGED <<history, losses>>
           /\ \E e \in Entry :
                 /\ ledger' = [ledger EXCEPT ![pass.row] = e]
                 /\ e.status = "delivered" <=> pass.at = "delivered"
                 /\ e.note = Null \/ (pass.at = "delivered" /\ e.note = pass.note)
                 /\ e.attempts = ledger[pass.row].attempts + 1
                 /\ pass.at = "failed" =>
                       e.status = IF e.attempts >= MaxAttempts THEN "exhausted" ELSE "failed"
  <1>1. PICK status \in {"delivered", "failed"} : In(status) /\ ledger' = Settled(status)
    BY DEF Commit
  <1>2. pass # Null /\ pass.at = status
    BY <1>1 DEF In
  <1>3. /\ pass \in Pass /\ pass.row \in Targets
        /\ ledger[pass.row] \in Entry /\ ledger[pass.row].note = Null
    BY <1>1, <1>2, RowInHand
  <1> DEFINE n == ledger[pass.row].attempts + 1
  <1>4. n \in Nat
    BY <1>3 DEF Entry
  <1>5. CASE status = "delivered"
    <2> DEFINE e == [status |-> status, attempts |-> n, note |-> IF pass.noted THEN pass.note ELSE ledger[pass.row].note]
    <2>1. e \in Entry /\ e.status = "delivered" /\ e.note \in {Null, pass.note} /\ e.attempts = n
      BY <1>3, <1>4, <1>5 DEF Entry, Pass
    <2>2. ledger' = [ledger EXCEPT ![pass.row] = e]
      BY <1>1, <1>5 DEF Settled
    <2> HIDE DEF e
    <2> QED
      BY <1>1, <1>2, <1>5, <2>1, <2>2 DEF Commit
  <1>6. CASE status = "failed"
    <2> DEFINE e == [ledger[pass.row] EXCEPT !.status = IF n >= MaxAttempts THEN "exhausted" ELSE "failed",
                                             !.attempts = n]
    <2>1. /\ e \in Entry /\ e.status # "delivered" /\ e.note = Null /\ e.attempts = n
          /\ e.status = IF n >= MaxAttempts THEN "exhausted" ELSE "failed"
      BY <1>3, <1>4, NullIsNone DEF Entry
    <2>2. ledger' = [ledger EXCEPT ![pass.row] = e]
      BY <1>1, <1>6 DEF Settled
    <2> HIDE DEF e
    <2> QED
      BY <1>1, <1>2, <1>6, <2>1, <2>2 DEF Commit
  <1> QED
    BY <1>5, <1>6

\* What was in hand is on record.
LEMMA CommitKeepsInv ==
    ASSUME DistributionInv, Commit
    PROVE  DistributionInv'
  <1>1. /\ pass # Null /\ pass.at \in {"delivered", "failed"} /\ pass' = Null
        /\ Hands /\ UNCHANGED <<history, losses>>
    BY SettledEntry
  <1>2. PICK e \in Entry :
           /\ ledger' = [ledger EXCEPT ![pass.row] = e]
           /\ e.status = "delivered" <=> pass.at = "delivered"
           /\ e.note = Null \/ (pass.at = "delivered" /\ e.note = pass.note)
    BY SettledEntry
  <1>3. /\ pass \in Pass /\ pass.row \in Targets /\ Sent(pass.row) = 0
        /\ ledger[pass.row] # Null
        /\ Here(pass.row) = Num(pass.out) /\ InHand(pass.row) = Num(Shown(pass))
        /\ \A t \in Targets : t # pass.row => Here(t) = 0 /\ InHand(t) = 0
    BY <1>1, RowInHand
  <1>4. /\ ledger \in [Targets -> Entry \cup {Null}] /\ losses \in 0 .. MaxLosses
        /\ posts \in [Targets -> Nat] /\ late \in [Targets -> Nat] /\ followed \in [Targets -> Nat]
    BY DEF DistributionInv, TypeOK
  <1>5. ledger' \in [Targets -> Entry \cup {Null}] /\ ledger'[pass.row] = e /\ e # Null
    BY <1>2, <1>3, <1>4, NullIsNone
  <1>6. \A t \in Targets : t # pass.row => ledger'[t] = ledger[t]
    BY <1>2, <1>4
  <1>7. published
    BY <1>3 DEF DistributionInv, EnqueueIsSound
  <1>8. TypeOK' /\ EnqueueIsSound'
    BY <1>1, <1>4, <1>5, <1>7, HandsOff DEF history
  <1>9. RowIsHeld' /\ PassTellsTheTruth'
    BY <1>1 DEF RowIsHeld, PassTellsTheTruth
  <1>10. pass.at = "failed" => ~ pass.out /\ ~ Shown(pass)
    BY <1>1 DEF DistributionInv, RowIsHeld, Shown
  <1>11. ASSUME NEW t \in Targets
         PROVE  /\ posts'[t] - late'[t] <= Sent(t)' + Here(t)' + losses'
                /\ followed'[t] <= Sent(t)' + InHand(t)' + losses'
                /\ ledger'[t] # Null /\ ledger'[t].status # "delivered" => ledger'[t].note = Null
    <2>1. /\ posts[t] - late[t] <= Sent(t) + Here(t) + losses
          /\ followed[t] <= Sent(t) + InHand(t) + losses
          /\ ledger[t] # Null /\ ledger[t].status # "delivered" => ledger[t].note = Null
      BY DEF DistributionInv, CopiesAreCounted
    <2>2. Here(t)' = 0 /\ InHand(t)' = 0 /\ UNCHANGED <<posts, late, followed>>
      BY <1>1 DEF Here, InHand, history
    <2>3. CASE t = pass.row
      <3>1. Sent(t)' = IF pass.at = "delivered" THEN 1 ELSE 0
        BY <1>2, <1>5, <2>3 DEF Sent
      <3>2. Here(t) <= Sent(t)' /\ InHand(t) <= Sent(t)' /\ Sent(t) = 0
        BY <1>1, <1>3, <1>10, <2>3, <3>1 DEF Num
      <3>3. Sent(t)' \in Nat
        BY <3>1
      <3> QED
        BY <1>1, <1>2, <1>5, <2>1, <2>2, <2>3, <3>2, <3>3, Counts
    <2>4. CASE t # pass.row
      <3>1. Sent(t)' = Sent(t) /\ ledger'[t] = ledger[t]
        BY <1>6, <2>4 DEF Sent
      <3> QED
        BY <1>1, <1>3, <2>1, <2>2, <2>4, <3>1
    <2> QED
      BY <2>3, <2>4
  <1>12. NotesAreTrue'
    <2> SUFFICES ASSUME NEW t \in Targets, Sent(t)' = 1
                 PROVE  /\ ledger'[t].note \in {"published", "already_published"} => followed'[t] > 0
                        /\ ledger'[t].note = "skipped" => followed'[t] <= losses'
      BY DEF NotesAreTrue
    <2>1. UNCHANGED <<followed, losses>>
      BY <1>1 DEF history
    <2>2. CASE t = pass.row
      <3>1. Null \notin {"published", "already_published", "skipped"}
        BY NullIsNone DEF Notes
      <3> QED
        BY <1>1, <1>2, <1>5, <2>1, <2>2, <3>1 DEF DistributionInv, PassTellsTheTruth
    <2>3. CASE t # pass.row
      <3>1. ledger'[t] = ledger[t] /\ Sent(t) = 1
        BY <1>6, <2>3 DEF Sent
      <3> QED
        BY <2>1, <3>1 DEF DistributionInv, NotesAreTrue
    <2> QED
      BY <2>2, <2>3
  <1> QED
    BY <1>8, <1>9, <1>11, <1>12 DEF DistributionInv, CopiesAreCounted

LEMMA LoseKeepsInv ==
    ASSUME DistributionInv, Lose
    PROVE  DistributionInv'
  <1>1. /\ Hands /\ UNCHANGED <<ledger, history>>
        /\ pass' = Null /\ losses < MaxLosses /\ losses' = losses + 1
    BY DEF Lose
  <1>2. /\ ledger \in [Targets -> Entry \cup {Null}] /\ losses' \in 0 .. MaxLosses
        /\ posts \in [Targets -> Nat] /\ late \in [Targets -> Nat] /\ followed \in [Targets -> Nat]
    BY <1>1, DistributionAssumption DEF DistributionInv, TypeOK
  <1>3. TypeOK' /\ EnqueueIsSound'
    BY <1>1, <1>2, HandsOff DEF history
  <1> QED
    BY <1>1, <1>3, PassWaits DEF DistributionInv

----------------------------------------------------------------------------
(* The theorems *)

LEMMA DistributionInit == Init => DistributionInv
  <1> SUFFICES ASSUME Init PROVE DistributionInv
    OBVIOUS
  <1>1. \A t \in Targets : ledger[t] = Null /\ posts[t] = 0 /\ late[t] = 0 /\ followed[t] = 0
    BY DEF Init
  <1>2. TypeOK
    <2>1. setting \in [Settings -> Setting \cup {Null}] /\ subscription \in [Subscribers -> Subscription \cup {Null}]
      BY DEF Init
    <2>2. enabled \in [Processes -> SUBSET Channels]
      BY DEF Init
    <2>3. losses \in 0 .. MaxLosses /\ changes \in 0 .. MaxChanges
      BY DistributionAssumption DEF Init
    <2>4. posts \in [Targets -> Nat] /\ late \in [Targets -> Nat] /\ followed \in [Targets -> Nat]
      BY DEF Init
    <2> QED
      BY <2>1, <2>2, <2>3, <2>4 DEF Init, TypeOK
  <1>3. EnqueueIsSound /\ RowIsHeld /\ PassTellsTheTruth
    BY <1>1 DEF Init, EnqueueIsSound, RowIsHeld, PassTellsTheTruth
  <1>4. \A t \in Targets : Sent(t) = 0 /\ Here(t) = 0 /\ InHand(t) = 0
    BY <1>1 DEF Init, Sent, Here, InHand
  <1>5. CopiesAreCounted /\ NotesAreTrue
    BY <1>1, <1>4 DEF Init, CopiesAreCounted, NotesAreTrue
  <1> QED
    BY <1>2, <1>3, <1>5 DEF DistributionInv

LEMMA DistributionStep == DistributionInv /\ [Next]_vars => DistributionInv'
  <1> SUFFICES ASSUME DistributionInv, [Next]_vars PROVE DistributionInv'
    OBVIOUS
  <1>1. CASE UNCHANGED vars
    <2>1. /\ UNCHANGED <<tables, processes, enqueue, published, changes, watched>>
          /\ UNCHANGED <<ledger, pass, history, losses>>
      BY <1>1 DEF vars
    <2>2. TypeOK'
      BY <2>1 DEF DistributionInv, TypeOK, tables, processes, history, watched
    <2>3. EnqueueIsSound'
      BY <2>1, StandingStays DEF DistributionInv, EnqueueIsSound, Enabled, watched, processes
    <2> QED
      BY <2>1, <2>2, <2>3, PassWaits DEF DistributionInv
  <1>2. CASE Next
    BY <1>2, TablesKeepInv, RestartKeepsInv, MigrateKeepsInv, PublishKeepsInv, SelectSettingsKeepsInv,
       SelectSubscriptionsKeepsInv, InsertKeepsInv, ClaimKeepsInv, ReadKeepsInv, PostKeepsInv,
       LookUpKeepsInv, CrosspostKeepsInv, CommitKeepsInv, LoseKeepsInv
    DEF Next
  <1> QED
    BY <1>1, <1>2

THEOREM DistributionInvariant == Spec => []DistributionInv
  BY DistributionInit, DistributionStep, PTL DEF Spec

\* Every variable keeps its type, and a crosspost is tried twice at most.
THEOREM DistributionTypes == Spec => []TypeOK
  <1>1. DistributionInv => TypeOK
    BY DEF DistributionInv
  <1> QED
    BY <1>1, DistributionInvariant, PTL

\* Whatever becomes of the crosspost, a message that was accepted is posted again, and
\* shown to the followers again, only after a transaction of runFanoutOnce was lost.
THEOREM PostsAreAcceptedOnce == Spec => []AcceptedOnce
  <1>1. DistributionInv => AcceptedOnce
    <2> SUFFICES ASSUME DistributionInv, NEW t \in Targets
                 PROVE  /\ posts[t] - late[t] <= Sent(t) + Here(t) + losses
                        /\ followed[t] <= Sent(t) + Here(t) + losses
      BY DEF AcceptedOnce
    <2>1. InHand(t) <= Here(t)
      BY DEF DistributionInv, RowIsHeld, InHand, Here, Num, Shown
    <2> QED
      BY <2>1, Counts DEF DistributionInv, CopiesAreCounted
  <1> QED
    BY <1>1, DistributionInvariant, PTL

\* The note of a delivered row says what became of its message (publishToFollowers).
THEOREM NotesStayTrue == Spec => []NotesAreTrue
  <1>1. DistributionInv => NotesAreTrue
    BY DEF DistributionInv
  <1> QED
    BY <1>1, DistributionInvariant, PTL

\* Whatever changes between the statements of an enqueue, a row is given to everybody who
\* was a target all the time and to nobody who was one at no moment (countFanoutTargets).
THEOREM TheRightOnesGetIt == Spec => TargetsAreThoseThatStood
  <1> DEFINE Stood == ledger' # ledger /\ pass' = pass =>
                         /\ always \subseteq {t \in Targets : ledger'[t] # Null}
                         /\ {t \in Targets : ledger'[t] # Null} \subseteq ever
  <1>1. ASSUME DistributionInv, [Next]_vars, ledger' # ledger, pass' = pass
        PROVE  /\ always \subseteq {t \in Targets : ledger'[t] # Null}
               /\ {t \in Targets : ledger'[t] # Null} \subseteq ever
    <2>1. ~ Commit
      BY <1>1, SettledEntry
    <2>2. InsertDeliveries
      BY <1>1, <2>1 DEF Next, vars, SetUpChannel, Unsubscribe, ChangeSubscription, Publish, Restart,
           Migrate, SelectSettings, SelectSubscriptions, BeginPass, Claim, Lose, ReadTarget, Accepted,
           Refused, LookUp, Crosspost, PublishByHand
    <2> QED
      BY <1>1, <2>2, InsertGives DEF InsertDeliveries, DistributionInv, EnqueueIsSound
  <1>2. DistributionInv /\ [Next]_vars => [Stood]_vars
    BY <1>1
  <1> QED
    BY <1>2, DistributionInvariant, PTL DEF Spec, TargetsAreThoseThatStood

----------------------------------------------------------------------------
(* The ladder *)

\* The worker reads its environment once, and a pass ends with its process.
HeldIsServed == pass # Null /\ pass.row # Null => pass.row[1] \in enabled["worker"]

LEMMA StepServed ==
    ASSUME DistributionInv, HeldIsServed, [Next]_vars
    PROVE  HeldIsServed'
  <1>1. pass \in Pass \cup {Null} /\ enabled \in [Processes -> SUBSET Channels]
    BY DEF DistributionInv, TypeOK
  <1>2. CASE enabled' = enabled /\ (pass' = Null \/ (pass # Null /\ pass'.row = pass.row))
    BY <1>2 DEF HeldIsServed
  <1>3. CASE BeginPass
    BY <1>3 DEF BeginPass, HeldIsServed
  <1>4. CASE Claim
    <2>1. CASE pass' = Null
      BY <2>1 DEF HeldIsServed
    <2>2. CASE \E t \in Due : pass' = [pass EXCEPT !.at = "read", !.row = t]
      <3>1. PICK t \in Due : pass' = [pass EXCEPT !.at = "read", !.row = t]
        BY <2>2
      <3>2. pass \in Pass /\ pass'.row = t
        BY <1>1, <1>4, <3>1 DEF Claim, In, Pass
      <3> QED
        BY <1>4, <3>1, <3>2 DEF Claim, Hands, processes, Due, HeldIsServed
    <2> QED
      BY <1>4, <2>1, <2>2 DEF Claim
  <1>5. ASSUME NEW p \in Processes, NEW C \in Configurations, NEW b \in BOOLEAN, Restart(p, C, b)
        PROVE  HeldIsServed'
    BY <1>1, <1>5 DEF Restart, HeldIsServed, Processes
  <1>6. CASE ReadTarget \/ Accepted \/ Refused \/ LookUp \/ Crosspost \/ PublishByHand
    <2>1. pass \in Pass /\ enabled' = enabled
      BY <1>1, <1>6 DEF ReadTarget, Accepted, Refused, LookUp, Crosspost, PublishByHand, In, Hands, processes
    <2>2. pass'.row = pass.row
      BY <1>6, <2>1 DEF ReadTarget, Accepted, Refused, LookUp, Crosspost, PublishByHand, Goto, Note,
         PublishFails, RateLimited, Pass
    <2> QED
      BY <1>2, <1>6, <2>1, <2>2 DEF ReadTarget, Accepted, Refused, LookUp, Crosspost, PublishByHand, In
  <1>7. CASE Commit \/ Lose
    BY <1>2, <1>7 DEF Commit, Lose, Hands, processes
  <1>8. CASE UNCHANGED vars
    BY <1>8 DEF vars, processes, HeldIsServed
  <1>9. CASE \/ \E k \in Settings, s \in Setting : SetUpChannel(k, s)
             \/ \E s \in Subscribers : Unsubscribe(s) \/ \E m \in BOOLEAN : ChangeSubscription(s, m)
             \/ \E p \in Processes : Publish(p)
             \/ Migrate \/ SelectSettings \/ SelectSubscriptions \/ InsertDeliveries
    <2>1. enabled' = enabled /\ pass' = pass
      BY <1>9 DEF SetUpChannel, Unsubscribe, ChangeSubscription, Publish, Migrate, SelectSettings,
         SelectSubscriptions, InsertDeliveries, processes
    <2> QED
      BY <2>1 DEF HeldIsServed
  <1> QED
    BY <1>3, <1>4, <1>5, <1>6, <1>7, <1>8, <1>9 DEF Next

\* Every target is a delivery of the ladder, and nothing else has a row there.
LEMMA RowsOfTargets ==
    /\ Targets \subseteq Ladder!Deliveries
    /\ Rows = [d \in Ladder!Deliveries |-> IF d \in Targets /\ ledger[d] # Null THEN rowOf(ledger[d]) ELSE Null]
    /\ Rows' = [d \in Ladder!Deliveries |-> IF d \in Targets /\ ledger'[d] # Null THEN rowOf(ledger'[d]) ELSE Null]
    /\ \A e \in Entry : rowOf(e) # Null /\ rowOf(e) = [status |-> e.status, attempts |-> e.attempts, wait |-> 0]
  <1>1. Targets \subseteq Ladder!Deliveries
    BY DEF Targets, Channels, Ladder!Deliveries
  <1>2. ASSUME NEW e \in Entry
        PROVE  rowOf(e) # Null
    BY <1>2, NullIsNoRow DEF rowOf, Entry, Ladder!Entry, Ladder!Statuses
  <1> QED
    BY <1>1, <1>2 DEF Rows, Ladder!Deliveries, rowOf

\* An enqueue that inserts something is one of the ladder.
LEMMA InsertEnqueues ==
    ASSUME DistributionInv, InsertDeliveries, ledger' # ledger
    PROVE  Ladder!Enqueue(Moved) /\ OnlyDeliveryReports
  <1> DEFINE D == Enabled(enqueue.by, enqueue.found)
  <1>1. /\ ledger' = [t \in Targets |-> IF t \in D THEN NewEntry ELSE Null]
        /\ NewEntry \in Entry /\ NewEntry # Null
        /\ {t \in Targets : ledger'[t] # Null} = D
    BY InsertGives
  <1>2. \A t \in Targets : ledger[t] = Null
    BY DEF DistributionInv, EnqueueIsSound, InsertDeliveries
  <1>3. Moved = D /\ D \subseteq Targets
    BY <1>1, <1>2 DEF Moved
  <1>4. D # {}
    BY <1>1, <1>2 DEF DistributionInv, TypeOK
  <1> HIDE DEF D
  <1>5. \A d \in Ladder!Deliveries : Rows[d] = Null
    BY <1>2, RowsOfTargets
  <1>6. \E d \in D : Rows[d] = Null
    BY <1>3, <1>4, <1>5, RowsOfTargets
  <1>7. Rows' = [d \in Ladder!Deliveries |-> IF d \in D /\ Rows[d] = Null THEN Ladder!NewEntry ELSE Rows[d]]
    <2>1. rowOf(NewEntry) = Ladder!NewEntry
      BY <1>1 DEF rowOf, NewEntry, Ladder!NewEntry
    <2> QED
      BY <1>1, <1>3, <1>5, <2>1, RowsOfTargets
  <1>8. enabled' = enabled
    BY DEF InsertDeliveries, processes
  <1>9. OnlyDeliveryReports
    <2>1. Unpublished = {} /\ Unpublished' = {}
      BY <1>1, <1>2, NullIsNone DEF Unpublished, NewEntry, Notes
    <2> QED
      BY <2>1 DEF OnlyDeliveryReports
  <1> QED
    BY <1>3, <1>6, <1>7, <1>8, <1>9 DEF Ladder!Enqueue

\* A commit is one attempt of the ladder.
LEMMA CommitSettles ==
    ASSUME DistributionInv, HeldIsServed, Commit
    PROVE  /\ \E written \in Ladder!AnyOutcomes(Moved) : Ladder!Settle(Moved, written, 0)
           /\ OnlyDeliveryReports
  <1>1. /\ pass # Null /\ pass.at \in {"delivered", "failed"}
        /\ pass.row \in Targets /\ pass.row[1] \in enabled["worker"]
        /\ ledger[pass.row] # Null /\ ledger[pass.row] \in Entry
        /\ ledger[pass.row].status \in {"pending", "failed"} /\ ledger[pass.row].note = Null
        /\ Hands
    BY SettledEntry, RowInHand, NullIsNone DEF HeldIsServed
  <1> DEFINE n == ledger[pass.row].attempts
  <1>2. PICK e \in Entry :
           /\ ledger' = [ledger EXCEPT ![pass.row] = e]
           /\ e.status = "delivered" <=> pass.at = "delivered"
           /\ e.note = Null \/ (pass.at = "delivered" /\ e.note = pass.note)
           /\ e.attempts = n + 1
           /\ pass.at = "failed" => e.status = IF e.attempts >= MaxAttempts THEN "exhausted" ELSE "failed"
    BY SettledEntry
  <1>3. ledger \in [Targets -> Entry \cup {Null}]
    BY DEF DistributionInv, TypeOK
  <1>4. ledger'[pass.row] = e /\ e # Null /\ \A t \in Targets : t # pass.row => ledger'[t] = ledger[t]
    BY <1>1, <1>2, <1>3, NullIsNone
  <1>5. /\ e.attempts = n + 1
        /\ e.status = IF pass.at = "delivered" THEN "delivered"
                      ELSE IF n + 1 >= MaxAttempts THEN "exhausted" ELSE "failed"
    BY <1>1, <1>2
  <1>6. n \in Nat
    BY <1>1 DEF Entry
  <1>7. Moved = {pass.row}
    <2>1. e # ledger[pass.row]
      BY <1>5, <1>6
    <2> QED
      BY <1>1, <1>4, <2>1 DEF Moved
  <1>8. Rows[pass.row] = rowOf(ledger[pass.row]) /\ Rows'[pass.row] = rowOf(e)
    BY <1>1, <1>4, RowsOfTargets
  <1>9. Ladder!Due(pass.row)
    BY <1>1, <1>8, RowsOfTargets DEF Ladder!Due, rowOf
  <1>10. rowOf(e) \in Ladder!Outcomes(pass.row)
    <2>1. Rows[pass.row].attempts = n
      BY <1>8 DEF rowOf
    <2>2. Ladder!Backoff(n + 1) = 0
      BY <1>6 DEF Ladder!Backoff
    <2>3. rowOf(e) \in {Ladder!Delivered(n), Ladder!Failed(n)}
      BY <1>5, <2>2 DEF rowOf, Ladder!Delivered, Ladder!Failed, Ladder!GivesUp
    <2> QED
      BY <2>1, <2>3 DEF Ladder!Outcomes
  <1> DEFINE written == [d \in Moved |-> rowOf(e)]
  <1>11. written \in Ladder!AnyOutcomes(Moved)
    BY <1>7, <1>10 DEF Ladder!AnyOutcomes
  <1>12. Rows' = [d \in Ladder!Deliveries |-> IF d \in Moved THEN Ladder!Later(written[d], 0) ELSE Rows[d]]
    <2>1. Ladder!Later(rowOf(e), 0) = rowOf(e)
      BY DEF Ladder!Later, Ladder!Monus, rowOf
    <2> QED
      BY <1>1, <1>4, <1>7, <1>8, <2>1, RowsOfTargets
  <1>13. enabled' = enabled
    BY <1>1 DEF Hands, processes
  <1>14. Ladder!Settle(Moved, written, 0)
    BY <1>7, <1>9, <1>10, <1>12, <1>13 DEF Ladder!Settle
  <1>15. OnlyDeliveryReports
    <2>1. \A t \in Unpublished : t # pass.row
      BY <1>1, NullIsNone DEF Unpublished, Notes
    <2>2. \A t \in Targets : t # pass.row => (t \in Unpublished' <=> t \in Unpublished)
      BY <1>4 DEF Unpublished
    <2>3. pass.row \in Unpublished' => e.status = "delivered"
      BY <1>2, <1>4, NullIsNone DEF Unpublished, Notes
    <2>4. pass.row \in Due
      BY <1>1 DEF Due
    <2> QED
      BY <1>1, <1>4, <2>1, <2>2, <2>3, <2>4 DEF OnlyDeliveryReports, Unpublished
  <1> QED
    BY <1>11, <1>14, <1>15

\* A worker that starts anew serves what its environment names.
LEMMA RestartServes ==
    ASSUME NEW p \in Processes, NEW C \in Configurations, NEW b \in BOOLEAN, Restart(p, C, b)
    PROVE  Ladder!Serve(enabled'["worker"]) /\ OnlyDeliveryReports
  <1>1. ledger' = ledger
    BY DEF Restart
  <1>2. Rows' = Rows /\ Unpublished' = Unpublished
    BY <1>1 DEF Rows, Unpublished
  <1> QED
    BY <1>2 DEF Ladder!Serve, OnlyDeliveryReports

LEMMA StepFeeds ==
    ASSUME DistributionInv, HeldIsServed, [Next]_vars, ledger' # ledger \/ enabled' # enabled
    PROVE  LadderMoves /\ OnlyDeliveryReports
  <1>1. CASE InsertDeliveries
    BY <1>1, InsertEnqueues DEF LadderMoves, InsertDeliveries, processes
  <1>2. CASE Commit
    BY <1>2, CommitSettles DEF LadderMoves
  <1>3. ASSUME NEW p \in Processes, NEW C \in Configurations, NEW b \in BOOLEAN, Restart(p, C, b)
        PROVE  LadderMoves /\ OnlyDeliveryReports
    BY <1>3, RestartServes DEF LadderMoves
  <1>4. CASE ~ InsertDeliveries /\ ~ Commit
             /\ ~ \E p \in Processes, C \in Configurations, b \in BOOLEAN : Restart(p, C, b)
    <2>1. ledger' = ledger /\ enabled' = enabled
      BY <1>4 DEF Next, vars, processes, Hands, SetUpChannel, Unsubscribe, ChangeSubscription, Publish, Migrate,
         SelectSettings, SelectSubscriptions, BeginPass, Claim, Lose, ReadTarget, Accepted, Refused, LookUp,
         Crosspost, PublishByHand
    <2> QED
      BY <2>1
  <1> QED
    BY <1>1, <1>2, <1>3, <1>4

THEOREM ServedInvariant == Spec => []HeldIsServed
  <1>1. Init => HeldIsServed
    BY DEF Init, HeldIsServed
  <1>2. DistributionInv /\ HeldIsServed /\ [Next]_vars => HeldIsServed'
    BY StepServed
  <1> QED
    BY <1>1, <1>2, DistributionInvariant, PTL DEF Spec

LEMMA LadderInit == Init => Ladder!Init
  <1> SUFFICES ASSUME Init PROVE Ladder!Init
    OBVIOUS
  <1>1. Rows = [d \in Ladder!Deliveries |-> Null]
    BY RowsOfTargets DEF Init
  <1> QED
    BY <1>1 DEF Init, Processes, Ladder!Init

\* What the alerts take for granted of the fan-out is what the enqueue and the passes do.
THEOREM TheAlertsAreFed == Spec => FeedsTheAlerts
  <1> DEFINE Fed == ledger' # ledger \/ enabled' # enabled => LadderMoves /\ OnlyDeliveryReports
  <1>1. DistributionInv /\ HeldIsServed /\ [Next]_vars => [Fed]_vars
    BY StepFeeds
  <1> QED
    BY <1>1, LadderInit, DistributionInvariant, ServedInvariant, PTL DEF Spec, FeedsTheAlerts

\* And so the ledger moves as DeliveryLadder says, as it does in Fanout.
THEOREM DistributionIsALadder == Spec => Ladder!Spec
  <1>1. ASSUME DistributionInv, DistributionInv', LadderMoves
        PROVE  Ladder!Next
    <2>1. CASE Ladder!Serve(enabled'["worker"])
      <3>1. enabled'["worker"] \in SUBSET Channels
        BY <1>1 DEF DistributionInv, TypeOK, Processes
      <3> QED
        BY <2>1, <3>1 DEF Ladder!Next
    <2>2. CASE Ladder!Enqueue(Moved)
      BY <2>2, RowsOfTargets DEF Ladder!Next, Moved
    <2>3. CASE \E written \in Ladder!AnyOutcomes(Moved) : Ladder!Settle(Moved, written, 0)
      <3>1. Moved \in SUBSET {d \in Ladder!Deliveries : Ladder!Due(d)}
        BY <2>3, RowsOfTargets DEF Ladder!Settle, Moved
      <3>2. 0 \in 0 .. 0
        OBVIOUS
      <3> QED
        BY <2>3, <3>1, <3>2 DEF Ladder!Next
    <2> QED
      BY <1>1, <2>1, <2>2, <2>3 DEF LadderMoves
  <1>2. ledger' = ledger /\ enabled' = enabled => UNCHANGED Ladder!vars
    BY DEF Ladder!vars, Rows
  <1>3. DistributionInv /\ HeldIsServed /\ [Next]_vars => [Ladder!Next]_Ladder!vars
    <2> SUFFICES ASSUME DistributionInv, HeldIsServed, [Next]_vars
                 PROVE  [Ladder!Next]_Ladder!vars
      OBVIOUS
    <2>1. DistributionInv'
      BY DistributionStep
    <2> QED
      BY <1>1, <1>2, <2>1, StepFeeds
  <1> QED
    BY <1>3, LadderInit, DistributionInvariant, ServedInvariant, PTL DEF Spec, Ladder!Spec

============================================================================
