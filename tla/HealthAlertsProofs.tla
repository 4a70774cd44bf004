------------------------- MODULE HealthAlertsProofs -------------------------
(***************************************************************************)
(* Proofs about HealthAlerts.  That a mail stays true rests on the ladder: *)
(* it never moves a finished row.  That every mail is accounted for rests  *)
(* on the row locks of alert_state: a key is in the hands of one dispatch, *)
(* and is open as long as it is.  That every failure is reported rests on  *)
(* a promise: at any moment an outstanding issue is due to be mailed by    *)
(* the next dispatch, or by one under way, before its window ends; a loss  *)
(* passes the promise on, later by a bounded delay.                        *)
(***************************************************************************)
EXTENDS HealthAlerts, TLAPS

----------------------------------------------------------------------------
(* Rows of the ledger *)

\* A wait never becomes negative and never grows with time.
LEMMA MonusType == ASSUME NEW m \in Nat, NEW n \in Nat
                   PROVE  Monus(m, n) \in Nat /\ Monus(m, n) <= m
BY DEF Monus

\* Every failed attempt is put off by a number of minutes.
LEMMA BackoffType == ASSUME NEW n \in Nat, n > 0 PROVE Backoff(n) \in Nat
BY LedgerAssumption DEF Backoff

\* An entry keeps its type and all but its wait as time passes.
LEMMA LaterType ==
    ASSUME NEW e \in Entry, NEW m \in Nat
    PROVE  /\ Later(e, m) \in Entry
           /\ Later(e, m).status = e.status
           /\ Later(e, m).attempts = e.attempts
           /\ Later(e, m).wait <= e.wait
           /\ e.wait = 0 => Later(e, m) = e
<1>1. e.wait \in Nat
  BY DEF Entry
<1>. DEFINE w == Monus(e.wait, m)
<1>2. w \in Nat /\ w <= e.wait
  BY <1>1, MonusType
<1>3. Later(e, m) = [e EXCEPT !.wait = w]
  BY DEF Later
<1>4. e.wait = 0 => w = 0
  BY DEF Monus
<1>. HIDE DEF w
<1>5. /\ [e EXCEPT !.wait = w] \in Entry
      /\ [e EXCEPT !.wait = w].status = e.status
      /\ [e EXCEPT !.wait = w].attempts = e.attempts
      /\ [e EXCEPT !.wait = w].wait = w
  BY <1>2 DEF Entry
<1>6. e.wait = 0 => [e EXCEPT !.wait = w] = e
  BY <1>4 DEF Entry
<1>. QED BY <1>2, <1>3, <1>5, <1>6

\* What an attempt makes of a row that has had n of them.
LEMMA OutcomeType ==
    ASSUME NEW n \in Nat
    PROVE  /\ Missing(n) \in Entry /\ Missing(n).attempts = n
           /\ Delivered(n) \in Entry /\ Delivered(n).attempts = n + 1
           /\ Failed(n) \in Entry /\ Failed(n).attempts = n + 1
<1>1. Backoff(n + 1) \in Nat
  BY BackoffType
<1>. QED BY <1>1 DEF Missing, Delivered, Failed, Entry, Statuses

----------------------------------------------------------------------------
(* What the ledger does *)

\* The two instances of Ledger are one.
LEMMA SameLedger ==
    /\ Ladder!Deliveries = Deliveries /\ Ladder!NewEntry = NewEntry
    /\ \A n : /\ Ladder!Delivered(n) = Delivered(n)
              /\ Ladder!Failed(n) = Failed(n)
              /\ Ladder!Missing(n) = Missing(n)
    /\ \A e, m : Ladder!Later(e, m) = Later(e, m)
  <1>1. Ladder!Deliveries = Deliveries /\ Ladder!NewEntry = NewEntry
    BY DEF Deliveries, Ladder!Deliveries, NewEntry, Ladder!NewEntry
  <1>2. ASSUME NEW n
        PROVE  /\ Ladder!Delivered(n) = Delivered(n)
               /\ Ladder!Failed(n) = Failed(n)
               /\ Ladder!Missing(n) = Missing(n)
    BY DEF Delivered, Failed, Missing, GivesUp, Backoff,
           Ladder!Delivered, Ladder!Failed, Ladder!Missing, Ladder!GivesUp, Ladder!Backoff
  <1>3. ASSUME NEW e, NEW m
        PROVE  Ladder!Later(e, m) = Later(e, m)
    BY DEF Later, Monus, Ladder!Later, Ladder!Monus
  <1> QED
    BY <1>1, <1>2, <1>3

Finished(entry) == entry # Null /\ entry.status \in {"delivered", "exhausted"}

LedgerType == ledger \in [Deliveries -> Entry \cup {Null}]

\* A step of the ledger keeps its type and the status of what is finished.
LedgerKeeps ==
    /\ LedgerType'
    /\ \A d \in Deliveries :
          Finished(ledger[d]) => ledger'[d] # Null /\ ledger'[d].status = ledger[d].status

LEMMA EnqueueKeeps ==
    ASSUME LedgerType, NEW D, Ladder!Enqueue(D)
    PROVE  LedgerKeeps
  <1>1. NewEntry \in Entry
    BY DEF NewEntry, Entry, Statuses
  <1>2. ledger' = [d \in Deliveries |-> IF d \in D /\ ledger[d] = Null THEN NewEntry ELSE ledger[d]]
    BY SameLedger DEF Ladder!Enqueue
  <1> QED
    BY <1>1, <1>2 DEF LedgerKeeps, LedgerType, Finished

LEMMA TimeKeeps ==
    ASSUME LedgerType, Ladder!AdvanceTime
    PROVE  LedgerKeeps
  <1>1. ledger' = [d \in Deliveries |-> IF ledger[d] = Null THEN Null ELSE Later(ledger[d], 1)]
    BY SameLedger DEF Ladder!AdvanceTime
  <1>2. ASSUME NEW d \in Deliveries, ledger[d] # Null
        PROVE  ledger'[d] \in Entry /\ ledger'[d].status = ledger[d].status
    BY <1>1, <1>2, LaterType DEF LedgerType
  <1>3. ASSUME NEW d \in Deliveries
        PROVE  ledger'[d] \in Entry \cup {Null}
    BY <1>1, <1>2
  <1>4. LedgerType'
    BY <1>1, <1>3 DEF LedgerType
  <1> QED
    BY <1>2, <1>4, LedgerAssumption DEF LedgerKeeps, Finished

\* What a pass writes in a row that was due.
LEMMA SettledRows ==
    ASSUME LedgerType, NEW D \in SUBSET Deliveries, NEW written, NEW age \in 0 .. LongestPass,
           Ladder!Settle(D, written, age)
    PROVE  /\ LedgerKeeps
           /\ \A d \in D : written[d] \in Entry /\ ledger'[d] = Later(written[d], age)
                           /\ ledger'[d] # Null /\ ledger'[d].status = written[d].status
                           /\ ~Finished(ledger[d])
           /\ \A d \in Deliveries \ D : ledger'[d] = ledger[d]
  <1>1. age \in Nat
    BY AlertsAssumption
  <1>2. ledger' = [d \in Deliveries |-> IF d \in D THEN Later(written[d], age) ELSE ledger[d]]
    BY SameLedger DEF Ladder!Settle
  <1>3. ASSUME NEW d \in D
        PROVE  written[d] \in Entry /\ ~Finished(ledger[d])
    <2>1. /\ ledger[d] # Null /\ ledger[d].status \in {"pending", "failed"}
          /\ written[d] \in Ladder!Outcomes(d)
      BY DEF Ladder!Settle, Ladder!Due
    <2>2. ledger[d].attempts \in Nat
      BY <2>1 DEF LedgerType, Entry
    <2>3. written[d] \in {Delivered(ledger[d].attempts), Failed(ledger[d].attempts), Missing(ledger[d].attempts)}
      BY <2>1, SameLedger DEF Ladder!Outcomes
    <2> QED
      BY <2>1, <2>2, <2>3, OutcomeType DEF Finished
  <1>4. ASSUME NEW d \in D
        PROVE  /\ ledger'[d] = Later(written[d], age) /\ ledger'[d] \in Entry
               /\ ledger'[d].status = written[d].status
    BY <1>1, <1>2, <1>3, LaterType
  <1>5. \A d \in Deliveries \ D : ledger'[d] = ledger[d]
    BY <1>2
  <1>6. LedgerType'
    BY <1>2, <1>4, <1>5 DEF LedgerType
  <1> QED
    BY <1>3, <1>4, <1>5, <1>6, LedgerAssumption DEF LedgerKeeps, Finished

----------------------------------------------------------------------------
(* Types *)

\* The issues of a query are about deliveries.
LEMMA IssuesAreDeliveries ==
    ASSUME TypeOK, NEW kind \in Kinds
    PROVE  Issues[kind] \subseteq Deliveries
  BY DEF TypeOK, Kinds, Issues, Exhausted, PublishFailed, Silent

\* A query adds the issues of its kind to the keys of its dispatch and goes on.
LEMMA QueryShape ==
    ASSUME TypeOK, NEW p \in Dispatches, Query(p)
    PROVE  /\ run[p] \in Run /\ run[p].stage \in Kinds
           /\ \E w \in Run \cup {Null} :
                 /\ run' = [run EXCEPT ![p] = w]
                 /\ w # Null => /\ w.keys = run[p].keys \cup ({run[p].stage} \X Issues[run[p].stage])
                                /\ w.fresh = run[p].fresh /\ w.age = run[p].age
                                /\ w.stage = Following[run[p].stage]
                 /\ w = Null => /\ run[p].keys \cup ({run[p].stage} \X Issues[run[p].stage]) = {}
                                /\ Following[run[p].stage] = "record"
  <1> DEFINE q    == run[p]
             keys == q.keys \cup ({q.stage} \X Issues[q.stage])
             next == Following[q.stage]
             w    == [q EXCEPT !.stage = next, !.keys = keys]
  <1>1. q \in Run /\ q.stage \in Kinds
    BY DEF Query, TypeOK
  <1>2. next \in Stages
    BY <1>1 DEF Following, Kinds, Stages
  <1>3. keys \subseteq Keys
    BY <1>1, IssuesAreDeliveries DEF Run, Keys
  <1>4. run' = [run EXCEPT ![p] = IF next = "record" /\ keys = {} THEN Null ELSE w]
    BY DEF Query
  <1> HIDE DEF keys, next
  <1>5. w \in Run /\ w.keys = keys /\ w.fresh = q.fresh /\ w.age = q.age /\ w.stage = next
    BY <1>1, <1>2, <1>3 DEF Run
  <1>6. CASE next = "record" /\ keys = {}
    BY <1>1, <1>4, <1>6 DEF keys, next
  <1>7. CASE ~(next = "record" /\ keys = {})
    <2> HIDE DEF w
    <2>1. run' = [run EXCEPT ![p] = w] /\ w # Null
      BY <1>4, <1>5, <1>7, AlertsAssumption
    <2> QED
      BY <1>1, <1>5, <2>1 DEF keys, next
  <1> QED
    BY <1>6, <1>7

\* A claim takes keys that are open and that nobody has, or ends the dispatch.
LEMMA ClaimShape ==
    ASSUME TypeOK, NEW p \in Dispatches, Claim(p)
    PROVE  /\ run[p] \in Run /\ run[p].stage = "record"
           /\ \E w \in Run \cup {Null} :
                 /\ run' = [run EXCEPT ![p] = w]
                 /\ w # Null => /\ w.stage = "send" /\ w.keys = run[p].keys /\ w.age = run[p].age
                                /\ w.fresh = {k \in run[p].keys : Untold(k) /\ ~Locked(k)}
                 /\ w = Null => {k \in run[p].keys : Untold(k) /\ ~Locked(k)} = {}
  <1> DEFINE q     == run[p]
             fresh == {k \in q.keys : Untold(k) /\ ~Locked(k)}
             w     == [q EXCEPT !.stage = "send", !.fresh = fresh]
  <1>1. q \in Run /\ q.stage = "record"
    BY DEF Claim, TypeOK
  <1>2. fresh \subseteq Keys
    BY <1>1 DEF Run
  <1>3. run' = [run EXCEPT ![p] = IF fresh = {} THEN Null ELSE w]
    BY DEF Claim
  <1> HIDE DEF fresh
  <1>4. w \in Run /\ w.keys = q.keys /\ w.fresh = fresh /\ w.age = q.age /\ w.stage = "send"
    BY <1>1, <1>2 DEF Run, Stages
  <1>5. CASE fresh = {}
    BY <1>1, <1>3, <1>5 DEF fresh
  <1>6. CASE fresh # {}
    <2> HIDE DEF w
    <2>1. run' = [run EXCEPT ![p] = w] /\ w # Null
      BY <1>3, <1>4, <1>6, AlertsAssumption
    <2> QED
      BY <1>1, <1>4, <2>1 DEF fresh
  <1> QED
    BY <1>5, <1>6

\* A mail names the keys of its dispatch.
LEMMA MailedIsTyped ==
    ASSUME TypeOK, NEW p \in Dispatches
    PROVE  /\ Mailed(p) \in [Keys -> Nat]
           /\ \A k \in Keys : Mailed(p)[k] = IF k \in run[p].fresh THEN mails[k] + 1 ELSE mails[k]
  <1>1. \A k \in Keys : mails[k] \in Nat /\ mails[k] + 1 \in Nat
    BY DEF TypeOK
  <1> QED
    BY <1>1 DEF Mailed

\* The steps of dispatches are typed.
LEMMA DispatchTypes ==
    ASSUME TypeOK, NEW p \in Dispatches,
           \/ Begin(p) \/ Query(p) \/ Claim(p) \/ Send(p) \/ SendFails(p) \/ Mark(p) \/ Lose(p)
           \/ \E k \in Keys : Record(p, k)
    PROVE  TypeOK'
  <1>1. ASSUME UNCHANGED issueVars, run' \in [Dispatches -> Run \cup {Null}],
               alert' \in [Keys -> {Null, "open", "notified"}], mails' \in [Keys -> Nat],
               idle' \in Nat, losses' \in Nat
        PROVE  TypeOK'
    BY <1>1 DEF TypeOK, issueVars
  <1>2. /\ run \in [Dispatches -> Run \cup {Null}] /\ alert \in [Keys -> {Null, "open", "notified"}]
        /\ mails \in [Keys -> Nat] /\ idle \in Nat /\ losses \in Nat /\ losses + 1 \in Nat
    BY DEF TypeOK
  <1>3. ASSUME NEW w \in Run \cup {Null}, run' = [run EXCEPT ![p] = w]
        PROVE  run' \in [Dispatches -> Run \cup {Null}]
    BY <1>2, <1>3
  <1>4. CASE Begin(p)
    <2>1. [stage |-> "exhausted", keys |-> {}, fresh |-> {}, age |-> 0] \in Run
      BY DEF Run, Stages, Kinds
    <2> QED
      BY <1>1, <1>2, <1>3, <1>4, <2>1 DEF Begin
  <1>5. CASE Query(p)
    <2>1. run' \in [Dispatches -> Run \cup {Null}]
      BY <1>3, <1>5, QueryShape
    <2> QED
      BY <1>1, <1>2, <1>5, <2>1 DEF Query
  <1>6. CASE Claim(p)
    <2>1. run' \in [Dispatches -> Run \cup {Null}]
      BY <1>3, <1>6, ClaimShape
    <2> QED
      BY <1>1, <1>2, <1>6, <2>1 DEF Claim
  <1>7. CASE Send(p)
    <2>1. [run[p] EXCEPT !.stage = "mark"] \in Run
      BY <1>2, <1>7 DEF Send, Run, Stages
    <2>2. run' = [run EXCEPT ![p] = [run[p] EXCEPT !.stage = "mark"]]
      BY <1>7 DEF Send
    <2>3. run' \in [Dispatches -> Run \cup {Null}]
      BY <1>3, <2>1, <2>2
    <2> QED
      BY <1>1, <1>2, <1>7, <2>3, MailedIsTyped DEF Send
  <1>8. CASE SendFails(p)
    BY <1>1, <1>2, <1>3, <1>8, MailedIsTyped DEF SendFails
  <1>9. CASE Mark(p)
    BY <1>1, <1>2, <1>3, <1>9 DEF Mark
  <1>10. CASE Lose(p)
    BY <1>1, <1>2, <1>3, <1>10 DEF Lose
  <1>11. ASSUME NEW k \in Keys, Record(p, k)
         PROVE  TypeOK'
    BY <1>1, <1>2, <1>11 DEF Record
  <1> QED
    BY <1>4, <1>5, <1>6, <1>7, <1>8, <1>9, <1>10, <1>11

\* A restart ends every dispatch and may change the channels that are served.
LEMMA RestartTypes ==
    ASSUME TypeOK, NEW K \in SUBSET Channels, Restart(K)
    PROVE  TypeOK'
  <1>1. run' \in [Dispatches -> Run \cup {Null}]
    BY DEF Restart
  <1>2. losses' \in Nat
    BY DEF Restart, TypeOK
  <1> QED
    BY <1>1, <1>2 DEF Restart, Ladder!Serve, TypeOK

\* The steps of the ledger are typed, and end no dispatch.
LEMMA IssueTypes ==
    ASSUME TypeOK,
           \/ \E D \in SUBSET Deliveries : Publish(D)
           \/ \E D \in SUBSET {d \in Deliveries : Ladder!Due(d)} : FanOut(D)
           \/ LoseAnnouncement \/ AdvanceTime
    PROVE  TypeOK' /\ LedgerKeeps
  <1>1. LedgerType
    BY DEF TypeOK, LedgerType
  <1>2. CASE \E D \in SUBSET Deliveries : Publish(D)
    <2>1. PICK D \in SUBSET Deliveries : Publish(D)
      BY <1>2
    <2>2. LedgerKeeps
      BY <1>1, <2>1, EnqueueKeeps DEF Publish
    <2> QED
      BY <2>1, <2>2 DEF Publish, Ladder!Enqueue, TypeOK, LedgerKeeps, LedgerType, alertVars
  <1>3. CASE \E D \in SUBSET {d \in Deliveries : Ladder!Due(d)} : FanOut(D)
    <2>1. PICK D \in SUBSET {d \in Deliveries : Ladder!Due(d)} : FanOut(D)
      BY <1>3
    <2>2. PICK written \in Ladder!AnyOutcomes(D), age \in 0 .. LongestPass :
             /\ Ladder!Settle(D, written, age)
             /\ since' = [d \in Deliveries |-> IF d \in D THEN Monus(age, written[d].wait) ELSE since[d]]
             /\ \E failed \in SUBSET {d \in D : written[d].status = "delivered"} :
                   unpublished' = unpublished \cup failed
             /\ UNCHANGED <<publishedAgo, alertVars>>
      BY <2>1 DEF FanOut
    <2>3. D \in SUBSET Deliveries
      BY <2>1
    <2>4. LedgerKeeps /\ \A d \in D : written[d] \in Entry
      BY <1>1, <2>2, <2>3, SettledRows
    <2>5. since' \in [Deliveries -> Nat]
      <3>1. ASSUME NEW d \in D PROVE Monus(age, written[d].wait) \in Nat
        <4>1. age \in Nat /\ written[d].wait \in Nat
          BY <2>2, <2>4, <3>1, AlertsAssumption DEF Entry
        <4> QED
          BY <4>1, MonusType
      <3>2. since \in [Deliveries -> Nat]
        BY DEF TypeOK
      <3> QED
        BY <2>2, <3>1, <3>2
    <2>6. unpublished' \subseteq Deliveries
      BY <2>2, <2>3 DEF TypeOK
    <2> QED
      BY <2>2, <2>4, <2>5, <2>6 DEF Ladder!Settle, TypeOK, LedgerKeeps, LedgerType, alertVars
  <1>4. CASE LoseAnnouncement
    BY <1>4, SameLedger DEF LoseAnnouncement, Ladder!LoseAnnouncement, TypeOK, LedgerKeeps, LedgerType, Finished, alertVars
  <1>5. CASE AdvanceTime
    <2>1. LedgerKeeps
      BY <1>1, <1>5, TimeKeeps DEF AdvanceTime
    <2>2. \A m \in Nat : Capped(m) \in Nat
      BY AlertsAssumption DEF Capped
    <2>3. since' \in [Deliveries -> Nat]
      <3>1. since \in [Deliveries -> Nat]
        BY DEF TypeOK
      <3>2. since' = [d \in Deliveries |-> IF ledger[d] # Null /\ ledger[d].wait = 0
                                           THEN Capped(since[d]) ELSE since[d]]
        BY <1>5 DEF AdvanceTime
      <3> QED
        BY <2>2, <3>1, <3>2
    <2>4. publishedAgo' \in Nat
      BY <1>5, <2>2 DEF AdvanceTime, TypeOK
    <2>5. run' \in [Dispatches -> Run \cup {Null}]
      <3>1. ASSUME NEW p \in Dispatches, run[p] # Null
            PROVE  [run[p] EXCEPT !.age = run[p].age + 1] \in Run
        BY <3>1 DEF TypeOK, Run
      <3>2. run' = [p \in Dispatches |-> IF run[p] = Null THEN Null ELSE [run[p] EXCEPT !.age = run[p].age + 1]]
        BY <1>5 DEF AdvanceTime
      <3> QED
        BY <3>1, <3>2
    <2>6. idle' \in Nat
      BY <1>5 DEF AdvanceTime, TypeOK
    <2> QED
      BY <1>5, <2>1, <2>3, <2>4, <2>5, <2>6 DEF AdvanceTime, Ladder!AdvanceTime, TypeOK, LedgerKeeps, LedgerType
  <1> QED
    BY <1>2, <1>3, <1>4, <1>5

\* Every step is typed.
LEMMA TypeStep == TypeOK /\ [Next]_vars => TypeOK'
  <1> SUFFICES ASSUME TypeOK, [Next]_vars PROVE TypeOK'
    OBVIOUS
  <1>1. CASE UNCHANGED vars
    BY <1>1 DEF TypeOK, vars, issueVars, alertVars
  <1>2. CASE Next
    BY <1>2, DispatchTypes, RestartTypes, IssueTypes DEF Next
  <1> QED
    BY <1>1, <1>2

\* Every variable has its type in every reachable state.
THEOREM HealthTypes == Spec => []TypeOK
  <1>1. Init => TypeOK
    BY SameLedger DEF Init, Ladder!Init, TypeOK
  <1> QED
    BY <1>1, TypeStep, PTL DEF Spec

----------------------------------------------------------------------------
(* The invariant *)

\* What an alert about key k says of the ledger.
SaysTrue(k) ==
    /\ k[1] = "exhausted" => ledger[k[2]] # Null /\ ledger[k[2]].status = "exhausted"
    /\ k[1] = "publish_failed" => ledger[k[2]] # Null /\ ledger[k[2]].status = "delivered"
    /\ k[1] = "no_delivery" => publishedAgo # Null /\ publishedAgo > Grace

\* Only what was delivered can fail to be published, the ledger is filled by
\* the publication, and ages stop at Window.
IssuesAreSound ==
    /\ \A d \in unpublished : ledger[d] # Null /\ ledger[d].status = "delivered"
    /\ publishedAgo # Null => publishedAgo <= Window
    /\ \A d \in Deliveries : ledger[d] # Null => publishedAgo # Null

\* What a dispatch has seen and what was mailed are true.
NewsIsTrue ==
    /\ \A p \in Dispatches : run[p] # Null => \A k \in run[p].keys \cup run[p].fresh : SaysTrue(k)
    /\ \A k \in Keys : mails[k] > 0 => SaysTrue(k)

\* A key is locked by one dispatch at most, is open while it is, and is locked
\* from the claim on only.
LocksAreSound ==
    \A p \in Dispatches :
        /\ run[p] # Null /\ run[p].stage \notin {"send", "mark"} => run[p].fresh = {}
        /\ \A k \in Locks(p) : alert[k] = "open" /\ \A q \in Dispatches : k \in Locks(q) => q = p

HealthInv == TypeOK /\ IssuesAreSound /\ NewsIsTrue /\ LocksAreSound /\ EveryMailIsAccountedFor

\* What was true stays so when the ledger moves: finished rows keep their status
\* and time only passes.
LEMMA TruthStays ==
    ASSUME HealthInv,
           \/ \E D \in SUBSET Deliveries : Publish(D)
           \/ \E D \in SUBSET {d \in Deliveries : Ladder!Due(d)} : FanOut(D)
           \/ LoseAnnouncement \/ AdvanceTime
    PROVE  IssuesAreSound' /\ \A k \in Keys : SaysTrue(k) => SaysTrue(k)'
  <1>1. TypeOK' /\ LedgerKeeps
    BY IssueTypes DEF HealthInv
  <1>2. /\ publishedAgo' # Null => publishedAgo' <= Window
        /\ publishedAgo # Null /\ publishedAgo > Grace => publishedAgo' # Null /\ publishedAgo' > Grace
    <2>1. publishedAgo \in Nat \cup {Null} /\ (publishedAgo # Null => publishedAgo <= Window)
      BY DEF HealthInv, TypeOK, IssuesAreSound
    <2>2. CASE \E D \in SUBSET Deliveries : Publish(D)
      BY <2>1, <2>2, AlertsAssumption DEF Publish
    <2>3. CASE AdvanceTime
      <3>1. publishedAgo # Null /\ publishedAgo' = Capped(publishedAgo)
        BY <2>3 DEF AdvanceTime
      <3> QED
        BY <2>1, <3>1, AlertsAssumption, LedgerAssumption DEF Capped
    <2>4. CASE (\E D \in SUBSET {d \in Deliveries : Ladder!Due(d)} : FanOut(D)) \/ LoseAnnouncement
      BY <2>1, <2>4 DEF FanOut, LoseAnnouncement
    <2> QED
      BY <2>2, <2>3, <2>4
  <1>3. \A d \in unpublished' : ledger'[d] # Null /\ ledger'[d].status = "delivered"
    <2>1. \A d \in unpublished : ledger'[d] # Null /\ ledger'[d].status = "delivered"
      BY <1>1 DEF HealthInv, TypeOK, IssuesAreSound, LedgerKeeps, Finished
    <2>2. CASE \E D \in SUBSET {d \in Deliveries : Ladder!Due(d)} : FanOut(D)
      <3>1. PICK D \in SUBSET {d \in Deliveries : Ladder!Due(d)} : FanOut(D)
        BY <2>2
      <3>2. PICK written \in Ladder!AnyOutcomes(D), age \in 0 .. LongestPass :
               /\ Ladder!Settle(D, written, age)
               /\ \E failed \in SUBSET {d \in D : written[d].status = "delivered"} :
                     unpublished' = unpublished \cup failed
        BY <3>1 DEF FanOut
      <3>3. D \in SUBSET Deliveries /\ LedgerType
        BY <3>1 DEF HealthInv, TypeOK, LedgerType
      <3>4. \A d \in D : ledger'[d] # Null /\ ledger'[d].status = written[d].status
        BY <3>2, <3>3, SettledRows
      <3> QED
        BY <2>1, <3>2, <3>4
    <2>3. CASE (\E D \in SUBSET Deliveries : Publish(D)) \/ LoseAnnouncement \/ AdvanceTime
      BY <2>1, <2>3 DEF Publish, LoseAnnouncement, AdvanceTime
    <2> QED
      BY <2>2, <2>3
  <1>4. ASSUME NEW k \in Keys, SaysTrue(k)
        PROVE  SaysTrue(k)'
    <2>1. k[2] \in Deliveries
      BY DEF Keys
    <2> QED
      BY <1>1, <1>2, <1>4, <2>1 DEF SaysTrue, LedgerKeeps, Finished
  <1>5. \A d \in Deliveries : ledger'[d] # Null => publishedAgo' # Null
    <2>1. \A d \in Deliveries : ledger[d] # Null => publishedAgo # Null
      BY DEF HealthInv, IssuesAreSound
    <2>2. CASE \E D \in SUBSET Deliveries : Publish(D)
      BY <2>2, LedgerAssumption DEF Publish
    <2>3. CASE \E D \in SUBSET {d \in Deliveries : Ladder!Due(d)} : FanOut(D)
      <3>1. PICK D \in SUBSET {d \in Deliveries : Ladder!Due(d)} : FanOut(D)
        BY <2>3
      <3>2. \E d \in D : ledger[d] # Null
        BY <3>1 DEF FanOut, Ladder!Due
      <3> QED
        BY <2>1, <3>1, <3>2 DEF FanOut
    <2>4. CASE LoseAnnouncement
      BY <2>1, <2>4 DEF LoseAnnouncement
    <2>5. CASE AdvanceTime
      <3>1. publishedAgo \in Nat /\ publishedAgo' = Capped(publishedAgo)
        BY <2>5 DEF AdvanceTime, TypeOK, HealthInv
      <3>2. publishedAgo' \in Nat
        BY <3>1, AlertsAssumption DEF Capped
      <3> QED
        BY <3>2, LedgerAssumption
    <2> QED
      BY <2>2, <2>3, <2>4, <2>5
  <1> QED
    BY <1>2, <1>3, <1>4, <1>5 DEF IssuesAreSound

\* How far the dispatches are: what the invariant says of them.
Kept(p) ==
    /\ run'[p] = Null <=> run[p] = Null
    /\ run[p] # Null => /\ run'[p].stage = run[p].stage
                        /\ run'[p].keys = run[p].keys /\ run'[p].fresh = run[p].fresh

\* Steps of the ledger leave the dispatches where they are.
LEMMA IssuesKeepInv ==
    ASSUME HealthInv,
           \/ \E D \in SUBSET Deliveries : Publish(D)
           \/ \E D \in SUBSET {d \in Deliveries : Ladder!Due(d)} : FanOut(D)
           \/ LoseAnnouncement \/ AdvanceTime
    PROVE  HealthInv'
  <1>1. TypeOK' /\ IssuesAreSound' /\ \A k \in Keys : SaysTrue(k) => SaysTrue(k)'
    BY IssueTypes, TruthStays DEF HealthInv
  <1>2. UNCHANGED <<alert, mails, losses>>
    BY DEF Publish, FanOut, LoseAnnouncement, AdvanceTime, alertVars
  <1>3. ASSUME NEW p \in Dispatches
        PROVE  Kept(p)
    <2>1. CASE AdvanceTime
      <3>1. run[p] # Null => run[p] \in Run
        BY DEF HealthInv, TypeOK
      <3>2. run'[p] = IF run[p] = Null THEN Null ELSE [run[p] EXCEPT !.age = run[p].age + 1]
        BY <2>1 DEF AdvanceTime
      <3>3. CASE run[p] # Null
        <4>1. [run[p] EXCEPT !.age = run[p].age + 1] \in Run
          BY <3>1, <3>3 DEF Run
        <4> QED
          BY <3>1, <3>2, <3>3, <4>1, AlertsAssumption DEF Kept, Run
      <3> QED
        BY <3>2, <3>3 DEF Kept
    <2>2. CASE ~AdvanceTime
      BY <2>2 DEF Publish, FanOut, LoseAnnouncement, alertVars, Kept
    <2> QED
      BY <2>1, <2>2
  <1>4. \A p \in Dispatches : Locks(p)' = Locks(p)
    BY <1>3 DEF Locks, Kept
  <1>5. NewsIsTrue'
    <2>1. \A p \in Dispatches : run[p] # Null => run[p].keys \subseteq Keys /\ run[p].fresh \subseteq Keys
      BY DEF HealthInv, TypeOK, Run
    <2>2. ASSUME NEW p \in Dispatches, run'[p] # Null, NEW k \in run'[p].keys \cup run'[p].fresh
          PROVE  SaysTrue(k)'
      <3>1. k \in Keys /\ SaysTrue(k)
        BY <1>3, <2>1, <2>2 DEF Kept, HealthInv, NewsIsTrue
      <3> QED
        BY <1>1, <3>1
    <2>3. ASSUME NEW k \in Keys, mails'[k] > 0
          PROVE  SaysTrue(k)'
      BY <1>1, <1>2, <2>3 DEF HealthInv, NewsIsTrue
    <2> QED
      BY <2>2, <2>3 DEF NewsIsTrue
  <1>6. LocksAreSound'
    BY <1>2, <1>3, <1>4 DEF HealthInv, LocksAreSound, Kept
  <1>7. EveryMailIsAccountedFor'
    <2>1. \A k \in Keys : InFlight(k)' <=> InFlight(k)
      BY <1>3, <1>4 DEF InFlight, Locks, Kept
    <2> QED
      BY <1>2, <2>1 DEF HealthInv, EveryMailIsAccountedFor
  <1> QED
    BY <1>1, <1>5, <1>6, <1>7 DEF HealthInv

----------------------------------------------------------------------------
(* Steps of one dispatch *)

\* The other dispatches stay.
LEMMA OthersStay ==
    ASSUME TypeOK, NEW p \in Dispatches, NEW w, run' = [run EXCEPT ![p] = w]
    PROVE  /\ run'[p] = w
           /\ \A q \in Dispatches : q # p => run'[q] = run[q] /\ Locks(q)' = Locks(q)
           /\ Locks(p)' = IF w = Null THEN {} ELSE w.fresh
  BY DEF TypeOK, Locks

\* A query sees what is true at its moment.
LEMMA QueriesSeeTruth ==
    ASSUME TypeOK, IssuesAreSound, NEW kind \in Kinds, NEW d \in Issues[kind]
    PROVE  SaysTrue(<<kind, d>>)
  <1>1. d \in Deliveries
    BY IssuesAreDeliveries
  <1>2. CASE kind = "exhausted"
    BY <1>2 DEF Issues, Exhausted, SaysTrue
  <1>3. CASE kind = "publish_failed"
    BY <1>3 DEF Issues, PublishFailed, SaysTrue, IssuesAreSound
  <1>4. CASE kind = "no_delivery"
    <2>1. publishedAgo > Grace /\ ledger[d] # Null
      BY <1>4 DEF Issues, Silent
    <2>2. publishedAgo # Null
      BY <1>1, <2>1 DEF IssuesAreSound
    <2> QED
      BY <1>4, <2>1, <2>2 DEF SaysTrue
  <1> QED
    BY <1>2, <1>3, <1>4 DEF Kinds

\* What a step of dispatch p changes of the invariant when the ledger stays.
LEMMA DispatchFrame ==
    ASSUME HealthInv, NEW p \in Dispatches, UNCHANGED issueVars,
           NEW w \in Run \cup {Null}, run' = [run EXCEPT ![p] = w],
           w # Null => \A k \in w.keys \cup w.fresh : SaysTrue(k),
           w # Null /\ w.stage \notin {"send", "mark"} => w.fresh = {},
           w # Null => \A k \in w.fresh : /\ alert'[k] = "open"
                                          /\ \A q \in Dispatches : k \in Locks(q) => q = p,
           \A k \in Keys : mails'[k] > 0 => SaysTrue(k),
           \A q \in Dispatches \ {p} : \A k \in Locks(q) : alert'[k] = alert[k]
    PROVE  IssuesAreSound' /\ NewsIsTrue' /\ LocksAreSound'
  <1>1. /\ run'[p] = w
        /\ \A q \in Dispatches : q # p => run'[q] = run[q] /\ Locks(q)' = Locks(q)
        /\ Locks(p)' = IF w = Null THEN {} ELSE w.fresh
    BY OthersStay DEF HealthInv
  <1>2. \A k : SaysTrue(k)' <=> SaysTrue(k)
    BY DEF SaysTrue, issueVars
  <1>3. IssuesAreSound'
    BY DEF HealthInv, IssuesAreSound, issueVars
  <1>4. NewsIsTrue'
    BY <1>1, <1>2 DEF HealthInv, NewsIsTrue
  <1>5. ASSUME NEW q \in Dispatches, run'[q] # Null, run'[q].stage \notin {"send", "mark"}
        PROVE  run'[q].fresh = {}
    BY <1>1, <1>5 DEF HealthInv, LocksAreSound
  <1>6. ASSUME NEW q \in Dispatches, NEW k \in Locks(q)'
        PROVE  alert'[k] = "open" /\ \A r \in Dispatches : k \in Locks(r)' => r = q
    <2>1. CASE q = p
      BY <1>1, <1>6, <2>1
    <2>2. CASE q # p
      <3>1. k \in Locks(q) /\ alert[k] = "open" /\ \A r \in Dispatches : k \in Locks(r) => r = q
        BY <1>1, <1>6, <2>2 DEF HealthInv, LocksAreSound
      <3>2. k \notin Locks(p)'
        BY <1>1, <2>2, <3>1
      <3> QED
        BY <1>1, <2>2, <3>1, <3>2
    <2> QED
      BY <2>1, <2>2
  <1>7. LocksAreSound'
    BY <1>5, <1>6 DEF LocksAreSound
  <1> QED
    BY <1>3, <1>4, <1>7

\* Who is in flight when only dispatch p moves.
LEMMA FlightFrame ==
    ASSUME TypeOK, NEW p \in Dispatches, NEW w, run' = [run EXCEPT ![p] = w], NEW k
    PROVE  /\ InFlight(k)' <=> \/ \E q \in Dispatches \ {p} : k \in Locks(q) /\ run[q].stage = "mark"
                               \/ w # Null /\ k \in w.fresh /\ w.stage = "mark"
           /\ InFlight(k) <=> \/ \E q \in Dispatches \ {p} : k \in Locks(q) /\ run[q].stage = "mark"
                              \/ k \in Locks(p) /\ run[p].stage = "mark"
  <1>1. /\ run'[p] = w
        /\ \A q \in Dispatches : q # p => run'[q] = run[q] /\ Locks(q)' = Locks(q)
        /\ Locks(p)' = IF w = Null THEN {} ELSE w.fresh
    BY OthersStay
  <1> QED
    BY <1>1 DEF InFlight

\* Begin, the queries, the inserts and the claim send nothing.
LEMMA QuietStepsKeepInv ==
    ASSUME HealthInv, NEW p \in Dispatches,
           Begin(p) \/ Query(p) \/ Claim(p) \/ (\E k \in Keys : Record(p, k))
    PROVE  HealthInv'
  <1>1. TypeOK /\ TypeOK'
    BY DispatchTypes DEF HealthInv
  <1>2. UNCHANGED <<mails, losses>> /\ UNCHANGED issueVars
    BY DEF Begin, Query, Claim, Record
  <1>3. \A k \in Keys : mails'[k] > 0 => SaysTrue(k)
    BY <1>2 DEF HealthInv, NewsIsTrue
  <1>4. ASSUME NEW w \in Run \cup {Null}, run' = [run EXCEPT ![p] = w], alert' = alert,
               w # Null => \A k \in w.keys \cup w.fresh : SaysTrue(k),
               w # Null => w.stage # "mark" /\ (w.stage # "send" => w.fresh = {}),
               w # Null => \A k \in w.fresh : alert[k] = "open" /\ ~Locked(k),
               run[p] # Null => run[p].stage # "mark"
        PROVE  HealthInv'
    <2>1. IssuesAreSound' /\ NewsIsTrue' /\ LocksAreSound'
      BY <1>2, <1>3, <1>4, DispatchFrame DEF Locked
    <2>2. ASSUME NEW k \in Keys
          PROVE  InFlight(k)' <=> InFlight(k)
      BY <1>1, <1>4, FlightFrame DEF Locks
    <2>3. EveryMailIsAccountedFor'
      BY <1>2, <1>4, <2>2 DEF HealthInv, EveryMailIsAccountedFor
    <2> QED
      BY <1>1, <2>1, <2>3 DEF HealthInv
  <1>5. CASE Begin(p)
    <2> DEFINE w == [stage |-> "exhausted", keys |-> {}, fresh |-> {}, age |-> 0]
    <2>1. w \in Run /\ run' = [run EXCEPT ![p] = w] /\ run[p] = Null /\ alert' = alert
      BY <1>5 DEF Begin, Run, Stages, Kinds
    <2>2. w.stage = "exhausted" /\ w.keys = {} /\ w.fresh = {}
      OBVIOUS
    <2> HIDE DEF w
    <2> QED
      BY <1>4, <2>1, <2>2
  <1>6. CASE Query(p)
    <2>1. PICK w \in Run \cup {Null} :
             /\ run' = [run EXCEPT ![p] = w]
             /\ w # Null => /\ w.keys = run[p].keys \cup ({run[p].stage} \X Issues[run[p].stage])
                            /\ w.fresh = run[p].fresh
                            /\ w.stage = Following[run[p].stage]
      BY <1>1, <1>6, QueryShape
    <2>2. run[p] # Null /\ run[p].stage \in Kinds /\ alert' = alert
      BY <1>6 DEF Query
    <2>3. run[p].fresh = {} /\ \A k \in run[p].keys : SaysTrue(k)
      BY <2>2 DEF HealthInv, LocksAreSound, NewsIsTrue, Kinds
    <2>4. \A d \in Issues[run[p].stage] : SaysTrue(<<run[p].stage, d>>)
      BY <1>1, <2>2, QueriesSeeTruth DEF HealthInv
    <2>5. w # Null => \A k \in w.keys \cup w.fresh : SaysTrue(k)
      BY <2>1, <2>3, <2>4
    <2>6. w # Null => w.stage # "mark" /\ w.stage # "send" /\ w.fresh = {}
      BY <2>1, <2>2, <2>3 DEF Following, Kinds
    <2> QED
      BY <1>4, <2>1, <2>2, <2>5, <2>6 DEF Kinds
  <1>7. CASE Claim(p)
    <2>1. PICK w \in Run \cup {Null} :
             /\ run' = [run EXCEPT ![p] = w]
             /\ w # Null => /\ w.stage = "send" /\ w.keys = run[p].keys
                            /\ w.fresh = {k \in run[p].keys : Untold(k) /\ ~Locked(k)}
      BY <1>1, <1>7, ClaimShape
    <2>2. run[p] # Null /\ run[p].stage = "record" /\ alert' = alert
      BY <1>7 DEF Claim
    <2>3. \A k \in run[p].keys : SaysTrue(k)
      BY <2>2 DEF HealthInv, NewsIsTrue
    <2> QED
      BY <1>4, <2>1, <2>2, <2>3 DEF Untold
  <1>8. ASSUME NEW k \in Keys, Record(p, k)
        PROVE  HealthInv'
    <2>1. /\ run' = run /\ run[p] # Null /\ run[p].stage = "record"
          /\ alert[k] = Null /\ alert' = [alert EXCEPT ![k] = "open"]
      BY <1>8 DEF Record
    <2>2. /\ alert'[k] = "open" /\ alert[k] # "notified"
          /\ \A j \in Keys : j # k => alert'[j] = alert[j]
      BY <1>1, <2>1, AlertsAssumption DEF TypeOK
    <2>3. run' = [run EXCEPT ![p] = run[p]] /\ run[p] \in Run
      BY <1>1, <2>1 DEF TypeOK
    <2>4. run[p].fresh = {} /\ \A j \in run[p].keys : SaysTrue(j)
      BY <2>1 DEF HealthInv, LocksAreSound, NewsIsTrue
    <2>5. \A q \in Dispatches \ {p} : \A j \in Locks(q) : alert'[j] = alert[j]
      <3>1. ASSUME NEW q \in Dispatches, NEW j \in Locks(q)
            PROVE  j \in Keys /\ alert[j] = "open"
        BY <1>1, <3>1 DEF HealthInv, LocksAreSound, TypeOK, Locks, Run
      <3> QED
        BY <2>1, <2>2, <3>1, AlertsAssumption
    <2>6. IssuesAreSound' /\ NewsIsTrue' /\ LocksAreSound'
      BY <1>2, <1>3, <2>3, <2>4, <2>5, DispatchFrame
    <2>7. EveryMailIsAccountedFor'
      <3>1. \A j : InFlight(j)' <=> InFlight(j)
        BY <2>1 DEF InFlight, Locks
      <3>2. ASSUME NEW j \in Keys
            PROVE  alert'[j] = "notified" <=> alert[j] = "notified"
        BY <2>2
      <3> QED
        BY <1>2, <3>1, <3>2 DEF HealthInv, EveryMailIsAccountedFor
    <2> QED
      BY <1>1, <2>6, <2>7 DEF HealthInv
  <1> QED
    BY <1>5, <1>6, <1>7, <1>8

\* A dispatch that ends at "record" or later gives its keys back; what it had
\* mailed and not marked is one loss.
LEMMA EndKeepsInv ==
    ASSUME HealthInv, NEW p \in Dispatches, SendFails(p) \/ Lose(p)
    PROVE  HealthInv'
  <1>1. TypeOK /\ TypeOK'
    BY DispatchTypes DEF HealthInv
  <1>2. /\ UNCHANGED issueVars /\ alert' = alert /\ losses' = losses + 1
        /\ run[p] # Null /\ run' = [run EXCEPT ![p] = Null]
        /\ mails' = mails \/ (run[p].stage = "send" /\ mails' = Mailed(p))
    BY DEF SendFails, Lose
  <1>3. ASSUME NEW k \in Keys
        PROVE  /\ mails'[k] = mails[k] \/ (run[p].stage = "send" /\ k \in Locks(p) /\ mails'[k] = mails[k] + 1)
               /\ mails[k] \in Nat /\ mails'[k] \in Nat /\ losses \in Nat
    BY <1>1, <1>2, MailedIsTyped DEF TypeOK, Locks
  <1>4. \A k \in Keys : mails'[k] > 0 => SaysTrue(k)
    <2>1. \A k \in Locks(p) : SaysTrue(k)
      BY DEF HealthInv, NewsIsTrue, Locks
    <2> QED
      BY <1>3, <2>1 DEF HealthInv, NewsIsTrue
  <1>5. IssuesAreSound' /\ NewsIsTrue' /\ LocksAreSound'
    BY <1>2, <1>4, DispatchFrame
  <1>6. EveryMailIsAccountedFor'
    <2>1. ASSUME NEW k \in Keys
          PROVE  mails'[k] <= (IF alert'[k] = "notified" \/ InFlight(k)' THEN 1 ELSE 0) + losses'
      <3>1. mails[k] <= (IF alert[k] = "notified" \/ InFlight(k) THEN 1 ELSE 0) + losses
        BY DEF HealthInv, EveryMailIsAccountedFor
      <3>2. InFlight(k) => InFlight(k)' \/ (k \in Locks(p) /\ run[p].stage = "mark")
        BY <1>1, <1>2, FlightFrame
      <3>3. run[p].stage = "send" /\ k \in Locks(p) => ~InFlight(k) /\ alert[k] # "notified"
        BY DEF HealthInv, LocksAreSound, InFlight
      <3> QED
        BY <1>2, <1>3, <3>1, <3>2, <3>3
    <2> QED
      BY <2>1 DEF EveryMailIsAccountedFor
  <1> QED
    BY <1>1, <1>5, <1>6 DEF HealthInv

\* A mail is one in flight until its keys are marked.
LEMMA SendKeepsInv ==
    ASSUME HealthInv, NEW p \in Dispatches, Send(p)
    PROVE  HealthInv'
  <1> DEFINE w == [run[p] EXCEPT !.stage = "mark"]
  <1>1. TypeOK /\ TypeOK'
    BY DispatchTypes DEF HealthInv
  <1>2. /\ UNCHANGED issueVars /\ alert' = alert /\ losses' = losses
        /\ run[p] \in Run /\ run[p] # Null /\ run[p].stage = "send"
        /\ run' = [run EXCEPT ![p] = w] /\ mails' = Mailed(p)
    BY <1>1 DEF Send, TypeOK
  <1>3. w \in Run /\ w.stage = "mark" /\ w.keys = run[p].keys /\ w.fresh = run[p].fresh
    BY <1>2 DEF Run, Stages
  <1> HIDE DEF w
  <1>4. w # Null /\ Locks(p) = w.fresh
    BY <1>2, <1>3, AlertsAssumption DEF Locks
  <1>5. ASSUME NEW k \in Keys
        PROVE  mails'[k] = (IF k \in w.fresh THEN mails[k] + 1 ELSE mails[k]) /\ mails[k] \in Nat
    BY <1>1, <1>2, <1>3, MailedIsTyped DEF TypeOK
  <1>6. \A k \in w.keys \cup w.fresh : SaysTrue(k)
    BY <1>2, <1>3 DEF HealthInv, NewsIsTrue
  <1>7. \A k \in Keys : mails'[k] > 0 => SaysTrue(k)
    BY <1>5, <1>6 DEF HealthInv, NewsIsTrue
  <1>8. \A k \in w.fresh : /\ alert[k] = "open"
                           /\ \A q \in Dispatches : k \in Locks(q) => q = p
    BY <1>4 DEF HealthInv, LocksAreSound
  <1>9. IssuesAreSound' /\ NewsIsTrue' /\ LocksAreSound'
    BY <1>2, <1>3, <1>6, <1>7, <1>8, DispatchFrame
  <1>10. EveryMailIsAccountedFor'
    <2>1. ASSUME NEW k \in Keys
          PROVE  mails'[k] <= (IF alert'[k] = "notified" \/ InFlight(k)' THEN 1 ELSE 0) + losses'
      <3>1. mails[k] <= (IF alert[k] = "notified" \/ InFlight(k) THEN 1 ELSE 0) + losses
        BY DEF HealthInv, EveryMailIsAccountedFor
      <3>2. /\ InFlight(k) => InFlight(k)'
            /\ k \in w.fresh => InFlight(k)' /\ ~InFlight(k) /\ alert[k] # "notified"
        BY <1>1, <1>2, <1>3, <1>4, <1>8, FlightFrame
      <3>3. losses \in Nat
        BY <1>1 DEF TypeOK
      <3> QED
        BY <1>2, <1>5, <3>1, <3>2, <3>3
    <2> QED
      BY <2>1 DEF EveryMailIsAccountedFor
  <1> QED
    BY <1>1, <1>9, <1>10 DEF HealthInv

\* The commit marks the keys that were mailed.
LEMMA MarkKeepsInv ==
    ASSUME HealthInv, NEW p \in Dispatches, Mark(p)
    PROVE  HealthInv'
  <1>1. TypeOK /\ TypeOK'
    BY DispatchTypes DEF HealthInv
  <1>2. /\ UNCHANGED issueVars /\ mails' = mails /\ losses' = losses
        /\ run[p] # Null /\ run' = [run EXCEPT ![p] = Null]
        /\ alert' = [k \in Keys |-> IF k \in Locks(p) THEN "notified" ELSE alert[k]]
    BY DEF Mark, Locks
  <1>3. \A k \in Keys : mails'[k] > 0 => SaysTrue(k)
    BY <1>2 DEF HealthInv, NewsIsTrue
  <1>4. \A q \in Dispatches \ {p} : \A k \in Locks(q) : alert'[k] = alert[k]
    <2>1. ASSUME NEW q \in Dispatches \ {p}, NEW k \in Locks(q)
          PROVE  k \in Keys /\ k \notin Locks(p)
      BY <1>1, <2>1 DEF HealthInv, LocksAreSound, TypeOK, Locks, Run
    <2> QED
      BY <1>2, <2>1
  <1>5. IssuesAreSound' /\ NewsIsTrue' /\ LocksAreSound'
    BY <1>2, <1>3, <1>4, DispatchFrame
  <1>6. EveryMailIsAccountedFor'
    <2>1. ASSUME NEW k \in Keys
          PROVE  mails'[k] <= (IF alert'[k] = "notified" \/ InFlight(k)' THEN 1 ELSE 0) + losses'
      <3>1. mails[k] <= (IF alert[k] = "notified" \/ InFlight(k) THEN 1 ELSE 0) + losses
        BY DEF HealthInv, EveryMailIsAccountedFor
      <3>2. InFlight(k) => InFlight(k)' \/ k \in Locks(p)
        BY <1>1, <1>2, FlightFrame
      <3>3. losses \in Nat /\ mails[k] \in Nat
        BY <1>1 DEF TypeOK
      <3> QED
        BY <1>2, <3>1, <3>2, <3>3
    <2> QED
      BY <2>1 DEF EveryMailIsAccountedFor
  <1> QED
    BY <1>1, <1>5, <1>6 DEF HealthInv

\* A restart ends every dispatch; it is one loss for every key.
LEMMA RestartKeepsInv ==
    ASSUME HealthInv, NEW K \in SUBSET Channels, Restart(K)
    PROVE  HealthInv'
  <1>1. TypeOK /\ TypeOK'
    BY RestartTypes DEF HealthInv
  <1>2. /\ UNCHANGED <<ledger, since, unpublished, publishedAgo, alert, mails>>
        /\ losses' = losses + 1 /\ \A p \in Dispatches : run'[p] = Null
    BY DEF Restart, Ladder!Serve
  <1>3. \A k : SaysTrue(k)' <=> SaysTrue(k)
    BY <1>2 DEF SaysTrue
  <1>4. IssuesAreSound' /\ NewsIsTrue' /\ LocksAreSound'
    BY <1>2, <1>3 DEF HealthInv, IssuesAreSound, NewsIsTrue, LocksAreSound, Locks
  <1>5. EveryMailIsAccountedFor'
    <2>1. \A k \in Keys : mails[k] \in Nat /\ losses \in Nat
      BY <1>1 DEF TypeOK
    <2> QED
      BY <1>2, <2>1 DEF HealthInv, EveryMailIsAccountedFor
  <1> QED
    BY <1>1, <1>4, <1>5 DEF HealthInv

----------------------------------------------------------------------------
(* The theorems *)

LEMMA HealthInit == Init => HealthInv
  <1>1. Init => TypeOK
    BY SameLedger DEF Init, Ladder!Init, TypeOK
  <1>2. Init => IssuesAreSound /\ NewsIsTrue /\ LocksAreSound
    BY SameLedger DEF Init, Ladder!Init, IssuesAreSound, NewsIsTrue, LocksAreSound, Locks
  <1>3. Init => EveryMailIsAccountedFor
    BY DEF Init, EveryMailIsAccountedFor
  <1> QED
    BY <1>1, <1>2, <1>3 DEF HealthInv

LEMMA HealthStep == HealthInv /\ [Next]_vars => HealthInv'
  <1> SUFFICES ASSUME HealthInv, [Next]_vars PROVE HealthInv'
    OBVIOUS
  <1>1. CASE UNCHANGED vars
    <2>1. TypeOK'
      BY <1>1, TypeStep DEF HealthInv
    <2> QED
      BY <1>1, <2>1 DEF HealthInv, IssuesAreSound, NewsIsTrue, LocksAreSound, EveryMailIsAccountedFor,
                        SaysTrue, Locks, InFlight, vars, issueVars, alertVars
  <1>2. CASE Next
    BY <1>2, IssuesKeepInv, QuietStepsKeepInv, EndKeepsInv, SendKeepsInv, MarkKeepsInv, RestartKeepsInv
    DEF Next
  <1> QED
    BY <1>1, <1>2

\* The invariant holds in every reachable state: dispatchHealthAlerts keeps the
\* keys it claimed to itself until it commits.
THEOREM HealthInvariant == Spec => []HealthInv
  BY HealthInit, HealthStep, PTL DEF Spec

\* However ticks overlap, a key is mailed again only after a transaction of
\* dispatchHealthAlerts was lost between its mail and its commit.
THEOREM MailsAreAccountedFor == Spec => []EveryMailIsAccountedFor
  <1>1. HealthInv => EveryMailIsAccountedFor
    BY DEF HealthInv
  <1> QED
    BY <1>1, HealthInvariant, PTL

\* A mail stays true of the ledger, whatever the fan-out does between the three
\* queries of evaluateChannelHealth and afterwards.
THEOREM NoFalseAlerts == Spec => []AlertsAreTrue
  <1>1. HealthInv => AlertsAreTrue
    <2> SUFFICES ASSUME HealthInv, NEW d \in Deliveries
                 PROVE  /\ mails[<<"exhausted", d>>] > 0 => ledger[d].status = "exhausted"
                        /\ mails[<<"publish_failed", d>>] > 0 => ledger[d].status = "delivered"
                        /\ mails[<<"no_delivery", d>>] > 0 => publishedAgo > Grace
      BY DEF AlertsAreTrue
    <2>1. ASSUME NEW kind \in Kinds, mails[<<kind, d>>] > 0
          PROVE  SaysTrue(<<kind, d>>)
      BY <2>1 DEF HealthInv, NewsIsTrue, Keys
    <2> QED
      BY <2>1 DEF SaysTrue, Kinds
  <1> QED
    BY <1>1, HealthInvariant, PTL

----------------------------------------------------------------------------
(* Every failure is reported *)

\* The latest moment at which a failed delivery is taken up by a dispatch that
\* began after it, when n dispatches were lost: a dispatch begins, the one whose
\* locks it meets works, and its own mail goes out, each in MaxDelay.
Late(n) == LongestPass + 3 * MaxDelay * n

\* The window is long enough for every loss.
WindowIsLong == Late(MaxLosses + 1) < Window

LEMMA LateGrows ==
    ASSUME NEW n \in Nat
    PROVE  /\ Late(n) \in Nat /\ Late(n) >= LongestPass
           /\ Late(n + 1) = Late(n) + 3 * MaxDelay
           /\ \A m \in Nat : n <= m => Late(n) <= Late(m)
  <1> DEFINE c == 3 * MaxDelay
  <1>1. c \in Nat /\ LongestPass \in Nat
    BY AlertsAssumption
  <1>2. \A m \in Nat : c * m \in Nat
    BY <1>1
  <1>3. c * (n + 1) = c * n + c
    BY <1>1
  <1>4. ASSUME NEW m \in Nat, n <= m
        PROVE  c * n <= c * m
    <2>1. m - n \in Nat /\ m = n + (m - n)
      BY <1>4
    <2>2. c * m = c * n + c * (m - n)
      BY <1>1, <2>1
    <2> QED
      BY <1>2, <2>1, <2>2
  <1>5. \A m : Late(m) = LongestPass + c * m
    BY DEF Late
  <1> HIDE DEF c
  <1>6. Late(n) \in Nat /\ Late(n) >= LongestPass
    BY <1>1, <1>2, <1>5
  <1>7. Late(n + 1) = Late(n) + c
    BY <1>1, <1>2, <1>3, <1>5
  <1>8. ASSUME NEW m \in Nat, n <= m
        PROVE  Late(n) <= Late(m)
    BY <1>1, <1>2, <1>4, <1>5, <1>8
  <1> QED
    BY <1>6, <1>7, <1>8 DEF c

\* An issue that the queries look for and no mail has named.
Outstanding(k) ==
    /\ mails[k] = 0
    /\ \/ k[1] = "exhausted" /\ ledger[k[2]] # Null /\ ledger[k[2]].status = "exhausted"
       \/ k[1] = "publish_failed" /\ k[2] \in unpublished

\* Dispatch p has yet to ask for issue k, or has seen it and not claimed it.
Awaits(p, k) ==
    /\ run[p] # Null
    /\ \/ run[p].stage = "exhausted"
       \/ run[p].stage = "publish_failed" /\ k[1] = "publish_failed"
       \/ run[p].stage \in Kinds \cup {"record"} /\ k \in run[p].keys

Sends(p, k) == k \in Locks(p) /\ run[p].stage = "send"

\* Somebody will tell: the next dispatch, one that has begun, or one that holds k.
Promised(k) ==
    \/ since[k[2]] <= Late(losses) + idle
    \/ \E p \in Dispatches : Awaits(p, k) /\ since[k[2]] <= Late(losses) + MaxDelay + run[p].age
    \/ \E p \in Dispatches : Sends(p, k) /\ since[k[2]] <= Late(losses) + 2 * MaxDelay + run[p].age

EveryIssueIsPromised == \A k \in Keys : Outstanding(k) => Promised(k)

\* The worker is as late as the bounds say and no later.
Punctual ==
    /\ idle <= MaxDelay /\ losses <= MaxLosses
    /\ \A p \in Dispatches : run[p] # Null => run[p].age <= MaxDelay
    /\ \A d \in Deliveries : ledger[d] = Null => since[d] = 0

\* What is marked, or about to be, was mailed.
MarkedWasMailed ==
    /\ \A k \in Keys : alert[k] = "notified" => mails[k] > 0
    /\ \A k \in Keys : InFlight(k) => mails[k] > 0

TimelyInv == HealthInv /\ Punctual /\ MarkedWasMailed /\ EveryIssueIsPromised

\* What the steps need of the types.
LEMMA TimelyTypes ==
    ASSUME TimelyInv
    PROVE  /\ idle \in Nat /\ losses \in Nat /\ MaxDelay \in Nat /\ MaxLosses \in Nat
           /\ \A d \in Deliveries : since[d] \in Nat
           /\ \A k \in Keys : mails[k] \in Nat /\ k[1] \in Kinds /\ k[2] \in Deliveries
           /\ \A p \in Dispatches : run[p] # Null => run[p] \in Run /\ run[p].age \in 0 .. MaxDelay
           /\ Late(losses) \in Nat
  <1>1. TypeOK
    BY DEF TimelyInv, HealthInv
  <1>2. \A p \in Dispatches : run[p] # Null => run[p] \in Run /\ run[p].age \in Nat
    BY <1>1 DEF TypeOK, Run
  <1>3. \A k \in Keys : k[1] \in Kinds /\ k[2] \in Deliveries
    BY DEF Keys
  <1>4. losses \in Nat /\ idle \in Nat /\ MaxDelay \in Nat /\ MaxLosses \in Nat
    BY <1>1, AlertsAssumption DEF TypeOK
  <1>5. Late(losses) \in Nat
    BY <1>4, LateGrows
  <1>6. \A p \in Dispatches : run[p] # Null => run[p].age \in 0 .. MaxDelay
    BY <1>2, <1>4 DEF TimelyInv, Punctual
  <1> QED
    BY <1>1, <1>2, <1>3, <1>4, <1>5, <1>6 DEF TypeOK

\* However late, an outstanding issue has another MaxDelay for each of its three steps.
LEMMA PromisedInTime ==
    ASSUME TimelyInv, NEW k \in Keys, Outstanding(k)
    PROVE  /\ since[k[2]] <= Late(losses) + 3 * MaxDelay
           /\ WindowIsLong => since[k[2]] < Window
  <1>1. Promised(k)
    BY DEF TimelyInv, EveryIssueIsPromised
  <1>2. since[k[2]] <= Late(losses) + 3 * MaxDelay
    BY <1>1, TimelyTypes, AlertsAssumption DEF Promised, Awaits, Sends, Locks, TimelyInv, Punctual
  <1>3. Late(losses) <= Late(MaxLosses) /\ Late(MaxLosses + 1) = Late(MaxLosses) + 3 * MaxDelay
    BY TimelyTypes, LateGrows DEF TimelyInv, Punctual
  <1>4. Late(losses) \in Nat /\ Late(MaxLosses) \in Nat /\ since[k[2]] \in Nat /\ MaxDelay \in Nat
    BY TimelyTypes, LateGrows
  <1> QED
    BY <1>2, <1>3, <1>4, AlertsAssumption DEF WindowIsLong

\* Issues that outlive a step with their time stamps, while dispatches, delays and
\* losses stay, are promised as before.
LEMMA PromiseStays ==
    ASSUME TimelyInv, NEW k \in Keys, Promised(k),
           since'[k[2]] = since[k[2]], UNCHANGED <<run, idle, losses>>
    PROVE  Promised(k)'
  BY DEF Promised, Awaits, Sends, Locks

\* A pass that gives a delivery up, or fails to publish it, is no older than LongestPass;
\* a publication and the loss of an announcement fail nothing.
LEMMA LedgerStepsKeepPromises ==
    ASSUME TimelyInv,
           \/ \E D \in SUBSET Deliveries : Publish(D)
           \/ \E D \in SUBSET {d \in Deliveries : Ladder!Due(d)} : FanOut(D)
           \/ LoseAnnouncement
    PROVE  TimelyInv'
  <1>1. HealthInv'
    BY IssuesKeepInv DEF TimelyInv
  <1>2. UNCHANGED <<run, alert, mails, idle, losses>>
    BY DEF Publish, FanOut, LoseAnnouncement, alertVars
  <1>3. MarkedWasMailed'
    BY <1>2 DEF TimelyInv, MarkedWasMailed, InFlight, Locks
  <1>4. LedgerType
    BY DEF TimelyInv, HealthInv, TypeOK, LedgerType
  <1>5. SUFFICES /\ \A d \in Deliveries : ledger'[d] = Null => since'[d] = 0
                 /\ \A k \in Keys : Outstanding(k)' => Promised(k)'
    BY <1>1, <1>2, <1>3 DEF TimelyInv, Punctual, EveryIssueIsPromised
  <1>6. ASSUME NEW k \in Keys, Outstanding(k), Outstanding(k)', since'[k[2]] = since[k[2]]
        PROVE  Promised(k)'
    BY <1>2, <1>6, PromiseStays DEF TimelyInv, EveryIssueIsPromised
  <1>7. CASE \E D \in SUBSET Deliveries : Publish(D)
    <2>1. PICK D \in SUBSET Deliveries : Publish(D)
      BY <1>7
    <2>2. /\ UNCHANGED <<since, unpublished>>
          /\ ledger' = [d \in Deliveries |-> IF d \in D /\ ledger[d] = Null THEN NewEntry ELSE ledger[d]]
      BY <2>1, SameLedger DEF Publish, Ladder!Enqueue
    <2>3. NewEntry.status # "exhausted" /\ NewEntry \in Entry
      BY DEF NewEntry, Entry, Statuses
    <2>4. \A d \in Deliveries : ledger'[d] = Null => ledger[d] = Null
      BY <2>2, <2>3, LedgerAssumption
    <2>5. ASSUME NEW k \in Keys, Outstanding(k)'
          PROVE  Outstanding(k)
      BY <1>2, <2>2, <2>3, <2>5, TimelyTypes DEF Outstanding
    <2> QED
      BY <1>6, <2>2, <2>4, <2>5 DEF TimelyInv, Punctual
  <1>8. CASE \E D \in SUBSET {d \in Deliveries : Ladder!Due(d)} : FanOut(D)
    <2>1. PICK D \in SUBSET {d \in Deliveries : Ladder!Due(d)} : FanOut(D)
      BY <1>8
    <2>2. PICK written \in Ladder!AnyOutcomes(D), age \in 0 .. LongestPass :
             /\ Ladder!Settle(D, written, age)
             /\ since' = [d \in Deliveries |-> IF d \in D THEN Monus(age, written[d].wait) ELSE since[d]]
             /\ \E failed \in SUBSET {d \in D : written[d].status = "delivered"} :
                   unpublished' = unpublished \cup failed
      BY <2>1 DEF FanOut
    <2>3. D \in SUBSET Deliveries
      BY <2>1
    <2>4. /\ \A d \in D : written[d] \in Entry /\ ledger'[d] # Null
          /\ \A d \in Deliveries \ D : ledger'[d] = ledger[d]
      BY <1>4, <2>2, <2>3, SettledRows
    <2>5. ASSUME NEW d \in D
          PROVE  since'[d] <= Late(losses)
      <3>1. age \in Nat /\ age <= LongestPass /\ written[d].wait \in Nat
        BY <2>4, <2>5, AlertsAssumption DEF Entry
      <3>2. since'[d] = Monus(age, written[d].wait) /\ since'[d] \in Nat /\ since'[d] <= age
        BY <2>2, <2>3, <3>1, MonusType
      <3> QED
        BY <3>1, <3>2, LateGrows, TimelyTypes, AlertsAssumption
    <2>6. \A d \in Deliveries \ D : since'[d] = since[d]
      BY <2>2
    <2>7. ASSUME NEW k \in Keys, Outstanding(k)'
          PROVE  Promised(k)'
      <3>1. CASE k[2] \in D
        <4>1. since'[k[2]] \in Nat
          BY <1>1, TimelyTypes DEF HealthInv, TypeOK
        <4> QED
          BY <1>2, <2>5, <3>1, <4>1, TimelyTypes DEF Promised
      <3>2. CASE k[2] \notin D
        <4>1. k[2] \in Deliveries \ D
          BY <3>2, TimelyTypes
        <4>2. Outstanding(k)
          BY <1>2, <2>2, <2>4, <2>7, <4>1 DEF Outstanding
        <4> QED
          BY <1>6, <2>6, <2>7, <4>1, <4>2
      <3> QED
        BY <3>1, <3>2
    <2>8. ASSUME NEW d \in Deliveries, ledger'[d] = Null
          PROVE  since'[d] = 0
      BY <2>4, <2>6, <2>8 DEF TimelyInv, Punctual
    <2> QED
      BY <2>7, <2>8
  <1>9. CASE LoseAnnouncement
    <2>1. UNCHANGED <<ledger, since, unpublished>>
      BY <1>9 DEF LoseAnnouncement, Ladder!LoseAnnouncement
    <2>2. \A k \in Keys : Outstanding(k)' => Outstanding(k)
      BY <1>2, <2>1 DEF Outstanding
    <2> QED
      BY <1>6, <2>1, <2>2 DEF TimelyInv, Punctual
  <1> QED
    BY <1>7, <1>8, <1>9

\* A minute later every deadline is a minute later, and InTime keeps the worker punctual.
LEMMA TimeKeepsPromises ==
    ASSUME TimelyInv, AdvanceTime
    PROVE  TimelyInv'
  <1>1. HealthInv'
    BY IssuesKeepInv DEF TimelyInv
  <1>2. /\ UNCHANGED <<unpublished, alert, mails, losses>> /\ idle' = idle + 1
        /\ idle < MaxDelay /\ \A p \in Dispatches : run[p] # Null => run[p].age < MaxDelay
    BY DEF AdvanceTime, InTime
  <1>3. ASSUME NEW p \in Dispatches
        PROVE  /\ run'[p] = Null <=> run[p] = Null
               /\ run[p] # Null => /\ run'[p].stage = run[p].stage /\ run'[p].keys = run[p].keys
                                   /\ run'[p].fresh = run[p].fresh /\ run'[p].age = run[p].age + 1
    <2>1. run'[p] = IF run[p] = Null THEN Null ELSE [run[p] EXCEPT !.age = run[p].age + 1]
      BY DEF AdvanceTime
    <2>2. CASE run[p] # Null
      <3> DEFINE w == [run[p] EXCEPT !.age = run[p].age + 1]
      <3>1. run[p] \in Run
        BY <2>2, TimelyTypes
      <3>2. w \in Run /\ w.stage = run[p].stage /\ w.keys = run[p].keys
            /\ w.fresh = run[p].fresh /\ w.age = run[p].age + 1
        BY <3>1 DEF Run
      <3>3. run'[p] = w
        BY <2>1, <2>2
      <3> HIDE DEF w
      <3> QED
        BY <2>2, <3>2, <3>3, AlertsAssumption
    <2> QED
      BY <2>1, <2>2
  <1>4. ASSUME NEW d \in Deliveries
        PROVE  since'[d] \in {since[d], since[d] + 1} \/ since'[d] <= since[d]
    <2>1. since'[d] \in {since[d], Capped(since[d])}
      BY DEF AdvanceTime
    <2> QED
      BY <2>1, TimelyTypes, AlertsAssumption DEF Capped
  <1>5. ASSUME NEW d \in Deliveries
        PROVE  /\ ledger'[d] = Null <=> ledger[d] = Null
               /\ ledger[d] # Null => ledger'[d].status = ledger[d].status
               /\ ledger[d] = Null => since'[d] = since[d]
    <2>1. ledger' = [e \in Deliveries |-> IF ledger[e] = Null THEN Null ELSE Later(ledger[e], 1)]
      BY SameLedger DEF AdvanceTime, Ladder!AdvanceTime
    <2>2. ledger[d] # Null => ledger'[d] \in Entry /\ ledger'[d].status = ledger[d].status
      BY <2>1, LaterType DEF TimelyInv, HealthInv, TypeOK
    <2>3. ledger[d] = Null => since'[d] = since[d]
      BY DEF AdvanceTime
    <2> QED
      BY <2>1, <2>2, <2>3, LedgerAssumption
  <1>6. MarkedWasMailed'
    <2>1. \A k \in Keys : InFlight(k)' => InFlight(k)
      BY <1>3 DEF InFlight, Locks
    <2> QED
      BY <1>2, <2>1 DEF TimelyInv, MarkedWasMailed
  <1>7. Punctual'
    BY <1>2, <1>3, <1>5, TimelyTypes DEF TimelyInv, Punctual
  <1>8. ASSUME NEW k \in Keys, Outstanding(k)'
        PROVE  Promised(k)'
    <2>1. Outstanding(k)
      BY <1>2, <1>5, <1>8, TimelyTypes DEF Outstanding
    <2>2. Promised(k)
      BY <2>1 DEF TimelyInv, EveryIssueIsPromised
    <2>3. since[k[2]] \in Nat /\ since'[k[2]] \in Nat /\ since'[k[2]] <= since[k[2]] + 1
      BY <1>1, <1>4, TimelyTypes DEF HealthInv, TypeOK
    <2>4. ASSUME NEW p \in Dispatches
          PROVE  (Awaits(p, k) => Awaits(p, k)') /\ (Sends(p, k) => Sends(p, k)')
      BY <1>3 DEF Awaits, Sends, Locks
    <2>5. \A p \in Dispatches : Awaits(p, k) \/ Sends(p, k) => run'[p].age = run[p].age + 1 /\ run[p].age \in Nat
      BY <1>3, TimelyTypes DEF Awaits, Sends, Locks
    <2>6. CASE since[k[2]] <= Late(losses) + idle
      BY <1>2, <2>3, <2>6, TimelyTypes DEF Promised
    <2>7. ASSUME NEW p \in Dispatches, Awaits(p, k), since[k[2]] <= Late(losses) + MaxDelay + run[p].age
          PROVE  Promised(k)'
      <3>1. since'[k[2]] <= Late(losses) + MaxDelay + run'[p].age
        BY <2>3, <2>5, <2>7, TimelyTypes
      <3> QED
        BY <1>2, <2>4, <2>7, <3>1 DEF Promised
    <2>8. ASSUME NEW p \in Dispatches, Sends(p, k), since[k[2]] <= Late(losses) + 2 * MaxDelay + run[p].age
          PROVE  Promised(k)'
      <3>1. since'[k[2]] <= Late(losses) + 2 * MaxDelay + run'[p].age
        BY <2>3, <2>5, <2>8, TimelyTypes
      <3> QED
        BY <1>2, <2>4, <2>8, <3>1 DEF Promised
    <2> QED
      BY <2>2, <2>6, <2>7, <2>8 DEF Promised
  <1> QED
    BY <1>1, <1>6, <1>7, <1>8 DEF TimelyInv, EveryIssueIsPromised

\* What other dispatches promised, they promise still when dispatch p moves.
LEMMA OthersPromise ==
    ASSUME TimelyInv, NEW p \in Dispatches, NEW w, run' = [run EXCEPT ![p] = w],
           NEW k \in Keys, Promised(k), since'[k[2]] = since[k[2]], losses' \in {losses, losses + 1}
    PROVE  \/ Promised(k)'
           \/ since[k[2]] <= Late(losses) + idle
           \/ Awaits(p, k) /\ since[k[2]] <= Late(losses) + MaxDelay + run[p].age
           \/ Sends(p, k) /\ since[k[2]] <= Late(losses) + 2 * MaxDelay + run[p].age
  <1>1. Late(losses) \in Nat /\ Late(losses') \in Nat /\ Late(losses) <= Late(losses') /\ MaxDelay \in Nat
    BY TimelyTypes, LateGrows
  <1>2. ASSUME NEW q \in Dispatches \ {p}
        PROVE  (Awaits(q, k)' <=> Awaits(q, k)) /\ (Sends(q, k)' <=> Sends(q, k)) /\ run'[q] = run[q]
    BY DEF Awaits, Sends, Locks, TimelyInv, HealthInv, TypeOK
  <1>3. ASSUME NEW q \in Dispatches \ {p}, Awaits(q, k), since[k[2]] <= Late(losses) + MaxDelay + run[q].age
        PROVE  Promised(k)'
    <2>1. run[q].age \in Nat /\ since[k[2]] \in Nat
      BY <1>3, TimelyTypes DEF Awaits
    <2>2. since'[k[2]] <= Late(losses') + MaxDelay + run'[q].age
      BY <1>1, <1>2, <1>3, <2>1
    <2> QED
      BY <1>2, <1>3, <2>2 DEF Promised, Late
  <1>4. ASSUME NEW q \in Dispatches \ {p}, Sends(q, k), since[k[2]] <= Late(losses) + 2 * MaxDelay + run[q].age
        PROVE  Promised(k)'
    <2>1. run[q].age \in Nat /\ since[k[2]] \in Nat
      BY <1>4, TimelyTypes DEF Sends, Locks
    <2>2. since'[k[2]] <= Late(losses') + 2 * MaxDelay + run'[q].age
      BY <1>1, <1>2, <1>4, <2>1
    <2> QED
      BY <1>2, <1>4, <2>2 DEF Promised, Late
  <1> QED
    BY <1>3, <1>4 DEF Promised

\* A dispatch that begins takes over from the wait for the next one.
LEMMA BeginKeepsPromises ==
    ASSUME TimelyInv, NEW p \in Dispatches, Begin(p)
    PROVE  TimelyInv'
  <1> DEFINE w == [stage |-> "exhausted", keys |-> {}, fresh |-> {}, age |-> 0]
  <1>1. /\ UNCHANGED issueVars /\ UNCHANGED <<alert, mails, losses>>
        /\ run[p] = Null /\ run' = [run EXCEPT ![p] = w] /\ idle' = 0
    BY DEF Begin
  <1>2. w \in Run /\ w.stage = "exhausted" /\ w.fresh = {} /\ w.age = 0
    BY DEF Run, Stages, Kinds
  <1> HIDE DEF w
  <1>3. w # Null
    BY <1>2, AlertsAssumption
  <1>4. run'[p] = w /\ \A q \in Dispatches : q # p => run'[q] = run[q]
    BY <1>1 DEF TimelyInv, HealthInv, TypeOK
  <1>5. HealthInv'
    BY QuietStepsKeepInv DEF TimelyInv
  <1>6. Punctual'
    BY <1>1, <1>2, <1>4, TimelyTypes DEF TimelyInv, Punctual, issueVars
  <1>7. MarkedWasMailed'
    <2>1. \A k : InFlight(k)' => InFlight(k)
      BY <1>1, <1>2, <1>4 DEF InFlight, Locks
    <2> QED
      BY <1>1, <2>1 DEF TimelyInv, MarkedWasMailed
  <1>8. ASSUME NEW k \in Keys, Outstanding(k)'
        PROVE  Promised(k)'
    <2>1. Outstanding(k) /\ Promised(k) /\ since' = since
      BY <1>1, <1>8 DEF Outstanding, issueVars, TimelyInv, EveryIssueIsPromised
    <2>2. Awaits(p, k)'
      BY <1>2, <1>3, <1>4 DEF Awaits
    <2>3. ~Awaits(p, k) /\ ~Sends(p, k)
      BY <1>1 DEF Awaits, Sends, Locks
    <2>4. CASE since[k[2]] <= Late(losses) + idle
      <3>1. since'[k[2]] <= Late(losses) + MaxDelay + run'[p].age
        BY <1>2, <1>4, <2>1, <2>4, TimelyTypes DEF TimelyInv, Punctual
      <3> QED
        BY <1>1, <2>2, <3>1 DEF Promised
    <2> QED
      BY <1>1, <2>1, <2>3, <2>4, OthersPromise
  <1> QED
    BY <1>5, <1>6, <1>7, <1>8 DEF TimelyInv, EveryIssueIsPromised

\* A query misses no issue: the window is still open for all that is outstanding.
LEMMA QueryKeepsPromises ==
    ASSUME TimelyInv, WindowIsLong, NEW p \in Dispatches, Query(p)
    PROVE  TimelyInv'
  <1>1. UNCHANGED issueVars /\ UNCHANGED <<alert, mails, idle, losses>> /\ TypeOK
    BY DEF Query, TimelyInv, HealthInv
  <1>2. PICK w \in Run \cup {Null} :
           /\ run' = [run EXCEPT ![p] = w]
           /\ w # Null => /\ w.keys = run[p].keys \cup ({run[p].stage} \X Issues[run[p].stage])
                          /\ w.fresh = run[p].fresh /\ w.age = run[p].age
                          /\ w.stage = Following[run[p].stage]
           /\ w = Null => /\ run[p].keys \cup ({run[p].stage} \X Issues[run[p].stage]) = {}
                          /\ Following[run[p].stage] = "record"
    BY <1>1, QueryShape
  <1>3. run[p] \in Run /\ run[p] # Null /\ run[p].stage \in Kinds /\ run[p].age \in 0 .. MaxDelay
    BY TimelyTypes DEF Query
  <1>4. /\ run'[p] = w /\ \A q \in Dispatches : q # p => run'[q] = run[q]
    BY <1>1, <1>2 DEF TypeOK
  <1>5. HealthInv'
    BY QuietStepsKeepInv DEF TimelyInv
  <1>6. Punctual'
    BY <1>1, <1>2, <1>3, <1>4 DEF TimelyInv, Punctual, issueVars
  <1>7. MarkedWasMailed'
    <2>1. w # Null => w.stage # "mark"
      BY <1>2, <1>3 DEF Following, Kinds
    <2>2. \A k : InFlight(k)' => InFlight(k)
      BY <1>4, <2>1 DEF InFlight, Locks
    <2> QED
      BY <1>1, <2>2 DEF TimelyInv, MarkedWasMailed
  <1>8. ASSUME NEW k \in Keys, Outstanding(k)'
        PROVE  Promised(k)'
    <2>1. Outstanding(k) /\ Promised(k) /\ since' = since
      BY <1>1, <1>8 DEF Outstanding, issueVars, TimelyInv, EveryIssueIsPromised
    <2>2. ~Sends(p, k)
      BY <1>3 DEF Sends, Kinds
    <2>3. CASE since[k[2]] <= Late(losses) + idle
      BY <1>1, <2>1, <2>3 DEF Promised, Late
    <2>4. CASE Awaits(p, k) /\ since[k[2]] <= Late(losses) + MaxDelay + run[p].age
      <3>1. k[2] \in Deliveries /\ k[1] \in {"exhausted", "publish_failed"} /\ k = <<k[1], k[2]>>
        BY <2>1 DEF Keys, Outstanding
      <3>2. since[k[2]] < Window
        BY <2>1, PromisedInTime
      <3>3. run[p].stage = k[1] => k[2] \in Issues[k[1]]
        BY <2>1, <3>1, <3>2 DEF Issues, Exhausted, PublishFailed, Outstanding
      <3>4. run[p].stage = k[1] => k \in {run[p].stage} \X Issues[run[p].stage]
        BY <3>1, <3>3
      <3>5. Awaits(p, k)'
        <4>1. CASE k \in run[p].keys \/ run[p].stage = k[1]
          <5>1. w # Null /\ k \in w.keys
            BY <1>2, <1>4, <3>4, <4>1
          <5> QED
            BY <1>2, <1>3, <1>4, <5>1 DEF Awaits, Following, Kinds
        <4>2. CASE run[p].stage = "exhausted" /\ k[1] = "publish_failed"
          BY <1>2, <1>4, <4>2 DEF Awaits, Following
        <4> QED
          BY <2>4, <3>1, <4>1, <4>2 DEF Awaits
      <3>6. since'[k[2]] <= Late(losses') + MaxDelay + run'[p].age
        BY <1>1, <1>2, <1>4, <2>1, <2>4, <3>5 DEF Awaits
      <3> QED
        BY <3>5, <3>6 DEF Promised, Late
    <2> QED
      BY <1>1, <1>2, <2>1, <2>2, <2>3, <2>4, OthersPromise
  <1> QED
    BY <1>5, <1>6, <1>7, <1>8 DEF TimelyInv, EveryIssueIsPromised

\* An insert tells nobody.
LEMMA RecordKeepsPromises ==
    ASSUME TimelyInv, NEW p \in Dispatches, NEW j \in Keys, Record(p, j)
    PROVE  TimelyInv'
  <1>1. HealthInv'
    BY QuietStepsKeepInv DEF TimelyInv
  <1>2. /\ UNCHANGED <<ledger, since, unpublished, run, mails, idle, losses>>
        /\ alert' = [alert EXCEPT ![j] = "open"]
    BY DEF Record, issueVars
  <1>3. \A k \in Keys : alert'[k] = "notified" => alert[k] = "notified"
    BY <1>2 DEF TimelyInv, HealthInv, TypeOK
  <1>4. Punctual' /\ MarkedWasMailed'
    BY <1>2, <1>3 DEF TimelyInv, Punctual, MarkedWasMailed, InFlight, Locks
  <1>5. \A k \in Keys : Outstanding(k)' => Outstanding(k)
    BY <1>2 DEF Outstanding
  <1>6. \A k \in Keys : Outstanding(k)' => Promised(k)'
    BY <1>2, <1>5, PromiseStays DEF TimelyInv, EveryIssueIsPromised
  <1> QED
    BY <1>1, <1>4, <1>6 DEF TimelyInv, EveryIssueIsPromised

\* A claim takes the keys that are open.  Who has locked one of the others will mail
\* it, unless it has, and of a key that is marked there was a mail.
LEMMA ClaimKeepsPromises ==
    ASSUME TimelyInv, NEW p \in Dispatches, Claim(p)
    PROVE  TimelyInv'
  <1>1. /\ UNCHANGED issueVars /\ UNCHANGED <<alert, mails, idle, losses>> /\ TypeOK
        /\ run[p] # Null /\ \A k \in run[p].keys : alert[k] # Null
    BY DEF Claim, TimelyInv, HealthInv
  <1>2. PICK w \in Run \cup {Null} :
           /\ run' = [run EXCEPT ![p] = w]
           /\ w # Null => /\ w.stage = "send" /\ w.keys = run[p].keys /\ w.age = run[p].age
                          /\ w.fresh = {k \in run[p].keys : Untold(k) /\ ~Locked(k)}
           /\ w = Null => {k \in run[p].keys : Untold(k) /\ ~Locked(k)} = {}
    BY <1>1, ClaimShape
  <1>3. run[p].stage = "record" /\ run[p].age \in 0 .. MaxDelay
    BY <1>1, TimelyTypes DEF Claim
  <1>4. run'[p] = w /\ \A q \in Dispatches : q # p => run'[q] = run[q]
    BY <1>1, <1>2 DEF TypeOK
  <1>5. HealthInv'
    BY QuietStepsKeepInv DEF TimelyInv
  <1>6. Punctual'
    BY <1>1, <1>2, <1>3, <1>4 DEF TimelyInv, Punctual, issueVars
  <1>7. MarkedWasMailed'
    <2>1. \A k : InFlight(k)' => InFlight(k)
      BY <1>2, <1>4 DEF InFlight, Locks
    <2> QED
      BY <1>1, <2>1 DEF TimelyInv, MarkedWasMailed
  <1>8. ASSUME NEW k \in Keys, Outstanding(k)'
        PROVE  Promised(k)'
    <2>1. Outstanding(k) /\ Promised(k) /\ since' = since
      BY <1>1, <1>8 DEF Outstanding, issueVars, TimelyInv, EveryIssueIsPromised
    <2>2. ~Sends(p, k)
      BY <1>3 DEF Sends
    <2>3. CASE since[k[2]] <= Late(losses) + idle
      BY <1>1, <2>1, <2>3 DEF Promised, Late
    <2>4. CASE Awaits(p, k) /\ since[k[2]] <= Late(losses) + MaxDelay + run[p].age
      <3>1. k \in run[p].keys
        BY <1>3, <2>4 DEF Awaits, Kinds
      <3>2. alert[k] = "open"
        BY <1>1, <2>1, <3>1, AlertsAssumption DEF TypeOK, TimelyInv, MarkedWasMailed, Outstanding
      <3>3. PICK q \in Dispatches : Sends(q, k)'
        <4>1. CASE Locked(k)
          <5>1. PICK q \in Dispatches : k \in Locks(q)
            BY <4>1 DEF Locked
          <5>2. run[q] # Null /\ run[q].stage \in {"send", "mark"}
            BY <5>1 DEF TimelyInv, HealthInv, LocksAreSound, Locks
          <5>3. run[q].stage # "mark"
            BY <2>1, <5>1, TimelyTypes DEF TimelyInv, MarkedWasMailed, InFlight, Outstanding
          <5>4. q # p
            BY <1>3, <5>2
          <5> QED
            BY <1>4, <5>1, <5>2, <5>3, <5>4 DEF Sends, Locks
        <4>2. CASE ~Locked(k)
          BY <1>2, <1>4, <3>1, <3>2, <4>2 DEF Sends, Locks, Untold
        <4> QED
          BY <4>1, <4>2
      <3>4. run'[q] # Null /\ run'[q].age \in Nat
        <4>1. run'[q] # Null
          BY <3>3 DEF Sends, Locks
        <4> QED
          BY <1>5, <4>1 DEF HealthInv, TypeOK, Run
      <3>5. since[k[2]] <= Late(losses) + 2 * MaxDelay
        BY <1>3, <2>4, TimelyTypes
      <3>6. since'[k[2]] <= Late(losses') + 2 * MaxDelay + run'[q].age
        BY <1>1, <2>1, <3>4, <3>5, TimelyTypes
      <3> QED
        BY <3>3, <3>6 DEF Promised, Late
    <2> QED
      BY <1>1, <1>2, <2>1, <2>2, <2>3, <2>4, OthersPromise
  <1> QED
    BY <1>5, <1>6, <1>7, <1>8 DEF TimelyInv, EveryIssueIsPromised

\* The mail is out.
LEMMA SendKeepsPromises ==
    ASSUME TimelyInv, NEW p \in Dispatches, Send(p)
    PROVE  TimelyInv'
  <1> DEFINE w == [run[p] EXCEPT !.stage = "mark"]
  <1>1. /\ UNCHANGED issueVars /\ UNCHANGED <<alert, idle, losses>> /\ TypeOK
        /\ run[p] # Null /\ run[p].stage = "send" /\ run' = [run EXCEPT ![p] = w] /\ mails' = Mailed(p)
    BY DEF Send, TimelyInv, HealthInv
  <1>2. run[p] \in Run /\ w \in Run /\ w.stage = "mark" /\ w.fresh = run[p].fresh /\ w.age = run[p].age
    BY <1>1, TimelyTypes DEF Run, Stages
  <1> HIDE DEF w
  <1>3. run'[p] = w /\ \A q \in Dispatches : q # p => run'[q] = run[q]
    BY <1>1 DEF TypeOK
  <1>4. ASSUME NEW k \in Keys
        PROVE  mails[k] \in Nat /\ mails'[k] = IF Sends(p, k) THEN mails[k] + 1 ELSE mails[k]
    BY <1>1, MailedIsTyped, TimelyTypes DEF Sends, Locks
  <1>5. HealthInv'
    BY SendKeepsInv DEF TimelyInv
  <1>6. Punctual'
    BY <1>1, <1>2, <1>3 DEF TimelyInv, Punctual, issueVars
  <1>7. MarkedWasMailed'
    <2>1. \A k : InFlight(k)' => InFlight(k) \/ Sends(p, k)
      BY <1>1, <1>2, <1>3 DEF InFlight, Locks, Sends
    <2> QED
      BY <1>1, <1>4, <2>1 DEF TimelyInv, MarkedWasMailed
  <1>8. ASSUME NEW k \in Keys, Outstanding(k)'
        PROVE  Promised(k)'
    <2>1. Outstanding(k) /\ ~Sends(p, k)
      BY <1>1, <1>4, <1>8 DEF Outstanding, issueVars
    <2>2. Promised(k) /\ since' = since
      BY <1>1, <2>1 DEF issueVars, TimelyInv, EveryIssueIsPromised
    <2>3. ~Awaits(p, k)
      BY <1>1 DEF Awaits, Kinds
    <2>4. since[k[2]] <= Late(losses) + idle => Promised(k)'
      BY <1>1, <2>2 DEF Promised, Late
    <2> QED
      BY <1>1, <2>1, <2>2, <2>3, <2>4, OthersPromise
  <1> QED
    BY <1>5, <1>6, <1>7, <1>8 DEF TimelyInv, EveryIssueIsPromised

\* What is marked was mailed.
LEMMA MarkKeepsPromises ==
    ASSUME TimelyInv, NEW p \in Dispatches, Mark(p)
    PROVE  TimelyInv'
  <1>1. /\ UNCHANGED issueVars /\ UNCHANGED <<mails, idle, losses>> /\ TypeOK
        /\ run[p] # Null /\ run[p].stage = "mark" /\ run' = [run EXCEPT ![p] = Null]
        /\ alert' = [k \in Keys |-> IF k \in Locks(p) THEN "notified" ELSE alert[k]]
    BY DEF Mark, Locks, TimelyInv, HealthInv
  <1>2. run'[p] = Null /\ \A q \in Dispatches : q # p => run'[q] = run[q]
    BY <1>1 DEF TypeOK
  <1>3. HealthInv'
    BY MarkKeepsInv DEF TimelyInv
  <1>4. Punctual'
    BY <1>1, <1>2 DEF TimelyInv, Punctual, issueVars
  <1>5. MarkedWasMailed'
    <2>1. \A k : InFlight(k)' => InFlight(k)
      BY <1>2 DEF InFlight, Locks
    <2>2. \A k \in Locks(p) : InFlight(k)
      BY <1>1 DEF InFlight
    <2> QED
      BY <1>1, <2>1, <2>2 DEF TimelyInv, MarkedWasMailed
  <1>6. ASSUME NEW k \in Keys, Outstanding(k)'
        PROVE  Promised(k)'
    <2>1. Outstanding(k) /\ Promised(k) /\ since' = since
      BY <1>1, <1>6 DEF Outstanding, issueVars, TimelyInv, EveryIssueIsPromised
    <2>2. ~Awaits(p, k) /\ ~Sends(p, k)
      BY <1>1 DEF Awaits, Sends, Kinds
    <2>3. since[k[2]] <= Late(losses) + idle => Promised(k)'
      BY <1>1, <2>1 DEF Promised, Late
    <2> QED
      BY <1>1, <2>1, <2>2, <2>3, OthersPromise
  <1> QED
    BY <1>3, <1>4, <1>5, <1>6 DEF TimelyInv, EveryIssueIsPromised

\* A dispatch that fails costs the time of its three steps, whatever it held.
LEMMA LossesKeepPromises ==
    ASSUME TimelyInv,
           \/ \E p \in Dispatches : SendFails(p) \/ Lose(p)
           \/ \E K \in SUBSET Channels : Restart(K)
    PROVE  TimelyInv'
  <1>1. HealthInv'
    BY EndKeepsInv, RestartKeepsInv DEF TimelyInv
  <1>2. /\ UNCHANGED <<ledger, since, unpublished, alert, idle>>
        /\ losses < MaxLosses /\ losses' = losses + 1
    BY DEF SendFails, Lose, Restart, Ladder!Serve, issueVars
  <1>3. \A p \in Dispatches : run'[p] \in {run[p], Null}
    BY DEF SendFails, Lose, Restart, TimelyInv, HealthInv, TypeOK
  <1>4. ASSUME NEW k \in Keys
        PROVE  mails'[k] >= mails[k]
    <2>1. ASSUME NEW p \in Dispatches, SendFails(p) \/ Lose(p)
          PROVE  mails'[k] >= mails[k]
      BY <2>1, MailedIsTyped, TimelyTypes DEF SendFails, Lose, TimelyInv, HealthInv
    <2>2. ASSUME NEW K \in SUBSET Channels, Restart(K)
          PROVE  mails'[k] >= mails[k]
      BY <2>2, TimelyTypes DEF Restart
    <2> QED
      BY <2>1, <2>2
  <1>5. Punctual'
    BY <1>2, <1>3, TimelyTypes DEF TimelyInv, Punctual
  <1>6. MarkedWasMailed'
    <2>1. \A k : InFlight(k)' => InFlight(k)
      BY <1>3 DEF InFlight, Locks
    <2>2. \A k \in Keys : mails[k] > 0 => mails'[k] > 0
      BY <1>1, <1>4, TimelyTypes DEF HealthInv, TypeOK
    <2> QED
      BY <1>2, <2>1, <2>2 DEF TimelyInv, MarkedWasMailed
  <1>7. ASSUME NEW k \in Keys, Outstanding(k)'
        PROVE  Promised(k)'
    <2>1. Outstanding(k)
      BY <1>2, <1>4, <1>7, TimelyTypes DEF Outstanding
    <2>2. since[k[2]] <= Late(losses) + 3 * MaxDelay
      BY <2>1, PromisedInTime
    <2>3. Late(losses') = Late(losses) + 3 * MaxDelay
      BY <1>2, LateGrows, TimelyTypes
    <2>4. since'[k[2]] <= Late(losses') + idle'
      BY <1>2, <2>2, <2>3, TimelyTypes
    <2> QED
      BY <2>4 DEF Promised, Late
  <1> QED
    BY <1>1, <1>5, <1>6, <1>7 DEF TimelyInv, EveryIssueIsPromised

\* A worker that is late with nothing by more than MaxDelay reports every delivery that
\* is given up, and every message that does not reach the followers, before its window
\* closes, whatever dispatches overlap and fail: if the window has room for the longest
\* pass and, per loss and once more, for the three steps of a report.
THEOREM FailuresAreReported ==
    ASSUME LongestPass + 3 * MaxDelay * (MaxLosses + 1) < Window
    PROVE  Spec => []EveryFailureIsReported
  <1>1. WindowIsLong
    BY DEF WindowIsLong, Late
  <1>2. Init => TimelyInv
    <2> SUFFICES ASSUME Init PROVE TimelyInv
      OBVIOUS
    <2>1. HealthInv
      BY HealthInit
    <2>2. Punctual /\ MarkedWasMailed
      BY AlertsAssumption DEF Init, Punctual, MarkedWasMailed, InFlight, Locks
    <2>3. \A k \in Keys : ~Outstanding(k)
      BY SameLedger DEF Init, Ladder!Init, Outstanding, Keys
    <2> QED
      BY <2>1, <2>2, <2>3 DEF TimelyInv, EveryIssueIsPromised
  <1>3. TimelyInv /\ [Next]_vars => TimelyInv'
    <2> SUFFICES ASSUME TimelyInv, [Next]_vars PROVE TimelyInv'
      OBVIOUS
    <2>1. CASE UNCHANGED vars
      <3>1. HealthInv'
        BY <2>1, HealthStep DEF TimelyInv
      <3>2. \A k \in Keys : Outstanding(k)' => Promised(k)'
        BY <2>1, PromiseStays DEF TimelyInv, EveryIssueIsPromised, Outstanding, vars, issueVars, alertVars
      <3> QED
        BY <2>1, <3>1, <3>2 DEF TimelyInv, Punctual, MarkedWasMailed, EveryIssueIsPromised,
                                InFlight, Locks, vars, issueVars, alertVars
    <2>2. CASE Next
      BY <1>1, <2>2, LedgerStepsKeepPromises, TimeKeepsPromises, BeginKeepsPromises, QueryKeepsPromises,
         RecordKeepsPromises, ClaimKeepsPromises, SendKeepsPromises, MarkKeepsPromises, LossesKeepPromises
      DEF Next
    <2> QED
      BY <2>1, <2>2
  <1>4. TimelyInv => EveryFailureIsReported
    <2> SUFFICES ASSUME TimelyInv, NEW d \in Deliveries, since[d] = Window
                 PROVE  /\ ledger[d].status = "exhausted" => mails[<<"exhausted", d>>] > 0
                        /\ d \in unpublished => mails[<<"publish_failed", d>>] > 0
      BY DEF EveryFailureIsReported
    <2>1. ledger[d] # Null
      BY AlertsAssumption DEF TimelyInv, Punctual
    <2>2. ASSUME NEW kind \in {"exhausted", "publish_failed"}
          PROVE  /\ <<kind, d>> \in Keys /\ mails[<<kind, d>>] \in Nat
                 /\ ~Outstanding(<<kind, d>>)
      <3>1. <<kind, d>> \in Keys
        BY DEF Keys, Kinds
      <3>2. ~(since[d] < Window)
        BY TimelyTypes
      <3> QED
        BY <1>1, <3>1, <3>2, PromisedInTime, TimelyTypes
    <2> QED
      BY <2>1, <2>2 DEF Outstanding
  <1> QED
    BY <1>2, <1>3, <1>4, PTL DEF Spec

============================================================================
