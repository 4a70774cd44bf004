------------------------ MODULE AnnouncementsProofs ------------------------
(***************************************************************************)
(* Theorems about Announcements, for any sets of publishers, ids, sessions *)
(* and ticks and any bounds.                                               *)
(*                                                                         *)
(* Every step touches a row in one of a few ways, whichever session or     *)
(* tick takes it and however stale its snapshot is.  KeyStep lists them;   *)
(* StepIsKeyStep shows that there are no others; the invariants and the    *)
(* refinement of Publication follow from KeyStep one row at a time.  What  *)
(* relates the revisions of an announcement does not: that one goes out    *)
(* rests on what the requests in progress have picked, and the refinement  *)
(* of AnnouncementStore on there being no gap between revisions.           *)
(***************************************************************************)
EXTENDS AnnouncementsRefinement, TLAPS

----------------------------------------------------------------------------
(* What one step does to one row *)

\* A publisher p turns row old into row new and logs action.
PersonWrites(old, new, action, p) ==
    \/ /\ action = "draft_discarded"
       /\ old.status = "draft"
       /\ new = [old EXCEPT !.status = "discarded"]
    \/ /\ action = "publish_confirmed"
       /\ \/ old.status = "draft" /\ old.severity # "critical"
          \/ old.status = "publish_requested" /\ old.scheduledFor = Null /\ MayConfirm(old, p)
       /\ \E now \in Nat : new = Published(old, p, FALSE, now)
    \/ /\ action = "publish_requested"
       /\ old.status = "draft" /\ old.severity = "critical"
       /\ new = [old EXCEPT !.status = "publish_requested", !.requestedBy = p]
    \/ /\ action = "publish_scheduled"
       /\ old.status = "draft" /\ old.severity = "critical"
       /\ \E when \in Nat : new = [old EXCEPT !.status = "publish_requested",
                                             !.scheduledFor = when, !.requestedBy = p]
    \/ /\ action = "publish_scheduled"
       /\ old.status = "draft" /\ old.severity # "critical"
       /\ \E when \in Nat : new = [old EXCEPT !.status = "scheduled",
                                             !.scheduledFor = when, !.requestedBy = Null]
    \/ /\ action = "schedule_confirmed"
       /\ old.status = "publish_requested" /\ old.scheduledFor # Null /\ MayConfirm(old, p)
       /\ new = [old EXCEPT !.status = "scheduled", !.confirmedBy = p]
    \/ /\ action = "schedule_cancelled"
       /\ \/ old.status = "scheduled"
          \/ old.status = "publish_requested" /\ old.scheduledFor # Null
       /\ new = [old EXCEPT !.status = "draft", !.scheduledFor = Null, !.requestedBy = Null,
                            !.confirmedBy = Null, !.rejectedBy = Null]
    \/ /\ action = "publish_withdrawn"
       /\ old.status = "publish_requested" /\ old.requestedBy = p
       /\ new = [old EXCEPT !.status = "draft", !.scheduledFor = Null,
                            !.requestedBy = Null, !.rejectedBy = Null]
    \/ /\ action = "publish_rejected"
       /\ old.status = "publish_requested" /\ old.requestedBy # p
       /\ new = [old EXCEPT !.status = "draft", !.scheduledFor = Null,
                            !.requestedBy = Null, !.rejectedBy = p]

Untouched(k) ==
    /\ rows'[k] = rows[k]
    /\ audit'[k] = audit[k]
    /\ k \in outbox' <=> k \in outbox

Inserted(k) ==
    /\ rows[k] = Null
    /\ \E sev \in Severities : rows'[k] = NewDraft(sev)
    /\ \E p \in Publishers, action \in {"draft_created", "edited"} :
          audit'[k] = Append(audit[k], [action |-> action, actor |-> p])
    /\ k \in outbox' <=> k \in outbox

WrittenByPerson(k) ==
    /\ rows[k] # Null
    /\ \E p \in Publishers, action \in AuditActions :
          /\ PersonWrites(rows[k], rows'[k], action, p)
          /\ audit'[k] = Append(audit[k], [action |-> action, actor |-> p])
          /\ k \in outbox' <=> (k \in outbox \/ action = "publish_confirmed")

SentByWorker(k) ==
    /\ rows[k] # Null
    /\ rows[k].status = "scheduled"
    /\ \E now \in Nat : /\ rows[k].scheduledFor <= now
                        /\ rows'[k] = Published(rows[k], Scheduler, TRUE, now)
    /\ audit'[k] = audit[k] \o <<[action |-> "publish_confirmed", actor |-> Scheduler],
                                 [action |-> "scheduled_publish_sent", actor |-> Scheduler]>>
    /\ k \in outbox'

KeyStep(k) == Untouched(k) \/ Inserted(k) \/ WrittenByPerson(k) \/ SentByWorker(k)

\* What a session works with while it executes an operation.
LEMMA ExecutingTypes ==
    ASSUME TypeOK, NEW s \in Sessions, NEW op \in Operations, Executing(s, op)
    PROVE  /\ request[s] \in Request
           /\ request[s].key \in Keys
           /\ request[s].actor \in Publishers
           /\ request[s].severity \in Severities
           /\ request[s].when \in Nat
           /\ request[s].now \in Nat
           /\ Locked(s) \in Row
           /\ rows[request[s].key] = Locked(s)
           /\ Locked(s) # Null
BY DEF TypeOK, Executing, Request, Locked, Keys, Exists

\* A commit writes the row of its request and nothing else.
LEMMA CommitIsKeyStep ==
    ASSUME TypeOK, NEW s \in Sessions, NEW op \in Operations, Executing(s, op),
           NEW row, NEW action \in AuditActions, Commit(s, row, action),
           PersonWrites(Locked(s), row, action, request[s].actor),
           outbox' = IF action = "publish_confirmed" THEN outbox \cup {request[s].key}
                                                     ELSE outbox
    PROVE  \A k \in Keys : KeyStep(k)
<1>. SUFFICES ASSUME NEW k \in Keys PROVE KeyStep(k)
  OBVIOUS
<1>1. /\ request[s].actor \in Publishers
      /\ request[s].key \in Keys
      /\ rows[request[s].key] = Locked(s)
      /\ Locked(s) # Null
  BY ExecutingTypes
<1>2. CASE k = request[s].key
  <2>1. /\ rows'[k] = row
        /\ audit'[k] = Append(audit[k], [action |-> action, actor |-> request[s].actor])
    BY <1>1, <1>2 DEF Commit, Log, TypeOK
  <2>2. WrittenByPerson(k)
    BY <1>1, <1>2, <2>1 DEF WrittenByPerson
  <2>. QED BY <2>2 DEF KeyStep
<1>3. CASE k # request[s].key
  BY <1>1, <1>3 DEF Commit, Log, TypeOK, Untouched, KeyStep
<1>. QED BY <1>2, <1>3

\* Each operation of a publisher is a KeyStep of every row.
LEMMA ExecuteIsKeyStep ==
    ASSUME TypeOK, NEW s \in Sessions, Execute(s)
    PROVE  \A k \in Keys : KeyStep(k)
<1>1. CASE ReviseDraft(s)
  <2>. SUFFICES ASSUME NEW k \in Keys PROVE KeyStep(k)
    OBVIOUS
  <2>. DEFINE next == <<request[s].key[1], request[s].key[2] + 1>>
  <2>1. request[s].actor \in Publishers /\ request[s].severity \in Severities
    BY <1>1, ExecutingTypes DEF ReviseDraft, Operations
  <2>2. /\ next \in Keys /\ rows[next] = Null
        /\ rows' = [rows EXCEPT ![next] = NewDraft(request[s].severity)]
        /\ audit' = [audit EXCEPT ![next] =
               Append(@, [action |-> "edited", actor |-> request[s].actor])]
        /\ outbox' = outbox
    BY <1>1 DEF ReviseDraft, Log, Exists
  <2>. HIDE DEF next
  <2>3. CASE k = next
    BY <2>1, <2>2, <2>3 DEF TypeOK, KeyStep, Inserted
  <2>4. CASE k # next
    BY <2>2, <2>4 DEF TypeOK, KeyStep, Untouched
  <2>. QED BY <2>3, <2>4
<1>2. CASE DiscardDraft(s)
  <2>1. Executing(s, "discardDraft")
    BY <1>2 DEF DiscardDraft
  <2>2. PersonWrites(Locked(s), [Locked(s) EXCEPT !.status = "discarded"],
                     "draft_discarded", request[s].actor)
    BY <1>2 DEF DiscardDraft, PersonWrites
  <2>. QED BY <1>2, <2>1, <2>2, CommitIsKeyStep DEF DiscardDraft, Operations, AuditActions
<1>3. CASE RequestPublish(s)
  <2>. DEFINE now == Published(Locked(s), request[s].actor, FALSE, request[s].now)
             asked == [Locked(s) EXCEPT !.status = "publish_requested",
                                        !.requestedBy = request[s].actor]
  <2>1. Executing(s, "requestPublish") /\ Locked(s).status = "draft"
    BY <1>3 DEF RequestPublish
  <2>2. request[s].now \in Nat
    BY <2>1, ExecutingTypes DEF Operations
  <2>3. CASE Locked(s).severity # "critical"
    <3>1. Commit(s, now, "publish_confirmed") /\ outbox' = outbox \cup {request[s].key}
      BY <1>3, <2>3 DEF RequestPublish, PublishNow
    <3>2. PersonWrites(Locked(s), now, "publish_confirmed", request[s].actor)
      BY <2>1, <2>2, <2>3 DEF PersonWrites
    <3>. QED BY <2>1, <3>1, <3>2, CommitIsKeyStep DEF Operations, AuditActions
  <2>4. CASE Locked(s).severity = "critical"
    <3>1. Commit(s, asked, "publish_requested") /\ outbox' = outbox
      BY <1>3, <2>4 DEF RequestPublish
    <3>2. PersonWrites(Locked(s), asked, "publish_requested", request[s].actor)
      BY <2>1, <2>4 DEF PersonWrites
    <3>. QED BY <2>1, <3>1, <3>2, CommitIsKeyStep DEF Operations, AuditActions
  <2>. QED BY <2>3, <2>4
<1>4. CASE ConfirmPublish(s)
  <2>. DEFINE now == Published(Locked(s), request[s].actor, FALSE, request[s].now)
  <2>1. Executing(s, "confirmPublish")
    BY <1>4 DEF ConfirmPublish
  <2>2. request[s].now \in Nat
    BY <2>1, ExecutingTypes DEF Operations
  <2>3. Commit(s, now, "publish_confirmed") /\ outbox' = outbox \cup {request[s].key}
    BY <1>4 DEF ConfirmPublish, PublishNow
  <2>4. PersonWrites(Locked(s), now, "publish_confirmed", request[s].actor)
    BY <1>4, <2>2 DEF ConfirmPublish, PersonWrites
  <2>. QED BY <2>1, <2>3, <2>4, CommitIsKeyStep DEF Operations, AuditActions
<1>5. CASE SchedulePublish(s)
  <2>. DEFINE critical == Locked(s).severity = "critical"
             row == [Locked(s) EXCEPT
                         !.status       = IF critical THEN "publish_requested" ELSE "scheduled",
                         !.scheduledFor = request[s].when,
                         !.requestedBy  = IF critical THEN request[s].actor ELSE Null]
  <2>1. Executing(s, "schedulePublish") /\ Locked(s).status = "draft"
    BY <1>5 DEF SchedulePublish
  <2>2. request[s].when \in Nat
    BY <2>1, ExecutingTypes DEF Operations
  <2>3. Commit(s, row, "publish_scheduled") /\ outbox' = outbox
    BY <1>5 DEF SchedulePublish
  <2>4. PersonWrites(Locked(s), row, "publish_scheduled", request[s].actor)
    <3>1. CASE critical
      BY <2>1, <2>2, <3>1 DEF PersonWrites
    <3>2. CASE ~ critical
      BY <2>1, <2>2, <3>2 DEF PersonWrites
    <3>. QED BY <3>1, <3>2
  <2>. HIDE DEF row
  <2>. QED BY <2>1, <2>3, <2>4, CommitIsKeyStep DEF Operations, AuditActions
<1>6. CASE ConfirmSchedule(s)
  <2>. DEFINE row == [Locked(s) EXCEPT !.status = "scheduled", !.confirmedBy = request[s].actor]
  <2>1. Executing(s, "confirmSchedule") /\ Commit(s, row, "schedule_confirmed") /\ outbox' = outbox
    BY <1>6 DEF ConfirmSchedule
  <2>2. PersonWrites(Locked(s), row, "schedule_confirmed", request[s].actor)
    BY <1>6 DEF ConfirmSchedule, PersonWrites
  <2>. HIDE DEF row
  <2>. QED BY <2>1, <2>2, CommitIsKeyStep DEF Operations, AuditActions
<1>7. CASE CancelSchedule(s)
  <2>. DEFINE row == [Locked(s) EXCEPT !.status = "draft", !.scheduledFor = Null,
                                       !.requestedBy = Null, !.confirmedBy = Null,
                                       !.rejectedBy = Null]
  <2>1. Executing(s, "cancelSchedule") /\ Commit(s, row, "schedule_cancelled") /\ outbox' = outbox
    BY <1>7 DEF CancelSchedule
  <2>2. PersonWrites(Locked(s), row, "schedule_cancelled", request[s].actor)
    BY <1>7 DEF CancelSchedule, PersonWrites
  <2>. HIDE DEF row
  <2>. QED BY <2>1, <2>2, CommitIsKeyStep DEF Operations, AuditActions
<1>8. CASE WithdrawPublish(s)
  <2>. DEFINE row == [Locked(s) EXCEPT !.status = "draft", !.scheduledFor = Null,
                                       !.requestedBy = Null, !.rejectedBy = Null]
  <2>1. Executing(s, "withdrawPublish") /\ Commit(s, row, "publish_withdrawn") /\ outbox' = outbox
    BY <1>8 DEF WithdrawPublish
  <2>2. PersonWrites(Locked(s), row, "publish_withdrawn", request[s].actor)
    BY <1>8 DEF WithdrawPublish, PersonWrites
  <2>. HIDE DEF row
  <2>. QED BY <2>1, <2>2, CommitIsKeyStep DEF Operations, AuditActions
<1>9. CASE RejectPublish(s)
  <2>. DEFINE row == [Locked(s) EXCEPT !.status = "draft", !.scheduledFor = Null,
                                       !.requestedBy = Null, !.rejectedBy = request[s].actor]
  <2>1. Executing(s, "rejectPublish") /\ Commit(s, row, "publish_rejected") /\ outbox' = outbox
    BY <1>9 DEF RejectPublish
  <2>2. request[s].actor \in Publishers
    BY <2>1, ExecutingTypes DEF Operations
  <2>3. PersonWrites(Locked(s), row, "publish_rejected", request[s].actor)
    BY <1>9, <2>2 DEF RejectPublish, PersonWrites
  <2>. HIDE DEF row
  <2>. QED BY <2>1, <2>3, CommitIsKeyStep DEF Operations, AuditActions
<1>. QED BY <1>1, <1>2, <1>3, <1>4, <1>5, <1>6, <1>7, <1>8, <1>9 DEF Execute

\* A tick sends the rows it claimed and leaves the others alone.
LEMMA SendingIsKeyStep ==
    ASSUME TypeOK, NEW t \in Ticks, PublishDueScheduled(t)
    PROVE  \A k \in Keys : KeyStep(k)
<1>. SUFFICES ASSUME NEW k \in Keys PROVE KeyStep(k)
  OBVIOUS
<1>1. tick[t] \in Claim /\ tick[t].now \in Nat
  BY DEF PublishDueScheduled, TypeOK, Claim
<1>2. PICK claimed \in SUBSET Claimable(t) :
          LET sent == {d.key : d \in claimed}
          IN  /\ rows' = [q \in Keys |->
                     IF q \in sent THEN Published(rows[q], Scheduler, TRUE, tick[t].now)
                                   ELSE rows[q]]
              /\ audit' = [q \in Keys |->
                     IF q \in sent
                     THEN audit[q] \o <<[action |-> "publish_confirmed", actor |-> Scheduler],
                                        [action |-> "scheduled_publish_sent", actor |-> Scheduler]>>
                     ELSE audit[q]]
              /\ outbox' = outbox \cup sent
  BY DEF PublishDueScheduled
<1>. DEFINE sent == {d.key : d \in claimed}
<1>3. CASE k \in sent
  <2>1. Due(k, tick[t].now)
    BY <1>2, <1>3 DEF Claimable
  <2>. QED BY <1>1, <1>2, <1>3, <2>1 DEF Due, Scheduled, Exists, KeyStep, SentByWorker
<1>4. CASE k \notin sent
  BY <1>2, <1>4 DEF KeyStep, Untouched
<1>. QED BY <1>3, <1>4

\* A new announcement inserts its first revision.
LEMMA CreateIsKeyStep ==
    ASSUME TypeOK, NEW p \in Publishers, NEW i \in Ids, NEW sev \in Severities,
           CreateDraft(p, i, sev)
    PROVE  \A k \in Keys : KeyStep(k)
<1>. SUFFICES ASSUME NEW k \in Keys PROVE KeyStep(k)
  OBVIOUS
<1>1. <<i, 1>> \in Keys /\ rows[<<i, 1>>] = Null
  BY ConstantsAssumption DEF CreateDraft, Keys, Exists
<1>2. CASE k = <<i, 1>>
  BY <1>1, <1>2 DEF CreateDraft, Log, TypeOK, KeyStep, Inserted
<1>3. CASE k # <<i, 1>>
  BY <1>1, <1>3 DEF CreateDraft, Log, TypeOK, KeyStep, Untouched
<1>. QED BY <1>2, <1>3

\* Every step of the system is a KeyStep of every row.
LEMMA StepIsKeyStep ==
    ASSUME TypeOK, [Next]_vars
    PROVE  \A k \in Keys : KeyStep(k)
<1>1. ASSUME NEW p \in Publishers, NEW i \in Ids, NEW sev \in Severities,
             CreateDraft(p, i, sev)
      PROVE  \A k \in Keys : KeyStep(k)
  BY <1>1, CreateIsKeyStep
<1>2. ASSUME NEW s \in Sessions, NEW p \in Publishers, NEW op \in Operations,
             NEW q \in Keys, NEW sev \in Severities, NEW when \in 0 .. MaxTime,
             Begin(s, p, op, q, sev, when)
      PROVE  \A k \in Keys : KeyStep(k)
  BY <1>2 DEF Begin, KeyStep, Untouched
<1>3. ASSUME NEW s \in Sessions, Execute(s)
      PROVE  \A k \in Keys : KeyStep(k)
  BY <1>3, ExecuteIsKeyStep
<1>4. ASSUME NEW s \in Sessions, Rollback(s)
      PROVE  \A k \in Keys : KeyStep(k)
  BY <1>4 DEF Rollback, KeyStep, Untouched
<1>5. ASSUME NEW t \in Ticks, BeginTick(t) \/ RollbackTick(t)
      PROVE  \A k \in Keys : KeyStep(k)
  BY <1>5 DEF BeginTick, RollbackTick, KeyStep, Untouched
<1>6. ASSUME NEW t \in Ticks, PublishDueScheduled(t)
      PROVE  \A k \in Keys : KeyStep(k)
  BY <1>6, SendingIsKeyStep
<1>7. CASE AdvanceClock \/ UNCHANGED vars
  BY <1>7 DEF AdvanceClock, vars, KeyStep, Untouched
<1>. QED BY <1>1, <1>2, <1>3, <1>4, <1>5, <1>6, <1>7 DEF Next

----------------------------------------------------------------------------
(* Types *)

\* The row that a publication leaves behind is a row.
LEMMA PublishedIsRow ==
    ASSUME NEW row \in Row, NEW a \in Publishers \cup {Scheduler},
           NEW preserve \in BOOLEAN, NEW now \in Nat
    PROVE  Published(row, a, preserve, now) \in Row
<1>. DEFINE confirmer == IF preserve /\ row.confirmedBy # Null THEN row.confirmedBy ELSE a
<1>1. confirmer \in Publishers \cup {Scheduler, Null}
  BY DEF Row
<1>2. Published(row, a, preserve, now) =
        [row EXCEPT !.status = "published", !.publishedAt = now, !.confirmedBy = confirmer]
  BY DEF Published, Row
<1>. HIDE DEF confirmer
<1>. QED BY <1>1, <1>2 DEF Row, Statuses

\* A person's write turns a row into a row.
LEMMA PersonWritesRow ==
    ASSUME NEW old \in Row, NEW new, NEW action, NEW p \in Publishers,
           PersonWrites(old, new, action, p)
    PROVE  new \in Row
<1>1. CASE \E now \in Nat : new = Published(old, p, FALSE, now)
  BY <1>1, PublishedIsRow
<1>2. CASE ~ \E now \in Nat : new = Published(old, p, FALSE, now)
  BY <1>2 DEF PersonWrites, Row, Statuses
<1>. QED BY <1>1, <1>2

\* Whatever a KeyStep does to a row, its columns and its log keep their types.
LEMMA KeyStepTypes ==
    ASSUME TypeOK, NEW k \in Keys, KeyStep(k)
    PROVE  rows'[k] \in Row \cup {Null} /\ audit'[k] \in Seq(AuditEntry)
<1>1. rows[k] \in Row \cup {Null} /\ audit[k] \in Seq(AuditEntry)
  BY DEF TypeOK
<1>2. CASE Untouched(k)
  BY <1>1, <1>2 DEF Untouched
<1>3. CASE Inserted(k)
  <2>1. rows'[k] \in Row
    BY <1>3 DEF Inserted, NewDraft, Row, Statuses
  <2>2. audit'[k] \in Seq(AuditEntry)
    BY <1>1, <1>3 DEF Inserted, AuditEntry, AuditActions
  <2>. QED BY <2>1, <2>2
<1>4. CASE WrittenByPerson(k)
  <2>1. rows[k] \in Row
    BY <1>1, <1>4 DEF WrittenByPerson
  <2>2. rows'[k] \in Row
    BY <1>4, <2>1, PersonWritesRow DEF WrittenByPerson
  <2>3. audit'[k] \in Seq(AuditEntry)
    BY <1>1, <1>4 DEF WrittenByPerson, AuditEntry
  <2>. QED BY <2>2, <2>3
<1>5. CASE SentByWorker(k)
  <2>1. rows[k] \in Row
    BY <1>1, <1>5 DEF SentByWorker
  <2>2. rows'[k] \in Row
    BY <1>5, <2>1, PublishedIsRow DEF SentByWorker
  <2>3. <<[action |-> "publish_confirmed", actor |-> Scheduler],
          [action |-> "scheduled_publish_sent", actor |-> Scheduler]>> \in Seq(AuditEntry)
    BY DEF AuditEntry, AuditActions
  <2>4. audit'[k] \in Seq(AuditEntry)
    BY <1>1, <1>5, <2>3 DEF SentByWorker
  <2>. QED BY <2>2, <2>4
<1>. QED BY <1>2, <1>3, <1>4, <1>5 DEF KeyStep

\* A step leaves tables that have a row or Null, and a log, for every key.
Tables ==
    /\ rows' = [k \in Keys |-> rows'[k]]
    /\ audit' = [k \in Keys |-> audit'[k]]
    /\ outbox' \subseteq Keys
    /\ request' \in [Sessions -> Request \cup {Null}]
    /\ tick' \in [Ticks -> Claim \cup {Null}]
    /\ clock' \in Nat

\* The operations of a publisher keep the tables.
LEMMA ExecuteKeepsTables ==
    ASSUME TypeOK, NEW s \in Sessions, Execute(s)
    PROVE  Tables
<1>1. CASE ReviseDraft(s)
  BY <1>1 DEF ReviseDraft, Log, TypeOK, Tables
<1>2. request[s] # Null => request[s].key \in Keys
  BY DEF TypeOK, Request
<1>3. ASSUME NEW row, NEW action, request[s] # Null, Commit(s, row, action),
             outbox' \in {outbox, outbox \cup {request[s].key}}
      PROVE  Tables
  BY <1>2, <1>3 DEF Commit, Log, TypeOK, Tables
<1>4. CASE DiscardDraft(s) \/ ConfirmSchedule(s) \/ CancelSchedule(s)
  BY <1>3, <1>4 DEF DiscardDraft, ConfirmSchedule, CancelSchedule, Executing
<1>5. CASE RequestPublish(s) \/ ConfirmPublish(s)
  BY <1>3, <1>5 DEF RequestPublish, ConfirmPublish, PublishNow, Executing
<1>6. CASE SchedulePublish(s) \/ WithdrawPublish(s) \/ RejectPublish(s)
  BY <1>3, <1>6 DEF SchedulePublish, WithdrawPublish, RejectPublish, Executing
<1>. QED BY <1>1, <1>4, <1>5, <1>6 DEF Execute

\* A tick, from its snapshot to its commit, keeps the tables.
LEMMA TickKeepsTables ==
    ASSUME TypeOK, NEW t \in Ticks, BeginTick(t) \/ PublishDueScheduled(t) \/ RollbackTick(t)
    PROVE  Tables
<1>1. CASE BeginTick(t)
  <2>. DEFINE due == {k \in Keys : Due(k, clock)}
             claim == [now |-> clock, due |-> {[key |-> k, when |-> rows[k].scheduledFor] : k \in due}]
  <2>2. \A k \in due : rows[k].scheduledFor \in Nat
    BY DEF Due, Scheduled, Exists, TypeOK, Row
  <2>3. claim \in Claim
    BY <2>2 DEF Claim, TypeOK
  <2>4. tick' = [tick EXCEPT ![t] = claim] /\ UNCHANGED <<rows, audit, outbox, request, clock>>
    BY <1>1 DEF BeginTick
  <2>. HIDE DEF claim
  <2>. QED BY <2>3, <2>4 DEF TypeOK, Tables
<1>2. CASE RollbackTick(t)
  BY <1>2 DEF RollbackTick, TypeOK, Tables
<1>3. CASE PublishDueScheduled(t)
  <2>1. \A d \in Claimable(t) : d.key \in Keys
    BY <1>3 DEF Claimable, PublishDueScheduled, TypeOK, Claim
  <2>2. outbox' \subseteq Keys
    BY <1>3, <2>1 DEF PublishDueScheduled, TypeOK
  <2>3. rows' = [k \in Keys |-> rows'[k]] /\ audit' = [k \in Keys |-> audit'[k]]
    BY <1>3 DEF PublishDueScheduled
  <2>. QED BY <1>3, <2>2, <2>3 DEF PublishDueScheduled, TypeOK, Tables
<1>. QED BY <1>1, <1>2, <1>3

\* Every step keeps every type.
LEMMA StepTypes ==
    ASSUME TypeOK, [Next]_vars
    PROVE  TypeOK'
<1>1. Tables
  <2>1. ASSUME NEW p \in Publishers, NEW i \in Ids, NEW sev \in Severities,
               CreateDraft(p, i, sev)
        PROVE  Tables
    BY <2>1 DEF CreateDraft, Log, TypeOK, Tables
  <2>2. ASSUME NEW s \in Sessions, NEW p \in Publishers, NEW op \in Operations,
               NEW k \in Keys, NEW sev \in Severities, NEW when \in 0 .. MaxTime,
               Begin(s, p, op, k, sev, when)
        PROVE  Tables
    <3>1. [op |-> op, actor |-> p, key |-> k, severity |-> sev, when |-> when,
           now |-> clock] \in Request
      BY DEF Request, TypeOK
    <3>. QED BY <2>2, <3>1 DEF Begin, TypeOK, Tables
  <2>3. ASSUME NEW s \in Sessions, Rollback(s)
        PROVE  Tables
    BY <2>3 DEF Rollback, TypeOK, Tables
  <2>4. CASE AdvanceClock \/ UNCHANGED vars
    BY <2>4 DEF AdvanceClock, vars, TypeOK, Tables
  <2>. QED BY <2>1, <2>2, <2>3, <2>4, ExecuteKeepsTables, TickKeepsTables DEF Next
<1>2. \A k \in Keys : rows'[k] \in Row \cup {Null} /\ audit'[k] \in Seq(AuditEntry)
  BY StepIsKeyStep, KeyStepTypes
<1>. QED BY <1>1, <1>2 DEF Tables, TypeOK

\* Types are kept for ever: no operation writes a value its column cannot hold.
THEOREM TypeCorrect == Spec => []TypeOK
<1>1. Init => TypeOK
  BY DEF Init, TypeOK
<1>2. TypeOK /\ [Next]_vars => TypeOK'
  BY StepTypes
<1>. QED BY <1>1, <1>2, PTL DEF Spec

----------------------------------------------------------------------------
(* Approvals *)

\* NothingIsLaundered and FourEyes together are inductive: a request starts
\* clean because a draft is clean, and a confirmation is made by somebody else
\* because the request names its requester.
ApprovalInv == NothingIsLaundered /\ FourEyes

\* A KeyStep keeps a row's approvals in order.
LEMMA StepApprovals ==
    ASSUME TypeOK, ApprovalInv, [Next]_vars
    PROVE  ApprovalInv'
<1>. SUFFICES ASSUME NEW k \in Keys
              PROVE  /\ NothingIsLaundered!(k)'
                     /\ FourEyes!(k)'
  BY DEF ApprovalInv, NothingIsLaundered, FourEyes
<1>1. KeyStep(k) /\ rows[k] \in Row \cup {Null}
  BY StepIsKeyStep DEF TypeOK
<1>2. NothingIsLaundered!(k) /\ FourEyes!(k)
  BY DEF ApprovalInv, NothingIsLaundered, FourEyes
<1>3. CASE Untouched(k)
  BY <1>2, <1>3 DEF Untouched, Exists
<1>4. CASE Inserted(k)
  BY <1>4 DEF Inserted, NewDraft, Exists
<1>5. CASE WrittenByPerson(k)
  <2>1. PICK p \in Publishers, action \in AuditActions :
            PersonWrites(rows[k], rows'[k], action, p)
    BY <1>5 DEF WrittenByPerson
  <2>2. rows[k] \in Row /\ rows[k] # Null
    BY <1>1, <1>5 DEF WrittenByPerson
  <2>3. CASE action = "publish_confirmed"
    <3>1. PICK now \in Nat : rows'[k] = Published(rows[k], p, FALSE, now)
      BY <2>1, <2>3 DEF PersonWrites
    <3>2. rows'[k].status = "published" /\ rows'[k].confirmedBy = p
          /\ rows'[k].requestedBy = rows[k].requestedBy
          /\ rows'[k].severity = rows[k].severity
      BY <2>2, <3>1 DEF Published, Row
    <3>3. rows'[k].severity = "critical" =>
              rows[k].status = "publish_requested" /\ rows[k].requestedBy # p
      BY <2>1, <2>3, <3>2 DEF PersonWrites, MayConfirm
    <3>. QED BY <1>2, <2>2, <3>2, <3>3 DEF Exists
  <2>4. CASE action = "draft_discarded"
    BY <1>2, <2>1, <2>2, <2>4 DEF PersonWrites, Row, Exists
  <2>5. CASE action = "publish_requested"
    BY <1>2, <2>1, <2>2, <2>5 DEF PersonWrites, Row, Exists
  <2>6. CASE action = "publish_scheduled"
    <3>1. rows[k].status = "draft" /\ rows'[k].severity = rows[k].severity
          /\ rows'[k].confirmedBy = rows[k].confirmedBy
      BY <2>1, <2>2, <2>6 DEF PersonWrites, Row
    <3>2. \/ /\ rows'[k].status = "publish_requested"
             /\ rows[k].severity = "critical"
             /\ rows'[k].requestedBy = p
          \/ /\ rows'[k].status = "scheduled"
             /\ rows[k].severity # "critical"
             /\ rows'[k].scheduledFor \in Nat
      BY <2>1, <2>2, <2>6 DEF PersonWrites, Row
    <3>. QED BY <1>2, <2>2, <3>1, <3>2 DEF Exists
  <2>7. CASE action = "schedule_confirmed"
    BY <1>2, <2>1, <2>2, <2>7 DEF PersonWrites, MayConfirm, Row, Exists
  <2>8. CASE action \in {"schedule_cancelled", "publish_withdrawn", "publish_rejected"}
    <3>1. /\ rows'[k].status = "draft"
          /\ rows'[k].requestedBy = Null
          /\ rows'[k].scheduledFor = Null
      BY <2>1, <2>2, <2>8 DEF PersonWrites, Row
    <3>2. rows'[k].confirmedBy = Null
      BY <1>2, <2>1, <2>2, <2>8 DEF PersonWrites, Row, Exists
    <3>. QED BY <3>1, <3>2
  <2>. QED BY <2>1, <2>3, <2>4, <2>5, <2>6, <2>7, <2>8 DEF PersonWrites
<1>6. CASE SentByWorker(k)
  BY <1>1, <1>2, <1>6, ConstantsAssumption DEF SentByWorker, Published, Row, Exists
<1>. QED BY <1>1, <1>3, <1>4, <1>5, <1>6 DEF KeyStep

\* Critical announcements are scheduled and published with two distinct people
\* only, and no withdrawal, rejection or cancellation leaves an approval behind.
THEOREM ApprovalsAreInOrder == Spec => [](NothingIsLaundered /\ FourEyes)
<1>1. Init => ApprovalInv
  BY DEF Init, ApprovalInv, NothingIsLaundered, FourEyes, Exists
<1>2. TypeOK /\ ApprovalInv /\ [Next]_vars => ApprovalInv'
  BY StepApprovals
<1>3. ApprovalInv => NothingIsLaundered /\ FourEyes
  BY DEF ApprovalInv
<1>. QED BY <1>1, <1>2, <1>3, TypeCorrect, PTL DEF Spec

\* No withdrawal, rejection or cancellation leaves an approval, or a time, behind.
THEOREM ResetsForget == Spec => []NothingIsLaundered
  BY ApprovalsAreInOrder, PTL

\* A published or discarded row is never written again.
THEOREM DecisionsAreFinal == Spec => DecidedForever
<1>1. ASSUME TypeOK, [Next]_vars, NEW k \in Keys, Exists(k),
             rows[k].status \in {"published", "discarded"}
      PROVE  rows'[k] = rows[k]
  <2>1. KeyStep(k)
    BY <1>1, StepIsKeyStep
  <2>. QED BY <1>1, <2>1
       DEF KeyStep, Untouched, Inserted, WrittenByPerson, PersonWrites, SentByWorker, Exists
<1>2. TypeOK /\ [Next]_vars =>
        [\A k \in Keys : Exists(k) /\ rows[k].status \in {"published", "discarded"} =>
             rows'[k] = rows[k]]_vars
  BY <1>1
<1>. QED BY <1>2, TypeCorrect, PTL DEF Spec, DecidedForever

----------------------------------------------------------------------------
(* Sending *)

\* Where the entries of a longer log come from.
LEMMA Appended ==
    ASSUME NEW log \in Seq(AuditEntry), NEW e \in AuditEntry
    PROVE  /\ DOMAIN Append(log, e) = 1 .. Len(log) + 1
           /\ DOMAIN log = 1 .. Len(log)
           /\ Len(log) \in Nat
           /\ \A n \in 1 .. Len(log) : Append(log, e)[n] = log[n]
           /\ Append(log, e)[Len(log) + 1] = e
OBVIOUS

LEMMA AppendedTwo ==
    ASSUME NEW log \in Seq(AuditEntry), NEW e \in AuditEntry, NEW f \in AuditEntry
    PROVE  /\ DOMAIN (log \o <<e, f>>) = 1 .. Len(log) + 2
           /\ DOMAIN log = 1 .. Len(log)
           /\ Len(log) \in Nat
           /\ \A n \in 1 .. Len(log) : (log \o <<e, f>>)[n] = log[n]
           /\ (log \o <<e, f>>)[Len(log) + 1] = e
           /\ (log \o <<e, f>>)[Len(log) + 2] = f
OBVIOUS

\* SentOnce strengthened: a revision whose log has a publication is in the outbox.
SendingInv ==
    \A k \in Keys :
        /\ k \in outbox <=> Exists(k) /\ rows[k].status = "published"
        /\ \A n \in DOMAIN audit[k] : audit[k][n].action = "publish_confirmed" => k \in outbox
        /\ \A m, n \in DOMAIN audit[k] :
               audit[k][m].action = "publish_confirmed"
                   /\ audit[k][n].action = "publish_confirmed" => m = n

\* A KeyStep adds a publication only to a log that has none.
LEMMA StepSending ==
    ASSUME TypeOK, SendingInv, [Next]_vars
    PROVE  SendingInv'
<1>. SUFFICES ASSUME NEW k \in Keys PROVE SendingInv!(k)'
  BY DEF SendingInv
<1>1. KeyStep(k) /\ rows[k] \in Row \cup {Null} /\ audit[k] \in Seq(AuditEntry)
  BY StepIsKeyStep DEF TypeOK
<1>2. SendingInv!(k)
  BY DEF SendingInv
<1>3. CASE Untouched(k)
  BY <1>2, <1>3 DEF Untouched, Exists
<1>4. CASE Inserted(k)
  <2>1. PICK e \in AuditEntry : audit'[k] = Append(audit[k], e) /\ e.action # "publish_confirmed"
    BY <1>4 DEF Inserted, AuditEntry, AuditActions
  <2>2. k \notin outbox /\ k \notin outbox'
    BY <1>2, <1>4 DEF Inserted, Exists
  <2>3. Exists(k)' => rows'[k].status = "draft"
    BY <1>4 DEF Inserted, NewDraft
  <2>4. \A n \in DOMAIN audit'[k] : audit'[k][n].action # "publish_confirmed"
    BY <1>1, <1>2, <2>1, <2>2, Appended
  <2>. QED BY <2>2, <2>3, <2>4
<1>5. CASE WrittenByPerson(k)
  <2>1. PICK p \in Publishers, action \in AuditActions :
            /\ PersonWrites(rows[k], rows'[k], action, p)
            /\ audit'[k] = Append(audit[k], [action |-> action, actor |-> p])
            /\ k \in outbox' <=> (k \in outbox \/ action = "publish_confirmed")
    BY <1>5 DEF WrittenByPerson
  <2>2. rows[k] \in Row /\ rows[k] # Null /\ rows'[k] \in Row
    BY <1>1, <1>5, <2>1, PersonWritesRow DEF WrittenByPerson
  <2>3. rows'[k] # Null
    BY <2>2, ConstantsAssumption
  <2>4. [action |-> action, actor |-> p] \in AuditEntry
    BY DEF AuditEntry
  <2>5. k \notin outbox /\ \A n \in DOMAIN audit[k] : audit[k][n].action # "publish_confirmed"
    BY <1>2, <2>1, <2>2 DEF PersonWrites
  <2>6. rows'[k].status = "published" <=> action = "publish_confirmed"
    BY <2>1, <2>2 DEF PersonWrites, Published, Row
  <2>. QED BY <1>1, <2>1, <2>3, <2>4, <2>5, <2>6, Appended DEF Exists
<1>6. CASE SentByWorker(k)
  <2>. DEFINE e == [action |-> "publish_confirmed", actor |-> Scheduler]
             f == [action |-> "scheduled_publish_sent", actor |-> Scheduler]
  <2>1. e \in AuditEntry /\ f \in AuditEntry
    BY DEF AuditEntry, AuditActions
  <2>2. k \notin outbox /\ \A n \in DOMAIN audit[k] : audit[k][n].action # "publish_confirmed"
    BY <1>2, <1>6 DEF SentByWorker
  <2>3. audit'[k] = audit[k] \o <<e, f>> /\ k \in outbox'
    BY <1>6 DEF SentByWorker
  <2>4. rows'[k] \in Row /\ rows'[k].status = "published"
    <3>1. PICK now \in Nat : rows'[k] = Published(rows[k], Scheduler, TRUE, now)
      BY <1>6 DEF SentByWorker
    <3>2. rows[k] \in Row
      BY <1>1, <1>6 DEF SentByWorker
    <3>3. rows'[k] \in Row
      BY <3>1, <3>2, PublishedIsRow
    <3>. QED BY <3>1, <3>2, <3>3 DEF Published, Row
  <2>5. rows'[k] # Null
    BY <2>4, ConstantsAssumption
  <2>6. e.action = "publish_confirmed" /\ f.action # "publish_confirmed"
    OBVIOUS
  <2>. HIDE DEF e, f
  <2>. QED BY <1>1, <2>1, <2>2, <2>3, <2>4, <2>5, <2>6, AppendedTwo DEF Exists
<1>. QED BY <1>1, <1>3, <1>4, <1>5, <1>6 DEF KeyStep

\* No interleaving of publishers and overlapping ticks sends a revision twice.
THEOREM RevisionsAreSentOnce == Spec => []SentOnce
<1>1. Init => SendingInv
  BY DEF Init, SendingInv, Exists
<1>2. TypeOK /\ SendingInv /\ [Next]_vars => SendingInv'
  BY StepSending
<1>3. SendingInv => SentOnce
  BY DEF SendingInv, SentOnce
<1>. QED BY <1>1, <1>2, <1>3, TypeCorrect, PTL DEF Spec

----------------------------------------------------------------------------
(* Times *)

WorkerSent(log) == \E n \in DOMAIN log : log[n].action = "scheduled_publish_sent"

\* NeverEarly strengthened: only a published revision has an entry of the worker.
TimesInv ==
    \A k \in Keys :
        /\ WorkerSent(audit[k]) => Exists(k) /\ rows[k].status = "published"
        /\ Exists(k) /\ rows[k].status = "published" =>
               /\ WorkerSent(audit[k]) <=> rows[k].scheduledFor # Null
               /\ rows[k].scheduledFor # Null => rows[k].scheduledFor <= rows[k].publishedAt

\* A KeyStep sends a row with its time, or without one if a person sends it.
LEMMA StepTimes ==
    ASSUME TypeOK, NothingIsLaundered, TimesInv, [Next]_vars
    PROVE  TimesInv'
<1>. SUFFICES ASSUME NEW k \in Keys PROVE TimesInv!(k)'
  BY DEF TimesInv
<1>1. KeyStep(k) /\ rows[k] \in Row \cup {Null} /\ audit[k] \in Seq(AuditEntry)
  BY StepIsKeyStep DEF TypeOK
<1>2. TimesInv!(k) /\ NothingIsLaundered!(k)
  BY DEF TimesInv, NothingIsLaundered
<1>3. CASE Untouched(k)
  BY <1>2, <1>3 DEF Untouched, Exists
<1>4. CASE Inserted(k)
  <2>1. PICK e \in AuditEntry :
            audit'[k] = Append(audit[k], e) /\ e.action # "scheduled_publish_sent"
    BY <1>4 DEF Inserted, AuditEntry, AuditActions
  <2>2. ~ WorkerSent(audit[k])
    BY <1>2, <1>4 DEF Inserted, Exists
  <2>3. ~ WorkerSent(audit'[k])
    BY <1>1, <2>1, <2>2, Appended DEF WorkerSent
  <2>4. rows'[k].status = "draft"
    BY <1>4 DEF Inserted, NewDraft
  <2>. QED BY <2>3, <2>4
<1>5. CASE WrittenByPerson(k)
  <2>1. PICK p \in Publishers, action \in AuditActions :
            /\ PersonWrites(rows[k], rows'[k], action, p)
            /\ audit'[k] = Append(audit[k], [action |-> action, actor |-> p])
    BY <1>5 DEF WrittenByPerson
  <2>2. rows[k] \in Row /\ Exists(k)
    BY <1>1, <1>5 DEF WrittenByPerson, Exists
  <2>3. action # "scheduled_publish_sent" /\ rows[k].status # "published"
    BY <2>1 DEF PersonWrites
  <2>4. ~ WorkerSent(audit[k])
    BY <1>2, <2>3
  <2>5. [action |-> action, actor |-> p] \in AuditEntry
    BY DEF AuditEntry
  <2>6. ~ WorkerSent(audit'[k])
    BY <1>1, <2>1, <2>3, <2>4, <2>5, Appended DEF WorkerSent
  <2>7. rows'[k].status = "published" => rows'[k].scheduledFor = Null
    <3>1. CASE action = "publish_confirmed"
      BY <1>2, <2>1, <2>2, <3>1 DEF PersonWrites, Published, Row
    <3>2. CASE action # "publish_confirmed"
      BY <2>1, <2>2, <3>2 DEF PersonWrites, Row
    <3>. QED BY <3>1, <3>2
  <2>. QED BY <2>6, <2>7
<1>6. CASE SentByWorker(k)
  <2>. DEFINE e == [action |-> "publish_confirmed", actor |-> Scheduler]
             f == [action |-> "scheduled_publish_sent", actor |-> Scheduler]
  <2>1. e \in AuditEntry /\ f \in AuditEntry
    BY DEF AuditEntry, AuditActions
  <2>2. audit'[k] = audit[k] \o <<e, f>>
    BY <1>6 DEF SentByWorker
  <2>3. f.action = "scheduled_publish_sent"
    OBVIOUS
  <2>4. PICK now \in Nat : /\ rows[k].scheduledFor <= now
                           /\ rows'[k] = Published(rows[k], Scheduler, TRUE, now)
    BY <1>6 DEF SentByWorker
  <2>5. rows[k] \in Row /\ rows[k].status = "scheduled" /\ rows[k].scheduledFor \in Nat
    BY <1>1, <1>2, <1>6 DEF SentByWorker, Exists
  <2>6. /\ rows'[k].status = "published"
        /\ rows'[k].scheduledFor = rows[k].scheduledFor
        /\ rows'[k].publishedAt = now
    BY <2>4, <2>5 DEF Published, Row
  <2>7. rows'[k] # Null
    BY <2>4, <2>5, PublishedIsRow, ConstantsAssumption
  <2>. HIDE DEF e, f
  <2>8. WorkerSent(audit'[k])
    <3>1. Len(audit[k]) + 2 \in DOMAIN audit'[k] /\ audit'[k][Len(audit[k]) + 2] = f
      BY <1>1, <2>1, <2>2, AppendedTwo
    <3>. QED BY <2>3, <3>1 DEF WorkerSent
  <2>. QED BY <2>4, <2>5, <2>6, <2>7, <2>8, ConstantsAssumption DEF Exists
<1>. QED BY <1>1, <1>3, <1>4, <1>5, <1>6 DEF KeyStep

\* However ticks, cancellations and new schedules interleave, the worker sends a
\* revision no earlier than the time that stands when it sends.
THEOREM NothingIsSentEarly == Spec => []NeverEarly
<1>1. Init => TimesInv
  BY DEF Init, TimesInv, WorkerSent, Exists
<1>2. TypeOK /\ NothingIsLaundered /\ TimesInv /\ [Next]_vars => TimesInv'
  BY StepTimes
<1>3. TimesInv => NeverEarly
  BY DEF TimesInv, WorkerSent, NeverEarly
<1>. QED BY <1>1, <1>2, <1>3, TypeCorrect, ResetsForget, PTL DEF Spec

----------------------------------------------------------------------------
(* The record *)

\* Entry a of the log asks for publication in the name of p and was not taken back.
Asked(log, a, p) ==
    /\ a \in DOMAIN log
    /\ log[a].action \in {"publish_requested", "publish_scheduled"}
    /\ log[a].actor = p
    /\ StillStands(log, a)

\* Entry b of the log confirms in the name of p.
Confirmed(log, b, p) ==
    /\ b \in DOMAIN log
    /\ log[b].action \in {"schedule_confirmed", "publish_confirmed"}
    /\ log[b].actor = p

\* ApprovalIsOnRecord strengthened: a waiting request is on record as well.
RecordInv ==
    \A k \in Keys : Exists(k) /\ rows[k].severity = "critical" =>
        /\ rows[k].status = "publish_requested" =>
               \E a \in Nat : Asked(audit[k], a, rows[k].requestedBy)
        /\ rows[k].status \in {"scheduled", "published"} =>
               \E a, b \in Nat : /\ a < b
                                 /\ Asked(audit[k], a, rows[k].requestedBy)
                                 /\ Confirmed(audit[k], b, rows[k].confirmedBy)

\* No operation changes the severity of a revision that is there.
LEMMA PersonKeepsSeverity ==
    ASSUME NEW old \in Row, NEW new, NEW action, NEW p, PersonWrites(old, new, action, p)
    PROVE  new.severity = old.severity
BY DEF PersonWrites, Published, Row

\* An entry that takes nothing back leaves what was asked and confirmed on record.
LEMMA RecordsStay ==
    ASSUME NEW log \in Seq(AuditEntry), NEW e \in AuditEntry, e.action \notin Resetting,
           NEW n \in Nat, NEW p
    PROVE  /\ Asked(log, n, p) => Asked(Append(log, e), n, p)
           /\ Confirmed(log, n, p) => Confirmed(Append(log, e), n, p)
BY Appended DEF Asked, Confirmed, StillStands

\* An entry that asks is on record as soon as it is written.
LEMMA AskingIsRecorded ==
    ASSUME NEW log \in Seq(AuditEntry), NEW e \in AuditEntry,
           e.action \in {"publish_requested", "publish_scheduled"}
    PROVE  Asked(Append(log, e), Len(log) + 1, e.actor)
BY Appended DEF Asked, StillStands, Resetting

\* A KeyStep records what it does in the name of whom the row names.
LEMMA StepRecord ==
    ASSUME TypeOK, ApprovalInv, RecordInv, [Next]_vars
    PROVE  RecordInv'
<1>. SUFFICES ASSUME NEW k \in Keys PROVE RecordInv!(k)'
  BY DEF RecordInv
<1>1. KeyStep(k) /\ rows[k] \in Row \cup {Null} /\ audit[k] \in Seq(AuditEntry)
  BY StepIsKeyStep DEF TypeOK
<1>2. RecordInv!(k) /\ NothingIsLaundered!(k) /\ FourEyes!(k)
  BY DEF RecordInv, ApprovalInv, NothingIsLaundered, FourEyes
<1>3. CASE Untouched(k)
  BY <1>2, <1>3 DEF Untouched, Exists
<1>4. CASE Inserted(k)
  BY <1>4 DEF Inserted, NewDraft
<1>5. CASE WrittenByPerson(k)
  <2>1. PICK p \in Publishers, action \in AuditActions :
            /\ PersonWrites(rows[k], rows'[k], action, p)
            /\ audit'[k] = Append(audit[k], [action |-> action, actor |-> p])
    BY <1>5 DEF WrittenByPerson
  <2>. DEFINE e == [action |-> action, actor |-> p]
  <2>2. rows[k] \in Row /\ Exists(k) /\ e \in AuditEntry /\ e.action = action /\ e.actor = p
    BY <1>1, <1>5 DEF WrittenByPerson, Exists, AuditEntry
  <2>3. rows'[k].severity = rows[k].severity
    BY <2>1, <2>2, PersonKeepsSeverity
  <2>. HIDE DEF e
  <2>4. CASE action \in {"publish_confirmed", "schedule_confirmed"}
    <3>1. /\ rows'[k].status \in {"scheduled", "published"}
          /\ rows'[k].requestedBy = rows[k].requestedBy
          /\ rows'[k].confirmedBy = p
          /\ rows[k].severity = "critical" => rows[k].status = "publish_requested"
      BY <2>1, <2>2, <2>4 DEF PersonWrites, Published, Row
    <3>2. Len(audit[k]) \in Nat /\ Confirmed(audit'[k], Len(audit[k]) + 1, p)
      BY <1>1, <2>1, <2>2, <2>4, Appended DEF Confirmed, e
    <3>3. ASSUME rows'[k].severity = "critical"
          PROVE  \E a \in Nat : a <= Len(audit[k]) /\ Asked(audit'[k], a, rows'[k].requestedBy)
      <4>1. PICK a \in Nat : Asked(audit[k], a, rows[k].requestedBy)
        BY <1>2, <2>2, <2>3, <3>1, <3>3
      <4>2. a <= Len(audit[k])
        BY <1>1, <4>1 DEF Asked
      <4>3. e.action \notin Resetting
        BY <2>2, <2>4 DEF Resetting
      <4>4. Asked(Append(audit[k], e), a, rows[k].requestedBy)
        BY <1>1, <2>2, <4>1, <4>3, RecordsStay
      <4>. QED BY <2>1, <3>1, <4>2, <4>4 DEF e
    <3>. QED BY <3>1, <3>2, <3>3
  <2>5. CASE action \in {"publish_requested", "publish_scheduled"}
    <3>1. rows'[k].severity = "critical" =>
              rows'[k].status = "publish_requested" /\ rows'[k].requestedBy = p
      BY <2>1, <2>2, <2>3, <2>5 DEF PersonWrites, Row
    <3>2. Len(audit[k]) + 1 \in Nat /\ Asked(audit'[k], Len(audit[k]) + 1, p)
      BY <1>1, <2>1, <2>2, <2>5, AskingIsRecorded DEF e
    <3>. QED BY <3>1, <3>2
  <2>6. CASE action \in {"draft_discarded", "schedule_cancelled", "publish_withdrawn",
                         "publish_rejected"}
    BY <2>1, <2>2, <2>6 DEF PersonWrites, Row
  <2>. QED BY <2>1, <2>4, <2>5, <2>6 DEF PersonWrites
<1>6. CASE SentByWorker(k)
  <2>. DEFINE e == [action |-> "publish_confirmed", actor |-> Scheduler]
             f == [action |-> "scheduled_publish_sent", actor |-> Scheduler]
  <2>1. e \in AuditEntry /\ f \in AuditEntry /\ e.action \notin Resetting /\ f.action \notin Resetting
    BY DEF AuditEntry, AuditActions, Resetting
  <2>2. audit'[k] = audit[k] \o <<e, f>> /\ Exists(k) /\ rows[k] \in Row /\ rows[k].status = "scheduled"
    BY <1>1, <1>6 DEF SentByWorker, Exists
  <2>3. PICK now \in Nat : rows'[k] = Published(rows[k], Scheduler, TRUE, now)
    BY <1>6 DEF SentByWorker
  <2>. HIDE DEF e, f
  <2>4. audit[k] \o <<e, f>> = Append(Append(audit[k], e), f) /\ Append(audit[k], e) \in Seq(AuditEntry)
    BY <1>1, <2>1
  <2>5. SUFFICES ASSUME rows'[k].severity = "critical" PROVE RecordInv!(k)'
    OBVIOUS
  <2>6. /\ rows[k].severity = "critical" /\ rows'[k].status = "published"
        /\ rows'[k].requestedBy = rows[k].requestedBy
        /\ rows'[k].confirmedBy = IF rows[k].confirmedBy # Null THEN rows[k].confirmedBy ELSE Scheduler
    BY <2>2, <2>3, <2>5 DEF Published, Row
  <2>7. rows'[k].confirmedBy = rows[k].confirmedBy
    BY <1>2, <2>2, <2>6, ConstantsAssumption
  <2>8. PICK a \in Nat, b \in Nat : /\ a < b
                                    /\ Asked(audit[k], a, rows[k].requestedBy)
                                    /\ Confirmed(audit[k], b, rows[k].confirmedBy)
    BY <1>2, <2>2, <2>6
  <2>9. /\ Asked(Append(audit[k], e), a, rows[k].requestedBy)
        /\ Confirmed(Append(audit[k], e), b, rows[k].confirmedBy)
    BY <1>1, <2>1, <2>8, RecordsStay
  <2>10. /\ Asked(audit'[k], a, rows[k].requestedBy)
         /\ Confirmed(audit'[k], b, rows[k].confirmedBy)
    BY <2>1, <2>2, <2>4, <2>9, RecordsStay
  <2>. QED BY <2>6, <2>7, <2>8, <2>10
<1>. QED BY <1>1, <1>3, <1>4, <1>5, <1>6 DEF KeyStep

\* The log of a critical revision that is scheduled or published shows who asked
\* and, later, who else confirmed, and that nobody took it back in between.
THEOREM ApprovalsAreOnRecord == Spec => []ApprovalIsOnRecord
<1>1. Init => RecordInv
  BY DEF Init, RecordInv, Exists
<1>2. TypeOK /\ ApprovalInv /\ RecordInv /\ [Next]_vars => RecordInv'
  BY StepRecord
<1>3. RecordInv /\ FourEyes => ApprovalIsOnRecord
  <2>. SUFFICES ASSUME RecordInv, FourEyes, NEW k \in Keys, Exists(k),
                       rows[k].severity = "critical",
                       rows[k].status \in {"scheduled", "published"}
                PROVE  ApprovalIsOnRecord!(k)!2
    BY DEF ApprovalIsOnRecord
  <2>1. PICK a \in Nat, b \in Nat : /\ a < b
                                    /\ Asked(audit[k], a, rows[k].requestedBy)
                                    /\ Confirmed(audit[k], b, rows[k].confirmedBy)
    BY DEF RecordInv
  <2>2. /\ rows[k].requestedBy \in Publishers /\ rows[k].confirmedBy \in Publishers
        /\ rows[k].requestedBy # rows[k].confirmedBy
    BY DEF FourEyes
  <2>. QED BY <2>1, <2>2 DEF Asked, Confirmed
<1>4. Spec => []ApprovalInv
  BY ApprovalsAreInOrder, PTL DEF ApprovalInv
<1>5. ApprovalInv => FourEyes
  BY DEF ApprovalInv
<1>. QED BY <1>1, <1>2, <1>3, <1>4, <1>5, TypeCorrect, PTL DEF Spec

----------------------------------------------------------------------------
(* One revision of each announcement goes out *)

\* At most one request about an announcement is in progress.  The code does
\* nothing to make it so, and without it OnlyLatestLeavesDraft fails: a request
\* whose snapshot is older than a new revision acts on the revision before it.
OneAtATime ==
    \A s, t \in Sessions :
        request[s] # Null /\ request[t] # Null /\ request[s].key[1] = request[t].key[1] => s = t

\* What a request's snapshot picked is still the latest when it executes.
SnapshotsAreFresh == \A s \in Sessions : request[s] # Null => IsLatest(request[s].key)

FreshInv == OnlyLatestLeavesDraft /\ SnapshotsAreFresh

\* No operation deletes a row.
LEMMA RowsStay ==
    ASSUME TypeOK, [Next]_vars, NEW k \in Keys, Exists(k)
    PROVE  Exists(k)'
<1>1. KeyStep(k) /\ rows[k] \in Row
  BY StepIsKeyStep DEF TypeOK, Exists
<1>2. CASE Untouched(k)
  BY <1>2 DEF Untouched, Exists
<1>3. CASE Inserted(k)
  BY <1>3 DEF Inserted, Exists
<1>4. CASE WrittenByPerson(k)
  BY <1>1, <1>4, PersonWritesRow, ConstantsAssumption DEF WrittenByPerson, Exists
<1>5. CASE SentByWorker(k)
  BY <1>1, <1>5, PublishedIsRow, ConstantsAssumption DEF SentByWorker, Exists
<1>. QED BY <1>1, <1>2, <1>3, <1>4, <1>5 DEF KeyStep

\* The latest revision of an announcement is the latest for as long as no
\* revision of that announcement is inserted.
LEMMA LatestStays ==
    ASSUME TypeOK, [Next]_vars, NEW k \in Keys, IsLatest(k),
           \A r \in 1 .. MaxRevision : Exists(<<k[1], r>>)' => Exists(<<k[1], r>>)
    PROVE  IsLatest(k)'
BY RowsStay DEF IsLatest

\* While every row of an announcement is a draft or the latest, and no revision
\* is inserted, only a write to the latest revision changes a draft.
LEMMA LatestWrites ==
    ASSUME TypeOK, OnlyLatestLeavesDraft, [Next]_vars,
           \A k \in Keys : Exists(k)' => Exists(k),
           \A k \in Keys : rows'[k] = rows[k] \/ IsLatest(k)
    PROVE  OnlyLatestLeavesDraft'
<1>. SUFFICES ASSUME NEW k \in Keys, Exists(k)', rows'[k].status # "draft"
              PROVE  IsLatest(k)'
  BY DEF OnlyLatestLeavesDraft
<1>1. IsLatest(k)
  BY DEF OnlyLatestLeavesDraft, Exists
<1>2. \A r \in 1 .. MaxRevision : <<k[1], r>> \in Keys
  BY DEF Keys
<1>. QED BY <1>1, <1>2, LatestStays

\* An operation other than reviseDraft writes the row its snapshot picked.
LEMMA ExecuteWritesItsRow ==
    ASSUME TypeOK, NEW s \in Sessions, Execute(s), ~ ReviseDraft(s)
    PROVE  /\ request[s] # Null
           /\ Exists(request[s].key)
           /\ request' = [request EXCEPT ![s] = Null]
           /\ \A k \in Keys : k # request[s].key => rows'[k] = rows[k]
<1>1. \E row, action : Commit(s, row, action)
  BY DEF Execute, DiscardDraft, RequestPublish, ConfirmPublish, SchedulePublish,
         ConfirmSchedule, CancelSchedule, WithdrawPublish, RejectPublish, PublishNow
<1>2. \E op \in Operations : Executing(s, op)
  BY DEF Execute, DiscardDraft, RequestPublish, ConfirmPublish, SchedulePublish,
         ConfirmSchedule, CancelSchedule, WithdrawPublish, RejectPublish, Operations
<1>3. request[s] # Null /\ request[s].key \in Keys /\ Exists(request[s].key)
  BY <1>2, ExecutingTypes DEF Executing
<1>. QED BY <1>1, <1>3 DEF Commit, TypeOK

\* A pass over the schedule writes scheduled rows only.
LEMMA SendingSendsTheDue ==
    ASSUME NEW t \in Ticks, PublishDueScheduled(t), NEW k \in Keys
    PROVE  rows'[k] = rows[k] \/ Scheduled(k)
<1>1. PICK claimed \in SUBSET Claimable(t) :
          rows' = [q \in Keys |-> IF q \in {d.key : d \in claimed}
                                  THEN Published(rows[q], Scheduler, TRUE, tick[t].now)
                                  ELSE rows[q]]
  BY DEF PublishDueScheduled
<1>2. k \in {d.key : d \in claimed} => Due(k, tick[t].now)
  BY DEF Claimable
<1>. QED BY <1>1, <1>2 DEF Due

\* A step of the system keeps FreshInv.
LEMMA StepFresh ==
    ASSUME TypeOK, FreshInv, OneAtATime, [Next]_vars
    PROVE  FreshInv'
<1>. USE DEF FreshInv
<1>0. \A k \in Keys : k[1] \in Ids /\ k[2] \in 1 .. MaxRevision /\ k = <<k[1], k[2]>>
  BY DEF Keys
<1>1. ASSUME NEW p \in Publishers, NEW i \in Ids, NEW sev \in Severities,
             CreateDraft(p, i, sev)
      PROVE  FreshInv'
  <2>1. /\ request' = request
        /\ \A k \in Keys : k # <<i, 1>> => rows'[k] = rows[k]
        /\ rows'[<<i, 1>>] = NewDraft(sev)
    BY <1>1, ConstantsAssumption DEF CreateDraft, TypeOK, Keys
  <2>2. \A k \in Keys : Exists(k) => k[1] # i
    BY <1>0, <1>1 DEF CreateDraft
  <2>3. ASSUME NEW k \in Keys, IsLatest(k)
        PROVE  IsLatest(k)'
    <3>1. k[1] # i
      BY <2>2, <2>3 DEF IsLatest
    <3>2. \A r \in 1 .. MaxRevision : <<k[1], r>> \in Keys /\ <<k[1], r>> # <<i, 1>>
      BY <1>0, <3>1 DEF Keys
    <3>. QED BY <2>1, <2>3, <3>2, LatestStays DEF Exists
  <2>4. OnlyLatestLeavesDraft'
    <3>. SUFFICES ASSUME NEW k \in Keys, Exists(k)', rows'[k].status # "draft"
                  PROVE  IsLatest(k)'
      BY DEF OnlyLatestLeavesDraft
    <3>1. k # <<i, 1>>
      BY <2>1 DEF NewDraft
    <3>. QED BY <2>1, <2>3, <3>1 DEF OnlyLatestLeavesDraft, Exists
  <2>5. SnapshotsAreFresh'
    BY <2>1, <2>3 DEF SnapshotsAreFresh, TypeOK, Request
  <2>. QED BY <2>4, <2>5
<1>2. ASSUME \A k \in Keys : rows'[k] = rows[k],
             \A s \in Sessions : request'[s] # Null =>
                 request'[s] = request[s] \/ IsLatest(request'[s].key),
             TypeOK'
      PROVE  FreshInv'
  <2>1. ASSUME NEW k \in Keys, IsLatest(k)
        PROVE  IsLatest(k)'
    <3>1. \A r \in 1 .. MaxRevision : <<k[1], r>> \in Keys
      BY <1>0 DEF Keys
    <3>. QED BY <1>2, <2>1, <3>1, LatestStays DEF Exists
  <2>2. OnlyLatestLeavesDraft'
    BY <1>2, LatestWrites DEF Exists
  <2>3. SnapshotsAreFresh'
    BY <1>2, <2>1 DEF SnapshotsAreFresh, TypeOK, Request
  <2>. QED BY <2>2, <2>3
<1>3. ASSUME NEW s \in Sessions, ReviseDraft(s)
      PROVE  FreshInv'
  <2>. DEFINE next == <<request[s].key[1], request[s].key[2] + 1>>
  <2>1. /\ request[s] # Null
        /\ request[s].key \in Keys
        /\ Exists(request[s].key)
        /\ rows[request[s].key].status = "draft"
    BY <1>3, ExecutingTypes DEF ReviseDraft, Executing, Locked, Operations
  <2>2. /\ next \in Keys
        /\ rows'[next] = NewDraft(request[s].severity)
        /\ \A k \in Keys : k # next => rows'[k] = rows[k]
        /\ request' = [request EXCEPT ![s] = Null]
    BY <1>3 DEF ReviseDraft, TypeOK
  <2>3. IsLatest(request[s].key)
    BY <2>1 DEF SnapshotsAreFresh
  <2>4. ASSUME NEW k \in Keys, IsLatest(k), k[1] # request[s].key[1]
        PROVE  IsLatest(k)'
    <3>1. \A r \in 1 .. MaxRevision : <<k[1], r>> \in Keys /\ <<k[1], r>> # next
      BY <1>0, <2>4 DEF Keys
    <3>. QED BY <2>2, <2>4, <3>1, LatestStays DEF Exists
  <2>5. OnlyLatestLeavesDraft'
    <3>. SUFFICES ASSUME NEW k \in Keys, Exists(k)', rows'[k].status # "draft"
                  PROVE  IsLatest(k)'
      BY DEF OnlyLatestLeavesDraft
    <3>1. k # next
      BY <2>2 DEF NewDraft
    <3>2. IsLatest(k) /\ rows[k].status # "draft"
      BY <2>2, <3>1 DEF OnlyLatestLeavesDraft, Exists
    <3>3. k[1] # request[s].key[1]
      \* otherwise both are the latest revision of the announcement, and one is a draft
      <4>. SUFFICES ASSUME k[1] = request[s].key[1] PROVE FALSE
        OBVIOUS
      <4>1. k[2] <= request[s].key[2] /\ request[s].key[2] <= k[2]
        BY <1>0, <2>1, <2>3, <3>2 DEF IsLatest
      <4>2. k = request[s].key
        BY <1>0, <2>1, <4>1
      <4>. QED BY <2>1, <3>2, <4>2
    <3>. QED BY <2>4, <3>2, <3>3
  <2>6. SnapshotsAreFresh'
    <3>. SUFFICES ASSUME NEW t \in Sessions, request'[t] # Null
                  PROVE  IsLatest(request[t].key)'
      BY DEF SnapshotsAreFresh
    <3>1. t # s /\ request'[t] = request[t] /\ request[t].key \in Keys
      BY <2>2 DEF TypeOK, Request
    <3>2. IsLatest(request[t].key) /\ request[t].key[1] # request[s].key[1]
      BY <2>1, <3>1 DEF SnapshotsAreFresh, OneAtATime
    <3>. QED BY <2>4, <3>1, <3>2
  <2>. QED BY <2>5, <2>6
<1>4. ASSUME NEW s \in Sessions, Execute(s), ~ ReviseDraft(s)
      PROVE  FreshInv'
  <2>1. /\ request[s] # Null
        /\ Exists(request[s].key)
        /\ request' = [request EXCEPT ![s] = Null]
        /\ \A k \in Keys : k # request[s].key => rows'[k] = rows[k]
    BY <1>4, ExecuteWritesItsRow
  <2>2. \A k \in Keys : Exists(k)' => Exists(k)
    BY <2>1 DEF Exists
  <2>3. ASSUME NEW k \in Keys, IsLatest(k)
        PROVE  IsLatest(k)'
    <3>1. \A r \in 1 .. MaxRevision : <<k[1], r>> \in Keys
      BY <1>0 DEF Keys
    <3>. QED BY <2>2, <2>3, <3>1, LatestStays
  <2>4. OnlyLatestLeavesDraft'
    BY <2>1, <2>2, LatestWrites DEF SnapshotsAreFresh
  <2>5. SnapshotsAreFresh'
    BY <2>1, <2>3 DEF SnapshotsAreFresh, TypeOK, Request
  <2>. QED BY <2>4, <2>5
<1>5. ASSUME NEW t \in Ticks, PublishDueScheduled(t)
      PROVE  FreshInv'
  <2>2. request' = request
    BY <1>5 DEF PublishDueScheduled
  <2>3. \A k \in Keys : rows'[k] = rows[k] \/ Scheduled(k)
    BY <1>5, SendingSendsTheDue
  <2>4. \A k \in Keys : Exists(k)' => Exists(k)
    BY <2>3 DEF Scheduled, Exists
  <2>5. OnlyLatestLeavesDraft'
    BY <2>3, <2>4, LatestWrites DEF OnlyLatestLeavesDraft, Scheduled
  <2>6. ASSUME NEW k \in Keys, IsLatest(k)
        PROVE  IsLatest(k)'
    <3>1. \A r \in 1 .. MaxRevision : <<k[1], r>> \in Keys
      BY <1>0 DEF Keys
    <3>. QED BY <2>4, <2>6, <3>1, LatestStays
  <2>7. SnapshotsAreFresh'
    BY <2>2, <2>6 DEF SnapshotsAreFresh, TypeOK, Request
  <2>. QED BY <2>5, <2>7
<1>6. TypeOK'
  BY StepTypes
<1>7. ASSUME NEW s \in Sessions, NEW p \in Publishers, NEW op \in Operations,
             NEW k \in Keys, NEW sev \in Severities, NEW when \in 0 .. MaxTime,
             Begin(s, p, op, k, sev, when)
      PROVE  FreshInv'
  BY <1>2, <1>6, <1>7 DEF Begin, TypeOK
<1>8. ASSUME NEW s \in Sessions, Rollback(s)
      PROVE  FreshInv'
  BY <1>2, <1>6, <1>8 DEF Rollback, TypeOK
<1>9. ASSUME NEW t \in Ticks, BeginTick(t) \/ RollbackTick(t)
      PROVE  FreshInv'
  BY <1>2, <1>6, <1>9 DEF BeginTick, RollbackTick
<1>10. CASE AdvanceClock \/ UNCHANGED vars
  BY <1>2, <1>6, <1>10 DEF AdvanceClock, vars
<1>. QED BY <1>1, <1>3, <1>4, <1>5, <1>7, <1>8, <1>9, <1>10 DEF Next

\* While the requests about one announcement follow one another, however many
\* sessions there are and however the worker's ticks overlap with them, an
\* announcement goes out in one revision, its latest.
THEOREM LatestGoesOut == Spec /\ []OneAtATime => []OnlyLatestLeavesDraft
<1>1. Init => FreshInv
  BY DEF Init, FreshInv, OnlyLatestLeavesDraft, SnapshotsAreFresh, Exists
<1>2. TypeOK /\ FreshInv /\ OneAtATime /\ [Next]_vars => FreshInv'
  BY StepFresh
<1>3. FreshInv => OnlyLatestLeavesDraft
  BY DEF FreshInv
<1>. QED BY <1>1, <1>2, <1>3, TypeCorrect, PTL DEF Spec

\* With a single session that needs no further assumption.
THEOREM OneSessionSendsTheLatest ==
    ASSUME \A s, t \in Sessions : s = t
    PROVE  Spec => []OnlyLatestLeavesDraft
<1>1. OneAtATime
  BY DEF OneAtATime
<1>2. []OneAtATime
  BY <1>1, PTL
<1>. QED BY <1>2, LatestGoesOut, PTL

----------------------------------------------------------------------------
(* Refinement *)

\* The variables of Publication, as AnnouncementsRefinement maps them.
Phase     == [k \in Keys |-> phaseOf(rows[k])]
Level     == [k \in Keys |-> levelOf(rows[k])]
Approvers == [k \in Keys |-> approversOf(rows[k])]

\* When one row changes, each mapped variable changes at that row.
LEMMA OneRowChanges ==
    ASSUME NEW k \in Keys, \A q \in Keys : q # k => rows'[q] = rows[q]
    PROVE  /\ Phase' = [Phase EXCEPT ![k] = phaseOf(rows'[k])]
           /\ Level' = [Level EXCEPT ![k] = levelOf(rows'[k])]
           /\ Approvers' = [Approvers EXCEPT ![k] = approversOf(rows'[k])]
           /\ Phase[k] = phaseOf(rows[k])
           /\ Level[k] = levelOf(rows[k])
           /\ Approvers[k] = approversOf(rows[k])
BY DEF Phase, Level, Approvers

\* Mapping an existing row.
LEMMA MappedRow ==
    ASSUME NEW row \in Row
    PROVE  /\ row # Null
           /\ phaseOf(row) = IF row.status = "published" THEN "sent"
                             ELSE IF row.status = "discarded" THEN "binned" ELSE "open"
           /\ levelOf(row) = row.severity
           /\ approversOf(row) = {row.requestedBy, row.confirmedBy} \cap Publishers
BY ConstantsAssumption DEF phaseOf, levelOf, approversOf

\* A publisher's write to one row is a step of Publication or none.
LEMMA PersonImplements ==
    ASSUME TypeOK, ApprovalInv, NEW k \in Keys, NEW p \in Publishers, NEW action,
           rows[k] # Null, PersonWrites(rows[k], rows'[k], action, p),
           \A q \in Keys : q # k => rows'[q] = rows[q]
    PROVE  [Abstract!Next]_(Abstract!vars)
<1>. DEFINE old == rows[k]
           new == rows'[k]
<1>1. old \in Row /\ new \in Row /\ new.severity = old.severity
  BY PersonWritesRow, PersonKeepsSeverity DEF TypeOK
<1>2. /\ Level' = Level
      /\ Phase' = [Phase EXCEPT ![k] = phaseOf(new)]
      /\ Approvers' = [Approvers EXCEPT ![k] = approversOf(new)]
      /\ Phase[k] = phaseOf(old)
      /\ Level[k] = old.severity
      /\ Approvers[k] = {old.requestedBy, old.confirmedBy} \cap Publishers
      /\ approversOf(new) = {new.requestedBy, new.confirmedBy} \cap Publishers
  <2>1. levelOf(new) = levelOf(old) /\ levelOf(old) = old.severity
    BY <1>1, MappedRow
  <2>2. Level' = Level
    BY <2>1, OneRowChanges DEF Level
  <2>3. /\ approversOf(old) = {old.requestedBy, old.confirmedBy} \cap Publishers
        /\ approversOf(new) = {new.requestedBy, new.confirmedBy} \cap Publishers
    BY <1>1, MappedRow
  <2>. HIDE DEF old, new
  <2>4. /\ Phase' = [Phase EXCEPT ![k] = phaseOf(new)]
        /\ Approvers' = [Approvers EXCEPT ![k] = approversOf(new)]
        /\ Phase[k] = phaseOf(old)
        /\ Level[k] = levelOf(old)
        /\ Approvers[k] = approversOf(old)
    BY OneRowChanges DEF old, new
  <2>. QED BY <2>1, <2>2, <2>3, <2>4
<1>3. /\ old.status = "draft" => old.requestedBy = Null /\ old.confirmedBy = Null
      /\ old.status = "publish_requested" =>
             /\ old.severity = "critical"
             /\ old.requestedBy \in Publishers
             /\ old.confirmedBy = Null
  BY DEF ApprovalInv, NothingIsLaundered, Exists
<1>. HIDE DEF old, new
<1>4. CASE action = "draft_discarded"
  <2>1. old.status = "draft" /\ new = [old EXCEPT !.status = "discarded"]
    BY <1>4 DEF PersonWrites, old, new
  <2>2. phaseOf(old) = "open" /\ phaseOf(new) = "binned"
    BY <1>1, <2>1, MappedRow DEF Row
  <2>3. Approvers[k] = {} /\ approversOf(new) = {}
    BY <1>1, <1>2, <1>3, <2>1, ConstantsAssumption DEF Row
  <2>4. Approvers' = Approvers
    BY <1>2, <2>3 DEF Approvers
  <2>5. Abstract!Bin(k)
    BY <1>2, <2>2, <2>3, <2>4 DEF Abstract!Bin, Phase, Level, Approvers
  <2>. QED BY <2>5 DEF Abstract!Next
<1>5. CASE action = "publish_confirmed"
  <2>1. PICK now \in Nat : new = Published(old, p, FALSE, now)
    BY <1>5 DEF PersonWrites, old, new
  <2>2. /\ new.status = "published" /\ new.confirmedBy = p
        /\ new.requestedBy = old.requestedBy
    BY <1>1, <2>1 DEF Published, Row
  <2>3. /\ old.status \in {"draft", "publish_requested"}
        /\ old.severity = "critical" => old.status = "publish_requested" /\ old.requestedBy # p
    BY <1>5 DEF PersonWrites, MayConfirm, old, new
  <2>4. phaseOf(old) = "open" /\ phaseOf(new) = "sent"
    BY <1>1, <2>2, <2>3, MappedRow
  <2>5. approversOf(new) = Approvers[k] \cup {p}
    BY <1>2, <1>3, <2>2, <2>3, ConstantsAssumption
  <2>6. old.severity = "critical" => Abstract!TwoPeople(Approvers[k] \cup {p})
    BY <1>2, <1>3, <2>3 DEF Abstract!TwoPeople
  <2>7. Approvers'[k] = Approvers[k] \cup {p}
    BY <1>2, <2>5 DEF Approvers
  <2>8. Abstract!SendAs(k, p)
    BY <1>2, <2>4, <2>5, <2>6, <2>7 DEF Abstract!SendAs, Phase, Level, Approvers
  <2>. QED BY <2>8 DEF Abstract!Next
<1>6. CASE \/ action = "publish_requested"
          \/ (action = "publish_scheduled" /\ old.severity = "critical")
  <2>1. /\ old.status = "draft" /\ new.status = "publish_requested"
        /\ new.requestedBy = p /\ new.confirmedBy = old.confirmedBy
    BY <1>1, <1>6 DEF PersonWrites, Row, old, new
  <2>2. phaseOf(old) = "open" /\ phaseOf(new) = "open"
    BY <1>1, <2>1, MappedRow
  <2>3. approversOf(new) = Approvers[k] \cup {p}
    BY <1>2, <1>3, <2>1, ConstantsAssumption
  <2>4. Phase' = Phase
    BY <1>2, <2>2 DEF Phase
  <2>5. Abstract!Approve(k, p)
    BY <1>2, <2>2, <2>3, <2>4 DEF Abstract!Approve, Phase, Level, Approvers
  <2>. QED BY <2>5 DEF Abstract!Next
<1>7. CASE (action = "publish_scheduled" /\ old.severity # "critical")
  <2>1. /\ old.status = "draft" /\ new.status = "scheduled"
        /\ new.requestedBy = Null /\ new.confirmedBy = old.confirmedBy
    BY <1>1, <1>7 DEF PersonWrites, Row, old, new
  <2>2. phaseOf(new) = phaseOf(old)
    BY <1>1, <2>1, MappedRow
  <2>3. approversOf(new) = Approvers[k]
    BY <1>2, <1>3, <2>1
  <2>4. Phase' = Phase /\ Approvers' = Approvers
    BY <1>2, <2>2, <2>3 DEF Phase, Approvers
  <2>. QED BY <1>2, <2>4 DEF Abstract!vars, Phase, Level, Approvers
<1>8. CASE action = "schedule_confirmed"
  <2>1. /\ old.status = "publish_requested" /\ new.status = "scheduled"
        /\ new.requestedBy = old.requestedBy /\ new.confirmedBy = p
    BY <1>1, <1>8 DEF PersonWrites, Row, old, new
  <2>2. phaseOf(old) = "open" /\ phaseOf(new) = "open"
    BY <1>1, <2>1, MappedRow
  <2>3. approversOf(new) = Approvers[k] \cup {p}
    BY <1>2, <1>3, <2>1, ConstantsAssumption
  <2>4. Phase' = Phase
    BY <1>2, <2>2 DEF Phase
  <2>5. Abstract!Approve(k, p)
    BY <1>2, <2>2, <2>3, <2>4 DEF Abstract!Approve, Phase, Level, Approvers
  <2>. QED BY <2>5 DEF Abstract!Next
<1>9. CASE action \in {"schedule_cancelled", "publish_withdrawn", "publish_rejected"}
  <2>1. /\ old.status \in {"scheduled", "publish_requested"} /\ new.status = "draft"
        /\ new.requestedBy = Null
    BY <1>1, <1>9 DEF PersonWrites, Row, old, new
  <2>2. new.confirmedBy = Null
    BY <1>1, <1>3, <1>9 DEF PersonWrites, Row, old, new
  <2>3. phaseOf(old) = "open" /\ phaseOf(new) = "open"
    BY <1>1, <2>1, MappedRow
  <2>4. approversOf(new) = {}
    BY <1>2, <2>1, <2>2, ConstantsAssumption
  <2>5. Phase' = Phase
    BY <1>2, <2>3 DEF Phase
  <2>6. Abstract!Revoke(k)
    BY <1>2, <2>3, <2>4, <2>5 DEF Abstract!Revoke, Phase, Level, Approvers
  <2>. QED BY <2>6 DEF Abstract!Next
<1>10. action \in {"draft_discarded", "publish_confirmed", "publish_requested",
                   "publish_scheduled", "schedule_confirmed", "schedule_cancelled",
                   "publish_withdrawn", "publish_rejected"}
  BY DEF PersonWrites
<1>. QED BY <1>4, <1>5, <1>6, <1>7, <1>8, <1>9, <1>10

\* Inserting a draft opens a revision.
LEMMA InsertImplements ==
    ASSUME NEW k \in Keys, rows[k] = Null, NEW sev \in Severities,
           rows' = [rows EXCEPT ![k] = NewDraft(sev)], rows \in [Keys -> Row \cup {Null}]
    PROVE  [Abstract!Next]_(Abstract!vars)
<1>1. rows'[k] = NewDraft(sev) /\ \A q \in Keys : q # k => rows'[q] = rows[q]
  OBVIOUS
<1>2. NewDraft(sev) \in Row
  BY DEF NewDraft, Row, Statuses
<1>3. /\ Phase' = [Phase EXCEPT ![k] = "open"]
      /\ Level' = [Level EXCEPT ![k] = sev]
      /\ Approvers' = [Approvers EXCEPT ![k] = {}]
      /\ Phase[k] = "absent"
      /\ Approvers[k] = {}
  <2>1. /\ phaseOf(rows'[k]) = "open"
        /\ levelOf(rows'[k]) = sev
        /\ approversOf(rows'[k]) = {}
    BY <1>1, <1>2, MappedRow, ConstantsAssumption DEF NewDraft
  <2>2. phaseOf(rows[k]) = "absent" /\ approversOf(rows[k]) = {}
    BY DEF phaseOf, approversOf
  <2>. QED BY <1>1, <2>1, <2>2, OneRowChanges
<1>4. Approvers' = Approvers
  BY <1>3 DEF Approvers
<1>5. Abstract!Open(k, sev)
  BY <1>3, <1>4 DEF Abstract!Open, Phase, Level, Approvers
<1>. QED BY <1>5 DEF Abstract!Next, Abstract!Levels, Severities

\* The operations of a publisher implement steps of Publication.
LEMMA ExecuteImplements ==
    ASSUME TypeOK, ApprovalInv, NEW s \in Sessions, Execute(s)
    PROVE  [Abstract!Next]_(Abstract!vars)
<1>. DEFINE k == request[s].key
<1>1. CASE ReviseDraft(s)
  <2>. DEFINE next == <<request[s].key[1], request[s].key[2] + 1>>
  <2>1. request[s].severity \in Severities
    BY <1>1, ExecutingTypes DEF ReviseDraft, Operations
  <2>2. /\ next \in Keys /\ rows[next] = Null
        /\ rows' = [rows EXCEPT ![next] = NewDraft(request[s].severity)]
    BY <1>1 DEF ReviseDraft, Exists
  <2>. HIDE DEF next
  <2>. QED BY <2>1, <2>2, InsertImplements DEF TypeOK
<1>2. CASE ~ ReviseDraft(s)
  <2>1. \E row, action : Commit(s, row, action)
    BY <1>2 DEF Execute, DiscardDraft, RequestPublish, ConfirmPublish, PublishNow,
         SchedulePublish, ConfirmSchedule, CancelSchedule, WithdrawPublish, RejectPublish
  <2>2. k \in Keys /\ rows[k] # Null /\ k[1] \in Ids
    BY <1>2 DEF Execute, Executing, DiscardDraft, RequestPublish, ConfirmPublish,
         SchedulePublish, ConfirmSchedule, CancelSchedule, WithdrawPublish, RejectPublish,
         TypeOK, Request, Exists, Keys
  <2>3. \A q \in Keys : q # k => rows'[q] = rows[q]
    BY <2>1, <2>2 DEF Commit, TypeOK
  <2>4. KeyStep(k)
    BY <2>2, ExecuteIsKeyStep
  <2>. HIDE DEF k
  <2>5. CASE Untouched(k)
    <3>1. rows' = rows
      BY <2>1, <2>2, <2>5 DEF Untouched, Commit, TypeOK, k
    <3>. QED BY <3>1 DEF Abstract!vars
  <2>6. CASE WrittenByPerson(k)
    BY <2>2, <2>3, <2>6, PersonImplements DEF WrittenByPerson
  <2>7. ~ SentByWorker(k)
    <3>1. \E action \in AuditActions : audit'[k] = Append(audit[k], [action |-> action, actor |-> request[s].actor])
      BY <1>2, <2>2 DEF Execute, DiscardDraft, RequestPublish, ConfirmPublish, PublishNow,
         SchedulePublish, ConfirmSchedule, CancelSchedule, WithdrawPublish, RejectPublish,
         Commit, Log, TypeOK, AuditActions, k
    <3>2. PICK action \in AuditActions : audit'[k] = Append(audit[k], [action |-> action, actor |-> request[s].actor])
      BY <3>1
    <3>3. audit[k] \in Seq(AuditEntry) /\ request[s].actor \in Publishers
      BY <1>2, <2>2 DEF Execute, Executing, DiscardDraft, RequestPublish, ConfirmPublish,
         SchedulePublish, ConfirmSchedule, CancelSchedule, WithdrawPublish, RejectPublish,
         TypeOK, Request
    <3>4. Len(audit'[k]) = Len(audit[k]) + 1 /\ Len(audit[k]) \in Nat
      BY <3>2, <3>3
    <3>5. Len(audit[k] \o <<[action |-> "publish_confirmed", actor |-> Scheduler],
                            [action |-> "scheduled_publish_sent", actor |-> Scheduler]>>)
            = Len(audit[k]) + 2
      BY <3>3, AppendedTwo DEF AuditEntry, AuditActions
    <3>6. SentByWorker(k) =>
              audit'[k] = audit[k] \o <<[action |-> "publish_confirmed", actor |-> Scheduler],
                                        [action |-> "scheduled_publish_sent", actor |-> Scheduler]>>
      BY Zenon DEF SentByWorker
    <3>. HIDE DEF SentByWorker
    <3>. QED BY <3>4, <3>5, <3>6
  <2>. QED BY <2>2, <2>4, <2>5, <2>6, <2>7 DEF KeyStep, Inserted
<1>. QED BY <1>1, <1>2

\* A tick's batch is one SendApproved.
LEMMA SendingImplements ==
    ASSUME TypeOK, ApprovalInv, NEW t \in Ticks, PublishDueScheduled(t)
    PROVE  [Abstract!Next]_(Abstract!vars)
<1>1. PICK claimed \in SUBSET Claimable(t) :
          rows' = [q \in Keys |->
                     IF q \in {d.key : d \in claimed}
                     THEN Published(rows[q], Scheduler, TRUE, tick[t].now)
                     ELSE rows[q]]
  BY DEF PublishDueScheduled
<1>. DEFINE sent == {d.key : d \in claimed}
<1>2. \A q \in sent : q \in Keys /\ rows[q] \in Row /\ rows[q].status = "scheduled"
  BY DEF Claimable, PublishDueScheduled, TypeOK, Claim, Due, Scheduled, Exists
<1>3. tick[t].now \in Nat
  BY DEF PublishDueScheduled, TypeOK, Claim
<1>. HIDE DEF sent
<1>4. ASSUME NEW q \in Keys
      PROVE  /\ phaseOf(rows'[q]) = IF q \in sent THEN "sent" ELSE phaseOf(rows[q])
             /\ levelOf(rows'[q]) = levelOf(rows[q])
             /\ approversOf(rows'[q]) = approversOf(rows[q])
             /\ q \in sent => phaseOf(rows[q]) = "open"
             /\ q \in sent /\ levelOf(rows[q]) = "critical" =>
                    Abstract!TwoPeople(approversOf(rows[q]))
  <2>1. CASE q \notin sent
    BY <1>1, <2>1 DEF sent
  <2>2. CASE q \in sent
    <3>. DEFINE old == rows[q]
               new == Published(rows[q], Scheduler, TRUE, tick[t].now)
    <3>1. rows'[q] = new /\ old \in Row /\ old.status = "scheduled"
      BY <1>1, <1>2, <2>2 DEF sent
    <3>2. new \in Row
      BY <1>3, <3>1, PublishedIsRow
    <3>3. /\ new.status = "published" /\ new.severity = old.severity
          /\ new.requestedBy = old.requestedBy
          /\ new.confirmedBy = IF old.confirmedBy # Null THEN old.confirmedBy ELSE Scheduler
      BY <3>1 DEF Published, Row
    <3>4. old.severity = "critical" =>
              /\ old.requestedBy \in Publishers /\ old.confirmedBy \in Publishers
              /\ old.requestedBy # old.confirmedBy
      BY <3>1, ConstantsAssumption DEF ApprovalInv, FourEyes, Exists
    <3>. HIDE DEF old, new
    <3>5. {new.requestedBy, new.confirmedBy} \cap Publishers
              = {old.requestedBy, old.confirmedBy} \cap Publishers
      BY <3>3, ConstantsAssumption
    <3>6. old.severity = "critical" =>
              Abstract!TwoPeople({old.requestedBy, old.confirmedBy} \cap Publishers)
      BY <3>4 DEF Abstract!TwoPeople
    <3>7. /\ phaseOf(old) = "open" /\ phaseOf(new) = "sent"
          /\ levelOf(old) = old.severity /\ levelOf(new) = new.severity
          /\ approversOf(old) = {old.requestedBy, old.confirmedBy} \cap Publishers
          /\ approversOf(new) = {new.requestedBy, new.confirmedBy} \cap Publishers
      BY <3>1, <3>2, <3>3, MappedRow
    <3>. QED BY <2>2, <3>1, <3>3, <3>5, <3>6, <3>7 DEF old
  <2>. QED BY <2>1, <2>2
<1>5. Abstract!SendApproved(sent)
  BY <1>2, <1>4 DEF Abstract!SendApproved
<1>6. sent \in SUBSET Keys
  BY <1>2
<1>. QED BY <1>5, <1>6 DEF Abstract!Next

\* The transactions of announcements.ts implement Publication: whatever the
\* interleaving, and with stale snapshots, a critical revision is sent with two
\* standing approvals or not at all, once, and its decision is final.
THEOREM Implements == Spec => ImplementsPublication
<1>1. Init => Abstract!Init
  BY DEF Init, Abstract!Init, phaseOf, levelOf, approversOf
<1>2. ASSUME TypeOK, ApprovalInv, [Next]_vars
      PROVE  [Abstract!Next]_(Abstract!vars)
  <2>1. ASSUME NEW p \in Publishers, NEW i \in Ids, NEW sev \in Severities,
               CreateDraft(p, i, sev)
        PROVE  [Abstract!Next]_(Abstract!vars)
    <3>1. <<i, 1>> \in Keys /\ rows[<<i, 1>>] = Null
          /\ rows' = [rows EXCEPT ![<<i, 1>>] = NewDraft(sev)]
      BY <2>1, ConstantsAssumption DEF CreateDraft, Keys, Exists
    <3>. QED BY <1>2, <3>1, InsertImplements DEF TypeOK
  <2>2. ASSUME rows' = rows
        PROVE  [Abstract!Next]_(Abstract!vars)
    BY <2>2 DEF Abstract!vars
  <2>3. ASSUME NEW s \in Sessions, Execute(s)
        PROVE  [Abstract!Next]_(Abstract!vars)
    BY <1>2, <2>3, ExecuteImplements
  <2>4. ASSUME NEW t \in Ticks, PublishDueScheduled(t)
        PROVE  [Abstract!Next]_(Abstract!vars)
    BY <1>2, <2>4, SendingImplements
  <2>5. \/ rows' = rows
        \/ \E p \in Publishers, i \in Ids, sev \in Severities : CreateDraft(p, i, sev)
        \/ \E s \in Sessions : Execute(s)
        \/ \E t \in Ticks : PublishDueScheduled(t)
    BY <1>2 DEF Next, vars, Begin, Rollback, BeginTick, RollbackTick, AdvanceClock
  <2>. QED BY <2>1, <2>2, <2>3, <2>4, <2>5
<1>3. Spec => []ApprovalInv
  BY ApprovalsAreInOrder, PTL DEF ApprovalInv
<1>4. TypeOK /\ ApprovalInv /\ [Next]_vars => [Abstract!Next]_(Abstract!vars)
  BY <1>2
<1>. QED BY <1>1, <1>3, <1>4, TypeCorrect, PTL DEF Spec, ImplementsPublication, Abstract!Spec

----------------------------------------------------------------------------
(* What the admin pages work with *)

\* The variable of AnnouncementStore, as AnnouncementsRefinement maps it.
Shown == [i \in Ids |-> IF Latest(i) = {} THEN Null
                        ELSE standingOf(rows[CHOOSE k \in Latest(i) : TRUE])]

\* There are no gaps between the revisions of an announcement, and one of them
\* is the latest.
RevisionsInv ==
    /\ \A k \in Keys : Exists(k) => \A r \in 1 .. k[2] : Exists(<<k[1], r>>)
    /\ \A k \in Keys : Exists(k) => Latest(k[1]) # {}

\* A draft is inserted: the first revision of an announcement, or the one after
\* a draft.
Grows(k, sev) ==
    /\ ~ Exists(k)
    /\ rows' = [rows EXCEPT ![k] = NewDraft(sev)]
    /\ \/ k[2] = 1 /\ \A q \in Keys : q[1] = k[1] => ~ Exists(q)
       \/ \E q \in Keys : q[1] = k[1] /\ q[2] + 1 = k[2] /\ Exists(q) /\ rows[q].status = "draft"

\* A publisher writes one row.
Writes(k, p) ==
    /\ Exists(k)
    /\ \E action \in AuditActions : PersonWrites(rows[k], rows'[k], action, p)
    /\ \A q \in Keys : q # k => rows'[q] = rows[q]

\* The worker sends any number of rows.
Sends ==
    \A k \in Keys :
        \/ rows'[k] = rows[k]
        \/ Scheduled(k) /\ \E now \in Nat : rows'[k] = Published(rows[k], Scheduler, TRUE, now)

KeyIsPair == \A k \in Keys : k[1] \in Ids /\ k[2] \in 1 .. MaxRevision /\ k = <<k[1], k[2]>>

LEMMA Pairs ==
    /\ KeyIsPair
    /\ \A i \in Ids, r \in 1 .. MaxRevision : <<i, r>> \in Keys
    /\ \A k \in Keys : \A r \in 1 .. k[2] : <<k[1], r>> \in Keys
<1>1. KeyIsPair /\ \A i \in Ids, r \in 1 .. MaxRevision : <<i, r>> \in Keys
  BY DEF KeyIsPair, Keys
<1>2. ASSUME NEW k \in Keys, NEW r \in 1 .. k[2] PROVE r \in 1 .. MaxRevision
  BY <1>1, ConstantsAssumption DEF KeyIsPair
<1>. QED BY <1>1, <1>2 DEF KeyIsPair

\* Every step does one of these to the table.
LEMMA StepOfTable ==
    ASSUME TypeOK, [Next]_vars
    PROVE  \/ \E k \in Keys, sev \in Severities : Grows(k, sev)
           \/ \E k \in Keys, p \in Publishers : Writes(k, p)
           \/ Sends
<1>1. ASSUME NEW p \in Publishers, NEW i \in Ids, NEW sev \in Severities,
             CreateDraft(p, i, sev)
      PROVE  Grows(<<i, 1>>, sev) /\ <<i, 1>> \in Keys
  <2>1. <<i, 1>> \in Keys
    BY ConstantsAssumption DEF Keys
  <2>2. \A q \in Keys : q[1] = i => ~ Exists(q)
    BY <1>1, Pairs DEF CreateDraft, KeyIsPair
  <2>. QED BY <1>1, <2>1, <2>2 DEF CreateDraft, Grows
<1>2. ASSUME NEW s \in Sessions, ReviseDraft(s)
      PROVE  \E k \in Keys, sev \in Severities : Grows(k, sev)
  <2>. DEFINE next == <<request[s].key[1], request[s].key[2] + 1>>
  <2>1. /\ request[s].key \in Keys /\ request[s].severity \in Severities
        /\ Exists(request[s].key)
        /\ rows[request[s].key].status = "draft"
    BY <1>2, ExecutingTypes DEF ReviseDraft, Executing, Locked, Operations
  <2>2. next \in Keys /\ Grows(next, request[s].severity)
    BY <1>2, <2>1 DEF ReviseDraft, Grows
  <2>. QED BY <2>1, <2>2
<1>3. ASSUME NEW s \in Sessions, Execute(s), ~ ReviseDraft(s)
      PROVE  (\E k \in Keys, p \in Publishers : Writes(k, p)) \/ Sends
  <2>. DEFINE k == request[s].key
  <2>1. /\ Exists(k) /\ k \in Keys
        /\ \A q \in Keys : q # k => rows'[q] = rows[q]
    BY <1>3, ExecuteWritesItsRow DEF TypeOK, Request
  <2>2. KeyStep(k)
    BY <1>3, <2>1, ExecuteIsKeyStep
  <2>. HIDE DEF k
  <2>3. CASE Untouched(k)
    BY <2>1, <2>3 DEF Untouched, Sends
  <2>4. CASE WrittenByPerson(k)
    BY <2>1, <2>4 DEF WrittenByPerson, Writes
  <2>5. CASE SentByWorker(k)
    BY <2>1, <2>5 DEF SentByWorker, Sends, Scheduled
  <2>. QED BY <2>1, <2>2, <2>3, <2>4, <2>5 DEF KeyStep, Inserted, Exists
<1>4. ASSUME NEW t \in Ticks, PublishDueScheduled(t)
      PROVE  Sends
  <2>1. tick[t].now \in Nat
    BY <1>4 DEF PublishDueScheduled, TypeOK, Claim
  <2>2. PICK claimed \in SUBSET Claimable(t) :
            rows' = [q \in Keys |-> IF q \in {d.key : d \in claimed}
                                    THEN Published(rows[q], Scheduler, TRUE, tick[t].now)
                                    ELSE rows[q]]
    BY <1>4 DEF PublishDueScheduled
  <2>3. \A q \in {d.key : d \in claimed} : Scheduled(q)
    BY DEF Claimable, Due
  <2>. QED BY <2>1, <2>2, <2>3 DEF Sends
<1>5. rows' = rows => Sends
  BY DEF Sends
<1>6. \/ rows' = rows
      \/ \E p \in Publishers, i \in Ids, sev \in Severities : CreateDraft(p, i, sev)
      \/ \E s \in Sessions : Execute(s)
      \/ \E t \in Ticks : PublishDueScheduled(t)
  BY DEF Next, vars, Begin, Rollback, BeginTick, RollbackTick, AdvanceClock
<1>. QED BY <1>1, <1>2, <1>3, <1>4, <1>5, <1>6

\* A step that inserts nothing leaves every announcement its latest revision.
LEMMA SameKeys ==
    ASSUME TypeOK, [Next]_vars, (\E k \in Keys, p \in Publishers : Writes(k, p)) \/ Sends
    PROVE  /\ \A k \in Keys : Exists(k)' <=> Exists(k)
           /\ \A k \in Keys : IsLatest(k)' <=> IsLatest(k)
           /\ \A i \in Ids : Latest(i)' = Latest(i)
<1>1. \A k \in Keys : Exists(k)' <=> Exists(k)
  BY RowsStay DEF Writes, Sends, Scheduled, Exists
<1>2. \A k \in Keys : IsLatest(k)' <=> IsLatest(k)
  BY <1>1, Pairs DEF IsLatest, KeyIsPair
<1>. QED BY <1>1, <1>2 DEF Latest

\* An inserted revision is the latest of its announcement.
LEMMA NewKey ==
    ASSUME TypeOK, RevisionsInv, NEW k \in Keys, NEW sev \in Severities, Grows(k, sev)
    PROVE  /\ rows'[k] = NewDraft(sev)
           /\ \A q \in Keys : q # k => rows'[q] = rows[q]
           /\ \A q \in Keys : Exists(q)' <=> Exists(q) \/ q = k
           /\ \A q \in Keys : q[1] = k[1] /\ Exists(q) => q[2] < k[2]
           /\ \A r \in 1 .. k[2] : Exists(<<k[1], r>>)'
           /\ IsLatest(k)'
           /\ \A q \in Keys : q[1] # k[1] => (IsLatest(q)' <=> IsLatest(q))
<1>1. rows'[k] = NewDraft(sev) /\ \A q \in Keys : q # k => rows'[q] = rows[q]
  BY DEF Grows, TypeOK
<1>2. NewDraft(sev) # Null
  BY ConstantsAssumption DEF NewDraft, Row, Statuses
<1>3. \A q \in Keys : Exists(q)' <=> Exists(q) \/ q = k
  BY <1>1, <1>2 DEF Exists
<1>4. ASSUME NEW q \in Keys, q[1] = k[1], Exists(q)
      PROVE  q[2] < k[2]
  <2>. SUFFICES ASSUME k[2] <= q[2] PROVE FALSE
    BY Pairs DEF KeyIsPair
  <2>1. k[2] \in 1 .. q[2] /\ k = <<q[1], k[2]>>
    BY <1>4, Pairs DEF KeyIsPair
  <2>2. Exists(k)
    BY <1>4, <2>1 DEF RevisionsInv
  <2>. QED BY <2>2 DEF Grows
<1>5. ASSUME NEW r \in 1 .. k[2]
      PROVE  Exists(<<k[1], r>>)'
  <2>1. <<k[1], r>> \in Keys
    BY Pairs DEF KeyIsPair
  <2>2. CASE r = k[2]
    BY <1>3, <2>2, Pairs DEF KeyIsPair
  <2>3. CASE r # k[2]
    <3>1. PICK q \in Keys : q[1] = k[1] /\ q[2] + 1 = k[2] /\ Exists(q)
      BY <2>3, Pairs DEF Grows, KeyIsPair
    <3>2. r \in 1 .. q[2]
      BY <2>3, <3>1, Pairs DEF KeyIsPair
    <3>. QED BY <1>3, <2>1, <3>1, <3>2 DEF RevisionsInv
  <2>. QED BY <2>2, <2>3
<1>6. IsLatest(k)'
  BY <1>3, <1>4, Pairs DEF IsLatest, KeyIsPair
<1>7. ASSUME NEW q \in Keys, q[1] # k[1]
      PROVE  IsLatest(q)' <=> IsLatest(q)
  <2>1. \A r \in 1 .. MaxRevision : <<q[1], r>> \in Keys /\ <<q[1], r>> # k
    BY <1>7, Pairs DEF KeyIsPair
  <2>. QED BY <1>3, <1>7, <2>1 DEF IsLatest
<1>. QED BY <1>1, <1>3, <1>4, <1>5, <1>6, <1>7

LEMMA StepRevisions ==
    ASSUME TypeOK, RevisionsInv, [Next]_vars
    PROVE  RevisionsInv'
<1>1. ASSUME NEW k \in Keys, NEW sev \in Severities, Grows(k, sev)
      PROVE  RevisionsInv'
  <2>1. ASSUME NEW q \in Keys, Exists(q)', NEW r \in 1 .. q[2]
        PROVE  Exists(<<q[1], r>>)'
    <3>1. <<q[1], r>> \in Keys
      BY Pairs DEF KeyIsPair
    <3>. QED BY <1>1, <2>1, <3>1, NewKey DEF RevisionsInv
  <2>2. ASSUME NEW q \in Keys, Exists(q)'
        PROVE  Latest(q[1])' # {}
    <3>1. CASE q[1] = k[1]
      BY <1>1, <3>1, NewKey DEF Latest
    <3>2. CASE q[1] # k[1]
      BY <1>1, <2>2, <3>2, NewKey DEF RevisionsInv, Latest
    <3>. QED BY <3>1, <3>2
  <2>. QED BY <2>1, <2>2 DEF RevisionsInv
<1>2. ASSUME (\E k \in Keys, p \in Publishers : Writes(k, p)) \/ Sends
      PROVE  RevisionsInv'
  <2>1. \A k \in Keys : Exists(k)' => \A r \in 1 .. k[2] : Exists(<<k[1], r>>)'
    BY <1>2, SameKeys, Pairs DEF RevisionsInv
  <2>2. \A k \in Keys : Exists(k)' => Latest(k[1])' # {}
    BY <1>2, SameKeys, Pairs DEF RevisionsInv, KeyIsPair
  <2>. QED BY <2>1, <2>2 DEF RevisionsInv
<1>. QED BY <1>1, <1>2, StepOfTable

\* What is shown of an announcement that has revisions, and of one that has none.
LEMMA ShownRow ==
    ASSUME NEW k \in Keys
    PROVE  /\ IsLatest(k) => Shown[k[1]] = standingOf(rows[k])
           /\ IsLatest(k)' => Shown'[k[1]] = standingOf(rows'[k])
<1>1. k[1] \in Ids
  BY Pairs DEF KeyIsPair
<1>2. ASSUME IsLatest(k)
      PROVE  Shown[k[1]] = standingOf(rows[k])
  <2>1. ASSUME NEW q \in Latest(k[1]) PROVE q = k
    BY <1>2, Pairs DEF Latest, IsLatest, KeyIsPair
  <2>2. k \in Latest(k[1])
    BY <1>2 DEF Latest
  <2>. QED BY <1>1, <2>1, <2>2 DEF Shown
<1>3. ASSUME IsLatest(k)'
      PROVE  Shown'[k[1]] = standingOf(rows'[k])
  <2>1. ASSUME NEW q \in Latest(k[1])' PROVE q = k
    BY <1>3, Pairs DEF Latest, IsLatest, KeyIsPair
  <2>2. k \in Latest(k[1])'
    BY <1>3 DEF Latest
  <2>. QED BY <1>1, <2>1, <2>2 DEF Shown
<1>. QED BY <1>2, <1>3

LEMMA ShownNothing ==
    ASSUME NEW i \in Ids
    PROVE  /\ Latest(i) = {} => Shown[i] = Null
           /\ Latest(i)' = {} => Shown'[i] = Null
BY DEF Shown

LEMMA StandingIsShown ==
    ASSUME NEW row \in Row
    PROVE  standingOf(row) \in Store!Standing /\ standingOf(row) # Null
<1>1. standingOf(row) \in Store!Standing
  BY DEF standingOf, Row, Store!Standing, Store!Statuses, Store!Severities, Statuses, Severities
<1>. QED BY <1>1, NullIsNoStanding

\* An inserted draft is a save.
LEMMA GrowsImplements ==
    ASSUME TypeOK, RevisionsInv, NEW k \in Keys, NEW sev \in Severities, Grows(k, sev)
    PROVE  [Store!Next]_Shown
<1>. DEFINE i == k[1]
<1>1. i \in Ids /\ DOMAIN Shown = Ids /\ Shown' = [j \in Ids |-> Shown'[j]]
  BY Pairs DEF KeyIsPair, Shown
<1>2. Shown'[i] = Store!Drafted(sev)
  <2>1. Shown'[i] = standingOf(NewDraft(sev))
    BY NewKey, ShownRow
  <2>. QED BY <2>1, ConstantsAssumption DEF standingOf, NewDraft, Store!Drafted
<1>3. ASSUME NEW j \in Ids, j # i
      PROVE  Shown'[j] = Shown[j]
  <2>1. Latest(j)' = Latest(j)
    BY <1>3, NewKey DEF Latest
  <2>2. CASE Latest(j) = {}
    BY <2>1, <2>2, ShownNothing
  <2>3. ASSUME NEW q \in Latest(j)
        PROVE  Shown'[j] = Shown[j]
    <3>1. q \in Keys /\ q[1] = j /\ IsLatest(q) /\ IsLatest(q)'
      BY <2>1, <2>3 DEF Latest
    <3>2. rows'[q] = rows[q]
      BY <1>3, <3>1, NewKey
    <3>. QED BY <3>1, <3>2, ShownRow
  <2>. QED BY <2>2, <2>3
<1>4. Shown[i] # Null => Shown[i].status = "draft"
  <2>. SUFFICES ASSUME Shown[i] # Null PROVE Shown[i].status = "draft"
    OBVIOUS
  <2>1. PICK q \in Latest(i) : TRUE
    BY <1>1, ShownNothing
  <2>2. q \in Keys /\ q[1] = k[1] /\ Exists(q)
    BY <2>1 DEF Latest, IsLatest
  <2>3. PICK r \in Keys : r[1] = k[1] /\ r[2] + 1 = k[2] /\ Exists(r) /\ rows[r].status = "draft"
    BY <2>2 DEF Grows
  <2>4. IsLatest(r)
    <3>1. ASSUME NEW n \in 1 .. MaxRevision, Exists(<<r[1], n>>)
          PROVE  n <= r[2]
      <4>1. <<r[1], n>> \in Keys /\ n < k[2]
        BY <2>3, <3>1, NewKey, Pairs DEF KeyIsPair
      <4>. QED BY <2>3, <4>1, Pairs DEF KeyIsPair
    <3>. QED BY <2>3, <3>1 DEF IsLatest
  <2>5. Shown[i] = standingOf(rows[r])
    BY <2>3, <2>4, ShownRow
  <2>. QED BY <2>3, <2>5 DEF standingOf
<1>5. Store!Save(i, sev)
  <2>1. Shown' = [Shown EXCEPT ![i] = Store!Drafted(sev)]
    BY <1>1, <1>2, <1>3
  <2>. QED BY <1>4, <2>1 DEF Store!Save, Shown
<1>6. sev \in Store!Severities
  BY DEF Severities, Store!Severities
<1>. QED BY <1>1, <1>5, <1>6 DEF Store!Next

\* What a publisher writes is what the pages take the operation to write.
LEMMA WriteIsAct ==
    ASSUME NEW old \in Row, NEW new, NEW p \in Publishers, NEW action,
           PersonWrites(old, new, action, p)
    PROVE  \E op \in Store!Ops :
              /\ Store!Accepts(op, standingOf(old), p)
              /\ standingOf(new) = Store!After(op, standingOf(old), p)
<1>. USE DEF standingOf, Store!Accepts, Store!After
<1>1. CASE action = "draft_discarded"
  <2>. Store!Accepts("discard", standingOf(old), p)
       /\ standingOf(new) = Store!After("discard", standingOf(old), p)
    BY <1>1 DEF PersonWrites, Row
  <2>. QED BY DEF Store!Ops
<1>2. CASE action = "publish_confirmed" /\ old.status = "draft"
  <2>. Store!Accepts("request", standingOf(old), p)
       /\ standingOf(new) = Store!After("request", standingOf(old), p)
    BY <1>2 DEF PersonWrites, Published, Row
  <2>. QED BY DEF Store!Ops
<1>3. CASE action = "publish_confirmed" /\ old.status # "draft"
  <2>. Store!Accepts("confirm", standingOf(old), p)
       /\ standingOf(new) = Store!After("confirm", standingOf(old), p)
    BY <1>3 DEF PersonWrites, Published, MayConfirm, Row
  <2>. QED BY DEF Store!Ops
<1>4. CASE action = "publish_requested"
  <2>. Store!Accepts("request", standingOf(old), p)
       /\ standingOf(new) = Store!After("request", standingOf(old), p)
    BY <1>4 DEF PersonWrites, Row
  <2>. QED BY DEF Store!Ops
<1>5. CASE action = "publish_scheduled"
  <2>1. PICK when \in Nat : new = [old EXCEPT
                !.status = IF old.severity = "critical" THEN "publish_requested" ELSE "scheduled",
                !.scheduledFor = when,
                !.requestedBy = IF old.severity = "critical" THEN p ELSE Null]
    BY <1>5 DEF PersonWrites
  <2>2. when # Null
    BY ConstantsAssumption
  <2>3. old.status = "draft"
    BY <1>5 DEF PersonWrites
  <2>. Store!Accepts("schedule", standingOf(old), p)
       /\ standingOf(new) = Store!After("schedule", standingOf(old), p)
    BY <2>1, <2>2, <2>3 DEF Row
  <2>. QED BY DEF Store!Ops
<1>6. CASE action = "schedule_confirmed"
  <2>. Store!Accepts("confirmSchedule", standingOf(old), p)
       /\ standingOf(new) = Store!After("confirmSchedule", standingOf(old), p)
    BY <1>6 DEF PersonWrites, MayConfirm, Row
  <2>. QED BY DEF Store!Ops
<1>7. CASE action = "schedule_cancelled"
  <2>. Store!Accepts("cancel", standingOf(old), p)
       /\ standingOf(new) = Store!After("cancel", standingOf(old), p)
    BY <1>7 DEF PersonWrites, Row
  <2>. QED BY DEF Store!Ops
<1>8. CASE action = "publish_withdrawn"
  <2>. Store!Accepts("withdraw", standingOf(old), p)
       /\ standingOf(new) = Store!After("withdraw", standingOf(old), p)
    BY <1>8 DEF PersonWrites, Row
  <2>. QED BY DEF Store!Ops
<1>9. CASE action = "publish_rejected"
  <2>. Store!Accepts("reject", standingOf(old), p)
       /\ standingOf(new) = Store!After("reject", standingOf(old), p)
    BY <1>9 DEF PersonWrites, Row
  <2>. QED BY DEF Store!Ops
<1>. QED
  BY <1>1, <1>2, <1>3, <1>4, <1>5, <1>6, <1>7, <1>8, <1>9 DEF PersonWrites

\* A publisher's write to the latest revision is an act; to another it is not seen.
LEMMA WritesImplements ==
    ASSUME TypeOK, [Next]_vars, NEW k \in Keys, NEW p \in Publishers, Writes(k, p)
    PROVE  [Store!Next]_Shown
<1>. DEFINE i == k[1]
<1>1. /\ \A q \in Keys : IsLatest(q)' <=> IsLatest(q)
      /\ \A j \in Ids : Latest(j)' = Latest(j)
  BY SameKeys
<1>2. i \in Ids /\ DOMAIN Shown = Ids /\ Shown' = [j \in Ids |-> Shown'[j]] /\ Shown = [j \in Ids |-> Shown[j]]
  BY Pairs DEF KeyIsPair, Shown
<1>3. ASSUME NEW j \in Ids, j # i \/ ~ IsLatest(k)
      PROVE  Shown'[j] = Shown[j]
  <2>1. CASE Latest(j) = {}
    BY <1>1, <2>1, ShownNothing
  <2>2. ASSUME NEW q \in Latest(j)
        PROVE  Shown'[j] = Shown[j]
    <3>1. q \in Keys /\ q[1] = j /\ IsLatest(q) /\ IsLatest(q)'
      BY <1>1, <2>2 DEF Latest
    <3>2. rows'[q] = rows[q]
      BY <1>3, <3>1 DEF Writes
    <3>. QED BY <3>1, <3>2, ShownRow
  <2>. QED BY <2>1, <2>2
<1>4. CASE ~ IsLatest(k)
  <2>1. Shown' = Shown
    BY <1>2, <1>3, <1>4
  <2>. QED BY <2>1
<1>5. CASE IsLatest(k)
  <2>1. rows[k] \in Row
    BY DEF Writes, Exists, TypeOK
  <2>2. Shown[i] = standingOf(rows[k]) /\ Shown'[i] = standingOf(rows'[k])
    BY <1>1, <1>5, ShownRow
  <2>3. PICK op \in Store!Ops :
              /\ Store!Accepts(op, standingOf(rows[k]), p)
              /\ standingOf(rows'[k]) = Store!After(op, standingOf(rows[k]), p)
    BY <2>1, WriteIsAct DEF Writes
  <2>4. Shown' = [Shown EXCEPT ![i] = Store!After(op, Shown[i], p)]
    BY <1>2, <1>3, <2>2, <2>3
  <2>5. Shown[i] # Null /\ Store!Accepts(op, Shown[i], p)
    BY <2>1, <2>2, <2>3, StandingIsShown
  <2>6. Store!Act(i, op, p)
    BY <2>4, <2>5 DEF Store!Act, Shown
  <2>. QED BY <1>2, <2>6 DEF Store!Next
<1>. QED BY <1>4, <1>5

\* What the worker sends.
LEMMA SendsImplements ==
    ASSUME TypeOK, [Next]_vars, Sends
    PROVE  [Store!Next]_Shown
<1>. DEFINE I == {i \in Ids : \E q \in Latest(i) : rows'[q] # rows[q]}
<1>1. /\ \A q \in Keys : IsLatest(q)' <=> IsLatest(q)
      /\ \A i \in Ids : Latest(i)' = Latest(i)
  BY SameKeys
<1>2. Shown' = [i \in Ids |-> Shown'[i]]
  BY DEF Shown
<1>3. ASSUME NEW i \in Ids, i \notin I
      PROVE  Shown'[i] = Shown[i]
  <2>1. CASE Latest(i) = {}
    BY <1>1, <2>1, ShownNothing
  <2>2. ASSUME NEW q \in Latest(i)
        PROVE  Shown'[i] = Shown[i]
    <3>1. q \in Keys /\ q[1] = i /\ IsLatest(q) /\ IsLatest(q)'
      BY <1>1, <2>2 DEF Latest
    <3>2. rows'[q] = rows[q]
      BY <1>3, <2>2
    <3>. QED BY <3>1, <3>2, ShownRow
  <2>. QED BY <2>1, <2>2
<1>4. ASSUME NEW i \in I
      PROVE  /\ Shown[i] # Null /\ Shown[i].status = "scheduled"
             /\ Shown'[i] = [Shown[i] EXCEPT !.status = "published"]
  <2>1. PICK q \in Latest(i) : rows'[q] # rows[q]
    BY <1>4
  <2>2. q \in Keys /\ q[1] = i /\ IsLatest(q) /\ IsLatest(q)'
    BY <1>1, <2>1, <1>4 DEF Latest
  <2>3. PICK now \in Nat : rows'[q] = Published(rows[q], Scheduler, TRUE, now)
    BY <2>1, <2>2 DEF Sends
  <2>4. rows[q] \in Row /\ rows[q].status = "scheduled"
    BY <2>1, <2>2 DEF Sends, Scheduled, Exists, TypeOK
  <2>5. Shown[i] = standingOf(rows[q]) /\ Shown'[i] = standingOf(rows'[q])
    BY <2>2, ShownRow
  <2>6. standingOf(rows'[q]) = [standingOf(rows[q]) EXCEPT !.status = "published"]
    BY <2>3, <2>4 DEF standingOf, Published, Row
  <2>. QED BY <2>4, <2>5, <2>6, StandingIsShown DEF standingOf
<1>. HIDE DEF I
<1>5. Shown' = [i \in Ids |->
          IF i \in I THEN [Shown[i] EXCEPT !.status = "published"] ELSE Shown[i]]
  BY <1>2, <1>3, <1>4
<1>6. Store!Send(I)
  BY <1>4, <1>5 DEF Store!Send, Shown
<1>7. I \in SUBSET Ids
  BY DEF I
<1>. QED BY <1>6, <1>7 DEF Store!Next

\* However transactions interleave, the latest revision of an announcement
\* changes by one operation, or one of the worker's batches, at a time, with the
\* guards and effects that AdminConsole has of the store.
THEOREM ShowsTheLatest == Spec => ImplementsStore
<1>1. Init => RevisionsInv /\ Store!Init
  <2>. SUFFICES ASSUME Init PROVE RevisionsInv /\ Store!Init
    OBVIOUS
  <2>1. \A k \in Keys : ~ Exists(k)
    BY DEF Init, Exists
  <2>2. \A i \in Ids : Latest(i) = {}
    BY <2>1 DEF Latest, IsLatest
  <2>. QED BY <2>1, <2>2 DEF RevisionsInv, Store!Init
<1>2. TypeOK /\ RevisionsInv /\ [Next]_vars => RevisionsInv'
  BY StepRevisions
<1>3. TypeOK /\ RevisionsInv /\ [Next]_vars => [Store!Next]_Shown
  BY StepOfTable, GrowsImplements, WritesImplements, SendsImplements
<1>. QED BY <1>1, <1>2, <1>3, TypeCorrect, PTL DEF Spec, ImplementsStore, Store!Spec, Shown

============================================================================
