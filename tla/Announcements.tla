--------------------------- MODULE Announcements ---------------------------
(***************************************************************************)
(* The life of an announcement (src/core/announcements.ts): drafts and     *)
(* their revisions, publication with and without a second publisher, the   *)
(* schedule, and the worker that sends what is due.                        *)
(*                                                                         *)
(* Every operation is one READ COMMITTED transaction that runs             *)
(*     select ... order by revision desc limit 1 for update                *)
(* PostgreSQL picks the row of that statement from the statement's         *)
(* snapshot, then waits for the row's lock, then re-reads that same row.   *)
(* An operation is therefore two steps: Begin picks the revision, and the  *)
(* action named after the operation locks it, re-reads it, checks the      *)
(* guards and commits.  Between the two, other transactions may commit     *)
(* new versions of the row and new revisions.                              *)
(*                                                                         *)
(* Actors are compared after lower-casing (resolveIdentity hands out lower *)
(* case only), so a publisher is one value here.  Text, links, networks    *)
(* and slugs are left out; a revision's severity is what the guards read.  *)
(***************************************************************************)
EXTENDS Naturals, FiniteSets, Sequences

CONSTANTS
    Ids,            \* announcement ids
    Publishers,     \* the people allowed to act
    Sessions,       \* web requests that may be in progress at the same time
    Ticks,          \* worker ticks that may overlap
    Scheduler,      \* the actor name the worker writes
    Null,           \* SQL null; also "no request", "no row"
    Batch,          \* rows one tick may claim (20 in the code)
    MaxRevision,    \* bound: revisions of one announcement
    MaxRows,        \* bound: rows of the table
    MaxTime,        \* bound: the clock
    MaxAudit        \* bound: audit entries of a revision before no request starts

Severities == {"critical", "other"}
Statuses   == {"draft", "publish_requested", "scheduled", "published", "discarded"}

\* The columns of an announcements row that an operation reads or writes.
Row == [status      : Statuses,
        severity    : Severities,
        requestedBy : Publishers \cup {Null},
        confirmedBy : Publishers \cup {Scheduler, Null},
        rejectedBy  : Publishers \cup {Null},
        scheduledFor: Nat \cup {Null},
        publishedAt : Nat \cup {Null}]

\* The primary key of the table.
Keys == Ids \X (1 .. MaxRevision)

Operations == {"reviseDraft", "discardDraft", "requestPublish", "confirmPublish",
               "schedulePublish", "confirmSchedule", "cancelSchedule",
               "withdrawPublish", "rejectPublish"}

\* A transaction between its snapshot and its commit: who asked for what, the
\* row its snapshot picked, its arguments, and now() of its begin.
Request == [op: Operations, actor: Publishers, key: Keys,
            severity: Severities, when: Nat, now: Nat]

\* A worker tick between its snapshot and its commit.
Claim == [now: Nat, due: SUBSET [key: Keys, when: Nat]]

AuditActions == {"draft_created", "edited", "draft_discarded", "publish_requested",
                 "publish_confirmed", "publish_scheduled", "schedule_confirmed",
                 "schedule_cancelled", "publish_withdrawn", "publish_rejected",
                 "scheduled_publish_sent"}

AuditEntry == [action: AuditActions, actor: Publishers \cup {Scheduler}]

ASSUME ConstantsAssumption ==
    /\ Scheduler \notin Publishers
    /\ Null \notin Publishers \cup {Scheduler}
    /\ Null \notin Nat
    /\ Null \notin Row
    /\ Null \notin Request
    /\ Null \notin Claim
    /\ Batch \in Nat \ {0}
    /\ MaxRevision \in Nat \ {0}
    /\ MaxRows \in Nat
    /\ MaxTime \in Nat
    /\ MaxAudit \in Nat

VARIABLES
    rows,       \* announcements: the row at each key, or Null
    audit,      \* audit_log: the entries about each key, oldest first
    outbox,     \* keys whose deliveries were enqueued with kind 'publish'
    request,    \* per session, the transaction in progress or Null
    tick,       \* per worker tick, the claim in progress or Null
    clock       \* the database's time

vars == <<rows, audit, outbox, request, tick, clock>>

Exists(k) == rows[k] # Null

\* The key that order by revision desc limit 1 finds, over the rows committed
\* so far.
IsLatest(k) == Exists(k) /\ \A r \in 1 .. MaxRevision : Exists(<<k[1], r>>) => r <= k[2]

NewDraft(sev) ==
    [status |-> "draft", severity |-> sev, requestedBy |-> Null, confirmedBy |-> Null,
     rejectedBy |-> Null, scheduledFor |-> Null, publishedAt |-> Null]

Init ==
    /\ rows    = [k \in Keys |-> Null]
    /\ audit   = [k \in Keys |-> <<>>]
    /\ outbox  = {}
    /\ request = [s \in Sessions |-> Null]
    /\ tick    = [t \in Ticks |-> Null]
    /\ clock   = 0

----------------------------------------------------------------------------
(* Transactions *)

TableFull == Cardinality({k \in Keys : Exists(k)}) >= MaxRows

\* One insert into audit_log about key k.
Log(k, action, actor) ==
    audit' = [audit EXCEPT ![k] = Append(@, [action |-> action, actor |-> actor])]

\* createDraft: a fresh id, so there is no row to wait for.
CreateDraft(p, i, sev) ==
    /\ ~ TableFull
    /\ \A r \in 1 .. MaxRevision : ~ Exists(<<i, r>>)
    /\ rows' = [rows EXCEPT ![<<i, 1>>] = NewDraft(sev)]
    /\ Log(<<i, 1>>, "draft_created", p)
    /\ UNCHANGED <<outbox, request, tick, clock>>

\* A request's snapshot.  schedulePublish compares its time with the clock
\* before it opens the transaction; the other operations have no time.
Begin(s, p, op, k, sev, when) ==
    /\ request[s] = Null
    /\ IsLatest(k)
    /\ Len(audit[k]) < MaxAudit
    /\ op = "reviseDraft" \/ sev = "other"
    /\ IF op = "schedulePublish" THEN when > clock ELSE when = 0
    /\ request' = [request EXCEPT ![s] =
           [op |-> op, actor |-> p, key |-> k,
            severity |-> sev, when |-> when, now |-> clock]]
    /\ UNCHANGED <<rows, audit, outbox, tick, clock>>

\* A guard failed, the insert hit the primary key, the connection or the
\* process was lost: nothing of the transaction remains.
Rollback(s) ==
    /\ request[s] # Null
    /\ request' = [request EXCEPT ![s] = Null]
    /\ UNCHANGED <<rows, audit, outbox, tick, clock>>

\* Session s is executing op on a row that was found, and Locked(s) is what it
\* reads once it holds the lock.
Executing(s, op) == request[s] # Null /\ request[s].op = op /\ Exists(request[s].key)
Locked(s)        == rows[request[s].key]

\* The update, its audit entry and the commit of session s.
Commit(s, row, action) ==
    /\ rows' = [rows EXCEPT ![request[s].key] = row]
    /\ Log(request[s].key, action, request[s].actor)
    /\ request' = [request EXCEPT ![s] = Null]
    /\ UNCHANGED <<tick, clock>>

----------------------------------------------------------------------------
(* Operations of a publisher *)

\* Faulty variant: whatever is the latest revision can be revised.
ReviseAnything(s) ==
    LET next == <<request[s].key[1], request[s].key[2] + 1>>
    IN  /\ Executing(s, "reviseDraft")
        /\ next \in Keys
        /\ ~ Exists(next)
        /\ ~ TableFull
        /\ rows' = [rows EXCEPT ![next] = NewDraft(request[s].severity)]
        /\ Log(next, "edited", request[s].actor)
        /\ request' = [request EXCEPT ![s] = Null]
        /\ UNCHANGED <<outbox, tick, clock>>

\* A second revision on the same key is refused by the primary key.
ReviseDraft(s) ==
    LET next == <<request[s].key[1], request[s].key[2] + 1>>
    IN  /\ Executing(s, "reviseDraft")
        /\ Locked(s).status = "draft"
        /\ next \in Keys
        /\ ~ Exists(next)
        /\ ~ TableFull
        /\ rows' = [rows EXCEPT ![next] = NewDraft(request[s].severity)]
        /\ Log(next, "edited", request[s].actor)
        /\ request' = [request EXCEPT ![s] = Null]
        /\ UNCHANGED <<outbox, tick, clock>>

DiscardDraft(s) ==
    /\ Executing(s, "discardDraft")
    /\ Locked(s).status = "draft"
    /\ Commit(s, [Locked(s) EXCEPT !.status = "discarded"], "draft_discarded")
    /\ UNCHANGED outbox

\* Faulty variant: the sender is always written as the confirmer.
SenderConfirms(row, confirmer, preserveConfirmer, now) ==
    [row EXCEPT !.status = "published", !.publishedAt = now, !.confirmedBy = confirmer]

\* The row performPublish leaves behind.
Published(row, confirmer, preserveConfirmer, now) ==
    [row EXCEPT !.status      = "published",
                !.publishedAt = now,
                !.confirmedBy = IF preserveConfirmer /\ @ # Null THEN @ ELSE confirmer]

\* performPublish by a person: update, enqueue, audit.
PublishNow(s) ==
    /\ Commit(s, Published(Locked(s), request[s].actor, FALSE, request[s].now),
              "publish_confirmed")
    /\ outbox' = outbox \cup {request[s].key}

RequestPublish(s) ==
    /\ Executing(s, "requestPublish")
    /\ Locked(s).status = "draft"
    /\ \/ /\ Locked(s).severity # "critical"
          /\ PublishNow(s)
       \/ /\ Locked(s).severity = "critical"
          /\ Commit(s, [Locked(s) EXCEPT !.status      = "publish_requested",
                                         !.requestedBy = request[s].actor],
                    "publish_requested")
          /\ UNCHANGED outbox

\* Faulty variant: any publisher may confirm.
AnyoneConfirms(row, actor) == TRUE

\* The guard that throws FourEyesError.
MayConfirm(row, actor) == row.severity = "critical" => row.requestedBy # actor

ConfirmPublish(s) ==
    /\ Executing(s, "confirmPublish")
    /\ Locked(s).status = "publish_requested"
    /\ Locked(s).scheduledFor = Null
    /\ MayConfirm(Locked(s), request[s].actor)
    /\ PublishNow(s)

SchedulePublish(s) ==
    LET critical == Locked(s).severity = "critical"
    IN  /\ Executing(s, "schedulePublish")
        /\ Locked(s).status = "draft"
        /\ Commit(s, [Locked(s) EXCEPT
                          !.status       = IF critical THEN "publish_requested" ELSE "scheduled",
                          !.scheduledFor = request[s].when,
                          !.requestedBy  = IF critical THEN request[s].actor ELSE Null],
                  "publish_scheduled")
        /\ UNCHANGED outbox

\* The time may have passed while the request waited for its second publisher.
ConfirmSchedule(s) ==
    /\ Executing(s, "confirmSchedule")
    /\ Locked(s).status = "publish_requested"
    /\ Locked(s).scheduledFor # Null
    /\ MayConfirm(Locked(s), request[s].actor)
    /\ Commit(s, [Locked(s) EXCEPT !.status = "scheduled", !.confirmedBy = request[s].actor],
              "schedule_confirmed")
    /\ UNCHANGED outbox

CancelSchedule(s) ==
    /\ Executing(s, "cancelSchedule")
    /\ \/ Locked(s).status = "scheduled"
       \/ Locked(s).status = "publish_requested" /\ Locked(s).scheduledFor # Null
    /\ Commit(s, [Locked(s) EXCEPT !.status = "draft", !.scheduledFor = Null,
                                   !.requestedBy = Null, !.confirmedBy = Null,
                                   !.rejectedBy = Null],
              "schedule_cancelled")
    /\ UNCHANGED outbox

\* Faulty variant: the schedule survives the withdrawal.
WithdrawKeepsSchedule(s) ==
    /\ Executing(s, "withdrawPublish")
    /\ Locked(s).status = "publish_requested"
    /\ Locked(s).requestedBy = request[s].actor
    /\ Commit(s, [Locked(s) EXCEPT !.status = "draft", !.requestedBy = Null,
                                   !.rejectedBy = Null],
              "publish_withdrawn")
    /\ UNCHANGED outbox

WithdrawPublish(s) ==
    /\ Executing(s, "withdrawPublish")
    /\ Locked(s).status = "publish_requested"
    /\ Locked(s).requestedBy = request[s].actor
    /\ Commit(s, [Locked(s) EXCEPT !.status = "draft", !.scheduledFor = Null,
                                   !.requestedBy = Null, !.rejectedBy = Null],
              "publish_withdrawn")
    /\ UNCHANGED outbox

RejectPublish(s) ==
    /\ Executing(s, "rejectPublish")
    /\ Locked(s).status = "publish_requested"
    /\ Locked(s).requestedBy # request[s].actor
    /\ Commit(s, [Locked(s) EXCEPT !.status = "draft", !.scheduledFor = Null,
                                   !.requestedBy = Null, !.rejectedBy = request[s].actor],
              "publish_rejected")
    /\ UNCHANGED outbox

----------------------------------------------------------------------------
(* The worker's pass over the schedule *)

Scheduled(k) == Exists(k) /\ rows[k].status = "scheduled"

\* Faulty variant: only rows with a confirmer, which a non-critical one never has.
DueIfConfirmed(k, now) ==
    /\ Scheduled(k)
    /\ rows[k].scheduledFor # Null
    /\ rows[k].scheduledFor <= now
    /\ rows[k].confirmedBy # Null

\* In SQL null <= now() is not true.
Due(k, now) ==
    Scheduled(k) /\ rows[k].scheduledFor # Null /\ rows[k].scheduledFor <= now

\* The snapshot of publishDueScheduled; a pass that finds nothing changes nothing.
BeginTick(t) ==
    LET due == {k \in Keys : Due(k, clock)}
    IN  /\ tick[t] = Null
        /\ due # {}
        /\ tick' = [tick EXCEPT ![t] =
               [now |-> clock, due |-> {[key |-> k, when |-> rows[k].scheduledFor] : k \in due}]]
        /\ UNCHANGED <<rows, audit, outbox, request, clock>>

\* The tick's transaction is lost before its commit.
RollbackTick(t) ==
    /\ tick[t] # Null
    /\ tick' = [tick EXCEPT ![t] = Null]
    /\ UNCHANGED <<rows, audit, outbox, request, clock>>

\* Faulty variant: a locked row is taken as the snapshot saw it.
ClaimableUnread(t) == tick[t].due

\* Faulty variant: the lock re-reads the status and not the time.
ClaimableAnyTime(t) == {d \in tick[t].due : rows[d.key].status = "scheduled"}

\* What the lock's re-read of the where clause leaves of the snapshot.
Claimable(t) == {d \in tick[t].due : Due(d.key, tick[t].now)}

\* Another transaction has picked the row and may be holding its lock.
MayBeLocked(k, t) ==
    \/ \E s \in Sessions : request[s] # Null /\ request[s].key = k
    \/ \E u \in Ticks \ {t} : tick[u] # Null /\ \E d \in tick[u].due : d.key = k

\* order by scheduled_for limit Batch for update skip locked, among the rows free
FirstBatch(claimed, free) ==
    /\ claimed \subseteq free
    /\ Cardinality(claimed) = IF Cardinality(free) < Batch THEN Cardinality(free) ELSE Batch
    /\ \A c \in claimed, f \in free \ claimed : c.when <= f.when

PublishDueScheduled(t) ==
    /\ tick[t] # Null
    /\ \E free \in SUBSET Claimable(t) : \E claimed \in SUBSET free :
          LET sent == {d.key : d \in claimed}
          IN  /\ \A d \in Claimable(t) \ free : MayBeLocked(d.key, t)
              /\ FirstBatch(claimed, free)
              /\ rows' = [k \in Keys |->
                     IF k \in sent THEN Published(rows[k], Scheduler, TRUE, tick[t].now)
                                   ELSE rows[k]]
              /\ audit' = [k \in Keys |->
                     IF k \in sent
                     THEN audit[k] \o <<[action |-> "publish_confirmed", actor |-> Scheduler],
                                        [action |-> "scheduled_publish_sent", actor |-> Scheduler]>>
                     ELSE audit[k]]
              /\ outbox' = outbox \cup sent
    /\ tick' = [tick EXCEPT ![t] = Null]
    /\ UNCHANGED <<request, clock>>

AdvanceClock ==
    /\ clock < MaxTime
    /\ clock' = clock + 1
    /\ UNCHANGED <<rows, audit, outbox, request, tick>>

----------------------------------------------------------------------------

Execute(s) ==
    \/ ReviseDraft(s) \/ DiscardDraft(s)
    \/ RequestPublish(s) \/ ConfirmPublish(s)
    \/ SchedulePublish(s) \/ ConfirmSchedule(s) \/ CancelSchedule(s)
    \/ WithdrawPublish(s) \/ RejectPublish(s)

Next ==
    \/ \E p \in Publishers, i \in Ids, sev \in Severities : CreateDraft(p, i, sev)
    \/ \E s \in Sessions, p \in Publishers, op \in Operations, k \in Keys,
          sev \in Severities, when \in 0 .. MaxTime : Begin(s, p, op, k, sev, when)
    \/ \E s \in Sessions : Execute(s) \/ Rollback(s)
    \/ \E t \in Ticks : BeginTick(t) \/ PublishDueScheduled(t) \/ RollbackTick(t)
    \/ AdvanceClock

Spec == Init /\ [][Next]_vars

\* A web request and a tick end, the clock goes on, and the worker ticks every 15 s
\* for ever.  A row lock lasts for one transaction, so a row that stays due is not
\* locked at, and its tick not lost in, every tick there will be: strong
\* fairness for a pass that sends something.
Fairness ==
    /\ WF_vars(AdvanceClock)
    /\ \A s \in Sessions : WF_vars(Execute(s) \/ Rollback(s))
    /\ \A t \in Ticks : WF_vars(BeginTick(t)) /\ WF_vars(PublishDueScheduled(t) \/ RollbackTick(t))
    /\ \A t \in Ticks : SF_vars(PublishDueScheduled(t) /\ outbox' # outbox)

FairSpec == Spec /\ Fairness

----------------------------------------------------------------------------
(* Properties *)

\* Every variable has its type: a row's columns hold what the operations write
\* (never the schema's status 'superseded'), a request holds a key of the table.
TypeOK ==
    /\ rows \in [Keys -> Row \cup {Null}]
    /\ audit \in [Keys -> Seq(AuditEntry)]
    /\ outbox \subseteq Keys
    /\ request \in [Sessions -> Request \cup {Null}]
    /\ tick \in [Ticks -> Claim \cup {Null}]
    /\ clock \in Nat

\* A critical revision that is scheduled or published names two different
\* publishers, and neither is the worker (P10 and P12 of SECURITY-PROPERTIES).
FourEyes ==
    \A k \in Keys : Exists(k) /\ rows[k].severity = "critical"
                              /\ rows[k].status \in {"scheduled", "published"} =>
        /\ rows[k].requestedBy \in Publishers
        /\ rows[k].confirmedBy \in Publishers
        /\ rows[k].requestedBy # rows[k].confirmedBy

\* A draft carries nothing of an earlier request, and a request waiting for its
\* second publisher is critical and has a requester and no confirmer, however
\* often it was withdrawn, rejected or cancelled before (P11).
NothingIsLaundered ==
    \A k \in Keys : Exists(k) =>
        /\ rows[k].status = "draft" =>
               /\ rows[k].requestedBy = Null
               /\ rows[k].confirmedBy = Null
               /\ rows[k].scheduledFor = Null
        /\ rows[k].status = "publish_requested" =>
               /\ rows[k].severity = "critical"
               /\ rows[k].requestedBy \in Publishers
               /\ rows[k].confirmedBy = Null
        /\ rows[k].status = "scheduled" => rows[k].scheduledFor \in Nat

Resetting == {"schedule_cancelled", "publish_withdrawn", "publish_rejected"}

\* Entry a of the log was not undone by a later reset.
StillStands(log, a) == \A c \in a .. Len(log) : log[c].action \notin Resetting

\* The audit log of a critical revision that is scheduled or published holds a
\* request and a later confirmation, by the two publishers the row names, and
\* nothing after the request took it back.
ApprovalIsOnRecord ==
    \A k \in Keys : Exists(k) /\ rows[k].severity = "critical"
                              /\ rows[k].status \in {"scheduled", "published"} =>
        \E a, b \in DOMAIN audit[k] :
            /\ a < b
            /\ audit[k][a].action \in {"publish_requested", "publish_scheduled"}
            /\ audit[k][a].actor = rows[k].requestedBy
            /\ audit[k][b].action \in {"schedule_confirmed", "publish_confirmed"}
            /\ audit[k][b].actor = rows[k].confirmedBy
            /\ audit[k][b].actor \in Publishers \ {audit[k][a].actor}
            /\ StillStands(audit[k], a)

\* A revision is sent at most once, whoever sends it: overlapping ticks and a
\* publisher never both publish it (P14), and it is in the outbox exactly when
\* it is published.
SentOnce ==
    \A k \in Keys :
        /\ \A m, n \in DOMAIN audit[k] :
               audit[k][m].action = "publish_confirmed"
                   /\ audit[k][n].action = "publish_confirmed" => m = n
        /\ k \in outbox <=> Exists(k) /\ rows[k].status = "published"

\* The worker never sends before the time that stands when it sends, also when
\* the revision was cancelled and scheduled anew while the tick was running.
NeverEarly ==
    \A k \in Keys : Exists(k) /\ rows[k].status = "published" =>
        /\ (\E n \in DOMAIN audit[k] : audit[k][n].action = "scheduled_publish_sent")
               <=> rows[k].scheduledFor # Null
        /\ rows[k].scheduledFor # Null => rows[k].scheduledFor <= rows[k].publishedAt

\* A published or discarded row is never written again.
DecidedForever ==
    [][\A k \in Keys : Exists(k) /\ rows[k].status \in {"published", "discarded"} =>
           rows'[k] = rows[k]]_vars

\* A revision that is due, confirmed before its time or after it, leaves
\* 'scheduled': it is sent, or somebody stopped it.
DueIsSent ==
    \A k \in Keys :
        (Scheduled(k) /\ rows[k].scheduledFor <= clock) ~> ~ Scheduled(k)

\* "only the latest revision of a row can ever be 'scheduled'"
\* (comment of publishDueScheduled)
OnlyLatestScheduled ==
    \A k \in Keys : Scheduled(k) => IsLatest(k)

\* One announcement goes out in one revision: all revisions before the latest
\* stay drafts.
OnlyLatestLeavesDraft ==
    \A k \in Keys : Exists(k) /\ rows[k].status # "draft" => IsLatest(k)

============================================================================
