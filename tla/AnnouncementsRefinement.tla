---------------------- MODULE AnnouncementsRefinement ----------------------
(***************************************************************************)
(* Announcements implements Publication: a row's status gives the phase    *)
(* and the two publisher columns give the approvals that stand.  It        *)
(* implements AnnouncementStore as well: the latest revision of an         *)
(* announcement gives its standing, however requests overlap.              *)
(***************************************************************************)
EXTENDS Announcements

phaseOf(row) ==
    IF row = Null                    THEN "absent"
    ELSE IF row.status = "published" THEN "sent"
    ELSE IF row.status = "discarded" THEN "binned"
    ELSE "open"

levelOf(row) == IF row = Null THEN "other" ELSE row.severity

\* The worker in confirmedBy is not a person.
approversOf(row) ==
    IF row = Null THEN {} ELSE {row.requestedBy, row.confirmedBy} \cap Publishers

Abstract == INSTANCE Publication WITH
    Items     <- Keys,
    People    <- Publishers,
    phase     <- [k \in Keys |-> phaseOf(rows[k])],
    level     <- [k \in Keys |-> levelOf(rows[k])],
    approvers <- [k \in Keys |-> approversOf(rows[k])]

\* The transactions of announcements.ts, interleaved in any order, do only what
\* Publication allows: a revision is sent once, a critical one with two people
\* whose approvals stand, and a decided one does not come back.
ImplementsPublication == Abstract!Spec

standingOf(row) ==
    [status |-> row.status, severity |-> row.severity, requestedBy |-> row.requestedBy,
     planned |-> row.scheduledFor # Null]

\* The key of the latest revision, in a set that is empty if there is none.
Latest(i) == {k \in Keys : k[1] = i /\ IsLatest(k)}

Store == INSTANCE AnnouncementStore WITH
    standing <- [i \in Ids |-> IF Latest(i) = {} THEN Null
                               ELSE standingOf(rows[CHOOSE k \in Latest(i) : TRUE])]

ASSUME NullIsNoStanding == Null \notin Store!Standing

\* However transactions interleave, the latest revision of an announcement
\* changes by the guards and effects the admin pages are modelled with, one
\* operation or one of the worker's batches at a time.  What a request with an old
\* snapshot does to the revision before is not seen here: that there is nothing
\* of the kind is OnlyLatestLeavesDraft.
ImplementsStore == Store!Spec

============================================================================
