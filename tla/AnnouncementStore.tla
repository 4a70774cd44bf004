------------------------- MODULE AnnouncementStore -------------------------
(***************************************************************************)
(* The store as the publishers take it to be: one row per announcement,    *)
(* its latest revision, and every operation acts on it at once.            *)
(*                                                                         *)
(* Announcements implements it, and AdminConsole works with it.  Requests  *)
(* that overlap may also write a revision that is the latest no more,      *)
(* which is not seen here.  There is no clock: that schedulePublish        *)
(* refuses a time that is over is one of the steps that do nothing.        *)
(***************************************************************************)
EXTENDS Standings

CONSTANT Ids

VARIABLE standing   \* of the latest revision of each announcement, or Null

Init == standing = [i \in Ids |-> Null]

\* A new announcement, or a new revision of a draft.
Save(i, severity) ==
    /\ standing[i] # Null => standing[i].status = "draft"
    /\ standing' = [standing EXCEPT ![i] = Drafted(severity)]

\* A publisher acts on what there is.
Act(i, op, p) ==
    /\ standing[i] # Null
    /\ Accepts(op, standing[i], p)
    /\ standing' = [standing EXCEPT ![i] = After(op, @, p)]

\* The worker sends what is scheduled, several announcements at a time.
Send(I) ==
    /\ \A i \in I : standing[i] # Null /\ standing[i].status = "scheduled"
    /\ standing' = [i \in Ids |->
           IF i \in I THEN [standing[i] EXCEPT !.status = "published"] ELSE standing[i]]

Next ==
    \/ \E i \in Ids, severity \in Severities : Save(i, severity)
    \/ \E i \in Ids, op \in Ops, p \in Publishers : Act(i, op, p)
    \/ \E I \in SUBSET Ids : Send(I)

Spec == Init /\ [][Next]_standing

============================================================================
