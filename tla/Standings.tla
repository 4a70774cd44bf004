----------------------------- MODULE Standings -----------------------------
(***************************************************************************)
(* What a publisher can do with a revision, by its standing: the columns   *)
(* that the guards of src/core/announcements.ts read and the buttons of    *)
(* the admin pages depend on.                                              *)
(***************************************************************************)
CONSTANTS
    Publishers,     \* the people who act
    Null

Severities == {"critical", "other"}
Statuses   == {"draft", "publish_requested", "scheduled", "published", "discarded"}
Ops        == {"request", "schedule", "confirm", "confirmSchedule", "withdraw", "reject", "cancel", "discard"}

\* planned: a time is set, whether or not it is confirmed.
Standing == [status: Statuses, severity: Severities, requestedBy: Publishers \cup {Null}, planned: BOOLEAN]

\* A revision as it is written by the compose form.
Drafted(severity) == [status |-> "draft", severity |-> severity, requestedBy |-> Null, planned |-> FALSE]

\* Each operation's guards on the row.  The one on what is typed, that a schedule's
\* time is in the future, needs a clock: Announcements has it where the request begins,
\* AdminConsole among what a click may fail of besides.
Accepts(op, row, p) ==
    LET second == row.severity = "critical" => row.requestedBy # p
    IN  CASE op \in {"request", "schedule", "discard"} -> row.status = "draft"
          [] op = "confirm"         -> row.status = "publish_requested" /\ ~ row.planned /\ second
          [] op = "confirmSchedule" -> row.status = "publish_requested" /\ row.planned /\ second
          [] op = "withdraw"        -> row.status = "publish_requested" /\ row.requestedBy = p
          [] op = "reject"          -> row.status = "publish_requested" /\ row.requestedBy # p
          [] op = "cancel"          -> \/ row.status = "scheduled"
                                       \/ row.status = "publish_requested" /\ row.planned

\* What each operation writes.
After(op, row, p) ==
    LET critical == row.severity = "critical"
    IN  CASE op = "request" /\ critical ->
               [row EXCEPT !.status = "publish_requested", !.requestedBy = p]
          [] op = "schedule" ->
               [row EXCEPT !.status = IF critical THEN "publish_requested" ELSE "scheduled",
                           !.requestedBy = IF critical THEN p ELSE Null, !.planned = TRUE]
          [] op = "confirm" \/ (op = "request" /\ ~ critical) -> [row EXCEPT !.status = "published"]
          [] op = "confirmSchedule" -> [row EXCEPT !.status = "scheduled"]
          [] op = "discard" -> [row EXCEPT !.status = "discarded"]
          [] op \in {"withdraw", "reject", "cancel"} ->
               [row EXCEPT !.status = "draft", !.requestedBy = Null, !.planned = FALSE]

============================================================================
