---------------------------- MODULE AdminConsole ----------------------------
(***************************************************************************)
(* The admin pages in the publishers' browsers: the compose form           *)
(* (app/admin/compose-form.tsx), the controls of the review page and of    *)
(* the lists (publish-control.tsx and the buttons), the server actions     *)
(* they call (app/admin/actions.ts), templates (src/core/templates.ts) and *)
(* the queries behind the lists (src/core/queries.ts).                     *)
(*                                                                         *)
(* A page shows a row as it was when the page was read, and its buttons    *)
(* send the announcement's id only: an action applies to whatever the      *)
(* latest revision is when it arrives.  A form keeps what is in it when    *)
(* the address of its page changes under it.  A click, its action and the  *)
(* answer are one step, since the buttons are disabled in between; how two *)
(* actions overlap inside the database is Announcements' subject, and who  *)
(* may call one AdminAccess'.                                              *)
(***************************************************************************)
EXTENDS Naturals, Sequences, FiniteSets, Standings

CONSTANTS
    Tabs,           \* components on open pages
    Ids,            \* announcements
    Named,          \* Discord roles a destination may be configured with
    Builtins,       \* @everyone and @here
    ListLimit,      \* how many announcements the drafts and the schedule list
    MaxEffort,      \* bound on pages opened, fields edited, templates and settings changed
    MaxRows         \* bound on the revisions of all announcements

Roles == Named \cup Builtins

\* A revision: its standing, who is mentioned, and which built-in roles
\* somebody ticked in the forms that led to it.
Row == [at: Standing, roles: SUBSET Roles, ticked: SUBSET Builtins]

\* PublishControl, or the button of a list: the standing of the row in its props, and its
\* state.  Of the errors it may show only the one is told apart that the row refused its click.
Page == [at: {"review", "list"}, viewer: Publishers, id: Ids, revision: Nat, shown: Standing,
         armed: BOOLEAN, refreshing: BOOLEAN, refused: BOOLEAN]

\* ComposeForm: the announcement it edits, or Null, the revision of it that it was
\* filled from, or 0, the roles it has boxes for, and its state.
Form == [at: {"form"}, viewer: Publishers, id: Ids \cup {Null}, revision: Nat, boxes: SUBSET Roles,
         severity: Severities, roles: SUBSET Roles, ticked: SUBSET Builtins, touched: BOOLEAN, error: BOOLEAN]

ASSUME ConsoleAssumption ==
    /\ Named \cap Builtins = {}
    /\ ListLimit \in Nat \ {0} /\ MaxEffort \in Nat /\ MaxRows \in Nat
    /\ Null \notin Publishers \cup Ids \cup Severities

VARIABLES
    rows,           \* per announcement, its revisions
    template,       \* the severity of the template of the one name that is used, or Null
    configured,     \* the named roles of the Discord destinations
    tab,            \* per tab, its component or Null
    effort          \* spent so far of MaxEffort

vars == <<rows, template, configured, tab, effort>>

Init ==
    /\ rows = [i \in Ids |-> <<>>]
    /\ template = Null
    /\ configured \in SUBSET Named
    /\ tab = [t \in Tabs |-> Null]
    /\ effort = 0

Exists(i)  == rows[i] # <<>>
Last(i)    == rows[i][Len(rows[i])]
Current(i) == Last(i).at

----------------------------------------------------------------------------
(* Lists *)

\* By the status of the latest revision.
WithStatus(status) == {i \in Ids : Exists(i) /\ Current(i).status = status}

\* What a list may hold.  The queue has everything; the drafts and the schedule
\* end at the limit, and by times that are not modelled: whichever is left out.
Lists(status) ==
    LET all == WithStatus(status)
    IN  IF status = "publish_requested" \/ Cardinality(all) <= ListLimit THEN {all}
        ELSE {list \in SUBSET all : Cardinality(list) = ListLimit}

----------------------------------------------------------------------------
(* Pages with buttons *)

\* What the lists offer for the rows they are given.
DraftsList           == {"discard"}
PendingQueue(row, p) == IF row.requestedBy = p THEN {"withdraw"} ELSE {}
ScheduledList        == {"cancel"}

\* Faulty variant: every publisher is shown the buttons of the second one.
NeverRequester(row, p) == FALSE

isRequester(row, p) == row.requestedBy = p

\* What PublishControl offers; it has no buttons for what is decided.
OfDraft        == {"request", "schedule"}
OfRequester    == {"withdraw"}
OfSecond(row)  == {IF row.planned THEN "confirmSchedule" ELSE "confirm", "reject"}
OfScheduled    == {"cancel"}
PublishControl(row, p) ==
    CASE row.status = "draft" -> OfDraft
      [] row.status = "publish_requested" -> IF isRequester(row, p) THEN OfRequester ELSE OfSecond(row)
      [] row.status = "scheduled" -> OfScheduled
      [] row.status \in {"published", "discarded"} -> {}

\* The buttons a viewer is shown for a row.
Offered(at, row, p) ==
    CASE at = "review" -> PublishControl(row, p)
      [] at = "list" /\ row.status = "draft" -> DraftsList
      [] at = "list" /\ row.status = "publish_requested" -> PendingQueue(row, p)
      [] at = "list" /\ row.status = "scheduled" -> ScheduledList
      [] OTHER -> {}

\* Buttons whose first click only arms them.
TwoStage == {"cancel", "discard"}

IsPage(t) == tab[t] # Null /\ tab[t].at # "form"
IsForm(t) == tab[t] # Null /\ tab[t].at = "form"

PageOf(at, p, i) ==
    [at |-> at, viewer |-> p, id |-> i, revision |-> Len(rows[i]), shown |-> Current(i),
     armed |-> FALSE, refreshing |-> FALSE, refused |-> FALSE]

Spend == effort < MaxEffort /\ effort' = effort + 1

Open(t, component) ==
    /\ tab[t] = Null
    /\ Spend
    /\ tab' = [tab EXCEPT ![t] = component]
    /\ UNCHANGED <<rows, template, configured>>

\* The review page shows the latest revision.
OpenReview(t, p, i) == Exists(i) /\ Open(t, PageOf("review", p, i))

\* The admin index: its queue, its drafts or its schedule.
OpenList(t, p, i) ==
    /\ \E status \in {"publish_requested", "draft", "scheduled"} : \E list \in Lists(status) : i \in list
    /\ Open(t, PageOf("list", p, i))

\* The first click on a two-stage button, and the button beside it.
Arm(t, armed) ==
    /\ IsPage(t)
    /\ Offered(tab[t].at, tab[t].shown, tab[t].viewer) \cap TwoStage # {}
    /\ tab[t].armed # armed
    /\ tab' = [tab EXCEPT ![t].armed = armed]
    /\ UNCHANGED <<rows, template, configured, effort>>

\* What a list button does on an error: it is no longer armed.  The control of
\* the review page stays as it was.
Erred(page, refused) == [page EXCEPT !.refused = refused, !.armed = @ /\ page.at = "review"]

\* A click: the action works on the latest revision.  A success refreshes the page
\* (never, if its answer is lost) and a refusal is shown.  Any action may fail for another
\* reason than the row - the time of a schedule, which is typed on the page and may be over
\* when it arrives; a publisher who is none any more; the database - or end without an answer.
Click(t, op) ==
    LET page == tab[t]
        i    == page.id
    IN  /\ IsPage(t)
        /\ op \in Offered(page.at, page.shown, page.viewer)
        /\ op \in TwoStage => page.armed
        /\ \/ /\ Accepts(op, Current(i), page.viewer)
              /\ rows' = [rows EXCEPT ![i][Len(rows[i])].at = After(op, @, page.viewer)]
              /\ tab' = [tab EXCEPT ![t].refused = FALSE, ![t].refreshing = TRUE]
           \/ /\ ~ Accepts(op, Current(i), page.viewer)
              /\ tab' = [tab EXCEPT ![t] = Erred(page, TRUE)]
              /\ UNCHANGED rows
           \/ /\ \E next \in {Erred(page, FALSE), [page EXCEPT !.refused = FALSE]} : tab' = [tab EXCEPT ![t] = next]
              /\ UNCHANGED rows
        /\ UNCHANGED <<template, configured, effort>>

\* router.refresh: the props are read again and the state is kept; a button whose
\* row is no longer on its list goes with it.
Refresh(t) ==
    LET page == tab[t]
    IN  /\ IsPage(t)
        /\ page.refreshing
        /\ \E list \in Lists(page.shown.status) :
             tab' = [tab EXCEPT ![t] =
               IF page.at = "list" /\ page.id \notin list THEN Null
               ELSE [page EXCEPT !.revision = Len(rows[page.id]), !.shown = Current(page.id),
                                 !.refreshing = FALSE]]
        /\ UNCHANGED <<rows, template, configured, effort>>

----------------------------------------------------------------------------
(* The compose form *)

\* Faulty variant: every box is ticked for a critical announcement.
DefaultsWithEveryone(severity, boxes) == IF severity = "critical" THEN boxes ELSE {}

\* The roles that are on until somebody decides: the named ones when critical.
DefaultRoles(severity, boxes) == IF severity = "critical" THEN boxes \ Builtins ELSE {}

\* The boxes of a form: every role some destination has, and the built-in ones.
Boxes == configured \cup Builtins

\* A form on a new announcement, as a page that is loaded has it: whatever it starts
\* from, it has no roles of its own.
NewForm(p, severity) ==
    [at |-> "form", viewer |-> p, id |-> Null, revision |-> 0, boxes |-> Boxes, severity |-> severity,
     roles |-> DefaultRoles(severity, Boxes), ticked |-> {}, touched |-> FALSE, error |-> FALSE]

ComposeBlank(t, p) == Open(t, NewForm(p, "other"))

\* A template is used as it was saved.
ComposeFromTemplate(t, p) ==
    template # Null /\ Open(t, NewForm(p, template))

ComposeCopy(t, p, i) ==
    Exists(i) /\ Open(t, NewForm(p, Current(i).severity))

\* Only a draft is edited, with all that it has; for anything else the form is a
\* blank one.
ComposeEdit(t, p, i) ==
    LET row == Last(i)
    IN  /\ Exists(i)
        /\ row.at.status = "draft"
        /\ Open(t, [NewForm(p, row.at.severity) EXCEPT
                        !.id = i, !.revision = Len(rows[i]), !.roles = row.roles, !.ticked = row.ticked])

\* Faulty variant: the effect runs in a form that edits, too.
FollowsInEveryForm(form) == ~ form.touched

\* The effect: the roles follow the severity until somebody touches them.
Follows(form) == form.id = Null /\ ~ form.touched

\* The address of the page changes, and the form stays: "Start from" turns it to a
\* new announcement, a refresh to one if its draft is none any more, and Back to the draft of
\* an earlier address of the tab (these are not remembered here).  The page is another, or
\* one the router has kept; of the form only its boxes follow, and what Follows.
Turn(t, i) ==
    LET form == tab[t]
        turned == [form EXCEPT !.id = i, !.revision = IF i = form.id THEN @ ELSE 0]
    IN  /\ IsForm(t)
        /\ i # Null => Exists(i)
        /\ \E boxes \in {Boxes, form.boxes} :
             tab' = [tab EXCEPT ![t] =
               IF i # form.id /\ Follows(turned)
               THEN [turned EXCEPT !.boxes = boxes, !.roles = DefaultRoles(form.severity, boxes), !.ticked = {}]
               ELSE [turned EXCEPT !.boxes = boxes]]
        /\ Spend
        /\ UNCHANGED <<rows, template, configured>>

SetSeverity(t, severity) ==
    /\ IsForm(t)
    /\ tab[t].severity # severity
    /\ tab' = [tab EXCEPT ![t].severity = severity,
                          ![t].roles = IF Follows(tab[t]) THEN DefaultRoles(severity, tab[t].boxes) ELSE @]
    /\ Spend
    /\ UNCHANGED <<rows, template, configured>>

ToggleRole(t, role) ==
    LET on == role \notin tab[t].roles
    IN  /\ IsForm(t)
        /\ role \in tab[t].boxes
        /\ tab' = [tab EXCEPT ![t].touched = TRUE,
                              ![t].roles = IF on THEN @ \cup {role} ELSE @ \ {role},
                              ![t].ticked = IF on THEN @ \cup ({role} \cap Builtins) ELSE @]
        /\ Spend
        /\ UNCHANGED <<rows, template, configured>>

\* What the form sends: a role without a box is not among its fields.
Submitted(form) ==
    [at |-> Drafted(form.severity), roles |-> form.roles \cap form.boxes, ticked |-> form.ticked]

\* A new draft or a new revision, and on to its review page; a form on what is
\* no longer a draft is told so, and so is one whose action fails.
Save(t, i) ==
    LET form == tab[t]
    IN  /\ IsForm(t)
        /\ IF form.id = Null THEN ~ Exists(i) ELSE i = form.id
        /\ Cardinality({k \in Ids \X (1 .. MaxRows) : k[2] \in DOMAIN rows[k[1]]}) < MaxRows
        /\ \/ /\ Exists(i) => Current(i).status = "draft"
              /\ rows' = [rows EXCEPT ![i] = Append(@, Submitted(form))]
              /\ tab' = [tab EXCEPT ![t] =
                     [at |-> "review", viewer |-> form.viewer, id |-> i, revision |-> Len(rows[i]) + 1,
                      shown |-> Submitted(form).at, armed |-> FALSE, refreshing |-> FALSE, refused |-> FALSE]]
           \/ /\ tab' = [tab EXCEPT ![t].error = TRUE]
              /\ UNCHANGED rows
        /\ UNCHANGED <<template, configured, effort>>

\* stripPerAnnouncementFields: slug and roles are not kept.
SaveTemplate(t) ==
    /\ IsForm(t)
    /\ template' = tab[t].severity
    /\ Spend
    /\ UNCHANGED <<rows, configured, tab>>

----------------------------------------------------------------------------
(* Everything else that happens *)

\* A template is deleted.
DeleteTemplate ==
    /\ template # Null
    /\ template' = Null
    /\ Spend
    /\ UNCHANGED <<rows, configured, tab>>

\* The worker sends what is scheduled.
WorkerSends(i) ==
    /\ i \in WithStatus("scheduled")
    /\ rows' = [rows EXCEPT ![i][Len(rows[i])].at.status = "published"]
    /\ UNCHANGED <<template, configured, tab, effort>>

\* scripts/setup-channel.ts gives a destination other roles.
Configure(roles) ==
    /\ roles # configured
    /\ configured' = roles
    /\ Spend
    /\ UNCHANGED <<rows, template, tab>>

\* A page is left, or fails and shows app/admin/error.tsx.
Close(t) ==
    /\ tab' = [tab EXCEPT ![t] = Null]
    /\ UNCHANGED <<rows, template, configured, effort>>

Next ==
    \/ \E t \in Tabs, p \in Publishers : ComposeBlank(t, p) \/ ComposeFromTemplate(t, p)
    \/ \E t \in Tabs, p \in Publishers, i \in Ids :
          OpenReview(t, p, i) \/ OpenList(t, p, i) \/ ComposeCopy(t, p, i) \/ ComposeEdit(t, p, i)
    \/ \E t \in Tabs, armed \in BOOLEAN : Arm(t, armed)
    \/ \E t \in Tabs, op \in Ops : Click(t, op)
    \/ \E t \in Tabs : Refresh(t) \/ SaveTemplate(t) \/ Close(t)
    \/ \E t \in Tabs, severity \in Severities : SetSeverity(t, severity)
    \/ \E t \in Tabs, role \in Roles : ToggleRole(t, role)
    \/ \E t \in Tabs, i \in Ids \cup {Null} : Turn(t, i)
    \/ \E t \in Tabs, i \in Ids : Save(t, i)
    \/ \E i \in Ids : WorkerSends(i)
    \/ \E roles \in SUBSET Named : Configure(roles)
    \/ DeleteTemplate

Spec == Init /\ [][Next]_vars

----------------------------------------------------------------------------
(* Properties *)

\* Every variable has its type: tabs hold components as the code can leave them.
TypeOK ==
    /\ rows \in [Ids -> Seq(Row)]
    /\ template \in Severities \cup {Null}
    /\ configured \subseteq Named
    /\ tab \in [Tabs -> Page \cup Form \cup {Null}]
    /\ effort \in 0 .. MaxEffort

\* The comment in ComposeForm: notifying an entire server is an affirmative
\* click.  A revision mentions @everyone only if somebody ticked it in a form that led
\* to it, in whatever way the form was filled: in one of this announcement, or in one of a
\* draft that "Start from" turned to it when somebody had touched its boxes.
EveryoneWasChosen ==
    \A i \in Ids : \A r \in DOMAIN rows[i] :
        rows[i][r].roles \cap Builtins \subseteq rows[i][r].ticked

\* The buttons agree with the store: what it refuses by the row was clicked on a
\* page whose row has changed since it was read.  A page that is up to date is told of
\* nothing but a time that is over and a failure.
RefusedMeansStale ==
    [][\A t \in Tabs :
          IsPage(t) /\ IsPage(t)' /\ ~ tab[t].refused /\ tab'[t].refused =>
              \/ tab[t].revision # Len(rows[tab[t].id])
              \/ tab[t].shown # Current(tab[t].id)]_vars

\* The comment in ComposeForm: an edited draft keeps the roles it was opened
\* with unless somebody touches them, whatever becomes of its severity; only roles that
\* are no longer configured are lost.  A form that was turned to the draft was not
\* opened with it.
RolesSurviveEditing ==
    [][\A t \in Tabs, i \in Ids :
          /\ IsForm(t)
          /\ tab[t].id = i /\ tab[t].revision # 0
          /\ ~ tab[t].touched
          /\ Len(rows'[i]) > Len(rows[i])
          /\ tab'[t] # tab[t]
          => rows'[i][Len(rows'[i])].roles = rows[i][tab[t].revision].roles \cap tab[t].boxes]_vars

\* The comment on the review page: the confirming publisher sees exactly what
\* the server will send.  What a person publishes is on an open page as it is.
WhatIsPublishedWasShown ==
    [][\A i \in Ids :
          /\ Exists(i)
          /\ Current(i).status \in {"draft", "publish_requested"}
          /\ Current(i)'.status = "published"
          => \E t \in Tabs : IsPage(t) /\ tab[t].id = i /\ tab[t].revision = Len(rows[i])]_vars

============================================================================
