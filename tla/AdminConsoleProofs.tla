------------------------- MODULE AdminConsoleProofs -------------------------
(***************************************************************************)
(* Theorems about AdminConsole, for any tabs, publishers, announcements    *)
(* and roles, and any bounds.                                              *)
(***************************************************************************)
EXTENDS AdminConsoleRefinement, TLAPS

----------------------------------------------------------------------------
(* The inductive invariant *)

\* A component as the pages of these revisions leave it: a page is about what there
\* is; a built-in role that is on was ticked by somebody; and until somebody touches
\* them, the roles of a form that was filled from a revision are those of that revision.
Sound(c, table) ==
    \/ c = Null
    \/ c \in Page /\ table[c.id] # <<>>
    \/ /\ c \in Form
       /\ c.roles \cap Builtins \subseteq c.ticked
       /\ c.revision # 0 => /\ c.id # Null
                            /\ c.revision \in DOMAIN table[c.id]
                            /\ ~ c.touched => c.roles = table[c.id][c.revision].roles

TabsAreSound == \A t \in Tabs : Sound(tab[t], rows)

ConsoleInv ==
    /\ TypeOK
    /\ TabsAreSound
    /\ EveryoneWasChosen

----------------------------------------------------------------------------
(* Tabs and rows *)

LEMMA TabsByKind ==
    ASSUME ConsoleInv, NEW t \in Tabs
    PROVE  /\ IsPage(t) => tab[t] \in Page /\ Exists(tab[t].id) /\ tab[t].id \in Ids
           /\ IsForm(t) => tab[t] \in Form
           /\ ~ (IsPage(t) /\ IsForm(t))
  <1>1. ASSUME NEW c \in Page PROVE c.at # "form" /\ c.id \in Ids
    BY DEF Page
  <1>2. ASSUME NEW c \in Form PROVE c.at = "form"
    BY DEF Form
  <1> QED
    BY <1>1, <1>2 DEF ConsoleInv, TabsAreSound, Sound, IsPage, IsForm, Exists

\* The latest revision of what exists.
LEMMA LastOfExisting ==
    ASSUME TypeOK, NEW i \in Ids, Exists(i)
    PROVE  /\ Len(rows[i]) \in DOMAIN rows[i] /\ Len(rows[i]) \in Nat \ {0}
           /\ Last(i) \in Row
           /\ Current(i) \in Standing
  <1>1. rows[i] \in Seq(Row) /\ rows[i] # <<>>
    BY DEF TypeOK, Exists
  <1>2. Len(rows[i]) \in 1 .. Len(rows[i]) /\ DOMAIN rows[i] = 1 .. Len(rows[i])
    BY <1>1
  <1>3. Last(i) \in Row
    BY <1>1, <1>2 DEF Last
  <1> QED
    BY <1>2, <1>3 DEF Current, Row

\* What an operation writes is a standing.
LEMMA AfterIsStanding ==
    ASSUME NEW row \in Standing, NEW op \in Ops, NEW p \in Publishers
    PROVE  After(op, row, p) \in Standing
  <1>1. row = [status |-> row.status, severity |-> row.severity, requestedBy |-> row.requestedBy, planned |-> row.planned]
    BY DEF Standing
  <1> QED
    BY DEF After, Standing, Ops, Statuses, Severities

----------------------------------------------------------------------------
(* Buttons *)

\* The store accepts what a page that is up to date offers.
LEMMA OfferedIsAccepted ==
    ASSUME NEW row \in Standing, NEW at, NEW p, NEW op \in Offered(at, row, p)
    PROVE  Accepts(op, row, p)
  <1> USE DEF Offered, PublishControl, PendingQueue, DraftsList, ScheduledList, OfDraft, OfRequester, OfSecond, OfScheduled,
              isRequester
  <1>1. row.status \in Statuses
    BY DEF Standing
  <1>2. CASE row.status = "draft"
    <2>1. op \in {"request", "schedule", "discard"}
      BY <1>2
    <2> QED
      BY <1>2, <2>1 DEF Accepts
  <1>3. CASE row.status = "scheduled"
    <2>1. op = "cancel"
      BY <1>3
    <2> QED
      BY <1>3, <2>1 DEF Accepts
  <1>4. CASE row.status = "publish_requested" /\ row.requestedBy = p
    <2>1. op = "withdraw"
      BY <1>4
    <2> QED
      BY <1>4, <2>1 DEF Accepts
  <1>5. CASE row.status = "publish_requested" /\ row.requestedBy # p
    <2>1. op = "reject" \/ op = (IF row.planned THEN "confirmSchedule" ELSE "confirm")
      BY <1>5
    <2>2. row.planned \in BOOLEAN
      BY DEF Standing
    <2> QED
      BY <1>5, <2>1, <2>2 DEF Accepts
  <1>6. CASE row.status \in {"published", "discarded"}
    BY <1>6
  <1> QED
    BY <1>1, <1>2, <1>3, <1>4, <1>5, <1>6 DEF Statuses

----------------------------------------------------------------------------
(* Steps on the revisions *)

\* Revisions are added and never lose whom they mention; new ones mention
\* @everyone only if somebody ticked it.
Keeps(table, new) ==
    /\ new \in [Ids -> Seq(Row)]
    /\ \A i \in Ids : \A r \in DOMAIN new[i] :
          IF r \in DOMAIN table[i]
          THEN new[i][r].roles = table[i][r].roles /\ new[i][r].ticked = table[i][r].ticked
          ELSE new[i][r].roles \cap Builtins \subseteq new[i][r].ticked
    /\ \A i \in Ids : DOMAIN table[i] \subseteq DOMAIN new[i]

\* The standing of the latest revision changes.
LEMMA StandingChanges ==
    ASSUME ConsoleInv, NEW i \in Ids, Exists(i), NEW s \in Standing,
           rows' = [rows EXCEPT ![i][Len(rows[i])].at = s]
    PROVE  Keeps(rows, rows')
  <1> DEFINE n == Len(rows[i])
             new == [rows[i] EXCEPT ![n] = [@ EXCEPT !.at = s]]
  <1>1. n \in DOMAIN rows[i] /\ rows[i] \in Seq(Row) /\ rows[i][n] \in Row
    BY LastOfExisting DEF ConsoleInv, TypeOK, Last
  <1>2. [rows[i][n] EXCEPT !.at = s] \in Row
    BY <1>1 DEF Row
  <1>3. new \in Seq(Row) /\ DOMAIN new = DOMAIN rows[i]
    BY <1>1, <1>2
  <1>4. \A r \in DOMAIN new : new[r].roles = rows[i][r].roles /\ new[r].ticked = rows[i][r].ticked
    <2>1. new[n] = [rows[i][n] EXCEPT !.at = s]
      BY <1>1
    <2>2. new[n].roles = rows[i][n].roles /\ new[n].ticked = rows[i][n].ticked
      BY <2>1, <1>1 DEF Row
    <2> QED
      BY <2>2, <1>3
  <1>5. rows \in [Ids -> Seq(Row)] /\ rows' = [rows EXCEPT ![i] = new]
    BY DEF ConsoleInv, TypeOK
  <1> HIDE DEF n, new
  <1> QED
    BY <1>3, <1>4, <1>5 DEF Keeps

\* A revision is added.
LEMMA RevisionIsAdded ==
    ASSUME ConsoleInv, NEW i \in Ids, NEW row \in Row, row.roles \cap Builtins \subseteq row.ticked,
           rows' = [rows EXCEPT ![i] = Append(@, row)]
    PROVE  /\ Keeps(rows, rows')
           /\ Len(rows'[i]) = Len(rows[i]) + 1 /\ rows'[i][Len(rows'[i])] = row
  <1> DEFINE new == Append(rows[i], row)
  <1>1. rows \in [Ids -> Seq(Row)] /\ rows' = [rows EXCEPT ![i] = new] /\ rows'[i] = new
    BY DEF ConsoleInv, TypeOK
  <1>2. /\ new \in Seq(Row) /\ Len(new) = Len(rows[i]) + 1 /\ new[Len(new)] = row
        /\ DOMAIN new = 1 .. Len(rows[i]) + 1 /\ DOMAIN rows[i] = 1 .. Len(rows[i]) /\ Len(rows[i]) \in Nat
        /\ \A r \in 1 .. Len(rows[i]) : new[r] = rows[i][r]
    BY <1>1
  <1> HIDE DEF new
  <1>3. \A r \in DOMAIN new : IF r \in DOMAIN rows[i] THEN new[r] = rows[i][r] ELSE new[r] = row
    BY <1>2
  <1>4. DOMAIN rows[i] \subseteq DOMAIN new
    BY <1>2
  <1> QED
    BY <1>1, <1>2, <1>3, <1>4 DEF Keeps

LEMMA NothingChanges == ASSUME ConsoleInv, rows' = rows PROVE Keeps(rows, rows')
  BY DEF Keeps, ConsoleInv, TypeOK

\* What is sound stays sound when revisions are kept.
LEMMA SoundStaysSound ==
    ASSUME NEW c, NEW new, Keeps(rows, new), TypeOK, Sound(c, rows)
    PROVE  Sound(c, new)
  <1>1. CASE c \in Page /\ rows[c.id] # <<>>
    <2>1. c.id \in Ids
      BY <1>1 DEF Page
    <2>2. rows[c.id] \in Seq(Row) /\ new[c.id] \in Seq(Row) /\ DOMAIN rows[c.id] \subseteq DOMAIN new[c.id]
      BY <2>1 DEF Keeps, TypeOK
    <2>3. 1 \in DOMAIN rows[c.id]
      BY <1>1, <2>2
    <2>4. 1 \in DOMAIN new[c.id]
      BY <2>2, <2>3
    <2>5. new[c.id] # <<>>
      BY <2>4
    <2> QED
      BY <1>1, <2>5 DEF Sound
  <1>2. CASE c \in Form /\ c # Null
    <2>1. c.id # Null => c.id \in Ids
      BY <1>2 DEF Form
    <2>2. c \notin Page
      BY <1>2 DEF Form, Page
    <2>3. /\ c.roles \cap Builtins \subseteq c.ticked
          /\ c.revision # 0 => /\ c.id # Null /\ c.revision \in DOMAIN rows[c.id]
                               /\ ~ c.touched => c.roles = rows[c.id][c.revision].roles
      BY <1>2, <2>2 DEF Sound
    <2>4. c.revision # 0 =>
            c.revision \in DOMAIN new[c.id] /\ new[c.id][c.revision].roles = rows[c.id][c.revision].roles
      BY <2>1, <2>3 DEF Keeps
    <2> QED
      BY <1>2, <2>3, <2>4 DEF Sound
  <1>3. CASE c = Null
    BY <1>3 DEF Sound
  <1> QED
    BY <1>1, <1>2, <1>3 DEF Sound

----------------------------------------------------------------------------
(* Steps on the tabs *)

Components == Page \cup Form \cup {Null}

LEMMA KeptIsChosen ==
    ASSUME ConsoleInv, Keeps(rows, rows')
    PROVE  EveryoneWasChosen' /\ rows' \in [Ids -> Seq(Row)]
  BY DEF ConsoleInv, EveryoneWasChosen, Keeps

\* At most one tab changes, to a sound component.
LEMMA TabChanges ==
    ASSUME ConsoleInv, NEW t \in Tabs, NEW c \in Components, Keeps(rows, rows'), Sound(c, rows'),
           tab' = [tab EXCEPT ![t] = c]
    PROVE  TabsAreSound' /\ tab' \in [Tabs -> Components]
  <1>1. tab \in [Tabs -> Components]
    BY DEF ConsoleInv, TypeOK, Components
  <1>2. \A u \in Tabs : Sound(tab[u], rows')
    BY SoundStaysSound DEF ConsoleInv, TabsAreSound
  <1>3. \A u \in Tabs : tab'[u] = IF u = t THEN c ELSE tab[u]
    BY <1>1
  <1>4. \A u \in Tabs : Sound(tab'[u], rows')
    BY <1>2, <1>3
  <1> QED
    BY <1>1, <1>4 DEF TabsAreSound

LEMMA TabsStay ==
    ASSUME ConsoleInv, Keeps(rows, rows'), tab' = tab
    PROVE  TabsAreSound' /\ tab' \in [Tabs -> Components]
  <1>1. \A u \in Tabs : Sound(tab[u], rows')
    BY SoundStaysSound DEF ConsoleInv, TabsAreSound
  <1> QED
    BY <1>1 DEF ConsoleInv, TypeOK, TabsAreSound, Components

\* A component that is opened.
LEMMA PagesAreSound ==
    ASSUME ConsoleInv, NEW at \in {"review", "list"}, NEW p \in Publishers, NEW i \in Ids, Exists(i)
    PROVE  PageOf(at, p, i) \in Page /\ Sound(PageOf(at, p, i), rows)
  <1>1. PageOf(at, p, i) \in Page
    BY LastOfExisting DEF PageOf, Page, ConsoleInv
  <1> QED
    BY <1>1 DEF Sound, PageOf, Exists

LEMMA NewFormsAreSound ==
    ASSUME ConsoleInv, NEW p \in Publishers, NEW severity \in Severities
    PROVE  NewForm(p, severity) \in Form /\ Sound(NewForm(p, severity), rows)
  <1>1. Boxes \subseteq Roles /\ DefaultRoles(severity, Boxes) \subseteq Roles
    BY DEF ConsoleInv, TypeOK, Boxes, Roles, DefaultRoles
  <1>2. NewForm(p, severity) \in Form
    BY <1>1 DEF NewForm, Form
  <1>3. DefaultRoles(severity, Boxes) \cap Builtins = {}
    BY DEF DefaultRoles
  <1> QED
    BY <1>2, <1>3 DEF NewForm, Sound

LEMMA OpenedIsSound ==
    ASSUME ConsoleInv, NEW t \in Tabs, NEW c \in Components, Sound(c, rows), Open(t, c)
    PROVE  ConsoleInv'
  <1>1. Keeps(rows, rows')
    BY NothingChanges DEF Open
  <1>2. tab' = [tab EXCEPT ![t] = c] /\ Sound(c, rows')
    BY DEF Open
  <1>3. effort' \in 0 .. MaxEffort
    BY ConsoleAssumption DEF Open, Spend, ConsoleInv, TypeOK
  <1> QED
    BY <1>1, <1>2, <1>3, TabChanges, KeptIsChosen DEF Open, ConsoleInv, TypeOK, Components

LEMMA Opening ==
    ASSUME ConsoleInv, NEW t \in Tabs, NEW p \in Publishers
    PROVE  /\ ComposeBlank(t, p) \/ ComposeFromTemplate(t, p) => ConsoleInv'
           /\ \A i \in Ids : OpenReview(t, p, i) \/ OpenList(t, p, i) \/ ComposeCopy(t, p, i) \/ ComposeEdit(t, p, i)
                => ConsoleInv'
  <1>1. ASSUME ComposeBlank(t, p) PROVE ConsoleInv'
    BY <1>1, NewFormsAreSound, OpenedIsSound DEF ComposeBlank, Components, Severities
  <1>2. ASSUME ComposeFromTemplate(t, p) PROVE ConsoleInv'
    <2>1. template \in Severities
      BY <1>2 DEF ComposeFromTemplate, ConsoleInv, TypeOK
    <2> QED
      BY <1>2, <2>1, NewFormsAreSound, OpenedIsSound DEF ComposeFromTemplate, Components
  <1>3. ASSUME NEW i \in Ids, OpenReview(t, p, i) PROVE ConsoleInv'
    BY <1>3, PagesAreSound, OpenedIsSound DEF OpenReview, Components
  <1>4. ASSUME NEW i \in Ids, OpenList(t, p, i) PROVE ConsoleInv'
    BY <1>4, PagesAreSound, OpenedIsSound DEF OpenList, Lists, WithStatus, Components
  <1>5. ASSUME NEW i \in Ids, ComposeCopy(t, p, i) PROVE ConsoleInv'
    <2>1. Current(i).severity \in Severities
      BY <1>5, LastOfExisting DEF ComposeCopy, ConsoleInv, Standing
    <2> QED
      BY <1>5, <2>1, NewFormsAreSound, OpenedIsSound DEF ComposeCopy, Components
  <1>6. ASSUME NEW i \in Ids, ComposeEdit(t, p, i) PROVE ConsoleInv'
    <2> DEFINE row  == Last(i)
               form == [NewForm(p, row.at.severity) EXCEPT
                          !.id = i, !.revision = Len(rows[i]), !.roles = row.roles, !.ticked = row.ticked]
    <2>1. Exists(i) /\ Open(t, form)
      BY <1>6 DEF ComposeEdit
    <2>2. row \in Row /\ Len(rows[i]) \in DOMAIN rows[i] /\ row = rows[i][Len(rows[i])] /\ Len(rows[i]) \in Nat
      BY <2>1, LastOfExisting DEF ConsoleInv, Last
    <2>3. row.at.severity \in Severities /\ row.roles \subseteq Roles /\ row.ticked \subseteq Builtins
      BY <2>2 DEF Row, Standing
    <2>4. NewForm(p, row.at.severity) \in Form
      BY <2>3, NewFormsAreSound
    <2>5. /\ form \in Form /\ form.id = i /\ form.revision = Len(rows[i]) /\ form.roles = row.roles
          /\ form.ticked = row.ticked
      BY <2>2, <2>3, <2>4 DEF Form
    <2>6. row.roles \cap Builtins \subseteq row.ticked
      BY <2>2 DEF ConsoleInv, EveryoneWasChosen
    <2>7. Sound(form, rows)
      BY <2>2, <2>5, <2>6, ConsoleAssumption DEF Sound
    <2> HIDE DEF row, form
    <2> QED
      BY <2>1, <2>5, <2>7, OpenedIsSound DEF Components
  <1> QED
    BY <1>1, <1>2, <1>3, <1>4, <1>5, <1>6

\* A step that changes one tab, and possibly the revisions.
LEMMA TabStep ==
    ASSUME ConsoleInv, NEW t \in Tabs, NEW c \in Components, Sound(c, rows'), Keeps(rows, rows'),
           tab' = [tab EXCEPT ![t] = c], UNCHANGED <<template, configured>>, effort' \in 0 .. MaxEffort
    PROVE  ConsoleInv'
  BY TabChanges, KeptIsChosen DEF ConsoleInv, TypeOK, Components

\* A step that changes no tab.
LEMMA OtherStep ==
    ASSUME ConsoleInv, Keeps(rows, rows'), tab' = tab,
           template' \in Severities \cup {Null}, configured' \subseteq Named, effort' \in 0 .. MaxEffort
    PROVE  ConsoleInv'
  BY TabsStay, KeptIsChosen DEF ConsoleInv, TypeOK, Components

LEMMA SpentInBounds == ASSUME ConsoleInv, Spend PROVE effort' \in 0 .. MaxEffort
  BY ConsoleAssumption DEF Spend, ConsoleInv, TypeOK

LEMMA Arming == ASSUME ConsoleInv, NEW t \in Tabs, NEW armed \in BOOLEAN, Arm(t, armed) PROVE ConsoleInv'
  <1> DEFINE c == [tab[t] EXCEPT !.armed = armed]
  <1>1. tab[t] \in Page /\ Exists(tab[t].id)
    BY TabsByKind DEF Arm
  <1>2. c \in Page /\ c.id = tab[t].id
    BY <1>1 DEF Page
  <1>3. Sound(c, rows') /\ rows' = rows
    BY <1>1, <1>2 DEF Sound, Exists, Arm
  <1>4. tab' = [tab EXCEPT ![t] = c]
    BY DEF Arm
  <1> HIDE DEF c
  <1> QED
    BY <1>2, <1>3, <1>4, NothingChanges, TabStep DEF Arm, Components, ConsoleInv, TypeOK

LEMMA Clicking == ASSUME ConsoleInv, NEW t \in Tabs, NEW op \in Ops, Click(t, op) PROVE ConsoleInv'
  <1> DEFINE page == tab[t]
             i    == page.id
             ok   == [page EXCEPT !.refused = FALSE, !.refreshing = TRUE]
             quiet == [page EXCEPT !.refused = FALSE]
  <1>1. page \in Page /\ Exists(i) /\ i \in Ids
    BY TabsByKind DEF Click
  <1>2. /\ ok \in Page /\ ok.id = i /\ quiet \in Page /\ quiet.id = i
        /\ \A b \in BOOLEAN : Erred(page, b) \in Page /\ Erred(page, b).id = i
    BY <1>1 DEF Page, Erred
  <1>3. CASE rows' = [rows EXCEPT ![i][Len(rows[i])].at = After(op, @, page.viewer)]
             /\ tab' = [tab EXCEPT ![t].refused = FALSE, ![t].refreshing = TRUE]
    <2>1. After(op, Current(i), page.viewer) \in Standing
      BY <1>1, LastOfExisting, AfterIsStanding DEF ConsoleInv, Page
    <2>2. rows' = [rows EXCEPT ![i][Len(rows[i])].at = After(op, Current(i), page.viewer)]
      BY <1>3 DEF Current, Last
    <2>3. Keeps(rows, rows')
      BY <1>1, <2>1, <2>2, StandingChanges
    <2>4. tab' = [tab EXCEPT ![t] = ok]
      BY <1>3 DEF ConsoleInv, TypeOK
    <2>5. rows[i] # <<>> /\ Sound(page, rows)
      BY <1>1 DEF Exists, Sound
    <2>6. Sound(page, rows')
      BY <2>3, <2>5, SoundStaysSound DEF ConsoleInv
    <2>7. page \notin Form /\ page # Null
      BY <1>1 DEF Page, Form, Click, IsPage
    <2>8. Sound(ok, rows')
      BY <1>2, <2>6, <2>7 DEF Sound
    <2> HIDE DEF ok, quiet, page, i
    <2> QED
      BY <1>2, <2>3, <2>4, <2>8, TabStep DEF Click, Components, ConsoleInv, TypeOK
  <1>4. ASSUME NEW c \in Page, c.id = i, rows' = rows, tab' = [tab EXCEPT ![t] = c] PROVE ConsoleInv'
    <2>1. Sound(c, rows')
      BY <1>1, <1>4 DEF Sound, Exists
    <2> HIDE DEF ok, quiet, page, i
    <2> QED
      BY <1>4, <2>1, NothingChanges, TabStep DEF Click, Components, ConsoleInv, TypeOK
  <1> HIDE DEF ok
  <1> QED
    BY <1>2, <1>3, <1>4 DEF Click

LEMMA Refreshing == ASSUME ConsoleInv, NEW t \in Tabs, Refresh(t) PROVE ConsoleInv'
  <1> DEFINE page == tab[t]
             c == [page EXCEPT !.revision = Len(rows[page.id]), !.shown = Current(page.id), !.refreshing = FALSE]
  <1>1. page \in Page /\ Exists(page.id) /\ page.id \in Ids
    BY TabsByKind DEF Refresh
  <1>2. Current(page.id) \in Standing /\ Len(rows[page.id]) \in Nat
    BY <1>1, LastOfExisting DEF ConsoleInv
  <1>3. c \in Page /\ c.id = page.id
    BY <1>1, <1>2 DEF Page
  <1>4. Sound(c, rows') /\ Sound(Null, rows') /\ rows' = rows
    BY <1>1, <1>3 DEF Sound, Exists, Refresh
  <1>5. tab' = [tab EXCEPT ![t] = c] \/ tab' = [tab EXCEPT ![t] = Null]
    BY DEF Refresh
  <1> HIDE DEF c
  <1> QED
    BY <1>3, <1>4, <1>5, NothingChanges, TabStep DEF Refresh, Components, ConsoleInv, TypeOK

LEMMA Choosing ==
    ASSUME ConsoleInv, NEW t \in Tabs, NEW severity \in Severities, SetSeverity(t, severity)
    PROVE  ConsoleInv'
  <1> DEFINE form == tab[t]
             on == IF Follows(form) THEN DefaultRoles(severity, form.boxes) ELSE form.roles
             c == [form EXCEPT !.severity = severity, !.roles = on]
  <1>1. form \in Form /\ form \notin Page /\ form # Null
    BY TabsByKind DEF SetSeverity, IsForm, Form, Page
  <1>2. on \subseteq Roles
    BY <1>1 DEF Form, DefaultRoles
  <1>3. /\ c \in Form /\ c.id = form.id /\ c.revision = form.revision /\ c.touched = form.touched
        /\ c.roles = on /\ c.ticked = form.ticked
    BY <1>1, <1>2 DEF Form
  <1>4. on \cap Builtins \subseteq form.ticked /\ (form.revision # 0 => on = form.roles)
    BY <1>1 DEF DefaultRoles, Follows, ConsoleInv, TabsAreSound, Sound
  <1>5. tab' = [tab EXCEPT ![t] = c]
    BY DEF SetSeverity, ConsoleInv, TypeOK
  <1>6. Sound(c, rows') /\ rows' = rows
    <2>1. form.revision # 0 => /\ form.id # Null /\ form.revision \in DOMAIN rows[form.id]
                               /\ ~ form.touched => form.roles = rows[form.id][form.revision].roles
      BY <1>1 DEF ConsoleInv, TabsAreSound, Sound
    <2> HIDE DEF on, c, form
    <2> QED
      BY <1>3, <1>4, <2>1 DEF Sound, SetSeverity
  <1> HIDE DEF c
  <1> QED
    BY <1>3, <1>5, <1>6, NothingChanges, TabStep, SpentInBounds DEF SetSeverity, Components

LEMMA Toggling ==
    ASSUME ConsoleInv, NEW t \in Tabs, NEW role \in Roles, ToggleRole(t, role)
    PROVE  ConsoleInv'
  <1> DEFINE form == tab[t]
             on == role \notin form.roles
             roles == IF on THEN form.roles \cup {role} ELSE form.roles \ {role}
             ticked == IF on THEN form.ticked \cup ({role} \cap Builtins) ELSE form.ticked
             c == [form EXCEPT !.touched = TRUE, !.roles = roles, !.ticked = ticked]
  <1>1. form \in Form /\ form \notin Page /\ form # Null
    BY TabsByKind DEF ToggleRole, IsForm, Form, Page
  <1>2. roles \subseteq Roles /\ ticked \subseteq Builtins
    BY <1>1 DEF Form
  <1>3. /\ c \in Form /\ c.id = form.id /\ c.revision = form.revision /\ c.touched
        /\ c.roles = roles /\ c.ticked = ticked
    BY <1>1, <1>2 DEF Form
  <1>4. form.roles \cap Builtins \subseteq form.ticked
    BY <1>1 DEF ConsoleInv, TabsAreSound, Sound
  <1>5. roles \cap Builtins \subseteq ticked
    BY <1>4
  <1>6. tab' = [tab EXCEPT ![t] = c]
    BY DEF ToggleRole, ConsoleInv, TypeOK
  <1>7. Sound(c, rows') /\ rows' = rows
    <2>1. form.revision # 0 => form.id # Null /\ form.revision \in DOMAIN rows[form.id]
      BY <1>1 DEF ConsoleInv, TabsAreSound, Sound
    <2> HIDE DEF roles, ticked, on, c, form
    <2> QED
      BY <1>3, <1>5, <2>1 DEF Sound, ToggleRole
  <1> HIDE DEF c
  <1> QED
    BY <1>3, <1>6, <1>7, NothingChanges, TabStep, SpentInBounds DEF ToggleRole, Components

LEMMA Saving == ASSUME ConsoleInv, NEW t \in Tabs, NEW i \in Ids, Save(t, i) PROVE ConsoleInv'
  <1> DEFINE form == tab[t]
             row  == Submitted(form)
             page == [at |-> "review", viewer |-> form.viewer, id |-> i, revision |-> Len(rows[i]) + 1,
                      shown |-> row.at, armed |-> FALSE, refreshing |-> FALSE, refused |-> FALSE]
             told == [form EXCEPT !.error = TRUE]
  <1>1. form \in Form /\ form \notin Page /\ form # Null
    BY TabsByKind DEF Save, IsForm, Form, Page
  <1>2. form.roles \cap Builtins \subseteq form.ticked
    BY <1>1 DEF ConsoleInv, TabsAreSound, Sound
  <1>3. row \in Row /\ row.roles \cap Builtins \subseteq row.ticked /\ row.at \in Standing
    <2>1. Drafted(form.severity) \in Standing
      BY <1>1 DEF Form, Drafted, Standing, Statuses
    <2> QED
      BY <1>1, <1>2, <2>1 DEF Submitted, Form, Row
  <1>4. form.viewer \in Publishers
    BY <1>1 DEF Form
  <1>5. CASE rows' = [rows EXCEPT ![i] = Append(@, row)] /\ tab' = [tab EXCEPT ![t] = page]
    <2>1. Keeps(rows, rows') /\ Len(rows'[i]) = Len(rows[i]) + 1
      BY <1>3, <1>5, RevisionIsAdded
    <2>2. Len(rows[i]) \in Nat
      BY DEF ConsoleInv, TypeOK
    <2>3. page \in Page
      BY <1>3, <1>4, <2>2 DEF Page
    <2>4. rows'[i] # <<>>
      BY <2>1, <2>2
    <2>5. Sound(page, rows')
      BY <2>3, <2>4 DEF Sound
    <2> HIDE DEF page, row, form
    <2> QED
      BY <1>5, <2>1, <2>3, <2>5, TabStep DEF Save, Components, ConsoleInv, TypeOK
  <1>6. CASE rows' = rows /\ tab' = [tab EXCEPT ![t].error = TRUE]
    <2>1. /\ told \in Form /\ told.id = form.id /\ told.revision = form.revision /\ told.touched = form.touched
          /\ told.roles = form.roles /\ told.ticked = form.ticked
      BY <1>1 DEF Form
    <2>2. form.revision # 0 => /\ form.id # Null /\ form.revision \in DOMAIN rows[form.id]
                               /\ ~ form.touched => form.roles = rows[form.id][form.revision].roles
      BY <1>1 DEF ConsoleInv, TabsAreSound, Sound
    <2>3. tab' = [tab EXCEPT ![t] = told]
      BY <1>6 DEF ConsoleInv, TypeOK
    <2> HIDE DEF told, form
    <2>4. Sound(told, rows')
      BY <1>2, <1>6, <2>1, <2>2 DEF Sound
    <2> QED
      BY <1>6, <2>1, <2>3, <2>4, NothingChanges, TabStep DEF Save, Components, ConsoleInv, TypeOK
  <1> QED
    BY <1>5, <1>6 DEF Save

\* A form that is turned to another address keeps its roles, or starts anew without
\* a built-in one.
LEMMA Turning ==
    ASSUME ConsoleInv, NEW t \in Tabs, NEW i \in Ids \cup {Null}, Turn(t, i)
    PROVE  ConsoleInv'
  <1> DEFINE form == tab[t]
             turned == [form EXCEPT !.id = i, !.revision = IF i = form.id THEN @ ELSE 0]
             anew(boxes) == [turned EXCEPT !.boxes = boxes, !.roles = DefaultRoles(form.severity, boxes), !.ticked = {}]
             kept(boxes) == [turned EXCEPT !.boxes = boxes]
  <1>1. form \in Form /\ form \notin Page /\ form # Null
    BY TabsByKind DEF Turn, IsForm, Form, Page
  <1>2. Boxes \subseteq Roles /\ form.boxes \subseteq Roles
    BY <1>1 DEF ConsoleInv, TypeOK, Boxes, Roles, Form
  <1>3. PICK boxes \in {Boxes, form.boxes} :
          tab' = [tab EXCEPT ![t] = IF i # form.id /\ Follows(turned) THEN anew(boxes) ELSE kept(boxes)]
    BY DEF Turn
  <1>4. turned \in Form /\ turned.revision = (IF i = form.id THEN form.revision ELSE 0) /\ turned.id = i
        /\ turned.roles = form.roles /\ turned.ticked = form.ticked /\ turned.touched = form.touched
    BY <1>1 DEF Form
  <1>5. DefaultRoles(form.severity, boxes) \subseteq Roles /\ DefaultRoles(form.severity, boxes) \cap Builtins = {}
    BY <1>2, <1>3 DEF DefaultRoles
  <1>6. form.roles \cap Builtins \subseteq form.ticked
        /\ (form.revision # 0 => /\ form.id # Null /\ form.revision \in DOMAIN rows[form.id]
                                 /\ ~ form.touched => form.roles = rows[form.id][form.revision].roles)
    BY <1>1 DEF ConsoleInv, TabsAreSound, Sound
  <1> HIDE DEF turned, form
  <1>7. /\ anew(boxes) \in Form /\ anew(boxes).revision = turned.revision
        /\ anew(boxes).roles = DefaultRoles(form.severity, boxes) /\ anew(boxes).ticked = {}
    BY <1>2, <1>3, <1>4, <1>5 DEF Form
  <1>8. /\ kept(boxes) \in Form /\ kept(boxes).revision = turned.revision /\ kept(boxes).id = turned.id
        /\ kept(boxes).roles = turned.roles /\ kept(boxes).ticked = turned.ticked
        /\ kept(boxes).touched = turned.touched
    BY <1>2, <1>3, <1>4 DEF Form
  <1> HIDE DEF anew, kept
  <1>9. rows' = rows /\ UNCHANGED <<template, configured>> /\ effort' \in 0 .. MaxEffort
    BY SpentInBounds DEF Turn
  <1>10. CASE i # form.id /\ Follows(turned)
    <2>1. Sound(anew(boxes), rows')
      BY <1>4, <1>5, <1>7, <1>10 DEF Sound
    <2> QED
      BY <1>3, <1>7, <1>9, <1>10, <2>1, NothingChanges, TabStep DEF Components
  <1>11. CASE ~ (i # form.id /\ Follows(turned))
    <2>1. Sound(kept(boxes), rows')
      BY <1>4, <1>6, <1>8, <1>9 DEF Sound
    <2> QED
      BY <1>3, <1>8, <1>9, <1>11, <2>1, NothingChanges, TabStep DEF Components
  <1> QED
    BY <1>10, <1>11

LEMMA Sending == ASSUME ConsoleInv, NEW i \in Ids, WorkerSends(i) PROVE ConsoleInv'
  <1> DEFINE s == [Current(i) EXCEPT !.status = "published"]
  <1>1. Exists(i)
    BY DEF WorkerSends, WithStatus
  <1>2. s \in Standing
    BY <1>1, LastOfExisting DEF ConsoleInv, Standing, Statuses
  <1>3. rows' = [rows EXCEPT ![i][Len(rows[i])].at = s]
    BY DEF WorkerSends, Current, Last
  <1> HIDE DEF s
  <1>4. Keeps(rows, rows')
    BY <1>1, <1>2, <1>3, StandingChanges
  <1> QED
    BY <1>4, OtherStep DEF WorkerSends, ConsoleInv, TypeOK

LEMMA Settings ==
    ASSUME ConsoleInv
    PROVE  /\ DeleteTemplate => ConsoleInv'
           /\ \A t \in Tabs : SaveTemplate(t) => ConsoleInv'
           /\ \A roles \in SUBSET Named : Configure(roles) => ConsoleInv'
           /\ \A t \in Tabs : Close(t) => ConsoleInv'
  <1>1. ASSUME DeleteTemplate PROVE ConsoleInv'
    BY <1>1, NothingChanges, OtherStep, SpentInBounds DEF DeleteTemplate, ConsoleInv, TypeOK
  <1>2. ASSUME NEW t \in Tabs, SaveTemplate(t) PROVE ConsoleInv'
    <2>1. template' \in Severities
      BY <1>2, TabsByKind DEF SaveTemplate, Form
    <2> QED
      BY <1>2, <2>1, NothingChanges, OtherStep, SpentInBounds DEF SaveTemplate, ConsoleInv, TypeOK
  <1>3. ASSUME NEW roles \in SUBSET Named, Configure(roles) PROVE ConsoleInv'
    BY <1>3, NothingChanges, OtherStep, SpentInBounds DEF Configure, ConsoleInv, TypeOK
  <1>4. ASSUME NEW t \in Tabs, Close(t) PROVE ConsoleInv'
    BY <1>4, NothingChanges, TabStep DEF Close, Sound, Components, ConsoleInv, TypeOK
  <1> QED
    BY <1>1, <1>2, <1>3, <1>4

----------------------------------------------------------------------------
(* Theorems *)

LEMMA InitConsole == Init => ConsoleInv
  <1> SUFFICES ASSUME Init PROVE ConsoleInv
    OBVIOUS
  <1>1. TypeOK
    BY ConsoleAssumption DEF Init, TypeOK
  <1>2. TabsAreSound
    BY DEF Init, TabsAreSound, Sound
  <1>3. EveryoneWasChosen
    BY DEF Init, EveryoneWasChosen
  <1> QED
    BY <1>1, <1>2, <1>3 DEF ConsoleInv

LEMMA NextConsole == ConsoleInv /\ [Next]_vars => ConsoleInv'
  <1> SUFFICES ASSUME ConsoleInv, [Next]_vars PROVE ConsoleInv'
    OBVIOUS
  <1>1. CASE Next
    BY <1>1, Opening, Arming, Clicking, Refreshing, Choosing, Toggling, Turning, Saving, Sending, Settings DEF Next
  <1>2. CASE UNCHANGED vars
    BY <1>2, NothingChanges, OtherStep DEF vars, ConsoleInv, TypeOK
  <1> QED
    BY <1>1, <1>2

\* The invariant on which the rest stands: what tabs hold is sound for the
\* revisions there are.
THEOREM ConsoleInvariant == Spec => []ConsoleInv
  BY InitConsole, NextConsole, PTL DEF Spec

\* Every variable keeps its type.
THEOREM ConsoleTypes == Spec => []TypeOK
  <1>1. ConsoleInv => TypeOK
    BY DEF ConsoleInv
  <1> QED
    BY <1>1, ConsoleInvariant, PTL

\* A revision mentions @everyone only if somebody ticked it in the forms that led to
\* it, in whatever way they were filled and turned.
THEOREM MentionsAreChosen == Spec => []EveryoneWasChosen
  <1>1. ConsoleInv => EveryoneWasChosen
    BY DEF ConsoleInv
  <1> QED
    BY <1>1, ConsoleInvariant, PTL

\* A page begins to say that its row refused a click only when the store refuses it.
LEMMA OnlyRefusalsFail ==
    ASSUME ConsoleInv, Next, NEW t \in Tabs, IsPage(t), tab'[t] # Null, ~ tab[t].refused, tab'[t].refused
    PROVE  \E op \in Offered(tab[t].at, tab[t].shown, tab[t].viewer) :
              ~ Accepts(op, Current(tab[t].id), tab[t].viewer)
  <1>0. tab \in [Tabs -> Components] /\ tab[t] \in Page /\ ~ IsForm(t) /\ tab[t] # Null
    BY TabsByKind DEF ConsoleInv, TypeOK, Components, IsPage
  <1>1. tab'[t] # tab[t]
    OBVIOUS
  <1>2. ASSUME NEW u \in Tabs, NEW c, Open(u, c) PROVE FALSE
    BY <1>0, <1>1, <1>2 DEF Open
  <1>3. ASSUME NEW u \in Tabs, NEW armed \in BOOLEAN, Arm(u, armed) PROVE FALSE
    BY <1>0, <1>1, <1>3 DEF Arm, Page
  <1>4. ASSUME NEW u \in Tabs, Refresh(u) PROVE FALSE
    BY <1>0, <1>1, <1>4 DEF Refresh, Page
  <1>5. ASSUME NEW u \in Tabs, NEW severity \in Severities, SetSeverity(u, severity) PROVE FALSE
    BY <1>0, <1>1, <1>5 DEF SetSeverity
  <1>6. ASSUME NEW u \in Tabs, NEW role \in Roles, ToggleRole(u, role) PROVE FALSE
    BY <1>0, <1>1, <1>6 DEF ToggleRole
  <1>7. ASSUME NEW u \in Tabs, NEW i \in Ids, Save(u, i) PROVE FALSE
    BY <1>0, <1>1, <1>7 DEF Save
  <1>8. ASSUME NEW u \in Tabs, Close(u) \/ \E i \in Ids \cup {Null} : Turn(u, i) PROVE FALSE
    BY <1>0, <1>1, <1>8 DEF Close, Turn
  <1>9. tab' # tab
    BY <1>1
  <1>10. PICK u \in Tabs, op \in Ops : Click(u, op)
    <2>1. ASSUME NEW u \in Tabs, NEW p \in Publishers, ComposeBlank(u, p) \/ ComposeFromTemplate(u, p) PROVE FALSE
      BY <1>2, <2>1 DEF ComposeBlank, ComposeFromTemplate
    <2>2. ASSUME NEW u \in Tabs, NEW p \in Publishers, NEW i \in Ids,
                 OpenReview(u, p, i) \/ OpenList(u, p, i) \/ ComposeCopy(u, p, i) \/ ComposeEdit(u, p, i)
          PROVE  FALSE
      BY <1>2, <2>2 DEF OpenReview, OpenList, ComposeCopy, ComposeEdit
    <2> QED
      BY <1>3, <1>4, <1>5, <1>6, <1>7, <1>8, <1>9, <2>1, <2>2
         DEF Next, SaveTemplate, WorkerSends, Configure, DeleteTemplate
  <1>11. u = t
    BY <1>0, <1>1, <1>10 DEF Click
  <1>12. ~ Accepts(op, Current(tab[t].id), tab[t].viewer)
    <2>1. ASSUME tab' = [tab EXCEPT ![t].refused = FALSE, ![t].refreshing = TRUE] PROVE FALSE
      BY <1>0, <2>1 DEF Page
    <2>2. ASSUME NEW next \in {Erred(tab[t], FALSE), [tab[t] EXCEPT !.refused = FALSE]}, tab' = [tab EXCEPT ![t] = next]
          PROVE  FALSE
      BY <1>0, <2>2 DEF Page, Erred
    <2> QED
      BY <1>10, <1>11, <2>1, <2>2 DEF Click
  <1> QED
    BY <1>10, <1>11, <1>12 DEF Click

\* A row refuses a button only on a page that is stale.
THEOREM RefusalsMeanStale == Spec => RefusedMeansStale
  <1> DEFINE Claim ==
        \A t \in Tabs :
          IsPage(t) /\ IsPage(t)' /\ ~ tab[t].refused /\ tab'[t].refused =>
              \/ tab[t].revision # Len(rows[tab[t].id])
              \/ tab[t].shown # Current(tab[t].id)
  <1>1. ConsoleInv /\ [Next]_vars => Claim
    <2> SUFFICES ASSUME ConsoleInv, [Next]_vars, NEW t \in Tabs, IsPage(t), tab'[t] # Null, ~ tab[t].refused,
                        tab'[t].refused, tab[t].shown = Current(tab[t].id)
                 PROVE  FALSE
      BY DEF IsPage
    <2>1. Next
      BY DEF vars
    <2>2. tab[t].shown \in Standing
      BY TabsByKind DEF Page
    <2> QED
      BY <2>1, <2>2, OnlyRefusalsFail, OfferedIsAccepted
  <1> QED
    BY <1>1, ConsoleInvariant, PTL DEF Spec, RefusedMeansStale

\* Of the steps that change a form only its saving adds a revision.
LEMMA OnlySavesWrite ==
    ASSUME ConsoleInv, Next, NEW t \in Tabs, IsForm(t), tab'[t] # tab[t], NEW i \in Ids, Len(rows'[i]) > Len(rows[i])
    PROVE  \E k \in Ids : Save(t, k)
  <1>0. tab \in [Tabs -> Components] /\ ~ IsPage(t) /\ tab[t] # Null
    BY TabsByKind DEF ConsoleInv, TypeOK, Components, IsForm
  <1>1. Len(rows[i]) \in Nat
    BY DEF ConsoleInv, TypeOK
  <1>2. rows' # rows
    BY <1>1
  <1>3. tab' # tab
    OBVIOUS
  <1>4. PICK u \in Tabs : (\E op \in Ops : Click(u, op)) \/ (\E k \in Ids : Save(u, k))
    <2>1. ASSUME NEW u \in Tabs, NEW c, Open(u, c) PROVE FALSE
      BY <1>2, <2>1 DEF Open
    <2>2. ASSUME NEW u \in Tabs, NEW p \in Publishers, ComposeBlank(u, p) \/ ComposeFromTemplate(u, p) PROVE FALSE
      BY <2>1, <2>2 DEF ComposeBlank, ComposeFromTemplate
    <2>3. ASSUME NEW u \in Tabs, NEW p \in Publishers, NEW k \in Ids,
                 OpenReview(u, p, k) \/ OpenList(u, p, k) \/ ComposeCopy(u, p, k) \/ ComposeEdit(u, p, k)
          PROVE  FALSE
      BY <2>1, <2>3 DEF OpenReview, OpenList, ComposeCopy, ComposeEdit
    <2> QED
      BY <1>2, <1>3, <2>2, <2>3
         DEF Next, Arm, Refresh, SetSeverity, ToggleRole, Turn, Close, SaveTemplate, WorkerSends, Configure, DeleteTemplate
  <1>5. ASSUME NEW op \in Ops, Click(u, op) PROVE FALSE
    BY <1>0, <1>5 DEF Click, Erred
  <1>6. ASSUME u # t, NEW k \in Ids, Save(u, k) PROVE FALSE
    BY <1>0, <1>6 DEF Save
  <1> QED
    BY <1>4, <1>5, <1>6

\* A draft that a form was filled from keeps its roles unless somebody touches them.
THEOREM EditedDraftsKeepRoles == Spec => RolesSurviveEditing
  <1> DEFINE Claim ==
        \A t \in Tabs, i \in Ids :
          /\ IsForm(t)
          /\ tab[t].id = i /\ tab[t].revision # 0
          /\ ~ tab[t].touched
          /\ Len(rows'[i]) > Len(rows[i])
          /\ tab'[t] # tab[t]
          => rows'[i][Len(rows'[i])].roles = rows[i][tab[t].revision].roles \cap tab[t].boxes
  <1>1. ConsoleInv /\ [Next]_vars => Claim
    <2> SUFFICES ASSUME ConsoleInv, [Next]_vars, NEW t \in Tabs, NEW i \in Ids, IsForm(t), tab[t].id = i,
                        tab[t].revision # 0, ~ tab[t].touched, Len(rows'[i]) > Len(rows[i]), tab'[t] # tab[t]
                 PROVE  rows'[i][Len(rows'[i])].roles = rows[i][tab[t].revision].roles \cap tab[t].boxes
      OBVIOUS
    <2>1. Next
      BY DEF vars
    <2>2. PICK k \in Ids : Save(t, k)
      BY <2>1, OnlySavesWrite
    <2>3. k = i /\ rows' # rows
      <3>1. i # Null
        BY ConsoleAssumption
      <3>2. Len(rows[i]) \in Nat
        BY DEF ConsoleInv, TypeOK
      <3> QED
        BY <2>2, <3>1, <3>2 DEF Save
    <2>4. rows' = [rows EXCEPT ![i] = Append(@, Submitted(tab[t]))]
      BY <2>2, <2>3 DEF Save
    <2>5. rows[i] \in Seq(Row) /\ rows'[i] = Append(rows[i], Submitted(tab[t]))
      BY <2>4 DEF ConsoleInv, TypeOK
    <2>6. rows'[i][Len(rows'[i])] = Submitted(tab[t])
      <3>1. \A x : Len(Append(rows[i], x)) = Len(rows[i]) + 1 /\ Append(rows[i], x)[Len(rows[i]) + 1] = x
        BY <2>5
      <3> QED
        BY <2>5, <3>1
    <2>7. tab[t] \in Form /\ tab[t] \notin Page /\ tab[t] # Null
      BY TabsByKind DEF IsForm, Form, Page
    <2>8. tab[t].roles = rows[i][tab[t].revision].roles
      BY <2>7, ConsoleAssumption DEF ConsoleInv, TabsAreSound, Sound
    <2> QED
      BY <2>6, <2>8 DEF Submitted
  <1> QED
    BY <1>1, ConsoleInvariant, PTL DEF Spec, RolesSurviveEditing

----------------------------------------------------------------------------
(* The store under the pages *)

\* The variable of AnnouncementStore, as AdminConsoleRefinement maps it.
Shown == [i \in Ids |-> IF Exists(i) THEN Current(i) ELSE Null]

\* The two modules take an operation from the same definitions.
LEMMA StoreIsConsoles ==
    /\ Store!Ops = Ops /\ Store!Severities = Severities
    /\ \A severity : Store!Drafted(severity) = Drafted(severity)
    /\ \A op, row, p : /\ Store!Accepts(op, row, p) = Accepts(op, row, p)
                       /\ Store!After(op, row, p) = After(op, row, p)
  BY DEF Store!Ops, Ops, Store!Severities, Severities, Store!Drafted, Drafted,
         Store!Accepts, Accepts, Store!After, After

\* One announcement changes.
LEMMA OneIsShown ==
    ASSUME NEW i \in Ids, NEW s, Exists(i)', Current(i)' = s, \A j \in Ids : j # i => rows'[j] = rows[j]
    PROVE  Shown' = [Shown EXCEPT ![i] = s]
  <1>1. Shown'[i] = s
    BY DEF Shown
  <1>2. \A j \in Ids : j # i => Shown'[j] = Shown[j]
    BY DEF Shown, Exists, Current, Last
  <1>3. DOMAIN Shown = Ids /\ Shown' = [j \in Ids |-> Shown'[j]]
    BY DEF Shown
  <1> QED
    BY <1>1, <1>2, <1>3

LEMMA StandingIsShown ==
    ASSUME ConsoleInv, NEW i \in Ids, Exists(i), NEW s \in Standing,
           rows' = [rows EXCEPT ![i][Len(rows[i])].at = s]
    PROVE  /\ Shown[i] = Current(i) /\ Shown[i] # Null
           /\ Shown' = [Shown EXCEPT ![i] = s]
  <1> DEFINE n == Len(rows[i])
             new == [rows[i] EXCEPT ![n] = [@ EXCEPT !.at = s]]
  <1>1. n \in DOMAIN rows[i] /\ rows[i] \in Seq(Row) /\ rows[i][n] \in Row
    BY LastOfExisting DEF ConsoleInv, TypeOK, Last
  <1>2. [rows[i][n] EXCEPT !.at = s] \in Row /\ [rows[i][n] EXCEPT !.at = s].at = s
    BY <1>1 DEF Row
  <1>3. new \in Seq(Row) /\ Len(new) = n /\ new[n].at = s /\ n \in Nat \ {0}
    <2>1. n \in Nat \ {0}
      BY LastOfExisting DEF ConsoleInv
    <2>2. new[n] = [rows[i][n] EXCEPT !.at = s]
      BY <1>1
    <2>3. new \in Seq(Row) /\ Len(new) = n
      BY <1>1, <1>2
    <2> QED
      BY <1>2, <2>1, <2>2, <2>3
  <1>4. rows \in [Ids -> Seq(Row)] /\ rows' = [rows EXCEPT ![i] = new]
    BY DEF ConsoleInv, TypeOK
  <1>5. Shown[i] = Current(i) /\ Shown[i] # Null
    BY LastOfExisting, NullIsNoStanding DEF Shown, ConsoleInv
  <1> HIDE DEF new, n
  <1>6. Exists(i)' /\ Current(i)' = s
    BY <1>3, <1>4 DEF Exists, Current, Last
  <1>7. \A j \in Ids : j # i => rows'[j] = rows[j]
    BY <1>4
  <1>8. Shown' = [Shown EXCEPT ![i] = s]
    BY <1>6, <1>7, OneIsShown
  <1> QED
    BY <1>5, <1>8

LEMMA RevisionIsShown ==
    ASSUME ConsoleInv, NEW i \in Ids, NEW row \in Row, rows' = [rows EXCEPT ![i] = Append(@, row)]
    PROVE  Shown' = [Shown EXCEPT ![i] = row.at]
  <1> DEFINE new == Append(rows[i], row)
  <1>1. rows \in [Ids -> Seq(Row)] /\ rows' = [rows EXCEPT ![i] = new]
    BY DEF ConsoleInv, TypeOK
  <1>2. new \in Seq(Row) /\ new # <<>> /\ new[Len(new)] = row
    BY <1>1
  <1> HIDE DEF new
  <1>3. Exists(i)' /\ Current(i)' = row.at
    BY <1>1, <1>2 DEF Exists, Current, Last
  <1>4. \A j \in Ids : j # i => rows'[j] = rows[j]
    BY <1>1
  <1> QED
    BY <1>3, <1>4, OneIsShown

LEMMA ClickIsAct ==
    ASSUME ConsoleInv, NEW t \in Tabs, NEW op \in Ops, Click(t, op)
    PROVE  [Store!Next]_Shown
  <1> DEFINE i == tab[t].id
             p == tab[t].viewer
  <1>1. tab[t] \in Page /\ Exists(i) /\ i \in Ids /\ p \in Publishers
    BY TabsByKind DEF Click, Page
  <1>2. CASE rows' = rows
    BY <1>2 DEF Shown, Exists, Current, Last
  <1>3. CASE Accepts(op, Current(i), p)
             /\ rows' = [rows EXCEPT ![i][Len(rows[i])].at = After(op, @, p)]
    <2>1. After(op, Current(i), p) \in Standing
      BY <1>1, LastOfExisting, AfterIsStanding DEF ConsoleInv
    <2>2. rows' = [rows EXCEPT ![i][Len(rows[i])].at = After(op, Current(i), p)]
      BY <1>3 DEF Current, Last
    <2>3. /\ Shown[i] = Current(i) /\ Shown[i] # Null
          /\ Shown' = [Shown EXCEPT ![i] = After(op, Current(i), p)]
      BY <1>1, <2>1, <2>2, StandingIsShown
    <2> HIDE DEF i, p
    <2>4. Store!Accepts(op, Shown[i], p) /\ Shown' = [Shown EXCEPT ![i] = Store!After(op, @, p)]
      BY <1>3, <2>3, StoreIsConsoles
    <2>5. Store!Act(i, op, p)
      BY <2>3, <2>4 DEF Store!Act, Shown
    <2> QED
      BY <1>1, <2>5, StoreIsConsoles DEF Store!Next
  <1> QED
    BY <1>2, <1>3 DEF Click

LEMMA SaveIsSave ==
    ASSUME ConsoleInv, NEW t \in Tabs, NEW i \in Ids, Save(t, i)
    PROVE  [Store!Next]_Shown
  <1> DEFINE form == tab[t]
  <1>1. form \in Form
    BY TabsByKind DEF Save
  <1>2. CASE rows' = rows
    BY <1>2 DEF Shown, Exists, Current, Last
  <1>3. CASE /\ Exists(i) => Current(i).status = "draft"
             /\ rows' = [rows EXCEPT ![i] = Append(@, Submitted(form))]
    <2>1. Submitted(form) \in Row /\ Submitted(form).at = Drafted(form.severity) /\ form.severity \in Severities
      BY <1>1 DEF Submitted, Form, Row, Standing, Drafted, Statuses
    <2>2. Shown' = [Shown EXCEPT ![i] = Store!Drafted(form.severity)]
      BY <1>3, <2>1, RevisionIsShown, StoreIsConsoles
    <2>3. Shown[i] # Null => Shown[i].status = "draft"
      BY <1>3 DEF Shown
    <2> HIDE DEF form
    <2>4. Store!Save(i, form.severity)
      BY <2>2, <2>3 DEF Store!Save, Shown
    <2> QED
      BY <2>1, <2>4, StoreIsConsoles DEF Store!Next
  <1> QED
    BY <1>2, <1>3 DEF Save

LEMMA SendingIsSend ==
    ASSUME ConsoleInv, NEW i \in Ids, WorkerSends(i)
    PROVE  [Store!Next]_Shown
  <1> DEFINE s == [Current(i) EXCEPT !.status = "published"]
  <1>1. Exists(i) /\ Current(i).status = "scheduled"
    BY DEF WorkerSends, WithStatus
  <1>2. s \in Standing
    BY <1>1, LastOfExisting DEF ConsoleInv, Standing, Statuses
  <1>3. rows' = [rows EXCEPT ![i][Len(rows[i])].at = s]
    BY DEF WorkerSends, Current, Last
  <1> HIDE DEF s
  <1>4. /\ Shown[i] = Current(i) /\ Shown[i] # Null
        /\ Shown' = [Shown EXCEPT ![i] = s]
    BY <1>1, <1>2, <1>3, StandingIsShown
  <1>5. Shown' = [j \in Ids |-> IF j \in {i} THEN [Shown[j] EXCEPT !.status = "published"] ELSE Shown[j]]
    <2>1. DOMAIN Shown = Ids
      BY DEF Shown
    <2> QED
      BY <1>4, <2>1 DEF s
  <1>6. Store!Send({i})
    BY <1>1, <1>4, <1>5 DEF Store!Send, Shown
  <1> QED
    BY <1>6 DEF Store!Next

\* Whatever the pages show, their rows change as the store lets them.
THEOREM ConsoleUsesTheStore == Spec => WorksWithStore
  <1>1. Init => Store!Init
    BY DEF Init, Store!Init, Exists
  <1>2. ConsoleInv /\ [Next]_vars => [Store!Next]_Shown
    <2> SUFFICES ASSUME ConsoleInv, [Next]_vars PROVE [Store!Next]_Shown
      OBVIOUS
    <2>1. \/ rows' = rows
          \/ \E t \in Tabs, op \in Ops : Click(t, op)
          \/ \E t \in Tabs, i \in Ids : Save(t, i)
          \/ \E i \in Ids : WorkerSends(i)
      BY DEF Next, vars, ComposeBlank, ComposeFromTemplate, OpenReview, OpenList, ComposeCopy, ComposeEdit,
             Open, Arm, Refresh, SaveTemplate, Close, Turn, SetSeverity, ToggleRole, DeleteTemplate, Configure
    <2>2. CASE rows' = rows
      BY <2>2 DEF Shown, Exists, Current, Last
    <2> QED
      BY <2>1, <2>2, ClickIsAct, SaveIsSave, SendingIsSend
  <1> QED
    BY <1>1, <1>2, ConsoleInvariant, PTL DEF Spec, WorksWithStore, Store!Spec, Shown

============================================================================
