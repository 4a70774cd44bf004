------------------------- MODULE EmailSubscription -------------------------
(***************************************************************************)
(* The subscription of one email address (src/core/subscribe-flow.ts,      *)
(* tokens-flow.ts, subscriptions.ts) under concurrent requests.  A request *)
(* is a sequence of statements without a transaction, so requests          *)
(* interleave between any two statements, and may die there.               *)
(*                                                                         *)
(* Anyone may submit the form for the address; a link is used only by who  *)
(* reads its mail.  Filters are whole: the coalesce of the update is       *)
(* Merged, and Null is a form without a choice.  Tokens are numbered in    *)
(* the order they are made, and a row is named by its first one.  A link   *)
(* that finds no row changes nothing and is not a step.                    *)
(***************************************************************************)
EXTENDS Naturals

CONSTANTS
    Requests,       \* web requests that may be in flight at a time
    Filters,        \* the filters a subscription can have
    Default,        \* those of a form without a choice
    MaxTokens,      \* bound on the tokens ever made
    Null

Tokens == 1..MaxTokens

\* The row of the address.  Its unsubscribe token lives and dies with it, so
\* the row's name stands for it.
Row == [id: Tokens, verified: BOOLEAN, filters: Filters, verifyToken: Tokens \cup {Null},
        pendingToken: Tokens \cup {Null}, pendingFilters: Filters \cup {Null}]

Searching == {"look", "insert", "reselect", "create"}
Mailing   == {"mailConfirm", "mailChange"}
Places    == Searching \cup Mailing
                 \cup {"apply", "renew", "pend", "verify", "applyChange", "clear", "save", "delete"}

\* A request: the statement it is at, the filters it brings, the row it goes
\* by, the token of its link, its attempt, the tokens there were when it
\* began, and whether the address was confirmed since.
Request ==
    {w \in [at: Places, filters: Filters \cup {Null}, id: Tokens \cup {Null}, token: Tokens \cup {Null},
            attempt: 0..1, began: 0..MaxTokens, overtaken: BOOLEAN] :
        /\ w.at \notin Searching => w.id # Null
        /\ w.at \in Mailing => w.token # Null}

Link == [kind: {"confirm", "change", "manage"}, token: Tokens, id: Tokens]

ASSUME EmailAssumption ==
    /\ Default \in Filters /\ Null \notin Filters
    /\ MaxTokens \in Nat
    /\ Null \notin Nat /\ Null \notin Row /\ Null \notin Request

VARIABLES
    row,            \* the address's row of table subscriptions, or Null
    request,        \* per request, what it remembers, or Null
    issued,         \* tokens made so far
    stale,          \* tokens up to this one were issued over 72 hours ago
    mailed,         \* links in the mailbox of the address
    confirmed,      \* tokens of the confirmation links submitted
    lost            \* tokens whose request died before its mail was sent

vars == <<row, request, issued, stale, mailed, confirmed, lost>>

Init ==
    /\ row = Null
    /\ request = [r \in Requests |-> Null]
    /\ issued = 0 /\ stale = 0
    /\ mailed = {} /\ confirmed = {} /\ lost = {}

----------------------------------------------------------------------------
(* Statements *)

Fresh == issued + 1

\* Every update and delete is by id.
IsRow(id) == row # Null /\ row.id = id

Merged(filters, f) == IF f = Null THEN filters ELSE f

NewRow(t, f) ==
    [id |-> t, verified |-> FALSE, filters |-> Merged(Default, f), verifyToken |-> t,
     pendingToken |-> Null, pendingFilters |-> Null]

At(r, place) == request[r] # Null /\ request[r].at = place

Continue(r, w) == request' = [request EXCEPT ![r] = w]
Goto(r, place) == Continue(r, [request[r] EXCEPT !.at = place])
Finish(r)      == Continue(r, Null)

Blank == [at |-> "look", filters |-> Null, id |-> Null, token |-> Null, attempt |-> 0, began |-> 0, overtaken |-> FALSE]

----------------------------------------------------------------------------
(* startEmailSubscription and updateExistingAndNotify *)

Looked(w) == [w EXCEPT !.at = IF row = Null THEN "insert" ELSE "reselect"]

Subscribe(r, f) ==
    /\ request[r] = Null
    /\ Continue(r, Looked([Blank EXCEPT !.filters = f]))
    /\ UNCHANGED <<row, issued, stale, mailed, confirmed, lost>>

\* The row vanished: the second call of startEmailSubscription.
Look(r) ==
    /\ At(r, "look")
    /\ Continue(r, Looked(request[r]))
    /\ UNCHANGED <<row, issued, stale, mailed, confirmed, lost>>

CreateRow(r) ==
    /\ row = Null
    /\ issued < MaxTokens
    /\ row' = NewRow(Fresh, request[r].filters)
    /\ issued' = Fresh
    /\ Continue(r, [request[r] EXCEPT !.at = "mailConfirm", !.id = Fresh, !.token = Fresh])

\* Another request's row has the address: the unique constraint refuses this one.
Insert(r) ==
    /\ At(r, "insert")
    /\ \/ CreateRow(r)
       \/ row # Null /\ Goto(r, "reselect") /\ UNCHANGED <<row, issued>>
    /\ UNCHANGED <<stale, mailed, confirmed, lost>>

\* The last insert is outside the catch: refused, the request throws.
Create(r) ==
    /\ At(r, "create")
    /\ \/ CreateRow(r)
       \/ row # Null /\ Finish(r) /\ UNCHANGED <<row, issued>>
    /\ UNCHANGED <<stale, mailed, confirmed, lost>>

\* Faulty variant: whoever knows the address changes its filters.
ReselectTrusting(r) ==
    /\ At(r, "reselect")
    /\ row # Null
    /\ Continue(r, [request[r] EXCEPT !.at = "apply", !.id = row.id])
    /\ UNCHANGED <<row, issued, stale, mailed, confirmed, lost>>

Reselect(r) ==
    /\ At(r, "reselect")
    /\ \/ row = Null /\ request[r].attempt = 0
          /\ Continue(r, [request[r] EXCEPT !.at = "look", !.attempt = 1])
       \/ row = Null /\ request[r].attempt = 1 /\ Goto(r, "create")
       \/ row # Null /\ row.verified /\ Continue(r, [request[r] EXCEPT !.at = "pend", !.id = row.id])
       \/ row # Null /\ ~row.verified /\ Continue(r, [request[r] EXCEPT !.at = "apply", !.id = row.id])
    /\ UNCHANGED <<row, issued, stale, mailed, confirmed, lost>>

\* A verified address is asked first.  If the row is gone by now the mail
\* goes out all the same.
Pend(r) ==
    /\ At(r, "pend")
    /\ issued < MaxTokens
    /\ row' = IF IsRow(request[r].id)
              THEN [row EXCEPT !.pendingToken = Fresh, !.pendingFilters = request[r].filters] ELSE row
    /\ issued' = Fresh
    /\ Continue(r, [request[r] EXCEPT !.at = "mailChange", !.token = Fresh])
    /\ UNCHANGED <<stale, mailed, confirmed, lost>>

\* An unverified one is not: the filters are applied at once ...
Apply(r) ==
    /\ At(r, "apply")
    /\ row' = IF IsRow(request[r].id)
              THEN [row EXCEPT !.filters = Merged(@, request[r].filters)] ELSE row
    /\ Goto(r, "renew")
    /\ UNCHANGED <<issued, stale, mailed, confirmed, lost>>

\* Faulty variant: the link carries the token that was read.
RenewButMailOld(r) ==
    /\ At(r, "renew")
    /\ issued < MaxTokens
    /\ row' = IF IsRow(request[r].id) THEN [row EXCEPT !.verifyToken = Fresh] ELSE row
    /\ issued' = Fresh
    /\ Continue(r, [request[r] EXCEPT !.at = "mailConfirm", !.token = request[r].id])
    /\ UNCHANGED <<stale, mailed, confirmed, lost>>

\* ... and a new link replaces the old one.
Renew(r) ==
    /\ At(r, "renew")
    /\ issued < MaxTokens
    /\ row' = IF IsRow(request[r].id) THEN [row EXCEPT !.verifyToken = Fresh] ELSE row
    /\ issued' = Fresh
    /\ Continue(r, [request[r] EXCEPT !.at = "mailConfirm", !.token = Fresh])
    /\ UNCHANGED <<stale, mailed, confirmed, lost>>

Mail(r, place, kind) ==
    /\ At(r, place)
    /\ mailed' = mailed \cup {[kind |-> kind, token |-> request[r].token, id |-> request[r].id]}
    /\ Finish(r)
    /\ UNCHANGED <<row, issued, stale, confirmed, lost>>

SendConfirmation(r)  == Mail(r, "mailConfirm", "confirm")
SendConfirmChange(r) == Mail(r, "mailChange", "change")

----------------------------------------------------------------------------
(* What the reader of the mail does: confirmSubscription,                  *)
(* confirmFilterChange, updateFiltersByToken, unsubscribeByToken           *)

\* Faulty variant: any link opens the row.
OpensAny(l) == row # Null /\ row.verifyToken # Null /\ l.token > stale

Opens(l) == row # Null /\ row.verifyToken = l.token /\ l.token > stale

ConfirmSubscription(r) ==
    /\ request[r] = Null
    /\ \E l \in mailed :
          /\ l.kind = "confirm" /\ Opens(l)
          /\ confirmed' = confirmed \cup {l.token}
          /\ Continue(r, [Blank EXCEPT !.at = "verify", !.id = row.id, !.token = l.token])
    /\ UNCHANGED <<row, issued, stale, mailed, lost>>

VerifySubscription(r) ==
    /\ At(r, "verify")
    /\ row' = IF IsRow(request[r].id) THEN [row EXCEPT !.verified = TRUE, !.verifyToken = Null] ELSE row
    /\ request' = [q \in Requests |->
                     IF q = r \/ request[q] = Null THEN Null
                     ELSE [request[q] EXCEPT !.overtaken = @ \/ IsRow(request[r].id)]]
    /\ UNCHANGED <<issued, stale, mailed, confirmed, lost>>

\* Faulty variant: a link that was replaced still opens the pending change.
OpensAnyChange(l) == row # Null /\ row.pendingToken # Null /\ l.token > stale

OpensChange(l) == row # Null /\ row.pendingToken = l.token /\ l.token > stale

ConfirmFilterChange(r) ==
    /\ request[r] = Null
    /\ \E l \in mailed :
          /\ l.kind = "change" /\ OpensChange(l)
          /\ Continue(r, [Blank EXCEPT !.at = "applyChange", !.id = row.id, !.token = l.token,
                                       !.filters = row.pendingFilters, !.began = issued])
    /\ UNCHANGED <<row, issued, stale, mailed, confirmed, lost>>

UpdateFilters(r, place) ==
    /\ At(r, place)
    /\ row' = IF IsRow(request[r].id)
              THEN [row EXCEPT !.filters = Merged(@, request[r].filters)] ELSE row
    /\ UNCHANGED <<issued, stale, mailed, confirmed, lost>>

ApplyChange(r) == UpdateFilters(r, "applyChange") /\ Goto(r, "clear")

ClearPending(r) ==
    /\ At(r, "clear")
    /\ row' = IF IsRow(request[r].id)
              THEN [row EXCEPT !.pendingToken = Null, !.pendingFilters = Null] ELSE row
    /\ Finish(r)
    /\ UNCHANGED <<issued, stale, mailed, confirmed, lost>>

\* The link in the footer of an announcement finds its row.
HasManageLink == row # Null /\ \E l \in mailed : l.kind = "manage" /\ l.id = row.id

UpdateFiltersByToken(r, f) ==
    /\ request[r] = Null /\ HasManageLink
    /\ Continue(r, [Blank EXCEPT !.at = "save", !.id = row.id, !.filters = f])
    /\ UNCHANGED <<row, issued, stale, mailed, confirmed, lost>>

SaveFilters(r) == UpdateFilters(r, "save") /\ Finish(r)

UnsubscribeByToken(r) ==
    /\ request[r] = Null /\ HasManageLink
    /\ Continue(r, [Blank EXCEPT !.at = "delete", !.id = row.id])
    /\ UNCHANGED <<row, issued, stale, mailed, confirmed, lost>>

DeleteRow(r) ==
    /\ At(r, "delete")
    /\ row' = IF IsRow(request[r].id) THEN Null ELSE row
    /\ Finish(r)
    /\ UNCHANGED <<issued, stale, mailed, confirmed, lost>>

----------------------------------------------------------------------------
(* Around the requests *)

\* The email adapter of the worker.
Announce ==
    /\ row # Null /\ row.verified /\ ~HasManageLink
    /\ mailed' = mailed \cup {[kind |-> "manage", token |-> row.id, id |-> row.id]}
    /\ UNCHANGED <<row, request, issued, stale, confirmed, lost>>

\* 72 hours have passed since token t was issued.
Expire(t) ==
    /\ stale < t /\ t <= issued
    /\ stale' = t
    /\ UNCHANGED <<row, request, issued, mailed, confirmed, lost>>

\* The process dies, the connection breaks or the email sender throws.
Abort(r) ==
    /\ request[r] # Null
    /\ lost' = IF request[r].at \in Mailing THEN lost \cup {request[r].token} ELSE lost
    /\ Finish(r)
    /\ UNCHANGED <<row, issued, stale, mailed, confirmed>>

Start(r) ==
    \/ \E f \in Filters \cup {Null} : Subscribe(r, f)
    \/ Look(r) \/ Insert(r) \/ Create(r) \/ Reselect(r) \/ Pend(r) \/ Apply(r) \/ Renew(r)
    \/ SendConfirmation(r) \/ SendConfirmChange(r)

Click(r) ==
    \/ ConfirmSubscription(r) \/ VerifySubscription(r)
    \/ ConfirmFilterChange(r) \/ ApplyChange(r) \/ ClearPending(r)
    \/ \E f \in Filters : UpdateFiltersByToken(r, f)
    \/ SaveFilters(r) \/ UnsubscribeByToken(r) \/ DeleteRow(r)

Next ==
    \/ \E r \in Requests : Start(r) \/ Click(r) \/ Abort(r)
    \/ Announce
    \/ \E t \in Tokens : Expire(t)

Spec == Init /\ [][Next]_vars

----------------------------------------------------------------------------
(* Properties *)

\* Tables and requests hold what their columns allow.
TypeOK ==
    /\ row \in Row \cup {Null}
    /\ request \in [Requests -> Request \cup {Null}]
    /\ issued \in 0..MaxTokens /\ stale \in 0..issued
    /\ mailed \subseteq Link
    /\ confirmed \subseteq Tokens /\ lost \subseteq Tokens

\* Nothing is delivered to an address that did not confirm it: who reads its
\* mail submitted a link that was made for this very row.
ConfirmedByItsReader ==
    row # Null /\ row.verified =>
        \E l \in mailed : l.kind = "confirm" /\ l.id = row.id /\ l.token \in confirmed

\* A token in the row is in the mailbox or on its way there, unless the
\* request that made it died: nobody waits for a link that was never sent.
OnItsWay(t, kind, place) ==
    \/ t \in lost
    \/ \E l \in mailed : l.kind = kind /\ l.token = t
    \/ \E r \in Requests : At(r, place) /\ request[r].token = t

LinksAreOnTheirWay ==
    row # Null =>
        /\ row.verifyToken # Null  => OnItsWay(row.verifyToken, "confirm", "mailConfirm")
        /\ row.pendingToken # Null => OnItsWay(row.pendingToken, "change", "mailChange")

SameRow == row # Null /\ row' # Null /\ row'.id = row.id

ByLink(r) == At(r, "applyChange") \/ At(r, "save")

\* The filters of a confirmed address change by one of its links, or by a form
\* that was submitted before the address was confirmed.
OnlyLateFormsReachIn ==
    [][SameRow /\ row.verified /\ row'.filters # row.filters =>
          \E r \in Requests : /\ request[r] # Null /\ request'[r] # request[r]
                              /\ ByLink(r) \/ request[r].overtaken]_vars

\* A link to change filters is good until it is used, replaced by a newer one
\* or too old; only a click that began before it was made takes it away.
ChangeLinksAreKept ==
    [][SameRow /\ row.pendingToken # Null /\ row'.pendingToken # row.pendingToken =>
          \/ row'.pendingToken # Null /\ row'.pendingToken > row.pendingToken
          \/ \E r \in Requests : /\ At(r, "clear") /\ request'[r] # request[r]
                                 /\ row.pendingToken = request[r].token \/ row.pendingToken > request[r].began]_vars

=============================================================================
