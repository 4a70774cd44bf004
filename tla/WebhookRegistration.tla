------------------------ MODULE WebhookRegistration ------------------------
(***************************************************************************)
(* Webhook subscriptions (src/core/webhook-flow.ts, subscriptions.ts,      *)
(* tokens-flow.ts) and what is posted to their endpoints, under concurrent *)
(* requests behind the limiter (app/actions.ts,                            *)
(* app/manage/[token]/page.tsx, app/u/[token]/route.ts) and with the       *)
(* delivery adapter of the worker (src/adapters/webhook.ts).               *)
(*                                                                         *)
(* A request is a sequence of statements without a transaction and may die *)
(* between any two.  A row is numbered as it is made, and its secret and   *)
(* its unsubscribe token go by its number: all three are made together and *)
(* live as long.  Each lookup of a name may have another answer: some set  *)
(* of "public" and "forbidden" addresses (src/core/safe-url.ts).           *)
(***************************************************************************)
EXTENDS RateLimit

CONSTANTS
    Endpoints,      \* the URLs registered
    Filters,        \* the filters of a subscription
    MaxRows         \* bound on the rows ever made

Ids == 1..MaxRows

Destinations == {"public", "forbidden"}

Row  == [id: Ids, filters: Filters, verified: BOOLEAN]

\* A request past the limiter: the statement it is at, the URL it is about,
\* the filters it brings, the number whose secret or token it presents, the
\* row it goes by and the addresses its connection is pinned to.
Places  == {"vet", "select", "insert", "answer", "lost", "applyLost", "apply", "lookup", "vetTest", "post", "mark"}
Request == [at: Places, url: Endpoints, filters: Filters, knows: Ids \cup {Null},
            id: Ids \cup {Null}, pinned: SUBSET Destinations]

\* A delivery the worker makes: the subscription that is its target.
Delivery == [at: {"read", "vet", "post"}, id: Ids, url: Endpoints \cup {Null}, pinned: SUBSET Destinations]

ASSUME WebhookAssumption ==
    /\ MaxRows \in Nat /\ Tokens = Ids
    /\ Null \notin Row /\ Null \notin Request /\ Null \notin Delivery
    /\ Null \notin Ids

VARIABLES
    row,            \* per URL, its row of table subscriptions, or Null
    made,           \* rows made so far
    request,        \* per visitor, what its request remembers, or Null
    delivery,       \* the delivery under way, or Null
    passed,         \* numbers with whose secret a test was signed and answered 2xx
    shown,          \* per number, how often its secret was shown
    reached,        \* addresses connected to
    told            \* numbers announcements were signed for

webhooks == <<row, made, request, delivery, passed, shown, reached, told>>
vars     == <<limits, webhooks>>

Init ==
    /\ InitLimits
    /\ row = [e \in Endpoints |-> Null]
    /\ made = 0
    /\ request = [v \in Visitors |-> Null] /\ delivery = Null
    /\ passed = {} /\ shown = [i \in Ids |-> 0]
    /\ reached = {} /\ told = {}

----------------------------------------------------------------------------
(* Requests and rows *)

At(v, place) == request[v] # Null /\ request[v].at = place

Through(v, route) == visit[v] # Null /\ visit[v].at = "through" /\ visit[v].route = route

Goto(v, place) == request' = [request EXCEPT ![v].at = place] /\ UNCHANGED limits

\* The request is over.
End(v) ==
    /\ request' = [request EXCEPT ![v] = Null]
    /\ visit' = [visit EXCEPT ![v] = Null]
    /\ UNCHANGED <<window, came, counts, granted>>

IsRow(e, i) == row[e] # Null /\ row[e].id = i

\* applyFilters and verifySubscription write by id: the row that has it, if one
\* still does.
SetFilters(i, f) ==
    row' = [e \in Endpoints |-> IF IsRow(e, i) THEN [row[e] EXCEPT !.filters = f] ELSE row[e]]

\* Faulty variant: the subscription is marked by its URL.
VerifyByUrl(v) ==
    row' = [row EXCEPT ![request[v].url] = IF @ = Null THEN Null ELSE [@ EXCEPT !.verified = TRUE]]

VerifySubscription(v) ==
    row' = [e \in Endpoints |-> IF IsRow(e, request[v].id) THEN [row[e] EXCEPT !.verified = TRUE] ELSE row[e]]

----------------------------------------------------------------------------
(* registerWebhook *)

\* The web form sends no secret; the operation takes one.
Register(v) ==
    /\ Through(v, "register") /\ request[v] = Null
    /\ \E e \in Endpoints, f \in Filters, s \in (1..made) \cup {Null} :
         request' = [request EXCEPT ![v] = [at |-> "vet", url |-> e, filters |-> f, knows |-> s,
                                            id |-> Null, pinned |-> {}]]
    /\ UNCHANGED <<limits, row, made, delivery, passed, shown, reached, told>>

\* Faulty variant: one good address is enough.
SomePublic(answer) == "public" \in answer

\* resolveDeliverableUrl: an answer with a forbidden address is refused, and
\* so is none.
Deliverable(answer) == answer # {} /\ "forbidden" \notin answer

\* What was vetted is what the dispatcher is pinned to.
Vet(v, place, next) ==
    /\ At(v, place)
    /\ \E answer \in SUBSET Destinations :
         IF Deliverable(answer)
         THEN /\ request' = [request EXCEPT ![v].at = next, ![v].pinned = answer]
              /\ UNCHANGED limits
         ELSE End(v)
    /\ UNCHANGED <<row, made, delivery, passed, shown, reached, told>>

\* Faulty variant: knowing that the URL is registered is enough.
AnyoneMayChange(v) == TRUE

MayChange(v) == request[v].knows = row[request[v].url].id

Select(v) ==
    /\ At(v, "select")
    /\ LET found == row[request[v].url]
       IN  \/ /\ found # Null /\ MayChange(v)
              /\ request' = [request EXCEPT ![v].at = "apply", ![v].id = found.id]
              /\ UNCHANGED limits
           \/ /\ found = Null /\ request[v].knows = Null
              /\ Goto(v, "insert")
           \/ /\ IF found = Null THEN request[v].knows # Null ELSE ~MayChange(v)
              /\ End(v)
    /\ UNCHANGED <<row, made, delivery, passed, shown, reached, told>>

\* createSubscription, committed before the answer; of two requests that saw no
\* row the second meets the unique constraint.
Insert(v) ==
    /\ At(v, "insert")
    /\ IF row[request[v].url] = Null
       THEN /\ made < MaxRows
            /\ made' = made + 1
            /\ row' = [row EXCEPT ![request[v].url] =
                         [id |-> made + 1, filters |-> request[v].filters, verified |-> FALSE]]
            /\ request' = [request EXCEPT ![v].at = "answer", ![v].id = made + 1]
            /\ UNCHANGED limits
       ELSE Goto(v, "lost") /\ UNCHANGED <<row, made>>
    /\ UNCHANGED <<delivery, passed, shown, reached, told>>

\* The answer to who made the row: its secret, and its manage link.
Answer(v) ==
    /\ At(v, "answer")
    /\ shown' = [shown EXCEPT ![request[v].id] = @ + 1]
    /\ End(v)
    /\ UNCHANGED <<row, made, delivery, passed, reached, told>>

\* Faulty variant: the loser is answered like the winner.
ReselectAndShow(v) ==
    /\ At(v, "lost")
    /\ IF row[request[v].url] = Null THEN End(v) /\ UNCHANGED shown
       ELSE /\ request' = [request EXCEPT ![v].at = "applyLost", ![v].id = row[request[v].url].id]
            /\ shown' = [shown EXCEPT ![row[request[v].url].id] = @ + 1]
            /\ UNCHANGED limits
    /\ UNCHANGED <<row, made, delivery, passed, reached, told>>

\* The loser goes by the winner's row; when that is gone too, it throws.
Reselect(v) ==
    /\ At(v, "lost")
    /\ IF row[request[v].url] = Null THEN End(v)
       ELSE /\ request' = [request EXCEPT ![v].at = "applyLost", ![v].id = row[request[v].url].id]
            /\ UNCHANGED limits
    /\ UNCHANGED <<row, made, delivery, passed, shown, reached, told>>

\* applyFilters: the owner's request goes on to the test, the loser's is
\* answered "not verified".
Apply(v) ==
    /\ request[v] # Null /\ request[v].at \in {"apply", "applyLost"}
    /\ SetFilters(request[v].id, request[v].filters)
    /\ IF request[v].at = "apply" THEN Goto(v, "post") ELSE End(v)
    /\ UNCHANGED <<made, delivery, passed, shown, reached, told>>

----------------------------------------------------------------------------
(* The test event *)

\* sendWebhookTest, from the form or the manage page.
Test(v) ==
    /\ Through(v, "test") /\ request[v] = Null
    /\ LET t == visit[v].subject
           found == {e \in Endpoints : IsRow(e, t)}
       IN  IF found = {} THEN End(v)
           ELSE \E e \in found :
                  /\ request' = [request EXCEPT ![v] =
                       [at |-> "vetTest", url |-> e, filters |-> row[e].filters, knows |-> t,
                        id |-> t, pinned |-> {}]]
                  /\ UNCHANGED limits
    /\ UNCHANGED <<row, made, delivery, passed, shown, reached, told>>

\* pinnedDispatcher
ConnectsTo(pinned) == pinned

\* runVerification: the endpoint may answer 2xx, or anything else, or not.
Post(v) ==
    /\ At(v, "post")
    /\ \E address \in ConnectsTo(request[v].pinned) : reached' = reached \cup {address}
    /\ \/ passed' = passed \cup {request[v].id} /\ Goto(v, "mark")
       \/ End(v) /\ UNCHANGED passed
    /\ UNCHANGED <<row, made, delivery, shown, told>>

Mark(v) ==
    /\ At(v, "mark")
    /\ VerifySubscription(v) /\ End(v)
    /\ UNCHANGED <<made, delivery, passed, shown, reached, told>>

Die(v) ==
    /\ request[v] # Null /\ End(v)
    /\ UNCHANGED <<row, made, delivery, passed, shown, reached, told>>

----------------------------------------------------------------------------
(* The manage link and the worker *)

\* updateFiltersByToken and unsubscribeByToken look the row up by its token
\* and write it by its id, which lives as long: one step.
UpdateFiltersByToken(i, f) ==
    /\ i <= made /\ SetFilters(i, f)
    /\ UNCHANGED <<limits, made, request, delivery, passed, shown, reached, told>>

UnsubscribeByToken(i) ==
    /\ i <= made
    /\ row' = [e \in Endpoints |-> IF IsRow(e, i) THEN Null ELSE row[e]]
    /\ UNCHANGED <<limits, made, request, delivery, passed, shown, reached, told>>

\* Faulty variant: the unverified are targets too.
TargetsAll == {e \in Endpoints : row[e] # Null}

\* countFanoutTargets
Targets == {e \in Endpoints : row[e] # Null /\ row[e].verified}

Enqueue ==
    /\ delivery = Null
    /\ \E e \in Targets : delivery' = [at |-> "read", id |-> row[e].id, url |-> Null, pinned |-> {}]
    /\ UNCHANGED <<limits, row, made, request, passed, shown, reached, told>>

\* deliver: the row may be gone by now, and the URL be another row's.
ReadTarget ==
    /\ delivery # Null /\ delivery.at = "read"
    /\ LET found == {e \in Endpoints : IsRow(e, delivery.id)}
       IN  IF found = {} THEN delivery' = Null
           ELSE \E e \in found : delivery' = [delivery EXCEPT !.at = "vet", !.url = e]
    /\ UNCHANGED <<limits, row, made, request, passed, shown, reached, told>>

VetTarget ==
    /\ delivery # Null /\ delivery.at = "vet"
    /\ \E answer \in SUBSET Destinations :
         delivery' = IF Deliverable(answer) THEN [delivery EXCEPT !.at = "post", !.pinned = answer] ELSE Null
    /\ UNCHANGED <<limits, row, made, request, passed, shown, reached, told>>

PostTarget ==
    /\ delivery # Null /\ delivery.at = "post"
    /\ \E address \in ConnectsTo(delivery.pinned) : reached' = reached \cup {address}
    /\ told' = told \cup {delivery.id}
    /\ delivery' = Null
    /\ UNCHANGED <<limits, row, made, request, passed, shown>>

----------------------------------------------------------------------------

Next ==
    \/ NextLimits /\ UNCHANGED webhooks
    \/ \E v \in Visitors :
         \/ Register(v) \/ Vet(v, "vet", "select") \/ Select(v) \/ Insert(v) \/ Answer(v) \/ Reselect(v) \/ Apply(v)
         \/ Test(v) \/ Vet(v, "vetTest", "post") \/ Post(v) \/ Mark(v) \/ Die(v)
    \/ \E i \in Ids : UnsubscribeByToken(i) \/ \E f \in Filters : UpdateFiltersByToken(i, f)
    \/ Enqueue \/ ReadTarget \/ VetTarget \/ PostTarget

Spec == Init /\ [][Next]_vars

----------------------------------------------------------------------------
(* Properties *)

\* Every variable holds values the code can store; a number is in use once
\* only.
TypeOK ==
    /\ LimitsTypeOK
    /\ row \in [Endpoints -> Row \cup {Null}]
    /\ made \in 0..MaxRows
    /\ request \in [Visitors -> Request \cup {Null}]
    /\ delivery \in Delivery \cup {Null}
    /\ passed \subseteq Ids /\ told \subseteq Ids
    /\ shown \in [Ids -> Nat]
    /\ reached \subseteq Destinations

\* A subscription is active only if a test signed with its own secret was
\* answered 2xx, although the row may be removed and the URL registered anew
\* while a test is in flight (runVerification).
VerifiedByItsOwnTest == \A e \in Endpoints : row[e] # Null /\ row[e].verified => row[e].id \in passed

\* "The server never connects to a non-public address on a subscriber's
\* behalf", whatever the name server answers between the check and the
\* connection (resolveDeliverableUrl, pinnedDispatcher).
PublicAddressesOnly == reached \subseteq {"public"}

\* Announcements are signed with the secret of a subscription that passed its
\* test, also when it is removed or replaced after they were enqueued.
ToldWhoPassed == told \subseteq passed

\* "A webhook secret is shown exactly once and never re-displayed": at most once,
\* although several requests race for a URL and the losers go by the winner's row.  A
\* request that dies before its answer leaves a secret nobody was shown
\* (registerWebhook).
SecretsAreShownAtMostOnce == \A i \in Ids : shown[i] <= IF i <= made THEN 1 ELSE 0

\* The request that made the step from outside the manage page.
Moved(v) == request'[v] # request[v]

\* "Modifying an existing registration requires the secret it was issued
\* with", or its link - except for the request that lost the race to make
\* the row, which writes its filters to the winner's (registerWebhook).
OnlyHoldersReachIn ==
    [][\A e \in Endpoints, v \in Visitors :
          /\ row[e] # Null /\ row'[e] # Null /\ row'[e].id = row[e].id
          /\ row'[e].filters # row[e].filters /\ Moved(v)
          => \/ request[v].knows = row[e].id
             \/ request[v].at = "applyLost" /\ request[v].knows = Null]_vars

============================================================================
