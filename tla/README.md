# Announcement tool: TLA+ specifications

The announcement tool lets a small group of publishers write an announcement
once and delivers it to email, webhook, Discord, Telegram and Signal targets.
Everything it knows is in PostgreSQL; a web application and a worker act on it.
These specifications model what those two do to each other through the
database: READ COMMITTED transactions with row locks, worker ticks that overlap,
messages that cannot be taken back, processes that die.

Paths below are relative to the repository; in `PROJECT.json` they carry the
prefix `src/` of the checkout.

## 1. Inventory

| Component | State it keeps | Operations | Talks to |
|---|---|---|---|
| announcements (`src/core/announcements.ts`) | `announcements` (one row per id and revision), `audit_log` | create, revise, discard, request, confirm, schedule, confirmSchedule, cancel, withdraw, reject, publishDueScheduled | outbox, in its transaction |
| outbox (`src/core/outbox.ts`, `scripts/setup-channel.ts`) | inserts into `delivery_ledger`; `channel_settings` | enqueueDeliveries, countFanoutTargets, setting up a destination | subscriptions, channel settings |
| adapters (`src/adapters/*.ts`, `worker/adapters.ts`) | the publish note in `delivery_ledger` | deliver; after Discord's, publishToFollowers | subscriptions, channel settings, the services |
| fan-out worker (`src/worker/*.ts`, `netlify/functions`) | `delivery_ledger` status, attempts, next_attempt_at; a pool of 4 connections | runTick every 15 s: publishDueScheduled, runFanoutOnce, dispatchHealthAlerts | adapters, all tables |
| health and alerts (`src/core/health.ts`, `alerts.ts`) | `alert_state` | evaluateChannelHealth, dispatchHealthAlerts | ledger, email sender |
| email subscriptions (`subscribe-flow.ts`, `subscriptions.ts`, `tokens-flow.ts`) | `subscriptions`: verified, filters, verify token, pending change | start, confirm, confirm change, update, unsubscribe: separate statements | email sender, rate limits |
| webhook registration (`webhook-flow.ts`, `adapters/webhook.ts`) | `subscriptions` with a secret, unique per URL | register, test, update, unsubscribe, deliver | the endpoint, DNS, rate limits |
| safe URLs (`safe-url.ts`) | the addresses a connection is pinned to | resolveDeliverableUrl, pinnedDispatcher | DNS |
| rate limits (`rate-limit.ts`) | `rate_limits` per key and window | consumeRateLimit, asked by four routes: the email form, webhook registration, the test button, violation reports | - |
| admin identity (`identity.ts`, `session.ts`, `middleware.ts`) | session cookie, `publishers` | resolveIdentity, isPublisher, session signing | Auth0 |
| login (`auth0-login.ts`, `app/admin/login`, `callback`) | state and verifier cookies | begin, callback, logout | Auth0 |
| admin pages (`compose-form.tsx`, `publish-control.tsx`, the lists) | a page's row as it was read, a form's fields, whether a button is armed | click, confirm, refresh, edit, save | admin actions |
| admin actions (`app/admin/actions.ts`) | - | identity, isPublisher, one operation | announcements, templates |
| templates (`templates.ts`) | `templates`, one row per name | save, delete, start a form | compose form |
| queries (`queries.ts`) | - | the latest revisions by status | admin pages |
| enabled channels, production guard, migrations | environment, `schema_migrations` | parse, check, migrate | - |
| feeds, rendering, mentions, CSP, public pages, scripts | - | reads, formatting, I/O | - |

What is hard, and where it bites, is the `hazards` list of `PROJECT.json`. In
short:

* **Locks and snapshots.** `select … order by revision desc limit 1 for update`
  chooses its row from the statement's snapshot and re-reads only that row when
  the lock is granted. A newer revision committed meanwhile is not seen.
* **Approvals across resets.** Request, withdraw, reject, cancel and schedule can
  alternate for ever; a name or a time left behind would be an approval nobody
  gave.
* **Overlapping ticks.** `setInterval` starts a tick every 15 s whether or not
  the last one ended; on Netlify each minute starts another process.
* **Effects outside the transaction.** An adapter sends inside the transaction of
  its batch; when that is lost the ledger forgets what the world received.
* **A second call after the first went out.** Once Discord has the message, a failure
  of the crosspost must not make the worker post it again.
* **Two connections per pass.** The batch keeps one connection, the adapter's
  read takes another from the same pool.
* **Requests without transactions.** Subscription flows are selects and updates
  of separate statements.
* **A name looked up twice.** Between the check of an endpoint and the connection
  to it the name server may answer differently.
* **Windows that end while a request counts.** A unit is counted in the window the
  caller's clock showed, by then the rows of that window may be pruned.
* **Pages older than the row.** A page keeps the buttons of the row it read, and its
  buttons send nothing of what it showed.
* **Cookies read at the request and written at the response.** Between the two the
  browser may begin another login, log out, or open the same redirect again.

Correctness, component by component: four-eyes, final decisions, one send per revision,
never early and always in the end (announcements); every copy explained, finished rows
frozen, switched-off channels untouched, every delivery ends (fan-out); a row for
everybody who stands and nobody else, nothing posted twice for a failure after the post, a
note that is true (outbox and adapters); one alert per issue unless a transaction is lost,
no issue without an alert (alerts); filters change only for who holds a token or secret,
one row per address (subscriptions); an endpoint is active only by a test with its own
secret, a secret is shown to nobody but its maker and not twice, nothing is posted to a
non-public address (webhooks); no more than the limit in a window (rate limits); what a
fresh page offers the row accepts, nobody is mentioned whom nobody chose (pages); no
operation without a publisher's identity, no session for anyone but the person who signed
in from this browser, no development identity on a guarded instance (admin).

## 2. Modules

| Module | What it is |
|---|---|
| `Announcements` | The operations of `announcements.ts` as transactions, the worker's pass over the schedule, a clock |
| `Publication` | What the store promises, without transactions, schedules or clocks |
| `Standings` | What a publisher can do with a revision, by its standing |
| `AnnouncementStore` | The store as publishers take it to be: one row per announcement, each operation at once |
| `AnnouncementsRefinement` | The mappings: `Announcements` implements `Publication` and `AnnouncementStore` |
| `AnnouncementsProofs` | Theorems about `Announcements`, checked by TLAPS |
| `Ledger` | A row of `delivery_ledger` and what an attempt makes of it |
| `DeliveryLadder` | What fan-out promises to those who read the ledger |
| `Fanout` | `runFanoutOnce`: overlapping passes, connections, lost transactions, restarts |
| `FanoutRefinement` | `Fanout` implements `DeliveryLadder` |
| `FanoutProofs` | Theorems about `Fanout`, checked by TLAPS |
| `Distribution` | Who gets a row, and the adapters of email, Discord and Telegram with the crosspost |
| `DistributionRefinement` | `Distribution` implements `DeliveryLadder` and does what `HealthAlerts` takes for granted |
| `DistributionProofs` | Theorems about `Distribution`, checked by TLAPS |
| `HealthAlerts` | `evaluateChannelHealth` and `dispatchHealthAlerts` over a ledger that moves as `DeliveryLadder` says |
| `HealthAlertsProofs` | Theorems about `HealthAlerts`, checked by TLAPS |
| `EmailSubscription` | Subscribing, confirming, changing and leaving, for one address, statement by statement |
| `EmailSubscriptionProofs` | Theorems about `EmailSubscription`, checked by TLAPS |
| `AdminAccess` | The start checks, login and logout with their cookies, the identity of a request, the publisher check |
| `AdminAccessProofs` | Theorems about `AdminAccess`, checked by TLAPS |
| `RateLimit` | Windows, counters, their pruning, and the four routes that ask |
| `WebhookRegistration` | Webhook subscriptions behind `RateLimit`, which it extends, and the delivery to them |
| `WebhookRegistrationProofs` | Theorems about `RateLimit` and `WebhookRegistration`, checked by TLAPS |
| `AdminConsole` | The pages and forms of the admin, each with the row as it was read |
| `AdminConsoleRefinement` | `AdminConsole` works with `AnnouncementStore` |
| `AdminConsoleProofs` | Theorems about `AdminConsole`, checked by TLAPS |
| `MC…` | The instances TLC checks: symmetry and the values a `.cfg` cannot write |

### Announcements

`rows[<<id, revision>>]` is the row of table `announcements` with the columns the
operations read or write, `audit[k]` the audit entries about it, `outbox` the keys
whose deliveries were enqueued. `request[s]` is a web request between the snapshot
of its `select … for update` and its commit, `tick[t]` a worker tick likewise.

An operation is two steps. `Begin` picks the latest revision that is committed;
the action named after the operation (`ReviseDraft`, `ConfirmPublish`, …) has the
lock, reads the row as it is now, checks the guards of the code in its order and
commits the update, the audit entry and the enqueue together. `Rollback` stands
for a guard that throws, the primary key refusing a second revision, and a
process or connection that dies. Since a transaction holds its lock from the
re-read to the commit and everything it does is invisible until then, the locked
part is one step.

A tick's snapshot (`BeginTick`) and its locked part (`PublishDueScheduled`) are
two steps as well: `skip locked` leaves out rows another transaction may be
holding (`MayBeLocked`), the where clause is evaluated again on each row that is
locked (`Claimable`), at most `Batch` rows are taken in the order of their time
(`FirstBatch`).

Abstractions: a revision's content is its severity, and `recommended` and `info`
are one value, because the guards tell only `critical` apart; actors are compared
in lower case everywhere, so a publisher is one value; the slug search of
createDraft and the validation of the input are left out; `schedulePublish`
compares its time with the clock in `Begin`, before the transaction, as the code
does; the enqueue is the fact that it happened.

### Publication

`phase`, `level` and `approvers` of each revision. People approve, all approvals
are taken back together, a person sends (which is an approval), a machine sends
what is already approved, an unapproved revision is binned. The mapping: a row is
`sent` when published and `binned` when discarded, its approvers are the people in
`publish_requested_by` and `publish_confirmed_by`; the worker's name in the
second column is not a person.

### Fanout

`ledger[<<channel, target>>]` is the row of one announcement revision in
`delivery_ledger`. A pass holds rows (`held`, with the attempts it read), writes
them (`done`) and commits them together. `posts` counts what really reached the
target and `losses` the transactions and processes that died: neither is in the
database. `Deliver` and `Fail` need a free connection because every adapter reads
its subscription or channel setting through the pool while the pass keeps its own
connection; `Fail` may or may not have reached the target. `Restart` ends every
pass and may change the channels that have an adapter.

Time is relative (what remains until `next_attempt_at`, how old a pass is), so no
clock grows and liveness is not cut off by a bound. `next_attempt_at` counts from
the `now()` of the transaction, so an entry's wait is reduced by the age of the
pass at its commit. Overdue rows are claimed in any order; the code's order by
`next_attempt_at` is one of them. A pass is one atomic claim: the lock of a free
row is granted at once and its where clause is evaluated again, so a row another
pass finished meanwhile is not claimed. The publish note is left to
`Distribution`, and the defensive branch for an adapter that is present but falsy
is left out.

`DeliveryLadder` is what remains when passes, locks and connections are forgotten:
rows that are due and of a served channel are settled together, each delivered,
put off by its backoff or given up. `Fanout` implements it with the ledger as it
is; `HealthAlerts` stands on it instead of on `Fanout`, which is what makes its
instance small enough. `Distribution` implements it as well, without waits
(`DistributionRefinement`), and also moves the notes as `HealthAlerts` expects, so that the
three modules that have a ledger mean the same by it.

### Distribution

One revision is sent. `setting` and `subscription` are the rows the enqueue selects
(`SelectSettings`, `SelectSubscriptions`: two statements, two snapshots) and inserts
deliveries for (`InsertDeliveries`, the commit); `enabled[p]` is the set of channels the
process `p` read from its environment when it started, so the web application, the
worker and the script that sets up a destination may differ. A pass holds one row:
`BeginPass` looks for the note's column, `Claim` takes a row, `ReadTarget` is the
adapter's select with its throws, `Accepted` and `Refused` what the service did, of which
the adapter may learn nothing; `LookUp` and `Crosspost` are the calls of
`publishToFollowers`, `Commit` writes what came of the row. `SetUpChannel`,
`ChangeSubscription`, `Unsubscribe`, `Migrate`, `PublishByHand` and `Restart` happen between
any two of them. The migration waits for a pass that holds a row, because altering the
table needs its lock.

`posts`, `late` (of attempts that failed all the same) and `followed` count what reached
the world, `ever` and `always` who was a target during the enqueue. Networks, types
and filters are whether they match the announcement; the set-up writes in one step,
its questions are answered before. Overlapping passes, batches and backoffs are
`Fanout`'s; an attempt counts here as it does there.

### HealthAlerts

The ledger is that of one announcement. `since` is the age of the time stamp the
queries compare with the window, `unpublished` the delivered rows whose crosspost
failed, `alert` the table `alert_state`, `mails` how often a key was in a mail.
A dispatch (`run[p]`) begins, makes the three queries of `evaluateChannelHealth`
(`Query`, one step each, because each has a snapshot of its own), inserts the
keys (`Record`, one statement per key), locks those nobody was told of (`Claim`),
mails them (`Send`, `SendFails`) and marks them (`Mark`, the commit). `Lose` and
`Restart` end it anywhere, so a mail can be out without a mark. The recipients
and the wording are left out; a mail is the set of its keys.

`InTime` bounds how late the worker is: time does not pass while a due row, a
dispatch or the next tick has waited for `MaxDelay`. What that excludes is a
worker that is down for as long as the window, after which an issue is forgotten.

### EmailSubscription

`row` is the address's row of `subscriptions`, `request[r]` a web request between
two statements. The flows have no transactions (deleting has one, of a single
step), so each select, update and insert is an action and everything a request
remembers from its select is in its record: the row it goes by, the token it
made, the attempt. The guards are the code's: updates and deletes are by id, and
the unique constraint on the address sends `Insert` to the branch for an existing
row, `Create` into a throw. `Abort` is the death of a request, or a sender that
throws.

Tokens are numbered in the order they are made and the row is named by its first
token; `stale` is the token up to which links are more than 72 hours old. A link
exists only when it was mailed (`mailed`): whoever did not read the mail cannot
use it, which stands for tokens nobody can guess. The manage link comes with an
announcement (`Announce`), and only a verified row gets one. `overtaken` and
`began` in a request, `confirmed` and `lost` are history for the properties.

Abstractions: filters are whole values, `Null` is a form without a choice, so the
coalesce of the update is `Merged`; the validation of the form is left out (the rate
limits in front of it are `RateLimit`), as is the branch of `updateExistingAndNotify` for a
call without filters, which `subscribeEmail` never makes.

### AdminAccess

`env` is the environment an instance is started with: its shape of deployment, the
settings that are there, `ANNOUNCE_ALLOW_INSECURE_DEV` and `ADMIN_EMAIL`. `Register`
runs `checkEnvironment`, connects, and then `assertPublishersConfigured`. `Databases` are
what the start may meet: settings that `connect` refuses (fatal everywhere), a database out
of reach (not fatal), one that answers with any other error or with no number (fatal where
the checks apply), or the table, which is fatal if it is empty. `jar[b]` are the three cookies of browser `b`, `grant[l]`
what Auth0 knows of login `l`.

`request[r]` is one of two things. A callback is received with the cookies it was
sent with (`ReceiveCallback`, everything the handler decides before the exchange),
exchanges its code (`Exchange`, `ExchangeFails`) and responds (`Respond`), which is
when its cookies are written. An access, to a page or a server action, arrives with
the identity the middleware leaves it (`Arrive`), is counted and selected in the two
statements of `isPublisher` (`Count`, `Select`) and ends. `SetPublishers` changes
the table at any time. `misused`, `loggedOut` and the fields `logout` and `entitled`
of a request are history for the properties.

Abstractions: state, code verifier and code of a login are one number, which stands
for values nobody can guess; addresses are compared in lower case everywhere, so a
person is one value; signatures, keys, clocks and the URLs of redirects are left
out. One instance is modelled, since instances share nothing but the table and the cookies,
both of which change freely. The operation behind the gate is that of
`Announcements`.

### RateLimit

`counts[k][w]` is the row of `rate_limits` of a key and a window, 0 without one, and
`visit[v]` a request in front of the limiter: the route it came by, the kind of unit
it asks for next, the window its clock showed and what it was granted. `granted` is
what no pruning forgets. `Come`, `Consume` (the insert that increments on conflict,
and the housekeeping after it), `LimiterFails` and `Leave` are the steps of a
request. The email form consumes both of its units whatever the first answer is, the
others stop at a first refusal; a violation report is logged even if the limiter is out of
reach. `AdvanceWindow` lets an hour pass at any time, so a request may count in a
window that is over; it assumes that no statement takes longer than the rows are
kept, a day in the code. How an address is read from headers is a value, and
malformed input is refused before the limiter.

### WebhookRegistration

`row[e]` is the row of `subscriptions` with URL `e`. A row is numbered as it is made,
and the number stands for its id, its secret and its unsubscribe token, which are
made together and live as long; who presents a number knows it. `request[v]` is a
request past the limiter, at one of its statements: `Register`, `Vet` (the look at the
name server's answer, which pins the connection), `Select`, `Insert`, `Answer` (with the
secret, after the row is committed), `Reselect` and `Apply` for a registration, `Test`, `Vet`, `Post` and `Mark` for a test event; `Die` ends
it anywhere. `UpdateFiltersByToken` and `UnsubscribeByToken` are the manage link.
The worker's side is one delivery: `Enqueue` for a verified row, `ReadTarget`,
`VetTarget` and `PostTarget`, between which the row may vanish and its URL be
registered anew. Each answer of a name server is some set of public and forbidden
addresses, another one every time; the tables of address ranges, payloads and
signatures are left out.

`passed`, `shown`, `reached` and `told` say what the world learnt: the tests answered
2xx, the secrets shown, the addresses connected to, the subscriptions announced to.

### AdminConsole

`rows[i]` are the revisions of announcement `i`, of each what buttons and forms depend
on: status, severity, requester, whether it is planned, the roles it mentions.
`tab[t]` is what a browser tab shows. A page (`OpenReview`, `OpenList`) holds the row as
it was when the page was read; the lists of drafts and of schedules end at `ListLimit`, and
as their orders are not modelled any rows may be the ones left out (`Lists`). `Arm` is the
first of a two-stage button's clicks, `Click` sends the id to the server action, which works
on whatever is the latest revision by then and answers in the same step, since the buttons
are disabled in between. A click fails because the row refuses it, which is told apart
(`refused`), or for any other reason, even on a page that is up to date: the time typed for a
schedule is over, the publisher is none any more, the database failed, or the answer was
lost. `Refresh` is `router.refresh`, which may never come.

A form is opened by loading the index (`ComposeBlank`, `ComposeFromTemplate`, `ComposeCopy`,
`ComposeEdit`), which evaluates its initial state, and follows the effects of
`compose-form.tsx`: `SetSeverity`, `ToggleRole`, `Save`. `Turn` is a change of the address
under a form that is open: "Start from" (`goto`), a refresh after the draft was sent, or
Back. The form has no key, so it stays mounted with all its state and only its props
change; what runs is the effect on roles, when the form no longer edits. `Turn` allows any
address, more than the browser's history would. `SaveTemplate`, `DeleteTemplate`,
`Configure` (the roles of the Discord destinations), `WorkerSends` and `Close` are
what else happens. `Accepts` and `After` of `Standings` are the guards and effects of the
operations on one row; how two of them overlap in the database is `Announcements`, which
is proved to change what the pages read by these guards and effects (`ShowsTheLatest`);
who may call one is `AdminAccess`. Texts, deadlines, links and previews are left out, of a template
everything but its severity.

## 3. Runs

All runs end without deadlock checking: the bounds (`MaxAudit`, `MaxTime`,
`MaxLosses`) let the models stop, and the real system is idle when there is
nothing to do.

| Run | Instance | Shows |
|---|---|---|
| `approval` | 1 revision, 2 publishers, 2 requests, 2 ticks, times 0 to 2, 4 audit entries | FourEyes, NothingIsLaundered, ApprovalIsOnRecord, SentOnce, NeverEarly, ImplementsPublication |
| `backlog` | 2 announcements, 2 rows, 1 request, 1 tick, batch of 1, 3 audit entries, fairness | OnlyLatestLeavesDraft, DueIsSent |
| `stale_revision` | 2 revisions, 2 requests | OnlyLatestScheduled fails (finding 1) |
| `delivery` | 2 channels, 2 passes, 3 connections, 2 attempts, 1 loss, fairness | EveryCopyIsAccountedFor, StatusTellsWhatHappened, ImplementsLadder, EveryDeliveryEnds, LocksAreReleased |
| `pool` | 2 passes on 2 connections, fairness | LocksAreReleased fails (finding 2) |
| `reach` | 1 destination, 1 subscriber, 2 configurations, 2 attempts, 2 changes, 1 loss | TargetsAreThoseThatStood, AcceptedOnce, NotesAreTrue, FeedsTheAlerts |
| `alerts` | 1 row, 2 dispatches, window 8, grace 1, 1 loss | EveryMailIsAccountedFor, AlertsAreTrue, EveryFailureIsReported |
| `opt_in` | 2 requests, 2 filters, 3 tokens | ConfirmedByItsReader, LinksAreOnTheirWay, OnlyLateFormsReachIn, ChangeLinksAreKept |
| `admin` | 2 browsers, 2 logins, 2 requests, 2 people of whom 1 is verified, 12 environments | SessionsAreProven, CodesAreNotBurnt, LogoutEndsLogins, OperatorsAreEntitled, ActorsAreProven |
| `webhooks` | 2 visitors, 3 visits, 1 IP, 1 address, 1 URL, 2 rows, 3 windows of which 2 are kept, limits of 1 (registration 2) | WithinLimits, VerifiedByItsOwnTest, PublicAddressesOnly, ToldWhoPassed, SecretsAreShownAtMostOnce, OnlyHoldersReachIn |
| `console` | 2 tabs, 2 publishers, 2 announcements, 2 revisions in all, lists of 1, effort 4 | EveryoneWasChosen, RefusedMeansStale, RolesSurviveEditing |
| `unseen` | the same | WhatIsPublishedWasShown fails (finding 3) |

The type invariants, `HeldRowsAreOpen` and the action properties
`DecidedForever`, `FinishedIsFrozen` and `SwitchedOffIsLeftAlone` are proved for every
instance and need no run.

**Bounds.** Two publishers are all that four-eyes can tell apart; two requests
give every race of a stale snapshot with one commit in between, and two overlapping
ticks race for one schedule. `MaxAudit` is the number of audit entries at which no
request starts any more. With four, two requests that began before still write, so that
draft, request, withdrawal, request and confirmation occur: a complete cycle through
a reset and an approval after it. One revision suffices for the properties of a row
(the theorems cover any number); two revisions are needed for what relates
revisions. Times 0 to 2 hold a schedule moved from due to not due. In the fan-out two
attempts have a first, a retry and a last; backoffs of 1 and 2 are shorter and longer
than a pass may take; two channels of one target are two rows, of which a restart may
switch off either; one loss can hit either pass at any point or take both. In `reach` one
destination is all a row can be about, any service or none at the start; two changes are
a departure and a return, or one each of the two tables the enqueue reads; one
configuration serves everything and the other a single service. In the
alerts two dispatches race for the three keys of one row, and window, grace and
lateness are the smallest numbers that keep the order they have in the code: the
lateness of the worker, the age of a pass, the lateness of the next tick and one lost
dispatch add up to a window of 8, and with a window of 7 `EveryFailureIsReported`
fails; in the code they add up to minutes of 24 hours. In the subscription three
tokens are a first link and two of a replaced link, a pending change or a new row
after a deletion, in any order. For access, two browsers are one's own and another's,
two logins are an abandoned one and its successor, two requests are the two sides of
every race; the environments are the two shapes of deployment as they should be and
each with what is easily wrong, and local development.

For webhooks, three windows with two kept are the smallest in which a counter is
pruned while requests of other windows count. Two visitors at a time are the two sides
of the insert race and of a test against an unsubscription; two rows are a subscription
and the one registered in its place; three visits are a registration, its rival and a
test. In the console two tabs are a page and whoever makes it stale, by the same
publisher or the other one; two revisions are an edited draft or two announcements;
lists of one leave out the other one; `MaxEffort` counts the pages opened and turned,
fields, templates and settings changed, clicks are free.

**Fairness.** `FairSpec` of `Announcements`: the clock advances, a request and a
tick end, ticks start for ever (`setInterval`), and a pass that sends something
happens if it is possible again and again. The last is strong fairness: a tick
may skip a locked row or be lost, and a row stays locked only for the length of a
transaction, so a row that stays due is not locked at every tick. `FairSpec` of
`Fanout` is weak fairness of claims, of handling a held row (adapters have
timeouts), of commits and of time; that a connection becomes free is not assumed,
it is what `delivery` shows and `pool` refutes.
`HealthAlerts` has none: that a failure is reported is stated with a deadline, the
end of its window, under the bound `InTime` on how late the worker is. The opt-in,
the access, the webhook and the console models promise nothing that must happen.
Losses are finite by `MaxLosses` everywhere. Symmetry is used for safety only.

**Mutants.** Each property has a faulty variant of the code under which TLC finds it
violated: a dropped status guard, the sender written as confirmer, a schedule that
survives a withdrawal, a lock that is not taken or re-reads too little, an attempt that is
not counted, a channel filter that is forgotten, a key that is marked although its mail
failed, a crosspost whose failure is thrown, a link that opens whatever row there is,
counters pruned one window early, a secret in the answer to the loser, a form that ticks
@everyone by itself. The variants stand before the operator they replace
and are used by no specification.

**Findings.**

1. *A stale revision can be scheduled* (`stale_revision`). Revise and schedule of
   the same draft overlap: the schedule waits for the lock of revision 1 and gets
   it after revision 2 is inserted. Revision 1 is scheduled, and later sent, while
   the admin pages show revision 2. The comment at `announcements.ts:157` rules
   that out; `backlog` shows it is true of one request at a time.
2. *The pool can run dry* (`pool`). Four overlapping passes keep the four
   connections of the worker, and each adapter waits for one more. Nothing times
   out: the wait is in the driver's queue. It takes as many slow passes as
   connections, each with rows of its own, that is a backlog of more than three
   batches and adapters slower than 15 s per batch. With one connection more than
   passes it cannot happen (`delivery`).
3. *A click publishes what the page did not show* (`unseen`). The buttons of the
   review page send the id, and the action (`app/admin/actions.ts:154`) works on the
   latest revision; if a colleague saved another one meanwhile, that is published. The
   comment at `app/admin/review/[id]/page.tsx:58` and `docs/SECURITY-PROPERTIES.md:196`
   say that what the confirmation screen shows is what is sent.

Some behaviours are not findings of a run but should be read with the models in
mind.

* A crosspost that times out after Discord did it leaves the note `failed`, and the alert
  (`health.ts:45`) says the message did not reach the followers. `NotesAreTrue` asks
  nothing of `failed`; the next step the alert asks for, publishing by hand, does no harm.
* The script that sets up a destination checks the channels of the environment it runs
  in (`setup-channel.ts:54`), which need not be the web application's or the worker's. A row
  enqueued by one process and served by none stays pending and is reported.
* A channel that is switched off leaves its rows pending so that they never become
  `exhausted`, and the `no_delivery` query, which does not look at channels, reports
  them after the grace period.
* The grace period is shorter than the ladder: the fifth attempt comes 37 minutes after
  publication, the alert after 30 (`health.ts:50`). `AlertsAreTrue` asks of
  such an alert that the grace period is over, not that the last attempt is.
* A form that read the row before its confirmation writes its filters after it
  (`subscribe-flow.ts:92`). `OnlyLateFormsReachIn` says that a form begun after the
  confirmation cannot.
* Whoever loses the race to register a URL leaves its filters on the winner's row
  (`webhook-flow.ts:113`); `OnlyHoldersReachIn` makes that exception and no other.
* `docs/SECURITY-PROPERTIES.md:219` and `README.md:323` say a webhook secret is shown exactly
  once. It is shown at most once (`SecretsAreShownAtMostOnce`): a request that dies between
  the insert (`webhook-flow.ts:96`) and its answer (`webhook-flow.ts:126`) leaves a row
  whose secret and manage link nobody has, and whose URL nobody can register any more.
* `README.md:420` says critical announcements select every configured role, including the
  built-ins, by default. The code leaves the built-ins off, on purpose: the comment at
  `compose-form.tsx:110` calls notifying a server an affirmative click, which is what
  `EveryoneWasChosen` goes by.
* "Start from" keeps the state of the form it is in (`compose-form.tsx:154`; the form at
  `page.tsx:113` has no key). Once somebody touched a box of a draft being edited, its
  roles, with an @everyone that was ticked for that draft, go into the new announcement
  without another click, although `templates.ts:57` keeps roles out of what is copied.
  `EveryoneWasChosen` counts such a tick, since it was made in a form that led to the
  revision. In the same way the template or the announcement chosen does not fill a form
  that is open, and Back can turn a form to a draft that it was not filled from;
  `RolesSurviveEditing` speaks of forms opened with their draft.
* The lists of drafts and of schedules end after 50 announcements and have no more pages
  (`queries.ts:40`, `57`; the archive ends after 100). Beyond that a rejected draft is in no list, the "orphaned row
  holding its slug" that the comment at `drafts-list.tsx:12` says the list prevents. The
  waiting queue has no limit.
* A schedule whose time is over is refused on a fresh page as well
  (`announcements.ts:235`); `RefusedMeansStale` speaks of refusals by the row.
* The VM shape does not know its tailnet users: the middleware deletes
  `Tailscale-User-Login` (`middleware.ts:73`) before `resolveIdentity` reads it
  (`identity.ts:64`), whatever `DEPLOY_TARGET` is. `README.md:334`, the comment at
  `identity.ts:32` and the test `the VM must keep working` promise that path to the VM; in
  `AdminAccess` such a user has no name unless there is a session or a token.
* The second of two edits of one draft silently replaces the first
  (`app/admin/actions.ts:66`); both revisions are kept.
* A cancel that was armed stays armed while the page below it is refreshed
  (`publish-control.tsx:347`).
* A template keeps its deadline although the notice says it was cleared
  (`compose-form.tsx:269`, `templates.ts:67`).
* Two logins begun in one browser both end with `login_error=state`, since every exit
  of the callback clears the cookies of whichever login is there. With
  `AUTH0_AUDIENCE` set to anything but the client id, or without `AUTH0_CLIENT_ID`, the
  start checks pass and no browser login can succeed.
* `README.md:509` and the comment at `alerts.ts:12` say a key is mailed exactly once;
  `EveryMailIsAccountedFor` says when it is mailed again: once for each transaction lost
  between its mail and its commit.
* `README.md:323` says that submitting the form for a confirmed address just updates
  its filters; the code asks the address first.

## 4. Proofs

`AnnouncementsProofs` assumes `ConstantsAssumption` (the special values are
distinct from the rest, the bounds are naturals) and nothing of the sizes: any
sets of ids, publishers, requests and ticks.

Every step changes one key in one of three ways or a set of keys in the fourth:
it inserts a draft, a person writes the row, the worker sends it, or it is
untouched. `StepIsKeyStep` reduces `Next` to these (`KeyStep`), and each invariant
is proved key by key:

* `TypeCorrect`: `Spec => []TypeOK`.
* `ApprovalsAreInOrder`: `FourEyes` is not inductive, since a confirmation relies
  on what a request left behind. `NothingIsLaundered` is the strengthening: a
  draft carries no names and no time, a waiting request has a requester and no
  confirmer. Together they are inductive. This is why withdraw and reject need
  not clear `publish_confirmed_by`: it is null in every row they can touch.
* `DecisionsAreFinal`: the action property `DecidedForever`.
* `RevisionsAreSentOnce`: strengthened by 'a log with a publication belongs to a
  row in the outbox'.
* `ResetsForget`: `NothingIsLaundered`, for itself.
* `NothingIsSentEarly`: `NeverEarly`, strengthened by 'only a published row has an entry
  of the worker, and it has one if and only if it has a time' (`TimesInv`).
* `ApprovalsAreOnRecord`: `ApprovalIsOnRecord`, strengthened by the half of it that holds
  earlier: the request a row waits with is in the log (`RecordInv`).
* `LatestGoesOut`: `Spec /\ []OneAtATime => []OnlyLatestLeavesDraft`. The property is
  false in general (finding 1). `OneAtATime` says that no two requests about one
  announcement are in progress together, however many there are about others and however
  ticks overlap with them; the code does not see to it. The strengthening is that what a
  request's snapshot picked is still the latest when it executes (`SnapshotsAreFresh`),
  which only a revision of the same announcement could end. So such an overlap is all
  that finding 1 takes: the worker, the schedule and losses have no part in it.
* `OneSessionSendsTheLatest`: with one session, as in `backlog`, `OneAtATime` holds and
  the property needs no assumption about behaviours.
* `Implements`: the initial state and every step map to `Publication`.
* `ShowsTheLatest`: the initial state and every step map to `AnnouncementStore`, the store
  that `AdminConsole` works with, under the latest revision of each announcement. The
  invariant it needs is `RevisionsInv`: revisions have no gaps and one of them is the
  latest. It holds with overlapping requests too, since a revision is added only after a
  draft and the primary key lets one in: a stale request writes a revision nobody
  looks at any more. What that hides is the subject of `OnlyLatestLeavesDraft`.

`FanoutProofs` assumes `LedgerAssumption` and `FanoutAssumption`: any channels, targets,
passes, pool size, attempts and backoffs. `LongestPass`, up to which the age of a pass is
told apart, is no less than any backoff, so nothing is lost there. The inductive invariant
`FanoutInv` has six parts: `HeldRowsAreOpen` and `HeldRowsAreDue` (what a pass holds is
still as it was claimed, on a channel that is on); `TriedRowsAreHeld` (what a pass has
tried it holds); `WrittenRowsAreOutcomes` (what it will write is what the ladder allows);
`AgesAreBounded`; and `CopiesAreCounted`, which says who accounts for the copies of a row:
the ledger while no pass has tried it, the pass that tried it until it commits. Commit
moves the count from the pass to the ledger, a loss drops it and is counted itself.

* `FanoutTypes`: `Spec => []TypeOK`.
* `LocksHold`: `HeldRowsAreOpen`.
* `CopiesAreAccountedFor`: `EveryCopyIsAccountedFor`, which follows from
  `CopiesAreCounted` because only the holder can have tried a row.
* `FinishedStaysFinished` and `OffIsLeftAlone`: the action properties
  `FinishedIsFrozen` and `SwitchedOffIsLeftAlone`. A row nobody holds stays as it
  is (`UnheldRowStays`), and neither a finished row nor one of a switched-off
  channel is held.
* `TheLedgerIsTrue`: `StatusTellsWhatHappened`, strengthened by the same of the entries
  a pass has written and not committed (`TruthInv`).
* `FanoutIsALadder`: `ImplementsLadder`. Only a commit writes the ledger after the
  enqueue, and all it writes are outcomes of rows that are due, less the age of the
  pass.

`HealthAlertsProofs` assumes `LedgerAssumption` and `AlertsAssumption`: any channels,
targets, dispatches, windows and delays. `HealthInv` has five parts: `TypeOK`;
`IssuesAreSound` (what failed to be published was delivered, and there are rows only
after the publication); `NewsIsTrue` (what a dispatch has seen and what was mailed is
true of the ledger now); `LocksAreSound` (a key that a dispatch claimed is open and
nobody else's); and `EveryMailIsAccountedFor`. The truth of a mail survives because
the ladder never moves a finished row (`LedgerKeeps`, from the abstract specification
and not from `Fanout`), the count of mails because of the row locks.

* `HealthTypes`, `HealthInvariant`: `Spec => []TypeOK` and `Spec => []HealthInv`.
* `MailsAreAccountedFor`: `EveryMailIsAccountedFor`.
* `NoFalseAlerts`: `AlertsAreTrue`.
* `FailuresAreReported`: `EveryFailureIsReported`, if `LongestPass + 3 * MaxDelay *
  (MaxLosses + 1) < Window`. An invariant has to say of every moment why the mail will
  still be in time. `Promised` does: an issue nobody was told of will be found by the next
  dispatch or by one that has begun (`Awaits`), or is in the hands of one that is about to
  mail it (`Sends`), and it is no older than that and the losses so far explain (`Late`:
  each loss costs one delay to the next dispatch, one to the end of the dispatch whose
  locks that one meets, one to its own mail). `MarkedWasMailed` says that a key that is
  marked was mailed, `Punctual` that nothing under way is older than `MaxDelay`. A loss
  moves a promise from a dispatch back to the next one and uses up one of the losses. The
  condition is what the proof needs and what TLC needs: in `alerts` its left side is 7 and
  the window 8, and with a window of 7 the property fails. In the code the left side is
  minutes, the window a day.

`DistributionProofs` assumes `DistributionAssumption` and `NullIsNoRow`: any services,
destinations, subscribers, environments, attempts and losses. `DistributionInv` has six
parts. Besides `TypeOK` and `NotesAreTrue`, `EnqueueIsSound` compares what the enqueue has
found so far with who stood as a target at some moment and at every moment since it began;
`RowIsHeld` says that a row is open while a pass has it and that the pass knows whether
its message is out; `PassTellsTheTruth` that the note it is about to write is true; and
`CopiesAreCounted` who accounts for each copy: a delivered row, the pass that holds it, a
failure after the post, or a loss. It is stricter than `AcceptedOnce` about the followers,
whom a pass counts only once its crosspost may have reached them.

* `DistributionTypes`, `DistributionInvariant`: `Spec => []TypeOK` and `Spec =>
  []DistributionInv`.
* `PostsAreAcceptedOnce`, `NotesStayTrue`: `AcceptedOnce` and `NotesAreTrue`.
* `TheRightOnesGetIt`: the action property `TargetsAreThoseThatStood`. What a select finds
  has stood when it ran, what stood all along is found, and the channels of the process
  that enqueues do not change while it does.
* `TheAlertsAreFed`, `DistributionIsALadder`: `FeedsTheAlerts`, and `Ladder!Spec` which
  follows from it. `FeedsTheAlerts` names the rows a step moved instead of asking for some
  set of rows, which TLC could not enumerate in time. The strengthening is `HeldIsServed`:
  a pass holds only rows of channels its process serves, since it ends with the process.

`EmailSubscriptionProofs` assumes `EmailAssumption`: any requests, filters and
number of tokens. `ConfirmedByItsReader` is not inductive, since a request that is
about to verify a row goes by what its lookup found. `EmailInv` adds that tokens
in use were issued (`TokensAreIssued`, so a fresh one is nobody's), that a link
with the row's token, mailed or about to be, names this row
(`LinksNameTheirRow`: nobody opens a new row with what was made for a deleted one),
and that a request about to verify came through a mailed link
(`VerifiersHaveALink`). Steps are of three kinds: those that leave tokens and
mails alone (`QuietStep`), those that make a token (`MintStep`) and those that mail one
(`MailStep`); confirming, verifying and dying are treated one by one.

* `EmailTypes`: `Spec => []TypeOK`.
* `EmailInvariant`: `Spec => []EmailInv`.
* `NothingWithoutConsent`: `ConfirmedByItsReader`.
* `NobodyWaitsForALink`: `LinksAreOnTheirWay`.
* `OnlyLateForms`, `ChangeLinks`: the action properties `OnlyLateFormsReachIn` and
  `ChangeLinksAreKept`. Both need what a request remembers to be no older than the
  property allows (`RequestsAreTimely`): a form that was not overtaken goes by a row that
  is not confirmed, and the token of a change being confirmed is the row's or one
  that was replaced since.

`AdminAccessProofs` assumes `AccessAssumption`: any people, browsers, requests,
environments and number of logins. None of the properties is inductive, because each
relies on what was decided earlier in the chain from the login to the operation.
`AccessInv` states the chain link by link: the cookies of a login are of one this
browser began after its last logout (`CookiesAreOwn`); only logins begun are known
to Auth0 (`LoginsAreBegun`); a callback at its exchange carries its browser's login
and verifier (`CallbacksAreOwn`); a session, or a person a callback will name, is
that of a used code (`Settled`, which nothing undoes: `GrantsAreKept`); an access
notes every entitlement and has a proven name (`AccessesAreSound`), the latter
because an instance that is up passed its checks (`UpMeansSound`).

* `AccessInvariant`, `AccessTypes`: `Spec => []AccessInv` and `Spec => []TypeOK`.
* `NobodyElsesSession`: `SessionsAreProven`.
* `NoCodeIsBurnt`, `LogoutsEndLogins`: `CodesAreNotBurnt`, `LogoutEndsLogins`.
* `OnlyPublishersOperate`, `OnlyProvenActorsOperate`: `OperatorsAreEntitled` and
  `ActorsAreProven`.

`WebhookRegistrationProofs` assumes `RateLimitAssumption` and `WebhookAssumption`: any
visitors, keys, limits, windows, URLs and number of rows. The limiter has an invariant
of its own (`LimitsInv`), which no step behind it disturbs. `WithinLimits` is not
inductive, since what is compared with the limit is the counter, which pruning
resets: `GrantsAreCounted` says that of a window somebody may still ask for no unit is
forgotten, `VisitsAreRecent` that nobody asks for an older one. `FlowsInv` adds what a
request knows at each statement (`RequestsAreSound`: what is pinned was vetted, who
marks a row was answered 2xx for that very row, who writes filters holds the secret or
lost the race) and what a delivery was enqueued for (`DeliveryIsSound`).

* `RegistrationTypes`: `Spec => []TypeOK`.
* `LimitsHold`: `WithinLimits`.
* `ActiveMeansTested`, `ToldMeansTested`: `VerifiedByItsOwnTest`, `ToldWhoPassed`.
* `OnlyPublicAddresses`: `PublicAddressesOnly`.
* `SecretsStaySecret`: `SecretsAreShownAtMostOnce`, strengthened by what an answer relies on:
  the secret of a row whose maker has yet to answer was shown to nobody, and no two requests
  answer for one row (`SecretsInv`, `AnswersAreOwn`).
* `FiltersAreTheHolders`: the action property `OnlyHoldersReachIn`.

`AdminConsoleProofs` assumes `ConsoleAssumption`: any tabs, publishers, announcements,
roles and bounds. `ConsoleInv` says of every tab that its page or form is about a
revision there is and that nothing built in is selected that was not ticked
(`TabsAreSound`), and `EveryoneWasChosen` of every revision.

* `ConsoleTypes`: `Spec => []TypeOK`.
* `MentionsAreChosen`: `EveryoneWasChosen`. A form that is turned keeps its roles with their
  ticks, or has the default ones, which are not built in (`Turning`).
* `RefusalsMeanStale`: `RefusedMeansStale`. Whatever a page up to date offers, the row
  accepts (`OfferedIsAccepted`).
* `EditedDraftsKeepRoles`: `RolesSurviveEditing`.
* `ConsoleUsesTheStore`: every step maps to `AnnouncementStore`. With `ShowsTheLatest`
  the guards and effects in `AdminConsole`, written from the same functions for another
  purpose, are those of the transactions: the two models cannot drift apart.

Only model-checked: liveness (`DueIsSent`, `EveryDeliveryEnds`, `LocksAreReleased`), which
is beyond the prover. Every other property of a passing run is a theorem, two of them
under a condition: `OnlyLatestLeavesDraft` of requests that do not overlap,
`EveryFailureIsReported` of a window that is long enough. Some theorems state what no run
checks, among them `DecidedForever` and the two refinements of `AnnouncementStore`. What
recursive functions compute for every input would be beyond the prover too; the modules
have no recursion.

## 5. Not modelled

* Rendering, feeds, the public pages, the policy header, TLS options, the tables of
  address ranges, slugs and the validation of input: formatting and decisions over one
  value, without state the properties are about. The unit tests cover them.
* `migrate.ts` and the connection setup, and the scripts for deployment, backup and
  certificates: configuration and I/O of other programs.
* What matches a filter: the comparison of networks, types, severities and audiences is a
  function of two rows, abstracted to its result.
* The order of the three parts of a tick and its try/catch. Each part is a module, and
  `InTime` in `HealthAlerts` is what is assumed of the others.
* Of the admin pages the order of the lists, the history of a tab (a form may be turned to
  any address) and the clock behind the time of a schedule (any click may fail).
* Signal's adapter, which is like Telegram's with another service.

PostgreSQL and postgres.js are modelled from how the code uses them: READ COMMITTED, row
locks, `skip locked`, rollback on a throw, a pool that queues.

## 6. Plan

Done: `Announcements` with `Publication` and `AnnouncementStore`, `Fanout` with `DeliveryLadder`,
`Distribution`, `HealthAlerts`, `EmailSubscription`, `AdminAccess`, `RateLimit` with
`WebhookRegistration`, `AdminConsole`; the proofs of section 4. Left, in this order:

1. `Pipeline`: publication, fan-out and alerts of one tick (the try/catch of
   `tick.ts`); composes the abstract modules. That the ledger and the notes of
   `Distribution` are those the alerts assume is proved (`FeedsTheAlerts`).
2. `Migrate`; the pure functions (the parser of the enabled channels, mention rules)
   against reference definitions.

Runs answer neighbouring questions together where one instance can: a new module
comes with one passing run of its own, composed where two modules share one.
