----------------------------- MODULE RateLimit -----------------------------
(***************************************************************************)
(* The limiter of the public write paths (src/core/rate-limit.ts) and the  *)
(* four routes that ask it (app/actions.ts, the test button of             *)
(* app/manage/[token]/page.tsx, app/api/csp-report/route.ts).              *)
(*                                                                         *)
(* A unit is counted by one statement, in the window the caller's clock    *)
(* showed before it, which may be over by then.  Malformed input is        *)
(* refused before the limiter is asked and is not a visit.                 *)
(***************************************************************************)
EXTENDS Naturals, Sequences

CONSTANTS
    Visitors,       \* public requests that may be in flight at a time
    Ips,            \* what clientIpFromHeaders makes of their headers
    Addresses,      \* email addresses submitted
    Tokens,         \* unsubscribe tokens of webhooks
    Limit,          \* RATE_LIMITS: units per window, per kind of key
    Kept,           \* windows kept by the pruning (24 hours of 1 hour each)
    MaxWindow,      \* bound on the windows that pass
    MaxVisits,      \* bound on the requests that come
    Null

PerIp == {"emailPerIp", "webhookPerIp", "cspReportPerIp", "webhookTestPerIp"}
Kinds == PerIp \cup {"emailPerAddress", "webhookTestPerSub"}

\* The kinds a route consumes, in its order.
Asks == [email    |-> <<"emailPerIp", "emailPerAddress">>,
         register |-> <<"webhookPerIp">>,
         test     |-> <<"webhookTestPerIp", "webhookTestPerSub">>,
         report   |-> <<"cspReportPerIp">>]
Routes  == DOMAIN Asks
Windows == 0..MaxWindow

\* The keys are prefixed by their kind: routes never share a counter.
Keys == (PerIp \X Ips) \cup ({"emailPerAddress"} \X Addresses) \cup ({"webhookTestPerSub"} \X Tokens)

Subjects(route) == CASE route = "email" -> Addresses
                     [] route = "test"  -> Tokens
                     [] OTHER           -> {Null}

\* A visit: where it is, who comes about what, the kind it asks for next, the
\* window its clock showed, and the kinds it was granted a unit of.
Visit == [at: {"asking", "through"}, route: Routes, ip: Ips, subject: Addresses \cup Tokens \cup {Null},
          next: 1..2, window: Windows, held: SUBSET Kinds]

ASSUME RateLimitAssumption ==
    /\ Limit \in [Kinds -> Nat \ {0}]
    /\ Kept \in Nat \ {0} /\ MaxWindow \in Nat /\ MaxVisits \in Nat
    /\ Null \notin Visit

VARIABLES
    window,         \* the hour it is
    came,           \* requests so far
    counts,         \* table rate_limits: units per key and window, 0 without a row
    granted,        \* units granted, which pruning does not forget
    visit           \* per visitor, its visit or Null

limits == <<window, came, counts, granted, visit>>

InitLimits ==
    /\ window = 0 /\ came = 0
    /\ counts  = [k \in Keys |-> [w \in Windows |-> 0]]
    /\ granted = [k \in Keys |-> [w \in Windows |-> 0]]
    /\ visit = [v \in Visitors |-> Null]

----------------------------------------------------------------------------
(* The limiter *)

Asking(v) == visit[v] # Null /\ visit[v].at = "asking"
Kind(v)   == Asks[visit[v].route][visit[v].next]
Key(v)    == <<Kind(v), IF Kind(v) \in PerIp THEN visit[v].ip ELSE visit[v].subject>>

\* Faulty variant: the housekeeping keeps the caller's window only.
PrunesEarlier(seen, w) == w + 1 <= seen

\* Rows of windows that began over a day before the caller's clock, which is
\* past the beginning of its own window.
Prunes(seen, w) == w + Kept <= seen

Pruned(table, seen) ==
    [k \in Keys |-> [w \in Windows |-> IF Prunes(seen, w) THEN 0 ELSE table[k][w]]]

\* The insert that increments on conflict.
Counted(table, k, w) == [table EXCEPT ![k][w] = @ + 1]

Allowed(k, w) == counts[k][w] + 1 <= Limit[k[1]]

----------------------------------------------------------------------------
(* Routes *)

Come(v) ==
    /\ visit[v] = Null /\ came < MaxVisits
    /\ \E route \in Routes, ip \in Ips : \E subject \in Subjects(route) :
         visit' = [visit EXCEPT ![v] = [at |-> "asking", route |-> route, ip |-> ip, subject |-> subject,
                                        next |-> 1, window |-> window, held |-> {}]]
    /\ came' = came + 1
    /\ UNCHANGED <<window, counts, granted>>

\* subscribeEmail consumes both of its units, whatever the first one's answer;
\* the others stop at the first refusal.
GoesOn(v, held) ==
    /\ visit[v].next < Len(Asks[visit[v].route])
    /\ visit[v].route = "email" \/ Kind(v) \in held

Passes(v, held) == \A n \in 1..Len(Asks[visit[v].route]) : Asks[visit[v].route][n] \in held

Consume(v) ==
    /\ Asking(v)
    /\ LET k == Key(v)
           w == visit[v].window
           held == visit[v].held \cup (IF Allowed(k, w) THEN {Kind(v)} ELSE {})
       IN  /\ counts' = Pruned(Counted(counts, k, w), w)
           /\ granted' = IF Allowed(k, w) THEN Counted(granted, k, w) ELSE granted
           /\ visit' = [visit EXCEPT ![v] =
                IF GoesOn(v, held) THEN [@ EXCEPT !.next = 2, !.window = window, !.held = held]
                ELSE IF Passes(v, held) THEN [@ EXCEPT !.at = "through", !.held = held]
                ELSE Null]
    /\ UNCHANGED <<window, came>>

\* A statement of the limiter throws, the first one or the housekeeping after
\* it: a violation report is logged all the same, anything else fails.
LimiterFails(v) ==
    /\ Asking(v)
    /\ visit' = [visit EXCEPT ![v] = IF @.route = "report" THEN [@ EXCEPT !.at = "through"] ELSE Null]
    /\ counts' \in {counts, Counted(counts, Key(v), visit[v].window)}
    /\ UNCHANGED <<window, came, granted>>

\* The email goes on to EmailSubscription, the report to the log.
Leave(v) ==
    /\ visit[v] # Null /\ visit[v].at = "through" /\ visit[v].route \in {"email", "report"}
    /\ visit' = [visit EXCEPT ![v] = Null]
    /\ UNCHANGED <<window, came, counts, granted>>

\* No statement takes longer than the rows are kept.
AdvanceWindow ==
    /\ window < MaxWindow
    /\ \A v \in Visitors : Asking(v) => window + 1 < visit[v].window + Kept
    /\ window' = window + 1
    /\ UNCHANGED <<came, counts, granted, visit>>

NextLimits ==
    \/ \E v \in Visitors : Come(v) \/ Consume(v) \/ LimiterFails(v) \/ Leave(v)
    \/ AdvanceWindow

----------------------------------------------------------------------------
(* Properties *)

\* Every variable holds values the code can store (src/core/rate-limit.ts).
LimitsTypeOK ==
    /\ window \in Windows /\ came \in 0..MaxVisits
    /\ counts \in [Keys -> [Windows -> Nat]]
    /\ granted \in [Keys -> [Windows -> Nat]]
    /\ visit \in [Visitors -> Visit \cup {Null}]

\* No key is granted more units in a window than its limit, however the
\* requests of that window and of later ones overlap, although the pruning of
\* the later ones deletes counters (consumeRateLimit's single statement, and
\* the age of what it deletes).
WithinLimits == \A k \in Keys, w \in Windows : granted[k][w] <= Limit[k[1]]

============================================================================
