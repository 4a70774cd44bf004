--------------------- MODULE WebhookRegistrationProofs ---------------------
(***************************************************************************)
(* Theorems about WebhookRegistration and RateLimit, for any visitors,     *)
(* keys, limits and windows, and any endpoints, filters and number of      *)
(* rows.                                                                   *)
(***************************************************************************)
EXTENDS WebhookRegistration, TLAPS

----------------------------------------------------------------------------
(* Routes and keys *)

\* What a route asks for.
LEMMA AsksByRoute ==
    /\ Routes = {"email", "register", "test", "report"}
    /\ Len(Asks["email"]) = 2 /\ Asks["email"][1] = "emailPerIp" /\ Asks["email"][2] = "emailPerAddress"
    /\ Len(Asks["register"]) = 1 /\ Asks["register"][1] = "webhookPerIp"
    /\ Len(Asks["test"]) = 2 /\ Asks["test"][1] = "webhookTestPerIp" /\ Asks["test"][2] = "webhookTestPerSub"
    /\ Len(Asks["report"]) = 1 /\ Asks["report"][1] = "cspReportPerIp"
  BY DEF Routes, Asks

\* A visit asks for a kind its route has, about a subject its route has.
AsksWhatItMay(w) == w.next \in 1..Len(Asks[w.route]) /\ w.subject \in Subjects(w.route)

LEMMA KeysAreKeys ==
    ASSUME NEW v \in Visitors, visit[v] \in Visit, AsksWhatItMay(visit[v])
    PROVE  Kind(v) \in Kinds /\ Key(v) \in Keys /\ Key(v)[1] = Kind(v)
  <1> DEFINE w == visit[v]
  <1>1. w.route \in Routes /\ w.ip \in Ips
    BY DEF Visit
  <1>2. CASE w.route = "email"
    <2>1. w.next \in {1, 2} /\ w.subject \in Addresses
      BY <1>2, AsksByRoute DEF AsksWhatItMay, Subjects
    <2> QED
      BY <1>1, <1>2, <2>1, AsksByRoute DEF Kind, Key, Keys, Kinds, PerIp
  <1>3. CASE w.route = "register"
    <2>1. w.next = 1
      BY <1>3, AsksByRoute DEF AsksWhatItMay
    <2> QED
      BY <1>1, <1>3, <2>1, AsksByRoute DEF Kind, Key, Keys, Kinds, PerIp
  <1>4. CASE w.route = "test"
    <2>1. w.next \in {1, 2} /\ w.subject \in Tokens
      BY <1>4, AsksByRoute DEF AsksWhatItMay, Subjects
    <2> QED
      BY <1>1, <1>4, <2>1, AsksByRoute DEF Kind, Key, Keys, Kinds, PerIp
  <1>5. CASE w.route = "report"
    <2>1. w.next = 1
      BY <1>5, AsksByRoute DEF AsksWhatItMay
    <2> QED
      BY <1>1, <1>5, <2>1, AsksByRoute DEF Kind, Key, Keys, Kinds, PerIp
  <1> QED
    BY <1>1, <1>2, <1>3, <1>4, <1>5, AsksByRoute

----------------------------------------------------------------------------
(* The inductive invariant of the limiter *)

\* A visit asks for what its route has, and no statement is as old as the rows
\* that are pruned.
VisitsAreRecent ==
    \A v \in Visitors :
        visit[v] # Null =>
            /\ AsksWhatItMay(visit[v])
            /\ visit[v].at = "asking" => visit[v].window <= window /\ window < visit[v].window + Kept

\* What was granted is in the table as long as anybody may ask for that window.
GrantsAreCounted ==
    \A k \in Keys, w \in Windows : window < w + Kept => granted[k][w] <= counts[k][w]

LimitsInv ==
    /\ LimitsTypeOK
    /\ VisitsAreRecent
    /\ GrantsAreCounted
    /\ WithinLimits

\* One visit goes on, the others stay.
LEMMA VisitChanges ==
    ASSUME LimitsInv, NEW v \in Visitors, NEW w \in Visit \cup {Null}, visit' = [visit EXCEPT ![v] = w]
    PROVE  /\ visit' \in [Visitors -> Visit \cup {Null}]
           /\ visit'[v] = w
           /\ \A u \in Visitors : u # v => visit'[u] = visit[u]
  BY DEF LimitsInv, LimitsTypeOK

\* A table with one unit more.
LEMMA CountedIsTable ==
    ASSUME NEW table \in [Keys -> [Windows -> Nat]], NEW k \in Keys, NEW w \in Windows
    PROVE  /\ Counted(table, k, w) \in [Keys -> [Windows -> Nat]]
           /\ \A l \in Keys, u \in Windows :
                Counted(table, k, w)[l][u] = IF l = k /\ u = w THEN table[l][u] + 1 ELSE table[l][u]
  <1>1. Counted(table, k, w) = [table EXCEPT ![k] = [table[k] EXCEPT ![w] = table[k][w] + 1]]
    BY DEF Counted
  <1>2. [table[k] EXCEPT ![w] = table[k][w] + 1] \in [Windows -> Nat]
    OBVIOUS
  <1> QED
    BY <1>1, <1>2

\* A table without the rows of old windows.
LEMMA PrunedIsTable ==
    ASSUME NEW table \in [Keys -> [Windows -> Nat]], NEW seen \in Windows
    PROVE  /\ Pruned(table, seen) \in [Keys -> [Windows -> Nat]]
           /\ \A k \in Keys, w \in Windows :
                Pruned(table, seen)[k][w] = IF w + Kept <= seen THEN 0 ELSE table[k][w]
  BY DEF Pruned, Prunes

\* A visit that goes on is one.
LEMMA VisitGoesOn ==
    ASSUME NEW w \in Visit, NEW u \in Windows, NEW held \in SUBSET Kinds
    PROVE  /\ [w EXCEPT !.next = 2, !.window = u, !.held = held] \in Visit
           /\ [w EXCEPT !.at = "through", !.held = held] \in Visit
  <1>1. 2 \in 1..2
    OBVIOUS
  <1> QED
    BY <1>1 DEF Visit

LEMMA ConsumeKeepsLimits == ASSUME LimitsInv, NEW v \in Visitors, Consume(v) PROVE LimitsInv'
  <1> DEFINE k == Key(v)
             w == visit[v].window
             ok == Allowed(k, w)
             held == visit[v].held \cup (IF ok THEN {Kind(v)} ELSE {})
             next == IF GoesOn(v, held) THEN [visit[v] EXCEPT !.next = 2, !.window = window, !.held = held]
                     ELSE IF Passes(v, held) THEN [visit[v] EXCEPT !.at = "through", !.held = held]
                     ELSE Null
  <1>1. /\ visit[v] \in Visit /\ visit[v].at = "asking" /\ AsksWhatItMay(visit[v])
        /\ w \in Windows /\ w <= window /\ window < w + Kept /\ visit[v] # Null
    BY DEF Consume, Asking, LimitsInv, LimitsTypeOK, VisitsAreRecent, Visit
  <1>2. Kind(v) \in Kinds /\ k \in Keys
    BY <1>1, KeysAreKeys
  <1>3. held \subseteq Kinds
    BY <1>1, <1>2 DEF Visit
  <1>4. /\ counts' = Pruned(Counted(counts, k, w), w)
        /\ granted' = (IF ok THEN Counted(granted, k, w) ELSE granted)
        /\ visit' = [visit EXCEPT ![v] = next] /\ window' = window /\ came' = came
    BY DEF Consume
  <1>5. /\ counts \in [Keys -> [Windows -> Nat]] /\ granted \in [Keys -> [Windows -> Nat]] /\ window \in Windows
        /\ came \in 0..MaxVisits
    BY DEF LimitsInv, LimitsTypeOK
  <1>6. /\ Counted(counts, k, w) \in [Keys -> [Windows -> Nat]]
        /\ \A l \in Keys, u \in Windows :
             Counted(counts, k, w)[l][u] = IF l = k /\ u = w THEN counts[l][u] + 1 ELSE counts[l][u]
    <2>1. w \in Windows /\ k \in Keys /\ counts \in [Keys -> [Windows -> Nat]]
      BY <1>1, <1>2, <1>5
    <2> HIDE DEF k, w, ok, held, next
    <2> QED
      BY <2>1, CountedIsTable
  <1>7. /\ counts' \in [Keys -> [Windows -> Nat]]
        /\ \A l \in Keys, u \in Windows :
             counts'[l][u] = IF u + Kept <= w THEN 0 ELSE Counted(counts, k, w)[l][u]
    BY <1>1, <1>4, <1>6, PrunedIsTable
  <1>8. /\ granted' \in [Keys -> [Windows -> Nat]]
        /\ \A l \in Keys, u \in Windows :
             granted'[l][u] = IF ok /\ l = k /\ u = w THEN granted[l][u] + 1 ELSE granted[l][u]
    <2>1. /\ Counted(granted, k, w) \in [Keys -> [Windows -> Nat]]
          /\ \A l \in Keys, u \in Windows :
               Counted(granted, k, w)[l][u] = IF l = k /\ u = w THEN granted[l][u] + 1 ELSE granted[l][u]
      BY <1>1, <1>2, <1>5, CountedIsTable
    <2> HIDE DEF k, w, ok
    <2> QED
      BY <1>4, <1>5, <2>1
  <1>9. next \in Visit \cup {Null}
    <2>1. [visit[v] EXCEPT !.next = 2, !.window = window, !.held = held] \in Visit
      BY <1>1, <1>3, <1>5, VisitGoesOn
    <2>2. [visit[v] EXCEPT !.at = "through", !.held = held] \in Visit
      BY <1>1, <1>3, <1>5, VisitGoesOn
    <2> QED
      BY <2>1, <2>2
  <1>10. next # Null =>
           /\ AsksWhatItMay(next)
           /\ next.at = "asking" => next.window = window
    <2>1. CASE GoesOn(v, held)
      <3>1. /\ next.next = 2 /\ next.window = window /\ next.route = visit[v].route /\ next.at = "asking"
            /\ next.subject = visit[v].subject
        BY <1>1, <2>1 DEF Visit
      <3>2. 1 <= visit[v].next /\ visit[v].next < Len(Asks[visit[v].route]) /\ visit[v].next \in 1..2
        BY <1>1, <2>1 DEF GoesOn, Visit
      <3>3. visit[v].route \in Routes
        BY <1>1 DEF Visit
      <3>4. 2 \in 1..Len(Asks[visit[v].route])
        BY <3>2, <3>3, AsksByRoute
      <3> HIDE DEF next
      <3> QED
        BY <1>1, <3>1, <3>4 DEF AsksWhatItMay
    <2>2. CASE ~ GoesOn(v, held) /\ Passes(v, held)
      <3>1. /\ next.at = "through" /\ next.route = visit[v].route /\ next.held = held
            /\ next.subject = visit[v].subject /\ next.next = visit[v].next
        BY <1>1, <2>2 DEF Visit
      <3> HIDE DEF next, held
      <3> QED
        BY <1>1, <2>2, <3>1 DEF AsksWhatItMay, Passes
    <2>3. CASE ~ GoesOn(v, held) /\ ~ Passes(v, held)
      BY <2>3
    <2> QED
      BY <2>1, <2>2, <2>3
  <1> HIDE DEF next
  <1>11. LimitsTypeOK'
    BY <1>4, <1>5, <1>7, <1>8, <1>9, VisitChanges DEF LimitsTypeOK
  <1>12. VisitsAreRecent'
    <2> SUFFICES ASSUME NEW u \in Visitors, visit'[u] # Null
                 PROVE  /\ AsksWhatItMay(visit'[u])
                        /\ visit'[u].at = "asking" => visit'[u].window <= window /\ window < visit'[u].window + Kept
      BY <1>4 DEF VisitsAreRecent
    <2>1. window \in Nat /\ Kept \in Nat \ {0}
      BY <1>5, RateLimitAssumption DEF Windows
    <2>2. CASE u = v
      <3>1. visit'[u] = next
        BY <1>4, <1>9, <2>2, VisitChanges
      <3> QED
        BY <1>10, <2>1, <3>1
    <2>3. CASE u # v
      BY <1>4, <1>9, <2>3, VisitChanges DEF LimitsInv, VisitsAreRecent
    <2> QED
      BY <2>2, <2>3
  <1>13. GrantsAreCounted'
    <2> SUFFICES ASSUME NEW l \in Keys, NEW u \in Windows, window < u + Kept
                 PROVE  granted'[l][u] <= counts'[l][u]
      BY <1>4 DEF GrantsAreCounted
    <2>1. granted[l][u] <= counts[l][u] /\ granted[l][u] \in Nat /\ counts[l][u] \in Nat
      BY <1>5 DEF LimitsInv, GrantsAreCounted
    <2>2. ~ (u + Kept <= w)
      BY <1>1, <1>5, RateLimitAssumption DEF Windows
    <2> HIDE DEF w, k, ok
    <2> QED
      BY <1>6, <1>7, <1>8, <2>1, <2>2
  <1>14. WithinLimits'
    <2> SUFFICES ASSUME NEW l \in Keys, NEW u \in Windows PROVE granted'[l][u] <= Limit[l[1]]
      BY DEF WithinLimits
    <2>1. granted[l][u] <= Limit[l[1]]
      BY DEF LimitsInv, WithinLimits
    <2>2. CASE ok /\ l = k /\ u = w
      <3>1. granted[k][w] <= counts[k][w] /\ granted[k][w] \in Nat /\ counts[k][w] \in Nat
        BY <1>1, <1>2, <1>5 DEF LimitsInv, GrantsAreCounted
      <3>2. counts[k][w] + 1 <= Limit[k[1]]
        BY <2>2 DEF Allowed
      <3>3. Limit[k[1]] \in Nat
        BY <1>1, <1>2, KeysAreKeys, RateLimitAssumption
      <3>4. granted'[l][u] = granted[k][w] + 1
        BY <1>8, <2>2
      <3> HIDE DEF k, w, ok
      <3> QED
        BY <2>2, <3>1, <3>2, <3>3, <3>4
    <2>3. CASE ~ (ok /\ l = k /\ u = w)
      BY <1>8, <2>1, <2>3
    <2> QED
      BY <2>2, <2>3
  <1> QED
    BY <1>11, <1>12, <1>13, <1>14 DEF LimitsInv

\* A step after which one visit is another, or none, and the table has at
\* least as many units.
LEMMA VisitStep ==
    ASSUME LimitsInv, NEW v \in Visitors, NEW w \in Visit \cup {Null}, visit' = [visit EXCEPT ![v] = w],
           w # Null => /\ AsksWhatItMay(w)
                       /\ w.at = "asking" => w.window = window,
           window' = window, granted' = granted, came' \in 0..MaxVisits,
           counts' \in [Keys -> [Windows -> Nat]],
           \A k \in Keys, u \in Windows : counts[k][u] <= counts'[k][u]
    PROVE  LimitsInv'
  <1>1. LimitsTypeOK'
    BY VisitChanges DEF LimitsInv, LimitsTypeOK
  <1>2. window \in Nat /\ Kept \in Nat \ {0}
    BY RateLimitAssumption DEF LimitsInv, LimitsTypeOK, Windows
  <1>3. VisitsAreRecent'
    <2> SUFFICES ASSUME NEW u \in Visitors, visit'[u] # Null
                 PROVE  /\ AsksWhatItMay(visit'[u])
                        /\ visit'[u].at = "asking" => visit'[u].window <= window /\ window < visit'[u].window + Kept
      BY DEF VisitsAreRecent
    <2>1. CASE u = v
      <3>1. visit'[u] = w
        BY <2>1, VisitChanges
      <3> QED
        BY <1>2, <3>1
    <2>2. CASE u # v
      BY <2>2, VisitChanges DEF LimitsInv, VisitsAreRecent
    <2> QED
      BY <2>1, <2>2
  <1>4. GrantsAreCounted'
    <2> SUFFICES ASSUME NEW k \in Keys, NEW u \in Windows, window < u + Kept
                 PROVE  granted[k][u] <= counts'[k][u]
      BY DEF GrantsAreCounted
    <2>1. granted[k][u] \in Nat /\ counts[k][u] \in Nat /\ counts'[k][u] \in Nat
      BY DEF LimitsInv, LimitsTypeOK
    <2>2. granted[k][u] <= counts[k][u] /\ counts[k][u] <= counts'[k][u]
      BY DEF LimitsInv, GrantsAreCounted
    <2> QED
      BY <2>1, <2>2
  <1>5. WithinLimits'
    BY DEF LimitsInv, WithinLimits
  <1> QED
    BY <1>1, <1>3, <1>4, <1>5 DEF LimitsInv

\* A table that is as it was.
LEMMA TableStays ==
    ASSUME LimitsInv
    PROVE  /\ counts \in [Keys -> [Windows -> Nat]]
           /\ \A k \in Keys, u \in Windows : counts[k][u] <= counts[k][u]
           /\ came \in 0..MaxVisits
  <1>1. counts \in [Keys -> [Windows -> Nat]] /\ came \in 0..MaxVisits
    BY DEF LimitsInv, LimitsTypeOK
  <1>2. \A k \in Keys, u \in Windows : counts[k][u] \in Nat
    BY <1>1
  <1> QED
    BY <1>1, <1>2

LEMMA LeavingKeepsLimits ==
    ASSUME LimitsInv, NEW v \in Visitors, visit' = [visit EXCEPT ![v] = Null],
           UNCHANGED <<window, came, counts, granted>>
    PROVE  LimitsInv'
  <1>1. counts' \in [Keys -> [Windows -> Nat]] /\ came' \in 0..MaxVisits
        /\ \A k \in Keys, u \in Windows : counts[k][u] <= counts'[k][u]
    BY TableStays
  <1> QED
    BY <1>1, VisitStep

LEMMA ComeKeepsLimits == ASSUME LimitsInv, NEW v \in Visitors, Come(v) PROVE LimitsInv'
  <1>0. PICK route \in Routes, ip \in Ips :
          \E subject \in Subjects(route) :
            visit' = [visit EXCEPT ![v] = [at |-> "asking", route |-> route, ip |-> ip, subject |-> subject,
                                           next |-> 1, window |-> window, held |-> {}]]
    BY DEF Come
  <1>1. PICK subject \in Subjects(route) :
          visit' = [visit EXCEPT ![v] = [at |-> "asking", route |-> route, ip |-> ip, subject |-> subject,
                                         next |-> 1, window |-> window, held |-> {}]]
    BY <1>0
  <1> DEFINE w == [at |-> "asking", route |-> route, ip |-> ip, subject |-> subject,
                   next |-> 1, window |-> window, held |-> {}]
  <1>2. subject \in Addresses \cup Tokens \cup {Null}
    BY DEF Subjects
  <1>3. window \in Windows /\ 1 \in 1..2
    BY DEF LimitsInv, LimitsTypeOK
  <1>4. w \in Visit
    BY <1>2, <1>3 DEF Visit
  <1>5. 1 \in 1..Len(Asks[route])
    BY AsksByRoute
  <1>6. AsksWhatItMay(w) /\ w.at = "asking" /\ w.window = window
    BY <1>5 DEF AsksWhatItMay
  <1>7. came' \in 0..MaxVisits
    BY RateLimitAssumption DEF Come, LimitsInv, LimitsTypeOK
  <1>8. counts' \in [Keys -> [Windows -> Nat]] /\ \A k \in Keys, u \in Windows : counts[k][u] <= counts'[k][u]
    BY TableStays DEF Come
  <1>9. visit' = [visit EXCEPT ![v] = w]
    BY <1>1
  <1> HIDE DEF w
  <1> QED
    BY <1>4, <1>6, <1>7, <1>8, <1>9, VisitStep DEF Come

LEMMA FailingKeepsLimits == ASSUME LimitsInv, NEW v \in Visitors, LimiterFails(v) PROVE LimitsInv'
  <1> DEFINE w == IF visit[v].route = "report" THEN [visit[v] EXCEPT !.at = "through"] ELSE Null
  <1>1. visit[v] \in Visit /\ visit[v] # Null /\ AsksWhatItMay(visit[v]) /\ visit[v].window \in Windows
    BY DEF LimiterFails, Asking, LimitsInv, LimitsTypeOK, VisitsAreRecent, Visit
  <1>2. w \in Visit \cup {Null}
    BY <1>1 DEF Visit
  <1>3. w # Null => AsksWhatItMay(w) /\ w.at = "through" /\ w.route = "report"
    BY <1>1 DEF Visit, AsksWhatItMay
  <1>4. Key(v) \in Keys /\ counts \in [Keys -> [Windows -> Nat]]
    BY <1>1, KeysAreKeys, TableStays
  <1>5. counts' \in [Keys -> [Windows -> Nat]] /\ \A k \in Keys, u \in Windows : counts[k][u] <= counts'[k][u]
    <2>1. CASE counts' = counts
      BY <2>1, TableStays
    <2>2. CASE counts' = Counted(counts, Key(v), visit[v].window)
      <3>1. \A k \in Keys, u \in Windows : counts[k][u] \in Nat
        BY <1>4
      <3>2. /\ counts' \in [Keys -> [Windows -> Nat]]
            /\ \A k \in Keys, u \in Windows :
                 counts'[k][u] = IF k = Key(v) /\ u = visit[v].window THEN counts[k][u] + 1 ELSE counts[k][u]
        BY <1>1, <1>4, <2>2, CountedIsTable
      <3> QED
        BY <3>1, <3>2
    <2> QED
      BY <2>1, <2>2 DEF LimiterFails
  <1>6. visit' = [visit EXCEPT ![v] = w] /\ came' \in 0..MaxVisits
    BY TableStays DEF LimiterFails
  <1> HIDE DEF w
  <1> QED
    BY <1>2, <1>3, <1>5, <1>6, VisitStep DEF LimiterFails

LEMMA TimeKeepsLimits == ASSUME LimitsInv, AdvanceWindow PROVE LimitsInv'
  <1>1. window \in Nat /\ window' = window + 1 /\ Kept \in Nat \ {0} /\ UNCHANGED <<came, counts, granted, visit>>
    BY RateLimitAssumption DEF LimitsInv, LimitsTypeOK, AdvanceWindow, Windows
  <1>2. LimitsTypeOK'
    BY <1>1, RateLimitAssumption DEF LimitsInv, LimitsTypeOK, AdvanceWindow, Windows
  <1>3. VisitsAreRecent'
    <2> SUFFICES ASSUME NEW v \in Visitors, visit[v] # Null
                 PROVE  /\ AsksWhatItMay(visit[v])
                        /\ visit[v].at = "asking" => visit[v].window <= window' /\ window' < visit[v].window + Kept
      BY <1>1 DEF VisitsAreRecent
    <2>1. visit[v].window \in Nat
      BY DEF LimitsInv, LimitsTypeOK, Visit, Windows
    <2> QED
      BY <1>1, <2>1 DEF LimitsInv, VisitsAreRecent, AdvanceWindow, Asking
  <1>4. GrantsAreCounted'
    <2> SUFFICES ASSUME NEW k \in Keys, NEW u \in Windows, window' < u + Kept
                 PROVE  granted[k][u] <= counts[k][u]
      BY <1>1 DEF GrantsAreCounted
    <2>1. window < u + Kept
      BY <1>1 DEF Windows
    <2> QED
      BY <2>1 DEF LimitsInv, GrantsAreCounted
  <1>5. WithinLimits'
    BY <1>1 DEF LimitsInv, WithinLimits
  <1> QED
    BY <1>2, <1>3, <1>4, <1>5 DEF LimitsInv

LEMMA UnchangedKeepsLimits == ASSUME LimitsInv, UNCHANGED limits PROVE LimitsInv'
  BY DEF limits, LimitsInv, LimitsTypeOK, VisitsAreRecent, Asking, GrantsAreCounted, WithinLimits

\* What the flows behind the limiter do to it: a visit may end.
LEMMA FlowsOnlyLeave ==
    ASSUME Next
    PROVE  \/ NextLimits
           \/ UNCHANGED limits
           \/ \E v \in Visitors : End(v)
  <1>1. ASSUME NEW v \in Visitors, NEW place, NEW next, Vet(v, place, next)
        PROVE  UNCHANGED limits \/ End(v)
    BY <1>1 DEF Vet
  <1>2. ASSUME NEW v \in Visitors,
               \/ Register(v) \/ Select(v) \/ Insert(v) \/ Answer(v) \/ Reselect(v) \/ Apply(v)
               \/ Test(v) \/ Post(v) \/ Mark(v) \/ Die(v)
        PROVE  UNCHANGED limits \/ End(v)
    BY <1>2 DEF Register, Select, Insert, Answer, Reselect, Apply, Test, Post, Mark, Die, Goto
  <1>3. ASSUME NEW i \in Ids, UnsubscribeByToken(i) \/ \E f \in Filters : UpdateFiltersByToken(i, f)
        PROVE  UNCHANGED limits
    BY <1>3 DEF UnsubscribeByToken, UpdateFiltersByToken
  <1>4. ASSUME Enqueue \/ ReadTarget \/ VetTarget \/ PostTarget PROVE UNCHANGED limits
    BY <1>4 DEF Enqueue, ReadTarget, VetTarget, PostTarget
  <1> QED
    BY <1>1, <1>2, <1>3, <1>4 DEF Next

LEMMA NextKeepsLimits == LimitsInv /\ [Next]_vars => LimitsInv'
  <1> SUFFICES ASSUME LimitsInv, [Next]_vars PROVE LimitsInv'
    OBVIOUS
  <1>1. CASE NextLimits
    <2>1. ASSUME NEW v \in Visitors, Leave(v) PROVE LimitsInv'
      BY <2>1, LeavingKeepsLimits DEF Leave
    <2> QED
      BY <1>1, <2>1, ComeKeepsLimits, ConsumeKeepsLimits, FailingKeepsLimits, TimeKeepsLimits DEF NextLimits
  <1>2. ASSUME NEW v \in Visitors, End(v) PROVE LimitsInv'
    BY <1>2, LeavingKeepsLimits DEF End
  <1>3. CASE UNCHANGED limits
    BY <1>3, UnchangedKeepsLimits
  <1> QED
    BY <1>1, <1>2, <1>3, FlowsOnlyLeave DEF vars

LEMMA InitLimitsSound == Init => LimitsInv
  <1> SUFFICES ASSUME Init PROVE LimitsInv
    OBVIOUS
  <1>1. InitLimits
    BY DEF Init
  <1>2. LimitsTypeOK
    BY <1>1, RateLimitAssumption DEF InitLimits, LimitsTypeOK, Windows
  <1>3. VisitsAreRecent
    BY <1>1 DEF InitLimits, VisitsAreRecent
  <1>4. GrantsAreCounted
    BY <1>1 DEF InitLimits, GrantsAreCounted
  <1>5. WithinLimits
    <2> SUFFICES ASSUME NEW k \in Keys, NEW w \in Windows PROVE granted[k][w] <= Limit[k[1]]
      BY DEF WithinLimits
    <2>1. k[1] \in Kinds
      BY DEF Keys, Kinds
    <2> QED
      BY <1>1, <2>1, RateLimitAssumption DEF InitLimits
  <1> QED
    BY <1>2, <1>3, <1>4, <1>5 DEF LimitsInv

----------------------------------------------------------------------------
(* The inductive invariant of the flows behind it *)

FlowsTypeOK ==
    /\ row \in [Endpoints -> Row \cup {Null}]
    /\ made \in 0..MaxRows
    /\ request \in [Visitors -> Request \cup {Null}]
    /\ delivery \in Delivery \cup {Null}
    /\ passed \subseteq Ids /\ told \subseteq Ids
    /\ shown \in [Ids -> Nat]
    /\ reached \subseteq Destinations

\* What is pinned was vetted, and a request that marks a row was answered 2xx;
\* who writes filters holds the row's secret, or lost the race without one.
RequestIsSound(q, ok) ==
    /\ q.pinned \subseteq {"public"}
    /\ q.at \in {"answer", "apply", "applyLost", "vetTest", "post", "mark"} => q.id \in Ids
    /\ q.at = "mark" => q.id \in ok
    /\ q.at = "apply" => q.knows = q.id
    /\ q.at \in {"insert", "lost", "applyLost"} => q.knows = Null

RequestsAreSound == \A v \in Visitors : request[v] # Null => RequestIsSound(request[v], passed)

\* A delivery was enqueued for a subscription that had passed its test.
DeliveryIsSound == delivery # Null => delivery.id \in passed /\ delivery.pinned \subseteq {"public"}

FlowsInv ==
    /\ FlowsTypeOK
    /\ RequestsAreSound
    /\ DeliveryIsSound
    /\ VerifiedByItsOwnTest
    /\ PublicAddressesOnly
    /\ ToldWhoPassed

\* One request goes on, the others stay, and nothing is forgotten.
LEMMA RequestChanges ==
    ASSUME FlowsInv, NEW v \in Visitors, NEW q \in Request \cup {Null}, request' = [request EXCEPT ![v] = q],
           passed \subseteq passed', q # Null => RequestIsSound(q, passed')
    PROVE  request' \in [Visitors -> Request \cup {Null}] /\ RequestsAreSound'
  <1>1. request' \in [Visitors -> Request \cup {Null}] /\ request'[v] = q
        /\ \A u \in Visitors : u # v => request'[u] = request[u]
    BY DEF FlowsInv, FlowsTypeOK
  <1>2. ASSUME NEW u \in Visitors, request'[u] # Null PROVE RequestIsSound(request'[u], passed')
    <2>1. CASE u = v
      BY <1>1, <1>2, <2>1
    <2>2. CASE u # v
      BY <1>1, <1>2, <2>2 DEF FlowsInv, RequestsAreSound, RequestIsSound
    <2> QED
      BY <2>1, <2>2
  <1> QED
    BY <1>1, <1>2 DEF RequestsAreSound

LEMMA RequestsStay ==
    ASSUME FlowsInv, request' = request, passed' = passed
    PROVE  request' \in [Visitors -> Request \cup {Null}] /\ RequestsAreSound'
  BY DEF FlowsInv, FlowsTypeOK, RequestsAreSound, RequestIsSound

\* A step that writes nothing but its request.
LEMMA QuietStep ==
    ASSUME FlowsInv, request' \in [Visitors -> Request \cup {Null}], RequestsAreSound',
           UNCHANGED <<row, made, delivery, passed, shown, reached, told>>
    PROVE  FlowsInv'
  BY DEF FlowsInv, FlowsTypeOK, DeliveryIsSound, VerifiedByItsOwnTest, PublicAddressesOnly, ToldWhoPassed

LEMMA EndIsSound ==
    ASSUME FlowsInv, NEW v \in Visitors, End(v), passed' = passed
    PROVE  request' \in [Visitors -> Request \cup {Null}] /\ RequestsAreSound'
  <1>1. Null # Null => RequestIsSound(Null, passed')
    OBVIOUS
  <1>2. request' = [request EXCEPT ![v] = Null] /\ passed \subseteq passed'
    BY DEF End
  <1> QED
    BY <1>1, <1>2, RequestChanges

\* What a request is.
LEMMA RequestAt ==
    ASSUME FlowsInv, NEW v \in Visitors, request[v] # Null
    PROVE  request[v] \in Request /\ RequestIsSound(request[v], passed)
  BY DEF FlowsInv, FlowsTypeOK, RequestsAreSound

\* A request that goes to another place.
LEMMA GoIsRequest ==
    ASSUME NEW q \in Request, NEW place \in Places
    PROVE  LET go == [q EXCEPT !.at = place] IN
           go \in Request /\ go.at = place /\ go.id = q.id /\ go.knows = q.knows /\ go.pinned = q.pinned
  BY DEF Request

\* What is deliverable is public.
LEMMA VettedIsPublic ==
    ASSUME NEW answer \in SUBSET Destinations, Deliverable(answer)
    PROVE  answer \subseteq {"public"}
  BY DEF Deliverable, Destinations

----------------------------------------------------------------------------
(* The steps of requests *)

LEMMA RegisterKeeps == ASSUME FlowsInv, NEW v \in Visitors, Register(v) PROVE FlowsInv'
  <1>1. PICK e \in Endpoints, f \in Filters, s \in (1..made) \cup {Null} :
          request' = [request EXCEPT ![v] = [at |-> "vet", url |-> e, filters |-> f, knows |-> s,
                                             id |-> Null, pinned |-> {}]]
    BY DEF Register
  <1> DEFINE q == [at |-> "vet", url |-> e, filters |-> f, knows |-> s, id |-> Null, pinned |-> {}]
  <1>2. s \in Ids \cup {Null}
    BY WebhookAssumption DEF FlowsInv, FlowsTypeOK, Ids
  <1>3. q \in Request
    BY <1>2 DEF Request, Places
  <1>4. RequestIsSound(q, passed')
    BY DEF RequestIsSound
  <1>5. request' = [request EXCEPT ![v] = q] /\ passed \subseteq passed'
    BY <1>1 DEF Register
  <1> HIDE DEF q
  <1> QED
    BY <1>3, <1>4, <1>5, RequestChanges, QuietStep DEF Register

LEMMA VetKeeps ==
    ASSUME FlowsInv, NEW v \in Visitors,
           NEW place \in {"vet", "vetTest"}, NEW next \in {"select", "post"},
           next = "post" => place = "vetTest", Vet(v, place, next)
    PROVE  FlowsInv'
  <1>1. request[v] \in Request /\ RequestIsSound(request[v], passed) /\ request[v].at = place
    BY RequestAt DEF Vet, At
  <1>2. PICK answer \in SUBSET Destinations :
          IF Deliverable(answer)
          THEN request' = [request EXCEPT ![v].at = next, ![v].pinned = answer]
          ELSE End(v)
    BY DEF Vet
  <1>3. CASE ~ Deliverable(answer)
    BY <1>2, <1>3, EndIsSound, QuietStep DEF Vet
  <1>4. CASE Deliverable(answer)
    <2> DEFINE q == [request[v] EXCEPT !.at = next, !.pinned = answer]
    <2>1. /\ q \in Request /\ q.at = next /\ q.id = request[v].id /\ q.knows = request[v].knows /\ q.pinned = answer
      BY <1>1 DEF Request, Places
    <2>2. request' = [request EXCEPT ![v] = q] /\ passed' = passed
      BY <1>2, <1>4 DEF Vet, FlowsInv, FlowsTypeOK
    <2> HIDE DEF q
    <2>3. RequestIsSound(q, passed')
      BY <1>1, <1>4, <2>1, VettedIsPublic DEF RequestIsSound
    <2> QED
      BY <2>1, <2>2, <2>3, RequestChanges, QuietStep DEF Vet
  <1> QED
    BY <1>3, <1>4

LEMMA SelectKeeps == ASSUME FlowsInv, NEW v \in Visitors, Select(v) PROVE FlowsInv'
  <1> DEFINE found == row[request[v].url]
             by == [request[v] EXCEPT !.at = "apply", !.id = found.id]
             go == [request[v] EXCEPT !.at = "insert"]
  <1>1. request[v] \in Request /\ RequestIsSound(request[v], passed) /\ request[v].at = "select"
    BY RequestAt DEF Select, At
  <1>2. found \in Row \cup {Null}
    BY <1>1 DEF FlowsInv, FlowsTypeOK, Request
  <1>3. CASE found # Null /\ MayChange(v) /\ request' = [request EXCEPT ![v].at = "apply", ![v].id = found.id]
    <2>1. found.id \in Ids /\ request[v].knows = found.id
      BY <1>2, <1>3 DEF Row, MayChange
    <2>2. by \in Request /\ by.at = "apply" /\ by.id = found.id /\ by.knows = request[v].knows
          /\ by.pinned = request[v].pinned
      BY <1>1, <2>1 DEF Request, Places
    <2>3. request' = [request EXCEPT ![v] = by] /\ passed' = passed
      BY <1>3 DEF Select, FlowsInv, FlowsTypeOK
    <2> HIDE DEF by, found
    <2>4. RequestIsSound(by, passed')
      BY <1>1, <2>1, <2>2 DEF RequestIsSound
    <2> QED
      BY <2>2, <2>3, <2>4, RequestChanges, QuietStep DEF Select
  <1>4. CASE request[v].knows = Null /\ Goto(v, "insert")
    <2>1. go \in Request /\ go.at = "insert" /\ go.id = request[v].id /\ go.knows = request[v].knows
          /\ go.pinned = request[v].pinned
      BY <1>1, GoIsRequest DEF Places
    <2>2. request' = [request EXCEPT ![v] = go] /\ passed' = passed
      BY <1>4 DEF Select, Goto, FlowsInv, FlowsTypeOK
    <2> HIDE DEF go
    <2>3. RequestIsSound(go, passed')
      BY <1>1, <1>4, <2>1 DEF RequestIsSound
    <2> QED
      BY <2>1, <2>2, <2>3, RequestChanges, QuietStep DEF Select
  <1>5. CASE End(v)
    BY <1>5, EndIsSound, QuietStep DEF Select
  <1> QED
    BY <1>3, <1>4, <1>5 DEF Select

LEMMA InsertKeeps == ASSUME FlowsInv, NEW v \in Visitors, Insert(v) PROVE FlowsInv'
  <1> DEFINE e == request[v].url
             new == [id |-> made + 1, filters |-> request[v].filters, verified |-> FALSE]
             own == [request[v] EXCEPT !.at = "answer", !.id = made + 1]
             go == [request[v] EXCEPT !.at = "lost"]
  <1>1. request[v] \in Request /\ RequestIsSound(request[v], passed) /\ request[v].at = "insert"
    BY RequestAt DEF Insert, At
  <1>2. e \in Endpoints /\ request[v].filters \in Filters
    BY <1>1 DEF Request
  <1>3. CASE row[e] = Null
    <2>1. /\ made < MaxRows /\ made' = made + 1 /\ row' = [row EXCEPT ![e] = new]
          /\ UNCHANGED <<delivery, passed, shown, reached, told>>
      BY <1>3 DEF Insert
    <2>2. made + 1 \in Ids /\ made' \in 0..MaxRows
      BY <2>1, WebhookAssumption DEF FlowsInv, FlowsTypeOK, Ids
    <2>3. new \in Row /\ new.verified = FALSE
      BY <1>2, <2>2 DEF Row
    <2>4. row' \in [Endpoints -> Row \cup {Null}] /\ \A f \in Endpoints : row'[f] = IF f = e THEN new ELSE row[f]
      BY <1>2, <2>1, <2>3 DEF FlowsInv, FlowsTypeOK
    <2>5. VerifiedByItsOwnTest'
      BY <2>1, <2>3, <2>4 DEF FlowsInv, VerifiedByItsOwnTest
    <2>6. own \in Request /\ own.at = "answer" /\ own.id \in Ids /\ own.pinned = request[v].pinned
      BY <1>1, <2>2 DEF Request, Places
    <2>7. request' = [request EXCEPT ![v] = own] /\ passed \subseteq passed'
      BY <1>3, <2>1 DEF Insert, FlowsInv, FlowsTypeOK
    <2> HIDE DEF new, go, own
    <2>8. RequestIsSound(own, passed')
      BY <1>1, <2>6 DEF RequestIsSound
    <2>9. request' \in [Visitors -> Request \cup {Null}] /\ RequestsAreSound'
      BY <2>6, <2>7, <2>8, RequestChanges
    <2> QED
      BY <2>1, <2>2, <2>4, <2>5, <2>9
         DEF FlowsInv, FlowsTypeOK, DeliveryIsSound, PublicAddressesOnly, ToldWhoPassed
  <1>4. CASE row[e] # Null
    <2>1. go \in Request /\ go.at = "lost" /\ go.id = request[v].id /\ go.knows = request[v].knows
          /\ go.pinned = request[v].pinned
      BY <1>1, GoIsRequest DEF Places
    <2>2. request' = [request EXCEPT ![v] = go] /\ UNCHANGED <<row, made, delivery, passed, shown, reached, told>>
      BY <1>4 DEF Insert, Goto, FlowsInv, FlowsTypeOK
    <2> HIDE DEF go
    <2>3. RequestIsSound(go, passed')
      BY <1>1, <2>1, <2>2 DEF RequestIsSound
    <2> QED
      BY <2>1, <2>2, <2>3, RequestChanges, QuietStep
  <1> QED
    BY <1>3, <1>4

LEMMA AnswerKeeps == ASSUME FlowsInv, NEW v \in Visitors, Answer(v) PROVE FlowsInv'
  <1>1. shown' \in [Ids -> Nat]
    <2>1. request[v].id \in Ids
      BY RequestAt DEF Answer, At, RequestIsSound
    <2> QED
      BY <2>1 DEF Answer, FlowsInv, FlowsTypeOK
  <1>2. request' \in [Visitors -> Request \cup {Null}] /\ RequestsAreSound'
    BY EndIsSound DEF Answer
  <1> QED
    BY <1>1, <1>2
       DEF Answer, FlowsInv, FlowsTypeOK, DeliveryIsSound, VerifiedByItsOwnTest, PublicAddressesOnly, ToldWhoPassed

LEMMA ReselectKeeps == ASSUME FlowsInv, NEW v \in Visitors, Reselect(v) PROVE FlowsInv'
  <1> DEFINE found == row[request[v].url]
             by == [request[v] EXCEPT !.at = "applyLost", !.id = found.id]
  <1>1. request[v] \in Request /\ RequestIsSound(request[v], passed) /\ request[v].at = "lost"
    BY RequestAt DEF Reselect, At
  <1>2. CASE found = Null
    BY <1>2, EndIsSound, QuietStep DEF Reselect
  <1>3. CASE found # Null
    <2>1. found.id \in Ids
      BY <1>1, <1>3 DEF FlowsInv, FlowsTypeOK, Request, Row
    <2>2. by \in Request /\ by.at = "applyLost" /\ by.id = found.id /\ by.knows = request[v].knows
          /\ by.pinned = request[v].pinned
      BY <1>1, <2>1 DEF Request, Places
    <2>3. request' = [request EXCEPT ![v] = by] /\ passed' = passed
      BY <1>3 DEF Reselect, FlowsInv, FlowsTypeOK
    <2> HIDE DEF by, found
    <2>4. RequestIsSound(by, passed')
      BY <1>1, <2>1, <2>2 DEF RequestIsSound
    <2> QED
      BY <2>2, <2>3, <2>4, RequestChanges, QuietStep DEF Reselect
  <1> QED
    BY <1>2, <1>3

\* Rows that are written by id keep their numbers; they become verified only if
\* they passed.
LEMMA RowsAreWritten ==
    ASSUME FlowsInv, NEW ids \in SUBSET Ids, NEW f \in Filters, passed' = passed,
           \/ row' = [e \in Endpoints |-> IF row[e] # Null /\ row[e].id \in ids
                                          THEN [row[e] EXCEPT !.filters = f] ELSE row[e]]
           \/ /\ ids \subseteq passed
              /\ row' = [e \in Endpoints |-> IF row[e] # Null /\ row[e].id \in ids
                                             THEN [row[e] EXCEPT !.verified = TRUE] ELSE row[e]]
           \/ row' = [e \in Endpoints |-> IF row[e] # Null /\ row[e].id \in ids THEN Null ELSE row[e]]
    PROVE  row' \in [Endpoints -> Row \cup {Null}] /\ VerifiedByItsOwnTest'
  <1> DEFINE filtered(r) == [r EXCEPT !.filters = f]
             marked(r)   == [r EXCEPT !.verified = TRUE]
  <1>1. \A e \in Endpoints : row[e] \in Row \cup {Null}
    BY DEF FlowsInv, FlowsTypeOK
  <1>2. \A r \in Row : /\ filtered(r) \in Row /\ filtered(r).id = r.id /\ filtered(r).verified = r.verified
                       /\ marked(r) \in Row /\ marked(r).id = r.id
    BY DEF Row
  <1>3. \A e \in Endpoints :
          \/ row'[e] = Null
          \/ row'[e] = row[e]
          \/ row[e] # Null /\ row'[e] = filtered(row[e])
          \/ row[e] # Null /\ row'[e] = marked(row[e]) /\ row[e].id \in passed
    OBVIOUS
  <1>4. row' = [e \in Endpoints |-> row'[e]]
    OBVIOUS
  <1> HIDE DEF filtered, marked
  <1>5. \A e \in Endpoints : row'[e] \in Row \cup {Null}
    BY <1>1, <1>2, <1>3
  <1>6. row' \in [Endpoints -> Row \cup {Null}]
    BY <1>4, <1>5
  <1>7. \A e \in Endpoints : row'[e] # Null /\ row'[e].verified => row'[e].id \in passed
    BY <1>1, <1>2, <1>3 DEF FlowsInv, VerifiedByItsOwnTest
  <1> QED
    BY <1>6, <1>7 DEF VerifiedByItsOwnTest

LEMMA FiltersAreWritten ==
    ASSUME FlowsInv, NEW i \in Ids, NEW f \in Filters, SetFilters(i, f), passed' = passed
    PROVE  row' \in [Endpoints -> Row \cup {Null}] /\ VerifiedByItsOwnTest'
  <1>1. row' = [e \in Endpoints |-> IF row[e] # Null /\ row[e].id \in {i}
                                    THEN [row[e] EXCEPT !.filters = f] ELSE row[e]]
    BY DEF SetFilters, IsRow
  <1> QED
    BY <1>1, RowsAreWritten

\* A step that writes rows and requests.
LEMMA RowStep ==
    ASSUME FlowsInv, row' \in [Endpoints -> Row \cup {Null}], VerifiedByItsOwnTest',
           request' \in [Visitors -> Request \cup {Null}], RequestsAreSound',
           UNCHANGED <<made, delivery, passed, shown, reached, told>>
    PROVE  FlowsInv'
  BY DEF FlowsInv, FlowsTypeOK, DeliveryIsSound, PublicAddressesOnly, ToldWhoPassed

LEMMA ApplyKeeps == ASSUME FlowsInv, NEW v \in Visitors, Apply(v) PROVE FlowsInv'
  <1> DEFINE go == [request[v] EXCEPT !.at = "post"]
  <1>1. request[v] \in Request /\ RequestIsSound(request[v], passed) /\ request[v].at \in {"apply", "applyLost"}
    BY RequestAt DEF Apply
  <1>2. request[v].id \in Ids /\ request[v].filters \in Filters
    BY <1>1 DEF RequestIsSound, Request
  <1>3. row' \in [Endpoints -> Row \cup {Null}] /\ VerifiedByItsOwnTest'
    BY <1>2, FiltersAreWritten DEF Apply
  <1>4. CASE Goto(v, "post")
    <2>1. go \in Request /\ go.at = "post" /\ go.id = request[v].id /\ go.knows = request[v].knows
          /\ go.pinned = request[v].pinned
      BY <1>1, GoIsRequest DEF Places
    <2>2. request' = [request EXCEPT ![v] = go] /\ passed' = passed
      BY <1>4 DEF Apply, Goto, FlowsInv, FlowsTypeOK
    <2> HIDE DEF go
    <2>3. RequestIsSound(go, passed')
      BY <1>1, <1>2, <2>1 DEF RequestIsSound
    <2> QED
      BY <1>3, <2>1, <2>2, <2>3, RequestChanges, RowStep DEF Apply
  <1>5. CASE End(v)
    BY <1>3, <1>5, EndIsSound, RowStep DEF Apply
  <1> QED
    BY <1>4, <1>5 DEF Apply

LEMMA TestKeeps == ASSUME FlowsInv, NEW v \in Visitors, Test(v) PROVE FlowsInv'
  <1> DEFINE t == visit[v].subject
             found == {e \in Endpoints : IsRow(e, t)}
  <1>1. CASE End(v)
    BY <1>1, EndIsSound, QuietStep DEF Test
  <1>2. ASSUME NEW e \in found,
               request' = [request EXCEPT ![v] =
                 [at |-> "vetTest", url |-> e, filters |-> row[e].filters, knows |-> t, id |-> t, pinned |-> {}]]
        PROVE  FlowsInv'
    <2> DEFINE q == [at |-> "vetTest", url |-> e, filters |-> row[e].filters, knows |-> t, id |-> t, pinned |-> {}]
    <2>1. e \in Endpoints /\ t \in Ids /\ row[e].filters \in Filters
      BY <1>2 DEF IsRow, FlowsInv, FlowsTypeOK, Row
    <2>2. q \in Request
      BY <2>1 DEF Request, Places
    <2>3. RequestIsSound(q, passed')
      BY <2>1 DEF RequestIsSound
    <2>4. request' = [request EXCEPT ![v] = q] /\ passed' = passed
      BY <1>2 DEF Test
    <2> HIDE DEF q
    <2> QED
      BY <2>2, <2>3, <2>4, RequestChanges, QuietStep DEF Test
  <1> QED
    BY <1>1, <1>2 DEF Test

LEMMA PostKeeps == ASSUME FlowsInv, NEW v \in Visitors, Post(v) PROVE FlowsInv'
  <1> DEFINE go == [request[v] EXCEPT !.at = "mark"]
  <1>1. request[v] \in Request /\ RequestIsSound(request[v], passed) /\ request[v].at = "post"
    BY RequestAt DEF Post, At
  <1>2. request[v].id \in Ids /\ request[v].pinned \subseteq {"public"}
    BY <1>1 DEF RequestIsSound
  <1>3. reached' \subseteq {"public"} /\ reached' \subseteq Destinations
    BY <1>2 DEF Post, ConnectsTo, FlowsInv, FlowsTypeOK, PublicAddressesOnly, Destinations
  <1>4. passed \subseteq passed' /\ passed' \subseteq Ids
    BY <1>2 DEF Post, FlowsInv, FlowsTypeOK
  <1>5. request' \in [Visitors -> Request \cup {Null}] /\ RequestsAreSound'
    <2>1. CASE End(v) /\ passed' = passed
      BY <2>1, EndIsSound
    <2>2. CASE Goto(v, "mark") /\ passed' = passed \cup {request[v].id}
      <3>1. go \in Request /\ go.at = "mark" /\ go.id = request[v].id /\ go.knows = request[v].knows
            /\ go.pinned = request[v].pinned
        BY <1>1, GoIsRequest DEF Places
      <3>2. request' = [request EXCEPT ![v] = go] /\ request[v].id \in passed'
        BY <2>2 DEF Goto, FlowsInv, FlowsTypeOK
      <3> HIDE DEF go
      <3>3. RequestIsSound(go, passed')
        BY <1>2, <3>1, <3>2 DEF RequestIsSound
      <3> QED
        BY <1>4, <3>1, <3>2, <3>3, RequestChanges
    <2> QED
      BY <2>1, <2>2 DEF Post
  <1>6. UNCHANGED <<row, made, delivery, shown, told>>
    BY DEF Post
  <1> HIDE DEF go
  <1> QED
    BY <1>3, <1>4, <1>5, <1>6
       DEF FlowsInv, FlowsTypeOK, DeliveryIsSound, VerifiedByItsOwnTest, PublicAddressesOnly, ToldWhoPassed

LEMMA MarkKeeps == ASSUME FlowsInv, NEW v \in Visitors, Mark(v) PROVE FlowsInv'
  <1>1. request[v].id \in Ids /\ request[v].id \in passed
    BY RequestAt DEF Mark, At, RequestIsSound
  <1>2. row' = [e \in Endpoints |-> IF row[e] # Null /\ row[e].id \in {request[v].id}
                                    THEN [row[e] EXCEPT !.verified = TRUE] ELSE row[e]]
    BY DEF Mark, VerifySubscription, IsRow
  <1>3. PICK f : f \in Filters
    BY RequestAt DEF Mark, At, Request
  <1>4. row' \in [Endpoints -> Row \cup {Null}] /\ VerifiedByItsOwnTest'
    BY <1>1, <1>2, <1>3, RowsAreWritten DEF Mark
  <1> QED
    BY <1>4, EndIsSound, RowStep DEF Mark

LEMMA DieKeeps == ASSUME FlowsInv, NEW v \in Visitors, Die(v) PROVE FlowsInv'
  BY EndIsSound, QuietStep DEF Die

----------------------------------------------------------------------------
(* The steps of the manage link and of the worker *)

LEMMA LinksKeep ==
    ASSUME FlowsInv, NEW i \in Ids
    PROVE  /\ UnsubscribeByToken(i) => FlowsInv'
           /\ \A f \in Filters : UpdateFiltersByToken(i, f) => FlowsInv'
  <1>1. ASSUME NEW f \in Filters, UpdateFiltersByToken(i, f) PROVE FlowsInv'
    <2>1. row' \in [Endpoints -> Row \cup {Null}] /\ VerifiedByItsOwnTest'
      BY <1>1, FiltersAreWritten DEF UpdateFiltersByToken
    <2> QED
      BY <1>1, <2>1, RequestsStay, RowStep DEF UpdateFiltersByToken
  <1>2. ASSUME UnsubscribeByToken(i) PROVE FlowsInv'
    <2>1. row' = [e \in Endpoints |-> IF row[e] # Null /\ row[e].id = i THEN Null ELSE row[e]]
      BY <1>2 DEF UnsubscribeByToken, IsRow
    <2>2. row' \in [Endpoints -> Row \cup {Null}] /\ VerifiedByItsOwnTest'
      BY <1>2, <2>1 DEF FlowsInv, FlowsTypeOK, VerifiedByItsOwnTest, UnsubscribeByToken
    <2> QED
      BY <1>2, <2>2, RequestsStay, RowStep DEF UnsubscribeByToken
  <1> QED
    BY <1>1, <1>2

LEMMA DeliveriesKeep == ASSUME FlowsInv, Enqueue \/ ReadTarget \/ VetTarget \/ PostTarget PROVE FlowsInv'
  <1>1. /\ passed' = passed /\ UNCHANGED <<row, made, request, shown>>
        /\ delivery \in Delivery \cup {Null}
    BY DEF Enqueue, ReadTarget, VetTarget, PostTarget, FlowsInv, FlowsTypeOK
  <1>2. delivery' \in Delivery \cup {Null} /\ DeliveryIsSound'
    <2>1. CASE Enqueue
      <3>1. PICK e \in Targets : delivery' = [at |-> "read", id |-> row[e].id, url |-> Null, pinned |-> {}]
        BY <2>1 DEF Enqueue
      <3>2. e \in Endpoints /\ row[e] \in Row /\ row[e].id \in passed /\ row[e].id \in Ids
        BY <3>1 DEF Targets, FlowsInv, FlowsTypeOK, VerifiedByItsOwnTest, Row
      <3>3. delivery' \in Delivery
        BY <3>1, <3>2 DEF Delivery
      <3> QED
        BY <1>1, <3>1, <3>2, <3>3 DEF DeliveryIsSound
    <2>2. CASE ReadTarget
      <3>1. delivery' = Null \/ \E e \in Endpoints : delivery' = [delivery EXCEPT !.at = "vet", !.url = e]
        BY <2>2 DEF ReadTarget
      <3>2. delivery \in Delivery /\ delivery.id \in passed /\ delivery.pinned \subseteq {"public"}
        BY <1>1, <2>2 DEF ReadTarget, FlowsInv, DeliveryIsSound
      <3>3. ASSUME NEW e \in Endpoints, delivery' = [delivery EXCEPT !.at = "vet", !.url = e]
            PROVE  delivery' \in Delivery /\ delivery'.id = delivery.id /\ delivery'.pinned = delivery.pinned
        BY <3>2, <3>3 DEF Delivery
      <3> QED
        BY <1>1, <3>1, <3>2, <3>3 DEF DeliveryIsSound
    <2>3. CASE VetTarget
      <3>1. delivery \in Delivery /\ delivery.id \in passed
        BY <1>1, <2>3 DEF VetTarget, FlowsInv, DeliveryIsSound
      <3>2. PICK answer \in SUBSET Destinations :
              delivery' = IF Deliverable(answer) THEN [delivery EXCEPT !.at = "post", !.pinned = answer] ELSE Null
        BY <2>3 DEF VetTarget
      <3>3. CASE Deliverable(answer)
        <4>1. delivery' = [delivery EXCEPT !.at = "post", !.pinned = answer] /\ answer \subseteq {"public"}
          BY <3>2, <3>3, VettedIsPublic
        <4>2. delivery' \in Delivery /\ delivery'.id = delivery.id /\ delivery'.pinned = answer
          BY <3>1, <4>1 DEF Delivery
        <4> QED
          BY <1>1, <3>1, <4>1, <4>2 DEF DeliveryIsSound
      <3>4. CASE ~ Deliverable(answer)
        BY <3>2, <3>4 DEF DeliveryIsSound
      <3> QED
        BY <3>3, <3>4
    <2>4. CASE PostTarget
      BY <2>4 DEF PostTarget, DeliveryIsSound
    <2> QED
      BY <2>1, <2>2, <2>3, <2>4
  <1>3. reached' \subseteq {"public"} /\ told' \subseteq passed
    BY DEF Enqueue, ReadTarget, VetTarget, PostTarget, ConnectsTo, FlowsInv, DeliveryIsSound, PublicAddressesOnly,
           ToldWhoPassed
  <1>4. request' \in [Visitors -> Request \cup {Null}] /\ RequestsAreSound'
    BY <1>1, RequestsStay
  <1> QED
    BY <1>1, <1>2, <1>3, <1>4
       DEF FlowsInv, FlowsTypeOK, VerifiedByItsOwnTest, PublicAddressesOnly, ToldWhoPassed, Destinations

LEMMA NextKeepsFlows == FlowsInv /\ [Next]_vars => FlowsInv'
  <1> SUFFICES ASSUME FlowsInv, [Next]_vars PROVE FlowsInv'
    OBVIOUS
  <1>1. ASSUME UNCHANGED webhooks PROVE FlowsInv'
    BY <1>1, RequestsStay, QuietStep DEF webhooks
  <1>2. ASSUME NEW v \in Visitors, Vet(v, "vet", "select") \/ Vet(v, "vetTest", "post") PROVE FlowsInv'
    BY <1>2, VetKeeps
  <1> QED
    BY <1>1, <1>2, RegisterKeeps, SelectKeeps, InsertKeeps, AnswerKeeps, ReselectKeeps, ApplyKeeps, TestKeeps, PostKeeps,
       MarkKeeps, DieKeeps, LinksKeep, DeliveriesKeep
       DEF Next, vars

LEMMA InitFlowsSound == Init => FlowsInv
  <1> SUFFICES ASSUME Init PROVE FlowsInv
    OBVIOUS
  <1>1. FlowsTypeOK
    BY WebhookAssumption DEF Init, FlowsTypeOK
  <1>2. RequestsAreSound /\ DeliveryIsSound /\ VerifiedByItsOwnTest /\ PublicAddressesOnly /\ ToldWhoPassed
    BY DEF Init, RequestsAreSound, DeliveryIsSound, VerifiedByItsOwnTest, PublicAddressesOnly, ToldWhoPassed
  <1> QED
    BY <1>1, <1>2 DEF FlowsInv

----------------------------------------------------------------------------
(* The inductive invariant of the secrets *)

\* A request about to show a secret is the only one, and nobody was shown it.
AnswersAreOwn ==
    \A v \in Visitors :
        At(v, "answer") =>
            /\ request[v].id \in Ids /\ request[v].id <= made
            /\ shown[request[v].id] = 0
            /\ \A u \in Visitors \ {v} : At(u, "answer") => request[u].id # request[v].id

SecretsInv == SecretsAreShownAtMostOnce /\ AnswersAreOwn

\* A step that shows nothing and brings no request to the answer.
LEMMA NothingIsShown ==
    ASSUME SecretsInv, UNCHANGED <<made, shown>>,
           \A v \in Visitors : At(v, "answer")' => request'[v] = request[v]
    PROVE  SecretsInv'
  BY DEF SecretsInv, SecretsAreShownAtMostOnce, AnswersAreOwn, At

LEMMA InsertShowsNothing ==
    ASSUME FlowsInv, SecretsInv, NEW v \in Visitors, Insert(v) PROVE SecretsInv'
  <1>1. request[v] \in Request /\ request \in [Visitors -> Request \cup {Null}]
    BY RequestAt DEF Insert, At, FlowsInv, FlowsTypeOK
  <1>2. made \in Nat /\ MaxRows \in Nat
    BY WebhookAssumption DEF FlowsInv, FlowsTypeOK
  <1>3. CASE row[request[v].url] = Null
    <2>1. /\ made < MaxRows /\ made' = made + 1 /\ shown' = shown
          /\ request'[v].at = "answer" /\ request'[v].id = made + 1
          /\ \A u \in Visitors \ {v} : request'[u] = request[u]
      BY <1>1, <1>3 DEF Insert, Request
    <2>2. made + 1 \in Ids /\ shown[made + 1] = 0
      <3>1. made + 1 \in Ids /\ ~ (made + 1 <= made)
        BY <1>2, <2>1 DEF Ids
      <3>2. shown \in [Ids -> Nat] /\ shown[made + 1] <= 0
        BY <3>1 DEF FlowsInv, FlowsTypeOK, SecretsInv, SecretsAreShownAtMostOnce
      <3> QED
        BY <3>1, <3>2
    <2>3. SecretsAreShownAtMostOnce'
      <3> SUFFICES ASSUME NEW i \in Ids PROVE shown[i] <= IF i <= made + 1 THEN 1 ELSE 0
        BY <2>1 DEF SecretsAreShownAtMostOnce
      <3>1. shown[i] \in Nat /\ i \in Nat /\ shown[i] <= IF i <= made THEN 1 ELSE 0
        BY DEF FlowsInv, FlowsTypeOK, SecretsInv, SecretsAreShownAtMostOnce, Ids
      <3> QED
        BY <1>2, <3>1
    <2>4. AnswersAreOwn'
      <3>1. ASSUME NEW u \in Visitors \ {v}, At(u, "answer")
            PROVE  request[u].id \in Ids /\ request[u].id <= made /\ request[u].id # made + 1
        BY <1>2, <3>1 DEF SecretsInv, AnswersAreOwn, Ids
      <3> QED
        BY <1>2, <2>1, <2>2, <3>1 DEF SecretsInv, AnswersAreOwn, At, Ids
    <2> QED
      BY <2>3, <2>4 DEF SecretsInv
  <1>4. CASE row[request[v].url] # Null
    <2>1. /\ UNCHANGED <<made, shown>> /\ request'[v].at = "lost"
          /\ \A u \in Visitors \ {v} : request'[u] = request[u]
      BY <1>1, <1>4 DEF Insert, Goto, Request
    <2> QED
      BY <2>1, NothingIsShown DEF At
  <1> QED
    BY <1>3, <1>4

LEMMA AnswerShowsItsOwn ==
    ASSUME FlowsInv, SecretsInv, NEW v \in Visitors, Answer(v) PROVE SecretsInv'
  <1> DEFINE i == request[v].id
  <1>1. i \in Ids /\ i <= made /\ shown[i] = 0 /\ At(v, "answer")
    BY DEF Answer, SecretsInv, AnswersAreOwn
  <1>2. shown'[i] = 1 /\ made' = made /\ \A j \in Ids \ {i} : shown'[j] = shown[j]
    BY <1>1 DEF Answer, FlowsInv, FlowsTypeOK
  <1>3. request'[v] = Null /\ \A u \in Visitors \ {v} : request'[u] = request[u]
    BY DEF Answer, End, FlowsInv, FlowsTypeOK
  <1>4. \A u \in Visitors \ {v} : At(u, "answer") => request[u].id # i
    BY <1>1 DEF SecretsInv, AnswersAreOwn
  <1> HIDE DEF i
  <1>5. SecretsAreShownAtMostOnce'
    BY <1>1, <1>2 DEF SecretsInv, SecretsAreShownAtMostOnce
  <1>6. AnswersAreOwn'
    BY <1>2, <1>3, <1>4 DEF SecretsInv, AnswersAreOwn, At
  <1> QED
    BY <1>5, <1>6 DEF SecretsInv

LEMMA NextKeepsSecrets == FlowsInv /\ SecretsInv /\ [Next]_vars => SecretsInv'
  <1> SUFFICES ASSUME FlowsInv, SecretsInv, [Next]_vars PROVE SecretsInv'
    OBVIOUS
  <1>1. \A v \in Visitors : request[v] # Null => request[v] \in Request
    BY DEF FlowsInv, FlowsTypeOK
  <1>2. ASSUME NEW v \in Visitors, NEW w \in Visitors, End(v) PROVE At(w, "answer")' => request'[w] = request[w]
    BY <1>2 DEF End, At, FlowsInv, FlowsTypeOK
  <1>3. ASSUME NEW v \in Visitors, NEW w \in Visitors, NEW place \in Places \ {"answer"}, Goto(v, place)
        PROVE  At(w, "answer")' => request'[w] = request[w]
    BY <1>1, <1>3 DEF Goto, At, FlowsInv, FlowsTypeOK, Request
  <1>4. ASSUME NEW v \in Visitors, NEW place, NEW next \in {"select", "post"}, Vet(v, place, next) PROVE SecretsInv'
    <2>1. ASSUME NEW w \in Visitors PROVE At(w, "answer")' => request'[w] = request[w]
      BY <1>1, <1>2, <1>4 DEF Vet, At, FlowsInv, FlowsTypeOK, Request
    <2> QED
      BY <1>4, <2>1, NothingIsShown DEF Vet
  <1>5. ASSUME NEW v \in Visitors,
               \/ Register(v) \/ Select(v) \/ Reselect(v) \/ Apply(v)
               \/ Test(v) \/ Post(v) \/ Mark(v) \/ Die(v)
        PROVE  SecretsInv'
    <2>1. UNCHANGED <<made, shown>>
      BY <1>5 DEF Register, Select, Reselect, Apply, Test, Post, Mark, Die
    <2>2. ASSUME NEW w \in Visitors, NEW place \in {"apply", "applyLost"}, NEW id,
                 request[v] # Null, request' = [request EXCEPT ![v].at = place, ![v].id = id]
          PROVE  At(w, "answer")' => request'[w] = request[w]
      BY <1>1, <2>2 DEF At, FlowsInv, FlowsTypeOK, Request
    <2>3. ASSUME NEW w \in Visitors PROVE At(w, "answer")' => request'[w] = request[w]
      <3>1. CASE Register(v) \/ Test(v)
        BY <1>2, <3>1 DEF Register, Test, At, FlowsInv, FlowsTypeOK
      <3>2. CASE Select(v) \/ Reselect(v)
        BY <1>2, <1>3, <2>2, <3>2 DEF Select, Reselect, At, Places
      <3>3. CASE Apply(v) \/ Post(v)
        BY <1>2, <1>3, <3>3 DEF Apply, Post, Places
      <3>4. CASE Mark(v) \/ Die(v)
        BY <1>2, <3>4 DEF Mark, Die
      <3> QED
        BY <1>5, <3>1, <3>2, <3>3, <3>4
    <2> QED
      BY <2>1, <2>3, NothingIsShown
  <1>6. ASSUME UNCHANGED <<made, request, shown>> PROVE SecretsInv'
    BY <1>6, NothingIsShown
  <1>7. ASSUME NEW i \in Ids, UnsubscribeByToken(i) \/ \E f \in Filters : UpdateFiltersByToken(i, f) PROVE SecretsInv'
    BY <1>6, <1>7 DEF UnsubscribeByToken, UpdateFiltersByToken
  <1>8. ASSUME Enqueue \/ ReadTarget \/ VetTarget \/ PostTarget PROVE SecretsInv'
    BY <1>6, <1>8 DEF Enqueue, ReadTarget, VetTarget, PostTarget
  <1> QED
    BY <1>4, <1>5, <1>6, <1>7, <1>8, InsertShowsNothing, AnswerShowsItsOwn DEF Next, vars, webhooks

LEMMA InitSecretsSound == Init => SecretsInv
  BY DEF Init, SecretsInv, SecretsAreShownAtMostOnce, AnswersAreOwn, At, Ids

----------------------------------------------------------------------------
(* Theorems *)

\* The limiter's invariant: what was granted is counted as long as anybody asks.
THEOREM LimitsInvariant == Spec => []LimitsInv
  BY InitLimitsSound, NextKeepsLimits, PTL DEF Spec

\* The invariant of the flows: what is remembered is what was vetted, tested or
\* proven.
THEOREM FlowsInvariant == Spec => []FlowsInv
  BY InitFlowsSound, NextKeepsFlows, PTL DEF Spec

\* Every variable keeps its type.
THEOREM RegistrationTypes == Spec => []TypeOK
  <1>1. LimitsInv /\ FlowsInv => TypeOK
    BY DEF LimitsInv, FlowsInv, FlowsTypeOK, TypeOK
  <1> QED
    BY <1>1, LimitsInvariant, FlowsInvariant, PTL

\* No key is granted more units in a window than its limit.
THEOREM LimitsHold == Spec => []WithinLimits
  <1>1. LimitsInv => WithinLimits
    BY DEF LimitsInv
  <1> QED
    BY <1>1, LimitsInvariant, PTL

\* A subscription is active only after a test with its own secret.
THEOREM ActiveMeansTested == Spec => []VerifiedByItsOwnTest
  <1>1. FlowsInv => VerifiedByItsOwnTest
    BY DEF FlowsInv
  <1> QED
    BY <1>1, FlowsInvariant, PTL

\* Neither the test of a subscription nor a delivery connects to an address that
\* resolveDeliverableUrl did not find public, whatever the name servers answer.
THEOREM OnlyPublicAddresses == Spec => []PublicAddressesOnly
  <1>1. FlowsInv => PublicAddressesOnly
    BY DEF FlowsInv
  <1> QED
    BY <1>1, FlowsInvariant, PTL

\* Announcements are signed only for subscriptions that passed their test.
THEOREM ToldMeansTested == Spec => []ToldWhoPassed
  <1>1. FlowsInv => ToldWhoPassed
    BY DEF FlowsInv
  <1> QED
    BY <1>1, FlowsInvariant, PTL

\* A secret is shown at most once, by the request that made the row, and not
\* before the row is there.
THEOREM SecretsStaySecret == Spec => []SecretsAreShownAtMostOnce
  <1>1. SecretsInv => SecretsAreShownAtMostOnce
    BY DEF SecretsInv
  <1>2. Spec => []SecretsInv
    BY FlowsInvariant, InitSecretsSound, NextKeepsSecrets, PTL DEF Spec
  <1> QED
    BY <1>1, <1>2, PTL

\* Outside the manage page filters are written by who has the secret, or by the
\* loser of the race to make the row.
THEOREM FiltersAreTheHolders == Spec => OnlyHoldersReachIn
  <1> DEFINE Claim ==
        \A e \in Endpoints, v \in Visitors :
          /\ row[e] # Null /\ row'[e] # Null /\ row'[e].id = row[e].id
          /\ row'[e].filters # row[e].filters /\ Moved(v)
          => \/ request[v].knows = row[e].id
             \/ request[v].at = "applyLost" /\ request[v].knows = Null
  <1>1. FlowsInv /\ [Next]_vars => Claim
    <2> SUFFICES ASSUME FlowsInv, [Next]_vars, NEW e \in Endpoints, NEW v \in Visitors,
                        row[e] # Null, row'[e] # Null, row'[e].id = row[e].id,
                        row'[e].filters # row[e].filters, request'[v] # request[v]
                 PROVE  \/ request[v].knows = row[e].id
                        \/ request[v].at = "applyLost" /\ request[v].knows = Null
      BY DEF Moved
    <2>1. row' # row /\ request' # request /\ row \in [Endpoints -> Row \cup {Null}]
      BY DEF FlowsInv, FlowsTypeOK
    <2>2. row[e] \in Row
      BY <2>1
    <2>3. ASSUME NEW u \in Visitors, Insert(u) PROVE FALSE
      <3>1. request[u] \in Request
        BY <2>3, RequestAt DEF Insert, At
      <3>2. CASE row[request[u].url] = Null
        BY <2>1, <2>3, <3>1, <3>2 DEF Insert, Request
      <3>3. CASE row[request[u].url] # Null
        BY <2>1, <2>3, <3>3 DEF Insert
      <3> QED
        BY <3>2, <3>3
    <2>4. ASSUME NEW u \in Visitors, Mark(u) PROVE FALSE
      <3>1. row'[e] = row[e] \/ row'[e] = [row[e] EXCEPT !.verified = TRUE]
        BY <2>4 DEF Mark, VerifySubscription
      <3> QED
        BY <2>2, <3>1 DEF Row
    <2>5. PICK u \in Visitors : Apply(u)
      <3>1. ASSUME NEW u \in Visitors, NEW place, NEW next, Vet(u, place, next) PROVE FALSE
        BY <2>1, <3>1 DEF Vet
      <3>2. ASSUME NEW u \in Visitors,
                   Register(u) \/ Select(u) \/ Answer(u) \/ Reselect(u) \/ Test(u) \/ Post(u) \/ Die(u)
            PROVE  FALSE
        BY <2>1, <3>2 DEF Register, Select, Answer, Reselect, Test, Post, Die
      <3>3. ASSUME NEW i \in Ids, UnsubscribeByToken(i) \/ \E f \in Filters : UpdateFiltersByToken(i, f) PROVE FALSE
        BY <2>1, <3>3 DEF UnsubscribeByToken, UpdateFiltersByToken
      <3>4. ASSUME Enqueue \/ ReadTarget \/ VetTarget \/ PostTarget PROVE FALSE
        BY <2>1, <3>4 DEF Enqueue, ReadTarget, VetTarget, PostTarget
      <3> QED
        BY <2>1, <2>3, <2>4, <3>1, <3>2, <3>3, <3>4 DEF Next, vars, webhooks
    <2>6. u = v /\ request[v].at \in {"apply", "applyLost"} /\ request[v] # Null
      BY <2>5 DEF Apply, Goto, End, FlowsInv, FlowsTypeOK
    <2>7. row[e].id = request[v].id
      BY <2>5, <2>6 DEF Apply, SetFilters, IsRow
    <2> QED
      BY <2>6, <2>7, RequestAt DEF RequestIsSound
  <1> QED
    BY <1>1, FlowsInvariant, PTL DEF Spec, OnlyHoldersReachIn

=============================================================================
