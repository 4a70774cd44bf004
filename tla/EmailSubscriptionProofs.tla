---------------------- MODULE EmailSubscriptionProofs ----------------------
(***************************************************************************)
(* Theorems about EmailSubscription, for any requests, filters and bounds. *)
(***************************************************************************)
EXTENDS EmailSubscription, TLAPS

\* What a token of the row, of a link and of a request says about them.
TokensAreIssued ==
    /\ row # Null => /\ row.id <= issued
                     /\ row.verifyToken # Null => row.verifyToken <= issued
                     /\ row.pendingToken # Null => row.pendingToken <= issued
    /\ \A l \in mailed : l.token <= issued
    /\ \A r \in Requests : request[r] # Null /\ request[r].token # Null => request[r].token <= issued

\* A confirmation link that opens the row was made for it.
LinksNameTheirRow ==
    row # Null /\ row.verifyToken # Null =>
        /\ \A l \in mailed : l.kind = "confirm" /\ l.token = row.verifyToken => l.id = row.id
        /\ \A r \in Requests : At(r, "mailConfirm") /\ request[r].token = row.verifyToken
                                  => request[r].id = row.id

Submitted(id) == \E l \in mailed : l.kind = "confirm" /\ l.id = id /\ l.token \in confirmed

\* Whoever is about to verify a row has a submitted link of it.
VerifiersHaveALink ==
    \A r \in Requests : At(r, "verify") => Submitted(request[r].id)

Consent == TokensAreIssued /\ LinksNameTheirRow /\ VerifiersHaveALink /\ ConfirmedByItsReader /\ LinksAreOnTheirWay

EmailInv == TypeOK /\ Consent

----------------------------------------------------------------------------
(* Rows and requests *)

\* Statements write well-typed rows.
LEMMA RowsAreTyped ==
    ASSUME TypeOK
    PROVE  /\ \A f \in Filters \cup {Null} : \A t \in Tokens : NewRow(t, f) \in Row
           /\ \A f \in Filters \cup {Null} :
                 row # Null => [row EXCEPT !.filters = Merged(row.filters, f)] \in Row
           /\ \A f \in Filters \cup {Null}, t \in Tokens \cup {Null} :
                 row # Null => [row EXCEPT !.pendingToken = t, !.pendingFilters = f] \in Row
           /\ \A t \in Tokens : row # Null => [row EXCEPT !.verifyToken = t] \in Row
           /\ row # Null => [row EXCEPT !.verified = TRUE, !.verifyToken = Null] \in Row
  <1>1. row # Null => row \in Row
    BY DEF TypeOK
  <1>2. \A f \in Filters \cup {Null} : \A t \in Tokens : NewRow(t, f) \in Row
    BY EmailAssumption DEF Row, Merged, NewRow
  <1>3. ASSUME row # Null, NEW f \in Filters \cup {Null}
        PROVE  [row EXCEPT !.filters = Merged(row.filters, f)] \in Row
    BY <1>1, <1>3, EmailAssumption DEF Row, Merged
  <1>4. ASSUME row # Null, NEW f \in Filters \cup {Null}, NEW t \in Tokens \cup {Null}
        PROVE  [row EXCEPT !.pendingToken = t, !.pendingFilters = f] \in Row
    BY <1>1, <1>4 DEF Row
  <1>5. ASSUME row # Null, NEW t \in Tokens
        PROVE  [row EXCEPT !.verifyToken = t] \in Row
    BY <1>1, <1>5 DEF Row
  <1>6. row # Null => [row EXCEPT !.verified = TRUE, !.verifyToken = Null] \in Row
    BY <1>1 DEF Row
  <1> QED
    BY <1>2, <1>3, <1>4, <1>5, <1>6

\* Requests remember well-typed things.
LEMMA RequestsAreTyped ==
    ASSUME TypeOK, NEW r \in Requests
    PROVE  /\ Null \notin Tokens
           /\ Blank \in Request /\ Blank.at = "look"
           /\ \A w \in Request : Looked(w) \in Request
           /\ request[r] # Null => request[r] \in Request
  BY EmailAssumption DEF TypeOK, Request, Places, Searching, Mailing, Blank, Looked, Tokens

\* A step of one request that remembers and writes well-typed things.
LEMMA TypedStep ==
    ASSUME TypeOK, NEW r \in Requests, NEW w \in Request \cup {Null}, Continue(r, w),
           row' \in Row \cup {Null}, issued' \in {issued, Fresh}, issued' <= MaxTokens,
           stale' = stale, mailed' \subseteq Link, confirmed' \subseteq Tokens, lost' \subseteq Tokens
    PROVE  TypeOK'
  <1>1. request' \in [Requests -> Request \cup {Null}]
    BY DEF TypeOK, Continue
  <1>2. issued' \in 0..MaxTokens /\ stale' \in 0..issued'
    BY EmailAssumption DEF TypeOK, Fresh
  <1> QED
    BY <1>1, <1>2 DEF TypeOK

\* What the steps of the form and of the links write is well typed.
LEMMA FormsAreTyped ==
    ASSUME TypeOK, NEW r \in Requests, Start(r)
    PROVE  TypeOK'
  <1> DEFINE q == request[r]
  <1>1. /\ Null \notin Tokens /\ Blank \in Request /\ Blank.at = "look"
        /\ \A w \in Request : Looked(w) \in Request
        /\ q # Null => q \in Request
    BY RequestsAreTyped
  <1>2. /\ row \in Row \cup {Null} /\ mailed \subseteq Link /\ confirmed \subseteq Tokens /\ lost \subseteq Tokens
        /\ issued \in 0..MaxTokens
    BY DEF TypeOK
  <1>3. ASSUME NEW f \in Filters \cup {Null}, Subscribe(r, f)
        PROVE  TypeOK'
    <2>1. [Blank EXCEPT !.filters = f] \in Request
      BY <1>1 DEF Request, Places, Searching, Mailing
    <2>2. Looked([Blank EXCEPT !.filters = f]) \in Request
      BY <1>1, <2>1
    <2> QED
      BY <1>2, <1>3, <2>2, TypedStep, EmailAssumption DEF Subscribe
  <1>4. CASE Look(r)
    <2>1. Looked(q) \in Request
      BY <1>1, <1>4 DEF Look, At
    <2> QED
      BY <1>2, <1>4, <2>1, TypedStep, EmailAssumption DEF Look
  <1>5. ASSUME q # Null, CreateRow(r), UNCHANGED <<stale, mailed, confirmed, lost>>
        PROVE  TypeOK'
    <2>1. Fresh \in Tokens /\ Fresh <= MaxTokens
      BY <1>2, <1>5, EmailAssumption DEF CreateRow, Tokens, Fresh
    <2>2. q.filters \in Filters \cup {Null}
      BY <1>1, <1>5 DEF Request, Places, Searching, Mailing
    <2>3. NewRow(Fresh, q.filters) \in Row
      BY <2>1, <2>2, RowsAreTyped
    <2>4. [q EXCEPT !.at = "mailConfirm", !.id = Fresh, !.token = Fresh] \in Request
      BY <1>1, <1>5, <2>1 DEF Request, Places, Searching, Mailing
    <2> QED
      BY <1>2, <1>5, <2>1, <2>3, <2>4, TypedStep DEF CreateRow
  <1>6. ASSUME q # Null, NEW place \in {"reselect", "create", "renew"}, Goto(r, place),
               place = "renew" => q.id # Null,
               row' \in Row \cup {Null}, UNCHANGED <<issued, stale, mailed, confirmed, lost>>
        PROVE  TypeOK'
    <2>1. [q EXCEPT !.at = place] \in Request
      BY <1>1, <1>6 DEF Request, Places, Searching, Mailing
    <2> QED
      BY <1>2, <1>6, <2>1, TypedStep, EmailAssumption DEF Goto
  <1>7. ASSUME Finish(r), row' \in Row \cup {Null}, UNCHANGED <<issued, stale, confirmed, lost>>,
               mailed' \subseteq Link
        PROVE  TypeOK'
    BY <1>2, <1>7, TypedStep, EmailAssumption DEF Finish
  <1>8. CASE Insert(r)
    <2>1. q # Null
      BY <1>8 DEF Insert, At
    <2> QED
      BY <1>2, <1>5, <1>6, <1>8, <2>1 DEF Insert
  <1>9. CASE Create(r)
    <2>1. q # Null
      BY <1>9 DEF Create, At
    <2> QED
      BY <1>2, <1>5, <1>7, <1>9, <2>1 DEF Create
  <1>10. CASE Reselect(r)
    <2>1. q # Null /\ UNCHANGED <<row, issued, stale, mailed, confirmed, lost>>
      BY <1>10 DEF Reselect, At
    <2>2. CASE Continue(r, [q EXCEPT !.at = "look", !.attempt = 1])
      <3>1. [q EXCEPT !.at = "look", !.attempt = 1] \in Request
        <4>1. 1 \in 0..1
          OBVIOUS
        <4> QED
          BY <4>1, <1>1, <2>1 DEF Request, Places, Searching, Mailing
      <3> QED
        BY <1>2, <2>1, <2>2, <3>1, TypedStep, EmailAssumption
    <2>3. CASE Goto(r, "create")
      BY <1>2, <1>6, <2>1, <2>3
    <2>4. ASSUME NEW place \in {"pend", "apply"}, row # Null, Continue(r, [q EXCEPT !.at = place, !.id = row.id])
          PROVE  TypeOK'
      <3>1. row.id \in Tokens
        BY <1>2, <2>4 DEF Row
      <3>2. [q EXCEPT !.at = place, !.id = row.id] \in Request
        BY <1>1, <2>1, <3>1 DEF Request, Places, Searching, Mailing
      <3> QED
        BY <1>2, <2>1, <2>4, <3>2, TypedStep, EmailAssumption
    <2> QED
      BY <1>10, <2>2, <2>3, <2>4 DEF Reselect
  <1>11. ASSUME q # Null, q.id # Null, issued < MaxTokens, NEW place \in {"mailChange", "mailConfirm"},
                row' \in Row \cup {Null}, issued' = Fresh,
                Continue(r, [q EXCEPT !.at = place, !.token = Fresh]),
                UNCHANGED <<stale, mailed, confirmed, lost>>
         PROVE  TypeOK'
    <2>1. Fresh \in Tokens /\ Fresh <= MaxTokens
      BY <1>2, <1>11, EmailAssumption DEF Tokens, Fresh
    <2>2. [q EXCEPT !.at = place, !.token = Fresh] \in Request
      BY <1>1, <1>11, <2>1 DEF Request, Places, Searching, Mailing
    <2> QED
      BY <1>2, <1>11, <2>1, <2>2, TypedStep
  <1>12. CASE Pend(r)
    <2>1. q # Null /\ q.id # Null /\ q.filters \in Filters \cup {Null} /\ Fresh \in Tokens
      BY <1>1, <1>2, <1>12, EmailAssumption DEF Pend, At, Request, Places, Searching, Mailing, Tokens, Fresh
    <2>2. row' \in Row \cup {Null}
      BY <1>2, <1>12, <2>1, RowsAreTyped DEF Pend, IsRow
    <2> QED
      BY <1>11, <1>12, <2>1, <2>2 DEF Pend
  <1>13. CASE Apply(r)
    <2>1. q # Null /\ q.id # Null /\ q.filters \in Filters \cup {Null}
      BY <1>1, <1>13 DEF Apply, At, Request, Places, Searching, Mailing
    <2>2. row' \in Row \cup {Null}
      BY <1>2, <1>13, <2>1, RowsAreTyped DEF Apply, IsRow
    <2> QED
      BY <1>6, <1>13, <2>1, <2>2 DEF Apply
  <1>14. CASE Renew(r)
    <2>1. q # Null /\ q.id # Null /\ Fresh \in Tokens
      BY <1>1, <1>2, <1>14, EmailAssumption DEF Renew, At, Request, Searching, Mailing, Tokens, Fresh
    <2>2. row' \in Row \cup {Null}
      BY <1>2, <1>14, <2>1, RowsAreTyped DEF Renew, IsRow
    <2> QED
      BY <1>11, <1>14, <2>1, <2>2 DEF Renew
  <1>15. ASSUME NEW place \in Mailing, NEW kind \in {"confirm", "change"}, Mail(r, place, kind)
         PROVE  TypeOK'
    <2>1. q # Null /\ q.token \in Tokens /\ q.id \in Tokens
      BY <1>1, <1>15 DEF Mail, At, Request, Searching, Mailing
    <2>2. [kind |-> kind, token |-> q.token, id |-> q.id] \in Link
      BY <2>1 DEF Link
    <2> QED
      BY <1>2, <1>7, <1>15, <2>2 DEF Mail
  <1>16. SendConfirmation(r) \/ SendConfirmChange(r) => TypeOK'
    BY <1>15 DEF SendConfirmation, SendConfirmChange, Mailing
  <1> QED
    BY <1>3, <1>4, <1>8, <1>9, <1>10, <1>12, <1>13, <1>14, <1>16 DEF Start

LEMMA LinksAreTyped ==
    ASSUME TypeOK, NEW r \in Requests, Click(r) \/ Abort(r)
    PROVE  TypeOK'
  <1> DEFINE q == request[r]
  <1>1. /\ Null \notin Tokens /\ Blank \in Request /\ Blank.at = "look"
        /\ q # Null => q \in Request
    BY RequestsAreTyped
  <1>2. /\ row \in Row \cup {Null} /\ mailed \subseteq Link /\ confirmed \subseteq Tokens /\ lost \subseteq Tokens
        /\ issued \in 0..MaxTokens
    BY DEF TypeOK
  <1>3. row # Null => row.id \in Tokens /\ row.pendingFilters \in Filters \cup {Null}
    BY <1>2 DEF Row
  <1>6. CASE ConfirmSubscription(r)
    <2>1. PICK l \in mailed :
              /\ Opens(l) /\ confirmed' = confirmed \cup {l.token}
              /\ Continue(r, [Blank EXCEPT !.at = "verify", !.id = row.id, !.token = l.token])
      BY <1>6 DEF ConfirmSubscription
    <2>2. l.token \in Tokens /\ row # Null
      BY <1>2, <2>1 DEF Link, Opens
    <2>3. [Blank EXCEPT !.at = "verify", !.id = row.id, !.token = l.token] \in Request
      BY <1>1, <1>3, <2>2 DEF Request, Places, Searching, Mailing
    <2> QED
      BY <1>2, <1>6, <2>1, <2>2, <2>3, TypedStep, EmailAssumption DEF ConfirmSubscription
  <1>7. CASE VerifySubscription(r)
    <2>1. row' \in Row \cup {Null}
      BY <1>2, <1>7, RowsAreTyped DEF VerifySubscription, IsRow
    <2>2. ASSUME NEW p \in Requests, request[p] # Null, NEW b \in BOOLEAN
          PROVE  [request[p] EXCEPT !.overtaken = b] \in Request
      <3>1. request[p] \in Request
        BY <2>2, RequestsAreTyped
      <3> QED
        BY <3>1 DEF Request
    <2>3. ASSUME NEW p \in Requests, request[p] # Null
          PROVE  request[p].overtaken \in BOOLEAN
      BY <2>3, RequestsAreTyped DEF Request
    <2>4. IsRow(q.id) \in BOOLEAN
      BY DEF IsRow
    <2>5. request' \in [Requests -> Request \cup {Null}]
      BY <1>7, <2>2, <2>3, <2>4 DEF VerifySubscription
    <2> QED
      BY <1>7, <2>1, <2>5 DEF VerifySubscription, TypeOK
  <1>8. CASE ConfirmFilterChange(r)
    <2>1. PICK l \in mailed :
              /\ OpensChange(l)
              /\ Continue(r, [Blank EXCEPT !.at = "applyChange", !.id = row.id, !.token = l.token,
                                           !.filters = row.pendingFilters, !.began = issued])
      BY <1>8 DEF ConfirmFilterChange
    <2>2. l.token \in Tokens /\ row # Null
      BY <1>2, <2>1 DEF Link, OpensChange
    <2>3. [Blank EXCEPT !.at = "applyChange", !.id = row.id, !.token = l.token,
                        !.filters = row.pendingFilters, !.began = issued] \in Request
      BY <1>1, <1>2, <1>3, <2>2 DEF Request, Places, Searching, Mailing
    <2> QED
      BY <1>2, <1>8, <2>1, <2>3, TypedStep, EmailAssumption DEF ConfirmFilterChange
  <1>9. ASSUME NEW place, UpdateFilters(r, place)
        PROVE  (row' \in Row \cup {Null} /\ q # Null /\ q.id # Null) \/ place \in Searching
    <2>1. q # Null /\ q.at = place /\ q.filters \in Filters \cup {Null}
      BY <1>1, <1>9 DEF UpdateFilters, At, Request
    <2>2. row' \in Row \cup {Null}
      BY <1>2, <1>9, <2>1, RowsAreTyped DEF UpdateFilters, IsRow
    <2>3. q.id # Null \/ place \in Searching
      BY <1>1, <2>1 DEF Request
    <2> QED
      BY <2>1, <2>2, <2>3
  <1>10. CASE ApplyChange(r)
    <2>1. row' \in Row \cup {Null} /\ q # Null /\ q.id # Null
      BY <1>9, <1>10 DEF ApplyChange, Searching
    <2>2. [q EXCEPT !.at = "clear"] \in Request
      BY <1>1, <2>1 DEF Request, Places, Searching, Mailing
    <2> QED
      BY <1>2, <1>10, <2>1, <2>2, TypedStep, EmailAssumption DEF ApplyChange, UpdateFilters, Goto
  <1>11. CASE ClearPending(r)
    <2>1. row' \in Row \cup {Null}
      BY <1>2, <1>11, RowsAreTyped DEF ClearPending, IsRow
    <2> QED
      BY <1>2, <1>11, <2>1, TypedStep, EmailAssumption DEF ClearPending, Finish
  <1>12. CASE SaveFilters(r)
    <2>1. row' \in Row \cup {Null}
      BY <1>9, <1>12 DEF SaveFilters, Searching
    <2> QED
      BY <1>2, <1>12, <2>1, TypedStep, EmailAssumption DEF SaveFilters, UpdateFilters, Finish
  <1>13. ASSUME NEW f \in Filters, UpdateFiltersByToken(r, f)
         PROVE  TypeOK'
    <2>1. [Blank EXCEPT !.at = "save", !.id = row.id, !.filters = f] \in Request
      BY <1>1, <1>3, <1>13 DEF Request, Places, Searching, Mailing, UpdateFiltersByToken, HasManageLink
    <2>2. /\ UNCHANGED <<row, issued, stale, mailed, confirmed, lost>>
          /\ Continue(r, [Blank EXCEPT !.at = "save", !.id = row.id, !.filters = f])
      BY <1>13 DEF UpdateFiltersByToken
    <2> QED
      BY <1>2, <2>1, <2>2, TypedStep, EmailAssumption
  <1>14. CASE UnsubscribeByToken(r)
    <2>1. [Blank EXCEPT !.at = "delete", !.id = row.id] \in Request
      BY <1>1, <1>3, <1>14 DEF Request, Places, Searching, Mailing, UnsubscribeByToken, HasManageLink
    <2> QED
      BY <1>2, <1>14, <2>1, TypedStep, EmailAssumption DEF UnsubscribeByToken
  <1>15. CASE DeleteRow(r)
    <2>1. row' \in Row \cup {Null}
      BY <1>2, <1>15 DEF DeleteRow
    <2> QED
      BY <1>2, <1>15, <2>1, TypedStep, EmailAssumption DEF DeleteRow, Finish
  <1>16. CASE Abort(r)
    <2>1. lost' \subseteq Tokens
      BY <1>1, <1>2, <1>16 DEF Abort, Request
    <2> QED
      BY <1>2, <1>16, <2>1, TypedStep, EmailAssumption DEF Abort, Finish
  <1> QED
    BY <1>6, <1>7, <1>8, <1>10, <1>11, <1>12, <1>13, <1>14, <1>15, <1>16 DEF Click

\* Every reachable state is well typed.
THEOREM EmailTypes == Spec => []TypeOK
  <1>1. Init => TypeOK
    BY EmailAssumption DEF Init, TypeOK
  <1>2. TypeOK /\ [Next]_vars => TypeOK'
    <2> SUFFICES ASSUME TypeOK, [Next]_vars
                 PROVE  TypeOK'
      OBVIOUS
    <2>1. CASE UNCHANGED vars
      BY <2>1 DEF vars, TypeOK
    <2>2. CASE Announce
      <3>1. [kind |-> "manage", token |-> row.id, id |-> row.id] \in Link
        BY <2>2 DEF Announce, TypeOK, Row, Link
      <3> QED
        BY <2>2, <3>1 DEF Announce, TypeOK
    <2>3. ASSUME NEW t \in Tokens, Expire(t)
          PROVE  TypeOK'
      BY <2>3, EmailAssumption DEF Expire, TypeOK, Tokens
    <2>4. ASSUME NEW r \in Requests, Start(r) \/ Click(r) \/ Abort(r)
          PROVE  TypeOK'
      BY <2>4, FormsAreTyped, LinksAreTyped
    <2> QED
      BY <2>1, <2>2, <2>3, <2>4 DEF Next
  <1> QED
    BY <1>1, <1>2, PTL DEF Spec

----------------------------------------------------------------------------
(* Consent *)

\* What a step of one request leaves of the others.
LEMMA OthersStay ==
    ASSUME TypeOK, NEW r \in Requests, NEW w, Continue(r, w)
    PROVE  \A q \in Requests : request'[q] = IF q = r THEN w ELSE request[q]
  BY DEF TypeOK, Continue

\* The types the proofs below use.
LEMMA TokensAreNumbers ==
    ASSUME TypeOK
    PROVE  /\ issued \in Nat /\ Null \notin Nat /\ Tokens \subseteq Nat /\ Fresh > issued
           /\ row # Null => /\ row \in Row /\ row.id \in Tokens
                            /\ row.verifyToken \in Tokens \cup {Null}
                            /\ row.pendingToken \in Tokens \cup {Null}
           /\ \A l \in mailed : l \in Link /\ l.token \in Tokens
           /\ \A r \in Requests : request[r] # Null =>
                 request[r] \in Request /\ request[r].token \in Tokens \cup {Null}
  BY EmailAssumption DEF TypeOK, Row, Request, Link, Tokens, Fresh

\* The same row, with no token it did not have.
Calmer ==
    row' = Null \/ (/\ row # Null /\ row' # Null
                    /\ row'.id = row.id /\ row'.verified = row.verified
                    /\ row'.verifyToken = row.verifyToken
                    /\ row'.pendingToken \in {Null, row.pendingToken})

\* A step that neither makes, mails, loses nor submits a token.
LEMMA QuietStep ==
    ASSUME EmailInv, NEW r \in Requests, NEW w, Continue(r, w),
           request[r] # Null => request[r].at \notin Mailing,
           w # Null => /\ w.at \notin Mailing /\ w.at # "verify"
                       /\ w.token # Null => w.token <= issued,
           Calmer, UNCHANGED <<issued, mailed, confirmed, lost>>
    PROVE  Consent'
  <1>1. \A q \in Requests : request'[q] = IF q = r THEN w ELSE request[q]
    BY OthersStay DEF EmailInv
  <1>2. \A q \in Requests, place \in Mailing \cup {"verify"} :
           At(q, place)' => At(q, place) /\ request'[q] = request[q]
    BY <1>1 DEF At, Mailing
  <1>3. \A q \in Requests, place \in Mailing :
           At(q, place) => At(q, place)' /\ request'[q] = request[q]
    BY <1>1 DEF At, Mailing
  <1>4. TokensAreIssued'
    BY <1>1 DEF EmailInv, Consent, TokensAreIssued, Calmer
  <1>5. LinksNameTheirRow'
    BY <1>2 DEF EmailInv, Consent, LinksNameTheirRow, Calmer, Mailing
  <1>6. VerifiersHaveALink'
    BY <1>2 DEF EmailInv, Consent, VerifiersHaveALink, Submitted
  <1>7. ConfirmedByItsReader'
    BY DEF EmailInv, Consent, ConfirmedByItsReader, Calmer
  <1>8. ASSUME NEW t, NEW kind, NEW place \in Mailing, OnItsWay(t, kind, place)
        PROVE  OnItsWay(t, kind, place)'
    BY <1>3, <1>8 DEF OnItsWay
  <1>9. LinksAreOnTheirWay'
    BY <1>8 DEF EmailInv, Consent, LinksAreOnTheirWay, Calmer, Mailing
  <1> QED
    BY <1>4, <1>5, <1>6, <1>7, <1>9 DEF Consent

\* A new token, on its way to the mailbox: in the row, or nowhere when the row
\* is gone.
LEMMA MintStep ==
    ASSUME EmailInv, NEW r \in Requests, NEW w, Continue(r, w), w # Null,
           request[r] # Null => request[r].at \notin Mailing,
           NEW place \in Mailing, w.at = place, w.token = Fresh, issued' = Fresh,
           \/ row' = row
           \/ /\ place = "mailConfirm" /\ row' # Null /\ row'.id = w.id /\ row'.verifyToken = Fresh
              /\ row'.id = Fresh \/ (row # Null /\ row'.id = row.id)
              /\ row'.pendingToken # Null => row # Null /\ row'.pendingToken = row.pendingToken
              /\ row'.verified => row # Null /\ row.verified /\ row'.id = row.id
           \/ /\ place = "mailChange" /\ row # Null /\ row' # Null /\ row'.id = row.id
              /\ row'.pendingToken = Fresh /\ row'.verifyToken = row.verifyToken
              /\ row'.verified = row.verified,
           UNCHANGED <<mailed, confirmed, lost>>
    PROVE  Consent'
  <1>0. TypeOK
    BY DEF EmailInv
  <1>1. /\ \A q \in Requests : request'[q] = IF q = r THEN w ELSE request[q]
        /\ issued \in Nat /\ Null \notin Nat /\ Fresh > issued /\ Fresh \in Nat
    BY <1>0, OthersStay, TokensAreNumbers DEF Fresh
  <1>2. /\ row # Null => /\ row.verifyToken \in Nat \cup {Null} /\ row.pendingToken \in Nat \cup {Null}
                         /\ row.id \in Nat /\ row.id <= issued
                         /\ row.verifyToken # Null => row.verifyToken <= issued
                         /\ row.pendingToken # Null => row.pendingToken <= issued
        /\ \A l \in mailed : l.token \in Nat /\ l.token <= issued
        /\ \A q \in Requests : request[q] # Null /\ request[q].token # Null =>
              request[q].token \in Nat /\ request[q].token <= issued
    BY <1>0, TokensAreNumbers DEF EmailInv, Consent, TokensAreIssued
  <1>3. \A q \in Requests, p \in Mailing :
           At(q, p) => At(q, p)' /\ request'[q] = request[q]
    BY <1>1 DEF At, Mailing
  <1>4. TokensAreIssued'
    BY <1>1, <1>2 DEF TokensAreIssued
  <1>5. LinksNameTheirRow'
    <2>1. ASSUME row' # Null, row'.verifyToken # Null, NEW l \in mailed, l.kind = "confirm",
                 l.token = row'.verifyToken
          PROVE  l.id = row'.id
      BY <1>1, <1>2, <2>1 DEF EmailInv, Consent, LinksNameTheirRow
    <2>2. ASSUME row' # Null, row'.verifyToken # Null, NEW q \in Requests, At(q, "mailConfirm")',
                 request'[q].token = row'.verifyToken
          PROVE  request'[q].id = row'.id
      <3>1. CASE q = r
        BY <1>1, <1>2, <2>2, <3>1 DEF At
      <3>2. CASE q # r
        <4>1. At(q, "mailConfirm") /\ request'[q] = request[q]
          BY <1>1, <2>2, <3>2 DEF At
        <4> QED
          BY <1>1, <1>2, <2>2, <4>1 DEF EmailInv, Consent, LinksNameTheirRow, At
      <3> QED
        BY <3>1, <3>2
    <2> QED
      BY <2>1, <2>2 DEF LinksNameTheirRow
  <1>6. VerifiersHaveALink'
    BY <1>1 DEF EmailInv, Consent, VerifiersHaveALink, Submitted, At, Mailing
  <1>7. ConfirmedByItsReader'
    BY DEF EmailInv, Consent, ConfirmedByItsReader
  <1>8. ASSUME NEW t, NEW kind, NEW p \in Mailing, OnItsWay(t, kind, p)
        PROVE  OnItsWay(t, kind, p)'
    BY <1>3, <1>8 DEF OnItsWay
  <1>9. ASSUME NEW t, t = Fresh, NEW kind
        PROVE  OnItsWay(t, kind, place)'
    BY <1>1, <1>9 DEF OnItsWay, At
  <1>10. LinksAreOnTheirWay'
    <2>1. ASSUME row' # Null, row'.verifyToken # Null
          PROVE  OnItsWay(row.verifyToken, "confirm", "mailConfirm")'
      <3>1. PICK t : t = row'.verifyToken
        OBVIOUS
      <3>2. CASE t = Fresh /\ place = "mailConfirm"
        BY <1>9, <3>1, <3>2
      <3>3. CASE row # Null /\ t = row.verifyToken
        BY <1>8, <2>1, <3>1, <3>3 DEF EmailInv, Consent, LinksAreOnTheirWay, Mailing
      <3> QED
        BY <2>1, <3>1, <3>2, <3>3
    <2>2. ASSUME row' # Null, row'.pendingToken # Null
          PROVE  OnItsWay(row.pendingToken, "change", "mailChange")'
      <3>1. PICK t : t = row'.pendingToken
        OBVIOUS
      <3>2. CASE t = Fresh /\ place = "mailChange"
        BY <1>9, <3>1, <3>2
      <3>3. CASE row # Null /\ t = row.pendingToken
        BY <1>8, <2>2, <3>1, <3>3 DEF EmailInv, Consent, LinksAreOnTheirWay, Mailing
      <3> QED
        BY <2>2, <3>1, <3>2, <3>3
    <2> QED
      BY <2>1, <2>2 DEF LinksAreOnTheirWay
  <1> QED
    BY <1>4, <1>5, <1>6, <1>7, <1>10 DEF Consent

\* A mail takes the token from the request to the mailbox.
LEMMA MailStep ==
    ASSUME EmailInv, NEW r \in Requests,
           Mail(r, "mailConfirm", "confirm") \/ Mail(r, "mailChange", "change")
    PROVE  Consent'
  <1> DEFINE new == [kind |-> IF request[r].at = "mailConfirm" THEN "confirm" ELSE "change",
                     token |-> request[r].token, id |-> request[r].id]
  <1>0. TypeOK
    BY DEF EmailInv
  <1>1. /\ \A q \in Requests : request'[q] = IF q = r THEN Null ELSE request[q]
        /\ request[r] # Null /\ request[r].at \in Mailing /\ request[r].token # Null
        /\ mailed' = mailed \cup {new}
        /\ UNCHANGED <<row, issued, confirmed, lost>>
    <2>1. Continue(r, Null) /\ request[r] # Null /\ request[r].at \in Mailing
          /\ mailed' = mailed \cup {new} /\ UNCHANGED <<row, issued, confirmed, lost>>
      BY DEF Mail, Finish, At, Mailing
    <2>2. request[r].token # Null
      BY <1>0, <2>1, TokensAreNumbers DEF Request
    <2> QED
      BY <1>0, <2>1, <2>2, OthersStay
  <1>2. TokensAreIssued'
    BY <1>1 DEF EmailInv, Consent, TokensAreIssued
  <1>3. LinksNameTheirRow'
    BY <1>1 DEF EmailInv, Consent, LinksNameTheirRow, At, Mailing
  <1>4. VerifiersHaveALink'
    BY <1>1 DEF EmailInv, Consent, VerifiersHaveALink, Submitted, At
  <1>5. ConfirmedByItsReader'
    BY <1>1 DEF EmailInv, Consent, ConfirmedByItsReader
  <1>6. ASSUME NEW t, OnItsWay(t, "confirm", "mailConfirm")
        PROVE  OnItsWay(t, "confirm", "mailConfirm")'
    <2>1. CASE At(r, "mailConfirm") /\ request[r].token = t
      <3>1. new.kind = "confirm" /\ new.token = t /\ new \in mailed'
        BY <1>1, <2>1 DEF At
      <3> QED
        BY <3>1 DEF OnItsWay
    <2>2. CASE ~(At(r, "mailConfirm") /\ request[r].token = t)
      BY <1>1, <1>6, <2>2 DEF OnItsWay, At
    <2> QED
      BY <2>1, <2>2
  <1>7. ASSUME NEW t, OnItsWay(t, "change", "mailChange")
        PROVE  OnItsWay(t, "change", "mailChange")'
    <2>1. CASE At(r, "mailChange") /\ request[r].token = t
      <3>1. new.kind = "change" /\ new.token = t /\ new \in mailed'
        BY <1>1, <2>1 DEF At
      <3> QED
        BY <3>1 DEF OnItsWay
    <2>2. CASE ~(At(r, "mailChange") /\ request[r].token = t)
      BY <1>1, <1>7, <2>2 DEF OnItsWay, At
    <2> QED
      BY <2>1, <2>2
  <1>8. LinksAreOnTheirWay'
    BY <1>1, <1>6, <1>7 DEF EmailInv, Consent, LinksAreOnTheirWay
  <1> QED
    BY <1>2, <1>3, <1>4, <1>5, <1>8 DEF Consent

LEMMA FormsKeepConsent ==
    ASSUME EmailInv, NEW r \in Requests, Start(r)
    PROVE  Consent'
  <1> DEFINE q == request[r]
  <1>0. TypeOK
    BY DEF EmailInv
  <1>1. /\ q # Null => q \in Request /\ (q.token # Null => q.token <= issued)
        /\ Null \notin Tokens /\ issued \in Nat /\ Fresh \in Nat /\ Null \notin Nat
    BY <1>0, TokensAreNumbers DEF EmailInv, Consent, TokensAreIssued, Fresh
  <1>2. /\ Mailing = {"mailConfirm", "mailChange"}
        /\ row' = row => Calmer
    BY DEF Mailing, Calmer
  <1>3. ASSUME NEW f \in Filters \cup {Null}, Subscribe(r, f)
        PROVE  Consent'
    <2> DEFINE w == Looked([Blank EXCEPT !.filters = f])
    <2>1. w.at \in {"insert", "reselect"} /\ w.token = Null
      BY DEF Looked, Blank
    <2>2. Continue(r, w) /\ q = Null /\ UNCHANGED <<row, issued, mailed, confirmed, lost>>
      BY <1>3 DEF Subscribe
    <2> HIDE DEF w
    <2> QED
      BY <1>2, <2>1, <2>2, QuietStep
  <1>4. ASSUME NEW w, q # Null, q.at \notin Mailing, Continue(r, w), w.at \notin Mailing, w.at # "verify",
               w.token = q.token, Calmer, UNCHANGED <<issued, mailed, confirmed, lost>>
        PROVE  Consent'
    BY <1>1, <1>4, QuietStep
  <1>5. CASE Look(r)
    <2> DEFINE w == Looked(q)
    <2>1. q # Null /\ q.at = "look" /\ Continue(r, w) /\ UNCHANGED <<row, issued, mailed, confirmed, lost>>
      BY <1>5 DEF Look, At
    <2>2. w.at \in {"insert", "reselect"} /\ w.token = q.token
      BY <1>1, <2>1 DEF Looked, Request
    <2> HIDE DEF w
    <2> QED
      BY <1>2, <1>4, <2>1, <2>2
  <1>6. ASSUME NEW place \in Places \ (Mailing \cup {"verify"}), q # Null, q.at \notin Mailing, Goto(r, place),
               Calmer, UNCHANGED <<issued, mailed, confirmed, lost>>
        PROVE  Consent'
    <2> DEFINE w == [q EXCEPT !.at = place]
    <2>1. Continue(r, w) /\ w.at = place /\ w.token = q.token
      BY <1>1, <1>6 DEF Goto, Request
    <2> HIDE DEF w
    <2> QED
      BY <1>4, <1>6, <2>1
  <1>7. ASSUME q # Null, q.at \notin Mailing, CreateRow(r), UNCHANGED <<mailed, confirmed, lost>>
        PROVE  Consent'
    <2> DEFINE w == [q EXCEPT !.at = "mailConfirm", !.id = Fresh, !.token = Fresh]
    <2>1. /\ w.at = "mailConfirm" /\ w.id = Fresh /\ w.token = Fresh /\ w \in Request
          /\ Continue(r, w) /\ issued' = Fresh
      <3>1. w.at = "mailConfirm" /\ w.id = Fresh /\ w.token = Fresh
        BY <1>1, <1>7 DEF Request
      <3>2. Fresh \in Tokens
        BY <1>0, <1>7, EmailAssumption DEF CreateRow, TypeOK, Fresh, Tokens
      <3>3. w \in Request
        BY <1>1, <1>7, <3>2 DEF Request, Places, Searching, Mailing
      <3> QED
        BY <1>7, <3>1, <3>3 DEF CreateRow
    <2>2. row' # Null /\ row'.id = Fresh /\ row'.verifyToken = Fresh /\ ~row'.verified /\ row'.pendingToken = Null
      <3>1. row' = NewRow(Fresh, q.filters)
        BY <1>7 DEF CreateRow
      <3>2. row' \in Row
        BY <1>0, <1>1, <1>7, <3>1, RowsAreTyped, EmailAssumption DEF CreateRow, TypeOK, Fresh, Tokens, Request
      <3> QED
        BY <3>1, <3>2, EmailAssumption DEF NewRow
    <2>3. w # Null
      BY <2>1, EmailAssumption
    <2> HIDE DEF w
    <2> QED
      BY <1>2, <1>7, <2>1, <2>2, <2>3, MintStep
  <1>8. CASE Insert(r)
    BY <1>2, <1>6, <1>7, <1>8 DEF Insert, At, Places, Searching
  <1>9. CASE Create(r)
    <2>1. CASE Finish(r) /\ UNCHANGED <<row, issued, mailed, confirmed, lost>>
      BY <1>2, <1>9, <2>1, QuietStep DEF Create, At, Finish
    <2> QED
      BY <1>2, <1>7, <1>9, <2>1 DEF Create, At
  <1>10. CASE Reselect(r)
    <2>1. q # Null /\ q.at = "reselect" /\ Calmer /\ UNCHANGED <<issued, mailed, confirmed, lost>>
      BY <1>2, <1>10 DEF Reselect, At
    <2>2. CASE Continue(r, [q EXCEPT !.at = "look", !.attempt = 1])
      <3> DEFINE w == [q EXCEPT !.at = "look", !.attempt = 1]
      <3>1. Continue(r, w) /\ w.at = "look" /\ w.token = q.token
        BY <1>1, <2>1, <2>2 DEF Request
      <3> HIDE DEF w
      <3> QED
        BY <1>2, <1>4, <2>1, <3>1
    <2>3. CASE Goto(r, "create")
      BY <1>2, <1>6, <2>1, <2>3 DEF Places, Searching
    <2>4. ASSUME NEW place \in {"pend", "apply"}, Continue(r, [q EXCEPT !.at = place, !.id = row.id])
          PROVE  Consent'
      <3> DEFINE w == [q EXCEPT !.at = place, !.id = row.id]
      <3>1. Continue(r, w) /\ w.at = place /\ w.token = q.token
        BY <1>1, <2>1, <2>4 DEF Request
      <3> HIDE DEF w
      <3> QED
        BY <1>2, <1>4, <2>1, <2>4, <3>1
    <2> QED
      BY <1>10, <2>2, <2>3, <2>4 DEF Reselect
  <1>11. ASSUME NEW place \in Mailing, q # Null, q.id # Null, issued < MaxTokens
         PROVE  LET w == [q EXCEPT !.at = place, !.token = Fresh]
                IN  w # Null /\ w.at = place /\ w.token = Fresh /\ w.id = q.id
    <2>1. [q EXCEPT !.at = place, !.token = Fresh].at = place
          /\ [q EXCEPT !.at = place, !.token = Fresh].token = Fresh
          /\ [q EXCEPT !.at = place, !.token = Fresh].id = q.id
      BY <1>1, <1>11 DEF Request
    <2>2. Fresh \in Tokens
      BY <1>1, <1>11, EmailAssumption DEF Fresh, Tokens
    <2>3. [q EXCEPT !.at = place, !.token = Fresh] \in Request
      BY <1>1, <1>11, <2>2 DEF Request, Places, Searching, Mailing
    <2> QED
      BY <2>1, <2>3, EmailAssumption
  <1>12. issued < MaxTokens => Fresh \in Tokens
    BY <1>0, EmailAssumption DEF TypeOK, Fresh, Tokens
  <1>13. CASE Pend(r)
    <2> DEFINE w == [q EXCEPT !.at = "mailChange", !.token = Fresh]
    <2>1. q # Null /\ q.at = "pend" /\ q.id # Null
      BY <1>1, <1>13 DEF Pend, At, Request, Searching
    <2>2. w # Null /\ w.at = "mailChange" /\ w.token = Fresh
      BY <1>2, <1>11, <1>13, <2>1 DEF Pend
    <2>3. \/ row' = row
          \/ /\ row # Null /\ row' # Null /\ row'.id = row.id /\ row'.pendingToken = Fresh
             /\ row'.verifyToken = row.verifyToken /\ row'.verified = row.verified
      <3>1. CASE IsRow(q.id)
        <4>1. row # Null /\ row \in Row /\ row' = [row EXCEPT !.pendingToken = Fresh, !.pendingFilters = q.filters]
          BY <1>0, <1>13, <3>1 DEF Pend, IsRow, TypeOK
        <4>2. row' \in Row
          <5>1. Fresh \in Tokens /\ q.filters \in Filters \cup {Null}
            BY <1>1, <1>13, <1>12, <2>1 DEF Pend, Request
          <5> QED
            BY <1>0, <4>1, <5>1, RowsAreTyped
        <4> QED
          BY <4>1, <4>2, EmailAssumption DEF Row
      <3>2. CASE ~IsRow(q.id)
        BY <1>13, <3>2 DEF Pend
      <3> QED
        BY <3>1, <3>2
    <2>4. Continue(r, w) /\ issued' = Fresh /\ UNCHANGED <<mailed, confirmed, lost>>
      BY <1>13 DEF Pend
    <2> HIDE DEF w
    <2> QED
      BY <1>2, <2>1, <2>2, <2>3, <2>4, MintStep
  <1>14. CASE Apply(r)
    <2>1. q # Null /\ q.at = "apply"
      BY <1>14 DEF Apply, At
    <2>2. Calmer
      <3>1. CASE IsRow(q.id)
        <4>1. row # Null /\ row \in Row /\ row' = [row EXCEPT !.filters = Merged(row.filters, q.filters)]
          BY <1>0, <1>14, <3>1 DEF Apply, IsRow, TypeOK
        <4>2. row' \in Row
          BY <1>0, <1>1, <2>1, <4>1, RowsAreTyped DEF Request
        <4> QED
          BY <4>1, <4>2, EmailAssumption DEF Row, Calmer
      <3>2. CASE ~IsRow(q.id)
        BY <1>2, <1>14, <3>2 DEF Apply
      <3> QED
        BY <3>1, <3>2
    <2> QED
      BY <1>2, <1>6, <1>14, <2>1, <2>2 DEF Apply, Places
  <1>15. CASE Renew(r)
    <2> DEFINE w == [q EXCEPT !.at = "mailConfirm", !.token = Fresh]
    <2>1. q # Null /\ q.at = "renew" /\ q.id # Null
      BY <1>1, <1>15 DEF Renew, At, Request, Searching
    <2>2. w # Null /\ w.at = "mailConfirm" /\ w.token = Fresh /\ w.id = q.id
      BY <1>2, <1>11, <1>15, <2>1 DEF Renew
    <2>3. \/ row' = row
          \/ /\ row # Null /\ row' # Null /\ row'.id = row.id /\ row'.id = q.id /\ row'.verifyToken = Fresh
             /\ row'.pendingToken = row.pendingToken /\ row'.verified = row.verified
      <3>1. CASE IsRow(q.id)
        <4>1. row # Null /\ row \in Row /\ row.id = q.id /\ row' = [row EXCEPT !.verifyToken = Fresh]
          BY <1>0, <1>15, <3>1 DEF Renew, IsRow, TypeOK
        <4>2. row' \in Row
          <5>1. Fresh \in Tokens
            BY <1>15, <1>12 DEF Renew
          <5> QED
            BY <1>0, <4>1, <5>1, RowsAreTyped
        <4> QED
          BY <4>1, <4>2, EmailAssumption DEF Row
      <3>2. CASE ~IsRow(q.id)
        BY <1>15, <3>2 DEF Renew
      <3> QED
        BY <3>1, <3>2
    <2>4. Continue(r, w) /\ issued' = Fresh /\ UNCHANGED <<mailed, confirmed, lost>>
      BY <1>15 DEF Renew
    <2> HIDE DEF w
    <2> QED
      BY <1>2, <2>1, <2>2, <2>3, <2>4, MintStep
  <1>16. CASE SendConfirmation(r) \/ SendConfirmChange(r)
    BY <1>16, MailStep DEF SendConfirmation, SendConfirmChange
  <1> QED
    BY <1>3, <1>5, <1>8, <1>9, <1>10, <1>13, <1>14, <1>15, <1>16 DEF Start

LEMMA LinksKeepConsent ==
    ASSUME EmailInv, NEW r \in Requests, Click(r) \/ Abort(r)
    PROVE  Consent'
  <1> DEFINE q == request[r]
  <1>1. /\ TypeOK
        /\ q # Null => q \in Request /\ (q.token # Null => q.token <= issued)
        /\ Null \notin Tokens /\ issued \in Nat /\ Null \notin Nat
        /\ row # Null => row \in Row
        /\ \A l \in mailed : l.token \in Tokens /\ l.token <= issued
    BY TokensAreNumbers DEF EmailInv, Consent, TokensAreIssued
  <1>2. /\ Mailing = {"mailConfirm", "mailChange"}
        /\ row' = row => Calmer
        /\ row' = Null => Calmer
    BY DEF Mailing, Calmer
  <1>3. CASE ConfirmSubscription(r)
    <2>1. PICK l \in mailed :
              /\ l.kind = "confirm" /\ Opens(l) /\ confirmed' = confirmed \cup {l.token}
              /\ Continue(r, [Blank EXCEPT !.at = "verify", !.id = row.id, !.token = l.token])
      BY <1>3 DEF ConfirmSubscription
    <2> DEFINE w == [Blank EXCEPT !.at = "verify", !.id = row.id, !.token = l.token]
    <2>2. w.at = "verify" /\ w.id = row.id /\ w.token = l.token
      BY DEF Blank
    <2>3. \A p \in Requests : request'[p] = IF p = r THEN w ELSE request[p]
      BY <1>1, <2>1, OthersStay
    <2>4. request[r] = Null /\ UNCHANGED <<row, issued, stale, mailed, lost>>
      BY <1>3 DEF ConfirmSubscription
    <2>5. row # Null /\ row.verifyToken = l.token /\ l.id = row.id
      <3>1. row # Null /\ row.verifyToken = l.token
        BY <2>1 DEF Opens
      <3> QED
        BY <1>1, <2>1, <3>1 DEF EmailInv, Consent, LinksNameTheirRow
    <2> HIDE DEF w
    <2>6. TokensAreIssued'
      BY <1>1, <2>2, <2>3, <2>4 DEF EmailInv, Consent, TokensAreIssued
    <2>7. LinksNameTheirRow'
      BY <2>2, <2>3, <2>4 DEF EmailInv, Consent, LinksNameTheirRow, At
    <2>8. VerifiersHaveALink'
      <3>1. \A id : Submitted(id) => Submitted(id)'
        BY <2>1, <2>4 DEF Submitted
      <3>2. Submitted(row.id)'
        BY <2>1, <2>4, <2>5 DEF Submitted
      <3> QED
        BY <2>2, <2>3, <2>4, <3>1, <3>2 DEF EmailInv, Consent, VerifiersHaveALink, At
    <2>9. ConfirmedByItsReader'
      BY <2>1, <2>4 DEF EmailInv, Consent, ConfirmedByItsReader
    <2>10. LinksAreOnTheirWay'
      BY <2>3, <2>4 DEF EmailInv, Consent, LinksAreOnTheirWay, OnItsWay, At
    <2> QED
      BY <2>6, <2>7, <2>8, <2>9, <2>10 DEF Consent
  <1>4. CASE VerifySubscription(r)
    <2>1. /\ q # Null /\ q.at = "verify"
          /\ UNCHANGED <<issued, stale, mailed, confirmed, lost>>
      BY <1>4 DEF VerifySubscription, At
    <2>2. \A p \in Requests :
             \/ request'[p] = Null /\ (request[p] = Null \/ p = r)
             \/ /\ request[p] # Null /\ request'[p] # Null /\ p # r
                /\ request'[p].at = request[p].at /\ request'[p].id = request[p].id
                /\ request'[p].token = request[p].token
      <3> SUFFICES ASSUME NEW p \in Requests, p # r, request[p] # Null
                   PROVE  /\ request'[p] # Null
                          /\ request'[p].at = request[p].at /\ request'[p].id = request[p].id
                          /\ request'[p].token = request[p].token
        BY <1>4 DEF VerifySubscription
      <3>1. request[p] \in Request
        BY <1>1, TokensAreNumbers
      <3>2. request'[p] = [request[p] EXCEPT !.overtaken = request[p].overtaken \/ IsRow(request[r].id)]
        BY <1>4 DEF VerifySubscription
      <3>3. PICK b \in BOOLEAN : request'[p] = [request[p] EXCEPT !.overtaken = b]
        BY <3>1, <3>2 DEF IsRow, Request
      <3>4. request'[p] \in Request
        BY <3>1, <3>3 DEF Request
      <3> QED
        BY <3>1, <3>3, <3>4, EmailAssumption DEF Request
    <2>3. \/ row' = row
          \/ /\ row # Null /\ row' # Null /\ row'.id = row.id /\ row.id = q.id /\ row'.verifyToken = Null
             /\ row'.pendingToken = row.pendingToken
      <3>1. CASE IsRow(q.id)
        <4>1. row # Null /\ row \in Row /\ row.id = q.id
              /\ row' = [row EXCEPT !.verified = TRUE, !.verifyToken = Null]
          BY <1>1, <1>4, <3>1 DEF VerifySubscription, IsRow
        <4>2. row' \in Row
          BY <1>1, <4>1, RowsAreTyped
        <4> QED
          BY <4>1, <4>2, EmailAssumption DEF Row
      <3>2. CASE ~IsRow(q.id)
        BY <1>4, <3>2 DEF VerifySubscription
      <3> QED
        BY <3>1, <3>2
    <2>4. TokensAreIssued'
      BY <2>1, <2>2, <2>3 DEF EmailInv, Consent, TokensAreIssued
    <2>5. LinksNameTheirRow'
      BY <2>1, <2>2, <2>3 DEF EmailInv, Consent, LinksNameTheirRow, At
    <2>6. \A id : Submitted(id)' <=> Submitted(id)
      BY <2>1 DEF Submitted
    <2>7. VerifiersHaveALink'
      BY <2>1, <2>2, <2>6 DEF EmailInv, Consent, VerifiersHaveALink, At
    <2>8. ConfirmedByItsReader'
      BY <2>1, <2>3, <2>6 DEF EmailInv, Consent, VerifiersHaveALink, ConfirmedByItsReader, Submitted, At
    <2>9. \A t, kind : \A place \in Mailing : OnItsWay(t, kind, place) => OnItsWay(t, kind, place)'
      BY <1>2, <2>1, <2>2 DEF OnItsWay, At
    <2>10. LinksAreOnTheirWay'
      BY <1>2, <2>3, <2>9 DEF EmailInv, Consent, LinksAreOnTheirWay
    <2> QED
      BY <2>4, <2>5, <2>7, <2>8, <2>10 DEF Consent
  <1>5. CASE ConfirmFilterChange(r)
    <2>1. PICK l \in mailed :
              Continue(r, [Blank EXCEPT !.at = "applyChange", !.id = row.id, !.token = l.token,
                                        !.filters = row.pendingFilters, !.began = issued])
      BY <1>5 DEF ConfirmFilterChange
    <2> DEFINE w == [Blank EXCEPT !.at = "applyChange", !.id = row.id, !.token = l.token,
                                  !.filters = row.pendingFilters, !.began = issued]
    <2>2. w.at = "applyChange" /\ w.token = l.token
      BY DEF Blank
    <2>3. Continue(r, w) /\ q = Null /\ UNCHANGED <<row, issued, mailed, confirmed, lost>>
      BY <1>5, <2>1 DEF ConfirmFilterChange
    <2> HIDE DEF w
    <2> QED
      BY <1>1, <1>2, <2>2, <2>3, QuietStep
  <1>6. ASSUME NEW place, place \notin Mailing, UpdateFilters(r, place)
        PROVE  /\ q # Null /\ q.at \notin Mailing /\ Calmer
               /\ UNCHANGED <<issued, mailed, confirmed, lost>>
    <2>1. q # Null /\ q.at = place /\ q.filters \in Filters \cup {Null}
      BY <1>1, <1>6 DEF UpdateFilters, At, Request
    <2>2. CASE IsRow(q.id)
      <3>1. row # Null /\ row \in Row /\ row' = [row EXCEPT !.filters = Merged(row.filters, q.filters)]
        BY <1>1, <1>6, <2>2 DEF UpdateFilters, IsRow
      <3>2. row' \in Row
        BY <1>1, <2>1, <3>1, RowsAreTyped
      <3> QED
        BY <1>6, <2>1, <3>1, <3>2, EmailAssumption DEF Row, Calmer, UpdateFilters
    <2>3. CASE ~IsRow(q.id)
      BY <1>2, <1>6, <2>1, <2>3 DEF UpdateFilters
    <2> QED
      BY <2>2, <2>3
  <1>7. CASE ApplyChange(r)
    <2> DEFINE w == [q EXCEPT !.at = "clear"]
    <2>1. q # Null /\ q.at \notin Mailing /\ Calmer /\ UNCHANGED <<issued, mailed, confirmed, lost>>
      BY <1>2, <1>6, <1>7 DEF ApplyChange
    <2>2. Continue(r, w) /\ w.at = "clear" /\ w.token = q.token
      BY <1>1, <1>7, <2>1 DEF ApplyChange, Goto, Request
    <2> HIDE DEF w
    <2> QED
      BY <1>1, <1>2, <2>1, <2>2, QuietStep
  <1>8. ASSUME Finish(r), q # Null => q.at \notin Mailing, Calmer, UNCHANGED <<issued, mailed, confirmed, lost>>
        PROVE  Consent'
    BY <1>8, QuietStep DEF Finish
  <1>9. CASE ClearPending(r)
    <2>1. q # Null /\ q.at = "clear"
      BY <1>9 DEF ClearPending, At
    <2>2. CASE IsRow(q.id)
      <3>1. row # Null /\ row \in Row /\ row' = [row EXCEPT !.pendingToken = Null, !.pendingFilters = Null]
        BY <1>1, <1>9, <2>2 DEF ClearPending, IsRow
      <3>2. row' \in Row
        BY <1>1, <3>1, RowsAreTyped
      <3>3. Calmer
        BY <3>1, <3>2, EmailAssumption DEF Row, Calmer
      <3> QED
        BY <1>2, <1>8, <1>9, <2>1, <3>3 DEF ClearPending
    <2>3. CASE ~IsRow(q.id)
      BY <1>2, <1>8, <1>9, <2>1, <2>3 DEF ClearPending
    <2> QED
      BY <2>2, <2>3
  <1>10. ASSUME NEW f \in Filters, UpdateFiltersByToken(r, f)
         PROVE  Consent'
    <2> DEFINE w == [Blank EXCEPT !.at = "save", !.id = row.id, !.filters = f]
    <2>1. w.at = "save" /\ w.token = Null
      BY DEF Blank
    <2>2. Continue(r, w) /\ q = Null /\ UNCHANGED <<row, issued, mailed, confirmed, lost>>
      BY <1>10 DEF UpdateFiltersByToken
    <2> HIDE DEF w
    <2> QED
      BY <1>2, <2>1, <2>2, QuietStep
  <1>11. CASE SaveFilters(r)
    BY <1>2, <1>6, <1>8, <1>11 DEF SaveFilters
  <1>12. CASE UnsubscribeByToken(r)
    <2> DEFINE w == [Blank EXCEPT !.at = "delete", !.id = row.id]
    <2>1. w.at = "delete" /\ w.token = Null
      BY DEF Blank
    <2>2. Continue(r, w) /\ q = Null /\ UNCHANGED <<row, issued, mailed, confirmed, lost>>
      BY <1>12 DEF UnsubscribeByToken
    <2> HIDE DEF w
    <2> QED
      BY <1>2, <2>1, <2>2, QuietStep
  <1>13. CASE DeleteRow(r)
    BY <1>2, <1>8, <1>13 DEF DeleteRow, At
  <1>14. CASE Abort(r) /\ q.at \notin Mailing
    BY <1>2, <1>8, <1>14 DEF Abort
  <1>15. CASE Abort(r) /\ q.at \in Mailing
    <2>1. /\ Continue(r, Null) /\ lost' = lost \cup {q.token}
          /\ UNCHANGED <<row, issued, mailed, confirmed>>
      BY <1>15 DEF Abort, Finish
    <2>2. \A p \in Requests : request'[p] = IF p = r THEN Null ELSE request[p]
      BY <1>1, <2>1, OthersStay
    <2>3. TokensAreIssued' /\ LinksNameTheirRow' /\ VerifiersHaveALink' /\ ConfirmedByItsReader'
      BY <2>1, <2>2 DEF EmailInv, Consent, TokensAreIssued, LinksNameTheirRow, VerifiersHaveALink,
                        ConfirmedByItsReader, Submitted, At
    <2>4. LinksAreOnTheirWay'
      BY <2>1, <2>2 DEF EmailInv, Consent, LinksAreOnTheirWay, OnItsWay, At
    <2> QED
      BY <2>3, <2>4 DEF Consent
  <1> QED
    BY <1>3, <1>4, <1>5, <1>7, <1>9, <1>10, <1>11, <1>12, <1>13, <1>14, <1>15 DEF Click

\* The invariant is inductive.
THEOREM EmailInvariant == Spec => []EmailInv
  <1>1. Init => EmailInv
    BY EmailAssumption DEF Init, EmailInv, Consent, TypeOK, TokensAreIssued, LinksNameTheirRow,
                           VerifiersHaveALink, ConfirmedByItsReader, LinksAreOnTheirWay, At
  <1>2. TypeOK' /\ EmailInv /\ [Next]_vars => EmailInv'
    <2> SUFFICES ASSUME TypeOK', EmailInv, [Next]_vars
                 PROVE  Consent'
      BY DEF EmailInv
    <2>1. CASE UNCHANGED vars
      BY <2>1 DEF vars, EmailInv, Consent, TokensAreIssued, LinksNameTheirRow, VerifiersHaveALink,
                  Submitted, ConfirmedByItsReader, LinksAreOnTheirWay, OnItsWay, At
    <2>2. CASE Announce
      <3>1. \A l \in mailed' : l \in mailed \/ (l.kind = "manage" /\ l.token = row.id /\ row # Null)
        BY <2>2 DEF Announce
      <3>2. mailed \subseteq mailed' /\ UNCHANGED <<row, request, issued, stale, confirmed, lost>>
        BY <2>2 DEF Announce
      <3>3. TokensAreIssued'
        BY <2>2, <3>1, <3>2 DEF Announce, EmailInv, Consent, TokensAreIssued
      <3>4. LinksNameTheirRow' /\ VerifiersHaveALink' /\ ConfirmedByItsReader'
        BY <3>1, <3>2 DEF EmailInv, Consent, LinksNameTheirRow, VerifiersHaveALink, ConfirmedByItsReader,
                          Submitted, At
      <3>5. LinksAreOnTheirWay'
        BY <3>2 DEF EmailInv, Consent, LinksAreOnTheirWay, OnItsWay, At
      <3> QED
        BY <3>3, <3>4, <3>5 DEF Consent
    <2>3. ASSUME NEW t \in Tokens, Expire(t)
          PROVE  Consent'
      BY <2>3 DEF Expire, EmailInv, Consent, TokensAreIssued, LinksNameTheirRow, VerifiersHaveALink,
                  Submitted, ConfirmedByItsReader, LinksAreOnTheirWay, OnItsWay, At
    <2>4. ASSUME NEW r \in Requests, Start(r) \/ Click(r) \/ Abort(r)
          PROVE  Consent'
      BY <2>4, FormsKeepConsent, LinksKeepConsent
    <2> QED
      BY <2>1, <2>2, <2>3, <2>4 DEF Next
  <1> QED
    BY <1>1, <1>2, EmailTypes, PTL DEF Spec

\* An address is verified only by a link that was mailed to it for this very
\* row, whatever forms and links run into each other.
THEOREM NothingWithoutConsent == Spec => []ConfirmedByItsReader
  <1>1. EmailInv => ConfirmedByItsReader
    BY DEF EmailInv, Consent
  <1> QED
    BY <1>1, EmailInvariant, PTL

\* No token stands in the row that was neither mailed nor lost by a request
\* that died.
THEOREM NobodyWaitsForALink == Spec => []LinksAreOnTheirWay
  <1>1. EmailInv => LinksAreOnTheirWay
    BY DEF EmailInv, Consent
  <1> QED
    BY <1>1, EmailInvariant, PTL

----------------------------------------------------------------------------
(* Filters and changes *)

\* What a step of request r makes of the row.
RowMoves(r) ==
    \/ row' = row
    \/ row' = Null
    \/ row = Null /\ row' # Null /\ ~row'.verified /\ row'.pendingToken = Null
    \/ /\ request[r] # Null /\ row # Null /\ row' # Null /\ row.id = request[r].id /\ row'.id = row.id
       /\ \/ At(r, "apply") \/ ByLink(r)
          \/ row'.filters = row.filters
       /\ \/ VerifySubscription(r)
          \/ row'.verified = row.verified
       /\ \/ row'.pendingToken = row.pendingToken
          \/ row'.pendingToken = Fresh /\ issued' = Fresh
          \/ At(r, "clear") /\ row'.pendingToken = Null

\* What a step of request r makes of that request: where it goes on from.
RequestMoves(r) ==
    request'[r] # Null =>
        /\ \/ request'[r].began \in {0, issued}
           \/ request[r] # Null /\ request'[r].began = request[r].began
        /\ request'[r].at = "apply" => row' = row /\ row # Null /\ ~row.verified
        /\ request'[r].at = "applyChange" =>
              row' = row /\ row # Null /\ row.pendingToken = request'[r].token
        /\ request'[r].at = "clear" =>
              /\ At(r, "applyChange")
              /\ request'[r].id = request[r].id /\ request'[r].token = request[r].token
              /\ request'[r].began = request[r].began

\* What it makes of another request p.
OthersMove(r, p) ==
    \/ request'[p] = request[p]
    \/ /\ At(r, "verify") /\ request[p] # Null /\ request'[p] # Null
       /\ request'[p].at = request[p].at /\ request'[p].id = request[p].id
       /\ request'[p].token = request[p].token /\ request'[p].began = request[p].began
       /\ request'[p].overtaken = (request[p].overtaken \/ IsRow(request[r].id))

\* Verifying tells the others.
LEMMA VerifyingMoves ==
    ASSUME TypeOK, NEW r \in Requests, VerifySubscription(r)
    PROVE  RowMoves(r) /\ RequestMoves(r) /\ \A p \in Requests \ {r} : OthersMove(r, p)
  <1>1. request[r] # Null /\ At(r, "verify") /\ request'[r] = Null
    BY DEF VerifySubscription, At
  <1>2. ASSUME NEW p \in Requests \ {r}
        PROVE  OthersMove(r, p)
    <2>1. CASE request[p] = Null
      BY <2>1 DEF VerifySubscription, OthersMove
    <2>2. CASE request[p] # Null
      <3>1. request[p] \in Request
        BY <2>2, RequestsAreTyped
      <3>2. request'[p] = [request[p] EXCEPT !.overtaken = request[p].overtaken \/ IsRow(request[r].id)]
        BY <2>2 DEF VerifySubscription
      <3>3. request'[p] # Null
        <4>1. PICK b \in BOOLEAN : request'[p] = [request[p] EXCEPT !.overtaken = b]
          BY <3>1, <3>2 DEF IsRow, Request
        <4>2. request'[p] \in Request
          BY <3>1, <4>1 DEF Request
        <4> QED
          BY <4>2, EmailAssumption
      <3> QED
        BY <1>1, <2>2, <3>1, <3>2, <3>3 DEF OthersMove, Request
    <2> QED
      BY <2>1, <2>2
  <1>3. RowMoves(r)
    <2>1. CASE IsRow(request[r].id)
      <3>1. row # Null /\ row \in Row /\ row.id = request[r].id
            /\ row' = [row EXCEPT !.verified = TRUE, !.verifyToken = Null]
        BY <2>1 DEF VerifySubscription, IsRow, TypeOK
      <3>2. row' # Null
        BY <3>1, RowsAreTyped, EmailAssumption
      <3> QED
        BY <1>1, <3>1, <3>2 DEF RowMoves, Row
    <2>2. CASE ~IsRow(request[r].id)
      BY <2>2 DEF VerifySubscription, RowMoves
    <2> QED
      BY <2>1, <2>2
  <1> QED
    BY <1>1, <1>2, <1>3 DEF RequestMoves

\* So does every other step of a request.
LEMMA StepsMove ==
    ASSUME TypeOK, NEW r \in Requests, Start(r) \/ Click(r) \/ Abort(r)
    PROVE  RowMoves(r) /\ RequestMoves(r) /\ \A p \in Requests \ {r} : OthersMove(r, p)
  <1> DEFINE q == request[r]
  <1>1. /\ q # Null => q \in Request
        /\ row # Null => row \in Row
        /\ row \in Row \cup {Null}
        /\ \A p \in Requests \ {r} : request'[p] = request[p] => OthersMove(r, p)
        /\ row' = row => RowMoves(r)
    BY RequestsAreTyped DEF TypeOK, OthersMove, RowMoves
  <1>2. ASSUME NEW w, Continue(r, w)
        PROVE  request'[r] = w /\ \A p \in Requests \ {r} : OthersMove(r, p)
    <2>1. \A p \in Requests : request'[p] = IF p = r THEN w ELSE request[p]
      BY <1>2, OthersStay
    <2> QED
      BY <1>1, <2>1
  <1>3. ASSUME Finish(r)
        PROVE  RequestMoves(r) /\ \A p \in Requests \ {r} : OthersMove(r, p)
    BY <1>2, <1>3 DEF Finish, RequestMoves
  <1>4. ASSUME NEW f \in Filters \cup {Null}, Subscribe(r, f)
        PROVE  RowMoves(r) /\ RequestMoves(r) /\ \A p \in Requests \ {r} : OthersMove(r, p)
    <2> DEFINE w == Looked([Blank EXCEPT !.filters = f])
    <2>1. w.at \in {"insert", "reselect"} /\ w.began = 0
      BY DEF Looked, Blank
    <2>2. Continue(r, w) /\ row' = row
      BY <1>4 DEF Subscribe
    <2> HIDE DEF w
    <2> QED
      BY <1>1, <1>2, <2>1, <2>2 DEF RequestMoves
  <1>5. ASSUME q # Null, NEW w, Continue(r, w), w.began = q.began,
               w.at \notin {"apply", "applyChange", "clear"}
        PROVE  RequestMoves(r) /\ \A p \in Requests \ {r} : OthersMove(r, p)
    BY <1>2, <1>5 DEF RequestMoves
  <1>6. CASE Look(r)
    <2> DEFINE w == Looked(q)
    <2>1. q # Null /\ Continue(r, w) /\ row' = row
      BY <1>6 DEF Look, At
    <2>2. w.at \in {"insert", "reselect"} /\ w.began = q.began
      BY <1>1, <2>1 DEF Looked, Request
    <2> HIDE DEF w
    <2> QED
      BY <1>1, <1>5, <2>1, <2>2
  <1>7. ASSUME q # Null, CreateRow(r)
        PROVE  RowMoves(r) /\ RequestMoves(r) /\ \A p \in Requests \ {r} : OthersMove(r, p)
    <2> DEFINE w == [q EXCEPT !.at = "mailConfirm", !.id = Fresh, !.token = Fresh]
    <2>1. w.at = "mailConfirm" /\ w.began = q.began /\ Continue(r, w)
      BY <1>1, <1>7 DEF CreateRow, Request
    <2>2. row = Null /\ row' = NewRow(Fresh, q.filters)
      BY <1>7 DEF CreateRow
    <2>3. row' \in Row
      BY <1>1, <1>7, <2>2, RowsAreTyped, EmailAssumption DEF CreateRow, TypeOK, Fresh, Tokens, Request
    <2>4. RowMoves(r)
      BY <2>2, <2>3, EmailAssumption DEF RowMoves, NewRow
    <2> HIDE DEF w
    <2> QED
      BY <1>5, <1>7, <2>1, <2>4
  <1>8. ASSUME q # Null, NEW place \in {"reselect", "create", "renew"}, Goto(r, place)
        PROVE  RequestMoves(r) /\ \A p \in Requests \ {r} : OthersMove(r, p)
    <2> DEFINE w == [q EXCEPT !.at = place]
    <2>1. Continue(r, w) /\ w.at = place /\ w.began = q.began
      BY <1>1, <1>8 DEF Goto, Request
    <2> HIDE DEF w
    <2> QED
      BY <1>5, <1>8, <2>1
  <1>9. CASE Insert(r) \/ Create(r)
    BY <1>1, <1>3, <1>7, <1>8, <1>9 DEF Insert, Create, At
  <1>10. CASE Reselect(r)
    <2>1. q # Null /\ row' = row
      BY <1>10 DEF Reselect, At
    <2>2. CASE Continue(r, [q EXCEPT !.at = "look", !.attempt = 1])
      <3> DEFINE w == [q EXCEPT !.at = "look", !.attempt = 1]
      <3>1. Continue(r, w) /\ w.at = "look" /\ w.began = q.began
        BY <1>1, <2>1, <2>2 DEF Request
      <3> HIDE DEF w
      <3> QED
        BY <1>1, <1>5, <2>1, <3>1
    <2>3. CASE Goto(r, "create")
      BY <1>1, <1>8, <2>1, <2>3
    <2>4. CASE Continue(r, [q EXCEPT !.at = "pend", !.id = row.id])
      <3> DEFINE w == [q EXCEPT !.at = "pend", !.id = row.id]
      <3>1. Continue(r, w) /\ w.at = "pend" /\ w.began = q.began
        BY <1>1, <2>1, <2>4 DEF Request
      <3> HIDE DEF w
      <3> QED
        BY <1>1, <1>5, <2>1, <3>1
    <2>5. CASE row # Null /\ ~row.verified /\ Continue(r, [q EXCEPT !.at = "apply", !.id = row.id])
      <3> DEFINE w == [q EXCEPT !.at = "apply", !.id = row.id]
      <3>1. Continue(r, w) /\ w.at = "apply" /\ w.began = q.began
        BY <1>1, <2>1, <2>5 DEF Request
      <3> HIDE DEF w
      <3> QED
        BY <1>1, <1>2, <2>1, <2>5, <3>1 DEF RequestMoves
    <2> QED
      BY <1>10, <2>2, <2>3, <2>4, <2>5 DEF Reselect
  <1>11. CASE Pend(r)
    <2> DEFINE w == [q EXCEPT !.at = "mailChange", !.token = Fresh]
    <2>1. q # Null /\ Continue(r, w) /\ w.at = "mailChange" /\ w.began = q.began /\ issued' = Fresh
      BY <1>1, <1>11 DEF Pend, At, Request
    <2>2. CASE IsRow(q.id)
      <3>1. row # Null /\ row.id = q.id
            /\ row' = [row EXCEPT !.pendingToken = Fresh, !.pendingFilters = q.filters]
        BY <1>11, <2>2 DEF Pend, IsRow
      <3>2. Fresh \in Tokens /\ q.filters \in Filters \cup {Null}
        BY <1>1, <1>11, <2>1, EmailAssumption DEF Pend, TypeOK, Fresh, Tokens, Request
      <3>3. row' \in Row
        BY <3>1, <3>2, RowsAreTyped
      <3> QED
        BY <1>1, <1>5, <2>1, <3>1, <3>3, EmailAssumption DEF RowMoves, Row
    <2>3. CASE ~IsRow(q.id)
      BY <1>1, <1>5, <1>11, <2>1, <2>3 DEF Pend
    <2> QED
      BY <2>2, <2>3
  <1>12. ASSUME NEW place \in {"apply", "applyChange", "save"}, At(r, place),
                row' = IF IsRow(q.id) THEN [row EXCEPT !.filters = Merged(@, q.filters)] ELSE row
         PROVE  RowMoves(r)
    <2>1. CASE IsRow(q.id)
      <3>1. row # Null /\ row.id = q.id /\ row' = [row EXCEPT !.filters = Merged(row.filters, q.filters)]
        BY <1>12, <2>1 DEF IsRow
      <3>2. q # Null /\ q.filters \in Filters \cup {Null}
        BY <1>1, <1>12 DEF At, Request
      <3>3. row' \in Row
        BY <3>1, <3>2, RowsAreTyped
      <3> QED
        BY <1>1, <1>12, <3>1, <3>2, <3>3, EmailAssumption DEF RowMoves, Row, ByLink
    <2>2. CASE ~IsRow(q.id)
      BY <1>1, <1>12, <2>2
    <2> QED
      BY <2>1, <2>2
  <1>13. CASE Apply(r)
    BY <1>8, <1>12, <1>13 DEF Apply, At
  <1>14. CASE Renew(r)
    <2> DEFINE w == [q EXCEPT !.at = "mailConfirm", !.token = Fresh]
    <2>1. q # Null /\ Continue(r, w) /\ w.at = "mailConfirm" /\ w.began = q.began
      BY <1>1, <1>14 DEF Renew, At, Request
    <2>2. CASE IsRow(q.id)
      <3>1. row # Null /\ row.id = q.id /\ row' = [row EXCEPT !.verifyToken = Fresh]
        BY <1>14, <2>2 DEF Renew, IsRow
      <3>2. Fresh \in Tokens
        BY <1>14, EmailAssumption DEF Renew, TypeOK, Fresh, Tokens
      <3>3. row' \in Row
        BY <3>1, <3>2, RowsAreTyped
      <3> QED
        BY <1>1, <1>5, <2>1, <3>1, <3>3, EmailAssumption DEF RowMoves, Row
    <2>3. CASE ~IsRow(q.id)
      BY <1>1, <1>5, <1>14, <2>1, <2>3 DEF Renew
    <2> QED
      BY <2>2, <2>3
  <1>15. CASE SendConfirmation(r) \/ SendConfirmChange(r)
    BY <1>1, <1>3, <1>15 DEF SendConfirmation, SendConfirmChange, Mail
  <1>16. CASE ConfirmSubscription(r)
    <2>1. PICK l \in mailed :
              Continue(r, [Blank EXCEPT !.at = "verify", !.id = row.id, !.token = l.token])
      BY <1>16 DEF ConfirmSubscription
    <2> DEFINE w == [Blank EXCEPT !.at = "verify", !.id = row.id, !.token = l.token]
    <2>2. w.at = "verify" /\ w.began = 0 /\ Continue(r, w) /\ row' = row
      BY <1>16, <2>1 DEF Blank, ConfirmSubscription
    <2> HIDE DEF w
    <2> QED
      BY <1>1, <1>2, <2>2 DEF RequestMoves
  <1>17. CASE ConfirmFilterChange(r)
    <2>1. PICK l \in mailed :
              /\ OpensChange(l)
              /\ Continue(r, [Blank EXCEPT !.at = "applyChange", !.id = row.id, !.token = l.token,
                                           !.filters = row.pendingFilters, !.began = issued])
      BY <1>17 DEF ConfirmFilterChange
    <2> DEFINE w == [Blank EXCEPT !.at = "applyChange", !.id = row.id, !.token = l.token,
                                  !.filters = row.pendingFilters, !.began = issued]
    <2>2. w.at = "applyChange" /\ w.token = l.token /\ w.began = issued
      BY DEF Blank
    <2>3. Continue(r, w) /\ row' = row /\ row # Null /\ row.pendingToken = l.token
      BY <1>17, <2>1 DEF ConfirmFilterChange, OpensChange
    <2> HIDE DEF w
    <2> QED
      BY <1>1, <1>2, <2>2, <2>3 DEF RequestMoves
  <1>18. CASE ApplyChange(r)
    <2> DEFINE w == [q EXCEPT !.at = "clear"]
    <2>1. q # Null /\ At(r, "applyChange") /\ Continue(r, w)
      BY <1>18 DEF ApplyChange, UpdateFilters, Goto, At
    <2>2. w.at = "clear" /\ w.id = q.id /\ w.token = q.token /\ w.began = q.began
      BY <1>1, <2>1 DEF Request
    <2>3. RowMoves(r)
      BY <1>12, <1>18 DEF ApplyChange, UpdateFilters
    <2> HIDE DEF w
    <2> QED
      BY <1>2, <2>1, <2>2, <2>3 DEF RequestMoves
  <1>19. CASE ClearPending(r)
    <2>1. q # Null /\ At(r, "clear") /\ Finish(r)
      BY <1>19 DEF ClearPending, At
    <2>2. CASE IsRow(q.id)
      <3>1. row # Null /\ row.id = q.id
            /\ row' = [row EXCEPT !.pendingToken = Null, !.pendingFilters = Null]
        BY <1>19, <2>2 DEF ClearPending, IsRow
      <3>2. row' \in Row
        BY <3>1, RowsAreTyped
      <3> QED
        BY <1>1, <1>3, <2>1, <3>1, <3>2, EmailAssumption DEF RowMoves, Row
    <2>3. CASE ~IsRow(q.id)
      BY <1>1, <1>3, <1>19, <2>1, <2>3 DEF ClearPending
    <2> QED
      BY <2>2, <2>3
  <1>20. ASSUME NEW w, Continue(r, w), w.at \in {"save", "delete"}, w.began = 0, row' = row
         PROVE  RowMoves(r) /\ RequestMoves(r) /\ \A p \in Requests \ {r} : OthersMove(r, p)
    BY <1>1, <1>2, <1>20 DEF RequestMoves
  <1>21. ASSUME NEW f \in Filters, UpdateFiltersByToken(r, f)
         PROVE  RowMoves(r) /\ RequestMoves(r) /\ \A p \in Requests \ {r} : OthersMove(r, p)
    <2> DEFINE w == [Blank EXCEPT !.at = "save", !.id = row.id, !.filters = f]
    <2>1. Continue(r, w) /\ row' = row /\ w.at = "save" /\ w.began = 0
      BY <1>21 DEF UpdateFiltersByToken, Blank
    <2> HIDE DEF w
    <2> QED
      BY <1>20, <2>1
  <1>22. CASE UnsubscribeByToken(r)
    <2> DEFINE w == [Blank EXCEPT !.at = "delete", !.id = row.id]
    <2>1. Continue(r, w) /\ row' = row /\ w.at = "delete" /\ w.began = 0
      BY <1>22 DEF UnsubscribeByToken, Blank
    <2> HIDE DEF w
    <2> QED
      BY <1>20, <2>1
  <1>23. CASE SaveFilters(r)
    BY <1>3, <1>12, <1>23 DEF SaveFilters, UpdateFilters
  <1>24. CASE DeleteRow(r)
    BY <1>1, <1>3, <1>24 DEF DeleteRow, RowMoves
  <1>25. CASE Abort(r)
    BY <1>1, <1>3, <1>25 DEF Abort
  <1> QED
    BY <1>4, <1>6, <1>9, <1>10, <1>11, <1>13, <1>14, <1>15, <1>16, <1>17, <1>18, <1>19, <1>21,
       <1>22, <1>23, <1>24, <1>25, VerifyingMoves DEF Start, Click

\* A form about to write its filters to a confirmed row was overtaken by the
\* confirmation; a click's pending change is its own or younger than the click.
Timely(w, table, n) ==
    /\ w.began <= n
    /\ table # Null /\ table.id = w.id =>
          /\ w.at = "apply" /\ table.verified => w.overtaken
          /\ w.at \in {"applyChange", "clear"} /\ table.pendingToken # Null =>
                table.pendingToken = w.token \/ table.pendingToken > w.began

RequestsAreTimely == \A r \in Requests : request[r] # Null => Timely(request[r], row, issued)

LEMMA StepTimely ==
    ASSUME EmailInv, TypeOK', RequestsAreTimely, NEW r \in Requests, Start(r) \/ Click(r) \/ Abort(r)
    PROVE  RequestsAreTimely'
  <1>1. RowMoves(r) /\ RequestMoves(r) /\ \A p \in Requests \ {r} : OthersMove(r, p)
    BY StepsMove DEF EmailInv
  <1>2. issued \in Nat /\ issued' \in Nat /\ Fresh = issued + 1 /\ issued <= issued' /\ Null \notin Nat
    <2>1. issued' \in {issued, Fresh}
      BY DEF Start, Click, Abort, Subscribe, Look, Insert, Create, CreateRow, Reselect, Pend, Apply, Renew,
             SendConfirmation, SendConfirmChange, Mail, ConfirmSubscription, VerifySubscription,
             ConfirmFilterChange, ApplyChange, UpdateFilters, ClearPending, UpdateFiltersByToken, SaveFilters,
             UnsubscribeByToken, DeleteRow
    <2>2. issued \in Nat
      BY EmailAssumption DEF EmailInv, TypeOK
    <2> QED
      BY <2>1, <2>2, EmailAssumption DEF Fresh
  <1>3. \A p \in Requests : request[p] # Null => request[p].began \in Nat
    BY EmailAssumption DEF EmailInv, TypeOK, Request
  <1>4. ASSUME NEW w, w \in Request, Timely(w, row, issued), row' # Null, row'.id = w.id
        PROVE  /\ w.at = "apply" /\ row'.verified => w.overtaken \/ (VerifySubscription(r) /\ IsRow(request[r].id))
               /\ w.at \in {"applyChange", "clear"} /\ row'.pendingToken # Null =>
                     row'.pendingToken = w.token \/ row'.pendingToken > w.began
    <2>1. w.began \in Nat
      BY <1>4, EmailAssumption DEF Request
    <2>2. Fresh > w.began
      BY <1>2, <1>4, <2>1 DEF Timely
    <2> QED
      BY <1>1, <1>4, <2>2 DEF RowMoves, IsRow, Timely
  <1>5. ASSUME NEW p \in Requests, p # r, request'[p] # Null
        PROVE  Timely(request'[p], row', issued')
    <2>1. OthersMove(r, p) /\ request[p] # Null
      BY <1>1, <1>5 DEF OthersMove
    <2>2. request[p] \in Request
      BY <2>1, RequestsAreTyped DEF EmailInv
    <2>3. Timely(request[p], row, issued)
      BY <2>1 DEF RequestsAreTimely
    <2>4. /\ request'[p].at = request[p].at /\ request'[p].id = request[p].id
          /\ request'[p].token = request[p].token /\ request'[p].began = request[p].began
          /\ request[p].overtaken => request'[p].overtaken
      BY <2>1 DEF OthersMove
    <2>5. VerifySubscription(r) /\ IsRow(request[r].id) => request'[p].overtaken
      BY <1>5, <2>1, <2>2 DEF VerifySubscription, Request
    <2>6. request'[p].began <= issued'
      BY <1>2, <1>3, <2>1, <2>3, <2>4 DEF Timely
    <2> QED
      BY <1>4, <2>2, <2>3, <2>4, <2>5, <2>6 DEF Timely
  <1>6. ASSUME request'[r] # Null
        PROVE  Timely(request'[r], row', issued')
    BY <1>1, <1>2, <1>3, <1>6 DEF RequestMoves, RowMoves, RequestsAreTimely, Timely, At
  <1> QED
    BY <1>5, <1>6 DEF RequestsAreTimely

\* A row that goes on goes on for some request, which then moves too.
LEMMA TimelyHolds == Spec => []RequestsAreTimely
  <1>1. Init => RequestsAreTimely
    BY DEF Init, RequestsAreTimely
  <1>2. EmailInv /\ TypeOK' /\ RequestsAreTimely /\ [Next]_vars => RequestsAreTimely'
    <2> SUFFICES ASSUME EmailInv, TypeOK', RequestsAreTimely, [Next]_vars
                 PROVE  RequestsAreTimely'
      OBVIOUS
    <2>1. ASSUME NEW r \in Requests, Start(r) \/ Click(r) \/ Abort(r)
          PROVE  RequestsAreTimely'
      BY <2>1, StepTimely
    <2>2. CASE Announce \/ (\E t \in Tokens : Expire(t)) \/ UNCHANGED vars
      <3>1. row' = row /\ request' = request /\ issued' = issued
        BY <2>2 DEF Announce, Expire, vars
      <3> QED
        BY <3>1 DEF RequestsAreTimely
    <2> QED
      BY <2>1, <2>2 DEF Next
  <1>3. EmailInv => TypeOK
    BY DEF EmailInv
  <1> QED
    BY <1>1, <1>2, <1>3, EmailInvariant, PTL DEF Spec

\* No step of a request leaves the request where it was.
LEMMA StepsGoOn ==
    ASSUME TypeOK, NEW r \in Requests, request[r] # Null, Start(r) \/ Click(r) \/ Abort(r)
    PROVE  request'[r] # request[r]
  <1> DEFINE q == request[r]
  <1>1. q \in Request /\ q # Null /\ request \in [Requests -> Request \cup {Null}]
    BY DEF TypeOK
  <1>2. ASSUME NEW w, Continue(r, w), w = Null \/ w.at # q.at
        PROVE  request'[r] # q
    BY <1>1, <1>2 DEF Continue
  <1>3. ASSUME Finish(r)
        PROVE  request'[r] # q
    BY <1>2, <1>3 DEF Finish
  <1>4. ASSUME NEW place, Goto(r, place), q.at # place
        PROVE  request'[r] # q
    BY <1>1, <1>2, <1>4 DEF Goto, Request
  <1>5. CASE Finish(r)
    BY <1>3, <1>5
  <1>6. CASE Look(r)
    <2>1. Continue(r, Looked(q)) /\ q.at = "look" /\ Looked(q).at \in {"insert", "reselect"}
      BY <1>1, <1>6 DEF Look, Looked, At, Request
    <2> QED
      BY <1>2, <2>1
  <1>7. CASE At(r, "insert") /\ row # Null /\ Goto(r, "reselect")
    BY <1>4, <1>7 DEF At
  <1>8. CASE (At(r, "insert") \/ At(r, "create")) /\ CreateRow(r)
    <2> DEFINE w == [q EXCEPT !.at = "mailConfirm", !.id = Fresh, !.token = Fresh]
    <2>1. Continue(r, w) /\ w.at # q.at
      BY <1>1, <1>8 DEF CreateRow, At, Request
    <2> HIDE DEF w
    <2> QED
      BY <1>2, <2>1
  <1>9. CASE Reselect(r)
    <2>1. q.at = "reselect"
      BY <1>9 DEF Reselect, At
    <2>2. CASE Continue(r, [q EXCEPT !.at = "look", !.attempt = 1])
      <3>1. [q EXCEPT !.at = "look", !.attempt = 1].at = "look"
        BY <1>1 DEF Request
      <3> QED
        BY <1>2, <2>1, <2>2, <3>1
    <2>3. CASE Goto(r, "create")
      BY <1>4, <2>1, <2>3
    <2>4. CASE Continue(r, [q EXCEPT !.at = "pend", !.id = row.id])
      <3>1. [q EXCEPT !.at = "pend", !.id = row.id].at = "pend"
        BY <1>1 DEF Request
      <3> QED
        BY <1>2, <2>1, <2>4, <3>1
    <2>5. CASE Continue(r, [q EXCEPT !.at = "apply", !.id = row.id])
      <3>1. [q EXCEPT !.at = "apply", !.id = row.id].at = "apply"
        BY <1>1 DEF Request
      <3> QED
        BY <1>2, <2>1, <2>5, <3>1
    <2> QED
      BY <1>9, <2>2, <2>3, <2>4, <2>5 DEF Reselect
  <1>10. CASE Pend(r)
    <2>1. Continue(r, [q EXCEPT !.at = "mailChange", !.token = Fresh]) /\ q.at = "pend"
      BY <1>10 DEF Pend, At
    <2>2. [q EXCEPT !.at = "mailChange", !.token = Fresh].at = "mailChange"
      BY <1>1 DEF Request
    <2> QED
      BY <1>2, <2>1, <2>2
  <1>11. CASE Apply(r)
    BY <1>4, <1>11 DEF Apply, At
  <1>12. CASE Renew(r)
    <2>1. Continue(r, [q EXCEPT !.at = "mailConfirm", !.token = Fresh]) /\ q.at = "renew"
      BY <1>12 DEF Renew, At
    <2>2. [q EXCEPT !.at = "mailConfirm", !.token = Fresh].at = "mailConfirm"
      BY <1>1 DEF Request
    <2> QED
      BY <1>2, <2>1, <2>2
  <1>13. CASE VerifySubscription(r)
    BY <1>1, <1>13 DEF VerifySubscription
  <1>14. CASE ApplyChange(r)
    BY <1>4, <1>14 DEF ApplyChange, UpdateFilters, At
  <1> QED
    BY <1>5, <1>6, <1>7, <1>8, <1>9, <1>10, <1>11, <1>12, <1>13, <1>14
    DEF Start, Click, Abort, Subscribe, Insert, Create, SendConfirmation, SendConfirmChange, Mail,
        ConfirmSubscription, ConfirmFilterChange, ClearPending, UpdateFiltersByToken, SaveFilters,
        UnsubscribeByToken, DeleteRow

\* Whoever writes to a row that stays has a request for that row, which moves.
LEMMA WritersMove ==
    ASSUME TypeOK, [Next]_vars, SameRow, row' # row
    PROVE  \E r \in Requests : /\ request[r] # Null /\ request'[r] # request[r]
                               /\ row.id = request[r].id /\ RowMoves(r)
  <1>1. PICK r \in Requests : Start(r) \/ Click(r) \/ Abort(r)
    BY DEF Next, Announce, Expire, vars
  <1>2. RowMoves(r) /\ row # Null /\ row' # Null
    BY <1>1, StepsMove DEF SameRow
  <1>3. request[r] # Null /\ row.id = request[r].id
    BY <1>2 DEF RowMoves
  <1> QED
    BY <1>1, <1>2, <1>3, StepsGoOn

\* The filters of a confirmed address change by one of its links, or by a form
\* that was submitted before the address was confirmed: startEmailSubscription
\* applies an unverified form without asking.
THEOREM OnlyLateForms == Spec => OnlyLateFormsReachIn
  <1>1. EmailInv /\ RequestsAreTimely /\ [Next]_vars =>
            [SameRow /\ row.verified /\ row'.filters # row.filters =>
                \E r \in Requests : /\ request[r] # Null /\ request'[r] # request[r]
                                    /\ ByLink(r) \/ request[r].overtaken]_vars
    <2> SUFFICES ASSUME EmailInv, RequestsAreTimely, [Next]_vars, SameRow, row.verified,
                        row'.filters # row.filters
                 PROVE  \E r \in Requests : /\ request[r] # Null /\ request'[r] # request[r]
                                            /\ ByLink(r) \/ request[r].overtaken
      OBVIOUS
    <2>1. PICK r \in Requests : /\ request[r] # Null /\ request'[r] # request[r]
                                /\ row.id = request[r].id /\ RowMoves(r)
      BY WritersMove DEF EmailInv
    <2>2. At(r, "apply") \/ ByLink(r)
      BY <2>1 DEF RowMoves, SameRow
    <2>3. Timely(request[r], row, issued)
      BY <2>1 DEF RequestsAreTimely
    <2>4. ByLink(r) \/ request[r].overtaken
      BY <2>1, <2>2, <2>3 DEF At, SameRow, Timely
    <2> QED
      BY <2>1, <2>4
  <1> QED
    BY <1>1, EmailInvariant, TimelyHolds, PTL DEF Spec, OnlyLateFormsReachIn

\* A link to change filters is good until it is used, replaced by a newer one
\* or too old; confirmFilterChange, which clears what it finds, takes away a
\* newer one only when the click began before that was made.
THEOREM ChangeLinks == Spec => ChangeLinksAreKept
  <1>1. EmailInv /\ RequestsAreTimely /\ [Next]_vars =>
            [SameRow /\ row.pendingToken # Null /\ row'.pendingToken # row.pendingToken =>
                \/ row'.pendingToken # Null /\ row'.pendingToken > row.pendingToken
                \/ \E r \in Requests : /\ At(r, "clear") /\ request'[r] # request[r]
                                       /\ row.pendingToken = request[r].token \/ row.pendingToken > request[r].began]_vars
    <2> SUFFICES ASSUME EmailInv, RequestsAreTimely, [Next]_vars, SameRow, row.pendingToken # Null,
                        row'.pendingToken # row.pendingToken
                 PROVE  \/ row'.pendingToken # Null /\ row'.pendingToken > row.pendingToken
                        \/ \E r \in Requests : /\ At(r, "clear") /\ request'[r] # request[r]
                                               /\ row.pendingToken = request[r].token \/ row.pendingToken > request[r].began
      OBVIOUS
    <2>1. PICK r \in Requests : /\ request[r] # Null /\ request'[r] # request[r]
                                /\ row.id = request[r].id /\ RowMoves(r)
      BY WritersMove DEF EmailInv
    <2>2. Timely(request[r], row, issued)
      BY <2>1 DEF RequestsAreTimely
    <2>3. row'.pendingToken = Fresh \/ At(r, "clear")
      BY <2>1 DEF RowMoves, SameRow
    <2>4. row.pendingToken \in Nat /\ row.pendingToken <= issued /\ issued \in Nat
      BY EmailAssumption DEF EmailInv, Consent, TokensAreIssued, TypeOK, SameRow, Row, Tokens
    <2>5. row'.pendingToken = Fresh => row'.pendingToken # Null /\ row'.pendingToken > row.pendingToken
      BY <2>4, EmailAssumption DEF Fresh
    <2> QED
      BY <2>1, <2>2, <2>3, <2>5 DEF At, SameRow, Timely
  <1> QED
    BY <1>1, EmailInvariant, TimelyHolds, PTL DEF Spec, ChangeLinksAreKept

=============================================================================
