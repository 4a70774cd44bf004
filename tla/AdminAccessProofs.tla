------------------------- MODULE AdminAccessProofs -------------------------
(***************************************************************************)
(* Theorems about AdminAccess, for any people, browsers, requests, logins  *)
(* and environments.                                                       *)
(***************************************************************************)
EXTENDS AdminAccess, TLAPS

----------------------------------------------------------------------------
(* The inductive invariant *)

\* The cookies of a login are of one this browser began, after its last logout.
CookiesAreOwn ==
    \A b \in Browsers :
        LET l == jar[b].state IN
        l # Null => grant[l] # Null /\ grant[l].browser = b /\ l > loggedOut[b]

LoginsAreBegun ==
    /\ \A l \in Logins : l > begun => grant[l] = Null
    /\ \A b \in Browsers : loggedOut[b] <= begun

\* Person p signed in for login l, which browser b began, and the code is used.
Settled(l, b, p) ==
    /\ grant[l] # Null
    /\ grant[l].browser = b /\ grant[l].person = p /\ grant[l].code = "used"
    /\ p \in Verified

SessionsAreSettled ==
    \A b \in Browsers :
        LET s == jar[b].session IN s # Null => Settled(s.login, b, s.person)

\* A callback is of its browser from the exchange on.
CallbackIsOwn(w) ==
    /\ w.at = "exchange" => /\ grant[w.login] # Null
                            /\ grant[w.login].browser = w.browser /\ grant[w.login].code # "none"
                            /\ w.verifier = w.login /\ w.login > w.logout /\ w.person = Null
    /\ w.person # Null => Settled(w.login, w.browser, w.person) /\ w.login > w.logout

CallbacksAreOwn == \A r \in Requests : request[r] \in Callback => CallbackIsOwn(request[r])

\* An entitlement does not go unnoticed, and a name is proven from the start.
AccessIsSound(w) ==
    /\ Entitled(w.person, publishers) => w.entitled
    /\ w.at = "operate" => w.entitled
    /\ w.at # "refused" => env.insecure \/ w.person \in Verified

AccessesAreSound == \A r \in Requests : request[r] \in Access => AccessIsSound(request[r])

UpMeansSound == server = "up" => checkEnvironment = {}

AccessInv ==
    /\ TypeOK
    /\ CookiesAreOwn
    /\ LoginsAreBegun
    /\ SessionsAreSettled
    /\ CallbacksAreOwn
    /\ AccessesAreSound
    /\ UpMeansSound
    /\ CodesAreNotBurnt

----------------------------------------------------------------------------
(* Requests *)

\* What a request is by the place it is at.
LEMMA RequestsByPlace ==
    ASSUME TypeOK, NEW r \in Requests
    PROVE  /\ request[r] # Null => request[r] \in Callback \cup Access
           /\ \A place \in {"exchange", "respond"} : At(r, place) => request[r] \in Callback
           /\ \A place \in {"refused", "count", "select", "operate"} : At(r, place) => request[r] \in Access
           /\ Callback \cap Access = {}
           /\ Null \notin Callback \cup Access
  <1>1. Callback \cap Access = {}
    BY DEF Callback, Access
  <1>2. request[r] \in Callback \cup Access \cup {Null}
    BY DEF TypeOK
  <1>3. ASSUME NEW w \in Callback
        PROVE  w.at \in {"exchange", "respond"}
    BY DEF Callback
  <1>4. ASSUME NEW w \in Access
        PROVE  w.at \in {"refused", "count", "select", "operate"}
    BY DEF Access
  <1> QED
    BY <1>1, <1>2, <1>3, <1>4, AccessAssumption DEF At

\* One request goes on, the others stay where they are.
LEMMA OthersStay ==
    ASSUME TypeOK, NEW r \in Requests, NEW w, Continue(r, w)
    PROVE  /\ request'[r] = w
           /\ \A q \in Requests : q # r => request'[q] = request[q]
           /\ w \in Callback \cup Access \cup {Null} =>
                 request' \in [Requests -> Callback \cup Access \cup {Null}]
  BY DEF TypeOK, Continue

\* What identifies a request is a person or nobody.
LEMMA IdentitiesArePeople ==
    ASSUME TypeOK, NEW b \in Browsers, NEW bearer \in People \cup {Null}, NEW tailnet
    PROVE  /\ sessionIdentity(b) \in People \cup {Null}
           /\ bearerIdentity(bearer) \in Verified \cup {Null}
           /\ resolveIdentity(Forwarded(b, bearer, tailnet)) \in People \cup {Null}
  <1>1. sessionIdentity(b) \in People \cup {Null}
    BY DEF TypeOK, sessionIdentity, Jar, Session
  <1>2. bearerIdentity(bearer) \in Verified \cup {Null}
    BY DEF bearerIdentity, emailFromClaims
  <1>3. env.adminEmail \in People \cup {Null}
    BY AccessAssumption DEF TypeOK, Environment
  <1> QED
    BY <1>1, <1>2, <1>3, AccessAssumption DEF resolveIdentity, Forwarded

----------------------------------------------------------------------------
(* Types *)

LEMMA InitTypes == Init => TypeOK
  BY AccessAssumption DEF Init, TypeOK, EmptyJar, Jar

\* Each variable keeps its type; a code is used only of a login that exists.
LEMMA NextTypes == ASSUME AccessInv, Next PROVE TypeOK'
  <1> USE DEF AccessInv
  <1>1. CASE Register
    BY <1>1 DEF TypeOK, Register, assertPublishersConfigured
  <1>2. ASSUME NEW b \in Browsers, BeginLogin(b) PROVE TypeOK'
    <2>1. Fresh \in Logins /\ begun' \in 0..MaxLogins
      BY <1>2, AccessAssumption DEF TypeOK, BeginLogin, Fresh, Logins
    <2>2. jar' \in [Browsers -> {j \in Jar : j.state = j.verifier}]
      BY <1>2, <2>1 DEF TypeOK, BeginLogin, Jar
    <2>3. grant' \in [Logins -> Grant \cup {Null}]
      BY <1>2, <2>1 DEF TypeOK, BeginLogin, Grant
    <2> QED
      BY <1>2, <2>1, <2>2, <2>3 DEF TypeOK, BeginLogin
  <1>3. ASSUME NEW b \in Browsers, Logout(b) PROVE TypeOK'
    BY <1>3, AccessAssumption DEF TypeOK, Logout, EmptyJar, Jar
  <1>4. ASSUME NEW b \in Browsers, CookiesExpire(b) PROVE TypeOK'
    <2>1. jar' \in [Browsers -> {j \in Jar : j.state = j.verifier}]
      BY <1>4 DEF TypeOK, CookiesExpire, Jar
    <2> QED
      BY <1>4, <2>1 DEF TypeOK, CookiesExpire
  <1>5. ASSUME NEW l \in Logins, NEW p \in People, SignIn(l, p) PROVE TypeOK'
    <2>1. grant[l] \in Grant
      BY <1>5 DEF TypeOK, SignIn
    <2>2. grant' \in [Logins -> Grant \cup {Null}]
      BY <1>5, <2>1 DEF TypeOK, SignIn, Grant
    <2> QED
      BY <1>5, <2>2 DEF TypeOK, SignIn
  <1>6. ASSUME NEW r \in Requests, NEW b \in Browsers, NEW l \in Logins, ReceiveCallback(r, b, l) PROVE TypeOK'
    <2>1. jar[b].verifier \in Logins \cup {Null} /\ loggedOut[b] \in 0..MaxLogins
      BY DEF TypeOK, Jar
    <2>2. PICK place \in {"exchange", "respond"} :
              Continue(r, [at |-> place, browser |-> b, login |-> l, verifier |-> jar[b].verifier,
                           person |-> Null, logout |-> loggedOut[b]])
      BY <1>6 DEF ReceiveCallback
    <2>3. [at |-> place, browser |-> b, login |-> l, verifier |-> jar[b].verifier,
           person |-> Null, logout |-> loggedOut[b]] \in Callback
      BY <2>1 DEF Callback
    <2> QED
      BY <1>6, <2>2, <2>3, OthersStay DEF TypeOK, ReceiveCallback
  <1>7. ASSUME NEW r \in Requests, NEW b \in Browsers, NEW bearer \in People \cup {Null},
               NEW tailnet \in People \cup {Null}, Arrive(r, b, bearer, tailnet)
        PROVE  TypeOK'
    <2> DEFINE p == resolveIdentity(Forwarded(b, bearer, tailnet))
               w == [at |-> IF p = Null THEN "refused" ELSE "count", person |-> p, tailnet |-> tailnet,
                     entitled |-> Entitled(p, publishers)]
    <2>1. p \in People \cup {Null}
      BY IdentitiesArePeople
    <2>2. Continue(r, w)
      BY <1>7 DEF Arrive
    <2>3. Entitled(p, publishers) \in BOOLEAN
      BY DEF Entitled
    <2> HIDE DEF p
    <2>4. w \in Access
      BY <2>1, <2>3 DEF Access
    <2> HIDE DEF w
    <2> QED
      BY <1>7, <2>2, <2>4, OthersStay DEF TypeOK, Arrive
  <1>8. ASSUME NEW r \in Requests, Exchange(r) \/ ExchangeFails(r) PROVE TypeOK'
    <2> DEFINE w == request[r]
    <2>1. w \in Callback /\ w.login \in Logins /\ grant[w.login] \in Grant
      BY <1>8, RequestsByPlace DEF Exchange, ExchangeFails, At, TypeOK, CallbacksAreOwn, CallbackIsOwn, Callback
    <2>2. verifyIdToken(grant[w.login].person) \in People \cup {Null}
      BY AccessAssumption DEF verifyIdToken, emailFromClaims
    <2>3. [w EXCEPT !.at = "respond"] \in Callback
           /\ [w EXCEPT !.at = "respond", !.person = verifyIdToken(grant[w.login].person)] \in Callback
      BY <2>1, <2>2 DEF Callback
    <2>4. [grant EXCEPT ![w.login].code = "used"] \in [Logins -> Grant \cup {Null}]
      BY <2>1 DEF TypeOK, Grant
    <2>5. misused \cup {l \in {w.login} : w.verifier # l} \subseteq Logins
      BY <2>1 DEF TypeOK
    <2>6. PICK v \in Callback : Continue(r, v)
      BY <1>8, <2>3 DEF Exchange, ExchangeFails
    <2>7. grant' \in [Logins -> Grant \cup {Null}] /\ misused' \subseteq Logins
      BY <1>8, <2>4, <2>5 DEF Exchange, ExchangeFails, TypeOK
    <2>8. UNCHANGED <<env, server, publishers, begun, jar, loggedOut>>
      BY <1>8 DEF Exchange, ExchangeFails
    <2> QED
      BY <2>6, <2>7, <2>8, OthersStay DEF TypeOK
  <1>9. ASSUME NEW r \in Requests, Respond(r) PROVE TypeOK'
    <2> DEFINE w == request[r]
    <2>1. w \in Callback
      BY <1>9, RequestsByPlace DEF Respond
    <2>2. w.person # Null => [person |-> w.person, login |-> w.login] \in Session
      BY <2>1 DEF Callback, Session
    <2>3. jar' \in [Browsers -> {j \in Jar : j.state = j.verifier}]
      BY <1>9, <2>1, <2>2 DEF Respond, TypeOK, EmptyJar, Jar, Callback
    <2> QED
      BY <1>9, <2>3, OthersStay DEF TypeOK, Respond
  <1>10. ASSUME NEW r \in Requests, Count(r) \/ Select(r) PROVE TypeOK'
    <2>1. request[r] \in Access
      BY <1>10, RequestsByPlace DEF Count, Select
    <2>2. PICK place \in {"refused", "select", "operate"} : Continue(r, [request[r] EXCEPT !.at = place])
      BY <1>10 DEF Count, Select, IfEmpty
    <2>3. [request[r] EXCEPT !.at = place] \in Access
      BY <2>1 DEF Access
    <2> QED
      BY <1>10, <2>2, <2>3, OthersStay DEF TypeOK, Count, Select
  <1>11. ASSUME NEW r \in Requests, End(r) \/ Abort(r) PROVE TypeOK'
    BY <1>11, OthersStay DEF TypeOK, End, Abort
  <1>12. ASSUME NEW table \in SUBSET People, SetPublishers(table) PROVE TypeOK'
    <2>1. ASSUME NEW r \in Requests, request[r] \in Access
          PROVE  [request[r] EXCEPT !.entitled = @ \/ Entitled(request[r].person, table)] \in Access
      BY <2>1 DEF Access
    <2>2. request' \in [Requests -> Callback \cup Access \cup {Null}]
      BY <1>12, <2>1 DEF SetPublishers, TypeOK
    <2> QED
      BY <1>12, <2>2 DEF SetPublishers, TypeOK
  <1> QED
    <2>1. \A p \in People : publishers \cup {p} \in SUBSET People /\ publishers \ {p} \in SUBSET People
      BY DEF TypeOK
    <2> QED
      BY <1>1, <1>2, <1>3, <1>4, <1>5, <1>6, <1>7, <1>8, <1>9, <1>10, <1>11, <1>12, <2>1 DEF Next

----------------------------------------------------------------------------
(* Logins *)

\* What Auth0 knows of a login only grows, and a used code stays used.
LEMMA GrantsAreKept ==
    ASSUME AccessInv, [Next]_vars, NEW l \in Logins, grant[l] # Null
    PROVE  /\ grant'[l] # Null /\ grant'[l].browser = grant[l].browser
           /\ grant[l].code # "none" => grant'[l].code # "none" /\ grant'[l].person = grant[l].person
           /\ grant[l].code = "used" => grant'[l].code = "used"
  <1> USE DEF AccessInv
  <1>1. grant \in [Logins -> Grant \cup {Null}] /\ grant[l] \in Grant
    BY DEF TypeOK
  <1>2. CASE UNCHANGED grant
    BY <1>1, <1>2
  <1>3. ASSUME NEW b \in Browsers, BeginLogin(b) PROVE Fresh # l /\ UNCHANGED grant[l]
    <2>1. l <= begun /\ begun \in Nat /\ l \in Nat
      BY AccessAssumption DEF LoginsAreBegun, TypeOK, Logins
    <2>2. Fresh # l
      BY <2>1 DEF Fresh
    <2> QED
      BY <1>1, <1>3, <2>2 DEF BeginLogin
  <1>4. ASSUME NEW k \in Logins, NEW p \in People, SignIn(k, p) PROVE k # l \/ grant[l].code = "none"
    BY <1>4 DEF SignIn
  <1>5. ASSUME NEW k \in Logins, NEW p \in People, SignIn(k, p)
        PROVE  grant'[l] # Null /\ grant'[l].browser = grant[l].browser /\ (k # l => grant'[l] = grant[l])
    <2>1. CASE k # l
      BY <1>1, <1>5, <2>1 DEF SignIn
    <2>2. CASE k = l
      <3>1. grant'[l] \in {[grant[l] EXCEPT !.person = p, !.code = "issued"], [grant[l] EXCEPT !.code = "denied"]}
        BY <1>1, <1>5, <2>2 DEF SignIn
      <3>2. grant'[l] \in Grant
        BY <1>1, <3>1 DEF Grant
      <3>3. grant'[l].browser = grant[l].browser
        BY <1>1, <3>1 DEF Grant
      <3> QED
        BY <2>2, <3>2, <3>3, AccessAssumption
    <2> QED
      BY <2>1, <2>2
  <1>6. ASSUME grant' \in {grant, [grant EXCEPT ![l].code = "used"]} \/ \E k \in Logins \ {l} : grant' = [grant EXCEPT ![k].code = "used"]
        PROVE  grant'[l] \in {grant[l], [grant[l] EXCEPT !.code = "used"]}
    BY <1>1, <1>6
  <1>7. ASSUME NEW r \in Requests, Exchange(r) \/ ExchangeFails(r)
        PROVE  grant'[l] \in {grant[l], [grant[l] EXCEPT !.code = "used"]}
    <2>1. request[r].login \in Logins
      BY <1>7, RequestsByPlace DEF Exchange, ExchangeFails, Callback
    <2>2. grant' \in {grant, [grant EXCEPT ![request[r].login].code = "used"]}
      BY <1>7 DEF Exchange, ExchangeFails
    <2> QED
      BY <1>6, <2>1, <2>2
  <1>8. ASSUME grant'[l] \in {grant[l], [grant[l] EXCEPT !.code = "used"]}
        PROVE  /\ grant'[l] # Null /\ grant'[l].browser = grant[l].browser
               /\ grant[l].code # "none" => grant'[l].code # "none" /\ grant'[l].person = grant[l].person
               /\ grant[l].code = "used" => grant'[l].code = "used"
    BY <1>1, <1>8, AccessAssumption DEF Grant
  <1>9. \/ UNCHANGED grant
        \/ \E b \in Browsers : BeginLogin(b)
        \/ \E k \in Logins, p \in People : SignIn(k, p)
        \/ \E r \in Requests : Exchange(r) \/ ExchangeFails(r)
    BY DEF Next, vars, Register, Logout, CookiesExpire, ReceiveCallback, Arrive, Respond, Count, Select,
           End, Abort, SetPublishers
  <1> QED
    BY <1>2, <1>3, <1>4, <1>5, <1>7, <1>8, <1>9

\* Once a login is settled it stays so.
LEMMA SettledIsForGood ==
    ASSUME AccessInv, [Next]_vars, NEW l \in Logins, NEW b, NEW p, Settled(l, b, p)
    PROVE  Settled(l, b, p)'
  BY GrantsAreKept DEF Settled

\* The cookies of a browser change in five ways.
LEMMA JarStep ==
    ASSUME AccessInv, [Next]_vars, NEW b \in Browsers
    PROVE  /\ jar'[b].state = jar[b].state \/ jar'[b].state = Null \/ (BeginLogin(b) /\ jar'[b].state = Fresh)
           /\ \/ jar'[b].session = jar[b].session
              \/ jar'[b].session = Null
              \/ \E r \in Requests :
                    /\ request[r] \in Callback /\ request[r].browser = b /\ request[r].person # Null
                    /\ jar'[b].session = [person |-> request[r].person, login |-> request[r].login]
  <1> USE DEF AccessInv
  <1>1. jar \in [Browsers -> Jar]
    BY DEF TypeOK
  <1>2. CASE UNCHANGED jar
    BY <1>2
  <1>3. ASSUME NEW c \in Browsers, BeginLogin(c)
        PROVE  jar'[b].session = jar[b].session /\ (jar'[b].state = jar[b].state \/ (c = b /\ jar'[b].state = Fresh))
    BY <1>1, <1>3 DEF BeginLogin, Jar
  <1>4. ASSUME NEW c \in Browsers, Logout(c) \/ CookiesExpire(c)
        PROVE  /\ jar'[b].state \in {jar[b].state, Null}
               /\ jar'[b].session \in {jar[b].session, Null}
    BY <1>1, <1>4 DEF Logout, CookiesExpire, EmptyJar, Jar
  <1>5. ASSUME NEW r \in Requests, Respond(r)
        PROVE  /\ jar'[b].state \in {jar[b].state, Null}
               /\ \/ jar'[b].session = jar[b].session
                  \/ /\ request[r] \in Callback /\ request[r].browser = b /\ request[r].person # Null
                     /\ jar'[b].session = [person |-> request[r].person, login |-> request[r].login]
    <2>1. request[r] \in Callback /\ request[r].browser \in Browsers
      BY <1>5, RequestsByPlace DEF Respond, Callback
    <2> QED
      BY <1>1, <1>5, <2>1 DEF Respond, EmptyJar, Jar
  <1>6. \/ UNCHANGED jar
        \/ \E c \in Browsers : BeginLogin(c) \/ Logout(c) \/ CookiesExpire(c)
        \/ \E r \in Requests : Respond(r)
    BY DEF Next, vars, Register, SignIn, ReceiveCallback, Exchange, ExchangeFails, Arrive, Count, Select,
           End, Abort, SetPublishers
  <1> QED
    BY <1>2, <1>3, <1>4, <1>5, <1>6

\* A browser's last logout is of now or of before.
LEMMA LogoutStep ==
    ASSUME AccessInv, [Next]_vars, NEW b \in Browsers
    PROVE  \/ loggedOut'[b] = loggedOut[b]
           \/ Logout(b) /\ loggedOut'[b] = begun /\ begun' = begun /\ jar'[b].state = Null
  <1>1. ASSUME NEW c \in Browsers, Logout(c)
        PROVE  loggedOut'[b] = loggedOut[b] \/ (c = b /\ loggedOut'[b] = begun /\ begun' = begun /\ jar'[b].state = Null)
    BY <1>1 DEF Logout, AccessInv, TypeOK, EmptyJar
  <1>2. UNCHANGED loggedOut \/ \E c \in Browsers : Logout(c)
    BY DEF Next, vars, Register, BeginLogin, CookiesExpire, SignIn, ReceiveCallback, Exchange, ExchangeFails, Respond,
           Arrive, Count, Select, End, Abort, SetPublishers
  <1> QED
    BY <1>1, <1>2

\* Cookies, logouts and sessions stay consistent with the logins.
LEMMA CookiesStep == ASSUME AccessInv, [Next]_vars PROVE CookiesAreOwn'
  <1> SUFFICES ASSUME NEW b \in Browsers, jar'[b].state # Null
               PROVE  LET l == jar'[b].state IN
                      grant'[l] # Null /\ grant'[l].browser = b /\ l > loggedOut'[b]
    BY DEF CookiesAreOwn
  <1>1. loggedOut'[b] = loggedOut[b]
    BY LogoutStep
  <1>2. CASE jar'[b].state = jar[b].state
    <2>1. jar[b].state \in Logins
      BY <1>2 DEF AccessInv, TypeOK, Jar
    <2> QED
      BY <1>1, <1>2, <2>1, GrantsAreKept DEF AccessInv, CookiesAreOwn
  <1>3. CASE BeginLogin(b) /\ jar'[b].state = Fresh
    <2>1. Fresh \in Logins /\ Fresh > loggedOut[b]
      BY <1>3, AccessAssumption DEF BeginLogin, AccessInv, TypeOK, LoginsAreBegun, Fresh, Logins
    <2>2. grant'[Fresh] = [browser |-> b, person |-> Null, code |-> "none"]
      BY <1>3, <2>1 DEF BeginLogin, AccessInv, TypeOK
    <2>3. grant'[Fresh] \in Grant
      BY <2>2 DEF Grant
    <2> QED
      BY <1>1, <1>3, <2>1, <2>2, <2>3, AccessAssumption
  <1> QED
    BY <1>2, <1>3, JarStep

LEMMA LoginsStep == ASSUME AccessInv, [Next]_vars PROVE LoginsAreBegun'
  <1> USE DEF AccessInv
  <1>1. begun \in Nat /\ begun' \in Nat /\ begun <= begun'
    <2>1. begun' \in {begun, Fresh}
      BY DEF Next, vars, Register, BeginLogin, Logout, CookiesExpire, SignIn, ReceiveCallback, Exchange, ExchangeFails, Respond,
             Arrive, Count, Select, End, Abort, SetPublishers
    <2> QED
      BY <2>1, AccessAssumption DEF TypeOK, Fresh
  <1>2. ASSUME NEW b \in Browsers PROVE loggedOut'[b] <= begun'
    BY <1>1, LogoutStep, AccessAssumption DEF TypeOK, LoginsAreBegun
  <1>3. ASSUME NEW l \in Logins, l > begun' PROVE grant'[l] = Null
    <2>1. grant[l] = Null
      BY <1>1, <1>3, AccessAssumption DEF LoginsAreBegun, Logins
    <2>2. ASSUME NEW b \in Browsers, BeginLogin(b) PROVE grant'[l] = grant[l]
      BY <1>1, <1>3, <2>2 DEF TypeOK, BeginLogin, Fresh
    <2>3. ASSUME NEW k \in Logins, NEW p \in People, SignIn(k, p) PROVE grant'[l] = grant[l]
      BY <2>1, <2>3 DEF TypeOK, SignIn
    <2>4. ASSUME NEW r \in Requests, Exchange(r) \/ ExchangeFails(r) PROVE grant'[l] = grant[l]
      <3>1. request[r].login # l
        BY <2>1, <2>4, RequestsByPlace DEF Exchange, ExchangeFails, At, CallbacksAreOwn, CallbackIsOwn
      <3> QED
        BY <2>4, <3>1 DEF TypeOK, Exchange, ExchangeFails
    <2>5. \/ UNCHANGED grant
          \/ \E b \in Browsers : BeginLogin(b)
          \/ \E k \in Logins, p \in People : SignIn(k, p)
          \/ \E r \in Requests : Exchange(r) \/ ExchangeFails(r)
      BY DEF Next, vars, Register, Logout, CookiesExpire, ReceiveCallback, Arrive, Respond, Count, Select,
             End, Abort, SetPublishers
    <2> QED
      BY <2>1, <2>2, <2>3, <2>4, <2>5
  <1> QED
    BY <1>2, <1>3 DEF LoginsAreBegun

LEMMA SessionsStep == ASSUME AccessInv, [Next]_vars PROVE SessionsAreSettled'
  <1> SUFFICES ASSUME NEW b \in Browsers, jar'[b].session # Null
               PROVE  Settled(jar[b].session.login, b, jar[b].session.person)'
    BY DEF SessionsAreSettled
  <1>1. CASE jar'[b].session = jar[b].session
    <2> DEFINE l == jar[b].session.login
               p == jar[b].session.person
    <2>1. l \in Logins /\ Settled(l, b, p)
      BY <1>1 DEF AccessInv, TypeOK, Jar, Session, SessionsAreSettled
    <2>2. jar'[b].session.login = l /\ jar'[b].session.person = p
      BY <1>1
    <2> HIDE DEF l, p
    <2> QED
      BY <2>1, <2>2, GrantsAreKept DEF Settled
  <1>2. ASSUME NEW r \in Requests, request[r] \in Callback, request[r].browser = b, request[r].person # Null,
               jar'[b].session = [person |-> request[r].person, login |-> request[r].login]
        PROVE  Settled(jar[b].session.login, b, jar[b].session.person)'
    <2> DEFINE l == request[r].login
               p == request[r].person
    <2>1. l \in Logins /\ Settled(l, b, p)
      BY <1>2 DEF AccessInv, CallbacksAreOwn, CallbackIsOwn, Callback
    <2>2. jar'[b].session.login = l /\ jar'[b].session.person = p
      BY <1>2
    <2> HIDE DEF l, p
    <2> QED
      BY <2>1, <2>2, GrantsAreKept DEF Settled
  <1> QED
    BY <1>1, <1>2, JarStep

----------------------------------------------------------------------------
(* Callbacks *)

\* A callback that is not moved keeps what is known of it.
LEMMA CallbackStays ==
    ASSUME AccessInv, [Next]_vars, NEW r \in Requests, request'[r] = request[r], request[r] \in Callback
    PROVE  CallbackIsOwn(request[r])'
  <1> DEFINE w == request[r]
  <1>1. CallbackIsOwn(w) /\ w.login \in Logins
    BY DEF AccessInv, CallbacksAreOwn, Callback
  <1>2. w.at = "exchange" => /\ grant'[w.login] # Null
                             /\ grant'[w.login].browser = w.browser /\ grant'[w.login].code # "none"
                             /\ w.verifier = w.login /\ w.login > w.logout /\ w.person = Null
    BY <1>1, GrantsAreKept DEF CallbackIsOwn
  <1>3. w.person # Null => /\ grant'[w.login] # Null
                           /\ grant'[w.login].browser = w.browser /\ grant'[w.login].person = w.person
                           /\ grant'[w.login].code = "used" /\ w.person \in Verified /\ w.login > w.logout
    BY <1>1, GrantsAreKept DEF CallbackIsOwn, Settled
  <1> QED
    BY <1>2, <1>3 DEF CallbackIsOwn, Settled

\* One that proceeds to the exchange has the state of a login of its browser.
LEMMA ReceivedIsOwn ==
    ASSUME AccessInv, NEW r \in Requests, NEW b \in Browsers, NEW l \in Logins, ReceiveCallback(r, b, l)
    PROVE  CallbackIsOwn(request[r])'
  <1> USE DEF AccessInv
  <1>1. PICK place \in {"exchange", "respond"} :
           /\ Continue(r, [at |-> place, browser |-> b, login |-> l, verifier |-> jar[b].verifier,
                           person |-> Null, logout |-> loggedOut[b]])
           /\ place = "exchange" => stateMatches(b, l)
    BY DEF ReceiveCallback
  <1>2. request'[r] = [at |-> place, browser |-> b, login |-> l, verifier |-> jar[b].verifier,
                       person |-> Null, logout |-> loggedOut[b]]
    BY <1>1, OthersStay
  <1>3. grant' = grant /\ grant[l] # Null /\ grant[l].code # "none"
    BY DEF ReceiveCallback
  <1>4. place = "exchange" => grant[l].browser = b /\ jar[b].verifier = l /\ l > loggedOut[b]
    <2>1. place = "exchange" => jar[b].state = l
      BY <1>1 DEF stateMatches
    <2>2. jar[b].verifier = jar[b].state
      BY DEF TypeOK
    <2>3. l # Null
      BY AccessAssumption DEF Logins
    <2>4. jar[b].state = l => grant[l].browser = b /\ l > loggedOut[b]
      BY <2>3 DEF CookiesAreOwn
    <2> QED
      BY <2>1, <2>2, <2>4
  <1> QED
    BY <1>2, <1>3, <1>4 DEF CallbackIsOwn

\* The exchange names whoever signed in for the login, if the address is verified.
LEMMA ExchangedIsOwn ==
    ASSUME AccessInv, NEW r \in Requests, Exchange(r) \/ ExchangeFails(r)
    PROVE  CallbackIsOwn(request[r])'
  <1> USE DEF AccessInv
  <1> DEFINE w == request[r]
             p == verifyIdToken(grant[w.login].person)
  <1>1. /\ w \in Callback /\ w.login \in Logins /\ w.at = "exchange"
        /\ grant[w.login] \in Grant /\ grant[w.login].browser = w.browser
        /\ w.login > w.logout /\ w.person = Null
    BY RequestsByPlace DEF Exchange, ExchangeFails, At, TypeOK, CallbacksAreOwn, CallbackIsOwn, Callback
  <1>2. CASE /\ grant' = [grant EXCEPT ![w.login].code = "used"]
             /\ Continue(r, [w EXCEPT !.at = "respond", !.person = p])
    <2>1. p # Null => p = grant[w.login].person /\ p \in Verified
      BY DEF verifyIdToken, emailFromClaims
    <2>2. /\ grant'[w.login] = [grant[w.login] EXCEPT !.code = "used"]
          /\ grant'[w.login] \in Grant
      BY <1>1, <1>2 DEF TypeOK, Grant
    <2> HIDE DEF p
    <2>3. request'[r] = [w EXCEPT !.at = "respond", !.person = p]
      BY <1>2, OthersStay
    <2>4. /\ request'[r].at = "respond" /\ request'[r].person = p /\ request'[r].login = w.login
          /\ request'[r].browser = w.browser /\ request'[r].logout = w.logout
      BY <1>1, <2>3 DEF Callback
    <2>5. /\ grant'[w.login] # Null /\ grant'[w.login].browser = w.browser
          /\ grant'[w.login].person = grant[w.login].person /\ grant'[w.login].code = "used"
      BY <1>1, <2>2, AccessAssumption DEF Grant
    <2> QED
      BY <1>1, <2>1, <2>4, <2>5 DEF CallbackIsOwn, Settled
  <1>3. CASE Continue(r, [w EXCEPT !.at = "respond"])
    <2>1. request'[r] = [w EXCEPT !.at = "respond"]
      BY <1>3, OthersStay
    <2>2. request'[r].at = "respond" /\ request'[r].person = Null
      BY <1>1, <2>1 DEF Callback
    <2> QED
      BY <2>2 DEF CallbackIsOwn
  <1> QED
    BY <1>2, <1>3 DEF Exchange, ExchangeFails

\* What an access becomes is an access.
LEMMA AccessesStayAccesses ==
    ASSUME NEW w \in Access
    PROVE  /\ \A place \in {"refused", "count", "select", "operate"} : [w EXCEPT !.at = place] \in Access
           /\ \A table : [w EXCEPT !.entitled = @ \/ Entitled(w.person, table)] \in Access
  BY DEF Access

LEMMA CallbacksStep == ASSUME AccessInv, [Next]_vars PROVE CallbacksAreOwn'
  <1> USE DEF AccessInv
  <1> SUFFICES ASSUME NEW r \in Requests, request'[r] \in Callback
               PROVE  CallbackIsOwn(request[r])'
    BY DEF CallbacksAreOwn
  <1>1. CASE request'[r] = request[r]
    BY <1>1, CallbackStays
  <1>2. ASSUME NEW q \in Requests, NEW w, Continue(q, w), w \notin Callback PROVE request'[r] = request[r]
    BY <1>2, OthersStay
  <1>3. ASSUME NEW q \in Requests, NEW w, Continue(q, w), q # r PROVE request'[r] = request[r]
    BY <1>3, OthersStay
  <1>4. ASSUME NEW q \in Requests, NEW b \in Browsers, NEW l \in Logins, ReceiveCallback(q, b, l)
        PROVE  CallbackIsOwn(request[r])'
    BY <1>1, <1>3, <1>4, ReceivedIsOwn DEF ReceiveCallback
  <1>5. ASSUME NEW q \in Requests, Exchange(q) \/ ExchangeFails(q)
        PROVE  CallbackIsOwn(request[r])'
    BY <1>1, <1>3, <1>5, ExchangedIsOwn DEF Exchange, ExchangeFails
  <1>6. ASSUME NEW q \in Requests, NEW b \in Browsers, NEW bearer, NEW tailnet, Arrive(q, b, bearer, tailnet)
        PROVE  request'[r] = request[r]
    <2> DEFINE p == resolveIdentity(Forwarded(b, bearer, tailnet))
               w == [at |-> IF p = Null THEN "refused" ELSE "count", person |-> p, tailnet |-> tailnet,
                     entitled |-> Entitled(p, publishers)]
    <2>1. Continue(q, w)
      BY <1>6 DEF Arrive
    <2> HIDE DEF p
    <2>2. w \notin Callback
      BY DEF Callback
    <2> HIDE DEF w
    <2> QED
      BY <1>2, <2>1, <2>2
  <1>7. ASSUME NEW q \in Requests, Count(q) \/ Select(q) PROVE request'[r] = request[r]
    <2>1. PICK place \in {"refused", "select", "operate"} : Continue(q, [request[q] EXCEPT !.at = place])
      BY <1>7 DEF Count, Select, IfEmpty
    <2>2. [request[q] EXCEPT !.at = place] \in Access
      BY <1>7, RequestsByPlace, AccessesStayAccesses DEF Count, Select
    <2>3. [request[q] EXCEPT !.at = place] \notin Callback
      BY <2>2, RequestsByPlace
    <2> QED
      BY <1>2, <2>1, <2>3
  <1>8. ASSUME NEW q \in Requests, Respond(q) \/ End(q) \/ Abort(q) PROVE request'[r] = request[r]
    BY <1>2, <1>8, RequestsByPlace DEF Respond, End, Abort
  <1>9. ASSUME NEW table, SetPublishers(table) PROVE request'[r] = request[r]
    <2>1. request[r] \notin Access
      BY <1>9, RequestsByPlace, AccessesStayAccesses DEF SetPublishers
    <2> QED
      BY <1>9, <2>1 DEF SetPublishers
  <1>10. CASE UNCHANGED request
    BY <1>1, <1>10
  <1>11. \/ UNCHANGED request
         \/ \E q \in Requests, b \in Browsers, l \in Logins : ReceiveCallback(q, b, l)
         \/ \E q \in Requests, b \in Browsers, bearer, tailnet \in People \cup {Null} : Arrive(q, b, bearer, tailnet)
         \/ \E q \in Requests : Exchange(q) \/ ExchangeFails(q)
         \/ \E q \in Requests : Count(q) \/ Select(q)
         \/ \E q \in Requests : Respond(q) \/ End(q) \/ Abort(q)
         \/ \E table : SetPublishers(table)
    BY DEF Next, vars, Register, BeginLogin, Logout, CookiesExpire, SignIn
  <1> QED
    BY <1>1, <1>4, <1>5, <1>6, <1>7, <1>8, <1>9, <1>10, <1>11

----------------------------------------------------------------------------
(* Accesses *)

\* While the table stays, an access that is not moved stays sound.
LEMMA AccessStays ==
    ASSUME AccessInv, NEW r \in Requests, request'[r] = request[r], request[r] \in Access,
           publishers' = publishers, env' = env
    PROVE  AccessIsSound(request[r])'
  BY DEF AccessInv, AccessesAreSound, AccessIsSound, Entitled, checksApply

\* On an instance that is up only local development has a development identity.
LEMMA ArrivedIsSound ==
    ASSUME AccessInv, NEW r \in Requests, NEW b \in Browsers, NEW bearer \in People \cup {Null},
           NEW tailnet \in People \cup {Null}, Arrive(r, b, bearer, tailnet)
    PROVE  AccessIsSound(request[r])'
  <1> USE DEF AccessInv
  <1> DEFINE p == resolveIdentity(Forwarded(b, bearer, tailnet))
             w == [at |-> IF p = Null THEN "refused" ELSE "count", person |-> p, tailnet |-> tailnet,
                   entitled |-> Entitled(p, publishers)]
  <1>1. sessionIdentity(b) \in Verified \cup {Null}
    BY DEF sessionIdentity, SessionsAreSettled, Settled
  <1>2. env.insecure \/ env.adminEmail = Null
    BY DEF Arrive, Idle, UpMeansSound, checkEnvironment, checksApply
  <1>3. p # Null => env.insecure \/ p \in Verified
    BY <1>1, <1>2, IdentitiesArePeople DEF resolveIdentity, Forwarded
  <1>4. publishers' = publishers /\ env' = env
    BY DEF Arrive
  <1>5. Continue(r, w)
    BY DEF Arrive
  <1> HIDE DEF p
  <1>6. /\ request'[r].person = p /\ request'[r].at \in {"refused", "count"}
        /\ request'[r].at # "refused" => p # Null
        /\ request'[r].entitled <=> Entitled(p, publishers)
    <2>1. request'[r] = w
      BY <1>5, OthersStay
    <2> QED
      BY <2>1
  <1> QED
    BY <1>3, <1>4, <1>6 DEF AccessIsSound, Entitled, checksApply

\* The two statements of isPublisher let through who is entitled by then.
LEMMA CheckedIsSound ==
    ASSUME AccessInv, NEW r \in Requests, Count(r) \/ Select(r)
    PROVE  AccessIsSound(request[r])'
  <1> USE DEF AccessInv
  <1>1. request[r] \in Access /\ AccessIsSound(request[r]) /\ request[r].at \in {"count", "select"}
    BY RequestsByPlace DEF Count, Select, At, AccessesAreSound
  <1>2. PICK place \in {"refused", "select", "operate"} :
           /\ Continue(r, [request[r] EXCEPT !.at = place])
           /\ place = "operate" => Entitled(request[r].person, publishers)
    BY DEF Count, Select, IfEmpty, Entitled
  <1>3. request'[r] = [request[r] EXCEPT !.at = place]
    BY <1>2, OthersStay
  <1>4. /\ request'[r].at = place /\ request'[r].person = request[r].person
        /\ request'[r].entitled = request[r].entitled
    BY <1>1, <1>3 DEF Access
  <1>5. publishers' = publishers /\ env' = env
    BY DEF Count, Select
  <1> QED
    BY <1>1, <1>2, <1>4, <1>5 DEF AccessIsSound, Entitled, checksApply

\* An entitlement that a new table gives is noted.
LEMMA NewTableIsSound ==
    ASSUME AccessInv, NEW table, SetPublishers(table), NEW r \in Requests, request[r] \in Access
    PROVE  AccessIsSound(request[r])'
  <1> USE DEF AccessInv
  <1>1. request'[r] = [request[r] EXCEPT !.entitled = @ \/ Entitled(request[r].person, table)]
    BY DEF SetPublishers
  <1>2. /\ request'[r].at = request[r].at /\ request'[r].person = request[r].person
        /\ request'[r].entitled <=> request[r].entitled \/ Entitled(request[r].person, table)
    BY <1>1 DEF Access
  <1>3. AccessIsSound(request[r]) /\ publishers' = table /\ env' = env
    BY DEF AccessesAreSound, SetPublishers
  <1> QED
    BY <1>2, <1>3 DEF AccessIsSound, Entitled, checksApply

LEMMA AccessesStep == ASSUME AccessInv, [Next]_vars PROVE AccessesAreSound'
  <1> USE DEF AccessInv
  <1> SUFFICES ASSUME NEW r \in Requests, request'[r] \in Access
               PROVE  AccessIsSound(request[r])'
    BY DEF AccessesAreSound
  <1>1. ASSUME request'[r] = request[r], UNCHANGED <<publishers, env>> PROVE AccessIsSound(request[r])'
    BY <1>1, AccessStays
  <1>2. ASSUME NEW q \in Requests, NEW w, Continue(q, w), w \notin Access \/ q # r PROVE request'[r] = request[r]
    BY <1>2, OthersStay
  <1>3. ASSUME NEW q \in Requests, NEW b \in Browsers, NEW l \in Logins, ReceiveCallback(q, b, l)
        PROVE  AccessIsSound(request[r])'
    <2>1. PICK place \in {"exchange", "respond"} :
              Continue(q, [at |-> place, browser |-> b, login |-> l, verifier |-> jar[b].verifier,
                           person |-> Null, logout |-> loggedOut[b]])
      BY <1>3 DEF ReceiveCallback
    <2>2. [at |-> place, browser |-> b, login |-> l, verifier |-> jar[b].verifier,
           person |-> Null, logout |-> loggedOut[b]] \notin Access
      BY DEF Access
    <2> QED
      BY <1>1, <1>2, <1>3, <2>1, <2>2 DEF ReceiveCallback
  <1>4. ASSUME NEW q \in Requests, Exchange(q) \/ ExchangeFails(q)
        PROVE  AccessIsSound(request[r])'
    <2> DEFINE w == request[q]
               p == verifyIdToken(grant[w.login].person)
    <2>1. w \in Callback
      BY <1>4, RequestsByPlace DEF Exchange, ExchangeFails
    <2>2. PICK v \in {[w EXCEPT !.at = "respond"], [w EXCEPT !.at = "respond", !.person = p]} : Continue(q, v)
      BY <1>4 DEF Exchange, ExchangeFails
    <2> HIDE DEF p
    <2>3. v.at = "respond"
      BY <2>1 DEF Callback
    <2>4. v \notin Access
      BY <2>3 DEF Access
    <2>5. UNCHANGED <<publishers, env>>
      BY <1>4 DEF Exchange, ExchangeFails
    <2> QED
      BY <1>1, <1>2, <2>2, <2>4, <2>5
  <1>5. ASSUME NEW q \in Requests, NEW b \in Browsers, NEW bearer \in People \cup {Null},
               NEW tailnet \in People \cup {Null}, Arrive(q, b, bearer, tailnet)
        PROVE  AccessIsSound(request[r])'
    <2>1. CASE q = r
      BY <1>5, <2>1, ArrivedIsSound
    <2>2. CASE q # r
      BY <1>1, <1>2, <1>5, <2>2 DEF Arrive
    <2> QED
      BY <2>1, <2>2
  <1>6. ASSUME NEW q \in Requests, Count(q) \/ Select(q) PROVE AccessIsSound(request[r])'
    <2>1. CASE q = r
      BY <1>6, <2>1, CheckedIsSound
    <2>2. CASE q # r
      BY <1>1, <1>2, <1>6, <2>2 DEF Count, Select
    <2> QED
      BY <2>1, <2>2
  <1>7. ASSUME NEW q \in Requests, Respond(q) \/ End(q) \/ Abort(q) PROVE AccessIsSound(request[r])'
    BY <1>1, <1>2, <1>7, RequestsByPlace DEF Respond, End, Abort
  <1>8. ASSUME NEW table, SetPublishers(table) PROVE AccessIsSound(request[r])'
    <2>1. request[r] \in Access
      BY <1>8 DEF SetPublishers
    <2> QED
      BY <1>8, <2>1, NewTableIsSound
  <1>9. CASE UNCHANGED <<request, publishers, env>>
    BY <1>1, <1>9
  <1>10. \/ UNCHANGED <<request, publishers, env>>
         \/ \E q \in Requests, b \in Browsers, l \in Logins : ReceiveCallback(q, b, l)
         \/ \E q \in Requests, b \in Browsers, bearer, tailnet \in People \cup {Null} : Arrive(q, b, bearer, tailnet)
         \/ \E q \in Requests : Exchange(q) \/ ExchangeFails(q)
         \/ \E q \in Requests : Count(q) \/ Select(q)
         \/ \E q \in Requests : Respond(q) \/ End(q) \/ Abort(q)
         \/ \E table : SetPublishers(table)
    BY DEF Next, vars, Register, BeginLogin, Logout, CookiesExpire, SignIn
  <1> QED
    BY <1>3, <1>4, <1>5, <1>6, <1>7, <1>8, <1>9, <1>10

----------------------------------------------------------------------------
(* The start and the codes *)

LEMMA StartStep == ASSUME AccessInv, [Next]_vars PROVE UpMeansSound'
  <1>1. UNCHANGED env
    BY DEF Next, vars, Register, BeginLogin, Logout, CookiesExpire, SignIn, ReceiveCallback, Exchange, ExchangeFails, Respond,
           Arrive, Count, Select, End, Abort, SetPublishers
  <1>2. UNCHANGED server \/ Register
    BY DEF Next, vars, BeginLogin, Logout, CookiesExpire, SignIn, ReceiveCallback, Exchange, ExchangeFails, Respond,
           Arrive, Count, Select, End, Abort, SetPublishers
  <1>3. checkEnvironment' = checkEnvironment
    BY <1>1 DEF checkEnvironment, checksApply, Missing, auth0ConfigFromEnv
  <1> QED
    BY <1>2, <1>3 DEF AccessInv, UpMeansSound, Register

\* Only a callback with the verifier of its login is exchanged.
LEMMA CodesStep == ASSUME AccessInv, [Next]_vars PROVE CodesAreNotBurnt'
  <1> USE DEF AccessInv
  <1>1. ASSUME NEW r \in Requests, Exchange(r) PROVE misused' = {}
    <2>1. request[r].verifier = request[r].login
      BY <1>1, RequestsByPlace DEF Exchange, At, CallbacksAreOwn, CallbackIsOwn
    <2>2. {l \in {request[r].login} : request[r].verifier # l} = {}
      BY <2>1
    <2> QED
      BY <1>1, <2>2 DEF Exchange, CodesAreNotBurnt
  <1>2. UNCHANGED misused \/ \E r \in Requests : Exchange(r)
    BY DEF Next, vars, Register, BeginLogin, Logout, CookiesExpire, SignIn, ReceiveCallback, ExchangeFails, Respond,
           Arrive, Count, Select, End, Abort, SetPublishers
  <1> QED
    BY <1>1, <1>2 DEF CodesAreNotBurnt

----------------------------------------------------------------------------
(* Theorems *)

LEMMA InitAccess == Init => AccessInv
  BY InitTypes, AccessAssumption
     DEF Init, AccessInv, CookiesAreOwn, LoginsAreBegun, SessionsAreSettled, CallbacksAreOwn, AccessesAreSound,
         UpMeansSound, CodesAreNotBurnt, EmptyJar

LEMMA NextAccess == AccessInv /\ [Next]_vars => AccessInv'
  <1> SUFFICES ASSUME AccessInv, [Next]_vars PROVE AccessInv'
    OBVIOUS
  <1>1. TypeOK'
    <2>1. CASE Next
      BY <2>1, NextTypes
    <2>2. CASE UNCHANGED vars
      BY <2>2 DEF AccessInv, TypeOK, vars
    <2> QED
      BY <2>1, <2>2
  <1> QED
    BY <1>1, CookiesStep, LoginsStep, SessionsStep, CallbacksStep, AccessesStep, StartStep, CodesStep DEF AccessInv

\* The invariant on which the rest stands: from the cookies of a login to the
\* operation, every hand-over is of the right browser and person.
THEOREM AccessInvariant == Spec => []AccessInv
  BY InitAccess, NextAccess, PTL DEF Spec

\* Every variable keeps its type.
THEOREM AccessTypes == Spec => []TypeOK
  <1>1. AccessInv => TypeOK
    BY DEF AccessInv
  <1> QED
    BY <1>1, AccessInvariant, PTL

\* A session is of the person who proved the address to Auth0 in this browser.
THEOREM NobodyElsesSession == Spec => []SessionsAreProven
  <1>1. AccessInv => SessionsAreProven
    BY DEF AccessInv, SessionsAreSettled, Settled, SessionsAreProven
  <1> QED
    BY <1>1, AccessInvariant, PTL

\* No code is spent on a verifier that is not its own.
THEOREM NoCodeIsBurnt == Spec => []CodesAreNotBurnt
  <1>1. AccessInv => CodesAreNotBurnt
    BY DEF AccessInv
  <1> QED
    BY <1>1, AccessInvariant, PTL

\* A login from before a logout gives no session to a callback after it.
THEOREM LogoutsEndLogins == Spec => []LogoutEndsLogins
  <1>1. AccessInv => LogoutEndsLogins
    BY DEF AccessInv, CallbacksAreOwn, CallbackIsOwn, LogoutEndsLogins
  <1> QED
    BY <1>1, AccessInvariant, PTL

\* Whoever operates was a publisher, or let in by the empty table of a
\* development instance, at some moment of the request.
THEOREM OnlyPublishersOperate == Spec => []OperatorsAreEntitled
  <1>1. AccessInv => OperatorsAreEntitled
    BY RequestsByPlace DEF AccessInv, AccessesAreSound, AccessIsSound, OperatorsAreEntitled, At
  <1> QED
    BY <1>1, AccessInvariant, PTL

\* Whoever operates on a guarded instance is a person with a verified address:
\* the development identity is out of reach of any starts and requests.
THEOREM OnlyProvenActorsOperate == Spec => []ActorsAreProven
  <1>1. AccessInv => ActorsAreProven
    BY RequestsByPlace DEF AccessInv, AccessesAreSound, AccessIsSound, ActorsAreProven, At
  <1> QED
    BY <1>1, AccessInvariant, PTL

============================================================================
