---------------------------- MODULE AdminAccess ----------------------------
(***************************************************************************)
(* Who may act under /admin: the start of an instance (instrumentation.ts, *)
(* src/core/production-guard.ts), the login through Auth0 with its cookies *)
(* (app/admin/login, callback, logout), the identity of a request          *)
(* (middleware.ts, src/core/identity.ts) and the publisher check before an *)
(* operation (app/admin/actions.ts, src/web/admin-gate.ts).                *)
(*                                                                         *)
(* A login is a number: its state, its code verifier and the code Auth0    *)
(* gives out for it carry the same one.  A callback reads the cookies when *)
(* the browser sends it and writes them when its response arrives; the     *)
(* browser may do anything else in between.  A redirect may be opened      *)
(* twice, or in another browser.  Addresses are compared in lower case     *)
(* everywhere, so a person stands for every spelling of theirs.            *)
(***************************************************************************)
EXTENDS Naturals

CONSTANTS
    People,
    Verified,       \* those whose address Auth0 has verified
    Browsers,
    Requests,       \* requests that the instance may serve at a time
    MaxLogins,      \* bound on the logins ever begun
    Environments,   \* environments an instance may be started with
    Null

Logins == 1..MaxLogins

\* What checkEnvironment asks for, apart from Auth0; without a DEPLOY_TARGET it is
\* never satisfied.
Required ==
    [vm      |-> {"HOSTNAME", "PUBLIC_BASE_URL"},
     netlify |-> {"SESSION_SECRET", "AUTH0_CLIENT_SECRET", "DATABASE_SSL_MODE", "ENABLED_CHANNELS",
                  "PUBLIC_BASE_URL"},
     unset   |-> {"DEPLOY_TARGET", "PUBLIC_BASE_URL"}]

Settings ==
    (UNION {Required[t] : t \in DOMAIN Required} \ {"DEPLOY_TARGET"})
        \cup {"AUTH0_ISSUER", "AUTH0_AUDIENCE", "AUTH0_CLIENT_ID"}

\* given are the settings that are there and well formed, AUTH0_AUDIENCE among
\* them if it is not the client id; insecure is ANNOUNCE_ALLOW_INSECURE_DEV.
Environment ==
    [target: DOMAIN Required, insecure: BOOLEAN, adminEmail: People \cup {Null}, given: SUBSET Settings]

Session == [person: People, login: Logins]

Jar == [state: Logins \cup {Null}, verifier: Logins \cup {Null}, session: Session \cup {Null}]

\* What Auth0 knows of a login: the browser that began it, who signed in, and
\* what became of the code.
Grant == [browser: Browsers, person: People \cup {Null}, code: {"none", "denied", "issued", "used"}]

\* A callback: the cookie it came with, whom it will name, and the last login
\* there was when its browser had last been logged out.
Callback ==
    [at: {"exchange", "respond"}, browser: Browsers, login: Logins, verifier: Logins \cup {Null},
     person: People \cup {Null}, logout: 0..MaxLogins]

\* A page or server action: who is asking, the tailnet user of its connection,
\* and whether it could have been allowed at a moment since it arrived.
Access ==
    [at: {"refused", "count", "select", "operate"}, person: People \cup {Null},
     tailnet: People \cup {Null}, entitled: BOOLEAN]

ASSUME AccessAssumption ==
    /\ Verified \subseteq People /\ Null \notin People
    /\ Environments \subseteq Environment
    /\ MaxLogins \in Nat
    /\ Null \notin Nat /\ Null \notin Session /\ Null \notin Grant
    /\ Null \notin Callback /\ Null \notin Access

VARIABLES
    env,            \* the instance's environment
    server,         \* "starting", "up" or "refused"
    publishers,     \* table publishers
    jar,            \* per browser, its cookies
    begun,          \* logins begun so far
    grant,          \* per login, what Auth0 knows, or Null
    loggedOut,      \* per browser, the last login begun when it was logged out
    misused,        \* logins whose code came to Auth0 with another verifier
    request         \* per request, a callback, an access or Null

vars == <<env, server, publishers, jar, begun, grant, loggedOut, misused, request>>

EmptyJar == [state |-> Null, verifier |-> Null, session |-> Null]

Init ==
    /\ env \in Environments
    /\ server = "starting"
    /\ publishers \in SUBSET People
    /\ jar = [b \in Browsers |-> EmptyJar]
    /\ begun = 0
    /\ grant = [l \in Logins |-> Null]
    /\ loggedOut = [b \in Browsers |-> 0]
    /\ misused = {}
    /\ request = [r \in Requests |-> Null]

----------------------------------------------------------------------------
(* The start *)

checksApply == ~ env.insecure

\* An issuer, and an audience or the client id in its place.
auth0ConfigFromEnv ==
    "AUTH0_ISSUER" \in env.given /\ {"AUTH0_AUDIENCE", "AUTH0_CLIENT_ID"} \cap env.given # {}

Missing ==
    (Required[env.target] \ env.given)
        \cup {s \in {"AUTH0"} : env.target = "netlify" /\ ~ auth0ConfigFromEnv}

\* Faulty variant: ADMIN_EMAIL is not looked at.
checkSettings == IF checksApply THEN Missing ELSE {}

\* The problems found; each is fatal.
checkEnvironment ==
    IF checksApply THEN Missing \cup {s \in {"ADMIN_EMAIL"} : env.adminEmail # Null} ELSE {}

\* What becomes of the look at the table: a database that cannot be reached, or
\* not in time, is not fatal; an empty table is, and so is any other error - a wrong
\* password, no table - and an answer that is no number.
Databases == {"unusable", "unreachable", "faulty", "answers"}
assertPublishersConfigured(database) ==
    IF checksApply /\ (database = "faulty" \/ (database = "answers" /\ publishers = {})) THEN "refused" ELSE "up"

\* A database whose settings connect refuses ("unusable") ends the start on any
\* instance.
Register ==
    /\ server = "starting"
    /\ \E database \in Databases :
         server' = IF checkEnvironment # {} \/ database = "unusable" THEN "refused"
                   ELSE assertPublishersConfigured(database)
    /\ UNCHANGED <<env, publishers, begun, jar, grant, loggedOut, misused, request>>

----------------------------------------------------------------------------
(* The login *)

Idle(r) == server = "up" /\ request[r] = Null
At(r, place) == request[r] # Null /\ request[r].at = place
Continue(r, w) == request' = [request EXCEPT ![r] = w]

Fresh == begun + 1

\* GET /admin/login
BeginLogin(b) ==
    /\ server = "up" /\ auth0ConfigFromEnv /\ "AUTH0_CLIENT_ID" \in env.given
    /\ begun < MaxLogins
    /\ begun' = Fresh
    /\ jar' = [jar EXCEPT ![b].state = Fresh, ![b].verifier = Fresh]
    /\ grant' = [grant EXCEPT ![Fresh] = [browser |-> b, person |-> Null, code |-> "none"]]
    /\ UNCHANGED <<env, server, publishers, loggedOut, misused, request>>

\* Auth0 sends the browser back, with a code or with an error.
SignIn(l, p) ==
    /\ grant[l] # Null /\ grant[l].code = "none"
    /\ \/ grant' = [grant EXCEPT ![l].person = p, ![l].code = "issued"]
       \/ grant' = [grant EXCEPT ![l].code = "denied"]
    /\ UNCHANGED <<env, server, publishers, begun, jar, loggedOut, misused, request>>

\* Faulty variant: the state is not compared.
StateIsThere(b, l) == jar[b].state # Null

stateMatches(b, l) == jar[b].state = l

CanLogin ==
    auth0ConfigFromEnv /\ {"AUTH0_CLIENT_ID", "AUTH0_CLIENT_SECRET", "SESSION_SECRET"} \subseteq env.given

\* GET /admin/callback: what is decided before the exchange.
ReceiveCallback(r, b, l) ==
    /\ Idle(r)
    /\ grant[l] # Null /\ grant[l].code # "none"
    /\ LET proceeds == stateMatches(b, l) /\ grant[l].code # "denied"
                          /\ jar[b].verifier # Null /\ CanLogin
       IN  Continue(r, [at |-> IF proceeds THEN "exchange" ELSE "respond", browser |-> b, login |-> l,
                        verifier |-> jar[b].verifier, person |-> Null, logout |-> loggedOut[b]])
    /\ UNCHANGED <<env, server, publishers, begun, jar, grant, loggedOut, misused>>

\* Faulty variant: email_verified is not looked at.
emailOfAnyone(p) == p

emailFromClaims(p) == IF p \in Verified THEN p ELSE Null

\* An ID token is made for the client, and refused if another audience is set.
verifyIdToken(p) == IF "AUTH0_AUDIENCE" \in env.given THEN Null ELSE emailFromClaims(p)

\* The token endpoint takes a code once, with its verifier.
Redeems(r) == LET w == request[r] IN grant[w.login].code = "issued" /\ w.verifier = w.login

Exchange(r) ==
    /\ At(r, "exchange")
    /\ LET w == request[r] IN
          /\ misused' = misused \cup {l \in {w.login} : w.verifier # l}
          /\ \/ /\ Redeems(r)
                /\ grant' = [grant EXCEPT ![w.login].code = "used"]
                /\ Continue(r, [w EXCEPT !.at = "respond", !.person = verifyIdToken(grant[w.login].person)])
             \/ /\ ~ Redeems(r)
                /\ UNCHANGED grant
                /\ Continue(r, [w EXCEPT !.at = "respond"])
    /\ UNCHANGED <<env, server, publishers, begun, jar, loggedOut>>

\* The answer of Auth0 is lost, or its keys cannot be fetched.
ExchangeFails(r) ==
    /\ At(r, "exchange")
    /\ LET w == request[r] IN
          /\ grant' \in {grant, [grant EXCEPT ![w.login].code = "used"]}
          /\ Continue(r, [w EXCEPT !.at = "respond"])
    /\ UNCHANGED <<env, server, publishers, begun, jar, loggedOut, misused>>

\* Every exit clears the two cookies of the login, whichever login they are of.
Respond(r) ==
    /\ At(r, "respond")
    /\ LET w == request[r] IN
          jar' = [jar EXCEPT ![w.browser] =
                     [EmptyJar EXCEPT !.session =
                         IF w.person = Null THEN jar[w.browser].session
                         ELSE [person |-> w.person, login |-> w.login]]]
    /\ Continue(r, Null)
    /\ UNCHANGED <<env, server, publishers, begun, grant, loggedOut, misused>>

\* Faulty variant: only the session ends.
LogoutOfSession(b) ==
    /\ server = "up"
    /\ jar' = [jar EXCEPT ![b].session = Null]
    /\ loggedOut' = [loggedOut EXCEPT ![b] = begun]
    /\ UNCHANGED <<env, server, publishers, begun, grant, misused, request>>

\* GET /admin/logout
Logout(b) ==
    /\ server = "up"
    /\ jar' = [jar EXCEPT ![b] = EmptyJar]
    /\ loggedOut' = [loggedOut EXCEPT ![b] = begun]
    /\ UNCHANGED <<env, server, publishers, begun, grant, misused, request>>

\* The cookies of a login end after 10 minutes, those of a session after 12 hours.
CookiesExpire(b) ==
    /\ \/ jar[b].state # Null /\ jar' = [jar EXCEPT ![b].state = Null, ![b].verifier = Null]
       \/ jar[b].session # Null /\ jar' = [jar EXCEPT ![b].session = Null]
    /\ UNCHANGED <<env, server, publishers, begun, grant, loggedOut, misused, request>>

----------------------------------------------------------------------------
(* A request to a page or a server action *)

sessionIdentity(b) ==
    IF "SESSION_SECRET" \in env.given /\ jar[b].session # Null THEN jar[b].session.person ELSE Null

\* A bearer token names a person; its claims are held to the same rule.
bearerIdentity(p) == IF auth0ConfigFromEnv /\ p # Null THEN emailFromClaims(p) ELSE Null

\* What the middleware forwards: whatever came as an identity is dropped.
Forwarded(b, bearer, tailnet) ==
    [auth0 |-> IF bearerIdentity(bearer) # Null THEN bearerIdentity(bearer) ELSE sessionIdentity(b),
     tailscale |-> Null]

resolveIdentity(headers) ==
    IF headers.auth0 # Null THEN headers.auth0
    ELSE IF env.target = "vm" /\ headers.tailscale # Null THEN headers.tailscale
    ELSE env.adminEmail

\* Whether isPublisher may say yes at this moment.
Entitled(p, table) == p \in table \/ (table = {} /\ ~ checksApply)

\* Only on the VM does a request come over the tailnet.
Arrive(r, b, bearer, tailnet) ==
    /\ Idle(r)
    /\ tailnet # Null => env.target = "vm"
    /\ LET p == resolveIdentity(Forwarded(b, bearer, tailnet))
       IN  Continue(r, [at |-> IF p = Null THEN "refused" ELSE "count", person |-> p, tailnet |-> tailnet,
                        entitled |-> Entitled(p, publishers)])
    /\ UNCHANGED <<env, server, publishers, begun, jar, grant, loggedOut, misused>>

\* Faulty variant: an empty table lets anyone in.
OpenIfEmpty == "operate"

IfEmpty == IF checksApply THEN "refused" ELSE "operate"

\* isPublisher is two statements.
Count(r) ==
    /\ At(r, "count")
    /\ Continue(r, [request[r] EXCEPT !.at = IF publishers = {} THEN IfEmpty ELSE "select"])
    /\ UNCHANGED <<env, server, publishers, begun, jar, grant, loggedOut, misused>>

Select(r) ==
    /\ At(r, "select")
    /\ Continue(r, [request[r] EXCEPT !.at = IF request[r].person \in publishers THEN "operate" ELSE "refused"])
    /\ UNCHANGED <<env, server, publishers, begun, jar, grant, loggedOut, misused>>

\* The page is rendered, the operation runs, or the refusal is shown.
End(r) ==
    /\ At(r, "operate") \/ At(r, "refused")
    /\ Continue(r, Null)
    /\ UNCHANGED <<env, server, publishers, begun, jar, grant, loggedOut, misused>>

\* The request dies, or a statement throws.
Abort(r) ==
    /\ request[r] # Null
    /\ Continue(r, Null)
    /\ UNCHANGED <<env, server, publishers, begun, jar, grant, loggedOut, misused>>

\* npm run seed:publisher, or a statement of the operator.
SetPublishers(table) ==
    /\ table # publishers
    /\ publishers' = table
    /\ request' = [r \in Requests |->
                      IF request[r] \in Access
                      THEN [request[r] EXCEPT !.entitled = @ \/ Entitled(request[r].person, table)]
                      ELSE request[r]]
    /\ UNCHANGED <<env, server, begun, jar, grant, loggedOut, misused>>

Next ==
    \/ Register
    \/ \E b \in Browsers : BeginLogin(b) \/ Logout(b) \/ CookiesExpire(b)
    \/ \E l \in Logins, p \in People : SignIn(l, p)
    \/ \E r \in Requests :
          \/ \E b \in Browsers, l \in Logins : ReceiveCallback(r, b, l)
          \/ \E b \in Browsers, bearer, tailnet \in People \cup {Null} : Arrive(r, b, bearer, tailnet)
          \/ Exchange(r) \/ ExchangeFails(r) \/ Respond(r)
          \/ Count(r) \/ Select(r) \/ End(r) \/ Abort(r)
    \/ \E p \in People : SetPublishers(publishers \cup {p}) \/ SetPublishers(publishers \ {p})

Spec == Init /\ [][Next]_vars

----------------------------------------------------------------------------
(* Properties *)

\* Every variable has its type; the two cookies of a login come and go together.
TypeOK ==
    /\ env \in Environments
    /\ server \in {"starting", "up", "refused"}
    /\ publishers \subseteq People
    /\ jar \in [Browsers -> {j \in Jar : j.state = j.verifier}]
    /\ begun \in 0..MaxLogins
    /\ grant \in [Logins -> Grant \cup {Null}]
    /\ loggedOut \in [Browsers -> 0..MaxLogins]
    /\ misused \subseteq Logins
    /\ request \in [Requests -> Callback \cup Access \cup {Null}]

\* A session names the person who signed in, with a verified address, for a login
\* that this very browser began.
SessionsAreProven ==
    \A b \in Browsers :
        LET s == jar[b].session IN
        s # Null => /\ grant[s.login] # Null
                    /\ grant[s.login].browser = b
                    /\ grant[s.login].person = s.person
                    /\ s.person \in Verified

\* A redirect that is opened in another browser, or too late, does not cost the
\* login its code: "exchanging first and checking later would still burn the code".
CodesAreNotBurnt == misused = {}

\* A logout ends the logins under way: a callback sent after it sets a session
\* only for a login begun after it.
LogoutEndsLogins ==
    \A r \in Requests :
        request[r] \in Callback /\ request[r].person # Null => request[r].login > request[r].logout

\* Nobody operates who was not entitled to at some moment of the request,
\* whatever happens to the table in between.
OperatorsAreEntitled ==
    \A r \in Requests : At(r, "operate") => request[r].entitled

\* On an instance that is guarded nobody acts under a name that was not proven.
ActorsAreProven ==
    \A r \in Requests : At(r, "operate") => env.insecure \/ request[r].person \in Verified

============================================================================
