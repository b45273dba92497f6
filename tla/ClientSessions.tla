---------------------------- MODULE ClientSessions ----------------------------
(***************************************************************************)
(* The sessions of one browser: a web page and an extension whose requests *)
(* carry the browser's sid cookie, getOrCreateSession, and four routes     *)
(* behind it: registration begin and finish (who the challenge belongs to  *)
(* and whether the response is accepted), the account list, and the        *)
(* recovery hook that records the wish for a backup passkey.               *)
(*                                                                         *)
(* What finish does after it has accepted a response is PasskeyCeremony's. *)
(* A user has one session row, so the row is known by its user.            *)
(***************************************************************************)
EXTENDS CeremonyOrigin, Naturals

CONSTANTS
  Deployments,   \* the settings the server may have been started with
  Clients,       \* pages of the browser
  Page,          \* the URL of each client
  Envelopes,     \* the requests each client may send to a route: headers, body fields
  Users,         \* values randomId can return for a user
  Challenges,    \* challenge rows the database can ever hold
  Handlers,      \* requests in flight at once
  SessionTTL, ChallengeTTL,  \* life of a session and of a challenge
  Latency,       \* the platform ends a request that runs longer
  StartTime,     \* what the clock shows first
  MaxTime,       \* bound on the clock
  MaxRequests    \* bound on the requests sent

Routes == {"begin", "finish", "list", "backup"}

ASSUME ClientAssumption ==
  /\ Deployments \subseteq Deployment
  /\ Page \in [Clients -> Url]
  /\ \A c \in Clients : Page[c].scheme = "chrome-extension" => Page[c].port = NoPort
  /\ Envelopes \in [Clients -> [Routes -> SUBSET Request]]
  /\ None \notin Users \cup Nat \cup Url \cup [user : Users, until : Nat]

(* The web page's fetches are relative and name no extension (page 202 and *)
(* 214), so both of its requests reach one host by one protocol.           *)
ASSUME PagesArePlain ==
  \A c \in Clients : Page[c].scheme # "chrome-extension" =>
    \A begin \in Envelopes[c]["begin"], finish \in Envelopes[c]["finish"] :
      BeginHints(begin) = {} /\ begin.host = finish.host /\ begin.proto = finish.proto

\* Thirty days, five minutes, and seconds.
ASSUME TimeAssumption ==
  /\ {SessionTTL, ChallengeTTL, Latency, StartTime, MaxTime, MaxRequests} \subseteq Nat
  /\ 0 < SessionTTL
  /\ ChallengeTTL + 2 * Latency <= SessionTTL

VARIABLES
  env,         \* the deployment's settings
  now,         \* the clock behind nowMs() and behind the browser's cookies
  jar,         \* the sid cookie: its user and when the browser drops it, or None
  session,     \* the sessions table: expiresAt of each user's row, 0 for no row
  challenges,  \* the webauthn_challenges table, registration rows
  issued,      \* ids of every challenge row ever created
  owner,       \* the user column of one smart account, or None
  intents,     \* number of its backup_passkey_intent rows in account_signers
  responses,   \* what the browser's authenticators have signed
  handler,     \* the requests in flight
  sent,        \* number of requests sent
  seen,        \* history: when the browser last stored a sid cookie, or None
  split,       \* history: a request that overlapped another one made a new user
  raced        \* history: two backup requests have both found no intent row

tables == <<session, challenges, issued, owner, intents>>
browser == <<jar, responses, seen>>
vars == <<env, now, tables, browser, handler, sent, split, raced>>

-----------------------------------------------------------------------------
Cookie == [user : Users, until : Nat]

ChallengeRow == [id : Challenges, user : Users, rpId : RpIds, origin : Url,
                 createdAt : Nat, expiresAt : Nat]

Response == [client : Clients, challenge : Challenges, rpId : RpIds]

SessionPc == {"read", "touch", "create"}
RoutePc == {"store", "verify", "spend", "owned", "find", "update", "insert", "answer"}

Idle == [pc |-> "idle"]

Running == [pc : SessionPc \cup RoutePc, route : Routes, client : Clients, request : Request,
            response : Response \cup {None}, sid : Users \cup {None},
            since : Nat, now : Nat, user : Users \cup {None},
            row : ChallengeRow \cup {None}, shared : BOOLEAN]

Busy(h) == handler[h].pc # "idle"

Goto(h, pc) == handler' = [handler EXCEPT ![h].pc = pc]

\* The first step of a route once the session is known.
Entry(route) ==
  CASE route = "begin" -> "store" [] route = "finish" -> "verify"
    [] route = "list" -> "answer" [] route = "backup" -> "owned"

\* The browser lets this client's requests carry and set the sid cookie.
HasCookies(c) == Page[c].scheme # "chrome-extension" \/ CrossSite(env)

-----------------------------------------------------------------------------
Init ==
  /\ env \in Deployments
  /\ now = StartTime
  /\ jar = None
  /\ session = [u \in Users |-> 0]
  /\ challenges = {}
  /\ issued = {}
  /\ owner = None
  /\ intents = 0
  /\ responses = {}
  /\ handler = [h \in Handlers |-> Idle]
  /\ sent = 0
  /\ seen = None
  /\ split = FALSE
  /\ raced = FALSE

-----------------------------------------------------------------------------
\* The cookie a request of a client carries now.
Carried(c) == IF HasCookies(c) /\ jar # None /\ jar.until > now THEN jar.user ELSE None

(* A client sends a request; a finish request posts one of the responses   *)
(* its authenticator has signed.  Requests in flight together are shared.  *)
Send(h, c, route, request, response) ==
  /\ ~Busy(h)
  /\ sent < MaxRequests
  /\ sent' = sent + 1
  /\ IF route = "finish" THEN response \in responses /\ response.client = c
     ELSE response = None
  /\ LET together == {g \in Handlers : Busy(g)}
     IN  handler' = [g \in Handlers |->
           IF g = h
           THEN [pc |-> "read", route |-> route, client |-> c, request |-> request,
                 response |-> response, sid |-> Carried(c), since |-> now, now |-> now,
                 user |-> None, row |-> None, shared |-> together # {}]
           ELSE IF g \in together THEN [handler[g] EXCEPT !.shared = TRUE]
           ELSE handler[g]]
  /\ UNCHANGED <<env, now, tables, browser, split, raced>>

\* getOrCreateSession: the clock is read, then the row the cookie names.
ReadSession(h) ==
  /\ handler[h].pc = "read"
  /\ LET live == handler[h].sid # None /\ session[handler[h].sid] > now
     IN  handler' = [handler EXCEPT ![h].pc = IF live THEN "touch" ELSE "create",
                                    ![h].now = now]
  /\ UNCHANGED <<env, now, tables, browser, sent, split, raced>>

Resolved(h, u) ==
  handler' = [handler EXCEPT ![h].pc = Entry(handler[h].route), ![h].user = u]

\* Variant: the cookie is renewed and the row is not.
TouchSession_CookieOnly(h) ==
  /\ handler[h].pc = "touch"
  /\ Resolved(h, handler[h].sid)
  /\ UNCHANGED <<env, now, tables, browser, sent, split, raced>>

\* The row's life is counted again from the clock that was read.
TouchSession(h) ==
  /\ handler[h].pc = "touch"
  /\ session' = [session EXCEPT ![handler[h].sid] = handler[h].now + SessionTTL]
  /\ Resolved(h, handler[h].sid)
  /\ UNCHANGED <<env, now, challenges, issued, owner, intents, browser, sent, split, raced>>

\* A new user with a new session, in one transaction.
CreateSession(h) ==
  /\ handler[h].pc = "create"
  /\ \E u \in Users :
       /\ session[u] = 0
       /\ session' = [session EXCEPT ![u] = handler[h].now + SessionTTL]
       /\ Resolved(h, u)
  /\ split' = (split \/ handler[h].shared)
  /\ UNCHANGED <<env, now, challenges, issued, owner, intents, browser, sent, raced>>

-----------------------------------------------------------------------------
\* registration/begin: refuse, or store a challenge with its origin and RP ID.
StoreChallenge(h) ==
  /\ handler[h].pc = "store"
  /\ IF BeginAccepts(env, handler[h].request)
     THEN \E c \in Challenges \ issued :
            LET context == Context(env, handler[h].request)
                row == [id |-> c, user |-> handler[h].user, rpId |-> context.rpId,
                        origin |-> context.origin,
                        createdAt |-> now, expiresAt |-> now + ChallengeTTL]
            IN  /\ issued' = issued \cup {c}
                /\ challenges' = challenges \cup {row}
                /\ handler' = [handler EXCEPT ![h].pc = "answer", ![h].row = row]
     ELSE Goto(h, "answer") /\ UNCHANGED <<issued, challenges>>
  /\ UNCHANGED <<env, now, session, owner, intents, browser, sent, split, raced>>

\* findFirst ... orderBy createdAt desc: one of the youngest rows of the user.
Latest(u) == {r \in challenges : /\ r.user = u
                                 /\ \A q \in challenges :
                                      q.user = u => q.createdAt <= r.createdAt}

\* The row is live and the response passes the verification against it.
Accepts(row, request, response) ==
  /\ row.expiresAt > now
  /\ row.id = response.challenge
  /\ Verified(env, row, request, Page[response.client], response.rpId)

\* registration/finish: the latest row of this user, its expiry, the response.
Verify(h) ==
  /\ handler[h].pc = "verify"
  /\ \/ /\ Latest(handler[h].user) = {}
        /\ Goto(h, "answer")
     \/ \E row \in Latest(handler[h].user) :
          IF Accepts(row, handler[h].request, handler[h].response)
          THEN handler' = [handler EXCEPT ![h].pc = "spend", ![h].row = row]
          ELSE Goto(h, "answer")
  /\ UNCHANGED <<env, now, tables, browser, sent, split, raced>>

\* The account row is written for this user and the challenge row is deleted.
Spend(h) ==
  /\ handler[h].pc = "spend"
  /\ owner' = handler[h].user
  /\ challenges' = challenges \ {handler[h].row}
  /\ Goto(h, "answer")
  /\ UNCHANGED <<env, now, session, issued, intents, browser, sent, split, raced>>

-----------------------------------------------------------------------------
\* recovery/backup-passkey: an account of another user is answered with 404.
CheckOwned(h) ==
  /\ handler[h].pc = "owned"
  /\ Goto(h, IF owner = handler[h].user THEN "find" ELSE "answer")
  /\ UNCHANGED <<env, now, tables, browser, sent, split, raced>>

\* Variant: credentialId = NULL matches no row in SQL.
FindIntent_NullMatchesNothing(h) ==
  /\ handler[h].pc = "find"
  /\ Goto(h, "insert")
  /\ raced' = (raced \/ \E g \in Handlers : handler[g].pc = "insert")
  /\ UNCHANGED <<env, now, tables, browser, sent, split>>

\* Look for the intent row; the write is another await.
FindIntent(h) ==
  /\ handler[h].pc = "find"
  /\ Goto(h, IF intents > 0 THEN "update" ELSE "insert")
  /\ raced' = (raced \/ (intents = 0 /\ \E g \in Handlers : handler[g].pc = "insert"))
  /\ UNCHANGED <<env, now, tables, browser, sent, split>>

\* The row that was found gets the new label and time.
UpdateIntent(h) ==
  /\ handler[h].pc = "update"
  /\ Goto(h, "answer")
  /\ UNCHANGED <<env, now, tables, browser, sent, split, raced>>

InsertIntent(h) ==
  /\ handler[h].pc = "insert"
  /\ intents' = intents + 1
  /\ Goto(h, "answer")
  /\ UNCHANGED <<env, now, session, challenges, issued, owner, browser, sent, split, raced>>

-----------------------------------------------------------------------------
\* The reply's Set-Cookie reaches the browser, if the browser takes it.
StoreCookie(h) ==
  IF HasCookies(handler[h].client)
  THEN /\ jar' = [user |-> handler[h].user, until |-> now + SessionTTL]
       /\ seen' = now
  ELSE UNCHANGED <<jar, seen>>

\* A page signs for the RP ID it was offered, an extension for its own id.
Signs(c, row) ==
  IF Page[c].scheme = "chrome-extension" THEN Candidates(Page[c].name) ELSE {row.rpId}

(* The reply arrives; the authenticator answers the challenge of a begin   *)
(* request that was accepted.                                              *)
Answer(h) ==
  /\ handler[h].pc = "answer"
  /\ StoreCookie(h)
  /\ IF handler[h].route = "begin" /\ handler[h].row # None
     THEN \E rpId \in Signs(handler[h].client, handler[h].row) :
            responses' = responses \cup {[client |-> handler[h].client,
                                          challenge |-> handler[h].row.id, rpId |-> rpId]}
     ELSE UNCHANGED responses
  /\ handler' = [handler EXCEPT ![h] = Idle]
  /\ UNCHANGED <<env, now, tables, sent, split, raced>>

(* An await throws, and the 500 carries the cookie once the session is     *)
(* known; or the process dies or the reply is lost.                        *)
Fail(h) ==
  /\ Busy(h)
  /\ \/ handler[h].user # None /\ StoreCookie(h)
     \/ UNCHANGED <<jar, seen>>
  /\ handler' = [handler EXCEPT ![h] = Idle]
  /\ UNCHANGED <<env, now, tables, responses, sent, split, raced>>

-----------------------------------------------------------------------------
\* A login in another browser attaches the passkey and its account to its user.
MoveAccount ==
  /\ owner # None
  /\ \E u \in Users : session[u] > 0 /\ u # owner /\ owner' = u
  /\ UNCHANGED <<env, now, session, challenges, issued, intents, browser, handler, sent,
                 split, raced>>

Tick ==
  /\ now < MaxTime
  /\ \A h \in Handlers : Busy(h) => now < handler[h].since + Latency
  /\ now' = now + 1
  /\ UNCHANGED <<env, tables, browser, handler, sent, split, raced>>

-----------------------------------------------------------------------------
Step(h) ==
  \/ ReadSession(h) \/ TouchSession(h) \/ CreateSession(h)
  \/ StoreChallenge(h) \/ Verify(h) \/ Spend(h)
  \/ CheckOwned(h) \/ FindIntent(h) \/ UpdateIntent(h) \/ InsertIntent(h)
  \/ Answer(h)

Next ==
  \/ \E h \in Handlers, c \in Clients, route \in Routes :
       \E request \in Envelopes[c][route], response \in responses \cup {None} :
         Send(h, c, route, request, response)
  \/ \E h \in Handlers : Step(h) \/ Fail(h)
  \/ MoveAccount
  \/ Tick

Spec == Init /\ [][Next]_vars

-----------------------------------------------------------------------------
\* The shape of every variable and of the tables' rows.
TypeOK ==
  /\ env \in Deployment
  /\ now \in Nat
  /\ jar \in Cookie \cup {None}
  /\ session \in [Users -> Nat]
  /\ challenges \subseteq ChallengeRow
  /\ issued \subseteq Challenges
  /\ owner \in Users \cup {None}
  /\ intents \in Nat
  /\ responses \subseteq Response
  /\ handler \in [Handlers -> Running \cup {Idle}]
  /\ sent \in Nat
  /\ seen \in Nat \cup {None}
  /\ split \in BOOLEAN
  /\ raced \in BOOLEAN

\* A page the deployment is configured for: a listed extension or its own origin.
Configured(c, request) ==
  IF Page[c].scheme = "chrome-extension" THEN Page[c].name \in env.allowed
  ELSE Page[c] = OriginOfHost(env, request)

\* A response to the newest challenge of a user, in time, with fields that fit.
Honest(h) ==
  /\ Configured(handler[h].client, handler[h].request)
  /\ FinishHints(handler[h].request, Page[handler[h].client])
       = ExtensionOf(Page[handler[h].client])
  /\ \E row \in challenges :
       /\ row.id = handler[h].response.challenge
       /\ row.expiresAt > now
       /\ \A q \in challenges : q.user = row.user /\ q # row => q.createdAt < row.createdAt

(* An honest ceremony is accepted: finish resolves the session that begin  *)
(* has resolved and takes the response, for a page and for an extension,   *)
(* whatever RP ID begin has stored, unless the browser's requests made two *)
(* users by overlapping (cookie-cross-site 1, webauthn-server 118,         *)
(* session 45).                                                            *)
HonestCeremonyAccepted ==
  [][\A h \in Handlers :
       Verify(h) /\ ~split /\ Honest(h) => handler'[h].pc = "spend"]_vars

(* A browser that keeps coming back keeps its user: a new one is made only *)
(* after a silence of a session's life, less the time by which overlapping *)
(* requests can set the expiry back (session 33 writes a clock read at 24).*)
ActiveIsKept ==
  [][\A h \in Handlers :
       CreateSession(h) /\ HasCookies(handler[h].client) /\ ~split' /\ seen # None
         => now + 2 * Latency >= seen + SessionTTL]_vars

(* An account has a second intent row only when two backup requests were   *)
(* between their look-up and their write at once (backup-passkey 37): no   *)
(* failure, repetition or change of owner makes one.                       *)
DuplicatesRaced == intents > 1 => raced

=============================================================================
