------------------------- MODULE ClientSessions_proofs -------------------------
(***************************************************************************)
(* Proofs about the sessions of a browser and the routes behind them, for  *)
(* any pages, requests, deployments, users and overlapping handlers.       *)
(***************************************************************************)
EXTENDS ClientSessions, TLAPS

-----------------------------------------------------------------------------
(* A response that an allowed page has signed for its own id, or the       *)
(* page's own origin for the RP ID of the row, is verified (the comments   *)
(* at webauthn-server 118 and 272).                                        *)
LEMMA ExtensionVerifies ==
  ASSUME NEW d, NEW row, NEW request, NEW e \in ExtensionIds,
         e \in d.allowed, FinishHints(request, ExtensionUrl(e)) = {e},
         NEW rpId \in Candidates(e)
  PROVE  Verified(d, row, request, ExtensionUrl(e), rpId)
BY DEF Verified, FinishAccepts, ExpectedRpIds, ExtensionUrl

LEMMA PageVerifies ==
  ASSUME NEW d, NEW row, NEW request, FinishHints(request, row.origin) = {}
  PROVE  Verified(d, row, request, row.origin, row.rpId)
BY DEF Verified, FinishAccepts, ExpectedRpIds

(* Finish goes by the body, the header and the signed origin, begin also   *)
(* by Origin and Referer, which finish does not read (webauthn-server 145  *)
(* and 216).  So a request that finish takes can be one that begin refuses *)
(* as conflicting, and for no other reason than that: without these two    *)
(* headers begin takes it, and with them it refuses it only if they name   *)
(* an extension that did not sign.                                         *)
THEOREM FinishIsBeginWithoutOrigin ==
  ASSUME NEW d, NEW row, NEW request \in Request, NEW signed, NEW rpId,
         Verified(d, row, request, signed, rpId)
  PROVE  /\ BeginAccepts(d, [request EXCEPT !.origin = None, !.referer = None])
         /\ ~BeginAccepts(d, request) => \E e \in OriginHint(request) : e \notin ExtensionOf(signed)
<1>1. ASSUME NEW r, r.body = request.body, r.header = request.header,
             OriginHint(r) \subseteq ExtensionOf(signed)
      PROVE  BeginAccepts(d, r)
  <2>1. HeaderHint(r) = HeaderHint(request)
    BY <1>1 DEF HeaderHint
  <2>2. CASE FinishHints(request, signed) = {}
    BY <1>1, <2>1, <2>2 DEF FinishHints, BeginAccepts, BeginHints
  <2>3. CASE \E e \in ExtensionIds \cap d.allowed : FinishHints(request, signed) = {e}
    <3>1. PICK e \in ExtensionIds \cap d.allowed : FinishHints(request, signed) = {e}
      BY <2>3
    <3>2. BeginHints(r) \subseteq {e}
      BY <1>1, <2>1, <3>1 DEF FinishHints, BeginHints
    <3> QED
      BY <3>1, <3>2 DEF BeginAccepts
  <2> QED
    BY <2>2, <2>3 DEF Verified, FinishAccepts
<1> DEFINE bare == [request EXCEPT !.origin = None, !.referer = None]
<1>2. /\ bare.body = request.body /\ bare.header = request.header
      /\ bare.origin = None /\ bare.referer = None
  BY DEF Request
<1>3. OriginHint(bare) = {}
  BY <1>2 DEF OriginHint, ExtensionOf
<1>4. BeginAccepts(d, bare)
  <2> HIDE DEF bare
  <2> QED
    BY <1>1, <1>2, <1>3
<1>5. ~BeginAccepts(d, request) => \E e \in OriginHint(request) : e \notin ExtensionOf(signed)
  BY <1>1
<1> QED
  BY <1>4, <1>5

(* For a challenge that begin has stored, finish takes only what was        *)
(* signed at the origin and for the RP ID that begin has offered a page,   *)
(* or by an extension of the allow list for one of its two ids, whatever   *)
(* the request's fields say (webauthn-server 101 and 133).                 *)
THEOREM VerifiedIsOffered ==
  ASSUME NEW d \in Deployment, NEW begin \in Request, BeginAccepts(d, begin),
         NEW row, row.rpId = Context(d, begin).rpId, row.origin = Context(d, begin).origin,
         NEW request, NEW signed \in Url, signed # None, NEW rpId,
         Verified(d, row, request, signed, rpId)
  PROVE  \/ /\ BeginHints(begin) = {}
            /\ signed = OriginOfHost(d, begin) /\ rpId = RpIdOfHost(d, begin)
         \/ \E e \in ExtensionIds \cap d.allowed :
              signed = ExtensionUrl(e) /\ rpId \in Candidates(e)
<1>1. CASE \E e \in ExtensionIds \cap d.allowed :
             FinishHints(request, signed) = {e} /\ signed = ExtensionUrl(e)
  <2>1. PICK e \in ExtensionIds \cap d.allowed :
          FinishHints(request, signed) = {e} /\ signed = ExtensionUrl(e)
    BY <1>1
  <2>2. rpId \in Candidates(e)
    BY <2>1 DEF Verified, ExpectedRpIds
  <2> QED
    BY <2>1, <2>2
<1>2. CASE FinishHints(request, signed) = {} /\ signed = row.origin
  <2>1. ExtensionOf(row.origin) = {} /\ ExtensionOf(signed) = {}
    BY <1>2 DEF FinishHints
  <2>2. BeginHints(begin) = {}
    <3> SUFFICES ASSUME BeginHints(begin) # {}
                 PROVE  FALSE
      OBVIOUS
    <3> DEFINE x == CHOOSE e \in ExtensionIds : e \in BeginHints(begin)
    <3>1. \E e \in ExtensionIds : e \in BeginHints(begin)
      BY DEF BeginAccepts
    <3>2. x \in ExtensionIds
      BY <3>1
    <3>3. row.origin = ExtensionUrl(x)
      BY DEF Context
    <3> HIDE DEF x
    <3>4. x \in ExtensionOf(signed)
      BY <1>2, <3>2, <3>3 DEF ExtensionOf, ExtensionUrl
    <3> QED
      BY <2>1, <3>4
  <2>3. row.rpId = RpIdOfHost(d, begin) /\ row.origin = OriginOfHost(d, begin)
    BY <2>2 DEF Context
  <2>4. row.rpId \notin ExtensionIds
    BY <2>3, OriginAssumption DEF RpIdOfHost, Deployment, Request, Host
  <2>5. ExpectedRpIds(row, request, signed) = {row.rpId}
    BY <1>2, <2>1, <2>4 DEF ExpectedRpIds
  <2> QED
    BY <1>2, <2>2, <2>3, <2>5 DEF Verified
<1> QED
  BY <1>1, <1>2 DEF Verified, FinishAccepts

-----------------------------------------------------------------------------
\* The RP ID and the origin that begin offers are of their kinds.
LEMMA ContextTyped ==
  ASSUME NEW d \in Deployment, NEW request \in Request, BeginAccepts(d, request)
  PROVE  /\ Context(d, request).rpId \in RpIds
         /\ Context(d, request).origin \in Url
<1>1. CASE BeginHints(request) = {}
  <2>1. RpIdOfHost(d, request) \in RpIds
    BY DEF RpIdOfHost, RpIds, Deployment, Request, Host
  <2>2. OriginOfHost(d, request) \in Url
    <3>1. d.origin \in Url \cup {None} /\ request.proto \in {"http", "https", None}
      BY DEF Deployment, Request
    <3>2. request.host.name \in Names /\ request.host.port \in Ports
      BY DEF Request, Host
    <3>3. (IF request.proto # None THEN request.proto ELSE "http") \in Schemes
      BY <3>1 DEF Schemes
    <3>4. [scheme |-> IF request.proto # None THEN request.proto ELSE "http",
           name |-> request.host.name, port |-> request.host.port] \in Url
      BY <3>2, <3>3 DEF Url
    <3>5. CASE d.origin # None
      BY <3>1, <3>5 DEF OriginOfHost
    <3>6. CASE d.origin = None
      BY <3>4, <3>6 DEF OriginOfHost
    <3> QED
      BY <3>5, <3>6
  <2> QED
    BY <1>1, <2>1, <2>2 DEF Context
<1>2. CASE BeginHints(request) # {}
  <2> DEFINE e == CHOOSE e \in ExtensionIds : e \in BeginHints(request)
  <2>1. \E x \in ExtensionIds : x \in BeginHints(request)
    BY <1>2 DEF BeginAccepts
  <2>2. e \in ExtensionIds
    BY <2>1
  <2>3. Context(d, request) = [rpId |-> e, origin |-> ExtensionUrl(e)]
    BY <1>2 DEF Context
  <2> HIDE DEF e
  <2>4. ExtensionUrl(e) \in Url
    BY <2>2, OriginAssumption DEF ExtensionUrl, Url, Schemes
  <2> QED
    BY <2>2, <2>3, <2>4 DEF RpIds
<1> QED
  BY <1>1, <1>2

\* A handler that is not idle has all the fields of a running one.
LEMMA BusyIsRunning ==
  ASSUME TypeOK, NEW h \in Handlers, Busy(h)
  PROVE  handler[h] \in Running
BY DEF TypeOK, Busy, Idle

\* A step that only moves a handler's program counter keeps the handlers' shape.
LEMMA GotoTyped ==
  ASSUME TypeOK, NEW h \in Handlers, Busy(h), NEW pc \in SessionPc \cup RoutePc, Goto(h, pc)
  PROVE  handler' \in [Handlers -> Running \cup {Idle}]
<1>1. handler[h] \in Running
  BY BusyIsRunning
<1>2. [handler[h] EXCEPT !.pc = pc] \in Running
  BY <1>1 DEF Running
<1> QED
  BY <1>1, <1>2 DEF TypeOK, Goto

LEMMA ResolvedTyped ==
  ASSUME TypeOK, NEW h \in Handlers, Busy(h), NEW u \in Users, Resolved(h, u)
  PROVE  handler' \in [Handlers -> Running \cup {Idle}]
<1>1. handler[h] \in Running
  BY BusyIsRunning
<1>2. Entry(handler[h].route) \in RoutePc
  BY <1>1 DEF Running, Routes, Entry, RoutePc
<1>3. [handler[h] EXCEPT !.pc = Entry(handler[h].route), !.user = u] \in Running
  BY <1>1, <1>2 DEF Running
<1> QED
  BY <1>1, <1>3 DEF TypeOK, Resolved

\* A Set-Cookie header names the user of the request.
LEMMA CookieTyped ==
  ASSUME TypeOK, NEW h \in Handlers, Busy(h), handler[h].user # None, StoreCookie(h)
  PROVE  jar' \in Cookie \cup {None} /\ seen' \in Nat \cup {None}
<1>1. handler[h].user \in Users
  BY BusyIsRunning DEF Running
<1>2. now + SessionTTL \in Nat
  BY TimeAssumption DEF TypeOK
<1> QED
  BY <1>1, <1>2 DEF TypeOK, StoreCookie, Cookie

-----------------------------------------------------------------------------
(* A route's steps run for a user, the touch for the cookie's: what the    *)
(* types of the rows they write rest on.                                   *)
KnownInv(h) ==
  /\ handler[h].pc \in RoutePc => handler[h].user # None
  /\ handler[h].pc = "touch" => handler[h].sid # None

TypeInv == TypeOK /\ \A h \in Handlers : KnownInv(h)

\* The other handlers know what they knew; the one that moved knows enough.
LEMMA KnownStep ==
  ASSUME TypeInv, NEW h \in Handlers,
         \A g \in Handlers \ {h} : handler'[g] = handler[g],
         KnownInv(h)'
  PROVE  \A g \in Handlers : KnownInv(g)'
BY DEF TypeInv, KnownInv

\* The steps before and in getOrCreateSession.
LEMMA SessionTyped ==
  ASSUME TypeInv, NEW h \in Handlers,
         ReadSession(h) \/ TouchSession(h) \/ CreateSession(h)
  PROVE  TypeInv'
<1>1. Busy(h) /\ handler[h] \in Running /\ KnownInv(h)
  BY BusyIsRunning DEF ReadSession, TouchSession, CreateSession, Busy, TypeInv
<1>2. CASE ReadSession(h)
  <2>1. \E pc \in {"touch", "create"} :
          /\ pc = "touch" => handler[h].sid # None
          /\ handler' = [handler EXCEPT ![h].pc = pc, ![h].now = now]
    BY <1>2 DEF ReadSession
  <2>2. PICK pc \in {"touch", "create"} :
          /\ pc = "touch" => handler[h].sid # None
          /\ handler' = [handler EXCEPT ![h].pc = pc, ![h].now = now]
    BY <2>1
  <2>3. [handler[h] EXCEPT !.pc = pc, !.now = now] \in Running
    BY <1>1 DEF Running, SessionPc, TypeInv, TypeOK
  <2>4. KnownInv(h)'
    BY <1>1, <2>2 DEF KnownInv, TypeInv, TypeOK, Running, RoutePc
  <2> QED
    BY <1>2, <2>2, <2>3, <2>4, KnownStep DEF ReadSession, TypeInv, TypeOK, tables, browser
<1>3. CASE TouchSession(h)
  <2>1. handler[h].sid \in Users
    BY <1>1, <1>3 DEF TouchSession, KnownInv, Running
  <2>2. handler[h].now + SessionTTL \in Nat
    BY <1>1, TimeAssumption DEF Running
  <2>3. handler' \in [Handlers -> Running \cup {Idle}]
    BY <1>1, <1>3, <2>1, ResolvedTyped DEF TouchSession, TypeInv
  <2>4. KnownInv(h)'
    <3>1. Entry(handler[h].route) # "touch"
      BY <1>1 DEF Running, Routes, Entry
    <3> QED
      BY <1>1, <1>3, <2>1, <3>1, ClientAssumption
      DEF TouchSession, Resolved, KnownInv, TypeInv, TypeOK, Running
  <2>5. \A g \in Handlers \ {h} : handler'[g] = handler[g]
    BY <1>3 DEF TouchSession, Resolved, TypeInv, TypeOK
  <2> QED
    BY <1>3, <2>1, <2>2, <2>3, <2>4, <2>5, KnownStep DEF TouchSession, TypeInv, TypeOK, browser
<1>4. CASE CreateSession(h)
  <2>1. PICK u \in Users : /\ session' = [session EXCEPT ![u] = handler[h].now + SessionTTL]
                           /\ Resolved(h, u)
    BY <1>4 DEF CreateSession
  <2>2. handler[h].now + SessionTTL \in Nat
    BY <1>1, TimeAssumption DEF Running
  <2>3. handler' \in [Handlers -> Running \cup {Idle}]
    BY <1>1, <2>1, ResolvedTyped DEF TypeInv
  <2>4. KnownInv(h)'
    <3>1. Entry(handler[h].route) # "touch"
      BY <1>1 DEF Running, Routes, Entry
    <3> QED
      BY <1>1, <2>1, <3>1, ClientAssumption DEF Resolved, KnownInv, TypeInv, TypeOK, Running
  <2>5. \A g \in Handlers \ {h} : handler'[g] = handler[g]
    BY <2>1 DEF Resolved, TypeInv, TypeOK
  <2>6. split' \in BOOLEAN
    BY <1>4 DEF CreateSession
  <2> QED
    BY <1>4, <2>1, <2>2, <2>3, <2>4, <2>5, <2>6, KnownStep
    DEF CreateSession, TypeInv, TypeOK, browser
<1> QED
  BY <1>2, <1>3, <1>4

\* A request is taken in.
LEMMA SendTyped ==
  ASSUME TypeInv, NEW h \in Handlers, NEW c \in Clients, NEW route \in Routes,
         NEW request \in Envelopes[c][route], NEW response \in responses \cup {None},
         Send(h, c, route, request, response)
  PROVE  TypeInv'
<1>1. request \in Request
  BY ClientAssumption
<1>2. Carried(c) \in Users \cup {None}
  BY DEF Carried, TypeInv, TypeOK, Cookie
<1> DEFINE together == {g \in Handlers : Busy(g)}
           new == [pc |-> "read", route |-> route, client |-> c, request |-> request,
                   response |-> response, sid |-> Carried(c), since |-> now, now |-> now,
                   user |-> None, row |-> None, shared |-> together # {}]
<1>3. new \in Running
  BY <1>1, <1>2 DEF Running, SessionPc, TypeInv, TypeOK
<1> DEFINE after == [g \in Handlers |-> IF g = h THEN new
                                        ELSE IF g \in together THEN [handler[g] EXCEPT !.shared = TRUE]
                                        ELSE handler[g]]
<1>4. handler' = after
  BY DEF Send
<1>5. \A g \in together : handler[g] \in Running
  BY BusyIsRunning DEF TypeInv
<1>6. \A g \in together : [handler[g] EXCEPT !.shared = TRUE] \in Running
  BY <1>5 DEF Running
<1>7. handler' \in [Handlers -> Running \cup {Idle}]
  <2>1. \A g \in Handlers : after[g] \in Running \cup {Idle}
    BY <1>3, <1>6 DEF TypeInv, TypeOK
  <2>2. after \in [Handlers -> Running \cup {Idle}]
    BY <2>1
  <2> QED
    BY <1>4, <2>2
<1>8. \A g \in Handlers : KnownInv(g)'
  <2>1. KnownInv(h)'
    BY <1>4 DEF KnownInv, RoutePc
  <2>2. \A g \in together \ {h} : KnownInv(g)'
    BY <1>4, <1>5 DEF KnownInv, TypeInv, Running
  <2>3. \A g \in Handlers \ (together \cup {h}) : KnownInv(g)'
    BY <1>4 DEF KnownInv, TypeInv
  <2> QED
    BY <2>1, <2>2, <2>3
<1> QED
  BY <1>7, <1>8 DEF Send, TypeInv, TypeOK, tables, browser

\* The routes' own steps.
LEMMA RouteTyped ==
  ASSUME TypeInv, NEW h \in Handlers,
         \/ StoreChallenge(h) \/ Verify(h) \/ Spend(h) \/ CheckOwned(h)
         \/ FindIntent(h) \/ UpdateIntent(h) \/ InsertIntent(h)
  PROVE  TypeInv'
<1> DEFINE moved == \E pc \in RoutePc, row \in ChallengeRow \cup {None} :
                      handler' = [handler EXCEPT ![h].pc = pc, ![h].row = row]
<1>1. Busy(h) /\ handler[h] \in Running /\ handler[h].user \in Users
  BY BusyIsRunning
  DEF StoreChallenge, Verify, Spend, CheckOwned, FindIntent, UpdateIntent, InsertIntent, Busy,
      TypeInv, KnownInv, Running, RoutePc
<1>2. ASSUME NEW pc \in RoutePc, Goto(h, pc)
      PROVE  moved
  <2>1. handler' = [handler EXCEPT ![h].pc = pc, ![h].row = handler[h].row]
    BY <1>1, <1>2 DEF Goto, Running, TypeInv, TypeOK
  <2> QED
    BY <1>1, <2>1 DEF Running
<1>3. ASSUME moved
      PROVE  /\ handler' \in [Handlers -> Running \cup {Idle}]
             /\ \A g \in Handlers : KnownInv(g)'
  <2>1. PICK pc \in RoutePc, row \in ChallengeRow \cup {None} :
          handler' = [handler EXCEPT ![h].pc = pc, ![h].row = row]
    BY <1>3
  <2>2. [handler[h] EXCEPT !.pc = pc, !.row = row] \in Running
    BY <1>1 DEF Running
  <2>3. KnownInv(h)'
    BY <1>1, <2>1, ClientAssumption DEF KnownInv, TypeInv, TypeOK, Running, RoutePc
  <2> QED
    BY <2>1, <2>2, <2>3, KnownStep DEF TypeInv, TypeOK
<1>4. CASE StoreChallenge(h)
  <2>1. CASE BeginAccepts(env, handler[h].request)
    <3> DEFINE context == Context(env, handler[h].request)
    <3>1. context.rpId \in RpIds /\ context.origin \in Url
      BY <1>1, <2>1, ContextTyped DEF Running, TypeInv, TypeOK
    <3> HIDE DEF context
    <3>2. PICK c \in Challenges \ issued :
            \E row : /\ row = [id |-> c, user |-> handler[h].user, rpId |-> context.rpId,
                                origin |-> context.origin,
                                createdAt |-> now, expiresAt |-> now + ChallengeTTL]
                     /\ issued' = issued \cup {c}
                     /\ challenges' = challenges \cup {row}
                     /\ handler' = [handler EXCEPT ![h].pc = "answer", ![h].row = row]
      BY <1>4, <2>1 DEF StoreChallenge, context
    <3>3. PICK row : /\ row = [id |-> c, user |-> handler[h].user, rpId |-> context.rpId,
                               origin |-> context.origin,
                               createdAt |-> now, expiresAt |-> now + ChallengeTTL]
                    /\ issued' = issued \cup {c}
                    /\ challenges' = challenges \cup {row}
                    /\ handler' = [handler EXCEPT ![h].pc = "answer", ![h].row = row]
      BY <3>2
    <3>4. row \in ChallengeRow
      BY <1>1, <3>1, <3>3, TimeAssumption DEF ChallengeRow, TypeInv, TypeOK
    <3>5. moved
      BY <3>3, <3>4 DEF RoutePc
    <3> QED
      BY <1>3, <1>4, <3>3, <3>4, <3>5 DEF StoreChallenge, TypeInv, TypeOK, browser
  <2>2. CASE ~BeginAccepts(env, handler[h].request)
    BY <1>2, <1>3, <1>4, <2>2 DEF StoreChallenge, RoutePc, TypeInv, TypeOK, browser
  <2> QED
    BY <2>1, <2>2
<1>5. CASE Verify(h)
  <2>1. moved
    <3>1. CASE Goto(h, "answer")
      BY <1>2, <3>1 DEF RoutePc
    <3>2. CASE \E row \in Latest(handler[h].user) :
                 handler' = [handler EXCEPT ![h].pc = "spend", ![h].row = row]
      BY <3>2 DEF Latest, TypeInv, TypeOK, RoutePc
    <3> QED
      BY <1>5, <3>1, <3>2 DEF Verify
  <2> QED
    BY <1>3, <1>5, <2>1 DEF Verify, TypeInv, TypeOK, tables, browser
<1>6. CASE Spend(h)
  BY <1>1, <1>2, <1>3, <1>6 DEF Spend, RoutePc, TypeInv, TypeOK, browser
<1>7. CASE CheckOwned(h) \/ UpdateIntent(h)
  BY <1>2, <1>3, <1>7 DEF CheckOwned, UpdateIntent, RoutePc, TypeInv, TypeOK, tables, browser
<1>8. CASE FindIntent(h)
  BY <1>2, <1>3, <1>8 DEF FindIntent, RoutePc, TypeInv, TypeOK, tables, browser
<1>9. CASE InsertIntent(h)
  <2>1. Goto(h, "answer") /\ intents' \in Nat
    BY <1>9 DEF InsertIntent, TypeInv, TypeOK
  <2>2. moved
    BY <1>2, <2>1 DEF RoutePc
  <2> QED
    BY <1>3, <1>9, <2>1, <2>2 DEF InsertIntent, TypeInv, TypeOK, browser
<1> QED
  BY <1>4, <1>5, <1>6, <1>7, <1>8, <1>9

\* The reply, or its loss.
LEMMA EndTyped ==
  ASSUME TypeInv, NEW h \in Handlers, Answer(h) \/ Fail(h)
  PROVE  TypeInv'
<1>1. Busy(h) /\ handler[h] \in Running
  BY BusyIsRunning DEF Answer, Fail, Busy, TypeInv
<1>2. handler' = [handler EXCEPT ![h] = Idle]
  BY DEF Answer, Fail
<1>3. handler' \in [Handlers -> Running \cup {Idle}] /\ \A g \in Handlers : KnownInv(g)'
  BY <1>2 DEF TypeInv, TypeOK, KnownInv, Idle, RoutePc
<1>4. jar' \in Cookie \cup {None} /\ seen' \in Nat \cup {None}
  <2>1. CASE UNCHANGED <<jar, seen>>
    BY <2>1 DEF TypeInv, TypeOK
  <2>2. CASE handler[h].user # None /\ StoreCookie(h)
    BY <1>1, <2>2, CookieTyped DEF TypeInv
  <2>3. CASE Answer(h)
    <3>1. handler[h].user # None
      BY <2>3 DEF Answer, TypeInv, KnownInv, RoutePc
    <3> QED
      BY <1>1, <2>3, <3>1, CookieTyped DEF Answer, TypeInv
  <2> QED
    BY <2>1, <2>2, <2>3 DEF Fail
<1>5. responses' \subseteq Response
  <2>1. CASE UNCHANGED responses
    BY <2>1 DEF TypeInv, TypeOK
  <2>2. CASE handler[h].row # None /\ ~UNCHANGED responses /\ Answer(h)
    <3>1. PICK rpId \in Signs(handler[h].client, handler[h].row) :
            responses' = responses \cup {[client |-> handler[h].client,
                                          challenge |-> handler[h].row.id, rpId |-> rpId]}
      BY <2>2 DEF Answer
    <3>2. handler[h].client \in Clients /\ handler[h].row \in ChallengeRow
      BY <1>1, <2>2 DEF Running
    <3>3. rpId \in RpIds
      <4>1. Page[handler[h].client] \in Url
        BY <3>2, ClientAssumption
      <4>2. ExtensionUrl(Page[handler[h].client].name) \in Url
        BY <4>1, OriginAssumption DEF Url, ExtensionUrl, Schemes
      <4> QED
        BY <3>1, <3>2, <4>1, <4>2 DEF Signs, Candidates, RpIds, Url, ChallengeRow
    <3> QED
      BY <3>1, <3>2, <3>3 DEF Response, ChallengeRow, TypeInv, TypeOK
  <2> QED
    BY <2>1, <2>2 DEF Answer, Fail
<1> QED
  BY <1>3, <1>4, <1>5 DEF Answer, Fail, TypeInv, TypeOK, tables

\* Every step keeps the shape of every variable.
LEMMA NextTyped == TypeInv /\ [Next]_vars => TypeInv'
<1> SUFFICES ASSUME TypeInv, [Next]_vars
             PROVE  TypeInv'
  OBVIOUS
<1>1. CASE MoveAccount
  BY <1>1 DEF MoveAccount, TypeInv, TypeOK, KnownInv, browser
<1>2. CASE Tick
  BY <1>2 DEF Tick, TypeInv, TypeOK, KnownInv, tables, browser
<1>3. CASE UNCHANGED vars
  BY <1>3 DEF vars, TypeInv, TypeOK, KnownInv, tables, browser
<1> QED
  BY <1>1, <1>2, <1>3, SendTyped, SessionTyped, RouteTyped, EndTyped DEF Next, Step

LEMMA InitTyped == Init => TypeInv
<1> SUFFICES ASSUME Init
             PROVE  TypeInv
  OBVIOUS
<1>1. env \in Deployment
  BY ClientAssumption DEF Init
<1>2. handler \in [Handlers -> Running \cup {Idle}] /\ \A h \in Handlers : handler[h] = Idle
  BY DEF Init
<1>3. session \in [Users -> Nat]
  BY DEF Init
<1> QED
  BY <1>1, <1>2, <1>3, TimeAssumption DEF Init, TypeInv, TypeOK, KnownInv, Idle, RoutePc

(* Every row, cookie and request keeps its shape, in particular a          *)
(* challenge row always has its user.                                      *)
THEOREM TypeCorrect == Spec => []TypeOK
<1>1. Spec => []TypeInv
  BY InitTyped, NextTyped, PTL DEF Spec
<1> QED
  BY <1>1, PTL DEF TypeInv

-----------------------------------------------------------------------------
\* As long as no two requests have found nothing at once, at most one of
\* them is about to insert, and then there is no row.
InsertInv ==
  ~raced => /\ intents \in {0, 1}
            /\ \A g, h \in Handlers :
                 handler[h].pc = "insert" =>
                   intents = 0 /\ (handler[g].pc = "insert" => g = h)

\* A step other than these two brings no handler to the insertion.
LEMMA InsertFrame ==
  ASSUME TypeInv, [Next]_vars, \A h \in Handlers : ~FindIntent(h) /\ ~InsertIntent(h)
  PROVE  /\ UNCHANGED <<intents, raced>>
         /\ \A h \in Handlers : handler'[h].pc = "insert" => handler[h].pc = "insert"
<1> USE DEF TypeInv, TypeOK
<1>1. ASSUME NEW h \in Handlers, Busy(h), NEW pc, pc # "insert", Goto(h, pc)
      PROVE  \A g \in Handlers : handler'[g].pc = "insert" => handler[g].pc = "insert"
  <2>1. handler[h] \in Running
    BY <1>1, BusyIsRunning
  <2> QED
    BY <1>1, <2>1 DEF Goto, Running
<1>2. ASSUME NEW h \in Handlers, NEW c \in Clients, NEW route \in Routes,
             NEW request \in Envelopes[c][route], NEW response \in responses \cup {None},
             Send(h, c, route, request, response)
      PROVE  \A g \in Handlers : handler'[g].pc = "insert" => handler[g].pc = "insert"
  <2>1. \A g \in Handlers : Busy(g) => handler[g] \in Running
    BY BusyIsRunning
  <2> QED
    BY <1>2, <2>1 DEF Send, Running, Busy
<1>3. ASSUME NEW h \in Handlers, ReadSession(h) \/ TouchSession(h) \/ CreateSession(h)
      PROVE  \A g \in Handlers : handler'[g].pc = "insert" => handler[g].pc = "insert"
  <2>1. handler[h] \in Running
    BY <1>3, BusyIsRunning DEF ReadSession, TouchSession, CreateSession, Busy
  <2>2. Entry(handler[h].route) # "insert"
    BY <2>1 DEF Running, Routes, Entry
  <2> QED
    BY <1>3, <2>1, <2>2 DEF ReadSession, TouchSession, CreateSession, Resolved, Running
<1>4. ASSUME NEW h \in Handlers, StoreChallenge(h) \/ Verify(h)
      PROVE  \A g \in Handlers : handler'[g].pc = "insert" => handler[g].pc = "insert"
  <2>1. Busy(h) /\ handler[h] \in Running
    BY <1>4, BusyIsRunning DEF StoreChallenge, Verify, Busy
  <2>2. \/ Goto(h, "answer")
        \/ \E row, pc : pc # "insert" /\ handler' = [handler EXCEPT ![h].pc = pc, ![h].row = row]
    BY <1>4 DEF StoreChallenge, Verify
  <2> QED
    BY <1>1, <2>1, <2>2 DEF Running
<1>5. ASSUME NEW h \in Handlers, Spend(h) \/ CheckOwned(h) \/ UpdateIntent(h)
      PROVE  \A g \in Handlers : handler'[g].pc = "insert" => handler[g].pc = "insert"
  BY <1>1, <1>5 DEF Spend, CheckOwned, UpdateIntent, Busy
<1>6. ASSUME NEW h \in Handlers, Answer(h) \/ Fail(h)
      PROVE  \A g \in Handlers : handler'[g].pc = "insert" => handler[g].pc = "insert"
  BY <1>6 DEF Answer, Fail, Idle
<1>7. UNCHANGED <<intents, raced>>
  BY DEF Next, Step, Send, ReadSession, TouchSession, CreateSession, StoreChallenge, Verify,
         Spend, CheckOwned, UpdateIntent, Answer, Fail, MoveAccount, Tick, vars, tables
<1>8. CASE UNCHANGED handler
  BY <1>7, <1>8
<1> QED
  BY <1>2, <1>3, <1>4, <1>5, <1>6, <1>7, <1>8 DEF Next, Step, MoveAccount, Tick, vars

LEMMA InsertStep ==
  ASSUME TypeInv, InsertInv, [Next]_vars
  PROVE  InsertInv'
<1> USE DEF InsertInv
<1>1. ASSUME NEW h \in Handlers, FindIntent(h)
      PROVE  InsertInv'
  <2>1. handler[h] \in Running
    BY <1>1, BusyIsRunning DEF FindIntent, Busy, TypeInv
  <2>2. \A g \in Handlers \ {h} : handler'[g] = handler[g]
    BY <1>1 DEF FindIntent, Goto, TypeInv, TypeOK
  <2>3. handler'[h].pc = IF intents > 0 THEN "update" ELSE "insert"
    BY <1>1, <2>1 DEF FindIntent, Goto, TypeInv, TypeOK, Running
  <2>4. intents' = intents /\ intents \in Nat
    BY <1>1 DEF FindIntent, tables, TypeInv, TypeOK
  <2>5. ~raced' => ~raced /\ ~(intents = 0 /\ \E g \in Handlers : handler[g].pc = "insert")
    BY <1>1 DEF FindIntent, TypeInv, TypeOK
  <2>6. ASSUME ~raced', NEW g \in Handlers, handler'[g].pc = "insert"
        PROVE  intents = 0 /\ g = h
    <3>1. CASE g = h
      BY <3>1, <2>3, <2>4, <2>6
    <3>2. CASE g # h
      BY <3>2, <2>2, <2>5, <2>6
    <3> QED
      BY <3>1, <3>2
  <2> QED
    BY <2>4, <2>5, <2>6
<1>2. ASSUME NEW h \in Handlers, InsertIntent(h)
      PROVE  InsertInv'
  <2>1. handler[h] \in Running
    BY <1>2, BusyIsRunning DEF InsertIntent, Busy, TypeInv
  <2>2. \A g \in Handlers \ {h} : handler'[g] = handler[g]
    BY <1>2 DEF InsertIntent, Goto, TypeInv, TypeOK
  <2>3. handler'[h].pc = "answer"
    BY <1>2, <2>1 DEF InsertIntent, Goto, TypeInv, TypeOK, Running
  <2> QED
    BY <1>2, <2>2, <2>3 DEF InsertIntent
<1>3. CASE \A h \in Handlers : ~FindIntent(h) /\ ~InsertIntent(h)
  BY <1>3, InsertFrame
<1> QED
  BY <1>1, <1>2, <1>3

(* However backup requests fail, are repeated or come from a new owner, an *)
(* account gets a second intent row only from two that overlapped.         *)
THEOREM OnlyRacesDuplicate == Spec => []DuplicatesRaced
<1>1. Init => InsertInv
  BY DEF Init, InsertInv, Idle
<1>2. TypeInv /\ InsertInv /\ [Next]_vars => InsertInv'
  BY InsertStep
<1>3. InsertInv => DuplicatesRaced
  BY DEF InsertInv, DuplicatesRaced
<1> QED
  BY <1>1, <1>2, <1>3, InitTyped, NextTyped, PTL DEF Spec

=============================================================================
