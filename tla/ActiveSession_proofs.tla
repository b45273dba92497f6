------------------------- MODULE ActiveSession_proofs -------------------------
(***************************************************************************)
(* A browser that keeps coming back keeps its user, for any clients, lives *)
(* and latency.  A slow request may set the expiry of the session row back *)
(* behind that of the cookie, but by no more than the time of two requests,*)
(* because each of the two writes a clock that was read while it ran.      *)
(*                                                                         *)
(* And an honest registration is accepted: while its challenge is good the *)
(* browser keeps the user it was made for, because whoever else is in play *)
(* is that user, until two requests that overlap make two.                 *)
(***************************************************************************)
EXTENDS ClientSessions_proofs

\* A request is younger than the platform's limit, and so is the clock it has read.
TimeInv(h) ==
  Busy(h) => /\ handler[h].since <= handler[h].now
             /\ handler[h].now <= now
             /\ now <= handler[h].since + Latency

\* The row of a request's user outlives the request by nearly a session's life.
UserInv(h) ==
  Busy(h) /\ handler[h].user # None
    => handler[h].since + SessionTTL <= session[handler[h].user] + Latency

\* The cookie lives from when it was stored; its row ends not much earlier.
CookieInv ==
  seen # None => /\ seen <= now
                 /\ jar # None
                 /\ jar.until = seen + SessionTTL
                 /\ seen + SessionTTL <= session[jar.user] + 2 * Latency

(* A request that has met no other has the browser's cookie, unless that   *)
(* had expired, and no row when it is about to make one.                   *)
AloneInv(h) ==
  Busy(h) /\ handler[h].shared # TRUE =>
    /\ \A g \in Handlers : Busy(g) => g = h
    /\ handler[h].pc \in SessionPc /\ HasCookies(handler[h].client) /\ seen # None
         => handler[h].sid = jar.user \/ (handler[h].sid = None /\ jar.until <= handler[h].since)
    /\ handler[h].pc = "create" /\ handler[h].sid # None
         => session[handler[h].sid] <= handler[h].now

ActiveInv ==
  /\ CookieInv
  /\ \A h \in Handlers : TimeInv(h) /\ UserInv(h) /\ AloneInv(h)

-----------------------------------------------------------------------------
\* What a handler keeps when a request arrives, it moves or another does.
Kept(h) ==
  /\ handler'[h].since = handler[h].since
  /\ handler'[h].client = handler[h].client
  /\ handler'[h].sid = handler[h].sid
  /\ handler'[h].shared \in {handler[h].shared, TRUE}

SameSession(h) ==
  /\ Kept(h)
  /\ handler'[h].now = handler[h].now
  /\ handler'[h].user = handler[h].user
  /\ handler'[h].pc \in SessionPc => handler'[h].pc = handler[h].pc

\* A handler is where it was, or has taken a step past the session.
RouteFrame ==
  \A h \in Handlers : Busy(h)' => Busy(h) /\ SameSession(h)

\* A request arrives: the others are shared from now on.
LEMMA SendFrame ==
  ASSUME TypeInv, NEW h \in Handlers, NEW c \in Clients, NEW route \in Routes,
         NEW request \in Envelopes[c][route], NEW response \in responses \cup {None},
         Send(h, c, route, request, response)
  PROVE  /\ ~Busy(h)
         /\ handler'[h].pc = "read" /\ handler'[h].client = c /\ handler'[h].sid = Carried(c)
         /\ handler'[h].since = now /\ handler'[h].now = now /\ handler'[h].user = None
         /\ handler'[h].shared # TRUE => \A g \in Handlers : ~Busy(g)
         /\ \A g \in Handlers \ {h} :
              /\ Busy(g)' <=> Busy(g)
              /\ Busy(g) => SameSession(g) /\ handler'[g].shared = TRUE
         /\ UNCHANGED <<env, now, session, jar, seen, split>>
<1> DEFINE together == {g \in Handlers : Busy(g)}
           new == [pc |-> "read", route |-> route, client |-> c, request |-> request,
                   response |-> response, sid |-> Carried(c), since |-> now, now |-> now,
                   user |-> None, row |-> None, shared |-> together # {}]
<1>1. ~Busy(h) /\ UNCHANGED <<env, now, session, jar, seen, split>>
  BY DEF Send, tables, browser
<1>2. handler' = [g \in Handlers |-> IF g = h THEN new
                    ELSE IF g \in together THEN [handler[g] EXCEPT !.shared = TRUE]
                    ELSE handler[g]]
  BY DEF Send
<1>3. handler'[h] = new
  BY <1>2
<1>4. \A g \in Handlers \ {h} :
        IF Busy(g) THEN handler'[g] = [handler[g] EXCEPT !.shared = TRUE]
        ELSE handler'[g] = handler[g]
  BY <1>2
<1>5. \A g \in Handlers : Busy(g) => handler[g] \in Running
  BY BusyIsRunning DEF TypeInv
<1>6. \A g \in Handlers \ {h} :
        /\ Busy(g)' <=> Busy(g)
        /\ Busy(g) => SameSession(g) /\ handler'[g].shared = TRUE
  BY <1>4, <1>5 DEF Busy, SameSession, Kept, Running
<1>7. handler'[h].shared # TRUE => \A g \in Handlers : ~Busy(g)
  <2>1. handler'[h].shared = (together # {})
    BY <1>3
  <2>2. (\E g \in Handlers : Busy(g)) => together # {}
    OBVIOUS
  <2> QED
    BY <2>1, <2>2
<1>8. /\ handler'[h].pc = "read" /\ handler'[h].client = c /\ handler'[h].sid = Carried(c)
      /\ handler'[h].since = now /\ handler'[h].now = now /\ handler'[h].user = None
  BY <1>3
<1> QED
  BY <1>1, <1>6, <1>7, <1>8

\* A step of a route after the session is known, or a reply.
LEMMA AfterSessionFrame ==
  ASSUME TypeInv, NEW h \in Handlers,
         \/ StoreChallenge(h) \/ Verify(h) \/ Spend(h) \/ CheckOwned(h)
         \/ FindIntent(h) \/ UpdateIntent(h) \/ InsertIntent(h) \/ Answer(h) \/ Fail(h)
  PROVE  RouteFrame /\ UNCHANGED <<env, now, session, split>>
<1>1. Busy(h) /\ handler[h] \in Running
  BY BusyIsRunning
  DEF StoreChallenge, Verify, Spend, CheckOwned, FindIntent, UpdateIntent, InsertIntent, Answer,
      Fail, Busy, TypeInv
<1>2. UNCHANGED <<env, now, session, split>>
  BY DEF StoreChallenge, Verify, Spend, CheckOwned, FindIntent, UpdateIntent, InsertIntent,
         Answer, Fail, tables
<1>3. ASSUME NEW pc, pc \notin SessionPc, NEW row,
             handler' = [handler EXCEPT ![h].pc = pc, ![h].row = row]
      PROVE  RouteFrame
  <2>1. \A g \in Handlers \ {h} : handler'[g] = handler[g]
    BY <1>3 DEF TypeInv, TypeOK
  <2>2. handler'[h] = [handler[h] EXCEPT !.pc = pc, !.row = row]
    BY <1>3 DEF TypeInv, TypeOK
  <2>3. SameSession(h)
    <3>1. /\ handler'[h].since = handler[h].since /\ handler'[h].client = handler[h].client
          /\ handler'[h].sid = handler[h].sid /\ handler'[h].now = handler[h].now
          /\ handler'[h].user = handler[h].user /\ handler'[h].pc = pc
      BY <1>1, <2>2 DEF Running
    <3>2. handler'[h].shared = handler[h].shared
      BY <1>1, <2>2 DEF Running
    <3> QED
      BY <1>3, <3>1, <3>2 DEF SameSession, Kept
  <2>4. \A g \in Handlers \ {h} : SameSession(g) /\ (Busy(g)' <=> Busy(g))
    BY <2>1 DEF SameSession, Kept, Busy
  <2> QED
    BY <1>1, <2>3, <2>4 DEF RouteFrame
<1>4. ASSUME NEW pc, pc \notin SessionPc, Goto(h, pc)
      PROVE  RouteFrame
  <2>1. handler' = [handler EXCEPT ![h].pc = pc, ![h].row = handler[h].row]
    BY <1>1, <1>4 DEF Goto, Running, TypeInv, TypeOK
  <2> QED
    BY <1>3, <1>4, <2>1
<1>5. CASE StoreChallenge(h) \/ Verify(h)
  <2>1. \/ Goto(h, "answer")
        \/ \E row, pc : pc \notin SessionPc
                        /\ handler' = [handler EXCEPT ![h].pc = pc, ![h].row = row]
    BY <1>5 DEF StoreChallenge, Verify, SessionPc
  <2>2. CASE Goto(h, "answer")
    BY <1>2, <1>4, <2>2 DEF SessionPc
  <2>3. CASE \E row, pc : pc \notin SessionPc
                         /\ handler' = [handler EXCEPT ![h].pc = pc, ![h].row = row]
    <3>1. PICK row, pc : pc \notin SessionPc
                         /\ handler' = [handler EXCEPT ![h].pc = pc, ![h].row = row]
      BY <2>3
    <3> QED
      BY <1>2, <1>3, <3>1
  <2> QED
    BY <2>1, <2>2, <2>3
<1>6. CASE Spend(h) \/ CheckOwned(h) \/ FindIntent(h) \/ UpdateIntent(h) \/ InsertIntent(h)
  <2>1. \E pc : pc \notin SessionPc /\ Goto(h, pc)
    BY <1>6 DEF Spend, CheckOwned, FindIntent, UpdateIntent, InsertIntent, SessionPc
  <2>2. PICK pc : pc \notin SessionPc /\ Goto(h, pc)
    BY <2>1
  <2> QED
    BY <1>2, <1>4, <2>2
<1>7. CASE Answer(h) \/ Fail(h)
  <2>1. handler' = [handler EXCEPT ![h] = Idle]
    BY <1>7 DEF Answer, Fail
  <2>2. \A g \in Handlers \ {h} : handler'[g] = handler[g]
    BY <2>1 DEF TypeInv, TypeOK
  <2>3. ~Busy(h)'
    BY <2>1 DEF Busy, Idle, TypeInv, TypeOK
  <2>4. \A g \in Handlers \ {h} : SameSession(g) /\ (Busy(g)' <=> Busy(g))
    BY <2>2 DEF SameSession, Kept, Busy
  <2> QED
    BY <1>2, <2>3, <2>4 DEF RouteFrame
<1> QED
  BY <1>2, <1>5, <1>6, <1>7

\* The look-up of the session: a new one is needed only if there is no live row.
LEMMA ReadFrame ==
  ASSUME TypeInv, NEW h \in Handlers, ReadSession(h)
  PROVE  /\ Busy(h) /\ handler[h] \in Running /\ Busy(h)'
         /\ Kept(h) /\ handler'[h].shared = handler[h].shared
         /\ handler[h].pc = "read"
         /\ handler'[h].user = handler[h].user /\ handler'[h].now = now
         /\ handler'[h].pc = "create" /\ handler[h].sid # None
              => session[handler[h].sid] <= now
         /\ \A g \in Handlers \ {h} : handler'[g] = handler[g]
         /\ UNCHANGED <<env, now, session, jar, seen>>
<1>1. Busy(h) /\ handler[h] \in Running /\ handler[h].pc = "read"
  BY BusyIsRunning DEF ReadSession, Busy, TypeInv
<1>2. PICK pc \in {"touch", "create"} :
        /\ pc = "create" => handler[h].sid = None \/ ~(session[handler[h].sid] > now)
        /\ handler' = [handler EXCEPT ![h].pc = pc, ![h].now = now]
  BY DEF ReadSession
<1>3. handler'[h] = [handler[h] EXCEPT !.pc = pc, !.now = now]
  BY <1>2 DEF TypeInv, TypeOK
<1>4. \A g \in Handlers \ {h} : handler'[g] = handler[g]
  BY <1>2 DEF TypeInv, TypeOK
<1>5. /\ handler'[h].since = handler[h].since /\ handler'[h].client = handler[h].client
      /\ handler'[h].sid = handler[h].sid /\ handler'[h].now = now
      /\ handler'[h].user = handler[h].user /\ handler'[h].pc = pc
  BY <1>1, <1>3 DEF Running
<1>6. handler'[h].shared = handler[h].shared
  BY <1>1, <1>3 DEF Running
<1>7. handler'[h].pc = "create" /\ handler[h].sid # None => session[handler[h].sid] <= now
  <2>1. handler[h].sid # None => session[handler[h].sid] \in Nat /\ now \in Nat
    BY <1>1 DEF Running, TypeInv, TypeOK
  <2> QED
    BY <1>2, <1>5, <2>1
<1> QED
  BY <1>1, <1>4, <1>5, <1>6, <1>7 DEF ReadSession, Kept, Busy, tables, browser

\* The session is known and its row lives from the clock that was read.
LEMMA ResolveFrame ==
  ASSUME TypeInv, NEW h \in Handlers, TouchSession(h) \/ CreateSession(h)
  PROVE  /\ Busy(h) /\ handler[h] \in Running
         /\ Kept(h) /\ handler'[h].now = handler[h].now /\ handler'[h].pc \notin SessionPc
         /\ \E u \in Users : /\ session' = [session EXCEPT ![u] = handler[h].now + SessionTTL]
                             /\ handler'[h].user = u
         /\ \A g \in Handlers \ {h} : handler'[g] = handler[g]
         /\ UNCHANGED <<env, now, jar, seen>>
<1>1. Busy(h) /\ handler[h] \in Running
  BY BusyIsRunning DEF TouchSession, CreateSession, Busy, TypeInv
<1>2. PICK u \in Users : /\ session' = [session EXCEPT ![u] = handler[h].now + SessionTTL]
                         /\ Resolved(h, u)
  <2>1. CASE TouchSession(h)
    <3>1. handler[h].sid \in Users
      BY <1>1, <2>1 DEF TouchSession, TypeInv, KnownInv, Running
    <3> QED
      BY <2>1, <3>1 DEF TouchSession
  <2>2. CASE CreateSession(h)
    BY <2>2 DEF CreateSession
  <2> QED
    BY <2>1, <2>2
<1>3. handler'[h] = [handler[h] EXCEPT !.pc = Entry(handler[h].route), !.user = u]
  BY <1>2 DEF Resolved, TypeInv, TypeOK
<1>4. \A g \in Handlers \ {h} : handler'[g] = handler[g]
  BY <1>2 DEF Resolved, TypeInv, TypeOK
<1>5. Entry(handler[h].route) \notin SessionPc
  BY <1>1 DEF Running, Routes, Entry, SessionPc
<1>6. /\ handler'[h].since = handler[h].since /\ handler'[h].client = handler[h].client
      /\ handler'[h].sid = handler[h].sid /\ handler'[h].now = handler[h].now
      /\ handler'[h].user = u /\ handler'[h].pc = Entry(handler[h].route)
  BY <1>1, <1>3 DEF Running
<1>7. handler'[h].shared = handler[h].shared
  BY <1>1, <1>3 DEF Running
<1> QED
  BY <1>1, <1>2, <1>4, <1>5, <1>6, <1>7 DEF Kept, TouchSession, CreateSession, browser

-----------------------------------------------------------------------------
\* Numbers that the invariant compares.
LEMMA ClockTypes ==
  ASSUME TypeInv
  PROVE  /\ now \in Nat /\ SessionTTL \in Nat /\ Latency \in Nat
         /\ \A u \in Users : session[u] \in Nat
         /\ seen # None => seen \in Nat
         /\ jar # None => jar.user \in Users /\ jar.until \in Nat
         /\ \A h \in Handlers : Busy(h) =>
              /\ handler[h].since \in Nat /\ handler[h].now \in Nat
              /\ handler[h].user # None => handler[h].user \in Users
              /\ handler[h].sid # None => handler[h].sid \in Users
<1>1. \A h \in Handlers : Busy(h) => handler[h] \in Running
  BY BusyIsRunning DEF TypeInv
<1> QED
  BY <1>1, TimeAssumption DEF TypeInv, TypeOK, Cookie, Running

LEMMA ReadActive ==
  ASSUME TypeInv, ActiveInv, NEW h \in Handlers, ReadSession(h)
  PROVE  ActiveInv'
<1>1. CookieInv'
  BY ReadFrame DEF ActiveInv, CookieInv
<1>2. \A g \in Handlers : Busy(g)' <=> Busy(g)
  BY ReadFrame DEF Busy
<1>3. \A g \in Handlers : TimeInv(g)'
  <2>1. TimeInv(h)'
    <3>1. handler'[h].since = handler[h].since /\ handler'[h].now = now /\ now' = now /\ Busy(h)
      BY ReadFrame DEF Kept
    <3>2. handler[h].since <= handler[h].now /\ handler[h].now <= now
          /\ now <= handler[h].since + Latency
      BY <3>1 DEF ActiveInv, TimeInv
    <3>3. handler[h].since \in Nat /\ handler[h].now \in Nat /\ now \in Nat
      BY <3>1, ClockTypes
    <3> QED
      BY <3>1, <3>2, <3>3 DEF TimeInv
  <2>2. \A g \in Handlers \ {h} : TimeInv(g)'
    BY <1>2, ReadFrame DEF ActiveInv, TimeInv
  <2> QED
    BY <2>1, <2>2
<1>4. \A g \in Handlers : UserInv(g)'
  BY ReadFrame DEF ActiveInv, UserInv, Kept, Busy
<1>5. AloneInv(h)'
  <2> SUFFICES ASSUME handler'[h].shared # TRUE
               PROVE  AloneInv(h)'
    BY DEF AloneInv
  <2>1. /\ handler'[h].since = handler[h].since /\ handler'[h].client = handler[h].client
        /\ handler'[h].sid = handler[h].sid /\ handler'[h].now = now
        /\ Busy(h) /\ handler[h].shared # TRUE /\ handler[h].pc = "read"
        /\ UNCHANGED <<env, now, session, jar, seen>>
    BY ReadFrame DEF Kept
  <2>2. \A g \in Handlers : Busy(g)' => g = h
    BY <1>2, <2>1 DEF ActiveInv, AloneInv
  <2>3. HasCookies(handler[h].client) /\ seen # None
          => handler[h].sid = jar.user \/ (handler[h].sid = None /\ jar.until <= handler[h].since)
    BY <2>1 DEF ActiveInv, AloneInv, SessionPc
  <2>4. HasCookies(handler[h].client)' <=> HasCookies(handler[h].client)
    BY <2>1 DEF HasCookies
  <2>5. handler'[h].pc = "create" /\ handler'[h].sid # None
          => session'[handler'[h].sid] <= handler'[h].now
    BY <2>1, ReadFrame
  <2> QED
    <3>1. handler'[h].pc \in SessionPc /\ HasCookies(handler[h].client)' /\ seen' # None
            => handler'[h].sid = jar'.user
               \/ (handler'[h].sid = None /\ jar'.until <= handler'[h].since)
      BY <2>1, <2>3, <2>4
    <3> QED
      BY <2>2, <2>5, <3>1 DEF AloneInv
<1>6. \A g \in Handlers \ {h} : AloneInv(g)'
  BY <1>2, ReadFrame DEF ActiveInv, AloneInv, HasCookies
<1> QED
  BY <1>1, <1>3, <1>4, <1>5, <1>6 DEF ActiveInv

\* A row that is written lives from a clock no older than a request's limit.
LEMMA ResolveActive ==
  ASSUME TypeInv, ActiveInv, NEW h \in Handlers, TouchSession(h) \/ CreateSession(h)
  PROVE  ActiveInv'
<1>1. PICK u \in Users : /\ session' = [session EXCEPT ![u] = handler[h].now + SessionTTL]
                         /\ handler'[h].user = u
  BY ResolveFrame
<1>2. \A g \in Handlers : Busy(g)' => Busy(g)
  BY ResolveFrame DEF Busy
<1>3. handler[h].since <= handler[h].now /\ handler[h].now <= now
      /\ now <= handler[h].since + Latency
  BY ResolveFrame DEF ActiveInv, TimeInv
<1>4. handler[h].since \in Nat /\ handler[h].now \in Nat /\ now \in Nat
      /\ SessionTTL \in Nat /\ Latency \in Nat
  BY ResolveFrame, ClockTypes
<1>5. \A v \in Users : session'[v] = session[v] \/ now + SessionTTL <= session'[v] + Latency
  BY <1>1, <1>3, <1>4 DEF TypeInv, TypeOK
<1>6. \A v \in Users : session'[v] \in Nat /\ session[v] \in Nat
  BY <1>1, <1>4 DEF TypeInv, TypeOK
<1>7. CookieInv'
  <2> SUFFICES ASSUME seen # None
               PROVE  seen + SessionTTL <= session'[jar.user] + 2 * Latency
    BY ResolveFrame DEF CookieInv, ActiveInv
  <2>1. seen <= now /\ jar # None /\ seen + SessionTTL <= session[jar.user] + 2 * Latency
    BY DEF ActiveInv, CookieInv
  <2>2. seen \in Nat /\ jar.user \in Users
    BY <2>1, ClockTypes
  <2> QED
    BY <1>4, <1>5, <1>6, <2>1, <2>2
<1>8. \A g \in Handlers : TimeInv(g)'
  BY <1>2, ResolveFrame DEF ActiveInv, TimeInv, Kept
<1>9. UserInv(h)'
  <2>1. session'[u] = handler[h].now + SessionTTL /\ handler'[h].since = handler[h].since
    BY <1>1, ResolveFrame DEF TypeInv, TypeOK, Kept
  <2> QED
    BY <1>1, <1>3, <1>4, <2>1 DEF UserInv
<1>10. ASSUME NEW g \in Handlers \ {h}
       PROVE  UserInv(g)'
  <2> SUFFICES ASSUME Busy(g), handler[g].user # None
               PROVE  handler[g].since + SessionTTL <= session'[handler[g].user] + Latency
    BY <1>2, ResolveFrame DEF UserInv
  <2>1. handler[g].since + SessionTTL <= session[handler[g].user] + Latency
        /\ handler[g].since <= handler[g].now /\ handler[g].now <= now
    BY DEF ActiveInv, UserInv, TimeInv
  <2>2. handler[g].since \in Nat /\ handler[g].now \in Nat /\ handler[g].user \in Users
    BY ClockTypes
  <2> QED
    BY <1>4, <1>5, <1>6, <2>1, <2>2
<1>11. AloneInv(h)'
  <2>1. handler'[h].shared # TRUE => handler[h].shared # TRUE
    BY ResolveFrame DEF Kept
  <2>2. handler'[h].pc \notin SessionPc
    BY ResolveFrame
  <2>3. handler'[h].shared # TRUE => \A g \in Handlers : Busy(g)' => g = h
    BY <1>2, <2>1, ResolveFrame DEF ActiveInv, AloneInv
  <2> QED
    BY <2>2, <2>3 DEF AloneInv, SessionPc
<1>12. ASSUME NEW g \in Handlers \ {h}
       PROVE  AloneInv(g)'
  <2>1. Busy(g) => handler[g].shared = TRUE
    BY ResolveFrame DEF ActiveInv, AloneInv
  <2> QED
    BY <1>2, <2>1, ResolveFrame DEF AloneInv
<1> QED
  BY <1>7, <1>8, <1>9, <1>10, <1>11, <1>12 DEF ActiveInv

\* A new request is alone if nobody is in flight, and the others no longer are.
LEMMA SendActive ==
  ASSUME TypeInv, ActiveInv, NEW h \in Handlers, NEW c \in Clients, NEW route \in Routes,
         NEW request \in Envelopes[c][route], NEW response \in responses \cup {None},
         Send(h, c, route, request, response)
  PROVE  ActiveInv'
<1>1. /\ handler'[h].pc = "read" /\ handler'[h].client = c /\ handler'[h].sid = Carried(c)
      /\ handler'[h].since = now /\ handler'[h].now = now /\ handler'[h].user = None
      /\ handler'[h].shared # TRUE => \A g \in Handlers : ~Busy(g)
      /\ UNCHANGED <<env, now, session, jar, seen, split>>
  BY SendFrame
<1>2. \A g \in Handlers \ {h} :
        /\ Busy(g)' <=> Busy(g)
        /\ Busy(g) => SameSession(g) /\ handler'[g].shared = TRUE
  BY SendFrame
<1>3. now \in Nat /\ Latency \in Nat
  BY ClockTypes
<1>4. CookieInv'
  BY <1>1 DEF ActiveInv, CookieInv
<1>5. TimeInv(h)' /\ UserInv(h)'
  BY <1>1, <1>3 DEF TimeInv, UserInv
<1>6. AloneInv(h)'
  <2> SUFFICES ASSUME handler'[h].shared # TRUE
               PROVE  AloneInv(h)'
    BY DEF AloneInv
  <2>1. \A g \in Handlers : Busy(g)' => g = h
    BY <1>1, <1>2
  <2>2. HasCookies(handler[h].client)' <=> HasCookies(c)
    BY <1>1 DEF HasCookies
  <2>3. HasCookies(c) /\ seen # None
          => Carried(c) = jar.user \/ (Carried(c) = None /\ jar.until <= now)
    <3>1. seen # None => jar # None /\ jar.until \in Nat
      BY ClockTypes DEF ActiveInv, CookieInv
    <3> QED
      BY <1>3, <3>1 DEF Carried
  <2> QED
    <3>1. handler'[h].pc \in SessionPc /\ HasCookies(handler[h].client)' /\ seen' # None
            => handler'[h].sid = jar'.user
               \/ (handler'[h].sid = None /\ jar'.until <= handler'[h].since)
      BY <1>1, <2>2, <2>3
    <3>2. handler'[h].pc # "create"
      BY <1>1
    <3> QED
      BY <2>1, <3>1, <3>2 DEF AloneInv
<1>7. \A g \in Handlers \ {h} : TimeInv(g)' /\ UserInv(g)'
  BY <1>1, <1>2 DEF ActiveInv, TimeInv, UserInv, SameSession, Kept
<1>8. \A g \in Handlers \ {h} : AloneInv(g)'
  BY <1>2 DEF AloneInv
<1> QED
  BY <1>4, <1>5, <1>6, <1>7, <1>8 DEF ActiveInv

\* A step that leaves the cookie alone, after the session is known.
LEMMA RouteActive ==
  ASSUME TypeInv, ActiveInv, RouteFrame, UNCHANGED <<env, now, session, jar, seen>>
  PROVE  ActiveInv'
<1>1. CookieInv'
  BY DEF ActiveInv, CookieInv
<1>2. ASSUME NEW h \in Handlers, Busy(h)'
      PROVE  TimeInv(h)' /\ UserInv(h)' /\ AloneInv(h)'
  <2>1. /\ Busy(h)
        /\ handler'[h].since = handler[h].since /\ handler'[h].client = handler[h].client
        /\ handler'[h].sid = handler[h].sid /\ handler'[h].now = handler[h].now
        /\ handler'[h].user = handler[h].user
        /\ handler'[h].pc \in SessionPc => handler'[h].pc = handler[h].pc
        /\ handler'[h].shared # TRUE => handler[h].shared # TRUE
    BY <1>2 DEF RouteFrame, SameSession, Kept
  <2>2. TimeInv(h)' /\ UserInv(h)'
    BY <2>1 DEF ActiveInv, TimeInv, UserInv
  <2>3. AloneInv(h)'
    <3> SUFFICES ASSUME handler'[h].shared # TRUE
                 PROVE  AloneInv(h)'
      BY DEF AloneInv
    <3>1. \A g \in Handlers : Busy(g)' => g = h
      BY <2>1 DEF RouteFrame, ActiveInv, AloneInv
    <3>2. HasCookies(handler[h].client)' <=> HasCookies(handler[h].client)
      BY <2>1 DEF HasCookies
    <3>3. handler[h].pc \in SessionPc /\ HasCookies(handler[h].client) /\ seen # None
            => handler[h].sid = jar.user
               \/ (handler[h].sid = None /\ jar.until <= handler[h].since)
      BY <2>1 DEF ActiveInv, AloneInv
    <3>4. handler'[h].pc \in SessionPc /\ HasCookies(handler[h].client)' /\ seen' # None
            => handler'[h].sid = jar'.user
               \/ (handler'[h].sid = None /\ jar'.until <= handler'[h].since)
      BY <2>1, <3>2, <3>3
    <3>5. handler'[h].pc = "create" /\ handler'[h].sid # None
            => session'[handler'[h].sid] <= handler'[h].now
      BY <2>1 DEF ActiveInv, AloneInv, SessionPc
    <3> QED
      BY <3>1, <3>4, <3>5 DEF AloneInv
  <2> QED
    BY <2>2, <2>3
<1> QED
  BY <1>1, <1>2 DEF ActiveInv, TimeInv, UserInv, AloneInv

\* A reply stores a cookie whose row lives almost as long as the cookie.
LEMMA ReplyActive ==
  ASSUME TypeInv, ActiveInv, NEW h \in Handlers, Busy(h), handler[h].user # None,
         handler' = [handler EXCEPT ![h] = Idle],
         jar' = [user |-> handler[h].user, until |-> now + SessionTTL], seen' = now,
         RouteFrame, UNCHANGED <<env, now, session>>
  PROVE  ActiveInv'
<1>1. now \in Nat /\ SessionTTL \in Nat /\ Latency \in Nat /\ handler[h].since \in Nat
      /\ handler[h].user \in Users /\ session[handler[h].user] \in Nat
  BY ClockTypes
<1>2. CookieInv'
  <2>1. handler[h].since + SessionTTL <= session[handler[h].user] + Latency
        /\ now <= handler[h].since + Latency
    BY DEF ActiveInv, UserInv, TimeInv
  <2>2. now + SessionTTL <= session[handler[h].user] + 2 * Latency
    BY <1>1, <2>1
  <2>3. jar'.user = handler[h].user /\ jar'.until = now + SessionTTL /\ jar' # None
    <3>1. jar' \in Cookie
      BY <1>1 DEF Cookie
    <3>2. None \notin Cookie
      BY ClientAssumption DEF Cookie
    <3> QED
      BY <3>1, <3>2
  <2> QED
    BY <1>1, <2>2, <2>3 DEF CookieInv
<1>3. ~Busy(h)'
  BY DEF TypeInv, TypeOK, Busy, Idle
<1>4. ASSUME NEW g \in Handlers, Busy(g)'
      PROVE  TimeInv(g)' /\ UserInv(g)' /\ AloneInv(g)'
  <2>1. g # h /\ Busy(g) /\ handler'[g] = handler[g]
    BY <1>3, <1>4 DEF RouteFrame, TypeInv, TypeOK
  <2>2. TimeInv(g)' /\ UserInv(g)'
    BY <2>1 DEF ActiveInv, TimeInv, UserInv
  <2>3. handler[g].shared = TRUE
    BY <2>1 DEF ActiveInv, AloneInv
  <2> QED
    BY <2>1, <2>2, <2>3 DEF AloneInv
<1> QED
  BY <1>2, <1>4 DEF ActiveInv, TimeInv, UserInv, AloneInv

\* The steps after the session is known, and the end of a request.
LEMMA AfterActive ==
  ASSUME TypeInv, ActiveInv, NEW h \in Handlers,
         \/ StoreChallenge(h) \/ Verify(h) \/ Spend(h) \/ CheckOwned(h)
         \/ FindIntent(h) \/ UpdateIntent(h) \/ InsertIntent(h) \/ Answer(h) \/ Fail(h)
  PROVE  ActiveInv'
<1>1. RouteFrame /\ UNCHANGED <<env, now, session>>
  BY AfterSessionFrame
<1>2. CASE UNCHANGED <<jar, seen>>
  BY <1>1, <1>2, RouteActive
<1>3. CASE ~UNCHANGED <<jar, seen>>
  <2>1. Answer(h) \/ Fail(h)
    BY <1>3 DEF StoreChallenge, Verify, Spend, CheckOwned, FindIntent, UpdateIntent,
                InsertIntent, browser
  <2>2. StoreCookie(h) /\ handler' = [handler EXCEPT ![h] = Idle]
    BY <1>3, <2>1 DEF Answer, Fail
  <2>3. Busy(h) /\ handler[h].user # None
    BY <1>3, <2>1 DEF Answer, Fail, Busy, TypeInv, KnownInv, RoutePc
  <2>4. jar' = [user |-> handler[h].user, until |-> now + SessionTTL] /\ seen' = now
    BY <1>3, <2>2 DEF StoreCookie
  <2> QED
    BY <1>1, <2>2, <2>3, <2>4, ReplyActive
<1> QED
  BY <1>2, <1>3

\* The clock does not pass the limit of a request in flight.
LEMMA TickActive ==
  ASSUME TypeInv, ActiveInv, Tick
  PROVE  ActiveInv'
<1>1. now' = now + 1 /\ UNCHANGED <<env, session, jar, seen, handler>>
      /\ \A h \in Handlers : Busy(h) => now < handler[h].since + Latency
  BY DEF Tick, tables, browser
<1>2. now \in Nat /\ Latency \in Nat /\ (seen # None => seen \in Nat)
      /\ \A h \in Handlers :
           Busy(h) => handler[h].since \in Nat /\ handler[h].now \in Nat
  BY ClockTypes
<1>3. CookieInv'
  BY <1>1, <1>2 DEF ActiveInv, CookieInv
<1>4. ASSUME NEW h \in Handlers
      PROVE  TimeInv(h)' /\ UserInv(h)' /\ AloneInv(h)'
  <2>1. TimeInv(h)'
    BY <1>1, <1>2 DEF ActiveInv, TimeInv, Busy
  <2>2. UserInv(h)'
    BY <1>1 DEF ActiveInv, UserInv, Busy
  <2>3. AloneInv(h)'
    BY <1>1 DEF ActiveInv, AloneInv, Busy, HasCookies
  <2> QED
    BY <2>1, <2>2, <2>3
<1> QED
  BY <1>3, <1>4 DEF ActiveInv

LEMMA NextActive == TypeInv /\ ActiveInv /\ [Next]_vars => ActiveInv'
<1> SUFFICES ASSUME TypeInv, ActiveInv, [Next]_vars
             PROVE  ActiveInv'
  OBVIOUS
<1>1. ASSUME NEW h \in Handlers, NEW c \in Clients, NEW route \in Routes,
             NEW request \in Envelopes[c][route], NEW response \in responses \cup {None},
             Send(h, c, route, request, response)
      PROVE  ActiveInv'
  BY <1>1, SendActive
<1>2. ASSUME NEW h \in Handlers, Step(h) \/ Fail(h)
      PROVE  ActiveInv'
  BY <1>2, ReadActive, ResolveActive, AfterActive DEF Step
<1>3. CASE MoveAccount \/ UNCHANGED vars
  BY <1>3 DEF MoveAccount, vars, tables, browser, ActiveInv, CookieInv, TimeInv, UserInv, AloneInv,
              Busy, HasCookies
<1>4. CASE Tick
  BY <1>4, TickActive
<1> QED
  BY <1>1, <1>2, <1>3, <1>4 DEF Next

LEMMA InitActive == Init => ActiveInv
<1> SUFFICES ASSUME Init
             PROVE  ActiveInv
  OBVIOUS
<1>1. CookieInv
  BY DEF Init, CookieInv
<1>2. \A h \in Handlers : ~Busy(h)
  BY DEF Init, Busy, Idle
<1>3. \A h \in Handlers : TimeInv(h) /\ UserInv(h) /\ AloneInv(h)
  BY <1>2 DEF TimeInv, UserInv, AloneInv
<1> QED
  BY <1>1, <1>3 DEF ActiveInv

-----------------------------------------------------------------------------
(* A request that overlapped no other and whose cookies travel makes a new *)
(* user only when the browser's cookie is gone or its row is over.         *)
LEMMA ActiveStep ==
  ASSUME TypeInv, ActiveInv, NEW h \in Handlers,
         CreateSession(h), HasCookies(handler[h].client), ~split', seen # None
  PROVE  now + 2 * Latency >= seen + SessionTTL
<1>1. Busy(h) /\ handler[h].pc = "create"
  BY DEF CreateSession, Busy
<1>2. handler[h].shared # TRUE
  BY DEF CreateSession
<1>3. /\ handler[h].sid = jar.user \/ jar.until <= handler[h].since
      /\ handler[h].sid # None => session[handler[h].sid] <= handler[h].now
  BY <1>1, <1>2 DEF ActiveInv, AloneInv, SessionPc
<1>4. /\ jar # None /\ jar.until = seen + SessionTTL
      /\ seen + SessionTTL <= session[jar.user] + 2 * Latency
      /\ handler[h].since <= handler[h].now /\ handler[h].now <= now
  BY <1>1 DEF ActiveInv, CookieInv, TimeInv
<1>5. /\ now \in Nat /\ seen \in Nat /\ SessionTTL \in Nat /\ Latency \in Nat
      /\ jar.user \in Users /\ session[jar.user] \in Nat
      /\ handler[h].since \in Nat /\ handler[h].now \in Nat
  BY <1>1, <1>4, ClockTypes
<1>6. CASE handler[h].sid = jar.user
  <2>1. session[jar.user] <= handler[h].now
    BY <1>3, <1>5, <1>6, ClientAssumption
  <2> QED
    BY <1>4, <1>5, <2>1
<1>7. CASE jar.until <= handler[h].since
  BY <1>4, <1>5, <1>7
<1> QED
  BY <1>3, <1>6, <1>7

(* The browser keeps its user while it comes back within a session's life, *)
(* less twice the longest request (session 24 and 33).                     *)
THEOREM ActiveUserStays == Spec => ActiveIsKept
<1>1. TypeInv /\ ActiveInv /\ [Next]_vars =>
        [\A h \in Handlers :
           CreateSession(h) /\ HasCookies(handler[h].client) /\ ~split' /\ seen # None
             => now + 2 * Latency >= seen + SessionTTL]_vars
  BY ActiveStep
<1> QED
  BY <1>1, InitTyped, InitActive, NextTyped, NextActive, PTL DEF Spec, ActiveIsKept

-----------------------------------------------------------------------------
(* The rest follows a challenge from begin to the response that answers it *)
(* and the browser's user meanwhile.                                       *)

\* A request whose cookies travel runs for this user or is about to.
HeldBy(h, u) ==
  /\ Busy(h) /\ HasCookies(handler[h].client)
  /\ \/ handler[h].user = u
     \/ /\ handler[h].user = None /\ handler[h].sid = u
        /\ handler[h].pc = "touch" \/ session[u] > now

\* The browser's cookie names this user, and neither it nor the session is over.
InJar(u) == jar # None /\ jar.user = u /\ jar.until > now /\ session[u] > now

InPlay(u) == InJar(u) \/ \E h \in Handlers : HeldBy(h, u)

\* Requests that did not overlap when they made a user all come to the same one.
OneUserInv == ~split => \A u, v \in Users : InPlay(u) /\ InPlay(v) => u = v

\* Whoever a cookie or a request names has a session row, and is known after it.
NamedInv ==
  /\ jar # None => seen # None /\ session[jar.user] > 0
  /\ \A h \in Handlers : Busy(h) =>
       /\ handler[h].sid # None => /\ session[handler[h].sid] > 0
                                  /\ HasCookies(handler[h].client)
       /\ handler[h].user # None => session[handler[h].user] > 0
       /\ handler[h].pc \in SessionPc => handler[h].user = None

\* The row of a begin request of this client.
Offered(c, row) ==
  \E request \in Envelopes[c]["begin"] :
    /\ BeginAccepts(env, request)
    /\ row.rpId = Context(env, request).rpId
    /\ row.origin = Context(env, request).origin

RowInv(row) ==
  /\ row.id \in issued
  /\ row.createdAt <= now /\ row.expiresAt = row.createdAt + ChallengeTTL
  /\ \A q \in challenges : q.id = row.id => q = row

RequestInv(h) ==
  Busy(h) =>
    /\ handler[h].request \in Envelopes[handler[h].client][handler[h].route]
    /\ handler[h].pc = "store" => handler[h].route = "begin"
    /\ handler[h].pc = "verify" => handler[h].route = "finish"
    /\ handler[h].pc \in SessionPc => handler[h].row = None
    /\ handler[h].route = "finish" => /\ handler[h].response \in responses
                                      /\ handler[h].response.client = handler[h].client
    /\ handler[h].route = "begin" /\ handler[h].row # None =>
         /\ RowInv(handler[h].row)
         /\ handler[h].row.user = handler[h].user
         /\ Offered(handler[h].client, handler[h].row)

ResponseInv(r) ==
  /\ r.challenge \in issued
  /\ \A row \in challenges : row.id = r.challenge =>
       Offered(r.client, row) /\ r.rpId \in Signs(r.client, row)

\* While a challenge that was signed is good, the browser comes back as its user.
GoodInv(r) ==
  ~split /\ HasCookies(r.client) =>
    \A row \in challenges : row.id = r.challenge /\ row.expiresAt > now =>
      /\ jar # None /\ jar.user = row.user /\ row.expiresAt <= jar.until
      /\ row.expiresAt <= session[row.user]

CeremonyInv ==
  /\ OneUserInv
  /\ NamedInv
  /\ \A row \in challenges : RowInv(row)
  /\ \A h \in Handlers : RequestInv(h)
  /\ \A r \in responses : ResponseInv(r) /\ GoodInv(r)

-----------------------------------------------------------------------------
\* A begin request stores a row of its user and its context, or refuses.
LEMMA StoreFrame ==
  ASSUME TypeInv, NEW h \in Handlers, StoreChallenge(h)
  PROVE  \/ /\ BeginAccepts(env, handler[h].request)
            /\ \E row \in ChallengeRow :
                 /\ row.id \notin issued
                 /\ issued' = issued \cup {row.id}
                 /\ challenges' = challenges \cup {row}
                 /\ row.user = handler[h].user
                 /\ row.rpId = Context(env, handler[h].request).rpId
                 /\ row.origin = Context(env, handler[h].request).origin
                 /\ row.createdAt = now /\ row.expiresAt = now + ChallengeTTL
                 /\ handler' = [handler EXCEPT ![h].pc = "answer", ![h].row = row]
         \/ Goto(h, "answer") /\ UNCHANGED <<issued, challenges>>
<1>1. handler[h] \in Running /\ handler[h].user \in Users
  BY BusyIsRunning DEF StoreChallenge, Busy, TypeInv, KnownInv, Running, RoutePc
<1>2. CASE BeginAccepts(env, handler[h].request)
  <2> DEFINE context == Context(env, handler[h].request)
  <2>1. context.rpId \in RpIds /\ context.origin \in Url
    BY <1>1, <1>2, ContextTyped DEF Running, TypeInv, TypeOK
  <2> HIDE DEF context
  <2>2. PICK c \in Challenges \ issued :
          \E row : /\ row = [id |-> c, user |-> handler[h].user, rpId |-> context.rpId,
                             origin |-> context.origin,
                             createdAt |-> now, expiresAt |-> now + ChallengeTTL]
                   /\ issued' = issued \cup {c}
                   /\ challenges' = challenges \cup {row}
                   /\ handler' = [handler EXCEPT ![h].pc = "answer", ![h].row = row]
    BY <1>2 DEF StoreChallenge, context
  <2>3. PICK row : /\ row = [id |-> c, user |-> handler[h].user, rpId |-> context.rpId,
                             origin |-> context.origin,
                             createdAt |-> now, expiresAt |-> now + ChallengeTTL]
                   /\ issued' = issued \cup {c}
                   /\ challenges' = challenges \cup {row}
                   /\ handler' = [handler EXCEPT ![h].pc = "answer", ![h].row = row]
    BY <2>2
  <2>4. row \in ChallengeRow
    BY <1>1, <2>1, <2>3, TimeAssumption DEF ChallengeRow, TypeInv, TypeOK
  <2> QED
    BY <1>2, <2>3, <2>4 DEF context
<1>3. CASE ~BeginAccepts(env, handler[h].request)
  BY <1>3 DEF StoreChallenge
<1> QED
  BY <1>2, <1>3

\* The clock and the ids grow, and a new row has a new id.
RowsFrame ==
  /\ now \in Nat /\ now' \in Nat /\ now <= now'
  /\ issued \subseteq issued' /\ responses \subseteq responses'
  /\ \A row \in challenges' : row \in challenges \/ row.id \notin issued

LEMMA RowsMonotone ==
  ASSUME TypeInv, [Next]_vars
  PROVE  RowsFrame
<1> USE DEF RowsFrame
<1>1. now \in Nat
  BY DEF TypeInv, TypeOK
<1>2. ASSUME NEW h \in Handlers, StoreChallenge(h)
      PROVE  RowsFrame
  BY <1>1, <1>2, StoreFrame DEF StoreChallenge, browser
<1>3. ASSUME NEW h \in Handlers, Spend(h) \/ Answer(h)
      PROVE  RowsFrame
  BY <1>1, <1>3 DEF Spend, Answer, tables, browser
<1>4. CASE Tick
  BY <1>1, <1>4 DEF Tick, tables, browser
<1>5. CASE UNCHANGED <<now, issued, responses, challenges>>
  BY <1>1, <1>5
<1> QED
  BY <1>2, <1>3, <1>4, <1>5
  DEF Next, Step, Send, ReadSession, TouchSession, CreateSession, Verify, CheckOwned, FindIntent,
      UpdateIntent, InsertIntent, Fail, MoveAccount, vars, tables, browser

\* A row stays what it was for as long as it is there.
LEMMA RowKept ==
  ASSUME RowsFrame, NEW row \in ChallengeRow, RowInv(row)
  PROVE  RowInv(row)'
BY DEF RowsFrame, RowInv, ChallengeRow

\* A new row is the only one with its id.
LEMMA NewRow ==
  ASSUME TypeInv, \A q \in challenges : RowInv(q), NEW row \in ChallengeRow,
         row.id \notin issued, issued' = issued \cup {row.id}, now' = now,
         challenges' = challenges \cup {row},
         row.createdAt = now, row.expiresAt = now + ChallengeTTL
  PROVE  RowInv(row)'
BY DEF RowInv, TypeInv, TypeOK

-----------------------------------------------------------------------------
\* What a request is about does not change while it runs.
SameRequest(h) ==
  /\ handler'[h].client = handler[h].client
  /\ handler'[h].route = handler[h].route
  /\ handler'[h].request = handler[h].request
  /\ handler'[h].response = handler[h].response

\* A handler is idle, new, as it was but for a new neighbour, or has taken a step.
LEMMA Moves ==
  ASSUME TypeInv, [Next]_vars, NEW h \in Handlers, Busy(h)'
  PROVE  \/ \E c \in Clients, route \in Routes :
              \E request \in Envelopes[c][route], response \in responses \cup {None} :
                Send(h, c, route, request, response)
         \/ Busy(h) /\ Step(h)
         \/ /\ Busy(h) /\ SameRequest(h)
            /\ handler'[h].pc = handler[h].pc /\ handler'[h].row = handler[h].row
            /\ handler'[h].user = handler[h].user /\ handler'[h].sid = handler[h].sid
<1> DEFINE Stays == /\ Busy(h) /\ SameRequest(h)
                    /\ handler'[h].pc = handler[h].pc /\ handler'[h].row = handler[h].row
                    /\ handler'[h].user = handler[h].user /\ handler'[h].sid = handler[h].sid
<1>1. CASE handler'[h] = handler[h]
  BY <1>1 DEF Busy, SameRequest
<1>2. ASSUME NEW g \in Handlers, Step(g) \/ Fail(g), handler'[h] # handler[h]
      PROVE  g = h
  BY <1>2
  DEF Step, ReadSession, TouchSession, CreateSession, StoreChallenge, Verify, Spend, CheckOwned,
      FindIntent, UpdateIntent, InsertIntent, Answer, Fail, Goto, Resolved, TypeInv, TypeOK
<1>3. ASSUME Step(h)
      PROVE  Busy(h)
  BY <1>3
  DEF Step, ReadSession, TouchSession, CreateSession, StoreChallenge, Verify, Spend, CheckOwned,
      FindIntent, UpdateIntent, InsertIntent, Answer, Busy
<1>4. ~Fail(h)
  BY DEF Fail, Busy, Idle, TypeInv, TypeOK
<1>5. ASSUME NEW g \in Handlers, g # h, NEW c \in Clients, NEW route \in Routes,
             NEW request \in Envelopes[c][route], NEW response \in responses \cup {None},
             Send(g, c, route, request, response), handler'[h] # handler[h]
      PROVE  Stays
  <2>1. Busy(h) /\ handler'[h] = [handler[h] EXCEPT !.shared = TRUE]
    BY <1>5 DEF Send
  <2>2. handler[h] \in Running
    BY <2>1, BusyIsRunning DEF TypeInv
  <2> QED
    BY <2>1, <2>2 DEF SameRequest, Running
<1>6. CASE MoveAccount \/ Tick \/ UNCHANGED vars
  BY <1>1, <1>6 DEF MoveAccount, Tick, vars
<1> QED
  BY <1>1, <1>2, <1>3, <1>4, <1>5, <1>6 DEF Next

\* A request that keeps its row, or has one that does not matter, keeps what fits it.
LEMMA RequestKept ==
  ASSUME TypeInv, CeremonyInv, RowsFrame, UNCHANGED env, NEW h \in Handlers,
         Busy(h), SameRequest(h),
         handler'[h].pc = "store" => handler[h].route = "begin",
         handler'[h].pc = "verify" => handler[h].route = "finish",
         handler'[h].pc \in SessionPc => handler'[h].row = None,
         handler[h].route = "begin" => handler'[h].row = handler[h].row,
         handler[h].route = "begin" /\ handler[h].row # None
           => handler'[h].user = handler[h].user
  PROVE  RequestInv(h)'
<1>1. RequestInv(h) /\ handler[h] \in Running
  BY BusyIsRunning DEF CeremonyInv, TypeInv
<1>2. ASSUME handler[h].route = "begin", handler[h].row # None
      PROVE  /\ RowInv(handler[h].row)' /\ Offered(handler[h].client, handler[h].row)'
             /\ handler'[h].row.user = handler'[h].user
  <2>1. PICK row \in ChallengeRow : row = handler[h].row
    BY <1>1, <1>2 DEF Running
  <2>2. handler'[h].row = row /\ RowInv(row) /\ row.user = handler'[h].user
        /\ Offered(handler[h].client, row) /\ handler'[h].client = handler[h].client
    BY <1>1, <1>2, <2>1 DEF RequestInv, SameRequest
  <2>3. RowInv(row)'
    BY <2>2, RowKept
  <2> QED
    BY <2>1, <2>2, <2>3 DEF Offered, RowInv
<1> QED
  BY <1>1, <1>2 DEF RequestInv, SameRequest, RowsFrame

\* What a request has read and written fits what it is about.
LEMMA RequestStep ==
  ASSUME TypeInv, CeremonyInv, [Next]_vars, NEW h \in Handlers
  PROVE  RequestInv(h)'
<1> SUFFICES ASSUME Busy(h)'
             PROVE  RequestInv(h)'
  BY DEF RequestInv
<1>1. RowsFrame /\ UNCHANGED env
  BY RowsMonotone
  DEF Next, Step, Send, ReadSession, TouchSession, CreateSession, StoreChallenge, Verify, Spend,
      CheckOwned, FindIntent, UpdateIntent, InsertIntent, Answer, Fail, MoveAccount, Tick, vars
<1>2. ASSUME NEW c \in Clients, NEW route \in Routes,
             NEW request \in Envelopes[c][route], NEW response \in responses \cup {None},
             Send(h, c, route, request, response)
      PROVE  RequestInv(h)'
  <2>1. /\ handler'[h].pc = "read" /\ handler'[h].row = None
        /\ handler'[h].client = c /\ handler'[h].route = route
        /\ handler'[h].request = request /\ handler'[h].response = response
    BY <1>2 DEF Send
  <2>2. route = "finish" => response \in responses' /\ response.client = c
    BY <1>2 DEF Send, browser
  <2> QED
    BY <2>1, <2>2 DEF RequestInv
<1>3. CASE /\ Busy(h) /\ SameRequest(h)
           /\ handler'[h].pc = handler[h].pc /\ handler'[h].row = handler[h].row
           /\ handler'[h].user = handler[h].user
  BY <1>1, <1>3, RequestKept DEF CeremonyInv, RequestInv
<1>4. CASE Busy(h) /\ Step(h)
  <2>1. handler[h] \in Running /\ RequestInv(h)
    BY <1>4, BusyIsRunning DEF TypeInv, CeremonyInv
  <2> USE DEF TypeInv, TypeOK
  <2>2. ASSUME NEW pc, NEW row, pc \notin {"store", "verify"} \cup SessionPc,
               handler[h].route = "begin" => row = handler[h].row,
               handler' = [handler EXCEPT ![h].pc = pc, ![h].row = row]
        PROVE  RequestInv(h)'
    <3>1. SameRequest(h) /\ handler'[h].pc = pc /\ handler'[h].row = row
          /\ handler'[h].user = handler[h].user
      BY <2>1, <2>2 DEF SameRequest, Running
    <3> QED
      BY <1>1, <1>4, <2>2, <3>1, RequestKept
  <2>3. ASSUME NEW pc, pc \notin {"store", "verify"} \cup SessionPc, Goto(h, pc)
        PROVE  RequestInv(h)'
    <3>1. handler' = [handler EXCEPT ![h].pc = pc, ![h].row = handler[h].row]
      BY <2>1, <2>3 DEF Goto, Running
    <3> QED
      BY <2>2, <2>3, <3>1
  <2>4. CASE ReadSession(h)
    <3>1. PICK pc \in {"touch", "create"} :
            handler' = [handler EXCEPT ![h].pc = pc, ![h].now = now]
      BY <2>4 DEF ReadSession
    <3>2. SameRequest(h) /\ handler'[h].pc = pc /\ handler'[h].row = handler[h].row
          /\ handler'[h].user = handler[h].user
      BY <2>1, <3>1 DEF SameRequest, Running
    <3>3. handler[h].row = None
      BY <1>4, <2>1, <2>4 DEF RequestInv, ReadSession, SessionPc
    <3> QED
      BY <1>1, <1>4, <3>2, <3>3, RequestKept
  <2>5. CASE TouchSession(h) \/ CreateSession(h)
    <3>1. PICK u : Resolved(h, u)
      BY <2>5 DEF TouchSession, CreateSession
    <3>2. SameRequest(h) /\ handler'[h].pc = Entry(handler[h].route)
          /\ handler'[h].row = handler[h].row
      BY <2>1, <3>1 DEF Resolved, SameRequest, Running
    <3>3. handler[h].row = None
      BY <1>4, <2>1, <2>5 DEF RequestInv, TouchSession, CreateSession, SessionPc
    <3>4. handler[h].route \in Routes
      BY <2>1 DEF Running
    <3> QED
      BY <1>1, <1>4, <3>2, <3>3, <3>4, RequestKept DEF Entry, Routes, SessionPc
  <2>6. CASE StoreChallenge(h)
    <3>1. CASE Goto(h, "answer")
      BY <2>3, <3>1 DEF SessionPc
    <3>2. CASE BeginAccepts(env, handler[h].request) /\ ~Goto(h, "answer")
      <4>1. PICK row \in ChallengeRow :
              /\ row.id \notin issued
              /\ issued' = issued \cup {row.id}
              /\ challenges' = challenges \cup {row}
              /\ row.user = handler[h].user
              /\ row.rpId = Context(env, handler[h].request).rpId
              /\ row.origin = Context(env, handler[h].request).origin
              /\ row.createdAt = now /\ row.expiresAt = now + ChallengeTTL
              /\ handler' = [handler EXCEPT ![h].pc = "answer", ![h].row = row]
        BY <2>6, <3>2, StoreFrame
      <4>2. RowInv(row)'
        BY <2>6, <4>1, NewRow DEF CeremonyInv, StoreChallenge
      <4>3. SameRequest(h) /\ handler'[h].row = row /\ handler'[h].user = handler[h].user
            /\ handler'[h].pc = "answer"
        BY <2>1, <4>1 DEF SameRequest, Running
      <4>4. /\ handler[h].route = "begin"
            /\ handler[h].request \in Envelopes[handler[h].client]["begin"]
        BY <1>4, <2>1, <2>6 DEF RequestInv, StoreChallenge
      <4>5. Offered(handler[h].client, row)'
        BY <1>1, <3>2, <4>1, <4>3, <4>4 DEF Offered, SameRequest
      <4> QED
        <5>1. RowInv(handler[h].row)' /\ Offered(handler[h].client, handler[h].row)'
          BY <4>2, <4>3, <4>5 DEF RowInv, Offered
        <5> QED
          BY <1>1, <1>4, <2>1, <4>1, <4>3, <4>4, <5>1
          DEF RequestInv, SameRequest, RowsFrame, SessionPc
    <3> QED
      BY <2>6, <3>1, <3>2, StoreFrame
  <2>7. CASE Verify(h)
    <3>1. CASE Goto(h, "answer")
      BY <2>3, <3>1 DEF SessionPc
    <3>2. CASE \E row : handler' = [handler EXCEPT ![h].pc = "spend", ![h].row = row]
      <4>1. handler[h].route # "begin"
        BY <1>4, <2>1, <2>7 DEF RequestInv, Verify
      <4>2. PICK row : handler' = [handler EXCEPT ![h].pc = "spend", ![h].row = row]
        BY <3>2
      <4>3. "spend" \notin {"store", "verify"} \cup SessionPc
        BY DEF SessionPc
      <4> QED
        BY <2>2, <4>1, <4>2, <4>3
    <3> QED
      BY <2>7, <3>1, <3>2 DEF Verify
  <2>8. CASE Spend(h) \/ CheckOwned(h) \/ FindIntent(h) \/ UpdateIntent(h) \/ InsertIntent(h)
    <3>1. \E pc : pc \notin {"store", "verify"} \cup SessionPc /\ Goto(h, pc)
      BY <2>8 DEF Spend, CheckOwned, FindIntent, UpdateIntent, InsertIntent, SessionPc
    <3> QED
      BY <2>3, <3>1
  <2>9. ~Answer(h)
    BY DEF Answer, Busy, Idle
  <2> QED
    BY <1>4, <2>4, <2>5, <2>6, <2>7, <2>8, <2>9 DEF Step
<1> QED
  BY <1>2, <1>3, <1>4, Moves

\* The rows of the challenges table, old and new.
LEMMA AllRowsStep ==
  ASSUME TypeInv, CeremonyInv, [Next]_vars, NEW row \in challenges'
  PROVE  RowInv(row)'
<1>1. RowsFrame
  BY RowsMonotone
<1>2. CASE row \in challenges
  <2>1. row \in ChallengeRow /\ RowInv(row)
    BY <1>2 DEF TypeInv, TypeOK, CeremonyInv
  <2> QED
    BY <1>1, <2>1, RowKept
<1>3. CASE row \notin challenges
  <2>1. PICK h \in Handlers : StoreChallenge(h)
    BY <1>3
    DEF Next, Step, Send, ReadSession, TouchSession, CreateSession, Verify, Spend, CheckOwned,
        FindIntent, UpdateIntent, InsertIntent, Answer, Fail, MoveAccount, Tick, vars, tables
  <2>2. /\ row \in ChallengeRow /\ row.id \notin issued
        /\ issued' = issued \cup {row.id} /\ challenges' = challenges \cup {row}
        /\ row.createdAt = now /\ row.expiresAt = now + ChallengeTTL
    BY <1>3, <2>1, StoreFrame
  <2> QED
    BY <2>1, <2>2, NewRow DEF CeremonyInv, StoreChallenge
<1> QED
  BY <1>2, <1>3

\* A response answers the begin request of its client.
LEMMA ResponseStep ==
  ASSUME TypeInv, CeremonyInv, [Next]_vars, NEW r \in responses'
  PROVE  ResponseInv(r)'
<1>1. RowsFrame /\ UNCHANGED env
  BY RowsMonotone
  DEF Next, Step, Send, ReadSession, TouchSession, CreateSession, StoreChallenge, Verify, Spend,
      CheckOwned, FindIntent, UpdateIntent, InsertIntent, Answer, Fail, MoveAccount, Tick, vars
<1>2. CASE r \in responses
  BY <1>1, <1>2 DEF CeremonyInv, ResponseInv, RowsFrame, Offered
<1>3. CASE r \notin responses
  <2>1. PICK h \in Handlers : Answer(h)
    BY <1>3
    DEF Next, Step, Send, ReadSession, TouchSession, CreateSession, StoreChallenge, Verify, Spend,
        CheckOwned, FindIntent, UpdateIntent, InsertIntent, Fail, MoveAccount, Tick, vars, browser
  <2>2. Busy(h) /\ handler[h].route = "begin" /\ handler[h].row # None
        /\ \E rpId \in Signs(handler[h].client, handler[h].row) :
             r = [client |-> handler[h].client, challenge |-> handler[h].row.id, rpId |-> rpId]
    BY <1>3, <2>1 DEF Answer, Busy
  <2>3. RowInv(handler[h].row) /\ Offered(handler[h].client, handler[h].row)
    BY <2>2 DEF CeremonyInv, RequestInv
  <2>4. UNCHANGED <<env, issued, challenges>>
    BY <2>1 DEF Answer, tables
  <2> QED
    BY <2>2, <2>3, <2>4 DEF ResponseInv, RowInv, Offered
<1> QED
  BY <1>2, <1>3

-----------------------------------------------------------------------------
\* Session rows are never deleted, and a new one is not empty.
LEMMA SessionsStay ==
  ASSUME TypeInv, [Next]_vars
  PROVE  \A u \in Users : session[u] > 0 => session'[u] > 0
<1>1. ASSUME NEW h \in Handlers, TouchSession(h) \/ CreateSession(h)
      PROVE  \A u \in Users : session[u] > 0 => session'[u] > 0
  <2>1. PICK v \in Users : session' = [session EXCEPT ![v] = handler[h].now + SessionTTL]
    BY <1>1, ResolveFrame
  <2>2. handler[h].now + SessionTTL > 0
    BY <1>1, ResolveFrame, TimeAssumption DEF Running
  <2> QED
    BY <2>1, <2>2 DEF TypeInv, TypeOK
<1>2. CASE UNCHANGED session
  BY <1>2
<1> QED
  BY <1>1, <1>2
  DEF Next, Step, Send, ReadSession, StoreChallenge, Verify, Spend, CheckOwned, FindIntent,
      UpdateIntent, InsertIntent, Answer, Fail, MoveAccount, Tick, vars, tables

\* A step leaves the cookie, or stores that of a request that is over.
LEMMA JarStep ==
  ASSUME TypeInv, [Next]_vars
  PROVE  \/ UNCHANGED <<jar, seen>>
         \/ \E h \in Handlers :
              /\ Busy(h) /\ handler[h].user # None /\ HasCookies(handler[h].client)
              /\ Answer(h) \/ Fail(h)
              /\ jar' = [user |-> handler[h].user, until |-> now + SessionTTL] /\ seen' = now
              /\ jar' # None /\ jar'.user = handler[h].user /\ jar'.until = now + SessionTTL
<1>1. ASSUME NEW h \in Handlers, Answer(h) \/ Fail(h), ~UNCHANGED <<jar, seen>>
      PROVE  /\ Busy(h) /\ handler[h].user # None /\ HasCookies(handler[h].client)
             /\ jar' = [user |-> handler[h].user, until |-> now + SessionTTL] /\ seen' = now
             /\ jar' # None /\ jar'.user = handler[h].user /\ jar'.until = now + SessionTTL
  <2>1. Busy(h) /\ handler[h].user # None /\ StoreCookie(h)
    BY <1>1 DEF Answer, Fail, Busy, TypeInv, KnownInv, RoutePc
  <2>2. HasCookies(handler[h].client)
        /\ jar' = [user |-> handler[h].user, until |-> now + SessionTTL] /\ seen' = now
    BY <1>1, <2>1 DEF StoreCookie
  <2>3. jar' \in [user : Users, until : Nat]
    BY <2>1, <2>2, ClockTypes
  <2> QED
    BY <2>1, <2>2, <2>3, ClientAssumption
<1>2. CASE UNCHANGED <<jar, seen>>
  BY <1>2
<1> QED
  BY <1>1, <1>2
  DEF Next, Step, Send, ReadSession, TouchSession, CreateSession, StoreChallenge, Verify, Spend,
      CheckOwned, FindIntent, UpdateIntent, InsertIntent, MoveAccount, Tick, vars, browser

\* How a request comes to its user: from the cookie it carries, or by a new row.
LEMMA SessionMoves ==
  ASSUME TypeInv, [Next]_vars, NEW h \in Handlers, Busy(h)'
  PROVE  \/ /\ handler'[h].sid = Carried(handler'[h].client) /\ handler'[h].user = None
            /\ handler'[h].pc = "read" /\ UNCHANGED <<env, now, session, jar, seen>>
         \/ /\ Busy(h) /\ handler'[h].client = handler[h].client
            /\ handler'[h].sid = handler[h].sid
            /\ \/ /\ handler'[h].user = handler[h].user
                  /\ handler'[h].pc \in SessionPc => handler[h].pc \in SessionPc
                  /\ handler'[h].pc = "touch"
                       => \/ handler[h].pc = "touch"
                          \/ handler[h].sid # None /\ session[handler[h].sid] > now
               \/ /\ TouchSession(h) /\ handler'[h].user = handler[h].sid
                  /\ handler[h].sid \in Users /\ handler'[h].pc \notin SessionPc
               \/ /\ CreateSession(h) /\ handler'[h].pc \notin SessionPc
                  /\ handler'[h].user \in Users
                  /\ session[handler'[h].user] = 0
                  /\ session' = [session EXCEPT ![handler'[h].user] =
                                                  handler[h].now + SessionTTL]
<1>1. ASSUME NEW c \in Clients, NEW route \in Routes,
             NEW request \in Envelopes[c][route], NEW response \in responses \cup {None},
             Send(h, c, route, request, response)
      PROVE  /\ handler'[h].sid = Carried(handler'[h].client) /\ handler'[h].user = None
             /\ handler'[h].pc = "read" /\ UNCHANGED <<env, now, session, jar, seen>>
  BY <1>1, SendFrame
<1>2. CASE ReadSession(h)
  <2>1. /\ Busy(h) /\ handler[h] \in Running /\ handler[h].pc = "read"
        /\ handler'[h].client = handler[h].client /\ handler'[h].sid = handler[h].sid
        /\ handler'[h].user = handler[h].user
    BY <1>2, ReadFrame DEF Kept
  <2>2. handler'[h].pc = "touch" => handler[h].sid # None /\ session[handler[h].sid] > now
    BY <1>2, <2>1 DEF ReadSession, Running, TypeInv, TypeOK
  <2> QED
    BY <2>1, <2>2 DEF SessionPc
<1>3. CASE TouchSession(h)
  <2>1. /\ Busy(h) /\ handler[h] \in Running /\ handler'[h].pc \notin SessionPc
        /\ handler'[h].client = handler[h].client /\ handler'[h].sid = handler[h].sid
    BY <1>3, ResolveFrame DEF Kept
  <2>2. handler[h].sid \in Users
    BY <1>3, <2>1 DEF TouchSession, TypeInv, KnownInv, Running
  <2>3. handler'[h].user = handler[h].sid
    BY <1>3, <2>1 DEF TouchSession, Resolved, TypeInv, TypeOK, Running
  <2> QED
    BY <1>3, <2>1, <2>2, <2>3
<1>4. CASE CreateSession(h)
  <2>1. /\ Busy(h) /\ handler[h] \in Running /\ handler'[h].pc \notin SessionPc
        /\ handler'[h].client = handler[h].client /\ handler'[h].sid = handler[h].sid
    BY <1>4, ResolveFrame DEF Kept
  <2>2. PICK u \in Users : /\ session[u] = 0
                           /\ session' = [session EXCEPT ![u] = handler[h].now + SessionTTL]
                           /\ Resolved(h, u)
    BY <1>4 DEF CreateSession
  <2>3. handler'[h].user = u
    BY <2>1, <2>2 DEF Resolved, TypeInv, TypeOK, Running
  <2> QED
    BY <1>4, <2>1, <2>2, <2>3
<1>5. ASSUME \/ StoreChallenge(h) \/ Verify(h) \/ Spend(h) \/ CheckOwned(h)
             \/ FindIntent(h) \/ UpdateIntent(h) \/ InsertIntent(h) \/ Answer(h)
      PROVE  /\ Busy(h) /\ handler'[h].client = handler[h].client
             /\ handler'[h].sid = handler[h].sid /\ handler'[h].user = handler[h].user
             /\ handler'[h].pc \in SessionPc => handler'[h].pc = handler[h].pc
  BY <1>5, AfterSessionFrame DEF RouteFrame, SameSession, Kept
<1>6. CASE Step(h)
  BY <1>2, <1>3, <1>4, <1>5, <1>6 DEF Step, SessionPc
<1>7. CASE /\ Busy(h) /\ SameRequest(h) /\ handler'[h].pc = handler[h].pc
           /\ handler'[h].user = handler[h].user /\ handler'[h].sid = handler[h].sid
  BY <1>7 DEF SameRequest
<1> QED
  BY <1>1, <1>6, <1>7, Moves

LEMMA NamedStep ==
  ASSUME TypeInv, NamedInv, [Next]_vars
  PROVE  NamedInv'
<1>1. jar' # None => seen' # None /\ session'[jar'.user] > 0
  <2>1. jar # None => jar.user \in Users
    BY ClockTypes
  <2>2. CASE UNCHANGED <<jar, seen>>
    BY <2>1, <2>2, SessionsStay DEF NamedInv
  <2>3. CASE \E h \in Handlers : /\ Busy(h) /\ handler[h].user # None
                                 /\ jar'.user = handler[h].user /\ seen' = now
    BY <2>3, ClockTypes, ClientAssumption, SessionsStay DEF NamedInv
  <2> QED
    BY <2>2, <2>3, JarStep
<1>2. ASSUME NEW h \in Handlers, Busy(h)'
      PROVE  /\ handler'[h].sid # None => session'[handler'[h].sid] > 0
             /\ handler'[h].user # None => session'[handler'[h].user] > 0
             /\ handler'[h].pc \in SessionPc => handler'[h].user = None
             /\ handler'[h].sid # None => HasCookies(handler[h].client)'
  <2>0. UNCHANGED env
    BY DEF Next, Step, Send, ReadSession, TouchSession, CreateSession, StoreChallenge, Verify,
           Spend, CheckOwned, FindIntent, UpdateIntent, InsertIntent, Answer, Fail, MoveAccount,
           Tick, vars
  <2>1. CASE /\ handler'[h].sid = Carried(handler'[h].client) /\ handler'[h].user = None
             /\ UNCHANGED <<env, now, session, jar, seen>>
    BY <2>1 DEF Carried, NamedInv, HasCookies
  <2>2. CASE /\ Busy(h) /\ handler'[h].client = handler[h].client
             /\ handler'[h].sid = handler[h].sid
             /\ handler'[h].user = handler[h].user
             /\ handler'[h].pc \in SessionPc => handler[h].pc \in SessionPc
    BY <2>0, <2>2, ClockTypes, SessionsStay DEF NamedInv, HasCookies
  <2>3. CASE /\ Busy(h) /\ handler'[h].client = handler[h].client
             /\ handler'[h].sid = handler[h].sid /\ handler[h].sid \in Users
             /\ handler'[h].user = handler[h].sid /\ handler'[h].pc \notin SessionPc
    BY <2>0, <2>3, ClockTypes, ClientAssumption, SessionsStay DEF NamedInv, HasCookies
  <2>4. CASE /\ Busy(h) /\ handler'[h].client = handler[h].client
             /\ handler'[h].sid = handler[h].sid /\ handler'[h].user \in Users
             /\ CreateSession(h) /\ handler'[h].pc \notin SessionPc
             /\ session' = [session EXCEPT ![handler'[h].user] = handler[h].now + SessionTTL]
    <3>1. handler[h].now + SessionTTL > 0
      BY <2>4, ClockTypes, TimeAssumption
    <3>2. session'[handler'[h].user] > 0
      BY <2>4, <3>1 DEF TypeInv, TypeOK
    <3> QED
      BY <2>0, <2>4, <3>2, ClockTypes, SessionsStay DEF NamedInv, HasCookies
  <2> QED
    BY <1>2, <2>1, <2>2, <2>3, <2>4, SessionMoves
<1> QED
  BY <1>1, <1>2 DEF NamedInv

-----------------------------------------------------------------------------
\* A row that lives after a step has lived before, is touched by its user or is new.
LEMMA LivesOn ==
  ASSUME TypeInv, NamedInv, [Next]_vars, NEW u \in Users, session'[u] > now'
  PROVE  \/ session[u] > now
         \/ \E h \in Handlers : HeldBy(h, u)
         \/ \E h \in Handlers : CreateSession(h) /\ session[u] = 0 /\ handler'[h].user = u
<1>1. now \in Nat /\ now' \in Nat /\ now <= now' /\ session[u] \in Nat
  BY RowsMonotone DEF RowsFrame, TypeInv, TypeOK
<1>2. ASSUME NEW h \in Handlers, TouchSession(h), ~(session[u] > now)
      PROVE  HeldBy(h, u)
  <2>1. Busy(h) /\ handler[h].pc = "touch" /\ handler[h].user = None
        /\ handler[h].sid \in Users /\ HasCookies(handler[h].client)
    BY <1>2, ClientAssumption, ClockTypes
    DEF TouchSession, Busy, NamedInv, SessionPc, TypeInv, KnownInv
  <2>2. handler[h].sid = u
    BY <1>1, <1>2, <2>1 DEF TouchSession, TypeInv, TypeOK
  <2> QED
    BY <2>1, <2>2 DEF HeldBy
<1>3. ASSUME NEW h \in Handlers, CreateSession(h), ~(session[u] > now)
      PROVE  session[u] = 0 /\ handler'[h].user = u
  <2>1. /\ handler'[h].user \in Users /\ session[handler'[h].user] = 0
        /\ session' = [session EXCEPT ![handler'[h].user] = handler[h].now + SessionTTL]
    <3>1. PICK v \in Users : /\ session[v] = 0 /\ Resolved(h, v)
                             /\ session' = [session EXCEPT ![v] = handler[h].now + SessionTTL]
      BY <1>3 DEF CreateSession
    <3>2. handler'[h].user = v
      BY <1>3, <3>1, ResolveFrame DEF Resolved, TypeInv, TypeOK, Running
    <3> QED
      BY <3>1, <3>2
  <2> QED
    BY <1>1, <1>3, <2>1 DEF TypeInv, TypeOK
<1>4. CASE UNCHANGED session
  BY <1>1, <1>4
<1> QED
  BY <1>2, <1>3, <1>4
  DEF Next, Step, Send, ReadSession, StoreChallenge, Verify, Spend, CheckOwned, FindIntent,
      UpdateIntent, InsertIntent, Answer, Fail, MoveAccount, Tick, vars, tables

\* Only a new row brings a user into play, and only for the request that made it.
LEMMA InPlayStep ==
  ASSUME TypeInv, NamedInv, [Next]_vars, NEW u \in Users, InPlay(u)', ~InPlay(u)
  PROVE  \E h \in Handlers : /\ CreateSession(h) /\ HasCookies(handler[h].client)
                             /\ handler'[h].user = u /\ session[u] = 0
<1>1. now \in Nat /\ now' \in Nat /\ now <= now' /\ UNCHANGED env /\ session[u] \in Nat
  BY RowsMonotone
  DEF RowsFrame, TypeInv, TypeOK, Next, Step, Send, ReadSession, TouchSession, CreateSession,
      StoreChallenge, Verify, Spend, CheckOwned, FindIntent, UpdateIntent, InsertIntent, Answer,
      Fail, MoveAccount, Tick, vars
<1>2. \A h \in Handlers : ~HeldBy(h, u)
  BY DEF InPlay
<1>3. session'[u] > now' => session[u] > now \/ session[u] = 0
  BY <1>2, LivesOn
<1>4. ~InJar(u)'
  <2> SUFFICES ASSUME jar' # None, jar'.user = u, jar'.until > now', session'[u] > now'
               PROVE  FALSE
    BY DEF InJar
  <2>1. CASE UNCHANGED jar
    <3>1. jar # None /\ jar.user = u /\ jar.until > now /\ session[u] > 0
      BY <1>1, <2>1, ClockTypes DEF NamedInv
    <3> QED
      BY <1>3, <3>1 DEF InPlay, InJar
  <2>2. ASSUME NEW h \in Handlers, Busy(h), handler[h].user = u, HasCookies(handler[h].client)
        PROVE  FALSE
    BY <1>2, <2>2 DEF HeldBy
  <2> QED
    BY <2>1, <2>2, JarStep
<1>5. PICK h \in Handlers : HeldBy(h, u)'
  BY <1>4 DEF InPlay
<1>6. /\ Busy(h)' /\ HasCookies(handler[h].client)'
      /\ \/ handler'[h].user = u
         \/ /\ handler'[h].user = None /\ handler'[h].sid = u
            /\ handler'[h].pc = "touch" \/ session'[u] > now'
  BY <1>5 DEF HeldBy
<1>7. CASE /\ handler'[h].sid = Carried(handler'[h].client) /\ handler'[h].user = None
           /\ handler'[h].pc = "read" /\ UNCHANGED <<env, now, session, jar, seen>>
  <2>1. Carried(handler'[h].client) = u /\ session[u] > now
    BY <1>6, <1>7, ClientAssumption
  <2> QED
    BY <2>1, ClientAssumption DEF Carried, InPlay, InJar
<1>8. CASE /\ Busy(h) /\ handler'[h].client = handler[h].client
           /\ handler'[h].sid = handler[h].sid
           /\ handler'[h].user = handler[h].user
           /\ handler'[h].pc = "touch"
                => \/ handler[h].pc = "touch"
                   \/ handler[h].sid # None /\ session[handler[h].sid] > now
  <2>1. HasCookies(handler[h].client)
    BY <1>1, <1>6, <1>8 DEF HasCookies
  <2>2. handler[h].sid = u => session[u] > 0
    BY <1>8, ClientAssumption DEF NamedInv
  <2> QED
    BY <1>1, <1>2, <1>3, <1>6, <1>8, <2>1, <2>2 DEF HeldBy
<1>9. CASE /\ Busy(h) /\ handler'[h].client = handler[h].client
           /\ TouchSession(h) /\ handler'[h].user = handler[h].sid
           /\ handler[h].sid \in Users /\ handler'[h].pc \notin SessionPc
  <2>1. HasCookies(handler[h].client) /\ handler[h].user = None /\ handler[h].pc = "touch"
    BY <1>1, <1>6, <1>9 DEF HasCookies, TouchSession, NamedInv, SessionPc
  <2>2. handler[h].sid = u
    BY <1>6, <1>9, ClientAssumption
  <2> QED
    BY <1>2, <1>9, <2>1, <2>2 DEF HeldBy
<1>10. CASE /\ Busy(h) /\ handler'[h].client = handler[h].client
            /\ CreateSession(h) /\ handler'[h].user \in Users
            /\ session[handler'[h].user] = 0
  <2>1. HasCookies(handler[h].client)
    BY <1>1, <1>6, <1>10 DEF HasCookies
  <2>2. handler'[h].user = u
    BY <1>6, <1>10, ClientAssumption
  <2> QED
    BY <1>10, <2>1, <2>2
<1> QED
  BY <1>6, <1>7, <1>8, <1>9, <1>10, SessionMoves

\* A request that is alone and makes a user leaves no other in play.
LEMMA LoneCreate ==
  ASSUME TypeInv, ActiveInv, NamedInv, NEW h \in Handlers, CreateSession(h),
         HasCookies(handler[h].client), ~split', NEW u \in Users, InPlay(u)
  PROVE  FALSE
<1>1. Busy(h) /\ handler[h].pc = "create" /\ handler[h].shared # TRUE
      /\ handler[h].user = None
  BY DEF CreateSession, Busy, NamedInv, SessionPc
<1>2. /\ \A g \in Handlers : Busy(g) => g = h
      /\ seen # None
           => handler[h].sid = jar.user \/ (handler[h].sid = None /\ jar.until <= handler[h].since)
      /\ handler[h].sid # None => session[handler[h].sid] <= handler[h].now
      /\ handler[h].since <= handler[h].now /\ handler[h].now <= now
  BY <1>1 DEF ActiveInv, AloneInv, TimeInv, SessionPc
<1>3. handler[h].since \in Nat /\ handler[h].now \in Nat /\ now \in Nat /\ session[u] \in Nat
  BY <1>1, ClockTypes
<1>4. ~HeldBy(h, u)
  <2>1. handler[h].sid = u => session[u] <= now
    BY <1>2, <1>3, ClientAssumption
  <2> QED
    BY <1>1, <1>3, <2>1, ClientAssumption DEF HeldBy
<1>5. ~InJar(u)
  <2> SUFFICES ASSUME jar # None, jar.user = u, jar.until > now, session[u] > now
               PROVE  FALSE
    BY DEF InJar
  <2>1. seen # None /\ jar.until \in Nat
    BY ClockTypes DEF NamedInv
  <2>2. handler[h].sid = u
    BY <1>2, <1>3, <2>1
  <2> QED
    BY <1>2, <1>3, <2>2, ClientAssumption
<1>6. \A g \in Handlers : ~HeldBy(g, u)
  BY <1>2, <1>4 DEF HeldBy
<1> QED
  BY <1>5, <1>6 DEF InPlay

\* A step that makes no user of an overlapping request keeps one user in play.
LEMMA OneUserStep ==
  ASSUME TypeInv, ActiveInv, NamedInv, OneUserInv, [Next]_vars
  PROVE  OneUserInv'
<1> SUFFICES ASSUME ~split', NEW u \in Users, NEW v \in Users, InPlay(u)', InPlay(v)'
             PROVE  u = v
  BY DEF OneUserInv
<1>1. ~split
  BY DEF Next, Step, Send, ReadSession, TouchSession, CreateSession, StoreChallenge, Verify, Spend,
         CheckOwned, FindIntent, UpdateIntent, InsertIntent, Answer, Fail, MoveAccount, Tick, vars
<1>2. CASE InPlay(u) /\ InPlay(v)
  BY <1>1, <1>2 DEF OneUserInv
<1>3. ASSUME NEW a \in Users, NEW b \in Users, InPlay(a)', InPlay(b)', ~InPlay(a)
      PROVE  a = b
  <2>1. PICK h \in Handlers : /\ CreateSession(h) /\ HasCookies(handler[h].client)
                              /\ handler'[h].user = a
    BY <1>3, InPlayStep
  <2>2. ~InPlay(b)
    BY <2>1, LoneCreate
  <2>3. PICK g \in Handlers : CreateSession(g) /\ handler'[g].user = b
    BY <1>3, <2>2, InPlayStep
  <2>4. g = h
    <3>1. handler[g].user = None /\ handler'[g].user # None
      BY <2>3, ClientAssumption DEF CreateSession, Busy, NamedInv, SessionPc
    <3> QED
      BY <2>1, <3>1 DEF CreateSession, Resolved, TypeInv, TypeOK
  <2> QED
    BY <2>1, <2>3, <2>4
<1> QED
  BY <1>2, <1>3

-----------------------------------------------------------------------------
\* A row is over before a session that was read or touched by a running request.
LEMMA RowIsShort ==
  ASSUME TypeInv, ActiveInv, NEW row \in ChallengeRow, RowInv(row)
  PROVE  /\ row.expiresAt \in Nat /\ now \in Nat
         /\ row.expiresAt <= now + SessionTTL
         /\ \A h \in Handlers : Busy(h) =>
              /\ row.expiresAt <= handler[h].now + SessionTTL
              /\ row.expiresAt + Latency <= handler[h].since + SessionTTL
<1>1. /\ row.expiresAt \in Nat /\ row.createdAt \in Nat
      /\ row.createdAt <= now /\ row.expiresAt = row.createdAt + ChallengeTTL
  BY DEF RowInv, ChallengeRow
<1>2. /\ now \in Nat /\ SessionTTL \in Nat /\ Latency \in Nat /\ ChallengeTTL \in Nat
      /\ ChallengeTTL + 2 * Latency <= SessionTTL
  BY TimeAssumption DEF TypeInv, TypeOK
<1>3. ASSUME NEW h \in Handlers, Busy(h)
      PROVE  /\ row.expiresAt <= handler[h].now + SessionTTL
             /\ row.expiresAt + Latency <= handler[h].since + SessionTTL
  <2>1. handler[h].since \in Nat /\ handler[h].now \in Nat
    BY <1>3, ClockTypes
  <2>2. handler[h].since <= handler[h].now /\ now <= handler[h].since + Latency
    BY <1>3 DEF ActiveInv, TimeInv
  <2> QED
    BY <1>1, <1>2, <2>1, <2>2
<1> QED
  BY <1>1, <1>2, <1>3

\* A session row is only ever written to last longer than the challenge rows.
LEMMA SessionOutlives ==
  ASSUME TypeInv, ActiveInv, [Next]_vars, NEW row \in ChallengeRow, RowInv(row),
         row.expiresAt <= session[row.user]
  PROVE  row.expiresAt <= session'[row.user]
<1>1. row.user \in Users
  BY DEF ChallengeRow
<1>2. ASSUME NEW h \in Handlers, TouchSession(h) \/ CreateSession(h)
      PROVE  row.expiresAt <= session'[row.user]
  <2>1. Busy(h) /\ \E u \in Users : session' = [session EXCEPT ![u] = handler[h].now + SessionTTL]
    BY <1>2, ResolveFrame
  <2>2. row.expiresAt <= handler[h].now + SessionTTL
    BY <2>1, RowIsShort
  <2> QED
    BY <1>1, <2>1, <2>2 DEF TypeInv, TypeOK
<1>3. CASE UNCHANGED session
  BY <1>3
<1> QED
  BY <1>2, <1>3
  DEF Next, Step, Send, ReadSession, StoreChallenge, Verify, Spend, CheckOwned, FindIntent,
      UpdateIntent, InsertIntent, Answer, Fail, MoveAccount, Tick, vars, tables

\* The response to a begin request comes back with that request's cookie.
LEMMA NewGood ==
  ASSUME TypeInv, ActiveInv, CeremonyInv, NEW h \in Handlers, Answer(h),
         NEW r \in responses', r \notin responses
  PROVE  GoodInv(r)'
<1>1. /\ Busy(h) /\ handler[h].route = "begin" /\ handler[h].row # None
      /\ \E rpId : r = [client |-> handler[h].client, challenge |-> handler[h].row.id,
                        rpId |-> rpId]
      /\ StoreCookie(h) /\ UNCHANGED <<env, now, session, challenges>>
  BY DEF Answer, Busy, tables
<1>2. r.client = handler[h].client /\ r.challenge = handler[h].row.id
  BY <1>1
<1>3. /\ RowInv(handler[h].row) /\ handler[h].row.user = handler[h].user
  BY <1>1 DEF CeremonyInv, RequestInv
<1>4. handler[h] \in Running /\ handler[h].user \in Users
  BY <1>1, BusyIsRunning DEF Answer, TypeInv, KnownInv, Running, RoutePc
<1>5. SUFFICES ASSUME HasCookies(r.client)', NEW row \in challenges,
                      row.id = r.challenge, row.expiresAt > now
               PROVE  /\ jar' # None /\ jar'.user = row.user /\ row.expiresAt <= jar'.until
                      /\ row.expiresAt <= session[row.user]
  BY <1>1 DEF GoodInv
<1>6. row = handler[h].row /\ RowInv(row) /\ row \in ChallengeRow /\ row.user = handler[h].user
  BY <1>2, <1>3, <1>5 DEF RowInv, TypeInv, TypeOK
<1>7. HasCookies(handler[h].client)
  BY <1>1, <1>2, <1>5 DEF HasCookies
<1>8. jar' = [user |-> handler[h].user, until |-> now + SessionTTL]
  BY <1>1, <1>7 DEF StoreCookie
<1>9. jar' # None /\ jar'.user = handler[h].user /\ jar'.until = now + SessionTTL
  <2>1. jar' \in [user : Users, until : Nat]
    BY <1>4, <1>8, ClockTypes
  <2> QED
    BY <1>8, <2>1, ClientAssumption
<1>10. row.expiresAt <= session[row.user]
  <2>1. handler[h].since + SessionTTL <= session[row.user] + Latency
    BY <1>1, <1>4, <1>6, ClientAssumption DEF ActiveInv, UserInv
  <2>2. row.expiresAt + Latency <= handler[h].since + SessionTTL /\ row.expiresAt \in Nat
    BY <1>1, <1>6, RowIsShort
  <2>3. session[row.user] \in Nat /\ handler[h].since \in Nat
    BY <1>1, <1>4, <1>6, ClockTypes
  <2> QED
    BY <2>1, <2>2, <2>3, TimeAssumption
<1> QED
  BY <1>6, <1>9, <1>10, RowIsShort

(* While a signed challenge is good only its user is in play, so no reply  *)
(* takes the browser away from it.                                         *)
LEMMA GoodStep ==
  ASSUME TypeInv, ActiveInv, CeremonyInv, [Next]_vars, NEW r \in responses'
  PROVE  GoodInv(r)'
<1>1. RowsFrame
  BY RowsMonotone
<1>2. UNCHANGED env
  BY DEF Next, Step, Send, ReadSession, TouchSession, CreateSession, StoreChallenge, Verify, Spend,
         CheckOwned, FindIntent, UpdateIntent, InsertIntent, Answer, Fail, MoveAccount, Tick, vars
<1>3. CASE r \notin responses
  <2>1. PICK h \in Handlers : Answer(h)
    BY <1>3
    DEF Next, Step, Send, ReadSession, TouchSession, CreateSession, StoreChallenge, Verify, Spend,
        CheckOwned, FindIntent, UpdateIntent, InsertIntent, Fail, MoveAccount, Tick, vars, browser
  <2> QED
    BY <1>3, <2>1, NewGood
<1>4. CASE r \in responses
  <2>1. SUFFICES ASSUME ~split', HasCookies(r.client)', NEW row \in challenges',
                        row.id = r.challenge, row.expiresAt > now'
                 PROVE  /\ jar' # None /\ jar'.user = row.user /\ row.expiresAt <= jar'.until
                        /\ row.expiresAt <= session'[row.user]
    BY DEF GoodInv
  <2>2. row \in challenges /\ row \in ChallengeRow /\ RowInv(row)
    BY <1>1, <1>4, <2>1 DEF CeremonyInv, ResponseInv, RowsFrame, TypeInv, TypeOK
  <2>3. row.expiresAt \in Nat /\ row.expiresAt > now /\ row.user \in Users
    BY <1>1, <2>1, <2>2 DEF RowsFrame, ChallengeRow
  <2>4. ~split /\ HasCookies(r.client)
    <3>1. ~split
      BY <2>1
      DEF Next, Step, Send, ReadSession, TouchSession, CreateSession, StoreChallenge, Verify,
          Spend, CheckOwned, FindIntent, UpdateIntent, InsertIntent, Answer, Fail, MoveAccount,
          Tick, vars
    <3> QED
      BY <1>2, <2>1, <3>1 DEF HasCookies
  <2>5. /\ jar # None /\ jar.user = row.user /\ row.expiresAt <= jar.until
        /\ row.expiresAt <= session[row.user]
    BY <1>4, <2>1, <2>2, <2>3, <2>4 DEF CeremonyInv, GoodInv
  <2>6. InPlay(row.user)
    <3>1. now \in Nat /\ jar.until \in Nat /\ session[row.user] \in Nat
      BY <2>3, <2>5, ClockTypes
    <3> QED
      BY <2>3, <2>5, <3>1 DEF InPlay, InJar
  <2>7. row.expiresAt <= session'[row.user]
    BY <2>2, <2>5, SessionOutlives
  <2>8. CASE UNCHANGED jar
    BY <2>5, <2>7, <2>8
  <2>9. ASSUME NEW h \in Handlers, Busy(h), handler[h].user # None,
               HasCookies(handler[h].client), jar' # None,
               jar'.user = handler[h].user, jar'.until = now + SessionTTL
        PROVE  /\ jar' # None /\ jar'.user = row.user /\ row.expiresAt <= jar'.until
    <3>1. handler[h].user \in Users /\ InPlay(handler[h].user)
      BY <2>9, ClockTypes DEF InPlay, HeldBy
    <3>2. handler[h].user = row.user
      BY <2>3, <2>4, <2>6, <3>1 DEF CeremonyInv, OneUserInv
    <3> QED
      BY <2>2, <2>9, <3>2, RowIsShort
  <2> QED
    BY <2>7, <2>8, <2>9, JarStep
<1> QED
  BY <1>3, <1>4

LEMMA CeremonyNext == TypeInv /\ ActiveInv /\ CeremonyInv /\ [Next]_vars => CeremonyInv'
<1> SUFFICES ASSUME TypeInv, ActiveInv, CeremonyInv, [Next]_vars
             PROVE  CeremonyInv'
  OBVIOUS
<1>1. OneUserInv' /\ NamedInv'
  BY OneUserStep, NamedStep DEF CeremonyInv
<1>2. (\A row \in challenges : RowInv(row))'
  BY AllRowsStep
<1>3. (\A h \in Handlers : RequestInv(h))'
  BY RequestStep
<1>4. (\A r \in responses : ResponseInv(r) /\ GoodInv(r))'
  BY ResponseStep, GoodStep
<1> QED
  BY <1>1, <1>2, <1>3, <1>4 DEF CeremonyInv

LEMMA InitCeremony == Init => CeremonyInv
<1> SUFFICES ASSUME Init
             PROVE  CeremonyInv
  OBVIOUS
<1>1. \A h \in Handlers : ~Busy(h)
  BY DEF Init, Busy, Idle
<1>2. OneUserInv
  BY <1>1 DEF OneUserInv, InPlay, InJar, HeldBy, Init
<1>3. NamedInv
  BY <1>1 DEF NamedInv, Init
<1>4. \A h \in Handlers : RequestInv(h)
  BY <1>1 DEF RequestInv
<1> QED
  BY <1>2, <1>3, <1>4 DEF CeremonyInv, Init

-----------------------------------------------------------------------------
\* A configured page's response to what its begin was offered is verified.
LEMMA HonestVerifies ==
  ASSUME TypeInv, NEW c \in Clients,
         NEW row \in ChallengeRow, Offered(c, row),
         NEW request \in Envelopes[c]["finish"], Configured(c, request),
         FinishHints(request, Page[c]) = ExtensionOf(Page[c]),
         NEW rpId \in Signs(c, row)
  PROVE  Verified(env, row, request, Page[c], rpId)
<1>1. Page[c] \in Url /\ env.allowed \subseteq ExtensionIds
  BY ClientAssumption DEF TypeInv, TypeOK, Deployment
<1>2. CASE Page[c].scheme = "chrome-extension"
  <2>1. PICK e \in ExtensionIds : e = Page[c].name /\ e \in env.allowed
    BY <1>1, <1>2 DEF Configured
  <2>2. Page[c] = ExtensionUrl(e)
    BY <1>1, <1>2, <2>1, ClientAssumption DEF ExtensionUrl, Url
  <2>3. FinishHints(request, ExtensionUrl(e)) = {e}
    <3>1. Page[c] # None
      BY <1>1, ClientAssumption
    <3> QED
      BY <1>2, <2>1, <2>2, <3>1 DEF ExtensionOf
  <2>4. rpId \in Candidates(e)
    BY <1>2, <2>1 DEF Signs
  <2> QED
    BY <2>1, <2>2, <2>3, <2>4, ExtensionVerifies
<1>3. CASE Page[c].scheme # "chrome-extension"
  <2>1. PICK begin \in Envelopes[c]["begin"] :
          /\ BeginAccepts(env, begin)
          /\ row.rpId = Context(env, begin).rpId /\ row.origin = Context(env, begin).origin
    BY DEF Offered
  <2>2. BeginHints(begin) = {} /\ begin.host = request.host /\ begin.proto = request.proto
    BY <1>3, <2>1, PagesArePlain
  <2>3. row.origin = OriginOfHost(env, request)
    BY <2>1, <2>2 DEF Context, OriginOfHost
  <2>4. row.origin = Page[c] /\ rpId = row.rpId
    BY <1>3, <2>3 DEF Configured, Signs
  <2>5. FinishHints(request, row.origin) = {}
    BY <1>3, <2>4 DEF ExtensionOf
  <2> QED
    BY <2>4, <2>5, PageVerifies
<1> QED
  BY <1>2, <1>3

\* An honest finish request finds its own row and nothing newer.
LEMMA HonestStep ==
  ASSUME TypeInv, CeremonyInv, NEW h \in Handlers,
         Verify(h), ~split, Honest(h)
  PROVE  handler'[h].pc = "spend"
<1> DEFINE c == handler[h].client
           response == handler[h].response
<1>1. Busy(h) /\ handler[h].pc = "verify" /\ handler[h] \in Running
  BY BusyIsRunning DEF Verify, Busy, TypeInv
<1>2. /\ handler[h].request \in Envelopes[c]["finish"]
      /\ response \in responses /\ response.client = c
      /\ handler[h].user \in Users
  BY <1>1 DEF CeremonyInv, RequestInv, TypeInv, KnownInv, Running, RoutePc
<1>3. PICK row \in challenges :
        /\ row.id = response.challenge /\ row.expiresAt > now
        /\ \A q \in challenges : q.user = row.user /\ q # row => q.createdAt < row.createdAt
  BY DEF Honest
<1>4. c \in Clients /\ row \in ChallengeRow
  BY <1>1 DEF Running, TypeInv, TypeOK
<1>5. Offered(c, row) /\ response.rpId \in Signs(c, row)
  BY <1>2, <1>3 DEF CeremonyInv, ResponseInv
<1>6. Verified(env, row, handler[h].request, Page[c], response.rpId)
  BY <1>2, <1>4, <1>5, HonestVerifies DEF Honest
<1>7. handler[h].user = row.user
  <2>1. HasCookies(c)
    BY DEF Honest, Configured, HasCookies, CrossSite
  <2>2. InPlay(handler[h].user)
    BY <1>1, <2>1 DEF InPlay, HeldBy
  <2>3. /\ jar # None /\ jar.user = row.user /\ row.expiresAt <= jar.until
        /\ row.expiresAt <= session[row.user]
    BY <1>2, <1>3, <2>1 DEF CeremonyInv, GoodInv
  <2>4. InPlay(row.user) /\ row.user \in Users
    <3>1. row.user \in Users /\ row.expiresAt \in Nat
      BY <1>4 DEF ChallengeRow
    <3>2. now \in Nat /\ jar.until \in Nat /\ session[row.user] \in Nat
      BY <2>3, <3>1, ClockTypes
    <3> QED
      BY <1>3, <2>3, <3>1, <3>2 DEF InPlay, InJar
  <2> QED
    BY <1>2, <2>2, <2>4 DEF CeremonyInv, OneUserInv
<1>8. Latest(handler[h].user) = {row}
  <2>1. ASSUME NEW q \in challenges, q.user = row.user
        PROVE  q.createdAt <= row.createdAt
    BY <1>3, <1>4, <2>1 DEF ChallengeRow, TypeInv, TypeOK
  <2>2. ASSUME NEW q \in challenges, q.user = row.user, q # row
        PROVE  ~(row.createdAt <= q.createdAt)
    BY <1>3, <1>4, <2>2 DEF ChallengeRow, TypeInv, TypeOK
  <2> QED
    BY <1>7, <2>1, <2>2 DEF Latest
<1>9. Accepts(row, handler[h].request, response)
  BY <1>2, <1>3, <1>6 DEF Accepts
<1>10. handler' = [handler EXCEPT ![h].pc = "spend", ![h].row = row]
  BY <1>8, <1>9 DEF Verify
<1> QED
  BY <1>1, <1>10 DEF TypeInv, TypeOK, Running

(* An honest ceremony is accepted, for any pages and extensions, lives of  *)
(* sessions and challenges and overlapping requests: for as long as the    *)
(* challenge is good the browser comes back as the user it was made for,   *)
(* and finish verifies what begin has offered (cookie-cross-site 1,        *)
(* webauthn-server 118, session 45, page 202).                             *)
THEOREM HonestCeremoniesPass == Spec => HonestCeremonyAccepted
<1>1. TypeInv /\ CeremonyInv /\ [Next]_vars =>
        [\A h \in Handlers : Verify(h) /\ ~split /\ Honest(h) => handler'[h].pc = "spend"]_vars
  BY HonestStep
<1> QED
  BY <1>1, InitTyped, InitActive, InitCeremony, NextTyped, NextActive, CeremonyNext, PTL
  DEF Spec, HonestCeremonyAccepted

=============================================================================
