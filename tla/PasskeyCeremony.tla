---------------------------- MODULE PasskeyCeremony ----------------------------
(***************************************************************************)
(* The passkey ceremonies of the Latch API: registration and login, each a *)
(* begin request that stores a challenge row and a finish request that     *)
(* verifies the authenticator's answer, writes the credential and smart    *)
(* account rows and deletes the challenge row.                             *)
(*                                                                         *)
(* Every request runs in a handler.  A handler is a chain of awaits on     *)
(* Postgres and on the Stellar RPC with no transaction around it and no    *)
(* lock, so other handlers run between any two of its steps and it may die *)
(* at each of them.  One action below is one await and the code up to the  *)
(* next one whose result another handler can influence.                    *)
(***************************************************************************)
EXTENDS Naturals, FiniteSets

CONSTANTS
  Browsers,     \* cookie jars
  Users,        \* values crypto.randomUUID can return for a user
  Credentials,  \* passkeys an authenticator can create
  Counting,     \* the passkeys whose authenticator keeps a signature counter
  Challenges,   \* challenge rows the database can ever hold
  Handlers,     \* finish requests in flight at once
  TTL,          \* life of a challenge row, in clock ticks
  MaxTime,      \* bound on the clock
  None          \* no user: an empty cookie or an absent row

ASSUME CountingAssumption == Counting \subseteq Credentials
ASSUME TimeAssumption == TTL \in Nat \ {0} /\ MaxTime \in Nat
ASSUME NoneAssumption == None \notin Users /\ None \notin Challenges /\ None \notin Browsers

VARIABLES
  now,         \* the clock behind nowMs()
  users,       \* ids of the users table; each user has exactly one session row
  jar,         \* the user whose session the browser's sid cookie names, or None
  challenges,  \* the webauthn_challenges table, a set of rows
  issued,      \* ids of every challenge row ever created
  credential,  \* the webauthn_credentials table by credentialId
  account,     \* the smart_accounts table by credentialId
  chain,       \* the smart account contract of each credential on the ledger
  offers,      \* begin replies on their way to a browser
  responses,   \* what authenticators have signed
  handler,     \* the finish requests in flight
  wins,        \* history: replies with status 200, per challenge
  acked        \* history: credentials whose registration was answered with 200

database == <<users, challenges, issued, credential, account>>
client == <<jar, offers, responses>>
history == <<wins, acked>>
vars == <<now, database, chain, client, handler, history>>

-----------------------------------------------------------------------------
Purposes == {"registration", "authentication"}

ChallengeRow == [id : Challenges, user : Users, purpose : Purposes,
                 createdAt : Nat, expiresAt : Nat]

CredentialRow == [user : Users \cup {None}, signCount : Nat]

AccountRow == [user : Users \cup {None}, deployed : BOOLEAN]

Offer == [browser : Browsers, user : Users, challenge : Challenges,
          purpose : Purposes, allow : SUBSET Credentials]

Response == [purpose : Purposes, challenge : Challenges,
             credential : Credentials, counter : Nat, browser : Browsers]

\* Registration runs deploy, send, poll, recheck, owner, credential, account and
\* consume; login runs lookup, count, attach, list and consume.
BusyPc == {"deploy", "send", "poll", "recheck", "owner", "credential", "account",
           "lookup", "count", "attach", "list", "consume"}

Idle == [pc |-> "idle"]

Running == [pc : BusyPc, user : Users, response : Response, row : Challenges,
            owner : Users \cup {None}, deployed : BOOLEAN, listed : BOOLEAN]

Stored(k) == credential[k].user # None
Mapped(k) == account[k].user # None

Made == {r.credential : r \in responses}

\* The authenticator's signature counter; authenticators of synced passkeys
\* always report 0.
Counter(k) ==
  IF k \in Counting
  THEN Cardinality({r \in responses : r.credential = k /\ r.purpose = "authentication"})
  ELSE 0

Busy(h) == handler[h].pc # "idle"
Signed(h) == handler[h].response
Key(h) == handler[h].response.credential

Goto(h, pc) == handler' = [handler EXCEPT ![h].pc = pc]

-----------------------------------------------------------------------------
Init ==
  /\ now = 0
  /\ users = {}
  /\ jar = [b \in Browsers |-> None]
  /\ challenges = {}
  /\ issued = {}
  /\ credential = [k \in Credentials |-> [user |-> None, signCount |-> 0]]
  /\ account = [k \in Credentials |-> [user |-> None, deployed |-> FALSE]]
  /\ chain = [k \in Credentials |-> "absent"]
  /\ offers = {}
  /\ responses = {}
  /\ handler = [h \in Handlers |-> Idle]
  /\ wins = [c \in Challenges |-> 0]
  /\ acked = {}

-----------------------------------------------------------------------------
(* getOrCreateSession: a cookie that names a live session gives its user,  *)
(* any other request gets a new user and a new session row.                *)
SessionUser(b, u) ==
  /\ IF jar[b] # None THEN u = jar[b] ELSE u \in Users \ users
  /\ users' = users \cup {u}

\* The Set-Cookie header of a reply reaches the browser.
SetCookie(b, u) == jar' = [jar EXCEPT ![b] = u]

\* Variant: the challenge row is stored without a user, as the schema allows.
Begin_Unowned(b, purpose) ==
  \E u \in Users, c \in Challenges \ issued :
    /\ SessionUser(b, u)
    /\ issued' = issued \cup {c}
    /\ challenges' = challenges \cup
         {[id |-> c, user |-> None, purpose |-> purpose,
           createdAt |-> now, expiresAt |-> now + TTL]}
    /\ offers' = offers \cup
         {[browser |-> b, user |-> u, challenge |-> c, purpose |-> purpose, allow |-> {}]}
    /\ UNCHANGED <<now, credential, account, chain, jar, responses, handler, history>>

(* A begin request: the options carry the user's credentials (login) or    *)
(* none (registration), and a fresh challenge row is stored.  The reply is *)
(* on its way; the cookie it sets is not in the jar yet.                   *)
Begin(b, purpose) ==
  \E u \in Users, c \in Challenges \ issued :
    /\ SessionUser(b, u)
    /\ issued' = issued \cup {c}
    /\ challenges' = challenges \cup
         {[id |-> c, user |-> u, purpose |-> purpose,
           createdAt |-> now, expiresAt |-> now + TTL]}
    /\ offers' = offers \cup
         {[browser |-> b, user |-> u, challenge |-> c, purpose |-> purpose,
           allow |-> IF purpose = "registration" THEN {}
                     ELSE {k \in Credentials : credential[k].user = u}]}
    /\ UNCHANGED <<now, credential, account, chain, jar, responses, handler, history>>

BeginRegistration(b) == Begin(b, "registration")
BeginAuthentication(b) == Begin(b, "authentication")

(* The reply of a begin request arrives and the authenticator signs the    *)
(* challenge: with a new passkey, with one of the allowed ones, or, when   *)
(* the list is empty, with any passkey the person picks.                   *)
Prompt(o) ==
  /\ offers' = offers \ {o}
  /\ SetCookie(o.browser, o.user)
  /\ \E k \in Credentials :
       /\ IF o.purpose = "registration" THEN k \notin Made
          ELSE k \in (IF o.allow = {} THEN Made ELSE o.allow)
       /\ responses' = responses \cup
            {[purpose |-> o.purpose, challenge |-> o.challenge, credential |-> k,
              counter |-> IF o.purpose = "registration" \/ k \notin Counting
                          THEN 0 ELSE Counter(k) + 1,
              browser |-> o.browser]}
  /\ UNCHANGED <<now, database, chain, handler, history>>

\* The sid cookie is dropped by the browser or its session row has expired.
LoseCookie(b) ==
  /\ jar[b] # None
  /\ SetCookie(b, None)
  /\ UNCHANGED <<now, database, chain, offers, responses, handler, history>>

-----------------------------------------------------------------------------
\* findFirst ... orderBy createdAt desc: one of the youngest rows that match.
Latest(rows) == {r \in rows : \A q \in rows : q.createdAt <= r.createdAt}

Live(r) == r.expiresAt > now

Run(h, pc, u, r, row) ==
  handler' = [handler EXCEPT ![h] =
    [pc |-> pc, user |-> u, response |-> r, row |-> row,
     owner |-> None, deployed |-> FALSE, listed |-> FALSE]]

\* The handler has answered with an error before its first write.
Reject(b, u) ==
  /\ SetCookie(b, u)
  /\ UNCHANGED handler

\* Variant: the latest registration row of any user.
RegistrationRows_OfAnyone(u) == {q \in challenges : q.purpose = "registration"}

RegistrationRows(u) == {q \in challenges : q.user = u /\ q.purpose = "registration"}

(* POST registration/finish up to the deployment: the session, the latest  *)
(* registration row of this user, its expiry and the verification of the   *)
(* response against that row's challenge.                                  *)
FinishRegistration(h, r) ==
  /\ ~Busy(h)
  /\ r.purpose = "registration"
  /\ \E u \in Users :
       /\ SessionUser(r.browser, u)
       /\ \/ /\ RegistrationRows(u) = {}
             /\ Reject(r.browser, u)
          \/ \E row \in Latest(RegistrationRows(u)) :
               IF Live(row) /\ row.id = r.challenge
               THEN Run(h, "deploy", u, r, row.id) /\ UNCHANGED jar
               ELSE Reject(r.browser, u)
  /\ UNCHANGED <<now, challenges, issued, credential, account, chain,
                 offers, responses, history>>

AuthenticationRows == {q \in challenges : q.purpose = "authentication"}

(* POST authentication/finish up to the credential lookup.  The row is the *)
(* latest login challenge of any user.                                     *)
FinishAuthentication(h, r) ==
  /\ ~Busy(h)
  /\ r.purpose = "authentication"
  /\ \E u \in Users :
       /\ SessionUser(r.browser, u)
       /\ \/ /\ AuthenticationRows = {}
             /\ Reject(r.browser, u)
          \/ \E row \in Latest(AuthenticationRows) :
               IF Live(row)
               THEN Run(h, "lookup", u, r, row.id) /\ UNCHANGED jar
               ELSE Reject(r.browser, u)
  /\ UNCHANGED <<now, challenges, issued, credential, account, chain,
                 offers, responses, history>>

-----------------------------------------------------------------------------
\* The handler returns: it is free again and the cookie reaches the browser.
Answer(h) ==
  /\ handler' = [handler EXCEPT ![h] = Idle]
  /\ SetCookie(Signed(h).browser, handler[h].user)

(* deployWebauthnSmartAccount, first await: a contract that is already on  *)
(* the ledger is not created again.                                        *)
CheckDeployed(h) ==
  /\ handler[h].pc = "deploy"
  /\ Goto(h, IF chain[Key(h)] = "deployed" THEN "recheck" ELSE "send")
  /\ UNCHANGED <<now, database, chain, client, history>>

(* Simulate and send create_account.  The simulation of a contract that    *)
(* exists by now fails and the helper throws; a transaction the RPC did    *)
(* not take in (TRY_AGAIN_LATER) is polled for like one that it did.       *)
SendCreate(h) ==
  /\ handler[h].pc = "send"
  /\ \/ /\ chain[Key(h)] = "deployed"
        /\ Answer(h)
        /\ UNCHANGED chain
     \/ /\ chain[Key(h)] # "deployed"
        /\ Goto(h, "poll")
        /\ chain' \in {chain, [chain EXCEPT ![Key(h)] = "pending"]}
        /\ UNCHANGED jar
  /\ UNCHANGED <<now, database, offers, responses, history>>

\* Variant: poll until the transaction has landed.
PollEnds_WhenLanded(h) ==
  /\ handler[h].pc = "poll"
  /\ chain[Key(h)] = "deployed"
  /\ Goto(h, "recheck")
  /\ UNCHANGED <<now, database, chain, client, history>>

(* The poll loop ends: the transaction succeeded, or it was not found      *)
(* thirty times and the helper returns the predicted address all the same. *)
PollEnds(h) ==
  /\ handler[h].pc = "poll"
  /\ Goto(h, "recheck")
  /\ UNCHANGED <<now, database, chain, client, history>>

\* Variant: the helper returned, so the contract must be there.
Recheck_TrustsHelper(h) ==
  /\ handler[h].pc = "recheck"
  /\ handler' = [handler EXCEPT ![h].pc = "owner", ![h].deployed = TRUE]
  /\ UNCHANGED <<now, database, chain, client, history>>

\* deployedAfter: ask the ledger once more.
Recheck(h) ==
  /\ handler[h].pc = "recheck"
  /\ handler' = [handler EXCEPT ![h].pc = "owner",
                                ![h].deployed = chain[Key(h)] = "deployed"]
  /\ UNCHANGED <<now, database, chain, client, history>>

\* credExists: a passkey of another user is answered with 409.
CheckOwner(h) ==
  /\ handler[h].pc = "owner"
  /\ IF credential[Key(h)].user \in {None, handler[h].user}
     THEN Goto(h, "credential") /\ UNCHANGED jar
     ELSE Answer(h)
  /\ UNCHANGED <<now, database, chain, offers, responses, history>>

\* Variant: a credential that exists already is taken to have its account.
UpsertCredential_SkipsKnown(h) ==
  /\ handler[h].pc = "credential"
  /\ credential' = [credential EXCEPT ![Key(h)] =
       [user |-> handler[h].user, signCount |-> Signed(h).counter]]
  /\ Goto(h, IF Stored(Key(h)) THEN "consume" ELSE "account")
  /\ UNCHANGED <<now, users, challenges, issued, account, chain, client, history>>

\* The credential row is created or overwritten, in one statement.
UpsertCredential(h) ==
  /\ handler[h].pc = "credential"
  /\ credential' = [credential EXCEPT ![Key(h)] =
       [user |-> handler[h].user, signCount |-> Signed(h).counter]]
  /\ Goto(h, "account")
  /\ UNCHANGED <<now, users, challenges, issued, account, chain, client, history>>

\* The account row of the credential follows, in a statement of its own.
UpsertAccount(h) ==
  /\ handler[h].pc = "account"
  /\ account' = [account EXCEPT ![Key(h)] =
       [user |-> handler[h].user, deployed |-> handler[h].deployed]]
  /\ Goto(h, "consume")
  /\ UNCHANGED <<now, users, challenges, issued, credential, chain, client, history>>

-----------------------------------------------------------------------------
\* Variant: a copied passkey with a smaller counter is let in.
CounterAccepted_Any(r) == r.counter \in Nat

\* The library's counter rule: once a counter is in use it must grow.
CounterAccepted(r) ==
  \/ r.counter = 0 /\ credential[r.credential].signCount = 0
  \/ r.counter > credential[r.credential].signCount

(* Find the credential and verify the response: an unknown credential is a *)
(* 404, a response to another challenge or a counter that did not grow     *)
(* makes the library throw.                                                *)
LookUp(h) ==
  /\ handler[h].pc = "lookup"
  /\ IF Stored(Key(h)) /\ handler[h].row = Signed(h).challenge
                       /\ CounterAccepted(Signed(h))
     THEN /\ handler' = [handler EXCEPT ![h].pc = "count",
                                        ![h].owner = credential[Key(h)].user]
          /\ UNCHANGED jar
     ELSE Answer(h)
  /\ UNCHANGED <<now, database, chain, offers, responses, history>>

\* Variant: the credential stays with the user who registered it.
StoreCounter_NeverAttaches(h) ==
  /\ handler[h].pc = "count"
  /\ credential' = [credential EXCEPT ![Key(h)].signCount = Signed(h).counter]
  /\ Goto(h, "list")
  /\ UNCHANGED <<now, users, challenges, issued, account, chain, client, history>>

\* The new counter is stored; the owner compared is the one LookUp has read.
StoreCounter(h) ==
  /\ handler[h].pc = "count"
  /\ credential' = [credential EXCEPT ![Key(h)].signCount = Signed(h).counter]
  /\ Goto(h, IF handler[h].owner # handler[h].user THEN "attach" ELSE "list")
  /\ UNCHANGED <<now, users, challenges, issued, account, chain, client, history>>

\* Variant: the credential moves without its account.
Attach_CredentialOnly(h) ==
  /\ handler[h].pc = "attach"
  /\ credential' = [credential EXCEPT ![Key(h)].user = handler[h].user]
  /\ Goto(h, "list")
  /\ UNCHANGED <<now, users, challenges, issued, account, chain, client, history>>

(* One transaction moves the credential, and the account if it has one, to *)
(* the user of this session.                                               *)
Attach(h) ==
  /\ handler[h].pc = "attach"
  /\ credential' = [credential EXCEPT ![Key(h)].user = handler[h].user]
  /\ account' = IF Mapped(Key(h))
                THEN [account EXCEPT ![Key(h)].user = handler[h].user]
                ELSE account
  /\ Goto(h, "list")
  /\ UNCHANGED <<now, users, challenges, issued, chain, client, history>>

(* Read the account and the list of this user's accounts; a credential     *)
(* without an account ends in a 500 that leaves the challenge row.         *)
ListAccounts(h) ==
  /\ handler[h].pc = "list"
  /\ IF Mapped(Key(h))
     THEN /\ handler' = [handler EXCEPT ![h].pc = "consume",
                           ![h].listed = account[Key(h)].user = handler[h].user]
          /\ UNCHANGED jar
     ELSE Answer(h)
  /\ UNCHANGED <<now, database, chain, offers, responses, history>>

-----------------------------------------------------------------------------
RowExists(h) == \E row \in challenges : row.id = handler[h].row

\* Variant: deleteMany, which does not mind a row that is gone.
Consume_DeleteMany(h) ==
  /\ handler[h].pc = "consume"
  /\ Answer(h)
  /\ challenges' = {row \in challenges : row.id # handler[h].row}
  /\ wins' = [wins EXCEPT ![handler[h].row] = @ + 1]
  /\ acked' = IF Signed(h).purpose = "registration" THEN acked \cup {Key(h)} ELSE acked
  /\ UNCHANGED <<now, users, issued, credential, account, chain, offers, responses>>

(* The last await of both finish handlers: prisma delete by id throws when *)
(* the row is gone, so only the handler that removes the row answers 200.  *)
Consume(h) ==
  /\ handler[h].pc = "consume"
  /\ RowExists(h)
  /\ Answer(h)
  /\ challenges' = {row \in challenges : row.id # handler[h].row}
  /\ wins' = [wins EXCEPT ![handler[h].row] = @ + 1]
  /\ acked' = IF Signed(h).purpose = "registration" THEN acked \cup {Key(h)} ELSE acked
  /\ UNCHANGED <<now, users, issued, credential, account, chain, offers, responses>>

DeleteThrows(h) ==
  /\ handler[h].pc = "consume"
  /\ ~RowExists(h)
  /\ Answer(h)
  /\ UNCHANGED <<now, database, chain, offers, responses, history>>

(* An await throws (status 500, the cookie still set) or the process dies  *)
(* (no reply): what the handler wrote so far stays.                        *)
Fail(h) ==
  /\ Busy(h)
  /\ \/ Answer(h)
     \/ /\ handler' = [handler EXCEPT ![h] = Idle]
        /\ UNCHANGED jar
  /\ UNCHANGED <<now, database, chain, offers, responses, history>>

-----------------------------------------------------------------------------
\* The ledger closes with a pending create_account, or its time bound passes.
Land(k) ==
  /\ chain[k] = "pending"
  /\ chain' = [chain EXCEPT ![k] = "deployed"]
  /\ UNCHANGED <<now, database, client, handler, history>>

Drop(k) ==
  /\ chain[k] = "pending"
  /\ chain' = [chain EXCEPT ![k] = "absent"]
  /\ UNCHANGED <<now, database, client, handler, history>>

Tick ==
  /\ now < MaxTime
  /\ now' = now + 1
  /\ UNCHANGED <<database, chain, client, handler, history>>

-----------------------------------------------------------------------------
Progress(h) ==
  \/ CheckDeployed(h) \/ SendCreate(h) \/ PollEnds(h) \/ Recheck(h)
  \/ CheckOwner(h) \/ UpsertCredential(h) \/ UpsertAccount(h)
  \/ LookUp(h) \/ StoreCounter(h) \/ Attach(h) \/ ListAccounts(h)
  \/ Consume(h) \/ DeleteThrows(h)

Arrive(h) == \E r \in responses : FinishRegistration(h, r) \/ FinishAuthentication(h, r)

Next ==
  \/ \E b \in Browsers : BeginRegistration(b) \/ BeginAuthentication(b) \/ LoseCookie(b)
  \/ \E o \in offers : Prompt(o)
  \/ \E h \in Handlers : Arrive(h) \/ Progress(h) \/ Fail(h)
  \/ \E k \in Credentials : Land(k) \/ Drop(k)
  \/ Tick

Spec == Init /\ [][Next]_vars

(* The event loop resumes every handler whose await has settled, and every *)
(* await settles: Postgres and RPC calls return or throw.                  *)
FairSpec == Spec /\ \A h \in Handlers : WF_vars(Progress(h))

-----------------------------------------------------------------------------
\* The shape of every variable, and of the tables' rows.
TypeOK ==
  /\ now \in Nat
  /\ users \subseteq Users
  /\ jar \in [Browsers -> Users \cup {None}]
  /\ challenges \subseteq ChallengeRow
  /\ issued \subseteq Challenges
  /\ credential \in [Credentials -> CredentialRow]
  /\ account \in [Credentials -> AccountRow]
  /\ chain \in [Credentials -> {"absent", "pending", "deployed"}]
  /\ offers \subseteq Offer
  /\ responses \subseteq Response
  /\ handler \in [Handlers -> Running \cup {Idle}]
  /\ wins \in [Challenges -> Nat]
  /\ acked \subseteq Credentials

(* A challenge is good for at most one successful ceremony: of any number  *)
(* of finish requests for it, overlapping or repeated, at most one is      *)
(* answered with 200, although the row is read at the start of the handler *)
(* and deleted at its end (registration/finish 41 and 185,                 *)
(* authentication/finish 27 and 129).                                      *)
OneSuccessPerChallenge == \A c \in Challenges : wins[c] <= 1

(* A registration that was answered with 200 is durable: whatever other    *)
(* handlers do, fail or repeat, its credential row and its account row are *)
(* both there (registration/finish 137, 164 and 187).                      *)
AcknowledgedIsStored == \A k \in acked : Stored(k) /\ Mapped(k)

(* A row that says deployed tells the truth, although the deploy helper    *)
(* reports success for a transaction it never saw land                     *)
(* (registration/finish 118 and 172).                                      *)
DeployedIsTrue == \A k \in Credentials : account[k].deployed => chain[k] = "deployed"

(* The account table agrees with the credential table about the owner      *)
(* (authentication/finish 98 moves both rows in one transaction).          *)
OwnersAgree == \A k \in Credentials : Mapped(k) => account[k].user = credential[k].user

(* While no registration runs, no number of logins that race, take the     *)
(* passkey from each other, fail or die separates the two rows             *)
(* (authentication/finish 92 reads an owner that 98 may find replaced).    *)
LoginsKeepOwners ==
  [][/\ OwnersAgree
     /\ \A h \in Handlers : Busy(h) => Signed(h).purpose = "authentication"
     => OwnersAgree']_vars

(* A login that is answered with 200 lists the account that was logged     *)
(* into (comment at authentication/finish 97).                             *)
LoginListsAccount ==
  [][\A h \in Handlers :
       Consume(h) /\ Signed(h).purpose = "authentication" => handler[h].listed]_vars

(* A login never lowers the stored signature counter, which would let a    *)
(* copied passkey in later.  The counter is compared before the verified   *)
(* response is stored (authentication/finish 73 and 92), so this holds of  *)
(* requests that do not overlap, after however many failed ones.           *)
LoginsRaiseCounter ==
  [][\A h \in Handlers :
       StoreCounter(h) => credential[Key(h)].signCount <= credential'[Key(h)].signCount]_vars

(* A registration challenge is spent only by a handler whose session is    *)
(* the one it was issued to, however cookies get lost and sessions         *)
(* replaced between begin and finish (registration/finish 42).             *)
SpentByItsUser ==
  [][\A row \in challenges \ challenges' :
       row.purpose = "registration" =>
         \E h \in Handlers : Busy(h) /\ handler[h].row = row.id /\ handler[h].user = row.user]_vars

(* Every finish request is answered: the poll loop for a transaction that  *)
(* never shows up is bounded (smart-account-factory-webauthn 153).         *)
EveryRequestEnds == \A h \in Handlers : Busy(h) ~> ~Busy(h)

-----------------------------------------------------------------------------
(* What a client may rely on, stated without handlers, rows or cookies.    *)
Book == INSTANCE ChallengeBook WITH kept <- {k \in Credentials : Mapped(k)}

\* The ceremonies implement it.
ImplementsBook == Book!Spec

=============================================================================
