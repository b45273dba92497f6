------------------------ MODULE PasskeyCeremony_proofs ------------------------
(***************************************************************************)
(* Proofs about the passkey ceremonies, for every number of browsers,      *)
(* users, passkeys, challenges and overlapping handlers.                   *)
(***************************************************************************)
EXTENDS PasskeyCeremony, FiniteSetTheorems, TLAPS

-----------------------------------------------------------------------------
(* What the steps of one handler leave for the next one to rely on, though *)
(* any other handler may have run in between.                              *)
NeedsCredential == {"account", "count", "attach", "list", "consume"}

HandlerInv(h) ==
  Busy(h) =>
    /\ handler[h].row \in issued
    /\ handler[h].deployed => chain[Key(h)] = "deployed"
    /\ handler[h].pc \in NeedsCredential => Stored(Key(h))
    /\ handler[h].pc = "consume" => Mapped(Key(h))

\* The row a handler has read, as long as it is still in the table.
ReadRowInv(h) ==
  Busy(h) => \A r \in challenges : r.id = handler[h].row =>
    /\ r.purpose = Signed(h).purpose
    /\ r.purpose = "registration" => r.user = handler[h].user

\* A row in the table has not been spent, and its id is used for no other row.
RowsInv ==
  \A r \in challenges :
    /\ r.id \in issued
    /\ wins[r.id] = 0
    /\ \A q \in challenges : q.id = r.id => q = r

WinsInv == \A c \in Challenges : wins[c] \in {0, 1} /\ (c \notin issued => wins[c] = 0)

\* The foreign key of the account table.
AccountHasCredential == \A k \in Credentials : Mapped(k) => Stored(k)

TypeInv == TypeOK /\ IsFiniteSet(responses)

IInv ==
  /\ TypeInv
  /\ RowsInv
  /\ WinsInv
  /\ AccountHasCredential
  /\ AcknowledgedIsStored
  /\ DeployedIsTrue
  /\ \A h \in Handlers : HandlerInv(h)
  /\ \A h \in Handlers : ReadRowInv(h)

-----------------------------------------------------------------------------
\* A handler that is not idle has all the fields of a running one.
LEMMA BusyIsRunning ==
  ASSUME TypeOK, NEW h \in Handlers, Busy(h)
  PROVE  /\ handler[h] \in Running
         /\ handler[h].pc \in BusyPc
         /\ handler[h].user \in Users
         /\ handler[h].row \in Challenges
         /\ Signed(h) \in Response
         /\ Key(h) \in Credentials
         /\ Signed(h).browser \in Browsers
         /\ Signed(h).counter \in Nat
BY DEF TypeOK, Busy, Idle, Running, Signed, Key, Response

\* Moving a handler to another step changes nothing else in it.
LEMMA GotoMoves ==
  ASSUME TypeOK, NEW h \in Handlers, Busy(h), NEW p \in BusyPc, Goto(h, p)
  PROVE  /\ handler' \in [Handlers -> Running \cup {Idle}]
         /\ \A g \in Handlers \ {h} : handler'[g] = handler[g]
         /\ handler'[h] = [handler[h] EXCEPT !.pc = p]
<1>1. handler[h] \in Running
  BY BusyIsRunning
<1>2. [handler[h] EXCEPT !.pc = p] \in Running
  BY <1>1 DEF Running
<1>3. handler' = [handler EXCEPT ![h] = [handler[h] EXCEPT !.pc = p]]
  BY DEF Goto
<1> QED
  BY <1>2, <1>3 DEF TypeOK

\* A handler that answers is idle, the others are as they were.
LEMMA AnswerFrees ==
  ASSUME TypeOK, NEW h \in Handlers, handler' = [handler EXCEPT ![h] = Idle]
  PROVE  /\ handler' \in [Handlers -> Running \cup {Idle}]
         /\ \A g \in Handlers \ {h} : handler'[g] = handler[g]
         /\ handler'[h] = Idle
BY DEF TypeOK

\* A cookie that reaches a browser names a user (lib/session 36 and 61).
LEMMA CookieTyped ==
  ASSUME TypeOK, NEW b \in Browsers, NEW u \in Users \cup {None}, SetCookie(b, u)
  PROVE  jar' \in [Browsers -> Users \cup {None}]
BY DEF TypeOK, SetCookie

\* A signature counter is a number.
LEMMA CounterTyped ==
  ASSUME TypeInv, NEW k \in Credentials
  PROVE  Counter(k) \in Nat
<1> DEFINE S == {r \in responses : r.credential = k /\ r.purpose = "authentication"}
<1>1. IsFiniteSet(S)
  BY FS_Subset DEF TypeInv
<1>2. Cardinality(S) \in Nat
  BY <1>1, FS_CardinalityType
<1> QED
  BY <1>2 DEF Counter

-----------------------------------------------------------------------------
\* A begin request stores a row and an offer of the right shape.
LEMMA BeginTyped ==
  ASSUME TypeInv, NEW b \in Browsers, NEW p \in Purposes, Begin(b, p)
  PROVE  TypeInv'
<1>1. PICK u \in Users, c \in Challenges \ issued :
        /\ SessionUser(b, u)
        /\ issued' = issued \cup {c}
        /\ challenges' = challenges \cup
             {[id |-> c, user |-> u, purpose |-> p,
               createdAt |-> now, expiresAt |-> now + TTL]}
        /\ offers' = offers \cup
             {[browser |-> b, user |-> u, challenge |-> c, purpose |-> p,
               allow |-> IF p = "registration" THEN {}
                         ELSE {k \in Credentials : credential[k].user = u}]}
  BY DEF Begin
<1>2. now + TTL \in Nat
  BY TimeAssumption DEF TypeInv, TypeOK
<1>3. challenges' \subseteq ChallengeRow
  BY <1>1, <1>2 DEF TypeInv, TypeOK, ChallengeRow
<1>4. offers' \subseteq Offer
  BY <1>1 DEF TypeInv, TypeOK, Offer
<1>5. users' \subseteq Users /\ issued' \subseteq Challenges
  BY <1>1 DEF TypeInv, TypeOK, SessionUser
<1> QED
  BY <1>3, <1>4, <1>5 DEF TypeInv, TypeOK, Begin, history

\* An authenticator's answer has the right shape, and there are finitely many.
LEMMA PromptTyped ==
  ASSUME TypeInv, NEW o \in offers, Prompt(o)
  PROVE  TypeInv'
<1>1. o \in Offer
  BY DEF TypeInv, TypeOK
<1>2. PICK k \in Credentials :
        responses' = responses \cup
          {[purpose |-> o.purpose, challenge |-> o.challenge, credential |-> k,
            counter |-> IF o.purpose = "registration" \/ k \notin Counting
                        THEN 0 ELSE Counter(k) + 1,
            browser |-> o.browser]}
  BY DEF Prompt
<1>3. Counter(k) \in Nat
  BY CounterTyped
<1>4. responses' \subseteq Response
  BY <1>1, <1>2, <1>3 DEF TypeInv, TypeOK, Offer, Response
<1>5. IsFiniteSet(responses')
  BY <1>2, FS_AddElement DEF TypeInv
<1>6. jar' \in [Browsers -> Users \cup {None}]
  BY <1>1, CookieTyped DEF Prompt, Offer, TypeInv
<1> QED
  BY <1>4, <1>5, <1>6 DEF TypeInv, TypeOK, Prompt, database, history

\* A handler that starts has all its fields.
LEMMA RunTyped ==
  ASSUME TypeOK, NEW h \in Handlers, NEW p \in BusyPc, NEW u \in Users,
         NEW r \in Response, NEW row \in Challenges, Run(h, p, u, r, row)
  PROVE  /\ handler' \in [Handlers -> Running \cup {Idle}]
         /\ \A g \in Handlers \ {h} : handler'[g] = handler[g]
         /\ handler'[h] = [pc |-> p, user |-> u, response |-> r, row |-> row,
                           owner |-> None, deployed |-> FALSE, listed |-> FALSE]
<1>1. [pc |-> p, user |-> u, response |-> r, row |-> row,
       owner |-> None, deployed |-> FALSE, listed |-> FALSE] \in Running
  BY DEF Running
<1> QED
  BY <1>1 DEF TypeOK, Run

\* The first step of registration/finish keeps the shape of every variable.
LEMMA FinishRegistrationTyped ==
  ASSUME TypeInv, NEW h \in Handlers, NEW r \in responses, FinishRegistration(h, r)
  PROVE  TypeInv'
<1>1. r \in Response /\ r.browser \in Browsers
  BY DEF TypeInv, TypeOK, Response
<1>2. PICK u \in Users :
        /\ SessionUser(r.browser, u)
        /\ \/ Reject(r.browser, u)
           \/ \E row \in challenges : Run(h, "deploy", u, r, row.id) /\ UNCHANGED jar
  BY DEF FinishRegistration, Latest, RegistrationRows
<1>3. users' \subseteq Users
  BY <1>2 DEF SessionUser, TypeInv, TypeOK
<1>4. CASE Reject(r.browser, u)
  <2>1. jar' \in [Browsers -> Users \cup {None}]
    BY <1>1, <1>4, CookieTyped DEF Reject, TypeInv
  <2> QED
    BY <1>3, <1>4, <2>1 DEF Reject, TypeInv, TypeOK, FinishRegistration, history
<1>5. CASE \E row \in challenges : Run(h, "deploy", u, r, row.id) /\ UNCHANGED jar
  <2>1. PICK row \in challenges : Run(h, "deploy", u, r, row.id) /\ UNCHANGED jar
    BY <1>5
  <2>2. row.id \in Challenges
    BY DEF TypeInv, TypeOK, ChallengeRow
  <2>3. "deploy" \in BusyPc
    BY DEF BusyPc
  <2>4. handler' \in [Handlers -> Running \cup {Idle}]
    BY <1>1, <2>1, <2>2, <2>3, RunTyped DEF TypeInv
  <2> QED
    BY <1>3, <2>1, <2>4 DEF TypeInv, TypeOK, FinishRegistration, history
<1> QED
  BY <1>2, <1>4, <1>5

\* The first step of authentication/finish keeps the shape of every variable.
LEMMA FinishAuthenticationTyped ==
  ASSUME TypeInv, NEW h \in Handlers, NEW r \in responses, FinishAuthentication(h, r)
  PROVE  TypeInv'
<1>1. r \in Response /\ r.browser \in Browsers
  BY DEF TypeInv, TypeOK, Response
<1>2. PICK u \in Users :
        /\ SessionUser(r.browser, u)
        /\ \/ Reject(r.browser, u)
           \/ \E row \in challenges : Run(h, "lookup", u, r, row.id) /\ UNCHANGED jar
  BY DEF FinishAuthentication, Latest, AuthenticationRows
<1>3. users' \subseteq Users
  BY <1>2 DEF SessionUser, TypeInv, TypeOK
<1>4. CASE Reject(r.browser, u)
  <2>1. jar' \in [Browsers -> Users \cup {None}]
    BY <1>1, <1>4, CookieTyped DEF Reject, TypeInv
  <2> QED
    BY <1>3, <1>4, <2>1 DEF Reject, TypeInv, TypeOK, FinishAuthentication, history
<1>5. CASE \E row \in challenges : Run(h, "lookup", u, r, row.id) /\ UNCHANGED jar
  <2>1. PICK row \in challenges : Run(h, "lookup", u, r, row.id) /\ UNCHANGED jar
    BY <1>5
  <2>2. row.id \in Challenges
    BY DEF TypeInv, TypeOK, ChallengeRow
  <2>3. "lookup" \in BusyPc
    BY DEF BusyPc
  <2>4. handler' \in [Handlers -> Running \cup {Idle}]
    BY <1>1, <2>1, <2>2, <2>3, RunTyped DEF TypeInv
  <2> QED
    BY <1>3, <2>1, <2>4 DEF TypeInv, TypeOK, FinishAuthentication, history
<1> QED
  BY <1>2, <1>4, <1>5

\* An answer leaves the handler table and the cookie jars well-typed.
LEMMA AnswerTyped ==
  ASSUME TypeInv, NEW h \in Handlers, Busy(h), Answer(h)
  PROVE  /\ handler' \in [Handlers -> Running \cup {Idle}]
         /\ jar' \in [Browsers -> Users \cup {None}]
BY BusyIsRunning, CookieTyped, AnswerFrees DEF Answer, TypeInv

\* Every later step of a handler keeps the shape of every variable.
LEMMA ProgressTyped ==
  ASSUME TypeInv, NEW h \in Handlers, Progress(h)
  PROVE  TypeInv'
<1> USE DEF TypeInv
<1>1. Busy(h)
  BY DEF Progress, Busy, CheckDeployed, SendCreate, PollEnds, Recheck, CheckOwner,
         UpsertCredential, UpsertAccount, LookUp, StoreCounter, Attach, ListAccounts,
         Consume, DeleteThrows
<1>2. /\ handler[h] \in Running
      /\ handler[h].user \in Users
      /\ handler[h].row \in Challenges
      /\ Key(h) \in Credentials
      /\ Signed(h).counter \in Nat
  BY <1>1, BusyIsRunning
<1>3. {"send", "poll", "recheck", "owner", "credential", "account", "count",
       "attach", "list", "consume"} \subseteq BusyPc
  BY DEF BusyPc
<1>4. handler' \in [Handlers -> Running \cup {Idle}]
  <2>1. ASSUME NEW p \in BusyPc, Goto(h, p)
        PROVE  handler' \in [Handlers -> Running \cup {Idle}]
    BY <1>1, <2>1, GotoMoves
  <2>2. ASSUME Answer(h)
        PROVE  handler' \in [Handlers -> Running \cup {Idle}]
    BY <1>1, <2>2, AnswerTyped
  <2>3. CASE CheckDeployed(h) \/ PollEnds(h) \/ UpsertCredential(h) \/ UpsertAccount(h)
               \/ StoreCounter(h) \/ Attach(h)
    BY <1>3, <2>1, <2>3 DEF CheckDeployed, PollEnds, UpsertCredential, UpsertAccount,
                            StoreCounter, Attach
  <2>4. CASE SendCreate(h) \/ CheckOwner(h) \/ Consume(h) \/ DeleteThrows(h)
    BY <1>3, <2>1, <2>2, <2>4 DEF SendCreate, CheckOwner, Consume, DeleteThrows
  <2>5. CASE Recheck(h)
    <3>1. [handler[h] EXCEPT !.pc = "owner",
                             !.deployed = (chain[Key(h)] = "deployed")] \in Running
      BY <1>2, <1>3 DEF Running
    <3>2. handler' = [handler EXCEPT ![h] = [handler[h] EXCEPT !.pc = "owner",
                                     !.deployed = (chain[Key(h)] = "deployed")]]
      BY <2>5 DEF Recheck
    <3> QED
      BY <3>1, <3>2 DEF TypeOK
  <2>6. CASE LookUp(h)
    <3>1. credential[Key(h)].user \in Users \cup {None}
      BY <1>2 DEF TypeOK, CredentialRow
    <3>2. [handler[h] EXCEPT !.pc = "count", !.owner = credential[Key(h)].user] \in Running
      BY <1>2, <1>3, <3>1 DEF Running
    <3>3. \/ Answer(h)
          \/ handler' = [handler EXCEPT ![h] =
               [handler[h] EXCEPT !.pc = "count", !.owner = credential[Key(h)].user]]
      BY <2>6 DEF LookUp
    <3> QED
      BY <2>2, <3>2, <3>3 DEF TypeOK
  <2>7. CASE ListAccounts(h)
    <3>1. [handler[h] EXCEPT !.pc = "consume",
             !.listed = (account[Key(h)].user = handler[h].user)] \in Running
      BY <1>2, <1>3 DEF Running
    <3>2. \/ Answer(h)
          \/ handler' = [handler EXCEPT ![h] =
               [handler[h] EXCEPT !.pc = "consume",
                  !.listed = (account[Key(h)].user = handler[h].user)]]
      BY <2>7 DEF ListAccounts
    <3> QED
      BY <2>2, <3>1, <3>2 DEF TypeOK
  <2> QED
    BY <2>3, <2>4, <2>5, <2>6, <2>7 DEF Progress
<1>5. jar' \in [Browsers -> Users \cup {None}]
  <2>1. jar' = jar \/ Answer(h)
    BY DEF Progress, CheckDeployed, SendCreate, PollEnds, Recheck, CheckOwner, Consume,
           UpsertCredential, UpsertAccount, LookUp, StoreCounter, Attach, ListAccounts,
           DeleteThrows, client
  <2> QED
    BY <1>1, <2>1, AnswerTyped DEF TypeOK
<1>6. credential' \in [Credentials -> CredentialRow]
  <2>1. CASE UpsertCredential(h)
    BY <1>2, <2>1 DEF UpsertCredential, TypeOK, CredentialRow
  <2>2. CASE StoreCounter(h)
    BY <1>2, <2>2 DEF StoreCounter, TypeOK, CredentialRow
  <2>3. CASE Attach(h)
    BY <1>2, <2>3 DEF Attach, TypeOK, CredentialRow
  <2>4. CASE UNCHANGED credential
    BY <2>4 DEF TypeOK
  <2> QED
    BY <2>1, <2>2, <2>3, <2>4
    DEF Progress, CheckDeployed, SendCreate, PollEnds, Recheck, CheckOwner, Consume,
        UpsertAccount, LookUp, ListAccounts, DeleteThrows, database
<1>7. account' \in [Credentials -> AccountRow]
  <2>1. CASE UpsertAccount(h)
    <3>1. handler[h].deployed \in BOOLEAN
      BY <1>2 DEF Running
    <3> QED
      BY <1>2, <2>1, <3>1 DEF UpsertAccount, TypeOK, AccountRow
  <2>2. CASE Attach(h)
    BY <1>2, <2>2 DEF Attach, TypeOK, AccountRow
  <2>3. CASE UNCHANGED account
    BY <2>3 DEF TypeOK
  <2> QED
    BY <2>1, <2>2, <2>3
    DEF Progress, CheckDeployed, SendCreate, PollEnds, Recheck, CheckOwner, Consume,
        UpsertCredential, StoreCounter, LookUp, ListAccounts, DeleteThrows, database
<1>8. /\ chain' \in [Credentials -> {"absent", "pending", "deployed"}]
      /\ challenges' \subseteq challenges
      /\ UNCHANGED <<now, users, issued, offers, responses>>
  BY <1>2
  DEF Progress, CheckDeployed, SendCreate, PollEnds, Recheck, CheckOwner, Consume, TypeOK,
      UpsertCredential, UpsertAccount, LookUp, StoreCounter, Attach, ListAccounts,
      DeleteThrows, database, client
<1>9. wins' \in [Challenges -> Nat] /\ acked' \subseteq Credentials
  <2>1. CASE Consume(h)
    BY <1>2, <2>1 DEF Consume, TypeOK
  <2>2. CASE UNCHANGED history
    BY <2>2 DEF history, TypeOK
  <2> QED
    BY <2>1, <2>2
    DEF Progress, CheckDeployed, SendCreate, PollEnds, Recheck, CheckOwner, LookUp,
        UpsertCredential, UpsertAccount, StoreCounter, Attach, ListAccounts, DeleteThrows
<1> QED
  BY <1>4, <1>5, <1>6, <1>7, <1>8, <1>9 DEF TypeOK

\* A handler that fails or dies leaves well-typed tables behind.
LEMMA FailTyped ==
  ASSUME TypeInv, NEW h \in Handlers, Fail(h)
  PROVE  TypeInv'
<1>1. handler' \in [Handlers -> Running \cup {Idle}] /\ jar' \in [Browsers -> Users \cup {None}]
  BY AnswerTyped, AnswerFrees DEF Fail, TypeInv, TypeOK
<1> QED
  BY <1>1 DEF Fail, TypeInv, TypeOK, database, history

\* No step of the system changes the shape of a variable.
LEMMA NextTyped == TypeInv /\ [Next]_vars => TypeInv'
<1> SUFFICES ASSUME TypeInv, [Next]_vars
             PROVE  TypeInv'
  OBVIOUS
<1>1. ASSUME NEW b \in Browsers, BeginRegistration(b) \/ BeginAuthentication(b)
      PROVE  TypeInv'
  BY <1>1, BeginTyped DEF BeginRegistration, BeginAuthentication, Purposes
<1>2. ASSUME NEW b \in Browsers, LoseCookie(b)
      PROVE  TypeInv'
  <2>1. jar' \in [Browsers -> Users \cup {None}]
    BY <1>2, CookieTyped DEF LoseCookie, TypeInv
  <2> QED
    BY <1>2, <2>1 DEF LoseCookie, TypeInv, TypeOK, database, history
<1>3. ASSUME NEW o \in offers, Prompt(o)
      PROVE  TypeInv'
  BY <1>3, PromptTyped
<1>4. ASSUME NEW h \in Handlers, Arrive(h)
      PROVE  TypeInv'
  BY <1>4, FinishRegistrationTyped, FinishAuthenticationTyped DEF Arrive
<1>5. ASSUME NEW h \in Handlers, Progress(h) \/ Fail(h)
      PROVE  TypeInv'
  BY <1>5, ProgressTyped, FailTyped
<1>6. ASSUME NEW k \in Credentials, Land(k) \/ Drop(k)
      PROVE  TypeInv'
  BY <1>6 DEF Land, Drop, TypeInv, TypeOK, database, client, history
<1>7. CASE Tick
  BY <1>7 DEF Tick, TypeInv, TypeOK, database, client, history
<1>8. CASE UNCHANGED vars
  BY <1>8 DEF vars, TypeInv, TypeOK, database, client, history
<1> QED
  BY <1>1, <1>2, <1>3, <1>4, <1>5, <1>6, <1>7, <1>8 DEF Next

\* The empty database is well-typed.
LEMMA InitTyped == Init => TypeInv
BY FS_EmptySet DEF Init, TypeInv, TypeOK, CredentialRow, AccountRow, Idle

\* Every variable and every row keeps its shape (the Prisma schema's columns).
THEOREM TypeCorrect == Spec => []TypeOK
<1>1. Spec => []TypeInv
  BY InitTyped, NextTyped, PTL DEF Spec
<1> QED
  BY <1>1, PTL DEF TypeInv

-----------------------------------------------------------------------------
(* What no step of anybody undoes: a row of the credential or account      *)
(* table stays, a deployed contract stays, an id is never issued again.    *)
Monotone ==
  /\ issued \subseteq issued'
  /\ \A k \in Credentials :
       /\ Stored(k) => Stored(k)'
       /\ Mapped(k) => Mapped(k)'
       /\ chain[k] = "deployed" => chain'[k] = "deployed"
  /\ \A r \in challenges' : r \in challenges \/ r.id \in issued' \ issued

\* What has been issued, stored, mapped, deployed or acknowledged stays so:
\* no code path deletes a credential, an account or a contract.
LEMMA NextMonotone ==
  ASSUME TypeInv, [Next]_vars
  PROVE  Monotone
<1> USE DEF Monotone, Stored, Mapped
<1>1. ASSUME NEW b \in Browsers, BeginRegistration(b) \/ BeginAuthentication(b)
      PROVE  Monotone
  BY <1>1 DEF BeginRegistration, BeginAuthentication, Begin
<1>2. ASSUME NEW b \in Browsers, LoseCookie(b)
      PROVE  Monotone
  BY <1>2 DEF LoseCookie, database
<1>3. ASSUME NEW o \in offers, Prompt(o)
      PROVE  Monotone
  BY <1>3 DEF Prompt, database
<1>4. ASSUME NEW h \in Handlers, Arrive(h)
      PROVE  Monotone
  BY <1>4 DEF Arrive, FinishRegistration, FinishAuthentication
<1>5. ASSUME NEW h \in Handlers, Progress(h)
      PROVE  Monotone
  <2>1. Busy(h)
    BY <1>5 DEF Progress, Busy, CheckDeployed, SendCreate, PollEnds, Recheck, CheckOwner,
         UpsertCredential, UpsertAccount, LookUp, StoreCounter, Attach, ListAccounts,
         Consume, DeleteThrows
  <2>2. handler[h].user \in Users /\ Key(h) \in Credentials /\ handler[h].user # None
    BY <2>1, BusyIsRunning, NoneAssumption DEF TypeInv
  <2>3. CASE UpsertCredential(h) \/ StoreCounter(h)
    BY <2>2, <2>3 DEF UpsertCredential, StoreCounter, TypeInv, TypeOK, CredentialRow
  <2>4. CASE UpsertAccount(h)
    BY <2>2, <2>4 DEF UpsertAccount, TypeInv, TypeOK, AccountRow
  <2>5. CASE Attach(h)
    BY <2>2, <2>5 DEF Attach, TypeInv, TypeOK, CredentialRow, AccountRow
  <2>6. CASE SendCreate(h)
    BY <2>2, <2>6 DEF SendCreate, TypeInv, TypeOK, database
  <2>7. CASE Consume(h)
    BY <2>7 DEF Consume
  <2> QED
    BY <1>5, <2>3, <2>4, <2>5, <2>6, <2>7
    DEF Progress, CheckDeployed, PollEnds, Recheck, CheckOwner, LookUp, ListAccounts,
        DeleteThrows, database
<1>6. ASSUME NEW h \in Handlers, Fail(h)
      PROVE  Monotone
  BY <1>6 DEF Fail, database
<1>7. ASSUME NEW k \in Credentials, Land(k) \/ Drop(k)
      PROVE  Monotone
  BY <1>7 DEF Land, Drop, database, TypeInv, TypeOK
<1>8. CASE Tick
  BY <1>8 DEF Tick, database
<1>9. CASE UNCHANGED vars
  BY <1>9 DEF vars, database
<1> QED
  BY <1>1, <1>2, <1>3, <1>4, <1>5, <1>6, <1>7, <1>8, <1>9 DEF Next

\* A handler that does not move keeps what it relies on.
LEMMA HandlerFrame ==
  ASSUME IInv, TypeInv', Monotone, NEW h \in Handlers, handler'[h] = handler[h]
  PROVE  HandlerInv(h)' /\ ReadRowInv(h)'
<1>1. HandlerInv(h) /\ ReadRowInv(h)
  BY DEF IInv
<1>2. CASE Busy(h)
  <2>1. Key(h) \in Credentials
    BY <1>2, BusyIsRunning DEF IInv, TypeInv
  <2> QED
    BY <1>1, <1>2, <2>1 DEF HandlerInv, ReadRowInv, Monotone, Busy, Key, Signed
<1>3. CASE ~Busy(h)
  BY <1>3 DEF HandlerInv, ReadRowInv, Busy
<1> QED
  BY <1>2, <1>3

\* An idle handler relies on nothing.
LEMMA IdleInv ==
  ASSUME NEW h \in Handlers, handler'[h] = Idle
  PROVE  HandlerInv(h)' /\ ReadRowInv(h)'
BY DEF HandlerInv, ReadRowInv, Busy, Idle

\* The rows of the challenge table: only Begin adds one, only Consume removes one.
LEMMA RowsStep ==
  ASSUME IInv, [Next]_vars
  PROVE  RowsInv' /\ WinsInv'
<1> USE DEF IInv, RowsInv, WinsInv
<1>1. ASSUME NEW b \in Browsers, NEW p \in Purposes, Begin(b, p)
      PROVE  RowsInv' /\ WinsInv'
  BY <1>1 DEF Begin, history, TypeInv, TypeOK, ChallengeRow
<1>2. ASSUME NEW h \in Handlers, Consume(h)
      PROVE  RowsInv' /\ WinsInv'
  <2>1. Busy(h) /\ handler[h].row \in Challenges /\ handler[h].row \in issued
    BY <1>2, BusyIsRunning DEF Consume, Busy, TypeInv, HandlerInv
  <2>2. wins[handler[h].row] = 0
    BY <1>2 DEF Consume, RowExists
  <2>3. wins' = [wins EXCEPT ![handler[h].row] = 1]
    BY <1>2, <2>2 DEF Consume
  <2> QED
    BY <1>2, <2>1, <2>3 DEF Consume, TypeInv, TypeOK, ChallengeRow
<1>3. CASE UNCHANGED <<challenges, issued, wins>>
  BY <1>3
<1> QED
  BY <1>1, <1>2, <1>3
  DEF Next, BeginRegistration, BeginAuthentication, Purposes, LoseCookie, Prompt, Arrive,
      FinishRegistration, FinishAuthentication, Progress, CheckDeployed, SendCreate,
      PollEnds, Recheck, CheckOwner, UpsertCredential, UpsertAccount, LookUp, StoreCounter,
      Attach, ListAccounts, DeleteThrows, Fail, Land, Drop, Tick, vars, database, history

\* The rest of a running handler is untouched when only pc, owner or listed move.
SameRequest(h) ==
  /\ handler'[h].row = handler[h].row
  /\ handler'[h].user = handler[h].user
  /\ handler'[h].response = handler[h].response

\* A handler on its way to another step keeps what it relies on.
LEMMA MovedInv ==
  ASSUME IInv, TypeInv', Monotone, NEW h \in Handlers, Busy(h), SameRequest(h),
         handler'[h].deployed => chain'[Key(h)] = "deployed",
         handler'[h].pc \in NeedsCredential => Stored(Key(h))',
         handler'[h].pc = "consume" => Mapped(Key(h))'
  PROVE  HandlerInv(h)' /\ ReadRowInv(h)'
BY DEF IInv, HandlerInv, ReadRowInv, SameRequest, Monotone, Busy, Key, Signed

\* Each step of a handler establishes what its next step relies on.
LEMMA ProgressInv ==
  ASSUME IInv, TypeInv', Monotone, NEW h \in Handlers, Progress(h)
  PROVE  HandlerInv(h)' /\ ReadRowInv(h)'
<1>1. Busy(h)
  BY DEF Progress, Busy, CheckDeployed, SendCreate, PollEnds, Recheck, CheckOwner,
         UpsertCredential, UpsertAccount, LookUp, StoreCounter, Attach, ListAccounts,
         Consume, DeleteThrows
<1>2. /\ handler[h] \in Running
      /\ Key(h) \in Credentials
      /\ handler[h].user \in Users /\ handler[h].user # None
  BY <1>1, BusyIsRunning, NoneAssumption DEF IInv, TypeInv
<1>3. HandlerInv(h)
  BY DEF IInv
<1>4. ASSUME Answer(h)
      PROVE  HandlerInv(h)' /\ ReadRowInv(h)'
  BY <1>4, IdleInv DEF Answer, IInv, TypeInv, TypeOK
<1>5. ASSUME NEW p \in BusyPc, Goto(h, p),
             p \in NeedsCredential => Stored(Key(h))',
             p = "consume" => Mapped(Key(h))'
      PROVE  HandlerInv(h)' /\ ReadRowInv(h)'
  <2>1. handler'[h] = [handler[h] EXCEPT !.pc = p]
    BY <1>1, <1>5, GotoMoves DEF IInv, TypeInv
  <2>2. SameRequest(h) /\ handler'[h].pc = p /\ handler'[h].deployed = handler[h].deployed
    BY <1>2, <2>1 DEF SameRequest, Running
  <2>3. handler'[h].deployed => chain'[Key(h)] = "deployed"
    BY <1>1, <1>2, <1>3, <2>2 DEF HandlerInv, Monotone
  <2> QED
    BY <1>1, <1>5, <2>2, <2>3, MovedInv
<1>6. CASE CheckDeployed(h) \/ PollEnds(h)
  BY <1>5, <1>6 DEF CheckDeployed, PollEnds, BusyPc, NeedsCredential
<1>7. CASE SendCreate(h) \/ CheckOwner(h)
  BY <1>4, <1>5, <1>7 DEF SendCreate, CheckOwner, BusyPc, NeedsCredential
<1>8. CASE Recheck(h)
  <2>1. handler'[h] = [handler[h] EXCEPT !.pc = "owner",
                                         !.deployed = (chain[Key(h)] = "deployed")]
    BY <1>8 DEF Recheck, IInv, TypeInv, TypeOK
  <2>2. SameRequest(h) /\ handler'[h].pc = "owner"
        /\ handler'[h].deployed = (chain[Key(h)] = "deployed")
    BY <1>2, <2>1 DEF SameRequest, Running
  <2> QED
    BY <1>1, <1>2, <2>2, MovedInv DEF NeedsCredential, Monotone
<1>9. CASE UpsertCredential(h)
  <2>1. Stored(Key(h))'
    <3>1. credential'[Key(h)].user = handler[h].user
      BY <1>2, <1>9 DEF UpsertCredential, IInv, TypeInv, TypeOK
    <3>2. Goto(h, "account")
      BY <1>9 DEF UpsertCredential
    <3>3. handler'[h] = [handler[h] EXCEPT !.pc = "account"]
      BY <1>1, <3>2, GotoMoves DEF IInv, TypeInv, BusyPc
    <3>4. Key(h)' = Key(h)
      BY <1>2, <3>3 DEF Key, Running
    <3> QED
      BY <1>2, <3>1, <3>4 DEF Stored
  <2> QED
    BY <1>5, <1>9, <2>1 DEF UpsertCredential, BusyPc
<1>10. ASSUME UpsertAccount(h) \/ StoreCounter(h) \/ Attach(h)
       PROVE  HandlerInv(h)' /\ ReadRowInv(h)'
  <2>1. PICK p \in {"consume", "attach", "list"} :
          Goto(h, p) /\ (p = "consume" => UpsertAccount(h))
    BY <1>10 DEF UpsertAccount, StoreCounter, Attach
  <2>2. handler'[h] = [handler[h] EXCEPT !.pc = p]
    BY <1>1, <2>1, GotoMoves DEF IInv, TypeInv, BusyPc
  <2>3. Key(h)' = Key(h)
    BY <1>2, <2>2 DEF Key, Running
  <2>4. Stored(Key(h))
    BY <1>1, <1>3, <1>10 DEF HandlerInv, NeedsCredential, UpsertAccount, StoreCounter, Attach
  <2>5. Stored(Key(h))'
    BY <1>2, <2>3, <2>4 DEF Monotone, Stored
  <2>6. p = "consume" => Mapped(Key(h))'
    BY <1>2, <2>1, <2>3 DEF UpsertAccount, Mapped, IInv, TypeInv, TypeOK
  <2> QED
    BY <1>5, <2>1, <2>5, <2>6 DEF BusyPc
<1>11. CASE LookUp(h)
  <2>1. CASE Answer(h)
    BY <1>4, <2>1
  <2>2. CASE /\ Stored(Key(h))
             /\ handler' = [handler EXCEPT ![h].pc = "count",
                                           ![h].owner = credential[Key(h)].user]
    <3>1. handler'[h] = [handler[h] EXCEPT !.pc = "count",
                                           !.owner = credential[Key(h)].user]
      BY <2>2 DEF IInv, TypeInv, TypeOK
    <3>2. SameRequest(h) /\ handler'[h].pc = "count" /\ Key(h)' = Key(h)
          /\ handler'[h].deployed = handler[h].deployed
      BY <1>2, <3>1 DEF SameRequest, Running, Key
    <3>3. Stored(Key(h))'
      BY <1>2, <2>2, <3>2 DEF Monotone, Stored
    <3> QED
      BY <1>1, <1>2, <1>3, <3>2, <3>3, MovedInv DEF HandlerInv, Monotone
  <2> QED
    BY <1>11, <2>1, <2>2 DEF LookUp
<1>12. CASE ListAccounts(h)
  <2>1. CASE Answer(h)
    BY <1>4, <2>1
  <2>2. CASE /\ Mapped(Key(h))
             /\ handler' = [handler EXCEPT ![h].pc = "consume",
                              ![h].listed = (account[Key(h)].user = handler[h].user)]
    <3>1. handler'[h] = [handler[h] EXCEPT !.pc = "consume",
                           !.listed = (account[Key(h)].user = handler[h].user)]
      BY <2>2 DEF IInv, TypeInv, TypeOK
    <3>2. SameRequest(h) /\ handler'[h].pc = "consume" /\ Key(h)' = Key(h)
          /\ handler'[h].deployed = handler[h].deployed
      BY <1>2, <3>1 DEF SameRequest, Running, Key
    <3>3. Stored(Key(h)) /\ Mapped(Key(h))
      BY <1>1, <1>3, <1>12, <2>2 DEF HandlerInv, NeedsCredential, ListAccounts
    <3>4. Stored(Key(h))' /\ Mapped(Key(h))'
      BY <1>2, <3>2, <3>3 DEF Monotone, Stored, Mapped
    <3> QED
      BY <1>1, <1>2, <1>3, <3>2, <3>4, MovedInv DEF HandlerInv, Monotone
  <2> QED
    BY <1>12, <2>1, <2>2 DEF ListAccounts
<1>13. CASE Consume(h) \/ DeleteThrows(h)
  BY <1>4, <1>13 DEF Consume, DeleteThrows
<1> QED
  BY <1>6, <1>7, <1>8, <1>9, <1>10, <1>11, <1>12, <1>13 DEF Progress

\* A handler starts with the row it has read and nothing else.
LEMMA ArriveInv ==
  ASSUME IInv, TypeInv', Monotone, NEW h \in Handlers, Arrive(h)
  PROVE  HandlerInv(h)' /\ ReadRowInv(h)'
<1>1. CASE handler' = handler
  BY <1>1, HandlerFrame
<1>2. ASSUME NEW r \in responses, NEW u \in Users, NEW row \in challenges,
             NEW p \in {"deploy", "lookup"}, Run(h, p, u, r, row.id),
             challenges' = challenges, issued' = issued,
             row.purpose = r.purpose, r.purpose = "registration" => row.user = u
      PROVE  HandlerInv(h)' /\ ReadRowInv(h)'
  <2>1. r \in Response /\ row.id \in Challenges
    BY DEF IInv, TypeInv, TypeOK, ChallengeRow
  <2>2. handler'[h] = [pc |-> p, user |-> u, response |-> r, row |-> row.id,
                       owner |-> None, deployed |-> FALSE, listed |-> FALSE]
    BY <1>2, <2>1, RunTyped DEF BusyPc, IInv, TypeInv
  <2>3. HandlerInv(h)'
    BY <1>2, <2>2 DEF HandlerInv, NeedsCredential, IInv, RowsInv
  <2>4. ReadRowInv(h)'
    BY <1>2, <2>2 DEF ReadRowInv, Signed, IInv, RowsInv
  <2> QED
    BY <2>3, <2>4
<1>3. ASSUME NEW r \in responses, FinishRegistration(h, r)
      PROVE  HandlerInv(h)' /\ ReadRowInv(h)'
  <2>1. \/ handler' = handler
        \/ \E u \in Users : \E row \in RegistrationRows(u) : Run(h, "deploy", u, r, row.id)
    BY <1>3 DEF FinishRegistration, Reject, Latest
  <2>2. ASSUME NEW u \in Users, NEW row \in RegistrationRows(u), Run(h, "deploy", u, r, row.id)
        PROVE  HandlerInv(h)' /\ ReadRowInv(h)'
    BY <1>2, <1>3, <2>2 DEF FinishRegistration, RegistrationRows
  <2> QED
    BY <1>1, <2>1, <2>2
<1>4. ASSUME NEW r \in responses, FinishAuthentication(h, r)
      PROVE  HandlerInv(h)' /\ ReadRowInv(h)'
  <2>1. \/ handler' = handler
        \/ \E u \in Users, row \in AuthenticationRows : Run(h, "lookup", u, r, row.id)
    BY <1>4 DEF FinishAuthentication, Reject, Latest
  <2>2. ASSUME NEW u \in Users, NEW row \in AuthenticationRows, Run(h, "lookup", u, r, row.id)
        PROVE  HandlerInv(h)' /\ ReadRowInv(h)'
    BY <1>2, <1>4, <2>2 DEF FinishAuthentication, AuthenticationRows
  <2> QED
    BY <1>1, <2>1, <2>2
<1> QED
  BY <1>3, <1>4 DEF Arrive

\* What each handler relies on survives every step of every other handler.
LEMMA HandlersStep ==
  ASSUME IInv, TypeInv', Monotone, [Next]_vars, NEW g \in Handlers
  PROVE  HandlerInv(g)' /\ ReadRowInv(g)'
<1>1. CASE handler'[g] = handler[g]
  BY <1>1, HandlerFrame
<1>2. CASE Arrive(g)
  BY <1>2, ArriveInv
<1>3. CASE Progress(g)
  BY <1>3, ProgressInv
<1>4. CASE Fail(g)
  BY <1>4, IdleInv DEF Fail, Answer, IInv, TypeInv, TypeOK
<1>5. ASSUME NEW h \in Handlers, h # g, Arrive(h) \/ Progress(h) \/ Fail(h)
      PROVE  handler'[g] = handler[g]
  BY <1>5
  DEF Arrive, FinishRegistration, FinishAuthentication, Reject, Run, Progress, CheckDeployed,
      SendCreate, PollEnds, Recheck, CheckOwner, UpsertCredential, UpsertAccount, LookUp,
      StoreCounter, Attach, ListAccounts, Consume, DeleteThrows, Fail, Answer, Goto,
      IInv, TypeInv, TypeOK
<1>6. CASE UNCHANGED handler
  BY <1>1, <1>6
<1> QED
  BY <1>1, <1>2, <1>3, <1>4, <1>5, <1>6
  DEF Next, BeginRegistration, BeginAuthentication, Begin, LoseCookie, Prompt, Land, Drop,
      Tick, vars

\* The tables: every row a handler writes rests on what its earlier steps found.
LEMMA TablesStep ==
  ASSUME IInv, TypeInv', Monotone, [Next]_vars
  PROVE  AccountHasCredential' /\ DeployedIsTrue' /\ AcknowledgedIsStored'
<1>1. ASSUME NEW h \in Handlers, UpsertAccount(h)
      PROVE  AccountHasCredential' /\ DeployedIsTrue' /\ AcknowledgedIsStored'
  <2>1. /\ Busy(h) /\ Key(h) \in Credentials
        /\ Stored(Key(h))
        /\ handler[h].deployed => chain[Key(h)] = "deployed"
    BY <1>1, BusyIsRunning DEF UpsertAccount, Busy, IInv, TypeInv, HandlerInv, NeedsCredential
  <2> QED
    BY <1>1, <2>1
    DEF UpsertAccount, IInv, TypeInv, TypeOK, AccountRow, Monotone, history, Stored, Mapped,
        AccountHasCredential, DeployedIsTrue, AcknowledgedIsStored
<1>2. ASSUME NEW h \in Handlers, Attach(h)
      PROVE  AccountHasCredential' /\ DeployedIsTrue' /\ AcknowledgedIsStored'
  <2>1. /\ Busy(h) /\ Key(h) \in Credentials
        /\ Stored(Key(h))
        /\ handler[h].user \in Users /\ handler[h].user # None
    BY <1>2, BusyIsRunning, NoneAssumption
    DEF Attach, Busy, IInv, TypeInv, HandlerInv, NeedsCredential
  <2> QED
    BY <1>2, <2>1
    DEF Attach, IInv, TypeInv, TypeOK, AccountRow, CredentialRow, Monotone, history, Stored,
        Mapped, AccountHasCredential, DeployedIsTrue, AcknowledgedIsStored
<1>3. ASSUME NEW h \in Handlers, Consume(h)
      PROVE  AccountHasCredential' /\ DeployedIsTrue' /\ AcknowledgedIsStored'
  <2>1. Stored(Key(h)) /\ Mapped(Key(h))
    BY <1>3 DEF Consume, Busy, IInv, HandlerInv, NeedsCredential
  <2> QED
    BY <1>3, <2>1
    DEF Consume, IInv, Stored, Mapped, AccountHasCredential, DeployedIsTrue,
        AcknowledgedIsStored
<1>4. CASE UNCHANGED <<account, acked>>
  BY <1>4 DEF IInv, TypeInv, TypeOK, Monotone, Stored, Mapped, AccountHasCredential,
              DeployedIsTrue, AcknowledgedIsStored
<1> QED
  BY <1>1, <1>2, <1>3, <1>4
  DEF Next, BeginRegistration, BeginAuthentication, Begin, LoseCookie, Prompt, Arrive,
      FinishRegistration, FinishAuthentication, Progress, CheckDeployed, SendCreate,
      PollEnds, Recheck, CheckOwner, UpsertCredential, LookUp, StoreCounter, ListAccounts,
      DeleteThrows, Fail, Land, Drop, Tick, vars, database, history

\* The empty database satisfies the inductive invariant.
LEMMA InitInv == Init => IInv
<1> SUFFICES ASSUME Init
             PROVE  IInv
  OBVIOUS
<1>1. TypeInv
  BY InitTyped
<1>2. \A h \in Handlers : HandlerInv(h) /\ ReadRowInv(h)
  BY DEF Init, HandlerInv, ReadRowInv, Busy, Idle
<1>3. RowsInv /\ WinsInv /\ AccountHasCredential /\ AcknowledgedIsStored /\ DeployedIsTrue
  BY DEF Init, RowsInv, WinsInv, AccountHasCredential, AcknowledgedIsStored, DeployedIsTrue,
         Mapped, Stored
<1> QED
  BY <1>1, <1>2, <1>3 DEF IInv

\* The inductive invariant is inductive.
LEMMA NextInv == IInv /\ [Next]_vars => IInv'
<1> SUFFICES ASSUME IInv, [Next]_vars
             PROVE  IInv'
  OBVIOUS
<1>1. TypeInv'
  BY NextTyped DEF IInv
<1>2. Monotone
  BY NextMonotone DEF IInv
<1>3. RowsInv' /\ WinsInv'
  BY RowsStep
<1>4. \A h \in Handlers : HandlerInv(h)' /\ ReadRowInv(h)'
  BY <1>1, <1>2, HandlersStep
<1>5. AccountHasCredential' /\ DeployedIsTrue' /\ AcknowledgedIsStored'
  BY <1>1, <1>2, TablesStep
<1> QED
  BY <1>1, <1>3, <1>4, <1>5 DEF IInv

(* The strengthening holds in every reachable state: whatever another     *)
(* handler did since, a handler's next step finds what it counts on.       *)
THEOREM Invariance == Spec => []IInv
BY InitInv, NextInv, PTL DEF Spec

-----------------------------------------------------------------------------
(* However many finish requests run for one challenge, at once or one      *)
(* after the other, at most one of them is answered with 200.              *)
THEOREM AtMostOneSuccess == Spec => []OneSuccessPerChallenge
<1>1. IInv => OneSuccessPerChallenge
  BY DEF IInv, WinsInv, OneSuccessPerChallenge
<1> QED
  BY <1>1, Invariance, PTL

(* A registration answered with 200 has both its rows for good.            *)
THEOREM AcknowledgedStays == Spec => []AcknowledgedIsStored
<1>1. IInv => AcknowledgedIsStored
  BY DEF IInv
<1> QED
  BY <1>1, Invariance, PTL

(* A row that says deployed is right about the ledger.                     *)
THEOREM DeployedStays == Spec => []DeployedIsTrue
<1>1. IInv => DeployedIsTrue
  BY DEF IInv
<1> QED
  BY <1>1, Invariance, PTL

(* A registration challenge is spent by the session it was issued to.      *)
THEOREM RegistrationSpentByItsUser == Spec => SpentByItsUser
<1> DEFINE Spent(row) ==
      row.purpose = "registration" =>
         \E h \in Handlers : Busy(h) /\ handler[h].row = row.id /\ handler[h].user = row.user
<1>1. ASSUME IInv, [Next]_vars, NEW row \in challenges \ challenges'
      PROVE  Spent(row)
  <2>1. PICK h \in Handlers : Consume(h)
    BY <1>1
    DEF Next, BeginRegistration, BeginAuthentication, Begin, LoseCookie, Prompt, Arrive,
        FinishRegistration, FinishAuthentication, Progress, CheckDeployed, SendCreate,
        PollEnds, Recheck, CheckOwner, UpsertCredential, UpsertAccount, LookUp, StoreCounter,
        Attach, ListAccounts, DeleteThrows, Fail, Land, Drop, Tick, vars, database
  <2>2. row.id = handler[h].row /\ Busy(h)
    BY <1>1, <2>1 DEF Consume, Busy
  <2>3. ReadRowInv(h)
    BY <1>1 DEF IInv
  <2> QED
    BY <1>1, <2>2, <2>3 DEF ReadRowInv
<1>2. IInv /\ [Next]_vars =>
        [\A row \in challenges \ challenges' : Spent(row)]_vars
  BY <1>1
<1>3. Spec => [][\A row \in challenges \ challenges' : Spent(row)]_vars
  BY <1>2, Invariance, PTL DEF Spec
<1> QED
  BY <1>3 DEF SpentByItsUser

-----------------------------------------------------------------------------
(* The ceremonies implement the challenge book: every step is a step of    *)
(* the book or leaves it alone.                                            *)
THEOREM Refinement == Spec => ImplementsBook
<1> DEFINE Kept == {k \in Credentials : Mapped(k)}
<1>1. Init => Book!Init
  BY DEF Init, Book!Init, Mapped
<1>2. ASSUME IInv, IInv', [Next]_vars
      PROVE  [Book!Next]_Book!bookVars
  <2> USE DEF Book!bookVars
  <2>1. ASSUME NEW b \in Browsers, BeginRegistration(b) \/ BeginAuthentication(b)
        PROVE  Book!Next
    <3>1. PICK c \in Challenges \ issued :
            issued' = issued \cup {c} /\ UNCHANGED <<wins, acked, account>>
      BY <2>1 DEF BeginRegistration, BeginAuthentication, Begin, history
    <3>2. Book!Issue(c)
      BY <3>1 DEF Book!Issue, Mapped
    <3> QED
      BY <3>2 DEF Book!Next
  <2>2. ASSUME NEW h \in Handlers, UpsertAccount(h)
        PROVE  Book!Next
    <3>1. Busy(h) /\ Key(h) \in Credentials /\ handler[h].user # None
      BY <1>2, <2>2, BusyIsRunning, NoneAssumption DEF UpsertAccount, Busy, IInv, TypeInv
    <3>2. Kept' = Kept \cup {Key(h)}
      BY <1>2, <2>2, <3>1 DEF UpsertAccount, Mapped, IInv, TypeInv, TypeOK, AccountRow
    <3>3. Book!Keep(Key(h))
      BY <2>2, <3>2 DEF UpsertAccount, Book!Keep, history
    <3> QED
      BY <3>1, <3>3 DEF Book!Next
  <2>3. ASSUME NEW h \in Handlers, Consume(h)
        PROVE  Book!Next
    <3>1. /\ handler[h].row \in Challenges /\ handler[h].row \in issued
          /\ Key(h) \in Kept
      BY <1>2, <2>3, BusyIsRunning DEF Consume, Busy, IInv, TypeInv, HandlerInv
    <3>2. wins[handler[h].row] = 0
      BY <1>2, <2>3 DEF Consume, RowExists, IInv, RowsInv
    <3>3. wins' = [wins EXCEPT ![handler[h].row] = 1]
      BY <2>3, <3>2 DEF Consume
    <3>4. Book!Acknowledge(handler[h].row, Key(h))
      BY <2>3, <3>1, <3>2, <3>3 DEF Consume, Book!Acknowledge, Mapped
    <3> QED
      BY <3>1, <3>4 DEF Book!Next
  <2>4. ASSUME NEW h \in Handlers, Attach(h)
        PROVE  UNCHANGED <<issued, wins, Kept, acked>>
    <3>1. Busy(h) /\ Key(h) \in Credentials /\ handler[h].user # None
      BY <1>2, <2>4, BusyIsRunning, NoneAssumption DEF Attach, Busy, IInv, TypeInv
    <3>2. Kept' = Kept
      BY <1>2, <2>4, <3>1 DEF Attach, Mapped, IInv, TypeInv, TypeOK, AccountRow
    <3> QED
      BY <2>4, <3>2 DEF Attach, history
  <2>5. CASE UNCHANGED <<issued, wins, account, acked>>
    BY <2>5 DEF Mapped
  <2> QED
    BY <1>2, <2>1, <2>2, <2>3, <2>4, <2>5
    DEF Next, LoseCookie, Prompt, Arrive, FinishRegistration, FinishAuthentication, Progress,
        CheckDeployed, SendCreate, PollEnds, Recheck, CheckOwner, UpsertCredential, LookUp,
        StoreCounter, ListAccounts, DeleteThrows, Fail, Land, Drop, Tick, vars, database,
        history
<1> QED
  BY <1>1, <1>2, Invariance, PTL DEF Spec, ImplementsBook, Book!Spec

=============================================================================
