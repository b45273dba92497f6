-------------------------- MODULE PasskeyOwners_proofs --------------------------
(***************************************************************************)
(* Who owns a passkey, and what a login may rely on.  The finish handlers  *)
(* of one passkey are several awaits with no lock around them, so what one *)
(* of them has read may be gone when it writes.  As long as no two of them *)
(* run for the same passkey at once, and however many run for different    *)
(* ones, the credential row and the account row name the same user, a      *)
(* login lists the account it logged into and the stored counter grows.    *)
(*                                                                         *)
(* Overlapping logins alone never separate the two rows.  A registration   *)
(* that overlaps a login does: the login moves the credential between the  *)
(* registration's two upserts, and the second one writes the account of    *)
(* the wrong user.                                                         *)
(***************************************************************************)
EXTENDS PasskeyCeremony_proofs

RegistrationPc == {"deploy", "send", "poll", "recheck", "owner", "credential", "account"}

\* Which half of the program a handler is in follows from what it answers.
KindInv ==
  \A h \in Handlers :
    Busy(h) /\ handler[h].pc \in RegistrationPc => Signed(h).purpose = "registration"

\* No two finish requests for one passkey are in flight together.
PasskeysApart == \A g, h \in Handlers : Busy(g) /\ Busy(h) /\ Key(g) = Key(h) => g = h

(* What a handler has read of the credential and still holds when it acts  *)
(* on it: the owner a registration has checked and written, the owner and  *)
(* the counter a login has compared, the list it has found its account in. *)
OwnInv(h) ==
  /\ handler[h].pc = "credential" => credential[Key(h)].user \in {None, handler[h].user}
  /\ handler[h].pc = "account" => credential[Key(h)].user = handler[h].user
  /\ handler[h].pc = "count" => /\ credential[Key(h)].user = handler[h].owner
                                /\ credential[Key(h)].signCount <= Signed(h).counter
  /\ handler[h].pc = "list" => credential[Key(h)].user = handler[h].user
  /\ handler[h].pc = "consume" /\ Signed(h).purpose = "authentication" => handler[h].listed

ApartInv == OwnersAgree /\ \A h \in Handlers : OwnInv(h)

-----------------------------------------------------------------------------
\* A step changes the owner columns in three places only.
LEMMA OwnersStep ==
  ASSUME IInv, [Next]_vars
  PROVE  \/ \E h \in Handlers : UpsertCredential(h) \/ UpsertAccount(h) \/ Attach(h)
         \/ \A k \in Credentials : /\ credential'[k].user = credential[k].user
                                   /\ account'[k] = account[k]
<1>1. ASSUME NEW h \in Handlers, StoreCounter(h)
      PROVE  \A k \in Credentials : /\ credential'[k].user = credential[k].user
                                    /\ account'[k] = account[k]
  BY <1>1 DEF StoreCounter, IInv, TypeInv, TypeOK, CredentialRow
<1>2. CASE UNCHANGED <<credential, account>>
  BY <1>2
<1> QED
  BY <1>1, <1>2
  DEF Next, BeginRegistration, BeginAuthentication, Begin, LoseCookie, Prompt, Arrive,
      FinishRegistration, FinishAuthentication, Progress, CheckDeployed, SendCreate, PollEnds,
      Recheck, CheckOwner, LookUp, ListAccounts, Consume, DeleteThrows, Fail, Land, Drop,
      Tick, vars, database

\* The transaction of a login moves both rows or only the one there is.
LEMMA AttachAgrees ==
  ASSUME IInv, OwnersAgree, NEW h \in Handlers, Attach(h)
  PROVE  OwnersAgree'
<1>1. Key(h) \in Credentials /\ handler[h].user # None
  BY BusyIsRunning, NoneAssumption DEF Attach, Busy, IInv, TypeInv
<1> QED
  BY <1>1 DEF Attach, OwnersAgree, Mapped, IInv, TypeInv, TypeOK, CredentialRow, AccountRow

-----------------------------------------------------------------------------
\* A handler is moved by nothing but its own steps.
LEMMA MovesItself ==
  ASSUME IInv, [Next]_vars, NEW h \in Handlers
  PROVE  handler'[h] = handler[h] \/ Arrive(h) \/ Progress(h) \/ Fail(h)
<1>1. ASSUME NEW g \in Handlers, g # h, Arrive(g) \/ Progress(g) \/ Fail(g)
      PROVE  handler'[h] = handler[h]
  BY <1>1
  DEF Arrive, FinishRegistration, FinishAuthentication, Run, Reject, Progress, CheckDeployed,
      SendCreate, PollEnds, Recheck, CheckOwner, UpsertCredential, UpsertAccount, LookUp,
      StoreCounter, Attach, ListAccounts, Consume, DeleteThrows, Fail, Goto, Answer,
      IInv, TypeInv, TypeOK
<1>2. CASE UNCHANGED handler
  BY <1>2
<1> QED
  BY <1>1, <1>2 DEF Next, BeginRegistration, BeginAuthentication, Begin, LoseCookie, Prompt,
                    Land, Drop, Tick, vars

\* A handler runs the half of the program its request is for.
LEMMA KindStep ==
  ASSUME IInv, KindInv, [Next]_vars
  PROVE  KindInv'
<1> SUFFICES ASSUME NEW h \in Handlers, Busy(h)', handler'[h].pc \in RegistrationPc
             PROVE  Signed(h)'.purpose = "registration"
  BY DEF KindInv
<1>1. CASE handler'[h] = handler[h]
  BY <1>1 DEF KindInv, Busy, Signed
<1>2. CASE handler'[h] # handler[h] /\ Arrive(h)
  <2>1. PICK r \in responses : FinishRegistration(h, r) \/ FinishAuthentication(h, r)
    BY <1>2 DEF Arrive
  <2>2. handler \in [Handlers -> Running \cup {Idle}]
    BY DEF IInv, TypeInv, TypeOK
  <2> QED
    BY <1>2, <2>1, <2>2 DEF FinishRegistration, FinishAuthentication, Run, Reject, Busy, Signed,
                            RegistrationPc
<1>3. CASE handler'[h] # handler[h] /\ Progress(h)
  <2>1. Busy(h) /\ handler[h] \in Running
    BY <1>3, BusyIsRunning
    DEF IInv, TypeInv, Busy, Progress, CheckDeployed, SendCreate, PollEnds, Recheck, CheckOwner,
        UpsertCredential, UpsertAccount, LookUp, StoreCounter, Attach, ListAccounts, Consume,
        DeleteThrows
  <2>2. handler' # [handler EXCEPT ![h] = Idle]
    BY DEF Busy, Idle, IInv, TypeInv, TypeOK
  <2>3. handler[h].pc \in RegistrationPc /\ handler'[h].response = handler[h].response
    BY <1>3, <2>1, <2>2
    DEF IInv, TypeInv, TypeOK, Running, Progress, CheckDeployed, SendCreate, PollEnds, Recheck,
        CheckOwner, UpsertCredential, UpsertAccount, LookUp, StoreCounter, Attach, ListAccounts,
        Consume, DeleteThrows, Goto, Answer, RegistrationPc
  <2> QED
    BY <2>1, <2>3 DEF KindInv, Signed
<1>4. CASE handler'[h] # handler[h] /\ Fail(h)
  BY <1>4 DEF Fail, Answer, Busy, Idle, IInv, TypeInv, TypeOK
<1> QED
  BY <1>1, <1>2, <1>3, <1>4, MovesItself

(* A request for a login never runs the upserts of a registration.         *)
THEOREM RequestsKeepTheirKind == Spec => []KindInv
<1>1. Init => KindInv
  BY DEF Init, KindInv, Busy, Idle
<1>2. IInv /\ KindInv /\ [Next]_vars => KindInv'
  BY KindStep
<1> QED
  BY <1>1, <1>2, Invariance, PTL DEF Spec

(* Racing logins keep the owners of passkey and account the same while no  *)
(* registration runs, for any number of them.                              *)
THEOREM LoginsMoveBoth == Spec => LoginsKeepOwners
<1> DEFINE LoginsOnly == /\ OwnersAgree
                         /\ \A h \in Handlers : Busy(h) => Signed(h).purpose = "authentication"
<1>1. ASSUME IInv, KindInv, [Next]_vars, LoginsOnly
      PROVE  OwnersAgree'
  <2>1. ASSUME NEW h \in Handlers, UpsertCredential(h) \/ UpsertAccount(h)
        PROVE  FALSE
    BY <1>1, <2>1 DEF UpsertCredential, UpsertAccount, KindInv, Busy, RegistrationPc
  <2>2. CASE \A k \in Credentials : /\ credential'[k].user = credential[k].user
                                    /\ account'[k] = account[k]
    BY <1>1, <2>2 DEF OwnersAgree, Mapped
  <2> QED
    BY <1>1, <2>1, <2>2, OwnersStep, AttachAgrees
<1>2. IInv /\ KindInv /\ [Next]_vars => [LoginsOnly => OwnersAgree']_vars
  BY <1>1
<1>3. Spec => [][LoginsOnly => OwnersAgree']_vars
  BY <1>2, Invariance, RequestsKeepTheirKind, PTL DEF Spec
<1> QED
  BY <1>3 DEF LoginsKeepOwners

-----------------------------------------------------------------------------
\* The credential of a handler that stands still is not written by another one.
LEMMA KeyFrame ==
  ASSUME IInv, PasskeysApart, [Next]_vars, NEW g \in Handlers, Busy(g), handler'[g] = handler[g]
  PROVE  credential'[Key(g)] = credential[Key(g)]
<1>1. ASSUME NEW h \in Handlers, UpsertCredential(h) \/ StoreCounter(h) \/ Attach(h)
      PROVE  credential'[Key(g)] = credential[Key(g)]
  <2>1. Busy(h) /\ handler[h] \in Running
    BY <1>1, BusyIsRunning DEF UpsertCredential, StoreCounter, Attach, Busy, IInv, TypeInv
  <2>2. handler'[h].pc # handler[h].pc
    BY <1>1, <2>1
    DEF UpsertCredential, StoreCounter, Attach, Goto, Running, IInv, TypeInv, TypeOK
  <2>3. Key(h) # Key(g)
    BY <2>1, <2>2 DEF PasskeysApart
  <2>4. Key(g) \in Credentials
    BY BusyIsRunning DEF IInv, TypeInv
  <2> QED
    BY <1>1, <2>3, <2>4 DEF UpsertCredential, StoreCounter, Attach, IInv, TypeInv, TypeOK
<1>2. CASE UNCHANGED credential
  BY <1>2
<1> QED
  BY <1>1, <1>2
  DEF Next, BeginRegistration, BeginAuthentication, Begin, LoseCookie, Prompt, Arrive,
      FinishRegistration, FinishAuthentication, Progress, CheckDeployed, SendCreate, PollEnds,
      Recheck, CheckOwner, UpsertAccount, LookUp, ListAccounts, Consume, DeleteThrows, Fail,
      Land, Drop, Tick, vars, database

\* Each step of a handler establishes what its next step relies on.
LEMMA OwnStep ==
  ASSUME IInv, KindInv, OwnersAgree, NEW h \in Handlers, OwnInv(h), Progress(h)
  PROVE  OwnInv(h)'
<1> USE DEF IInv, TypeInv, TypeOK
<1>1. /\ Busy(h) /\ handler[h] \in Running
      /\ Key(h) \in Credentials /\ Signed(h) \in Response /\ handler[h].user \in Users
  BY BusyIsRunning
  DEF Progress, Busy, CheckDeployed, SendCreate, PollEnds, Recheck, CheckOwner,
      UpsertCredential, UpsertAccount, LookUp, StoreCounter, Attach, ListAccounts, Consume,
      DeleteThrows
<1>2. CASE handler'[h].pc \notin {"credential", "account", "count", "list", "consume"}
  BY <1>2 DEF OwnInv
<1>3. CASE Answer(h)
  BY <1>2, <1>3 DEF Answer, Idle
<1>4. CASE CheckDeployed(h) \/ SendCreate(h) \/ PollEnds(h) \/ Recheck(h)
  BY <1>1, <1>2, <1>3, <1>4 DEF CheckDeployed, SendCreate, PollEnds, Recheck, Goto, Running
<1>5. ASSUME NEW pc, Goto(h, pc)
      PROVE  /\ handler'[h].pc = pc /\ handler'[h].user = handler[h].user
             /\ handler'[h].owner = handler[h].owner
             /\ Key(h)' = Key(h) /\ Signed(h)' = Signed(h)
  BY <1>1, <1>5 DEF Goto, Running, Key, Signed
<1>6. CASE CheckOwner(h) /\ ~Answer(h)
  <2>1. Goto(h, "credential") /\ credential' = credential
        /\ credential[Key(h)].user \in {None, handler[h].user}
    BY <1>6 DEF CheckOwner, database
  <2> QED
    BY <1>5, <2>1 DEF OwnInv
<1>7. CASE UpsertCredential(h)
  <2>1. Goto(h, "account") /\ credential'[Key(h)].user = handler[h].user
    BY <1>1, <1>7 DEF UpsertCredential
  <2> QED
    BY <1>5, <2>1 DEF OwnInv
<1>8. CASE UpsertAccount(h)
  <2>1. Goto(h, "consume") /\ Signed(h).purpose = "registration"
    BY <1>1, <1>8 DEF UpsertAccount, KindInv, RegistrationPc
  <2> QED
    BY <1>5, <2>1 DEF OwnInv
<1>9. CASE LookUp(h) /\ ~Answer(h)
  <2>1. /\ CounterAccepted(Signed(h)) /\ credential' = credential
        /\ handler'[h] = [handler[h] EXCEPT !.pc = "count", !.owner = credential[Key(h)].user]
    BY <1>9 DEF LookUp, database
  <2>2. credential[Key(h)].signCount <= Signed(h).counter
    BY <1>1, <2>1 DEF CounterAccepted, Key, Signed, CredentialRow, Response
  <2>3. /\ handler'[h].pc = "count" /\ handler'[h].owner = credential[Key(h)].user
        /\ handler'[h].response = handler[h].response
    BY <1>1, <2>1 DEF Running
  <2> QED
    BY <2>1, <2>2, <2>3 DEF OwnInv, Key, Signed
<1>10. CASE StoreCounter(h)
  <2>1. credential'[Key(h)].user = handler[h].owner
    BY <1>1, <1>10 DEF StoreCounter, OwnInv, CredentialRow
  <2>2. CASE Goto(h, "attach")
    BY <1>2, <1>5, <2>2
  <2>3. CASE Goto(h, "list") /\ handler[h].owner = handler[h].user
    BY <1>5, <2>1, <2>3 DEF OwnInv
  <2> QED
    BY <1>10, <2>2, <2>3 DEF StoreCounter
<1>11. CASE Attach(h)
  <2>1. Goto(h, "list") /\ credential'[Key(h)].user = handler[h].user
    BY <1>1, <1>11 DEF Attach, CredentialRow
  <2> QED
    BY <1>5, <2>1 DEF OwnInv
<1>12. CASE ListAccounts(h) /\ ~Answer(h)
  <2>1. /\ Mapped(Key(h))
        /\ handler'[h] = [handler[h] EXCEPT !.pc = "consume",
                            !.listed = account[Key(h)].user = handler[h].user]
    BY <1>12 DEF ListAccounts
  <2>2. account[Key(h)].user = handler[h].user
    BY <1>1, <1>12, <2>1 DEF ListAccounts, OwnInv, OwnersAgree
  <2>3. handler'[h].pc = "consume" /\ handler'[h].listed
    BY <1>1, <2>1, <2>2 DEF Running
  <2> QED
    BY <2>3 DEF OwnInv
<1>13. CASE Consume(h) \/ DeleteThrows(h)
  BY <1>3, <1>13 DEF Consume, DeleteThrows
<1> QED
  BY <1>3, <1>4, <1>6, <1>7, <1>8, <1>9, <1>10, <1>11, <1>12, <1>13 DEF Progress

\* A registration that is alone with its passkey keeps the two rows together.
LEMMA UpsertsAgree ==
  ASSUME IInv, OwnersAgree, NEW h \in Handlers, OwnInv(h), UpsertCredential(h) \/ UpsertAccount(h)
  PROVE  OwnersAgree'
<1>1. Key(h) \in Credentials /\ handler[h].user \in Users
  BY BusyIsRunning DEF UpsertCredential, UpsertAccount, Busy, IInv, TypeInv
<1>2. CASE UpsertCredential(h)
  <2>1. credential'[Key(h)].user = handler[h].user
    BY <1>1, <1>2 DEF UpsertCredential, IInv, TypeInv, TypeOK
  <2>2. \A k \in Credentials \ {Key(h)} : credential'[k] = credential[k]
    BY <1>1, <1>2 DEF UpsertCredential, IInv, TypeInv, TypeOK
  <2> QED
    BY <1>1, <1>2, <2>1, <2>2
    DEF UpsertCredential, OwnersAgree, OwnInv, Mapped, Stored, IInv, AccountHasCredential
<1>3. CASE UpsertAccount(h)
  BY <1>1, <1>3 DEF UpsertAccount, OwnersAgree, OwnInv, Mapped, IInv, TypeInv, TypeOK
<1> QED
  BY <1>2, <1>3

\* Nothing comes between what a handler has read of its passkey and its next step.
LEMMA ApartStep ==
  ASSUME IInv, KindInv, ApartInv, PasskeysApart, [Next]_vars
  PROVE  ApartInv'
<1>1. OwnersAgree'
  <2>1. CASE \A k \in Credentials : /\ credential'[k].user = credential[k].user
                                    /\ account'[k] = account[k]
    BY <2>1 DEF ApartInv, OwnersAgree, Mapped
  <2> QED
    BY <2>1, OwnersStep, UpsertsAgree, AttachAgrees DEF ApartInv
<1>2. ASSUME NEW h \in Handlers
      PROVE  OwnInv(h)'
  <2>1. CASE handler'[h] = handler[h] /\ Busy(h)
    BY <1>2, <2>1, KeyFrame DEF ApartInv, OwnInv, Key, Signed
  <2>2. CASE handler'[h] = handler[h] /\ ~Busy(h)
    BY <2>2 DEF OwnInv, Busy
  <2>3. CASE handler'[h] # handler[h] /\ Arrive(h)
    BY <2>3 DEF Arrive, FinishRegistration, FinishAuthentication, Run, Reject, OwnInv, IInv,
                TypeInv, TypeOK
  <2>4. CASE Progress(h)
    BY <2>4, OwnStep DEF ApartInv
  <2>5. CASE Fail(h)
    BY <2>5 DEF Fail, Answer, Idle, OwnInv, IInv, TypeInv, TypeOK
  <2> QED
    BY <2>1, <2>2, <2>3, <2>4, <2>5, MovesItself
<1> QED
  BY <1>1, <1>2 DEF ApartInv

\* Requests that are served one after the other are apart.
LEMMA SerialIsApart ==
  ASSUME NEW only, Handlers = {only}
  PROVE  PasskeysApart
BY DEF PasskeysApart

LEMMA ApartInvariance == Spec /\ []PasskeysApart => []ApartInv
<1>1. Init => ApartInv
  BY DEF Init, ApartInv, OwnersAgree, Mapped, OwnInv, Idle
<1>2. IInv /\ KindInv /\ ApartInv /\ PasskeysApart /\ [Next]_vars => ApartInv'
  BY ApartStep
<1> QED
  BY <1>1, <1>2, Invariance, RequestsKeepTheirKind, PTL DEF Spec

(* Requests that do not overlap for one passkey keep its two rows with one *)
(* owner, wherever each of them fails or dies half way and whatever is     *)
(* done with other passkeys meanwhile.                                     *)
THEOREM ApartRequestsAgree == Spec /\ []PasskeysApart => []OwnersAgree
<1>1. ApartInv => OwnersAgree
  BY DEF ApartInv
<1> QED
  BY <1>1, ApartInvariance, PTL

(* A login that meets no other request for its passkey lists the account   *)
(* that was logged into when it is answered with 200: the violated promise *)
(* of authentication/finish 97 takes two requests for one passkey.         *)
THEOREM ApartLoginsListAccount == Spec /\ []PasskeysApart => LoginListsAccount
<1> DEFINE Listed == \A h \in Handlers :
             Consume(h) /\ Signed(h).purpose = "authentication" => handler[h].listed
<1>1. ApartInv => [Listed]_vars
  BY DEF ApartInv, OwnInv, Consume
<1>2. Spec /\ []PasskeysApart => [][Listed]_vars
  BY <1>1, ApartInvariance, PTL
<1> QED
  BY <1>2, PTL DEF LoginListsAccount

(* A login that meets no other request for its passkey never lowers the    *)
(* stored signature counter, in whatever order the responses arrive.       *)
THEOREM ApartLoginsRaiseCounter == Spec /\ []PasskeysApart => LoginsRaiseCounter
<1> DEFINE Raised == \A h \in Handlers :
             StoreCounter(h) => credential[Key(h)].signCount <= credential'[Key(h)].signCount
<1>1. ASSUME IInv, ApartInv, NEW h \in Handlers, StoreCounter(h)
      PROVE  credential[Key(h)].signCount <= credential'[Key(h)].signCount
  <2>1. Key(h) \in Credentials
    BY <1>1, BusyIsRunning DEF StoreCounter, Busy, IInv, TypeInv
  <2>2. credential'[Key(h)].signCount = Signed(h).counter
    BY <1>1, <2>1 DEF StoreCounter, IInv, TypeInv, TypeOK, CredentialRow
  <2> QED
    BY <1>1, <2>2 DEF ApartInv, OwnInv, StoreCounter
<1>2. IInv /\ ApartInv => [Raised]_vars
  BY <1>1
<1>3. Spec /\ []PasskeysApart => [][Raised]_vars
  BY <1>2, Invariance, ApartInvariance, PTL
<1> QED
  BY <1>3, PTL DEF LoginsRaiseCounter

=============================================================================
