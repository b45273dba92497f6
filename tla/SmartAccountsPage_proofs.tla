----------------------- MODULE SmartAccountsPage_proofs -----------------------
(***************************************************************************)
(* Proofs about SmartAccountsPage, for any wallets and passkeys and any    *)
(* number of increments that run into each other.                          *)
(***************************************************************************)
EXTENDS SmartAccountsPage, FiniteSetTheorems, TLAPS

-----------------------------------------------------------------------------
\* The states that the page keeps while a setup handler is at work.
Working(s) ==
  /\ s.at \in {"connect", "lookUp"} => mode = "wallet" /\ setupState = "connecting"
  /\ s.at = "deploy" => mode = "wallet" /\ setupState = "deploying"
  /\ s.at \in {"lookUp", "deploy"} => s.signer # None /\ wallet = s.signer
  /\ s.at \in {"create", "login", "loggedIn"} =>
       mode = "passkey" /\ setupState = "idle" /\ passkeyState = "registering"
  /\ s.at \in {"finish", "register", "list"} =>
       mode = "passkey" /\ setupState = "idle" /\ passkeyState = "deploying"
  /\ s.at \in {"register", "list", "loggedIn"} =>
       passkey # None /\ shown = passkey /\ shown = active
  /\ s.at = "connect" => s.signer \in Wallets

\* A handler at work is alone.
Alone == \A s \in setups : setups = {s} /\ Working(s)

\* A wallet leaves no passkey's handler behind.
WalletOnly == mode = "wallet" => passkeyState = "idle"

IInv == TypeOK /\ Alone /\ WalletOnly /\ ReadyIsSignedIn /\ NoOrphanSpinner

-----------------------------------------------------------------------------
\* A setup handler at work has disabled the buttons of the signers.
LEMMA NoneAtWork ==
  ASSUME IInv, ~AnySetupBusy
  PROVE  setups = {}
<1> SUFFICES ASSUME NEW s \in setups
             PROVE  FALSE
  OBVIOUS
<1>1. Working(s) /\ s \in Setup
  BY DEF IInv, Alone, TypeOK
<1> QED
  BY <1>1 DEF Working, Setup, AnySetupBusy

\* Nor is the page ready, or waiting for a deployment, while one is at work.
LEMMA NotReadyAtWork ==
  ASSUME IInv, IsReady \/ (mode = "wallet" /\ setupState = "connected")
  PROVE  setups = {}
<1> SUFFICES ASSUME NEW s \in setups
             PROVE  FALSE
  OBVIOUS
<1>1. Working(s) /\ s \in Setup
  BY DEF IInv, Alone, TypeOK
<1> QED
  BY <1>1 DEF Working, Setup, IsReady

\* An idle call of handleIncrement is none that runs.
LEMMA RunningIsNotIdle == \A r \in Running : r # Idle
BY DEF Running, Idle

\* The page as it is first rendered satisfies the invariant.
LEMMA InitInv == Init => IInv
BY DEF Init, IInv, TypeOK, Alone, ReadyIsSignedIn, IsReady, NoOrphanSpinner, WalletOnly, IsTxBusy

-----------------------------------------------------------------------------
\* Clicks that start a setup handler find no other at work.
LEMMA StartInv ==
  ASSUME IInv,
         (\E w \in Wallets : Connect(w)) \/ Deploy \/ CreateAccount \/ Login
  PROVE  IInv'
<1>1. CASE \E w \in Wallets : Connect(w)
  <2>1. PICK w \in Wallets : Connect(w)
    BY <1>1
  <2>2. setups' = {[at |-> "connect", signer |-> w]}
    BY <2>1, NoneAtWork DEF Connect, Begin
  <2>3. TypeOK'
    BY <2>1, <2>2 DEF IInv, TypeOK, Connect, Setup, Signers
  <2>4. Alone'
    BY <2>1, <2>2 DEF Alone, Working, Connect
  <2> QED
    BY <2>1, <2>2, <2>3, <2>4
       DEF IInv, Connect, ReadyIsSignedIn, IsReady, NoOrphanSpinner, WalletOnly, IsTxBusy
<1>2. CASE Deploy
  <2>1. setups' = {[at |-> "deploy", signer |-> wallet]}
    BY <1>2, NotReadyAtWork DEF Deploy, Begin
  <2>2. TypeOK'
    BY <1>2, <2>1 DEF IInv, TypeOK, Deploy, Setup, Signers
  <2>3. Alone'
    BY <1>2, <2>1 DEF Alone, Working, Deploy
  <2> QED
    BY <1>2, <2>1, <2>2, <2>3
       DEF IInv, Deploy, ReadyIsSignedIn, IsReady, NoOrphanSpinner, WalletOnly, IsTxBusy
<1>3. ASSUME NEW at \in {"create", "login"}, StartPasskey(at)
      PROVE  IInv'
  <2>1. setups' = {[at |-> at, signer |-> None]}
    BY <1>3, NoneAtWork DEF StartPasskey, Begin
  <2>2. TypeOK'
    BY <1>3, <2>1 DEF IInv, TypeOK, StartPasskey, Setup
  <2>3. Alone'
    BY <1>3, <2>1 DEF Alone, Working, StartPasskey
  <2> QED
    BY <1>3, <2>1, <2>2, <2>3
       DEF IInv, StartPasskey, ReadyIsSignedIn, IsReady, NoOrphanSpinner, WalletOnly, IsTxBusy
<1> QED
  BY <1>1, <1>2, <1>3 DEF CreateAccount, Login

\* The steps of a setup handler of a wallet.
LEMMA WalletInv ==
  ASSUME IInv, NEW s \in setups,
         Connected(s) \/ LookedUp(s) \/ Deployed(s) \/ WalletFails(s)
  PROVE  IInv'
<1>1. s \in Setup /\ setups = {s} /\ Working(s)
  BY DEF IInv, TypeOK, Alone
<1>2. CASE Connected(s)
  <2>1. setups' = {[at |-> "lookUp", signer |-> s.signer]}
    BY <1>1, <1>2 DEF Connected, Proceed
  <2>2. s.signer \in Wallets
    BY <1>1, <1>2 DEF Working, Connected
  <2>3. TypeOK'
    BY <1>2, <2>1, <2>2 DEF IInv, TypeOK, Connected, Setup, Signers
  <2>4. Alone'
    BY <1>1, <1>2, <2>1, <2>2, NoneAssumption DEF Alone, Working, Connected
  <2> QED
    BY <1>1, <1>2, <2>1, <2>3, <2>4
       DEF IInv, Connected, Working, ReadyIsSignedIn, IsReady, NoOrphanSpinner, WalletOnly, IsTxBusy
<1>3. CASE LookedUp(s) \/ Deployed(s) \/ WalletFails(s)
  <2>1. setups' = {}
    BY <1>1, <1>3 DEF LookedUp, Deployed, WalletFails, End
  <2>2. s.at \in {"lookUp", "deploy"} => s.signer # None /\ wallet = s.signer
    BY <1>1 DEF Working
  <2>3. mode = "wallet"
    BY <1>1, <1>3 DEF Working, LookedUp, Deployed, WalletFails
  <2>4. /\ setupState' \in {"ready", "connected", "error"}
        /\ setupState' = "ready" => shown' = s.signer /\ s.at \in {"lookUp", "deploy"}
        /\ shown' \in {shown, s.signer}
        /\ UNCHANGED <<mode, wallet, passkeyState, passkey, accounts, active, txState,
                       increments, registered>>
    BY <1>3 DEF LookedUp, Deployed, WalletFails
  <2>5. TypeOK'
    BY <1>1, <2>1, <2>4 DEF IInv, TypeOK, Setup
  <2>6. ReadyIsSignedIn'
    BY <2>2, <2>3, <2>4 DEF ReadyIsSignedIn, IsReady
  <2>7. passkeyState \notin {"registering", "deploying"}
    BY <2>3 DEF IInv, WalletOnly
  <2>8. NoOrphanSpinner'
    BY <2>4, <2>7 DEF IInv, NoOrphanSpinner, WalletOnly, IsTxBusy
  <2> QED
    BY <2>1, <2>3, <2>4, <2>5, <2>6, <2>8 DEF IInv, Alone, WalletOnly, WalletOnly
<1> QED
  BY <1>2, <1>3

\* The steps of a setup handler of a passkey.
LEMMA PasskeyInv ==
  ASSUME IInv, NEW s \in setups,
         Created(s) \/ Registered(s) \/ LoggedIn(s) \/ SetActive(s) \/ Listed(s) \/ PasskeyFails(s)
  PROVE  IInv'
<1>1. s \in Setup /\ setups = {s} /\ Working(s)
  BY DEF IInv, TypeOK, Alone
<1>2. CASE Created(s)
  <2>1. setups' = {[at |-> "finish", signer |-> None]}
    BY <1>1, <1>2 DEF Created, Proceed
  <2>2. TypeOK'
    BY <1>2, <2>1 DEF IInv, TypeOK, Created, Setup
  <2>3. Alone'
    BY <1>1, <1>2, <2>1 DEF Alone, Working, Created
  <2> QED
    BY <1>1, <1>2, <2>1, <2>2, <2>3
       DEF IInv, Created, Working, ReadyIsSignedIn, IsReady, NoOrphanSpinner, WalletOnly, IsTxBusy
<1>3. ASSUME NEW k \in Passkeys, NEW at \in {"register", "loggedIn"},
             s.at = (IF at = "register" THEN "finish" ELSE "login"),
             TakeSession(s, at, k), registered' \subseteq Passkeys
      PROVE  IInv'
  <2>1. setups' = {[at |-> at, signer |-> k]}
    BY <1>1, <1>3 DEF TakeSession, Proceed
  <2>2. TypeOK'
    BY <1>3, <2>1 DEF IInv, TypeOK, TakeSession, Setup, Signers
  <2>3. Alone'
    BY <1>1, <1>3, <2>1, NoneAssumption DEF Alone, Working, TakeSession
  <2> QED
    BY <1>1, <1>3, <2>1, <2>2, <2>3
       DEF IInv, TakeSession, Working, ReadyIsSignedIn, IsReady, NoOrphanSpinner, WalletOnly, IsTxBusy
<1>4. CASE Registered(s)
  <2>1. PICK k \in Passkeys : registered' = registered \cup {k} /\ TakeSession(s, "register", k)
    BY <1>4 DEF Registered
  <2>2. registered' \subseteq Passkeys
    BY <2>1 DEF IInv, TypeOK
  <2> QED
    BY <1>3, <1>4, <2>1, <2>2 DEF Registered
<1>5. CASE LoggedIn(s)
  BY <1>3, <1>5 DEF LoggedIn, IInv, TypeOK
<1>6. CASE SetActive(s)
  <2>1. setups' = {[at |-> "list", signer |-> s.signer]}
    BY <1>1, <1>6 DEF SetActive, Proceed
  <2>2. TypeOK'
    BY <1>1, <1>6, <2>1 DEF IInv, TypeOK, SetActive, Setup, signerState
  <2>3. Alone'
    BY <1>1, <1>6, <2>1 DEF Alone, Working, SetActive, signerState
  <2> QED
    BY <1>6, <2>1, <2>2, <2>3
       DEF IInv, SetActive, signerState, ReadyIsSignedIn, IsReady, NoOrphanSpinner, WalletOnly, IsTxBusy
<1>7. CASE Listed(s) \/ PasskeyFails(s)
  <2>1. setups' = {}
    BY <1>1, <1>7 DEF Listed, PasskeyFails, End
  <2>2. mode = "passkey" /\ setupState = "idle"
    BY <1>1, <1>7 DEF Working, Listed, PasskeyFails
  <2>3. /\ passkeyState' \in {"ready", "error"}
        /\ passkeyState' = "ready" => s.at \in {"list", "loggedIn"}
        /\ UNCHANGED <<mode, setupState, wallet, passkey, active, shown, txState, increments>>
    BY <1>7 DEF Listed, PasskeyFails
  <2>4. accounts' \subseteq Passkeys /\ registered' \subseteq Passkeys
    BY <1>7 DEF Listed, PasskeyFails, IInv, TypeOK
  <2>5. TypeOK'
    BY <2>1, <2>3, <2>4 DEF IInv, TypeOK
  <2>6. ReadyIsSignedIn'
    BY <1>1, <2>2, <2>3 DEF ReadyIsSignedIn, IsReady, Working
  <2>7. NoOrphanSpinner'
    BY <2>2, <2>3 DEF IInv, NoOrphanSpinner, WalletOnly, IsTxBusy
  <2> QED
    BY <2>1, <2>2, <2>3, <2>5, <2>6, <2>7 DEF IInv, Alone, WalletOnly
<1> QED
  BY <1>2, <1>4, <1>5, <1>6, <1>7

\* Switching and disconnecting, which only a page that is ready offers.
LEMMA LeaveInv ==
  ASSUME IInv, Reset \/ \E a \in Passkeys : SwitchAccount(a)
  PROVE  IInv'
<1>1. CASE Reset
  <2>1. setups' = {}
    BY <1>1, NotReadyAtWork DEF Reset
  <2>2. TypeOK'
    BY <1>1, <2>1 DEF IInv, TypeOK, Reset
  <2> QED
    BY <1>1, <2>1, <2>2
       DEF IInv, Alone, Reset, ReadyIsSignedIn, IsReady, NoOrphanSpinner, WalletOnly, IsTxBusy
<1>2. ASSUME NEW a \in Passkeys, SwitchAccount(a)
      PROVE  IInv'
  <2>1. setups = {} /\ setups' = {}
    BY <1>2, NotReadyAtWork DEF SwitchAccount
  <2>2. TypeOK'
    BY <1>2, <2>1 DEF IInv, TypeOK, SwitchAccount, Signers
  <2>3. ReadyIsSignedIn'
    BY <1>2, NoneAssumption DEF IInv, SwitchAccount, ReadyIsSignedIn, IsReady
  <2> QED
    BY <1>2, <2>1, <2>2, <2>3
       DEF IInv, Alone, SwitchAccount, NoOrphanSpinner, WalletOnly, IsTxBusy
<1> QED
  BY <1>1, <1>2

-----------------------------------------------------------------------------
\* The steps of an increment touch nothing but the transaction's state.
LEMMA TxInv ==
  ASSUME IInv, UNCHANGED <<signerState, setups, registered>>,
         txState' \in {"idle", "building", "signing", "submitting", "success", "error"},
         increments' \in [Increments -> Running \cup {Idle}],
         IsTxBusy' => \E i \in Increments : increments'[i] # Idle
  PROVE  IInv'
<1>1. TypeOK'
  BY DEF IInv, TypeOK, signerState
<1>2. Alone' /\ ReadyIsSignedIn'
  BY DEF IInv, Alone, Working, ReadyIsSignedIn, IsReady, signerState
<1>3. NoOrphanSpinner' /\ WalletOnly'
  BY DEF IInv, NoOrphanSpinner, WalletOnly, signerState
<1> QED
  BY <1>1, <1>2, <1>3 DEF IInv

\* An increment that starts has a signer; each of its steps keeps its shape.
LEMMA IncrementInv ==
  ASSUME IInv, NEW i \in Increments,
         Increment(i) \/ Sign(i) \/ Submit(i) \/ Succeed(i) \/ Fail(i)
  PROVE  IInv'
<1>1. CASE Increment(i)
  <2> DEFINE started == [at |-> "build", again |-> FALSE, signer |-> Signer, account |-> shown]
  <2>1. Signer # None /\ Signer \in Signers /\ shown \in Signers
    BY <1>1, NoneAssumption DEF Increment, IInv, TypeOK, ReadyIsSignedIn, IsReady, Signer, Signers
  <2>2. started \in Running
    BY <2>1 DEF Running
  <2>3. increments' = [increments EXCEPT ![i] = started]
    BY <1>1, <2>1 DEF Increment
  <2>4. increments' \in [Increments -> Running \cup {Idle}] /\ increments'[i] # Idle
    BY <2>2, <2>3, RunningIsNotIdle DEF IInv, TypeOK
  <2> QED
    BY <1>1, <2>4, TxInv DEF Increment
<1>2. CASE Sign(i) \/ Submit(i)
  <2>1. increments[i] \in Running
    BY <1>2 DEF Sign, Submit, IInv, TypeOK, Idle
  <2>2. PICK r \in Running : increments' = [increments EXCEPT ![i] = r]
    <3>1. /\ [increments[i] EXCEPT !.at = "sign"] \in Running
          /\ [increments[i] EXCEPT !.at = "submit"] \in Running
          /\ [increments[i] EXCEPT !.at = "sign", !.again = TRUE] \in Running
      BY <2>1 DEF Running
    <3> QED
      BY <1>2, <3>1 DEF Sign, Submit
  <2>3. increments' \in [Increments -> Running \cup {Idle}] /\ increments'[i] # Idle
    BY <2>2, RunningIsNotIdle DEF IInv, TypeOK
  <2>4. /\ txState' \in {"signing", "submitting"}
        /\ UNCHANGED <<signerState, setups, registered>>
    BY <1>2 DEF Sign, Submit, IInv, TypeOK
  <2> QED
    BY <2>3, <2>4, TxInv
<1>3. CASE Succeed(i) \/ Fail(i)
  <2>1. increments' = [increments EXCEPT ![i] = Idle]
    BY <1>3 DEF Succeed, Fail
  <2>2. increments' \in [Increments -> Running \cup {Idle}]
    BY <2>1 DEF IInv, TypeOK
  <2>3. txState' \in {"success", "error"} /\ UNCHANGED <<signerState, setups, registered>>
    BY <1>3 DEF Succeed, Fail
  <2>4. ~IsTxBusy'
    BY <2>3 DEF IsTxBusy
  <2> QED
    BY <2>2, <2>3, <2>4, TxInv
<1> QED
  BY <1>1, <1>2, <1>3

\* The invariant is inductive.
LEMMA NextInv == IInv /\ [Next]_vars => IInv'
<1> SUFFICES ASSUME IInv, [Next]_vars
             PROVE  IInv'
  OBVIOUS
<1>1. CASE UNCHANGED vars
  BY <1>1 DEF vars, signerState, IInv, TypeOK, Alone, Working, ReadyIsSignedIn, IsReady,
              NoOrphanSpinner, WalletOnly, IsTxBusy
<1> QED
  BY <1>1, StartInv, WalletInv, PasskeyInv, LeaveInv, IncrementInv DEF Next

(* The invariant holds in every reachable state.                           *)
THEOREM Invariance == Spec => []IInv
BY InitInv, NextInv, PTL DEF Spec

-----------------------------------------------------------------------------
(* Every React state keeps its shape.                                      *)
THEOREM TypeCorrect == Spec => []TypeOK
<1>1. IInv => TypeOK
  BY DEF IInv
<1> QED
  BY <1>1, Invariance, PTL

(* The buttons never let two setup handlers run at once (502 to 505).      *)
THEOREM SetupIsExclusive == Spec => []OneSetupAtATime
<1>1. IInv => OneSetupAtATime
  <2> SUFFICES ASSUME IInv
               PROVE  OneSetupAtATime
    OBVIOUS
  <2>1. CASE setups = {}
    BY <2>1, FS_EmptySet DEF OneSetupAtATime
  <2>2. CASE setups # {}
    <3>1. PICK s : setups = {s}
      BY <2>2 DEF IInv, Alone
    <3> QED
      BY <3>1, FS_Singleton DEF OneSetupAtATime
  <2> QED
    BY <2>1, <2>2
<1> QED
  BY <1>1, Invariance, PTL

(* A page that is ready has a signer and shows the wallet's own account,   *)
(* or the session passkey's, or one of the list the person switched to, so *)
(* that no increment starts without a key (497 to 505).                    *)
THEOREM ReadyHasSigner == Spec => []ReadyIsSignedIn
<1>1. IInv => ReadyIsSignedIn
  BY DEF IInv
<1> QED
  BY <1>1, Invariance, PTL

(* No spinner turns without a handler that will stop it, though reset and  *)
(* a login change the screen under a handler that is on its way.           *)
THEOREM SpinnersAreAttended == Spec => []NoOrphanSpinner
<1>1. IInv => NoOrphanSpinner
  BY DEF IInv
<1> QED
  BY <1>1, Invariance, PTL

-----------------------------------------------------------------------------
(* Until the person switches to another account, the one on the screen is  *)
(* the session's passkey's, from the reply that has set both.              *)
ShownIsPasskey ==
  /\ passkeyState = "ready" => shown = passkey
  /\ \A s \in setups : s.at \in {"register", "list", "loggedIn"} => shown = passkey

\* A switch that is none, or one to the account of the session's passkey.
SwitchesHome == \A a \in Passkeys : SwitchAccount(a) => a = passkey

\* Only a handler of a passkey comes between the session's passkey and the screen.
LEMMA ShownStep ==
  ASSUME IInv, ShownIsPasskey, [Next]_vars, [SwitchesHome]_vars
  PROVE  ShownIsPasskey'
<1>1. CASE \/ \E w \in Wallets : Connect(w)
           \/ CreateAccount \/ Login
  <2>1. setups = {}
    BY <1>1, NoneAtWork DEF Connect, CreateAccount, Login, StartPasskey
  <2> QED
    BY <1>1, <2>1 DEF Connect, CreateAccount, Login, StartPasskey, Begin, ShownIsPasskey
<1>2. CASE Deploy
  <2>1. setups' = {[at |-> "deploy", signer |-> wallet]}
    BY <1>2, NotReadyAtWork DEF Deploy, Begin
  <2> QED
    BY <1>2, <2>1 DEF Deploy, ShownIsPasskey
<1>3. CASE Reset
  BY <1>3, NotReadyAtWork DEF Reset, ShownIsPasskey
<1>4. ASSUME NEW a \in Passkeys, SwitchAccount(a)
      PROVE  ShownIsPasskey'
  <2>1. setups = {} /\ UNCHANGED <<setups, passkey>> /\ shown' = a
    BY <1>4, NotReadyAtWork DEF SwitchAccount
  <2>2. a = passkey \/ UNCHANGED shown
    BY <1>4 DEF SwitchesHome, vars, signerState
  <2> QED
    BY <1>4, <2>1, <2>2 DEF SwitchAccount, ShownIsPasskey
<1>5. ASSUME NEW s \in setups,
             Connected(s) \/ LookedUp(s) \/ Deployed(s) \/ WalletFails(s)
      PROVE  ShownIsPasskey'
  <2>1. setups = {s} /\ Working(s)
    BY DEF IInv, Alone
  <2>2. passkeyState = "idle" /\ UNCHANGED passkeyState
    <3>1. mode = "wallet" /\ UNCHANGED passkeyState
      BY <1>5, <2>1 DEF Working, Connected, LookedUp, Deployed, WalletFails
    <3> QED
      BY <3>1 DEF IInv, WalletOnly
  <2>3. \A t \in setups' : t.at = "lookUp"
    BY <1>5, <2>1 DEF Connected, LookedUp, Deployed, WalletFails, Proceed, End
  <2> QED
    BY <2>2, <2>3 DEF ShownIsPasskey
<1>6. ASSUME NEW s \in setups,
             \/ Created(s) \/ Registered(s) \/ LoggedIn(s) \/ SetActive(s)
             \/ Listed(s) \/ PasskeyFails(s)
      PROVE  ShownIsPasskey'
  <2>1. setups = {s} /\ Working(s)
    BY DEF IInv, Alone
  <2>2. ASSUME NEW k \in Passkeys, NEW at, TakeSession(s, at, k)
        PROVE  ShownIsPasskey'
    BY <2>2 DEF TakeSession, ShownIsPasskey
  <2>3. CASE Created(s) \/ PasskeyFails(s)
    BY <2>1, <2>3 DEF Created, PasskeyFails, Proceed, End, ShownIsPasskey
  <2>4. CASE SetActive(s) \/ Listed(s)
    BY <2>1, <2>4 DEF SetActive, Listed, Proceed, End, ShownIsPasskey, signerState
  <2>5. CASE Registered(s)
    <3>1. PICK k \in Passkeys : TakeSession(s, "register", k)
      BY <2>5 DEF Registered
    <3> QED
      BY <2>2, <3>1
  <2>6. CASE LoggedIn(s)
    <3>1. PICK k \in registered : TakeSession(s, "loggedIn", k)
      BY <2>6 DEF LoggedIn
    <3>2. k \in Passkeys
      BY DEF IInv, TypeOK
    <3> QED
      BY <2>2, <3>1, <3>2
  <2> QED
    BY <1>6, <2>3, <2>4, <2>5, <2>6
<1>7. ASSUME UNCHANGED vars \/ \E i \in Increments :
               Increment(i) \/ Sign(i) \/ Submit(i) \/ Succeed(i) \/ Fail(i)
      PROVE  ShownIsPasskey'
  BY <1>7 DEF vars, Increment, Sign, Submit, Succeed, Fail, signerState, ShownIsPasskey
<1> QED
  BY <1>1, <1>2, <1>3, <1>4, <1>5, <1>6, <1>7 DEF Next

\* A click takes the signer and the account of one screen.
LEMMA SignedStep ==
  ASSUME IInv, ShownIsPasskey, SignedByItsAccount, [Next]_vars
  PROVE  SignedByItsAccount'
<1>1. ASSUME NEW i \in Increments, Increment(i)
      PROVE  SignedByItsAccount'
  <2>1. Signer = shown
    BY <1>1, KindsAssumption
    DEF Increment, IsReady, IInv, ReadyIsSignedIn, ShownIsPasskey, Signer, TypeOK
  <2>2. \/ UNCHANGED increments
        \/ increments' = [increments EXCEPT ![i] = [at |-> "build", again |-> FALSE,
                                                    signer |-> Signer, account |-> shown]]
    BY <1>1 DEF Increment
  <2> QED
    BY <2>1, <2>2 DEF IInv, TypeOK, SignedByItsAccount
<1>2. ASSUME NEW i \in Increments, Sign(i) \/ Submit(i) \/ Succeed(i) \/ Fail(i)
      PROVE  SignedByItsAccount'
  <2>1. \A j \in Increments : increments[j] # Idle => increments[j] \in Running
    BY DEF IInv, TypeOK
  <2>2. \/ increments' = [increments EXCEPT ![i] = Idle]
        \/ /\ increments[i] # Idle
           /\ \/ increments' = [increments EXCEPT ![i].at = "sign"]
              \/ increments' = [increments EXCEPT ![i].at = "sign", ![i].again = TRUE]
              \/ increments' = [increments EXCEPT ![i].at = "submit"]
    BY <1>2 DEF Sign, Submit, Succeed, Fail, Idle
  <2>3. \A j \in Increments :
          \/ increments'[j] = Idle
          \/ /\ increments[j] # Idle
             /\ increments'[j].signer = increments[j].signer
             /\ increments'[j].account = increments[j].account
    BY <2>1, <2>2 DEF IInv, TypeOK, Running
  <2> QED
    BY <2>3 DEF SignedByItsAccount
<1>3. CASE UNCHANGED increments
  BY <1>3 DEF SignedByItsAccount
<1> QED
  BY <1>1, <1>2, <1>3
  DEF Next, Connect, Deploy, CreateAccount, Login, StartPasskey, Reset, SwitchAccount, Connected,
      LookedUp, Deployed, WalletFails, Created, Registered, LoggedIn, TakeSession, SetActive,
      Listed, PasskeyFails, vars

(* Until the person switches to an account of another passkey, every       *)
(* increment is signed by its own account, through connects, logins,       *)
(* disconnects and increments that outlive them: the switch is the only    *)
(* way in which the page parts the two (326 and 833).                      *)
THEOREM OnlySwitchesMislead == Spec /\ [][SwitchesHome]_vars => []SignedByItsAccount
<1>1. Init => ShownIsPasskey /\ SignedByItsAccount
  BY DEF Init, ShownIsPasskey, SignedByItsAccount
<1>2. IInv /\ ShownIsPasskey /\ [Next]_vars /\ [SwitchesHome]_vars => ShownIsPasskey'
  BY ShownStep
<1>3. IInv /\ ShownIsPasskey /\ SignedByItsAccount /\ [Next]_vars => SignedByItsAccount'
  BY SignedStep
<1> QED
  BY <1>1, <1>2, <1>3, Invariance, PTL DEF Spec

=============================================================================
