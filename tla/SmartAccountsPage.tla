--------------------------- MODULE SmartAccountsPage ---------------------------
(***************************************************************************)
(* The React state of the smart accounts page in one tab.  A click starts  *)
(* a handler that runs to its first await; what follows each await is a    *)
(* step of its own, and between two steps the person may click whatever    *)
(* the page has enabled.  A handler keeps the signer and the account of    *)
(* the rendering in which it was clicked.                                  *)
(*                                                                         *)
(* An account is named by the signer that may sign for it.  The value of   *)
(* the counter, the transaction's hash and the messages are left out.      *)
(***************************************************************************)
EXTENDS Naturals, FiniteSets

CONSTANTS
  Wallets,     \* wallets the person may connect
  Phantoms,    \* those of them that are asked to sign again
  Passkeys,    \* passkeys on the person's device
  Increments,  \* calls of handleIncrement in flight at once
  None         \* the null of a state

ASSUME PhantomsAssumption == Phantoms \subseteq Wallets
ASSUME NoneAssumption == None \notin Wallets \cup Passkeys
ASSUME KindsAssumption == Wallets \cap Passkeys = {}

VARIABLES
  mode,          \* activeMode
  setupState,
  wallet,        \* the connected wallet
  passkeyState,
  passkey,       \* passkeySession
  accounts,      \* the accounts listed
  active,        \* activeAccount
  shown,         \* smartAccountAddr
  txState,
  setups,        \* setup handlers in flight
  increments,    \* calls of handleIncrement in flight
  registered     \* passkeys with an account of the session's user

signerState == <<mode, setupState, wallet, passkeyState, passkey, accounts, active, shown>>
vars == <<signerState, txState, setups, increments, registered>>

-----------------------------------------------------------------------------
Signers == Wallets \cup Passkeys

Setup == [at : {"connect", "lookUp", "deploy", "create", "finish", "register", "list",
                "login", "loggedIn"},
          signer : Signers \cup {None}]

Idle == [at |-> "idle"]

Running == [at : {"build", "sign", "submit"}, again : BOOLEAN,
            signer : Signers, account : Signers]

Init ==
  /\ mode = None
  /\ setupState = "idle"
  /\ wallet = None
  /\ passkeyState = "idle"
  /\ passkey = None
  /\ accounts = {}
  /\ active = None
  /\ shown = None
  /\ txState = "idle"
  /\ setups = {}
  /\ increments = [i \in Increments |-> Idle]
  /\ registered \in SUBSET Passkeys

-----------------------------------------------------------------------------
\* Variant: the second half of a registration does not count.
AnySetupBusy_NotDeploying ==
  \/ setupState \notin {"idle", "error"}
  \/ passkeyState = "registering"

\* The buttons of the signers are disabled.
AnySetupBusy ==
  \/ setupState \notin {"idle", "error"}
  \/ passkeyState \in {"registering", "deploying"}

IsReady ==
  \/ setupState = "ready" /\ mode = "wallet"
  \/ passkeyState = "ready" /\ mode = "passkey"

IsTxBusy == txState \in {"building", "signing", "submitting"}

Begin(at, signer) == setups' = setups \cup {[at |-> at, signer |-> signer]}

Proceed(s, at, signer) == setups' = (setups \ {s}) \cup {[at |-> at, signer |-> signer]}

End(s) == setups' = setups \ {s}

-----------------------------------------------------------------------------
\* handleConnect, to its first await.
Connect(w) ==
  /\ ~AnySetupBusy
  /\ setupState' = "connecting"
  /\ mode' = "wallet"
  /\ passkeyState' = "idle"
  /\ passkey' = None
  /\ accounts' = {}
  /\ active' = None
  /\ shown' = None
  /\ Begin("connect", w)
  /\ UNCHANGED <<wallet, txState, increments, registered>>

\* The wallet has given its key; the page asks for its account.
Connected(s) ==
  /\ s.at = "connect"
  /\ wallet' = s.signer
  /\ Proceed(s, "lookUp", s.signer)
  /\ UNCHANGED <<mode, setupState, passkeyState, passkey, accounts, active, shown, txState,
                 increments, registered>>

\* The account is deployed, or is still to be.
LookedUp(s) ==
  /\ s.at = "lookUp"
  /\ \/ setupState' = "ready" /\ shown' = s.signer
     \/ setupState' = "connected" /\ UNCHANGED shown
  /\ End(s)
  /\ UNCHANGED <<mode, wallet, passkeyState, passkey, accounts, active, txState, increments,
                 registered>>

\* handleDeploy; its button is there once a wallet is connected.
Deploy ==
  /\ mode = "wallet"
  /\ setupState = "connected"
  /\ wallet # None
  /\ setupState' = "deploying"
  /\ Begin("deploy", wallet)
  /\ UNCHANGED <<mode, wallet, passkeyState, passkey, accounts, active, shown, txState,
                 increments, registered>>

Deployed(s) ==
  /\ s.at = "deploy"
  /\ shown' = s.signer
  /\ setupState' = "ready"
  /\ End(s)
  /\ UNCHANGED <<mode, wallet, passkeyState, passkey, accounts, active, txState, increments,
                 registered>>

\* The catch blocks of handleConnect and handleDeploy.
WalletFails(s) ==
  /\ s.at \in {"connect", "lookUp", "deploy"}
  /\ setupState' = IF s.at = "deploy" THEN "connected" ELSE "error"
  /\ End(s)
  /\ UNCHANGED <<mode, wallet, passkeyState, passkey, accounts, active, shown, txState,
                 increments, registered>>

-----------------------------------------------------------------------------
\* What handlePasskeyCreateAccount and handlePasskeyLogin do first.
StartPasskey(at) ==
  /\ ~AnySetupBusy
  /\ passkeyState' = "registering"
  /\ mode' = "passkey"
  /\ setupState' = "idle"
  /\ wallet' = None
  /\ shown' = None
  /\ txState' = "idle"
  /\ Begin(at, None)
  /\ UNCHANGED <<passkey, accounts, active, increments, registered>>

CreateAccount == StartPasskey("create")

Login == StartPasskey("login")

\* startRegistration has resolved.
Created(s) ==
  /\ s.at = "create"
  /\ passkeyState' = "deploying"
  /\ Proceed(s, "finish", None)
  /\ UNCHANGED <<mode, setupState, wallet, passkey, accounts, active, shown, txState,
                 increments, registered>>

\* What both do with the reply of a finish route.
TakeSession(s, at, k) ==
  /\ passkey' = k
  /\ shown' = k
  /\ active' = k
  /\ Proceed(s, at, k)
  /\ UNCHANGED <<mode, setupState, wallet, passkeyState, accounts, txState, increments>>

Registered(s) ==
  /\ s.at = "finish"
  /\ \E k \in Passkeys \ registered :
       /\ registered' = registered \cup {k}
       /\ TakeSession(s, "register", k)

LoggedIn(s) ==
  /\ s.at = "login"
  /\ \E k \in registered : TakeSession(s, "loggedIn", k)
  /\ UNCHANGED registered

\* set-active has answered a registration, and the list is asked for.
SetActive(s) ==
  /\ s.at = "register"
  /\ Proceed(s, "list", s.signer)
  /\ UNCHANGED <<signerState, txState, increments, registered>>

(* The list arrives, with set-active's reply to a login or with its own    *)
(* request, which may fail in silence; the page is ready.                  *)
Listed(s) ==
  /\ s.at \in {"list", "loggedIn"}
  /\ \/ accounts' \in SUBSET registered
     \/ s.at = "list" /\ UNCHANGED accounts
  /\ passkeyState' = "ready"
  /\ End(s)
  /\ UNCHANGED <<mode, setupState, wallet, passkey, active, shown, txState, increments,
                 registered>>

\* The catch blocks; a registration whose reply is lost may have been stored.
PasskeyFails(s) ==
  /\ s.at \in {"create", "finish", "register", "login", "loggedIn"}
  /\ passkeyState' = "error"
  /\ End(s)
  /\ \/ UNCHANGED registered
     \/ s.at = "finish" /\ \E k \in Passkeys : registered' = registered \cup {k}
  /\ UNCHANGED <<mode, setupState, wallet, passkey, accounts, active, shown, txState, increments>>

-----------------------------------------------------------------------------
\* Variant: only the address changes.
SwitchAccount_ShownOnly(a) ==
  /\ IsReady /\ mode = "passkey" /\ shown # None
  /\ Cardinality(accounts) > 1
  /\ a \in accounts
  /\ shown' = a
  /\ UNCHANGED <<mode, setupState, wallet, passkeyState, passkey, accounts, active, txState,
                 setups, increments, registered>>

\* handleSwitchAccount; the passkey of the session stays.
SwitchAccount(a) ==
  /\ IsReady /\ mode = "passkey" /\ shown # None
  /\ Cardinality(accounts) > 1
  /\ a \in accounts
  /\ shown' = a
  /\ active' = a
  /\ UNCHANGED <<mode, setupState, wallet, passkeyState, passkey, accounts, txState, setups,
                 increments, registered>>

\* Disconnect.
Reset ==
  /\ IsReady
  /\ mode' = None
  /\ setupState' = "idle"
  /\ wallet' = None
  /\ passkeyState' = "idle"
  /\ passkey' = None
  /\ accounts' = {}
  /\ active' = None
  /\ shown' = None
  /\ txState' = "idle"
  /\ UNCHANGED <<setups, increments, registered>>

-----------------------------------------------------------------------------
\* Who signs an increment: the branches of handleIncrement.
Signer == IF mode = "passkey" /\ passkey # None THEN passkey ELSE wallet

\* Variant: the button is there before the page is ready.
Increment_AnyTime(i) ==
  /\ increments[i] = Idle
  /\ mode # None /\ ~IsTxBusy
  /\ txState' = "building"
  /\ increments' = [increments EXCEPT ![i] = [at |-> "build", again |-> FALSE,
                                             signer |-> Signer, account |-> shown]]
  /\ UNCHANGED <<signerState, setups, registered>>

(* handleIncrement.  Without a signer it takes none of its branches, and   *)
(* the state stays at building.                                            *)
Increment(i) ==
  /\ increments[i] = Idle
  /\ IsReady /\ shown # None /\ ~IsTxBusy
  /\ txState' = "building"
  /\ increments' = IF Signer = None THEN increments
                   ELSE [increments EXCEPT ![i] = [at |-> "build", again |-> FALSE,
                                                   signer |-> Signer, account |-> shown]]
  /\ UNCHANGED <<signerState, setups, registered>>

\* A build reply, or the first submit reply to Phantom with another hash.
Sign(i) ==
  /\ \/ /\ increments[i].at = "build"
        /\ increments' = [increments EXCEPT ![i].at = "sign"]
     \/ /\ increments[i].at = "submit"
        /\ increments[i].signer \in Phantoms /\ ~increments[i].again
        /\ increments' = [increments EXCEPT ![i].at = "sign", ![i].again = TRUE]
  /\ txState' = "signing"
  /\ UNCHANGED <<signerState, setups, registered>>

\* The signature is there.
Submit(i) ==
  /\ increments[i].at = "sign"
  /\ increments' = [increments EXCEPT ![i].at = "submit"]
  /\ txState' = "submitting"
  /\ UNCHANGED <<signerState, setups, registered>>

\* The submit route answers 200, as it can only if the account's signer signed.
Succeed(i) ==
  /\ increments[i].at = "submit"
  /\ increments[i].signer = increments[i].account
  /\ increments' = [increments EXCEPT ![i] = Idle]
  /\ txState' = "success"
  /\ UNCHANGED <<signerState, setups, registered>>

\* Variant: the catch block sets only the message.
Fail_KeepsState(i) ==
  /\ increments[i] # Idle
  /\ increments' = [increments EXCEPT ![i] = Idle]
  /\ UNCHANGED <<signerState, txState, setups, registered>>

\* Its catch block.
Fail(i) ==
  /\ increments[i] # Idle
  /\ increments' = [increments EXCEPT ![i] = Idle]
  /\ txState' = "error"
  /\ UNCHANGED <<signerState, setups, registered>>

-----------------------------------------------------------------------------
Next ==
  \/ \E w \in Wallets : Connect(w)
  \/ Deploy \/ CreateAccount \/ Login \/ Reset
  \/ \E a \in Passkeys : SwitchAccount(a)
  \/ \E s \in setups :
       \/ Connected(s) \/ LookedUp(s) \/ Deployed(s) \/ WalletFails(s)
       \/ Created(s) \/ Registered(s) \/ LoggedIn(s) \/ SetActive(s) \/ Listed(s)
       \/ PasskeyFails(s)
  \/ \E i \in Increments : Increment(i) \/ Sign(i) \/ Submit(i) \/ Succeed(i) \/ Fail(i)

Spec == Init /\ [][Next]_vars

-----------------------------------------------------------------------------
\* The shape of every state.
TypeOK ==
  /\ mode \in {None, "wallet", "passkey"}
  /\ setupState \in {"idle", "connecting", "connected", "deploying", "ready", "error"}
  /\ wallet \in Wallets \cup {None}
  /\ passkeyState \in {"idle", "registering", "deploying", "ready", "error"}
  /\ passkey \in Passkeys \cup {None}
  /\ accounts \subseteq Passkeys
  /\ active \in Passkeys \cup {None}
  /\ shown \in Signers \cup {None}
  /\ txState \in {"idle", "building", "signing", "submitting", "success", "error"}
  /\ setups \subseteq Setup
  /\ increments \in [Increments -> Running \cup {Idle}]
  /\ registered \subseteq Passkeys

(* The buttons let one setup handler run at a time, whatever each of them  *)
(* does to the states that enable the buttons (502 to 505).                *)
OneSetupAtATime == Cardinality(setups) <= 1

(* A page that is ready shows the account of who signed in: the wallet's   *)
(* own, or in passkey mode the account marked as active, which is the      *)
(* session passkey's or one of the list that the person has switched to    *)
(* (497 to 499, 585 and 841).  It does not say that the passkey may sign   *)
(* for an account of the list (SignedByItsAccount, which does not hold).   *)
ReadyIsSignedIn ==
  IsReady =>
    /\ mode = "wallet" => wallet # None /\ shown = wallet
    /\ mode = "passkey" =>
         passkey # None /\ shown = active /\ shown \in {passkey} \cup accounts

(* A spinner turns only while a handler is there to stop it, although a    *)
(* new login resets the transaction's state under a running increment      *)
(* (198, 247 and 500).                                                     *)
NoOrphanSpinner ==
  /\ setupState \in {"connecting", "deploying"} \/ passkeyState \in {"registering", "deploying"}
       => setups # {}
  /\ IsTxBusy => \E i \in Increments : increments[i] # Idle

(* An increment is signed with the signer of its account, after a switch   *)
(* of the account too (326 and 833); no other can succeed.                 *)
SignedByItsAccount ==
  \A i \in Increments : increments[i] # Idle => increments[i].signer = increments[i].account

=============================================================================
