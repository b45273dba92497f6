# Verification of the Latch playground

TLA+ models, TLC checks and TLAPS proofs for the Latch playground: a Next.js
server and page that give passkey, Phantom and Freighter users a smart account
on Stellar and let them call a counter contract with it.

## The system

| Component | Source | State it keeps | Operations |
|---|---|---|---|
| Sessions | `lib/session.ts`, `lib/cookie-cross-site.ts` | `users`, `sessions` rows; the `sid` cookie | `getOrCreateSession`, called first by every passkey and account route |
| Passkey registration | `api/webauthn/registration/{begin,finish}` | `webauthn_challenges`, `webauthn_credentials`, `smart_accounts` rows | begin: challenge; finish: verify, deploy, two upserts, delete the challenge |
| Passkey login | `api/webauthn/authentication/{begin,finish}` | the same tables | begin: challenge, allowed passkeys; finish: verify, store counter, move the passkey, list, delete the challenge |
| Deployment helper | `lib/smart-account-factory-webauthn.ts` | none | predict, look up, simulate, send and poll a `create_account` |
| Deployment routes | `api/smart-account/{,factory,freighter,webauthn}` | a `Map` of deployed accounts per server process; the bundler's sequence number on the ledger | GET looks up, POST deploys |
| Transactions | `api/transaction/*` | none; the bundler's sequence number, authorisation nonces and the counter on the ledger | build, submit, build-delegated, submit-delegated, submit-webauthn |
| Backup passkey | `api/recovery/backup-passkey` | `account_signers` rows | find, then update or create |
| Active account, account list, counter | `api/accounts`, `api/accounts/set-active`, `api/counter` | none | reads |
| Page | `app/smart-accounts/page.tsx` | React state of one tab | connect, deploy, register, log in, switch, increment, reset |
| WebAuthn helpers | `lib/webauthn-server.ts`, `lib/webauthn.ts`, `middleware.ts` | none | which origin and RP ID a ceremony may use; encodings |
| Soroban helpers | `lib/soroban-auth-*.ts`, `lib/delegated-native-auth-entry.ts` | none | the payload of an authorisation entry, its expiry |
| Contracts | `latch-demo/contracts/*` | counter value; a smart account's context rules | `increment`, `__check_auth`, `verify`, changes of the rules |

The page calls the routes; the routes share Postgres, the Stellar RPC, one
bundler account that pays for every transaction, and per-process caches. No
handler opens a transaction around its steps (the move of a passkey is the one
exception) and nothing takes a lock, so what is hard is what happens between two
awaits: another request, another process, a ledger closing, or the end of the
process. `PROJECT.json` lists these hazards one by one, each at its line.

What makes each part correct:

- *Ceremonies*: a challenge is good for one successful answer; what was
  acknowledged stays; a row that says deployed is right; a registration
  challenge is spent only by its own user; the tables agree about owners; a
  login lists the account it logged into; a login never lowers the signature
  counter; every request ends.
- *Sessions and origins*: begin and finish of one ceremony meet the same user,
  an honest ceremony is accepted from a page and from an extension, and a browser
  that keeps coming back keeps its user.
- *Deployment*: concurrent deployments with one bundler never create twice,
  an account is called deployed only when it is, and a request is refused only
  when another has overtaken it.
- *Transactions*: what the person signed is executed at most once per signature
  and success is reported only for what was executed; the bundler does not pay
  for a call it has made; a signature is good for one call of its signer, and an
  honest one is refused only when the account or its verifier no longer takes it.
- *Backup passkey*: one intent row per account, unless two requests race.
- *Page*: what it shows belongs to the account that is active.

## Modules

| Module | Models | Checked by |
|---|---|---|
| `PasskeyCeremony` | both ceremonies with overlapping, failing handlers, over sessions, tables, authenticators and the ledger | `ceremony`, `one_at_a_time`, `listed_when_racing` |
| `ChallengeBook` | what the ceremonies promise a client, without handlers, rows or cookies | implemented by `PasskeyCeremony` in `ceremony` |
| `PasskeyCeremony_proofs` | theorems about `PasskeyCeremony` | TLAPS |
| `PasskeyOwners_proofs` | theorems about who owns a passkey and about its counter | TLAPS |
| `CeremonyOrigin` | which origin and RP ID begin offers and finish takes, and whether the cookie crosses sites, as operators | `sessions` |
| `ClientSessions` | `getOrCreateSession` await by await, for a page and an extension of one browser, with begin, finish, the account list and the backup passkey behind it | `sessions` |
| `ClientSessions_proofs` | theorems about `ClientSessions` and `CeremonyOrigin` | TLAPS |
| `ActiveSession_proofs` | a browser that keeps coming back keeps its user, and its honest ceremonies are accepted | TLAPS |
| `FactoryDeploy` | the four deployment routes, their caches, the bundler's sequence number and the mempool | `factory`, `told_is_deployed`, `legacy_failed` |
| `TxSubmit` | build, sign and submit of the three signing paths, over the bundler account, the network and the counter | `submit`, `submit_failed` |
| `CallBook` | what a person who signs calls is promised | implemented by `TxSubmit` in `submit` |
| `TxSubmit_proofs` | theorems about `TxSubmit` | TLAPS |
| `CallAuthorization` | what is signed and what accepts it: entries, digests, the three kinds of signers, the account's rules and the verifiers | `call_authorization` |
| `CallAuthorization_proofs` | theorems about `CallAuthorization` | TLAPS |
| `FactoryDeploy_proofs` | theorems about `FactoryDeploy` | TLAPS |
| `SmartAccountsPage` | the React state of one tab: setup handlers, increments, the buttons | `page`, `page_switch` |
| `SmartAccountsPage_proofs` | theorems about `SmartAccountsPage` | TLAPS |
| `MCPasskeyCeremony`, `MCPasskeyLogin`, `MCClientSessions`, `MCFactoryDeploy`, `MCTxSubmit`, `MCCallAuthorization`, `MCSmartAccountsPage` | model values, symmetry, start states | |

The modules share no variables. What links the routes is the bundler's sequence
number, and each module takes the others in as a step of its environment:
`SendCreate` may be refused, and `OtherTransaction` takes a number of the
bundler, in `TxSubmit` for a deployment and in `FactoryDeploy` for a call of the
counter. The page sees only what a route may answer: an account or its failure,
and a success of an increment only when the account's signer signed it, which is
what the other modules show. `ClientSessions` refines what `PasskeyCeremony`
takes in one step, the session, and what it leaves out, the origin;
`CallAuthorization` does so for `TxSubmit`, where a signature is only the fact
that its nonce is signed.

### PasskeyCeremony

State: the clock, the tables (`users`, `challenges`, `credential`, `account`),
the cookie `jar` of each browser, the `chain` (the contract of each passkey:
absent, pending or deployed), begin replies on their way (`offers`), signed
answers (`responses`, kept for ever, so that a browser may post one again), and
one record per finish request in flight (`handler`). `wins` and `acked` are
history.

`FinishRegistration` and `FinishAuthentication` are the handlers up to their
first await after verification; then one action per await:

| registration/finish | action | | authentication/finish | action |
|---|---|---|---|---|
| 109, helper 125 | `CheckDeployed` | | 56-89 | `LookUp` |
| helper 130-152 | `SendCreate` | | 92 | `StoreCounter` |
| helper 154-176 | `PollEnds` | | 98-109 | `Attach` |
| 118 | `Recheck` | | 111-127 | `ListAccounts` |
| 120-130 | `CheckOwner` | | 129 | `Consume`, `DeleteThrows` |
| 137-162, 164-183 | `UpsertCredential`, `UpsertAccount` | | | |
| 185 | `Consume`, `DeleteThrows` | | | |

`Fail(h)` is the catch block (status 500, cookie set) or the end of the process
(no reply), at any step. A verification is modelled by what it compares: the
challenge, the passkey and the counter. Steps are merged only where the first
reads something no other handler changes: the session with the challenge row,
the account with the list (account rows are never deleted). A challenge row's
`createdAt` is the clock when it is stored; rows stored in the same tick are
equally young, so `Latest` may return any of them. Origins and RP IDs are not
in this module: every response passes that test, which is `ClientSessions`'s.

### CeremonyOrigin and ClientSessions

| Code | Definition |
|---|---|
| `resolveWebauthnCeremonyContext` (webauthn-server 210-255) | `BeginHints`, `BeginAccepts`, `Context` |
| `resolveWebauthnFinishVerification` (133-203) | `FinishHints`, `FinishAccepts`, `Verified` |
| `getExpectedRpidsForVerification` (101-123) | `ExpectedRpIds` |
| `crossSiteCookieAttrs` (cookie-cross-site 9-23) | `CrossSite` |
| session 21-31 | `ReadSession`: the clock is read, then the row |
| session 31-43 | `TouchSession`: the row's expiry from that clock |
| session 45-68 | `CreateSession`: a user and a session, in one transaction |
| registration/begin 19-72 | `StoreChallenge` |
| registration/finish 41-79, 132-185 | `Verify`, `Spend` |
| backup-passkey 25-32, 37-44, 54-57 | `CheckOwned`, `FindIntent`, `UpdateIntent`, `InsertIntent` |
| replies and their Set-Cookie | `Answer`; `Fail` with or without the cookie |
| a login elsewhere | `MoveAccount` |

State: the deployment's settings, the clock, the browser's one `sid` cookie, the
sessions table, the challenges, the owner of one account and the number of its
intent rows, what authenticators have signed, and the requests in flight. `seen`,
`split` and `raced` are history and say when the two known races have happened.

A browser sends the cookie of the moment in which a request starts and stores
that of each reply as it arrives, so that two requests without a cookie make two
users (`split`). An extension sends and stores it only if the cookie is
SameSite=None. A request carries any of a client's `Envelopes`: the headers a
proxy passes on or strips, a body with or without the extension's id. A challenge
is registration's; `authentication/begin` and `finish` treat sessions and origins
in the same way. Only a tick of the clock ages anything, and the clock does not
tick past the platform's time limit for a request (`Latency`).

### FactoryDeploy

State: the ledger (`deployed`, the bundler's `sequence`, its one `mempool`
slot, `results` of applied transactions), a `cache` per process, the POST
requests in flight, and `told`, the accounts some reply called deployed. The
routes differ in three places, all kept: only webauthn looks the contract up
first (`Check`), only legacy takes a failed simulation or transaction for
success (`Simulate`, `Poll`), and webauthn and freighter take thirty misses for
success (`GiveUp`). `Accept` and `Refuse` are the answers of sendTransaction; a
TRY_AGAIN_LATER is not an error to any route, so the handler polls for a
transaction that nobody holds. The submit routes send from the same bundler
account; `OtherTransaction` is one of theirs being applied (at most `MaxOthers`
are). That such a transaction waits for a while before needs no state: it makes
sendTransaction answer TRY_AGAIN_LATER, which `Refuse` may do at any time.

### TxSubmit

| Code | Action |
|---|---|
| build 113-236, build-delegated 78-125 | `Prepare`: number, nonce, expiry; fails with the counter at its maximum |
| page 319-331, 370-380, 411-442 | `Sign` |
| submit 37-186, submit-webauthn 54-124, submit-delegated 36-94 | `Submit`: the transaction of the body rebuilt around the signed entry of the body |
| submit 257-313 | `Simulate`: enforcing, so it checks nonce, expiry and counter |
| submit 315-322 | `Accept`, `Refuse` |
| submit 329-415 | `Poll`, `GiveUp` |
| catch blocks, end of the process | `Fail` |
| the ledger | `Apply`, `ApplyFails`, `Drop`, `OtherTransaction`, `CloseLedger` |
| any other client of the ledger | `SendDirectly` |

State: the ledger's number, the bundler's `sequence` and its one `mempool` slot
(the network holds one transaction of an account at a time), `results`, consumed
nonces, the counter; build replies and signed nonces; submit requests in flight;
and the history of answers (`reported`, `failed`), of transactions posted with a
number past the next one (`early`) and of nonces consumed by another account's
transaction (`elsewhere`). The three submit routes differ in what they keep of
the built transaction: `submit` and `submit-delegated` clone it with its time
bound, `submit-webauthn` sets a new one; all three keep its number.

`txXdr` and the signed entry are separate fields of a body, and no route compares
them (submit 49-57 and 92-97, submit-webauthn 56-69, submit-delegated 36-48).
`Submit(h, n, m)` therefore takes the entry of build n and the transaction of any
build m, with its number or one of `Made`, which a client has written into it. The
simulation runs the call of the transaction, so that entry and transaction must
be of one client (`caller`), and does not look at the number. The routes thus do
not keep the bundler from paying for a call that must fail. `NothingSentTwice`
says how far they do: only a number past the next one at the time of the post, or
an entry spent outside the bundler, brings a consumed nonce into the mempool. TLC
finds such a transaction when either exception is taken out of the property.
`BuildsAreNotEarly` proves that the first takes a number of the client's own.

Abstractions. A build's getAccount and its simulation are one step: whatever
happens between them is as if the number had been read earlier, and it is used
only by a later submit. A signature is the fact that its nonce is signed; a bad
one is answered with 400 by `Simulate` and needs no state. The delegated path
has two nonces that are consumed together; the model has one. The time bound
(300 s) and the expiry (60 ledgers) are both `Life`. A signed body may be posted
any number of times, before or after an answer, as the page's second
`submitOnce` does and as any client may. The resource fee of an enforcing
simulation is any of `Fees`: posting a body twice may give two transactions with
one number and one nonce, as the new time bound of `submit-webauthn` and the
transaction of another build do as well.

The answer "Transaction failed" is about a transaction, whose status the route
has asked for, and so are `failed` and `FailedIsNotExecuted`: that the same entry
may be executed in another transaction, when the client posts it again, is no
contradiction to it.

### CallAuthorization

| Code | Action |
|---|---|
| build 138-183, build-delegated 91-188 | `BuildCall`, `BuildDelegated`: an entry with a nonce and an expiry; for Freighter a second entry |
| build 242, page 319-331, 370-380, 411-442 | `SignedRule`, `Sign` |
| submit 64-161, submit-webauthn 56-104, submit-delegated 36-76 | `Post` |
| the enforcing simulation, e.g. submit 257-292 | `Simulate` |
| submit 294-322, catch blocks | `SendCall`, `Fail` |
| smart-account 23-31, ed25519-verifier 28-80 | `Authorised`, `Ed25519Verifies` |
| smart-account 50-87 | `AddRule`, `RemoveRule`, `AddSigner`, `RemoveSigner`, `UpdateValidUntil` |
| the ledger | `Execute`, `Drop`, `CloseLedger` |
| any other client | `SendDirectly` |

State: the account's rules, the form of signature data its deployed verifier
decodes, build replies, signatures, submit requests in flight, what was sent and
what was executed. The expiry of 60 ledgers is `Life`.

Abstractions. A hash is the record of what is hashed. A nonce is unique to its
address, and so are the nonces a build draws. The entry, the second entry, the
signature, the key and the rule of a body are chosen apart from each other,
because every one of them comes back from the browser as a field of its own.
`__check_auth` is the OpenZeppelin library's and modelled from what the
contracts and the routes rely on: the rule exists, is for the counter and has
not run out, and every signer of it has signed, which with one signature means
that it has one signer. Policies, rule names and rules for other contracts that
are not the counter's are left out. The first rule is the one of `initialize`: one
signer, no expiry.

What reading the code for this module showed, none of which the model hides:
- `build` looks up the rule that applies (66-111) and then signs for rule 0
  (242), as do all other places. `HonestCallAuthorised` says what follows: an
  account without its rule 0, or with a second signer in it, is refused every
  call of the routes (`Standing`).
- `submit` posts a raw signature of 64 bytes (126, 152), while the verifier of
  this repository decodes `Ed25519SigData` (36) and its smart account takes the
  library's older `Signatures`. The deployed contracts are not those in the
  tree, so `verifier` is either form from the start. Under the repository's own
  every call of Phantom is refused, which `Standing` says too.
- The page's second attempt with `verifierHashHex` (450-458) signs another
  message than the one `submit` compares with (106), so it is refused unless the
  two are equal, when it repeats the first.
- `build` can append a G-address entry over the payload instead of the digest
  (188-199). The page does not ask for it, and the model has no action for it.

### SmartAccountsPage

| `page.tsx` | Action |
|---|---|
| `handleConnect` 124-157 | `Connect`, `Connected`, `LookedUp`, `WalletFails` |
| `handleDeploy` 159-186 | `Deploy`, `Deployed`, `WalletFails` |
| `handlePasskeyCreateAccount` 189-236 | `CreateAccount`, `Created`, `Registered`, `SetActive`, `Listed`, `PasskeyFails` |
| `handlePasskeyLogin` 239-280 | `Login`, `LoggedIn`, `Listed`, `PasskeyFails` |
| `handleSwitchAccount` 282-290 | `SwitchAccount` |
| `handleIncrement` 293-470 | `Increment`, `Sign`, `Submit`, `Succeed`, `Fail` |
| `reset` 472-486 | `Reset` |
| the buttons' conditions 497-505 | `IsReady`, `IsTxBusy`, `AnySetupBusy` in the guards |

State: one variable per `useState`, the handlers in flight (`setups`,
`increments`, each with the signer and account of the rendering in which it was
clicked), and `registered`, the passkeys the session's user has accounts for.

Abstractions. An account is named by the signer that may sign for it. The value
of the counter, the receipt and the messages are left out, so `fetchCounter` has
no step. A login changes nothing on the screen between its first await and the
reply of its finish request, and that stretch is one step. The list a login or
the account route answers with is any set of registered passkeys, because
another tab may take a passkey in between. A reload is the initial state again.
A second click in the same rendering is not modelled: React renders between two
clicks.

## Runs

| Run | Bounds | Shows |
|---|---|---|
| `ceremony` | 2 browsers, 2 users, 1 passkey, 2 challenges, 2 finish handlers, clock 0..1, TTL 1 | one success per challenge, acknowledged registrations stay, deployed rows are true, challenges are spent by their user, logins move both rows of a passkey, the book is implemented |
| `one_at_a_time` | one handler, an empty database or a registered passkey, 2 challenges left, with fairness | owners agree, a login lists its account and never lowers the counter, whatever fails; every request ends |
| `listed_when_racing` | 2 handlers, a registered passkey, two login challenges | **violated**: a login may be answered with a list that lacks its account |
| `sessions` | a page and an extension, a development and a production server, 2 users, 2 challenges, 2 requests at once and 3 in all, session life 4, challenge life 1, latency 1; starts with or without a session that is about to end | an honest ceremony is accepted; an active browser keeps its user; only a race makes a second intent row |
| `factory` | 2 accounts on the factory and webauthn routes, 1 process, 2 requests, 2 numbers taken by counter calls, 1 fault, with fairness | no create transaction meets its contract; the factory route tells the truth; a send is refused only when it was overtaken; every request ends |
| `told_is_deployed` | freighter and webauthn, no fault | **violated**: an account is announced that was never created |
| `legacy_failed` | legacy and factory, 1 fault | **violated**: a failed transaction is announced as an existing account |
| `submit` | a cloning and a re-stamping client, 2 nonces, 2 submit requests, 1 fee, a number past the first, counter to 2, 2 ledgers, 1 deployment, 1 fault | nothing is sent whose nonce the bundler has consumed, but for a raised number; the call book is implemented |
| `submit_failed` | the same clients, no number of their own, 3 ledgers, no fault | **violated**: "Transaction failed" is answered for a call that is then executed |
| `call_authorization` | 1 key of each kind, 2 nonces of the account and 2 of the G address, 1 submit request, 2 rules, 1 change of them, 2 ledgers, entries valid for one | a signature is good for one call; an honest one passes exactly while the account, its verifier and the entry take it |
| `page` | 2 wallets (one asked to sign again), 2 passkeys, 2 increments | one setup handler at a time; a ready page has a signer and an account that came with it or is in its list; no spinner is left turning |
| `page_switch` | the same | **violated**: after a switch the old account's passkey signs for the new account |

Why the bounds are enough. The races of the ceremonies are between two finish
requests for one row or one passkey: two handlers, two sessions and one passkey
have all of them, and two challenges are the least that let a newer row displace
an older one. The clock needs one tick to expire a row. A second passkey adds no
step that reads another passkey's rows except the list, which is about one
passkey at a time. In `ClientSessions` three requests are a begin, its finish
and one that overlaps either, and two backup requests after an account exists;
the clock starts one tick before a session's end, so one tick ends it, and the
lives keep the order of the code's (a session outlives a challenge and two
requests). In `CallAuthorization` two nonces give two entries to be mixed up
with each other's signatures and posted again; the second ledger ends the first
one's entries; one change of the rules is enough to remove, replace or outdate
the rule that was signed for, and a handler has no state another handler reads.
In `FactoryDeploy` a second request is what makes a sequence number stale; one
fault is enough for each single failure, a restart, a thrown await or a failed
transaction. Two counter calls outdate two requests, or one of them twice. In
`TxSubmit` two nonces and two requests give a number used by another build, a
body posted twice and an entry beside the transaction of another build; `Made`
is 2, a number past the next one until a transaction is applied. An
authorisation ends with its ledger (`Life` is 0 in `submit`, 1 in
`submit_failed`), so that the next one expires it; one fee is enough, because
the time bounds and the builds already make different transactions for one
entry. The view `Seen` of `submit` hides the history `failed`, on which no
guard, no other variable and, but for its typing, no property of that run
depends, so that two states with one view have the same behaviours as far as the
run can see; the typing of `failed` is `TypeCorrect`'s. The counter starts at
any value up to its maximum, so that calls meet the maximum while they wait. On
the page a second increment is the least that runs into another after a
disconnect or a login; `Increments` bounds how many may. Two passkeys are the
least to switch between. The theorems below hold without these bounds.

`CHECK_DEADLOCK FALSE` is set for the ceremonies, the sessions, `TxSubmit` and
`CallAuthorization`: with all challenges issued, all requests sent or all nonces
drawn, and the clock or the ledger at its bound, the model may really stop. The
page is checked for deadlock: some button or handler can always move it.

Fairness. `WF(Progress(h))`, `WF(Step(h))`: the event loop resumes a handler
whose await has settled, and every await of the code settles, because RPC and
Postgres calls return or throw and the poll loops are bounded. No fairness is
assumed for the network, the ledger, failures, expiry or the ticking of the
clock, and no property says that a deployment succeeds in the end: requests that
read one number compete for it without a queue, and nothing in the code keeps one
of them from losing again and again.

## Theorems

`PasskeyCeremony_proofs` proves for every number of browsers, users, passkeys,
challenges and handlers, from the three assumptions on the constants
(`CountingAssumption`, `TimeAssumption`, `NoneAssumption`):

- `TypeCorrect`, `AtMostOneSuccess`, `AcknowledgedStays`, `DeployedStays`: the
  four invariants of `ceremony`;
- `RegistrationSpentByItsUser`: the action property `SpentByItsUser`;
- `Refinement`: `PasskeyCeremony` implements `ChallengeBook`.

None of the invariants is inductive. `IInv` adds what lets a handler's last step
rely on its first although others ran in between: a challenge row in the table
is unspent and its id unique (`RowsInv`), each handler's reads that can only
become truer (`HandlerInv`: the contract it saw deployed is still there, the
credential it found or wrote exists, before `Consume` the account does too), and
the row a handler has read, if it is still there, is of its purpose and, for a
registration, of its user (`ReadRowInv`). `NextMonotone` collects what no step
takes back; `HandlerFrame` carries a handler that does not move over the step of
another; `ProgressInv` and `ArriveInv` treat the one that moves.

`PasskeyOwners_proofs` builds on it: `LoginsMoveBoth` (`LoginsKeepOwners`: only a
registration that overlaps a login can part a passkey from its account, for
which a handler's half of the program must follow from its purpose,
`RequestsKeepTheirKind`). Three more theorems are about runs in which no two
finish requests for one passkey are in flight together (`PasskeysApart`), with
any number of requests for other passkeys beside them, failing or dying at any
step: `ApartRequestsAgree` (`OwnersAgree`), `ApartLoginsListAccount`
(`LoginListsAccount`) and `ApartLoginsRaiseCounter` (`LoginsRaiseCounter`). Their
invariant says what a handler has read of the credential and still holds when it
acts on it (`OwnInv`), and that a handler of another passkey changes none of it.
The one handler of `one_at_a_time` is the smallest case of the hypothesis
(`SerialIsApart`); `listed_when_racing` shows that `LoginListsAccount` needs it.

`ClientSessions_proofs` proves for any clients, settings, requests and lives:
`TypeCorrect`, `OnlyRacesDuplicate` (`DuplicatesRaced`, by counting the requests
between their look-up and their insert: without a race there is at most one, and
none once a row exists), and two theorems about the operators of
`CeremonyOrigin`: `FinishIsBeginWithoutOrigin` (begin would have taken what finish
takes, but for an Origin or Referer of another extension, which finish does not
read) and `VerifiedIsOffered` (finish takes only
what was signed where begin has offered, or by an extension of the allow list
for one of its two ids).

`ActiveSession_proofs` proves `ActiveUserStays` (`ActiveIsKept`) on the types of
`ClientSessions_proofs`. The cookie and the session row are written apart: the
row from a clock that the request has read, the cookie when its reply arrives. A
request writes a clock it has read while it ran (`TimeInv`), so the row of its
user ends at most `Latency` early (`UserInv`), and the row of the stored cookie
at most twice that (`CookieInv`). A request that overlapped none carries the
stored cookie (`AloneInv`), so it makes a new user only after one of the two is
over.

The same module proves `HonestCeremoniesPass` (`HonestCeremonyAccepted`), by
following a challenge from begin to the response that answers it. As long as no
two overlapping requests have both made a user, whoever is in play, in the
cookie or in a request on its way, is one user (`OneUserInv`); a challenge row
and its copy in a begin request are one row (`RowInv`, `RequestInv`), offered to
the client that asked for it and signed for what was offered (`ResponseInv`);
and while the row of a signed challenge is good, the browser's cookie names its
user and neither the cookie nor the session ends before the challenge
(`GoodInv`). Finish therefore finds the row, and the operators of
`CeremonyOrigin` accept it, for which one thing must be assumed of a web page
(`PagesArePlain`): its two requests reach one host by one protocol and name no
extension. The page's fetches are relative and set no such field (`page.tsx` 202
and 214). `TimeAssumption` keeps the order of the code's lives, a session no
shorter than a challenge and two requests together. TLC checks the invariant's
consequences within the bounds of `sessions`, where both assumptions are
evaluated.

`TxSubmit_proofs` proves for every number of clients, nonces and requests, every
life of an authorisation, every size of the counter and every number a client
writes itself (`LifeAssumption`, `MadeAssumption`): `TypeCorrect`,
`NothingSentInVain` (`NothingSentTwice`), `BuildsAreNotEarly`, `Refinement`
(`TxSubmit` implements `CallBook`) and `OnlyGivingUpMisleads`, below. The
invariant says why it is harmless to post an entry twice, with the transaction of
whichever build: a request posted with a number no greater than the next one
never has a greater one, and if its simulation is over and it still has the next
one, then no transaction of the bundler has been applied since, so the nonce that
the simulation found unspent is still unspent by the bundler (`PostedInv`). The
waiting transaction has the next number (`MempoolInv`), so what applies it uses
the number up for all others; `ResultsInv` ties SUCCESS to a consumed nonce and
gives a transaction one status for good.

`CallAuthorization_proofs` proves for any keys, nonces, requests, rules and
changes of them: `TypeCorrect` and `SignaturesAreSpent` (`OneCallPerSignature`).
Whatever is on its way bears a signature that was made (`MadeInv`); whichever
verifier decides, an authorised call was signed as it is (`AuthorisedIsSigned`);
and an executed call's nonce is its own (`ExecutedInv`), so a second call with
the same signature would have the same nonce. `HonestCallsPass`
(`HonestCallAuthorised`) needs the converse: a nonce has one entry, so a
signature for the same nonce is over the same expiry, Freighter's second nonce is
spent with the first, and everything is signed for rule 0 (`SignedInv`); a body
is put together from build replies (`PostedInv`). `Honest` speaks of the body
alone, where it comes from, and `Standing` of the ledger and the account at the
moment of the simulation; the theorem is that the second decides, in both
directions.

`FactoryDeploy_proofs` proves for every number of accounts on the four routes,
server processes and requests: `TypeCorrect`, `NothingCreatedTwice`
(`CreateMeetsNoContract`), `FactoryIsTruthful` (`FactoryTellsTruth`),
`OnlyTheOvertakenAreRefused` (`RefusedWasOvertaken`), and two theorems of the
last table below. The
invariant ties a look-up to the number read before it: a request that is about to
send has a number no greater than the next one, and if it is the next one then
no transaction has been applied since, so the contract it found absent is still
absent (`HandlerInv`); a waiting transaction has the next number and creates what
is not there (`MempoolInv`). `ResultsInv` and `CacheInv` carry the truth from the
ledger to a reply.

`SmartAccountsPage_proofs` proves for any wallets, passkeys and increments:
`TypeCorrect`, `SetupIsExclusive` (`OneSetupAtATime`), `ReadyHasSigner`
(`ReadyIsSignedIn`) and `SpinnersAreAttended` (`NoOrphanSpinner`). The buttons
read the two states, not the handlers, so the invariant says for each step of a
handler which states it finds (`Working`), and that a handler at work is the
only one (`Alone`): it follows that nothing it relies on is changed by a click.
`ReadyHasSigner` does not say that a session's passkey may sign for the account
shown: after a switch it may not (`page_switch`), and `OnlySwitchesMislead` says
when it may.

Four promises of the code fail in the runs marked **violated**. For each of them
a theorem says that the step TLC has found is the only cause, for all values of
the constants: in a behaviour whose steps of that one kind happen to do no harm,
the promise holds. The hypothesis is a condition on that kind of step only, and
no other step is restricted.

| Theorem | Promise | Hypothesis: harmless are |
|---|---|---|
| `OnlyGivingUpMisleads` (`TxSubmit_proofs`) | `FailedIsNotExecuted` | the thirty misses after which a request answers "Transaction failed": its number is used up (`Hopeless`), so that its transaction can not apply any more |
| `OnlyFailuresMislead` (`FactoryDeploy_proofs`) | `LegacyTellsTruth` | the failed transactions that the legacy route takes for an existing account: the account exists (`GuessesRight`) |
| `OnlyGuessesMislead` (`FactoryDeploy_proofs`) | `ToldIsDeployed` | these, and the thirty misses that the webauthn and freighter routes take for success |
| `OnlySwitchesMislead` (`SmartAccountsPage_proofs`) | `SignedByItsAccount` | the switches: they lead to the account of the session's own passkey (`SwitchesHome`) |

Behind the first is that a status FAILED is final for its transaction: the number
is used up, and what has a number that is used up gets no further status
(`FailedInv`, `UsedUpStays`). Behind the next
two is that caches and replies of a set of routes are true together (`TrueFor`).
Behind the last is that the account on the screen is the session's passkey's from
the reply that has set both (`ShownIsPasskey`). The fifth such promise is
`LoginListsAccount`, whose cause `ApartLoginsListAccount` names.

Only model-checked: the liveness properties `EveryRequestEnds` and
`EveryPostEnds`. They rest on fairness and so on ENABLED, which TLAPS does
not reach. Every invariant and action property of a run is
also a theorem, under the hypotheses named above where there are any.

## Not modelled

- Encodings, XDR and the arithmetic of hashes. One of them is odd:
  `delegated-native-auth-entry.ts` 25 shifts a number six times by eight bits,
  which JavaScript does on 32 bits, so its nonce has 32 bits and may be negative.
- The OpenZeppelin library behind `__check_auth`, which the repository does not
  contain, with policies and the details of rule selection.
- `accounts/set-active` (a cookie that no route reads) and the counter's value
  (one simulated read).
- CORS (`middleware.ts`), which the browser enforces, wallets, presentation, and
  scripts run by hand one after the other.
- In `PasskeyCeremony`, a session row's sliding expiry: a cookie that is lost and
  a session that has expired look the same to every handler there, and both are
  `LoseCookie`. `ClientSessions` has it.

## Plan

What is left, in this order:

1. The counter's value and the receipt on the page: overlapping `fetchCounter`
   replies, and whether what the receipt names is what signed.
2. The page composed with the routes: a session whose passkey moves to another
   user while the tab is open.
