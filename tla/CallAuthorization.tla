--------------------------- MODULE CallAuthorization ---------------------------
(***************************************************************************)
(* What a signature of a person is good for.  A build route makes the      *)
(* authorisation entry of one call of the counter and the digest to sign,  *)
(* a wallet or a passkey signs it, a submit route puts the signature into  *)
(* the entry, and the smart account compares it with the digest of its     *)
(* own, under the context rule that the call names.  The account's rules   *)
(* may change at any time in between.                                      *)
(*                                                                         *)
(* Sequence numbers, fees and polling are TxSubmit's.  A hash is the       *)
(* record of what is hashed.  The contract and the arguments of the call   *)
(* are the same in every entry and left out.                               *)
(***************************************************************************)
EXTENDS Naturals

CONSTANTS
  Signers,     \* keys of people
  Kind,        \* what holds each key
  Nonces,      \* nonces a simulation can draw for the account
  GNonces,     \* nonces build-delegated can draw for the G address
  Handlers,    \* submit requests in flight at once
  None,        \* no expiry, no second entry
  Life,        \* ledgers an authorisation is valid for
  MaxLedger,   \* bound on the ledger number
  MaxRules,    \* bound on the context rules an account ever has
  MaxChanges   \* bound on the changes of its rules

Kinds == {"phantom", "passkey", "freighter"}

ASSUME KindAssumption == Kind \in [Signers -> Kinds]
ASSUME BoundAssumption == {Life, MaxLedger, MaxRules, MaxChanges} \subseteq Nat
ASSUME NoneAssumption == None \notin GNonces \cup Nat

VARIABLES
  ledger,      \* number of the latest ledger
  verifier,    \* the form of signature data the deployed verifier decodes
  rules,       \* the account's context rules by id, NoRule for none
  nextRule,    \* the id of the next rule
  changes,     \* number of changes of the rules
  built,       \* the entries of the build replies
  signatures,  \* what people have signed
  handler,     \* submit requests in flight
  sent,        \* calls sent to the ledger
  executed     \* calls that were executed, whose nonces the ledger has consumed

account == <<rules, nextRule, changes>>
chain == <<ledger, verifier, account, executed>>
vars == <<chain, built, signatures, handler, sent>>

-----------------------------------------------------------------------------
RuleIds == 0 .. MaxRules

Rule == [target : {"counter", "other"}, signers : SUBSET Signers, until : Nat \cup {None}]

NoRule == [target |-> "none"]

\* An entry of the account, or of a G address that build-delegated pairs with it.
Entry == [nonce : Nonces, until : Nat]

\* The payload of an entry together with the ids of the context rules.
Digest == [nonce : Nonces, until : Nat, rule : Nat]

\* What a build reply carries: the entry, and for Freighter the second nonce.
Built == [nonce : Nonces, until : Nat, pair : GNonces \cup {None}]

(* A signature over a digest; Freighter's is over an entry whose call is   *)
(* __check_auth of the digest, with a nonce of its own.                    *)
Signature == [signer : Signers, digest : Digest, pair : GNonces \cup {None}]

\* A call with its authorisation, as it is sent to the ledger.
Call == [entry : Entry, rule : Nat, key : Signers, form : {"raw", "struct"},
         signature : Signature, pair : GNonces \cup {None}]

Idle == [pc |-> "idle"]

Running == [pc : {"simulate", "send"}, call : Call]

Busy(h) == handler[h].pc # "idle"

\* Variant: the digest is that of the invocation alone.
DigestOf_NoNonce(e, rule) == [nonce |-> CHOOSE n \in Nonces : TRUE, until |-> e.until, rule |-> rule]

DigestOf(e, rule) == [nonce |-> e.nonce, until |-> e.until, rule |-> rule]

EntryOf(b) == [nonce |-> b.nonce, until |-> b.until]

\* An address has nonces of its own: the account's, and the G address's.
Drawn == {b.nonce : b \in built}
DrawnPairs == {b.pair : b \in built}

Used == {c.entry.nonce : c \in executed}
UsedPairs == {c.pair : c \in executed}

-----------------------------------------------------------------------------
\* initialize gives the account one rule with one signer and no expiry.
Init ==
  /\ ledger = 0
  /\ verifier \in {"raw", "struct"}
  /\ \E s \in Signers :
       rules = [id \in RuleIds |->
         IF id = 0 THEN [target |-> "counter", signers |-> {s}, until |-> None] ELSE NoRule]
  /\ nextRule = 1
  /\ changes = 0
  /\ built = {}
  /\ signatures = {}
  /\ handler = [h \in Handlers |-> Idle]
  /\ sent = {}
  /\ executed = {}

-----------------------------------------------------------------------------
\* Variant: the expiry of the simulation's entry is left as it is.
BuildCall_NoExpiry ==
  /\ \E n \in Nonces \ Drawn :
       built' = built \cup {[nonce |-> n, until |-> None, pair |-> None]}
  /\ UNCHANGED <<chain, signatures, handler, sent>>

\* build: the entry of the simulation with a new expiry, for Phantom and passkeys.
BuildCall ==
  /\ \E n \in Nonces \ Drawn :
       built' = built \cup {[nonce |-> n, until |-> ledger + Life, pair |-> None]}
  /\ UNCHANGED <<chain, signatures, handler, sent>>

\* build-delegated: the account's entry, and one for the G address with its own nonce.
BuildDelegated ==
  /\ \E n \in Nonces \ Drawn, g \in GNonces \ DrawnPairs :
       built' = built \cup {[nonce |-> n, until |-> ledger + Life, pair |-> g]}
  /\ UNCHANGED <<chain, signatures, handler, sent>>

\* Variant: the page signs for the account's newest rule.
SignedRule_Newest == nextRule - 1

\* build 242, build-delegated 132 and page 322: always rule 0.
SignedRule == 0

\* A person signs the digest of a build reply; Freighter takes a delegated one.
Sign(s, b) ==
  /\ Kind[s] = "freighter" <=> b.pair # None
  /\ signatures' = signatures \cup
       {[signer |-> s, digest |-> DigestOf(EntryOf(b), SignedRule), pair |-> b.pair]}
  /\ UNCHANGED <<chain, built, handler, sent>>

-----------------------------------------------------------------------------
(* A submit request with the entry of any build reply, the second entry of *)
(* any other and any signature.  submit names rule 0, and compares with    *)
(* the entry's digest only the message of the body, not what was signed;   *)
(* submit-webauthn takes the rule's id from the body; submit-delegated has *)
(* what build-delegated put there.                                         *)
Post(h, b, pair, signature, key, rule) ==
  /\ ~Busy(h)
  /\ Kind[key] # "passkey" => rule = 0
  /\ Kind[key] = "freighter" => b.pair # None
  /\ Kind[key] = "freighter" <=> pair # None
  /\ handler' = [handler EXCEPT ![h] =
       [pc |-> "simulate",
        call |-> [entry |-> EntryOf(b), rule |-> rule, key |-> key, form |-> "raw",
                  signature |-> signature, pair |-> pair]]]
  /\ UNCHANGED <<chain, built, signatures, sent>>

\* Variant: the verifier does not compare the signed message with the payload.
Ed25519Verifies_AnyPayload(c) == c.form = "struct" /\ c.signature.signer = c.key

(* The verifier of the repository: the data decode as Ed25519SigData, the  *)
(* message is the prefix and the payload's hex, the key has signed it.     *)
Ed25519Verifies(c) ==
  /\ c.form = "struct"
  /\ c.signature.digest = DigestOf(c.entry, c.rule)
  /\ c.signature.signer = c.key

\* A verifier of the signature alone, which is what the submit routes post.
RawVerifies(c) ==
  /\ c.form = "raw"
  /\ c.signature.digest = DigestOf(c.entry, c.rule)
  /\ c.signature.signer = c.key

\* The G address has signed __check_auth of the digest, and its nonce is new.
DelegateVerifies(c) ==
  /\ c.pair # None
  /\ c.signature.digest = DigestOf(c.entry, c.rule)
  /\ c.signature.signer = c.key
  /\ c.signature.pair = c.pair
  /\ c.pair \notin UsedPairs

Verifies(c) ==
  CASE Kind[c.key] = "phantom" /\ verifier = "struct" -> Ed25519Verifies(c)
    [] Kind[c.key] = "phantom" /\ verifier = "raw" -> RawVerifies(c)
    [] Kind[c.key] = "passkey" -> RawVerifies(c)
    [] Kind[c.key] = "freighter" -> DelegateVerifies(c)

\* The rule with this id is for calls of the counter and has not run out.
Applies(id) ==
  /\ id \in RuleIds
  /\ rules[id].target = "counter"
  /\ rules[id].until # None => ledger <= rules[id].until

(* __check_auth: the nonce is new and the entry has not run out, the rule  *)
(* applies, and every signer of the rule has signed, which is one here.    *)
Authorised(c) ==
  /\ c.entry.nonce \notin Used
  /\ ledger <= c.entry.until
  /\ Applies(c.rule)
  /\ rules[c.rule].signers = {c.key}
  /\ Verifies(c)

\* The enforcing simulation: a refusal is answered with 400.
Simulate(h) ==
  /\ handler[h].pc = "simulate"
  /\ handler' = IF Authorised(handler[h].call) THEN [handler EXCEPT ![h].pc = "send"]
                ELSE [handler EXCEPT ![h] = Idle]
  /\ UNCHANGED <<chain, built, signatures, sent>>

\* The call is sent; what becomes of the request is TxSubmit's.
SendCall(h) ==
  /\ handler[h].pc = "send"
  /\ sent' = sent \cup {handler[h].call}
  /\ handler' = [handler EXCEPT ![h] = Idle]
  /\ UNCHANGED <<chain, built, signatures>>

Fail(h) ==
  /\ Busy(h)
  /\ handler' = [handler EXCEPT ![h] = Idle]
  /\ UNCHANGED <<chain, built, signatures, sent>>

(* Another client may send a call of its own, without the routes, with the *)
(* structure that the repository's verifier decodes.                       *)
SendDirectly(b, signature) ==
  /\ Kind[signature.signer] = "phantom"
  /\ sent' = sent \cup
       {[entry |-> EntryOf(b), rule |-> 0, key |-> signature.signer, form |-> "struct",
         signature |-> signature, pair |-> None]}
  /\ UNCHANGED <<chain, built, signatures, handler>>

\* The ledger executes a call that its account authorises, and consumes the nonces.
Execute(c) ==
  /\ Authorised(c)
  /\ executed' = executed \cup {c}
  /\ sent' = sent \ {c}
  /\ UNCHANGED <<ledger, verifier, account, built, signatures, handler>>

\* It is not authorised any more, or fails for another reason.
Drop(c) ==
  /\ sent' = sent \ {c}
  /\ UNCHANGED <<chain, built, signatures, handler>>

-----------------------------------------------------------------------------
\* The account's owner changes its rules.
Change ==
  /\ changes < MaxChanges
  /\ changes' = changes + 1
  /\ UNCHANGED <<ledger, verifier, executed, built, signatures, handler, sent>>

AddRule(s) ==
  /\ nextRule \in RuleIds
  /\ nextRule' = nextRule + 1
  /\ rules' = [rules EXCEPT ![nextRule] =
       [target |-> "counter", signers |-> {s}, until |-> None]]
  /\ Change

RemoveRule(id) ==
  /\ rules[id] # NoRule
  /\ rules' = [rules EXCEPT ![id] = NoRule]
  /\ nextRule' = nextRule
  /\ Change

AddSigner(id, s) ==
  /\ rules[id] # NoRule
  /\ rules' = [rules EXCEPT ![id].signers = @ \cup {s}]
  /\ nextRule' = nextRule
  /\ Change

RemoveSigner(id, s) ==
  /\ rules[id] # NoRule
  /\ rules' = [rules EXCEPT ![id].signers = @ \ {s}]
  /\ nextRule' = nextRule
  /\ Change

UpdateValidUntil(id) ==
  /\ rules[id] # NoRule
  /\ rules' = [rules EXCEPT ![id].until = ledger]
  /\ nextRule' = nextRule
  /\ Change

CloseLedger ==
  /\ ledger < MaxLedger
  /\ ledger' = ledger + 1
  /\ UNCHANGED <<verifier, account, executed, built, signatures, handler, sent>>

-----------------------------------------------------------------------------
Next ==
  \/ BuildCall \/ BuildDelegated
  \/ \E s \in Signers, b \in built : Sign(s, b)
  \/ \E h \in Handlers, b \in built, pair \in DrawnPairs \cup {None},
        signature \in signatures, key \in Signers, rule \in RuleIds :
          Post(h, b, pair, signature, key, rule)
  \/ \E h \in Handlers : Simulate(h) \/ SendCall(h) \/ Fail(h)
  \/ \E b \in built, signature \in signatures : SendDirectly(b, signature)
  \/ \E c \in sent : Execute(c) \/ Drop(c)
  \/ \E s \in Signers : AddRule(s)
  \/ \E id \in RuleIds : RemoveRule(id) \/ UpdateValidUntil(id)
  \/ \E id \in RuleIds, s \in Signers : AddSigner(id, s) \/ RemoveSigner(id, s)
  \/ CloseLedger

Spec == Init /\ [][Next]_vars

-----------------------------------------------------------------------------
\* The shape of every variable.
TypeOK ==
  /\ ledger \in Nat
  /\ verifier \in {"raw", "struct"}
  /\ rules \in [RuleIds -> Rule \cup {NoRule}]
  /\ nextRule \in Nat
  /\ changes \in Nat
  /\ built \subseteq Built
  /\ signatures \subseteq Signature
  /\ handler \in [Handlers -> Running \cup {Idle}]
  /\ sent \subseteq Call
  /\ executed \subseteq Call

(* A signature is good for the one call it was made for: what is executed  *)
(* bears a signature of its signer that a person has made for this nonce,  *)
(* and no two calls bear the same one, whatever bodies are mixed, posted   *)
(* again or sent past the routes (soroban-auth-payload 14, verifier 71).   *)
OneCallPerSignature ==
  \A c \in executed :
    /\ c.signature \in signatures
    /\ c.signature.signer = c.key
    /\ c.signature.digest.nonce = c.entry.nonce
    /\ \A d \in executed : d.signature = c.signature => d = c

\* A body as the page puts it together: the signature of this key over this entry,
\* for rule 0, with the second entry it was made with.
Honest(c) ==
  /\ c.signature.signer = c.key
  /\ c.signature.digest.nonce = c.entry.nonce
  /\ c.signature.pair = c.pair
  /\ c.rule = 0

(* What has become of the ledger and the account since the build: the      *)
(* entry has not run out, no call has spent its nonce, rule 0 is still     *)
(* there for this key alone, and the deployed verifier reads raw data.     *)
Standing(c) ==
  /\ ledger <= c.entry.until
  /\ c.entry.nonce \notin Used
  /\ Applies(0) /\ rules[0].signers = {c.key}
  /\ Kind[c.key] = "phantom" => verifier = "raw"

(* The simulation refuses an honest body for a reason of Standing and for  *)
(* no other: never for its digest, whatever builds and changes of rules    *)
(* lie between the build and the post, and never for Freighter's second    *)
(* nonce.  The verifier that decodes Ed25519SigData refuses every call of  *)
(* Phantom, and an account without its rule 0, or with a second signer in  *)
(* it, is refused every call of the routes (build 242, 67, submit 101,     *)
(* 152, ed25519-verifier 36).                                              *)
HonestCallAuthorised ==
  [][\A h \in Handlers :
       Simulate(h) /\ Honest(handler[h].call)
         => (handler'[h].pc = "send" <=> Standing(handler[h].call))]_vars

=============================================================================
