------------------------ MODULE CallAuthorization_proofs ------------------------
(***************************************************************************)
(* Theorems about CallAuthorization for any keys, nonces and requests and  *)
(* however the account's rules change: the shape of the variables, that a  *)
(* signature is good for the one call it was made for, and when an honest  *)
(* one is refused.                                                         *)
(***************************************************************************)
EXTENDS CallAuthorization, TLAPS

\* What a busy handler holds.
LEMMA BusyIsRunning ==
  ASSUME TypeOK, NEW h \in Handlers, Busy(h)
  PROVE  handler[h] \in Running
BY DEF TypeOK, Busy, Idle

\* The entry of a build reply and the digests over it are of their kinds.
LEMMA EntryTyped ==
  ASSUME NEW b \in Built, NEW rule \in Nat
  PROVE  EntryOf(b) \in Entry /\ DigestOf(EntryOf(b), rule) \in Digest
BY DEF EntryOf, DigestOf, Built, Entry, Digest

LEMMA InitTyped == Init => TypeOK
<1> SUFFICES ASSUME Init PROVE TypeOK
  OBVIOUS
<1>1. rules \in [RuleIds -> Rule \cup {NoRule}]
  <2>1. PICK s \in Signers : rules = [id \in RuleIds |->
          IF id = 0 THEN [target |-> "counter", signers |-> {s}, until |-> None] ELSE NoRule]
    BY DEF Init
  <2>2. [target |-> "counter", signers |-> {s}, until |-> None] \in Rule
    BY DEF Rule
  <2> QED
    BY <2>1, <2>2
<1>2. handler \in [Handlers -> Running \cup {Idle}]
  BY DEF Init
<1> QED
  BY <1>1, <1>2 DEF Init, TypeOK

\* The build routes, and the people.
LEMMA BuildTyped ==
  ASSUME TypeOK,
         \/ BuildCall
         \/ BuildDelegated
         \/ \E s \in Signers, b \in built : Sign(s, b)
  PROVE  TypeOK'
<1> USE DEF TypeOK
<1>1. CASE BuildCall
  <2>1. PICK n \in Nonces :
          built' = built \cup {[nonce |-> n, until |-> ledger + Life, pair |-> None]}
    BY <1>1 DEF BuildCall
  <2>2. [nonce |-> n, until |-> ledger + Life, pair |-> None] \in Built
    BY BoundAssumption DEF Built
  <2> QED
    BY <1>1, <2>1, <2>2 DEF BuildCall, chain, account
<1>2. CASE BuildDelegated
  <2>1. PICK n \in Nonces, g \in GNonces :
          built' = built \cup {[nonce |-> n, until |-> ledger + Life, pair |-> g]}
    BY <1>2 DEF BuildDelegated
  <2>2. [nonce |-> n, until |-> ledger + Life, pair |-> g] \in Built
    BY BoundAssumption DEF Built
  <2> QED
    BY <1>2, <2>1, <2>2 DEF BuildDelegated, chain, account
<1>3. ASSUME NEW s \in Signers, NEW b \in built, Sign(s, b)
      PROVE  TypeOK'
  <2>1. [signer |-> s, digest |-> DigestOf(EntryOf(b), SignedRule), pair |-> b.pair] \in Signature
    BY EntryTyped DEF Signature, Built, SignedRule
  <2> QED
    BY <1>3, <2>1 DEF Sign, chain, account
<1> QED
  BY <1>1, <1>2, <1>3

\* The submit routes.
LEMMA SubmitTyped ==
  ASSUME TypeOK, NEW h \in Handlers,
         \/ \E b \in built, pair \in DrawnPairs \cup {None}, signature \in signatures,
               key \in Signers, rule \in RuleIds : Post(h, b, pair, signature, key, rule)
         \/ Simulate(h) \/ SendCall(h) \/ Fail(h)
  PROVE  TypeOK'
<1> USE DEF TypeOK
<1>1. ASSUME NEW b \in built, NEW pair \in DrawnPairs \cup {None}, NEW signature \in signatures,
             NEW key \in Signers, NEW rule \in RuleIds, Post(h, b, pair, signature, key, rule)
      PROVE  TypeOK'
  <2>1. pair \in GNonces \cup {None} /\ rule \in Nat
    BY BoundAssumption DEF DrawnPairs, Built, RuleIds
  <2>2. [entry |-> EntryOf(b), rule |-> rule, key |-> key, form |-> "raw",
         signature |-> signature, pair |-> pair] \in Call
    BY <2>1, EntryTyped DEF Call
  <2>3. handler' \in [Handlers -> Running \cup {Idle}]
    BY <1>1, <2>2 DEF Post, Running
  <2> QED
    BY <1>1, <2>3 DEF Post, chain, account
<1>2. CASE Simulate(h)
  <2>1. handler[h] \in Running
    BY <1>2, BusyIsRunning DEF Simulate, Busy
  <2>2. handler' \in [Handlers -> Running \cup {Idle}]
    BY <1>2, <2>1 DEF Simulate, Running
  <2> QED
    BY <1>2, <2>2 DEF Simulate, chain, account
<1>3. CASE SendCall(h)
  <2>1. handler[h] \in Running
    BY <1>3, BusyIsRunning DEF SendCall, Busy
  <2>2. handler[h].call \in Call
    BY <2>1 DEF Running
  <2> QED
    BY <1>3, <2>2 DEF SendCall, chain, account
<1>4. CASE Fail(h)
  BY <1>4 DEF Fail, chain, account
<1> QED
  BY <1>1, <1>2, <1>3, <1>4

\* The ledger.
LEMMA LedgerTyped ==
  ASSUME TypeOK,
         \/ \E b \in built, signature \in signatures : SendDirectly(b, signature)
         \/ \E c \in sent : Execute(c) \/ Drop(c)
         \/ CloseLedger
  PROVE  TypeOK'
<1> USE DEF TypeOK
<1>1. ASSUME NEW b \in built, NEW signature \in signatures, SendDirectly(b, signature)
      PROVE  TypeOK'
  <2>1. [entry |-> EntryOf(b), rule |-> 0, key |-> signature.signer, form |-> "struct",
         signature |-> signature, pair |-> None] \in Call
    BY EntryTyped DEF Call, Signature
  <2> QED
    BY <1>1, <2>1 DEF SendDirectly, chain, account
<1>2. ASSUME NEW c \in sent, Execute(c) \/ Drop(c)
      PROVE  TypeOK'
  BY <1>2 DEF Execute, Drop, chain, account
<1>3. CASE CloseLedger
  BY <1>3 DEF CloseLedger, account
<1> QED
  BY <1>1, <1>2, <1>3

\* The changes of the rules.
LEMMA RulesTyped ==
  ASSUME TypeOK,
         \/ \E s \in Signers : AddRule(s)
         \/ \E id \in RuleIds : RemoveRule(id) \/ UpdateValidUntil(id)
         \/ \E id \in RuleIds, s \in Signers : AddSigner(id, s) \/ RemoveSigner(id, s)
  PROVE  TypeOK'
<1> USE DEF TypeOK
<1>1. ASSUME NEW s \in Signers, AddRule(s)
      PROVE  TypeOK'
  <2>1. [target |-> "counter", signers |-> {s}, until |-> None] \in Rule
    BY DEF Rule
  <2> QED
    BY <1>1, <2>1 DEF AddRule, Change
<1>2. ASSUME NEW id \in RuleIds, RemoveRule(id) \/ UpdateValidUntil(id)
      PROVE  TypeOK'
  <2>1. rules' \in [RuleIds -> Rule \cup {NoRule}]
    BY <1>2 DEF RemoveRule, UpdateValidUntil, Rule
  <2> QED
    BY <1>2, <2>1 DEF RemoveRule, UpdateValidUntil, Change
<1>3. ASSUME NEW id \in RuleIds, NEW s \in Signers, AddSigner(id, s) \/ RemoveSigner(id, s)
      PROVE  TypeOK'
  <2>1. rules' \in [RuleIds -> Rule \cup {NoRule}]
    BY <1>3 DEF AddSigner, RemoveSigner, Rule
  <2> QED
    BY <1>3, <2>1 DEF AddSigner, RemoveSigner, Change
<1> QED
  BY <1>1, <1>2, <1>3

\* Every step keeps the shape of every variable.
LEMMA NextTyped == TypeOK /\ [Next]_vars => TypeOK'
<1> SUFFICES ASSUME TypeOK, [Next]_vars
             PROVE  TypeOK'
  OBVIOUS
<1>1. CASE UNCHANGED vars
  BY <1>1 DEF vars, chain, account, TypeOK
<1> QED
  BY <1>1, BuildTyped, SubmitTyped, LedgerTyped, RulesTyped DEF Next

(* Every entry has its expiry and every rule, signature and call its       *)
(* shape, however the rules change.                                        *)
THEOREM TypeCorrect == Spec => []TypeOK
BY InitTyped, NextTyped, PTL DEF Spec

-----------------------------------------------------------------------------
\* Only Freighter has a second entry.
PairFits(c) == Kind[c.key] # "freighter" => c.pair = None

\* Whatever is on its way bears a signature that a person has made.
MadeInv ==
  /\ \A h \in Handlers : Busy(h) => handler[h].call.signature \in signatures
                                    /\ PairFits(handler[h].call)
  /\ \A c \in sent : c.signature \in signatures /\ PairFits(c)

\* What is executed was signed as it is, and its nonce is its own.
ExecutedInv ==
  /\ \A c \in executed : /\ c.signature \in signatures
                         /\ c.signature.signer = c.key
                         /\ c.signature.digest = DigestOf(c.entry, c.rule)
                         /\ c.pair # None => c.signature.pair = c.pair
  /\ \A c, d \in executed : c.entry.nonce = d.entry.nonce => c = d

\* Whichever verifier looks at it, an authorised call was signed as it is.
LEMMA AuthorisedIsSigned ==
  ASSUME TypeOK, NEW c \in Call, Authorised(c)
  PROVE  /\ c.signature.signer = c.key
         /\ c.signature.digest = DigestOf(c.entry, c.rule)
         /\ Kind[c.key] = "freighter" => c.signature.pair = c.pair
<1>1. Kind[c.key] \in Kinds
  BY KindAssumption DEF Call
<1>2. verifier \in {"raw", "struct"}
  BY DEF TypeOK
<1> QED
  BY <1>1, <1>2 DEF Authorised, Verifies, Kinds, Ed25519Verifies, RawVerifies, DelegateVerifies

\* Signatures are never taken back.
LEMMA SignaturesStay ==
  ASSUME [Next]_vars
  PROVE  signatures \subseteq signatures'
BY DEF Next, vars, BuildCall, BuildDelegated, Sign, Post, Simulate, SendCall, Fail, SendDirectly,
       Execute, Drop, AddRule, RemoveRule, AddSigner, RemoveSigner, UpdateValidUntil, Change,
       CloseLedger

LEMMA MadeStep ==
  ASSUME TypeOK, MadeInv, [Next]_vars
  PROVE  MadeInv'
<1> USE DEF MadeInv, PairFits
<1>1. ASSUME NEW h \in Handlers, NEW b \in built, NEW pair \in DrawnPairs \cup {None},
             NEW signature \in signatures, NEW key \in Signers, NEW rule \in RuleIds,
             Post(h, b, pair, signature, key, rule)
      PROVE  MadeInv'
  BY <1>1 DEF Post, Busy, TypeOK
<1>2. ASSUME NEW h \in Handlers, Simulate(h) \/ SendCall(h) \/ Fail(h)
      PROVE  MadeInv'
  <2>1. Busy(h) /\ handler[h] \in Running
    BY <1>2, BusyIsRunning DEF Simulate, SendCall, Fail, Busy
  <2>2. \A g \in Handlers \ {h} : handler'[g] = handler[g]
    BY <1>2 DEF Simulate, SendCall, Fail, TypeOK
  <2>3. handler'[h] = Idle \/ handler'[h].call = handler[h].call
    BY <1>2, <2>1 DEF Simulate, SendCall, Fail, TypeOK, Running
  <2>4. signatures' = signatures /\ sent' \subseteq sent \cup {handler[h].call}
    BY <1>2 DEF Simulate, SendCall, Fail
  <2> QED
    BY <2>1, <2>2, <2>3, <2>4 DEF Busy, Idle
<1>3. ASSUME NEW b \in built, NEW signature \in signatures, SendDirectly(b, signature)
      PROVE  MadeInv'
  BY <1>3 DEF SendDirectly, Busy
<1>4. ASSUME UNCHANGED handler, sent' \subseteq sent
      PROVE  MadeInv'
  BY <1>4, SignaturesStay DEF Busy
<1> QED
  BY <1>1, <1>2, <1>3, <1>4
  DEF Next, vars, BuildCall, BuildDelegated, Sign, Execute, Drop, AddRule, RemoveRule, AddSigner,
      RemoveSigner, UpdateValidUntil, Change, CloseLedger

LEMMA ExecutedStep ==
  ASSUME TypeOK, MadeInv, ExecutedInv, [Next]_vars
  PROVE  ExecutedInv'
<1> USE DEF ExecutedInv
<1>1. ASSUME NEW c \in sent, Execute(c)
      PROVE  ExecutedInv'
  <2>1. /\ c.signature.signer = c.key
        /\ c.signature.digest = DigestOf(c.entry, c.rule)
        /\ c.pair # None => c.signature.pair = c.pair
    BY <1>1, AuthorisedIsSigned DEF Execute, TypeOK, MadeInv, PairFits
  <2>2. c.signature \in signatures /\ \A d \in executed : d.entry.nonce # c.entry.nonce
    BY <1>1 DEF Execute, Authorised, Used, MadeInv
  <2>3. executed' = executed \cup {c} /\ signatures' = signatures
    BY <1>1 DEF Execute
  <2> QED
    BY <2>1, <2>2, <2>3 DEF DigestOf
<1>2. CASE executed' = executed
  BY <1>2, SignaturesStay DEF DigestOf
<1> QED
  BY <1>1, <1>2
  DEF Next, vars, chain, BuildCall, BuildDelegated, Sign, Post, Simulate, SendCall, Fail,
      SendDirectly, Drop, AddRule, RemoveRule, AddSigner, RemoveSigner, UpdateValidUntil, Change,
      CloseLedger

(* However bodies are mixed, posted again or sent past the routes, and     *)
(* however the rules change, a signature is good for one call.             *)
THEOREM SignaturesAreSpent == Spec => []OneCallPerSignature
<1>1. Init => MadeInv /\ ExecutedInv
  BY DEF Init, MadeInv, ExecutedInv, Busy, Idle
<1>2. TypeOK /\ MadeInv /\ ExecutedInv /\ [Next]_vars => MadeInv' /\ ExecutedInv'
  BY MadeStep, ExecutedStep
<1>3. ExecutedInv => OneCallPerSignature
  <2> SUFFICES ASSUME ExecutedInv, NEW c \in executed
               PROVE  /\ c.signature \in signatures
                      /\ c.signature.signer = c.key
                      /\ c.signature.digest.nonce = c.entry.nonce
                      /\ \A d \in executed : d.signature = c.signature => d = c
    BY DEF OneCallPerSignature
  <2>1. \A d \in executed : d.signature.digest.nonce = d.entry.nonce
    <3>1. \A e, rule : DigestOf(e, rule).nonce = e.nonce
      BY DEF DigestOf
    <3> QED
      BY <3>1 DEF ExecutedInv
  <2> QED
    BY <2>1 DEF ExecutedInv
<1> QED
  BY <1>1, <1>2, <1>3, InitTyped, NextTyped, PTL DEF Spec

-----------------------------------------------------------------------------
\* A nonce has one entry, a second nonce too, and people sign the digests of build
\* replies for rule 0.
SignedInv ==
  /\ \A b, d \in built : b.nonce = d.nonce \/ (b.pair = d.pair /\ b.pair # None) => b = d
  /\ \A signature \in signatures :
       \E b \in built : signature.digest = DigestOf(EntryOf(b), 0) /\ signature.pair = b.pair

\* What a submit route has put together from the fields of a body.
PostedInv(h) ==
  LET c == handler[h].call
  IN  Busy(h) => /\ \E b \in built : c.entry = EntryOf(b)
                 /\ c.signature \in signatures
                 /\ c.form = "raw"
                 /\ Kind[c.key] = "freighter" <=> c.pair # None

HonestInv == SignedInv /\ \A h \in Handlers : PostedInv(h)

\* No build reply is taken back.
LEMMA BuiltStay ==
  ASSUME [Next]_vars
  PROVE  built \subseteq built'
BY DEF Next, vars, BuildCall, BuildDelegated, Sign, Post, Simulate, SendCall, Fail, SendDirectly,
       Execute, Drop, AddRule, RemoveRule, AddSigner, RemoveSigner, UpdateValidUntil, Change,
       CloseLedger

\* A new build has a nonce, and perhaps a second one, that none before it has.
LEMMA SignedAfterBuild ==
  ASSUME SignedInv, BuildCall \/ BuildDelegated
  PROVE  SignedInv'
<1>1. PICK b : /\ built' = built \cup {b}
               /\ b.nonce \notin Drawn
               /\ b.pair = None \/ b.pair \notin DrawnPairs
  <2>1. CASE BuildCall
    <3>1. PICK n \in Nonces \ Drawn :
            built' = built \cup {[nonce |-> n, until |-> ledger + Life, pair |-> None]}
      BY <2>1 DEF BuildCall
    <3> DEFINE b == [nonce |-> n, until |-> ledger + Life, pair |-> None]
    <3>2. b.nonce \notin Drawn /\ b.pair = None
      BY <3>1
    <3> QED
      BY <3>1, <3>2
  <2>2. CASE BuildDelegated
    <3>1. PICK n \in Nonces \ Drawn, g \in GNonces \ DrawnPairs :
            built' = built \cup {[nonce |-> n, until |-> ledger + Life, pair |-> g]}
      BY <2>2 DEF BuildDelegated
    <3> DEFINE b == [nonce |-> n, until |-> ledger + Life, pair |-> g]
    <3>2. b.nonce \notin Drawn /\ b.pair \notin DrawnPairs
      BY <3>1
    <3> QED
      BY <3>1, <3>2
  <2> QED
    BY <2>1, <2>2
<1>2. \A d \in built : d.nonce # b.nonce /\ ~(d.pair = b.pair /\ d.pair # None)
  BY <1>1 DEF Drawn, DrawnPairs
<1>3. signatures' = signatures
  BY DEF BuildCall, BuildDelegated
<1>4. \A d, e \in built' : d.nonce = e.nonce \/ (d.pair = e.pair /\ d.pair # None) => d = e
  BY <1>1, <1>2 DEF SignedInv
<1>5. \A signature \in signatures' :
        \E d \in built' : signature.digest = DigestOf(EntryOf(d), 0) /\ signature.pair = d.pair
  BY <1>1, <1>3 DEF SignedInv
<1> QED
  BY <1>4, <1>5 DEF SignedInv

LEMMA SignedStep ==
  ASSUME SignedInv, [Next]_vars
  PROVE  SignedInv'
<1>1. ASSUME NEW s \in Signers, NEW b \in built, Sign(s, b)
      PROVE  SignedInv'
  <2>1. built' = built
    BY <1>1 DEF Sign
  <2>2. \A signature \in signatures' :
          \/ signature \in signatures
          \/ signature.digest = DigestOf(EntryOf(b), 0) /\ signature.pair = b.pair
    BY <1>1 DEF Sign, SignedRule
  <2> QED
    BY <2>1, <2>2 DEF SignedInv
<1>2. CASE UNCHANGED <<built, signatures>>
  BY <1>2 DEF SignedInv
<1> QED
  BY <1>1, <1>2, SignedAfterBuild
  DEF Next, vars, Post, Simulate, SendCall, Fail, SendDirectly, Execute, Drop, AddRule,
      RemoveRule, AddSigner, RemoveSigner, UpdateValidUntil, Change, CloseLedger

LEMMA PostedStep ==
  ASSUME TypeOK, [Next]_vars, NEW h \in Handlers, PostedInv(h)
  PROVE  PostedInv(h)'
<1>1. ASSUME NEW b \in built, NEW pair \in DrawnPairs \cup {None},
             NEW signature \in signatures, NEW key \in Signers, NEW rule \in RuleIds,
             Post(h, b, pair, signature, key, rule)
      PROVE  PostedInv(h)'
  <2>1. handler'[h].call = [entry |-> EntryOf(b), rule |-> rule, key |-> key, form |-> "raw",
                            signature |-> signature, pair |-> pair]
    BY <1>1 DEF Post, TypeOK
  <2>2. (Kind[key] = "freighter" <=> pair # None) /\ built' = built /\ signatures' = signatures
    BY <1>1 DEF Post
  <2> QED
    BY <2>1, <2>2 DEF PostedInv
<1>2. CASE ~Busy(h)'
  BY <1>2 DEF PostedInv
<1>3. CASE Busy(h) /\ handler'[h].call = handler[h].call
  BY <1>3, BuiltStay, SignaturesStay DEF PostedInv
<1>4. ASSUME NEW g \in Handlers, Simulate(g) \/ SendCall(g) \/ Fail(g)
      PROVE  \/ ~Busy(h)'
             \/ Busy(h) /\ handler'[h].call = handler[h].call
  <2>1. Busy(g) /\ handler[g] \in Running
    BY <1>4, BusyIsRunning DEF Simulate, SendCall, Fail, Busy
  <2>2. h # g => handler'[h] = handler[h]
    BY <1>4 DEF Simulate, SendCall, Fail, TypeOK
  <2>3. handler'[g] = Idle \/ handler'[g].call = handler[g].call
    BY <1>4, <2>1 DEF Simulate, SendCall, Fail, TypeOK, Running
  <2> QED
    BY <2>1, <2>2, <2>3 DEF Busy, Idle
<1>5. ASSUME NEW g \in Handlers, NEW b \in built, NEW pair \in DrawnPairs \cup {None},
             NEW signature \in signatures, NEW key \in Signers, NEW rule \in RuleIds,
             Post(g, b, pair, signature, key, rule), g # h
      PROVE  handler'[h] = handler[h]
  BY <1>5 DEF Post, TypeOK
<1>6. CASE handler'[h] = handler[h]
  BY <1>2, <1>3, <1>6 DEF Busy
<1> QED
  BY <1>1, <1>2, <1>3, <1>4, <1>5, <1>6
  DEF Next, vars, BuildCall, BuildDelegated, Sign, SendDirectly, Execute, Drop, AddRule,
      RemoveRule, AddSigner, RemoveSigner, UpdateValidUntil, Change, CloseLedger

\* A second nonce that is spent was spent with the first one of its build.
LEMMA PairSpentWithNonce ==
  ASSUME SignedInv, ExecutedInv, NEW c, c.signature \in signatures,
         c.signature.digest.nonce = c.entry.nonce, c.signature.pair = c.pair, c.pair # None,
         c.pair \in UsedPairs
  PROVE  c.entry.nonce \in Used
<1>1. PICK d \in executed : d.pair = c.pair
  BY DEF UsedPairs
<1>2. PICK b \in built : c.signature.digest = DigestOf(EntryOf(b), 0) /\ c.pair = b.pair
  BY DEF SignedInv
<1>3. d.signature \in signatures /\ d.signature.digest = DigestOf(d.entry, d.rule)
      /\ d.signature.pair = c.pair
  BY <1>1 DEF ExecutedInv
<1>4. PICK e \in built : d.signature.digest = DigestOf(EntryOf(e), 0) /\ c.pair = e.pair
  BY <1>3 DEF SignedInv
<1>5. e = b
  <2>1. e.pair = b.pair /\ e.pair # None
    BY <1>2, <1>4
  <2>2. \A x, y \in built : x.pair = y.pair /\ x.pair # None => x = y
    BY DEF SignedInv
  <2> QED
    BY <2>1, <2>2
<1>6. d.entry.nonce = c.entry.nonce
  <2>1. \A e1, rule : DigestOf(e1, rule).nonce = e1.nonce
    BY DEF DigestOf
  <2>2. c.signature.digest = d.signature.digest
    BY <1>2, <1>4, <1>5
  <2> QED
    BY <1>3, <2>1, <2>2
<1> QED
  BY <1>6 DEF Used

\* What an honest body signs is the digest of its entry for rule 0, so only the
\* ledger and the account decide.
LEMMA HonestIsAuthorised ==
  ASSUME TypeOK, HonestInv, ExecutedInv, NEW h \in Handlers, Busy(h), Honest(handler[h].call)
  PROVE  Authorised(handler[h].call) <=> Standing(handler[h].call)
<1> DEFINE c == handler[h].call
<1>1. c \in Call /\ c.signature \in signatures /\ c.form = "raw"
      /\ (Kind[c.key] = "freighter" <=> c.pair # None)
  BY BusyIsRunning DEF Running, HonestInv, PostedInv
<1>2. PICK b \in built : c.entry = EntryOf(b)
  BY DEF HonestInv, PostedInv
<1>3. PICK d \in built : c.signature.digest = DigestOf(EntryOf(d), 0)
  BY DEF HonestInv, PostedInv, SignedInv
<1>4. d.nonce = b.nonce
  BY <1>2, <1>3 DEF Honest, DigestOf, EntryOf
<1>5. c.signature.digest = DigestOf(c.entry, c.rule)
  BY <1>2, <1>3, <1>4 DEF Honest, HonestInv, SignedInv
<1>6. Kind[c.key] \in Kinds /\ verifier \in {"raw", "struct"}
  BY <1>1, KindAssumption DEF Call, TypeOK
<1>7. CASE Kind[c.key] = "phantom"
  <2>1. Verifies(c) <=> verifier = "raw"
    BY <1>1, <1>5, <1>6, <1>7 DEF Honest, Verifies, RawVerifies, Ed25519Verifies
  <2> QED
    BY <1>7, <2>1 DEF Authorised, Standing, Honest
<1>8. CASE Kind[c.key] = "passkey"
  <2>1. Verifies(c)
    BY <1>1, <1>5, <1>8 DEF Honest, Verifies, RawVerifies
  <2> QED
    BY <1>8, <2>1 DEF Authorised, Standing, Honest
<1>9. CASE Kind[c.key] = "freighter"
  <2>1. Verifies(c) <=> c.pair \notin UsedPairs
    BY <1>1, <1>5, <1>9 DEF Honest, Verifies, DelegateVerifies
  <2>2. c.pair \in UsedPairs => c.entry.nonce \in Used
    BY <1>1, <1>9, PairSpentWithNonce DEF HonestInv, Honest
  <2> QED
    BY <1>9, <2>1, <2>2 DEF Authorised, Standing, Honest
<1> QED
  BY <1>6, <1>7, <1>8, <1>9 DEF Kinds

(* For any keys, nonces and requests, and however the rules change: the    *)
(* enforcing simulation lets an honest call pass exactly while it stands,  *)
(* as build 242 and submit 101 name the same rule and the two nonces of a  *)
(* delegated build are spent together.                                     *)
THEOREM HonestCallsPass == Spec => HonestCallAuthorised
<1>1. Init => HonestInv /\ MadeInv /\ ExecutedInv
  <2> SUFFICES ASSUME Init
               PROVE  HonestInv /\ MadeInv /\ ExecutedInv
    OBVIOUS
  <2>1. \A h \in Handlers : ~Busy(h)
    BY DEF Init, Busy, Idle
  <2> QED
    BY <2>1 DEF Init, HonestInv, SignedInv, PostedInv, MadeInv, ExecutedInv
<1>2. TypeOK /\ HonestInv /\ MadeInv /\ ExecutedInv /\ [Next]_vars
        => HonestInv' /\ MadeInv' /\ ExecutedInv'
  BY SignedStep, PostedStep, MadeStep, ExecutedStep DEF HonestInv
<1>3. TypeOK /\ HonestInv /\ ExecutedInv /\ [Next]_vars
        => [\A h \in Handlers :
              Simulate(h) /\ Honest(handler[h].call)
                => (handler'[h].pc = "send" <=> Standing(handler[h].call))]_vars
  <2> SUFFICES ASSUME TypeOK, HonestInv, ExecutedInv, NEW h \in Handlers, Simulate(h),
                      Honest(handler[h].call)
               PROVE  handler'[h].pc = "send" <=> Standing(handler[h].call)
    OBVIOUS
  <2>1. Busy(h) /\ handler[h] \in Running
    BY BusyIsRunning DEF Simulate, Busy
  <2>2. Authorised(handler[h].call) <=> Standing(handler[h].call)
    BY <2>1, HonestIsAuthorised
  <2>3. handler' = IF Authorised(handler[h].call) THEN [handler EXCEPT ![h].pc = "send"]
                   ELSE [handler EXCEPT ![h] = Idle]
    BY DEF Simulate
  <2>4. CASE Authorised(handler[h].call)
    BY <2>1, <2>2, <2>3, <2>4 DEF TypeOK, Running
  <2>5. CASE ~Authorised(handler[h].call)
    <3>1. handler'[h] = Idle
      BY <2>3, <2>5 DEF TypeOK
    <3> QED
      BY <2>2, <2>5, <3>1 DEF Idle
  <2> QED
    BY <2>4, <2>5
<1> QED
  BY <1>1, <1>2, <1>3, InitTyped, NextTyped, PTL DEF Spec, HonestCallAuthorised

=============================================================================
