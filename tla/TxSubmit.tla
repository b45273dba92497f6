------------------------------- MODULE TxSubmit -------------------------------
(***************************************************************************)
(* A call of the counter contract through a smart account: a build request *)
(* prepares a transaction of the bundler account and an authorisation, the *)
(* person signs the authorisation, and a submit request simulates, sends   *)
(* and polls for the transaction.                                          *)
(*                                                                         *)
(* The bundler's sequence number is fixed when the transaction is built,   *)
(* before the person signs, so everything that happens meanwhile, another  *)
(* build, a deployment, a ledger that closes, meets the submit request.    *)
(* A body brings the transaction and the signed entry as separate fields,  *)
(* which the routes do not compare: it may be posted more than once, with  *)
(* the transaction of another build, or with a number of the client's own. *)
(***************************************************************************)
EXTENDS Naturals

CONSTANTS
  Clients,      \* people, each with one smart account
  Path,         \* how a client signs
  Nonces,       \* authorisation nonces a simulation can draw
  Handlers,     \* submit requests in flight at once
  Fees,         \* resource fees a simulation can ask for
  Made,         \* sequence numbers a client writes into a transaction
  Life,         \* ledgers an authorisation is valid for
  CounterMax,   \* largest value of the counter, a u32
  MaxLedger,    \* bound on the ledger number
  MaxSequence,  \* bound on the bundler's other transactions
  MaxFaults     \* bound on transactions that fail for want of resources

Paths == {"phantom", "webauthn", "freighter"}

ASSUME PathAssumption == Path \in [Clients -> Paths]
ASSUME LifeAssumption == Life \in Nat /\ CounterMax \in Nat
ASSUME MadeAssumption == Made \subseteq Nat

VARIABLES
  ledger,    \* number of the latest ledger
  sequence,  \* the bundler's sequence number
  mempool,   \* the bundler's transaction waiting for a ledger, at most one
  results,   \* what getTransaction knows
  used,      \* nonces the ledger has consumed
  counter,   \* value of the counter contract
  built,     \* build replies, by nonce
  signed,    \* nonces whose authorisation a person has signed
  handler,   \* submit requests in flight
  reported,  \* history: nonces answered with status SUCCESS
  failed,    \* history: transactions answered with "Transaction failed"
  early,     \* history: transactions posted with a number past the next one
  elsewhere, \* history: nonces consumed by a transaction not of the bundler
  faults     \* transactions that failed for want of resources

chain == <<ledger, sequence, mempool, results, used, counter, elsewhere, faults>>
answers == <<reported, failed>>
vars == <<chain, built, signed, handler, early, answers>>

-----------------------------------------------------------------------------
Build == [client : Clients, sequence : Nat, until : Nat]

Unbuilt == [client |-> "none"]

Transaction == [nonce : Nonces, sequence : Nat, bound : Nat, fee : Fees]

Result == [tx : Transaction, ok : BOOLEAN]

Idle == [pc |-> "idle"]

Running == [pc : {"simulate", "send", "poll"}, nonce : Nonces, caller : Clients,
            sequence : Nat, bound : Nat, fee : Fees]

Busy(h) == handler[h].pc # "idle"

IsBuilt(n) == built[n] # Unbuilt

\* The transaction a submit request sends: the entry of the body, the number of
\* the body's transaction, its time bound or a new one, the fee of the simulation.
Sent(h) == [nonce |-> handler[h].nonce, sequence |-> handler[h].sequence,
            bound |-> handler[h].bound, fee |-> handler[h].fee]

Goto(h, pc) == handler' = [handler EXCEPT ![h].pc = pc]

\* The handler answers, with whatever status.
Leave(h) == handler' = [handler EXCEPT ![h] = Idle]

\* Other people's calls may have left the counter at any value.
Init ==
  /\ ledger = 0
  /\ sequence = 0
  /\ mempool = {}
  /\ results = {}
  /\ used = {}
  /\ counter \in 0..CounterMax
  /\ built = [n \in Nonces |-> Unbuilt]
  /\ signed = {}
  /\ handler = [h \in Handlers |-> Idle]
  /\ reported = {}
  /\ failed = {}
  /\ early = {}
  /\ elsewhere = {}
  /\ faults = 0

-----------------------------------------------------------------------------
\* Variant: the authorisation is not given its expiry.
Prepare_NoExpiry(c) ==
  /\ counter < CounterMax
  /\ \E n \in Nonces :
       /\ ~IsBuilt(n)
       /\ built' = [built EXCEPT ![n] = [client |-> c, sequence |-> sequence + 1]]
  /\ UNCHANGED <<chain, signed, handler, early, answers>>

(* A build request: getAccount gives the bundler's number, the recording   *)
(* simulation a nonce and the latest ledger, sixty ledgers after which the *)
(* authorisation expires.  The simulation runs increment, so it fails when *)
(* the counter is at its maximum.                                          *)
Prepare(c) ==
  /\ counter < CounterMax
  /\ \E n \in Nonces :
       /\ ~IsBuilt(n)
       /\ built' = [built EXCEPT ![n] =
            [client |-> c, sequence |-> sequence + 1, until |-> ledger + Life]]
  /\ UNCHANGED <<chain, signed, handler, early, answers>>

\* The wallet or the authenticator signs the digest of the authorisation.
Sign(n) ==
  /\ IsBuilt(n)
  /\ signed' = signed \cup {n}
  /\ UNCHANGED <<chain, built, handler, early, answers>>

(* A submit request: the body's transaction, of some build m or with a     *)
(* number the client has written into it, is rebuilt around the signed     *)
(* entry n.  submit and submit-delegated clone it with its time bound,     *)
(* submit-webauthn sets a new one; all three keep the sequence number.     *)
Submit(h, n, m) ==
  /\ ~Busy(h)
  /\ n \in signed
  /\ IsBuilt(m)
  /\ \E s \in {built[m].sequence} \cup Made, fee \in Fees :
       handler' = [handler EXCEPT ![h] =
         [pc |-> "simulate", nonce |-> n, caller |-> built[m].client, sequence |-> s,
          bound |-> IF Path[built[n].client] = "webauthn" THEN ledger + Life
                    ELSE built[m].until,
          fee |-> fee]]
  /\ early' = early \cup {tx \in {Sent(h)'} : tx.sequence > sequence + 1}
  /\ UNCHANGED <<chain, built, signed, answers>>

\* What the contracts check: require_auth consumes a nonce once and before its
\* expiry, and the addition in increment does not overflow.
Authorised(n) == n \notin used /\ ledger <= built[n].until /\ counter < CounterMax

(* The enforcing simulation runs the call with the entry's signature, which *)
(* the account of the call must have given; a failure is answered with     *)
(* status 400.  It does not look at the sequence number.                   *)
Simulate(h) ==
  /\ handler[h].pc = "simulate"
  /\ IF Authorised(handler[h].nonce) /\ handler[h].caller = built[handler[h].nonce].client
     THEN Goto(h, "send")
     ELSE Leave(h)
  /\ UNCHANGED <<chain, built, signed, early, answers>>

\* Variant: the transaction is rebuilt with the bundler's current number.
Accept_FreshSequence(h) ==
  /\ handler[h].pc = "send"
  /\ ledger <= handler[h].bound
  /\ mempool = {}
  /\ mempool' = {[Sent(h) EXCEPT !.sequence = sequence + 1]}
  /\ Goto(h, "poll")
  /\ UNCHANGED <<ledger, sequence, results, used, counter, elsewhere, faults, built, signed,
                 early, answers>>

\* sendTransaction answers PENDING, or DUPLICATE for one it holds already.
Accept(h) ==
  /\ handler[h].pc = "send"
  /\ Sent(h).sequence = sequence + 1
  /\ ledger <= handler[h].bound
  /\ mempool \subseteq {Sent(h)}
  /\ mempool' = {Sent(h)}
  /\ Goto(h, "poll")
  /\ UNCHANGED <<ledger, sequence, results, used, counter, elsewhere, faults, built, signed,
                 early, answers>>

(* sendTransaction answers ERROR for a used number or a time bound that    *)
(* has passed, and the handler throws; it answers TRY_AGAIN_LATER when it  *)
(* is busy or another transaction of the bundler is waiting, and the       *)
(* handler polls all the same.                                             *)
Refuse(h) ==
  /\ handler[h].pc = "send"
  /\ IF Sent(h).sequence # sequence + 1 \/ ledger > handler[h].bound
     THEN Leave(h)
     ELSE Goto(h, "poll")
  /\ UNCHANGED <<chain, built, signed, early, answers>>

Settled(h) == {r \in results : r.tx = Sent(h)}

Succeeds(h) ==
  /\ Leave(h)
  /\ reported' = reported \cup {handler[h].nonce}
  /\ UNCHANGED <<chain, built, signed, early, failed>>

Fails(h) ==
  /\ Leave(h)
  /\ failed' = failed \cup {Sent(h)}
  /\ UNCHANGED <<chain, built, signed, early, reported>>

\* Variant: any answer but NOT_FOUND is taken for success.
Poll_AnyStatus(h) ==
  /\ handler[h].pc = "poll"
  /\ Settled(h) # {}
  /\ Succeeds(h)

\* getTransaction knows the transaction: only SUCCESS is answered with 200.
Poll(h) ==
  /\ handler[h].pc = "poll"
  /\ \E r \in Settled(h) : IF r.ok THEN Succeeds(h) ELSE Fails(h)

\* Thirty polls found nothing: "Transaction failed: NOT_FOUND".
GiveUp(h) ==
  /\ handler[h].pc = "poll"
  /\ Settled(h) = {}
  /\ Fails(h)

\* An await throws, or the process ends.
Fail(h) ==
  /\ Busy(h)
  /\ Leave(h)
  /\ UNCHANGED <<chain, built, signed, early, answers>>

-----------------------------------------------------------------------------
\* A ledger closes with the waiting transaction, which calls increment.
Apply ==
  \E tx \in mempool :
    /\ Authorised(tx.nonce)
    /\ used' = used \cup {tx.nonce}
    /\ counter' = counter + 1
    /\ sequence' = tx.sequence
    /\ mempool' = {}
    /\ results' = results \cup {[tx |-> tx, ok |-> TRUE]}
    /\ UNCHANGED <<ledger, elsewhere, faults, built, signed, handler, early, answers>>

(* The call fails there, for its authorisation, the counter or resources;  *)
(* the sequence number is used and the fee is paid.  A time bound counts   *)
(* seconds and may outlast an authorisation, which counts ledgers.         *)
ApplyFails ==
  \E tx \in mempool :
    /\ IF Authorised(tx.nonce)
       THEN faults < MaxFaults /\ faults' = faults + 1
       ELSE UNCHANGED faults
    /\ sequence' = tx.sequence
    /\ mempool' = {}
    /\ results' = results \cup {[tx |-> tx, ok |-> FALSE]}
    /\ UNCHANGED <<ledger, used, counter, elsewhere, built, signed, handler, early, answers>>

\* A client has its signed call executed by an account other than the bundler's.
SendDirectly(n) ==
  /\ n \in signed
  /\ Authorised(n)
  /\ used' = used \cup {n}
  /\ counter' = counter + 1
  /\ elsewhere' = elsewhere \cup {n}
  /\ UNCHANGED <<ledger, sequence, mempool, results, faults, built, signed, handler, early,
                 answers>>

\* The network loses the waiting transaction, or its time bound passes.
Drop ==
  /\ mempool # {}
  /\ mempool' = {}
  /\ UNCHANGED <<ledger, sequence, results, used, counter, elsewhere, faults, built,
                 signed, handler, early, answers>>

\* Another request has a transaction of the bundler applied: a deployment.
OtherTransaction ==
  /\ mempool = {}
  /\ sequence < MaxSequence
  /\ sequence' = sequence + 1
  /\ UNCHANGED <<ledger, mempool, results, used, counter, elsewhere, faults, built,
                 signed, handler, early, answers>>

CloseLedger ==
  /\ ledger < MaxLedger
  /\ ledger' = ledger + 1
  /\ UNCHANGED <<sequence, mempool, results, used, counter, elsewhere, faults, built,
                 signed, handler, early, answers>>

-----------------------------------------------------------------------------
Step(h) == Simulate(h) \/ Accept(h) \/ Refuse(h) \/ Poll(h) \/ GiveUp(h)

Next ==
  \/ \E c \in Clients : Prepare(c)
  \/ \E n \in Nonces : Sign(n) \/ SendDirectly(n)
  \/ \E h \in Handlers, n, m \in Nonces : Submit(h, n, m)
  \/ \E h \in Handlers : Step(h) \/ Fail(h)
  \/ Apply \/ ApplyFails \/ Drop \/ OtherTransaction \/ CloseLedger

Spec == Init /\ [][Next]_vars

-----------------------------------------------------------------------------
\* The shape of every variable.
TypeOK ==
  /\ ledger \in Nat
  /\ sequence \in Nat
  /\ mempool \subseteq Transaction
  /\ results \subseteq Result
  /\ used \subseteq Nonces
  /\ counter \in Nat
  /\ built \in [Nonces -> Build \cup {Unbuilt}]
  /\ signed \subseteq Nonces
  /\ handler \in [Handlers -> Running \cup {Idle}]
  /\ reported \subseteq Nonces
  /\ failed \subseteq Transaction
  /\ early \subseteq Transaction
  /\ elsewhere \subseteq Nonces
  /\ faults \in Nat

(* Bodies that are posted again, at once or with the transaction of        *)
(* another build, never make the bundler pay for a call that it has made   *)
(* already: the number is fixed before the simulation, and the transaction *)
(* that consumes the nonce uses up every number a build had given by then. *)
(* So a transaction that waits has a nonce the ledger has not seen, unless *)
(* the client has raised its number or has spent the authorisation outside *)
(* the bundler (submit 180, submit-webauthn 108, submit-delegated 81).     *)
NothingSentTwice == \A tx \in mempool \ early : tx.nonce \in used => tx.nonce \in elsewhere

(* "Transaction failed" means that the transaction is not executed, now or *)
(* later (submit 415, submit-webauthn 159, submit-delegated 126).          *)
FailedIsNotExecuted == \A tx \in failed : [tx |-> tx, ok |-> TRUE] \notin results

-----------------------------------------------------------------------------
(* What the person may rely on: what was signed, and nothing else, is      *)
(* executed, once, and what is reported was executed.                      *)
Book == INSTANCE CallBook WITH executed <- used

\* The routes and the contracts implement it.
ImplementsCallBook == Book!Spec

=============================================================================
