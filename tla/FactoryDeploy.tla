----------------------------- MODULE FactoryDeploy -----------------------------
(***************************************************************************)
(* The smart account deployment routes: POST requests that create a        *)
(* contract on the ledger with a transaction of the one bundler account,   *)
(* and GET requests that look a contract up.  Every server process keeps   *)
(* an in-memory cache of the accounts it takes to be deployed.             *)
(*                                                                         *)
(* A handler reads the bundler's sequence number, simulates, sends and     *)
(* polls, each an await during which other handlers, in this process or    *)
(* another, do the same with the same bundler account; the calls of the    *)
(* counter (TxSubmit) take numbers of that account too.                    *)
(***************************************************************************)
EXTENDS Naturals

CONSTANTS
  Accounts,   \* smart accounts, each at the address its signer determines
  Route,      \* the route that deploys the account
  Instances,  \* server processes
  Handlers,   \* POST requests in flight at once
  MaxOthers,  \* bound on the sequence numbers that counter calls take
  MaxFaults   \* bound on thrown awaits, process restarts and failed transactions

Routes == {"webauthn", "freighter", "factory", "legacy"}

ASSUME RouteAssumption == Route \in [Accounts -> Routes]
ASSUME FaultsAssumption == MaxFaults \in Nat

VARIABLES
  deployed,  \* accounts whose contract is on the ledger
  sequence,  \* the bundler account's sequence number on the ledger
  mempool,   \* the bundler's transaction waiting for a ledger, at most one
  results,   \* what getTransaction knows of applied transactions
  cache,     \* per process: accounts taken to be deployed
  told,      \* history: accounts some reply has called deployed
  handler,   \* POST requests in flight
  faults     \* faults so far

ledger == <<deployed, sequence, mempool, results>>
vars == <<ledger, cache, told, handler, faults>>

-----------------------------------------------------------------------------
Transaction == [account : Accounts, sequence : Nat, by : Handlers]

Result == [tx : Transaction, status : {"SUCCESS", "FAILED"}]

Idle == [pc |-> "idle"]

Running == [pc : {"check", "sequence", "simulate", "send", "poll"},
            instance : Instances, account : Accounts, sequence : Nat]

Busy(h) == handler[h].pc # "idle"

\* The transaction a handler has built and signed.
Built(h) == [account |-> handler[h].account, sequence |-> handler[h].sequence, by |-> h]

Goto(h, pc) == handler' = [handler EXCEPT ![h].pc = pc]

\* The handler answers with status 500.
Throw(h) ==
  /\ handler' = [handler EXCEPT ![h] = Idle]
  /\ UNCHANGED <<cache, told>>

\* The handler caches the account and answers with its address.
Announce(h) ==
  /\ handler' = [handler EXCEPT ![h] = Idle]
  /\ cache' = [cache EXCEPT ![handler[h].instance] = @ \cup {handler[h].account}]
  /\ told' = told \cup {handler[h].account}

-----------------------------------------------------------------------------
Init ==
  /\ deployed = {}
  /\ sequence = 0
  /\ mempool = {}
  /\ results = {}
  /\ cache = [i \in Instances |-> {}]
  /\ told = {}
  /\ handler = [h \in Handlers |-> Idle]
  /\ faults = 0

-----------------------------------------------------------------------------
(* A POST request reaches a process.  A cached account is answered at once *)
(* as already deployed; only the webauthn route asks the ledger first.     *)
Post(h, i, a) ==
  /\ ~Busy(h)
  /\ IF a \in cache[i]
     THEN told' = told \cup {a} /\ UNCHANGED handler
     ELSE /\ handler' = [handler EXCEPT ![h] =
               [pc |-> IF Route[a] = "webauthn" THEN "check" ELSE "sequence",
                instance |-> i, account |-> a, sequence |-> 0]]
          /\ UNCHANGED told
  /\ UNCHANGED <<ledger, cache, faults>>

\* isSorobanContractDeployed, before anything is built.
Check(h) ==
  /\ handler[h].pc = "check"
  /\ IF handler[h].account \in deployed
     THEN Announce(h)
     ELSE Goto(h, "sequence") /\ UNCHANGED <<cache, told>>
  /\ UNCHANGED <<ledger, faults>>

\* Variant: a transaction that waits is counted as taken.
GetSequence_CountWaiting(h) ==
  /\ handler[h].pc = "sequence"
  /\ handler' = [handler EXCEPT ![h].pc = "simulate",
                    ![h].sequence = IF mempool = {} THEN sequence + 1 ELSE sequence + 2]
  /\ UNCHANGED <<ledger, cache, told, faults>>

\* getAccount of the bundler; the builder takes the next number.
GetSequence(h) ==
  /\ handler[h].pc = "sequence"
  /\ handler' = [handler EXCEPT ![h].pc = "simulate", ![h].sequence = sequence + 1]
  /\ UNCHANGED <<ledger, cache, told, faults>>

(* The simulation fails when the contract is there already.  The legacy    *)
(* route takes that error for success, the others throw.                   *)
Simulate(h) ==
  /\ handler[h].pc = "simulate"
  /\ IF handler[h].account \notin deployed
     THEN Goto(h, "send") /\ UNCHANGED <<cache, told>>
     ELSE IF Route[handler[h].account] = "legacy" THEN Announce(h) ELSE Throw(h)
  /\ UNCHANGED <<ledger, faults>>

\* Variant: the sequence number is read when the transaction is sent.
Accept_LateSequence(h) ==
  /\ handler[h].pc = "send"
  /\ mempool = {}
  /\ handler' = [handler EXCEPT ![h].pc = "poll", ![h].sequence = sequence + 1]
  /\ mempool' = {[account |-> handler[h].account, sequence |-> sequence + 1, by |-> h]}
  /\ UNCHANGED <<deployed, sequence, results, cache, told, faults>>

\* sendTransaction answers PENDING.
Accept(h) ==
  /\ handler[h].pc = "send"
  /\ handler[h].sequence = sequence + 1
  /\ mempool = {}
  /\ mempool' = {Built(h)}
  /\ Goto(h, "poll")
  /\ UNCHANGED <<deployed, sequence, results, cache, told, faults>>

(* sendTransaction answers ERROR for a used sequence number, and the       *)
(* handler throws; it answers TRY_AGAIN_LATER when it is busy or another   *)
(* transaction of the bundler is waiting, and the handler polls all the    *)
(* same for a transaction that nobody holds.                               *)
Refuse(h) ==
  /\ handler[h].pc = "send"
  /\ IF handler[h].sequence # sequence + 1
     THEN Throw(h)
     ELSE Goto(h, "poll") /\ UNCHANGED <<cache, told>>
  /\ UNCHANGED <<ledger, faults>>

\* getTransaction knows the handler's transaction.
Settled(h) == {r \in results : r.tx = Built(h)}

(* The poll finds the transaction.  A failed one is an error except on the *)
(* legacy route, which supposes that the contract exists.                  *)
Poll(h) ==
  /\ handler[h].pc = "poll"
  /\ \E r \in Settled(h) :
       IF r.status = "SUCCESS" \/ Route[handler[h].account] = "legacy"
       THEN Announce(h)
       ELSE Throw(h)
  /\ UNCHANGED <<ledger, faults>>

\* Variant: every route takes the predicted address after thirty misses.
GiveUp_Optimistic(h) ==
  /\ handler[h].pc = "poll"
  /\ Settled(h) = {}
  /\ Announce(h)
  /\ UNCHANGED <<ledger, faults>>

\* Variant: no bound on the misses.
GiveUp_Unbounded(h) ==
  /\ handler[h].pc = "poll"
  /\ Settled(h) = {}
  /\ UNCHANGED vars

(* Thirty polls found nothing.  The webauthn helper and the freighter      *)
(* route leave the loop and answer with the predicted address; the factory *)
(* and legacy routes throw.                                                *)
GiveUp(h) ==
  /\ handler[h].pc = "poll"
  /\ Settled(h) = {}
  /\ IF Route[handler[h].account] \in {"webauthn", "freighter"}
     THEN Announce(h)
     ELSE Throw(h)
  /\ UNCHANGED <<ledger, faults>>

-----------------------------------------------------------------------------
(* A GET request: the cache's word, or the ledger's, which is then cached. *)
LookUp(i, a) ==
  /\ Route[a] # "legacy"
  /\ a \in cache[i] \cup deployed
  /\ cache' = [cache EXCEPT ![i] = @ \cup {a}]
  /\ told' = told \cup {a}
  /\ UNCHANGED <<ledger, handler, faults>>

-----------------------------------------------------------------------------
\* A ledger closes with the waiting transaction; creating a contract succeeds.
Apply ==
  \E tx \in mempool :
    /\ tx.account \notin deployed
    /\ deployed' = deployed \cup {tx.account}
    /\ sequence' = tx.sequence
    /\ mempool' = {}
    /\ results' = results \cup {[tx |-> tx, status |-> "SUCCESS"]}
    /\ UNCHANGED <<cache, told, handler, faults>>

(* It fails: the contract exists, or fees, limits or the state archive are *)
(* against it.  The sequence number is used all the same.                  *)
ApplyFails ==
  \E tx \in mempool :
    /\ sequence' = tx.sequence
    /\ mempool' = {}
    /\ results' = results \cup {[tx |-> tx, status |-> "FAILED"]}
    /\ \/ tx.account \in deployed /\ UNCHANGED faults
       \/ faults < MaxFaults /\ faults' = faults + 1
    /\ UNCHANGED <<deployed, cache, told, handler>>

\* A submit request of the counter has a transaction of the bundler applied.
OtherTransaction ==
  /\ mempool = {}
  /\ sequence < MaxOthers
  /\ sequence' = sequence + 1
  /\ UNCHANGED <<deployed, mempool, results, cache, told, handler, faults>>

\* The time bound of 300 seconds passes before a ledger takes the transaction.
Expire ==
  /\ mempool # {}
  /\ mempool' = {}
  /\ UNCHANGED <<deployed, sequence, results, cache, told, handler, faults>>

-----------------------------------------------------------------------------
\* An await throws: Friendbot, the RPC or the network.
Fail(h) ==
  /\ Busy(h)
  /\ faults < MaxFaults
  /\ faults' = faults + 1
  /\ Throw(h)
  /\ UNCHANGED ledger

\* Variant: the cache is gone and not made anew.
Restart_NoCache(i) ==
  /\ faults < MaxFaults
  /\ faults' = faults + 1
  /\ cache' = [j \in Instances \ {i} |-> cache[j]]
  /\ handler' = [h \in Handlers |->
       IF Busy(h) /\ handler[h].instance = i THEN Idle ELSE handler[h]]
  /\ UNCHANGED <<ledger, told>>

\* A process ends, with its requests and its cache; another takes its place.
Restart(i) ==
  /\ faults < MaxFaults
  /\ faults' = faults + 1
  /\ cache' = [cache EXCEPT ![i] = {}]
  /\ handler' = [h \in Handlers |->
       IF Busy(h) /\ handler[h].instance = i THEN Idle ELSE handler[h]]
  /\ UNCHANGED <<ledger, told>>

-----------------------------------------------------------------------------
Step(h) ==
  \/ Check(h) \/ GetSequence(h) \/ Simulate(h) \/ Accept(h) \/ Refuse(h)
  \/ Poll(h) \/ GiveUp(h)

Next ==
  \/ \E h \in Handlers, i \in Instances, a \in Accounts : Post(h, i, a)
  \/ \E h \in Handlers : Step(h) \/ Fail(h)
  \/ \E i \in Instances, a \in Accounts : LookUp(i, a)
  \/ \E i \in Instances : Restart(i)
  \/ Apply \/ ApplyFails \/ OtherTransaction \/ Expire

Spec == Init /\ [][Next]_vars

\* The event loop resumes every handler; nothing makes the network take a
\* transaction, or a person ask again.
FairSpec == Spec /\ \A h \in Handlers : WF_vars(Step(h))

-----------------------------------------------------------------------------
\* The shape of every variable.
TypeOK ==
  /\ deployed \subseteq Accounts
  /\ sequence \in Nat
  /\ mempool \subseteq Transaction
  /\ results \subseteq Result
  /\ cache \in [Instances -> SUBSET Accounts]
  /\ told \subseteq Accounts
  /\ handler \in [Handlers -> Running \cup {Idle}]
  /\ faults \in Nat

(* A create transaction never meets the contract it creates: the bundler's *)
(* sequence number is read before the simulation that finds the contract   *)
(* absent, so any create transaction applied after that simulation makes   *)
(* the number stale.  Hence a FAILED status never means that the account   *)
(* exists, whatever the legacy route supposes (smart-account/route 168).   *)
CreateMeetsNoContract == \A tx \in mempool : tx.account \notin deployed

(* The factory route calls an account deployed only when it is: it caches  *)
(* on SUCCESS and on a look-up that found the contract (factory/route 117  *)
(* and 282).                                                               *)
FactoryTellsTruth == \A a \in told : Route[a] = "factory" => a \in deployed

(* The legacy route logs "already exists" for a transaction that failed    *)
(* and then calls the account deployed; it is deployed whenever it does    *)
(* (smart-account/route 169 and 185).                                      *)
LegacyTellsTruth == \A a \in told : Route[a] = "legacy" => a \in deployed

(* No reply of any route calls an account deployed that is not there       *)
(* (webauthn/route 19, smart-account/route 35).                            *)
ToldIsDeployed == told \subseteq deployed

(* A send that is refused, no await having thrown, has lost its number to  *)
(* a transaction that the ledger took: requests that overlap over the one  *)
(* bundler account never refuse each other for nothing.  The ledger takes  *)
(* one of them; nothing in the code keeps the same one from losing again   *)
(* and again (factory/route 220 and 256).                                  *)
RefusedWasOvertaken ==
  [][\A h \in Handlers :
       handler[h].pc = "send" /\ ~Busy(h)' /\ UNCHANGED faults
         => handler[h].sequence <= sequence]_vars

\* Every deployment request is answered, found or not (factory/route 261).
EveryPostEnds == \A h \in Handlers : Busy(h) ~> ~Busy(h)

=============================================================================
