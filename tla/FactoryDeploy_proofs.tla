------------------------- MODULE FactoryDeploy_proofs -------------------------
(***************************************************************************)
(* Proofs about FactoryDeploy, for every number of accounts on the four    *)
(* routes, server processes and overlapping requests.                      *)
(***************************************************************************)
EXTENDS FactoryDeploy, TLAPS

-----------------------------------------------------------------------------
(* The waiting transaction bears the next number, and creates a contract   *)
(* that is not there.                                                      *)
MempoolInv ==
  \A tx \in mempool : tx.sequence = sequence + 1 /\ tx.account \notin deployed

\* A request whose simulation found no contract, if its number is still the next.
Fresh(h) == handler[h].sequence = sequence + 1 => handler[h].account \notin deployed

\* No request has a number beyond the next; one that may send is fresh.
HandlerInv ==
  \A h \in Handlers :
    /\ handler[h].pc \in {"simulate", "send"} => handler[h].sequence <= sequence + 1
    /\ handler[h].pc = "send" => Fresh(h)

\* getTransaction says SUCCESS only of a contract that is there.
ResultsInv == \A r \in results : r.status = "SUCCESS" => r.tx.account \in deployed

\* The caches tell the truth about accounts of the factory route.
CacheInv == \A i \in Instances : \A a \in cache[i] : Route[a] = "factory" => a \in deployed

IInv == TypeOK /\ MempoolInv /\ HandlerInv /\ ResultsInv /\ CacheInv /\ FactoryTellsTruth

-----------------------------------------------------------------------------
\* A request in flight has all the fields of a running one.
LEMMA BusyIsRunning ==
  ASSUME TypeOK, NEW h \in Handlers, Busy(h)
  PROVE  /\ handler[h] \in Running
         /\ handler[h].instance \in Instances
         /\ handler[h].account \in Accounts
         /\ handler[h].sequence \in Nat
BY DEF TypeOK, Busy, Idle, Running

\* Moving a request to another step keeps what it carries, and moves no other.
LEMMA GotoMoves ==
  ASSUME TypeOK, NEW h \in Handlers, Busy(h),
         NEW p \in {"check", "sequence", "simulate", "send", "poll"}, Goto(h, p)
  PROVE  /\ handler' \in [Handlers -> Running \cup {Idle}]
         /\ handler'[h].pc = p
         /\ handler'[h].account = handler[h].account
         /\ handler'[h].sequence = handler[h].sequence
         /\ \A g \in Handlers \ {h} : handler'[g] = handler[g]
<1>1. handler[h] \in Running
  BY BusyIsRunning
<1>2. /\ [handler[h] EXCEPT !.pc = p] \in Running
      /\ [handler[h] EXCEPT !.pc = p].pc = p
      /\ [handler[h] EXCEPT !.pc = p].account = handler[h].account
      /\ [handler[h] EXCEPT !.pc = p].sequence = handler[h].sequence
  BY <1>1 DEF Running
<1>3. handler' = [handler EXCEPT ![h] = [handler[h] EXCEPT !.pc = p]]
  BY DEF Goto
<1> QED
  BY <1>2, <1>3 DEF TypeOK

-----------------------------------------------------------------------------
\* The empty ledger satisfies the invariant.
LEMMA InitInv == Init => IInv
BY DEF Init, IInv, TypeOK, MempoolInv, HandlerInv, ResultsInv, CacheInv, FactoryTellsTruth, Idle

(* A step in which no contract, transaction or number changes: the request *)
(* that moves must be fit to be where it goes, and the caches and the      *)
(* replies must stay true.                                                 *)
LEMMA RequestInv ==
  ASSUME IInv, UNCHANGED ledger, faults' \in Nat,
         handler' \in [Handlers -> Running \cup {Idle}],
         \A h \in Handlers :
           \/ handler'[h] = handler[h]
           \/ handler'[h].pc \notin {"simulate", "send"}
           \/ /\ handler'[h].sequence <= sequence + 1
              /\ handler'[h].pc = "send" => handler'[h].account \notin deployed,
         cache' \in [Instances -> SUBSET Accounts], told' \subseteq Accounts,
         \A i \in Instances : \A a \in cache'[i] :
           a \in cache[i] \/ (Route[a] = "factory" => a \in deployed),
         \A a \in told' : a \in told \/ (Route[a] = "factory" => a \in deployed)
  PROVE  IInv'
<1>1. UNCHANGED <<deployed, sequence, mempool, results>>
  BY DEF ledger
<1>2. TypeOK'
  BY <1>1 DEF IInv, TypeOK
<1>3. HandlerInv'
  BY <1>1 DEF IInv, HandlerInv, Fresh
<1>4. CacheInv' /\ FactoryTellsTruth'
  BY <1>1 DEF IInv, CacheInv, FactoryTellsTruth
<1> QED
  BY <1>1, <1>2, <1>3, <1>4 DEF IInv, MempoolInv, ResultsInv

\* A request that is answered with status 500 leaves everything else.
LEMMA ThrowInv ==
  ASSUME IInv, NEW h \in Handlers, Throw(h), UNCHANGED ledger, faults' \in Nat
  PROVE  IInv'
<1>1. /\ handler' = [handler EXCEPT ![h] = Idle]
      /\ UNCHANGED <<cache, told>>
  BY DEF Throw
<1>2. /\ handler' \in [Handlers -> Running \cup {Idle}]
      /\ \A g \in Handlers : handler'[g] = handler[g] \/ handler'[g].pc \notin {"simulate", "send"}
  BY <1>1 DEF IInv, TypeOK, Idle
<1>3. cache' \in [Instances -> SUBSET Accounts] /\ told' \subseteq Accounts
  BY <1>1 DEF IInv, TypeOK
<1> QED
  BY <1>1, <1>2, <1>3, RequestInv

\* An account may be announced if it is deployed, or not of the factory route.
LEMMA AnnounceInv ==
  ASSUME IInv, NEW h \in Handlers, Busy(h), Announce(h), UNCHANGED ledger, faults' \in Nat,
         Route[handler[h].account] = "factory" => handler[h].account \in deployed
  PROVE  IInv'
<1>1. /\ handler' = [handler EXCEPT ![h] = Idle]
      /\ cache' = [cache EXCEPT ![handler[h].instance] = @ \cup {handler[h].account}]
      /\ told' = told \cup {handler[h].account}
  BY DEF Announce
<1>2. handler[h].account \in Accounts /\ handler[h].instance \in Instances
  BY BusyIsRunning DEF IInv
<1>3. /\ handler' \in [Handlers -> Running \cup {Idle}]
      /\ \A g \in Handlers : handler'[g] = handler[g] \/ handler'[g].pc \notin {"simulate", "send"}
  BY <1>1 DEF IInv, TypeOK, Idle
<1>4. /\ cache' \in [Instances -> SUBSET Accounts]
      /\ \A i \in Instances : cache'[i] \subseteq cache[i] \cup {handler[h].account}
  BY <1>1, <1>2 DEF IInv, TypeOK
<1>5. told' \subseteq Accounts
  BY <1>1, <1>2 DEF IInv, TypeOK
<1> QED
  BY <1>1, <1>3, <1>4, <1>5, RequestInv

\* A request that moves to another step, fit for it, keeps the invariant.
LEMMA GotoInv ==
  ASSUME IInv, NEW h \in Handlers, Busy(h), NEW p \in {"sequence", "send", "poll"}, Goto(h, p),
         UNCHANGED <<cache, told, faults>>, UNCHANGED ledger,
         p = "send" => /\ handler[h].sequence <= sequence + 1
                       /\ handler[h].account \notin deployed
  PROVE  IInv'
<1>1. /\ handler' \in [Handlers -> Running \cup {Idle}]
      /\ handler'[h].pc = p
      /\ handler'[h].account = handler[h].account
      /\ handler'[h].sequence = handler[h].sequence
      /\ \A g \in Handlers \ {h} : handler'[g] = handler[g]
  BY GotoMoves DEF IInv
<1>2. \A g \in Handlers :
        \/ handler'[g] = handler[g]
        \/ handler'[g].pc \notin {"simulate", "send"}
        \/ /\ handler'[g].sequence <= sequence + 1
           /\ handler'[g].pc = "send" => handler'[g].account \notin deployed
  BY <1>1
<1>3. cache' \in [Instances -> SUBSET Accounts] /\ told' \subseteq Accounts /\ faults' \in Nat
  BY DEF IInv, TypeOK
<1> QED
  BY <1>1, <1>2, <1>3, RequestInv

-----------------------------------------------------------------------------
\* A request begins without a number, or is answered from a cache.
LEMMA PostInv ==
  ASSUME IInv, NEW h \in Handlers, NEW i \in Instances, NEW a \in Accounts, Post(h, i, a)
  PROVE  IInv'
<1>1. UNCHANGED ledger /\ UNCHANGED cache /\ UNCHANGED faults
  BY DEF Post
<1>2. cache' \in [Instances -> SUBSET Accounts] /\ faults' \in Nat
  BY <1>1 DEF IInv, TypeOK
<1>3. CASE a \in cache[i]
  <2>1. told' = told \cup {a} /\ UNCHANGED handler
    BY <1>3 DEF Post
  <2>2. told' \subseteq Accounts /\ handler' \in [Handlers -> Running \cup {Idle}]
    BY <2>1 DEF IInv, TypeOK
  <2>3. Route[a] = "factory" => a \in deployed
    BY <1>3 DEF IInv, CacheInv
  <2> QED
    BY <1>1, <1>2, <2>1, <2>2, <2>3, RequestInv
<1>4. CASE a \notin cache[i]
  <2>1. PICK p \in {"check", "sequence"} :
          handler' = [handler EXCEPT ![h] = [pc |-> p, instance |-> i, account |-> a, sequence |-> 0]]
    BY <1>4 DEF Post
  <2>2. UNCHANGED told
    BY <1>4 DEF Post
  <2>3. told' \subseteq Accounts
    BY <2>2 DEF IInv, TypeOK
  <2>4. [pc |-> p, instance |-> i, account |-> a, sequence |-> 0] \in Running
    BY DEF Running
  <2>5. /\ handler' \in [Handlers -> Running \cup {Idle}]
        /\ \A g \in Handlers : handler'[g] = handler[g] \/ handler'[g].pc \notin {"simulate", "send"}
    BY <2>1, <2>4 DEF IInv, TypeOK
  <2> QED
    BY <1>1, <1>2, <2>2, <2>3, <2>5, RequestInv
<1> QED
  BY <1>3, <1>4

\* The look-up before anything is built.
LEMMA CheckInv ==
  ASSUME IInv, NEW h \in Handlers, Check(h)
  PROVE  IInv'
<1>1. Busy(h) /\ UNCHANGED ledger /\ UNCHANGED faults
  BY DEF Check, Busy
<1>2. faults' \in Nat
  BY <1>1 DEF IInv, TypeOK
<1>3. CASE handler[h].account \in deployed
  BY <1>1, <1>2, <1>3, AnnounceInv DEF Check
<1>4. CASE handler[h].account \notin deployed
  <2>1. Goto(h, "sequence") /\ UNCHANGED <<cache, told>>
    BY <1>4 DEF Check
  <2> QED
    BY <1>1, <2>1, GotoInv
<1> QED
  BY <1>3, <1>4

\* The number a request reads is the next.
LEMMA GetSequenceInv ==
  ASSUME IInv, NEW h \in Handlers, GetSequence(h)
  PROVE  IInv'
<1>1. /\ Busy(h) /\ UNCHANGED ledger /\ UNCHANGED <<cache, told, faults>>
      /\ handler' = [handler EXCEPT ![h] =
           [handler[h] EXCEPT !.pc = "simulate", !.sequence = sequence + 1]]
  BY DEF GetSequence, Busy
<1>2. handler[h] \in Running /\ sequence + 1 \in Nat
  BY <1>1, BusyIsRunning DEF IInv, TypeOK
<1> DEFINE moved == [handler[h] EXCEPT !.pc = "simulate", !.sequence = sequence + 1]
<1>3. moved \in Running /\ moved.pc = "simulate" /\ moved.sequence = sequence + 1
  BY <1>2 DEF Running
<1>4. /\ handler' \in [Handlers -> Running \cup {Idle}]
      /\ handler'[h] = moved
      /\ \A g \in Handlers \ {h} : handler'[g] = handler[g]
  BY <1>1, <1>3 DEF IInv, TypeOK
<1>5. /\ handler'[h].sequence <= sequence + 1
      /\ handler'[h].pc # "send"
  BY <1>2, <1>3, <1>4
<1>6. cache' \in [Instances -> SUBSET Accounts] /\ told' \subseteq Accounts /\ faults' \in Nat
  BY <1>1 DEF IInv, TypeOK
<1> QED
  BY <1>1, <1>4, <1>5, <1>6, RequestInv

\* A simulation that succeeds has found no contract.
LEMMA SimulateInv ==
  ASSUME IInv, NEW h \in Handlers, Simulate(h)
  PROVE  IInv'
<1>1. Busy(h) /\ UNCHANGED ledger /\ UNCHANGED faults
  BY DEF Simulate, Busy
<1>2. faults' \in Nat
  BY <1>1 DEF IInv, TypeOK
<1>3. CASE handler[h].account \notin deployed
  <2>1. Goto(h, "send") /\ UNCHANGED <<cache, told>>
    BY <1>3 DEF Simulate
  <2>2. handler[h].sequence <= sequence + 1
    BY DEF IInv, HandlerInv, Simulate
  <2> QED
    BY <1>1, <1>3, <2>1, <2>2, GotoInv
<1>4. CASE handler[h].account \in deployed
  <2>1. Announce(h) \/ Throw(h)
    BY <1>4 DEF Simulate
  <2> QED
    BY <1>1, <1>2, <1>4, <2>1, AnnounceInv, ThrowInv
<1> QED
  BY <1>3, <1>4

\* A transaction is taken in only with the next number, so its contract is absent.
LEMMA AcceptInv ==
  ASSUME IInv, NEW h \in Handlers, Accept(h)
  PROVE  IInv'
<1>1. /\ handler[h].pc = "send" /\ handler[h].sequence = sequence + 1
      /\ mempool' = {Built(h)} /\ Goto(h, "poll")
      /\ UNCHANGED <<deployed, sequence, results, cache, told, faults>>
  BY DEF Accept
<1>2. Busy(h)
  BY <1>1 DEF Busy
<1>3. /\ handler[h].account \in Accounts /\ handler[h].sequence \in Nat
      /\ handler[h].account \notin deployed
  BY <1>1, <1>2, BusyIsRunning DEF IInv, HandlerInv, Fresh
<1>4. /\ handler' \in [Handlers -> Running \cup {Idle}]
      /\ handler'[h].pc = "poll"
      /\ \A g \in Handlers \ {h} : handler'[g] = handler[g]
  BY <1>1, <1>2, GotoMoves DEF IInv
<1>5. Built(h) \in Transaction
  BY <1>3 DEF Built, Transaction
<1>6. TypeOK'
  BY <1>1, <1>4, <1>5 DEF IInv, TypeOK
<1>7. MempoolInv'
  BY <1>1, <1>3 DEF MempoolInv, Built
<1>8. HandlerInv'
  BY <1>1, <1>4 DEF IInv, HandlerInv, Fresh
<1> QED
  BY <1>1, <1>6, <1>7, <1>8 DEF IInv, ResultsInv, CacheInv, FactoryTellsTruth

\* A refusal ends the request or sends it polling.
LEMMA RefuseInv ==
  ASSUME IInv, NEW h \in Handlers, Refuse(h)
  PROVE  IInv'
<1>1. Busy(h) /\ UNCHANGED ledger /\ UNCHANGED faults
  BY DEF Refuse, Busy
<1>2. faults' \in Nat
  BY <1>1 DEF IInv, TypeOK
<1>3. Throw(h) \/ (Goto(h, "poll") /\ UNCHANGED <<cache, told>>)
  BY DEF Refuse
<1> QED
  BY <1>1, <1>2, <1>3, ThrowInv, GotoInv

\* What a poll announces for the factory route has succeeded.
LEMMA PollInv ==
  ASSUME IInv, NEW h \in Handlers, Poll(h) \/ GiveUp(h)
  PROVE  IInv'
<1>1. Busy(h) /\ UNCHANGED ledger /\ UNCHANGED faults
  BY DEF Poll, GiveUp, Busy
<1>2. faults' \in Nat
  BY <1>1 DEF IInv, TypeOK
<1>3. CASE Throw(h)
  BY <1>1, <1>2, <1>3, ThrowInv
<1>4. CASE Announce(h) /\ Route[handler[h].account] # "factory"
  BY <1>1, <1>2, <1>4, AnnounceInv
<1>5. ASSUME NEW r \in Settled(h), r.status = "SUCCESS", Announce(h)
      PROVE  IInv'
  <2>1. r \in results /\ r.tx.account = handler[h].account
    BY DEF Settled, Built
  <2>2. handler[h].account \in deployed
    BY <1>5, <2>1 DEF IInv, ResultsInv
  <2> QED
    BY <1>1, <1>2, <1>5, <2>2, AnnounceInv
<1> QED
  BY <1>3, <1>4, <1>5 DEF Poll, GiveUp

\* A look-up announces what a cache or the ledger has.
LEMMA LookUpInv ==
  ASSUME IInv, NEW i \in Instances, NEW a \in Accounts, LookUp(i, a)
  PROVE  IInv'
<1>1. /\ cache' = [cache EXCEPT ![i] = @ \cup {a}] /\ told' = told \cup {a}
      /\ UNCHANGED ledger /\ UNCHANGED handler /\ UNCHANGED faults
  BY DEF LookUp
<1>2. Route[a] = "factory" => a \in deployed
  BY DEF LookUp, IInv, CacheInv
<1>3. /\ cache' \in [Instances -> SUBSET Accounts]
      /\ \A j \in Instances : cache'[j] \subseteq cache[j] \cup {a}
  BY <1>1 DEF IInv, TypeOK
<1>4. /\ told' \subseteq Accounts /\ faults' \in Nat
      /\ handler' \in [Handlers -> Running \cup {Idle}]
  BY <1>1 DEF IInv, TypeOK
<1> QED
  BY <1>1, <1>2, <1>3, <1>4, RequestInv

\* A process that ends takes its requests and its cache with it.
LEMMA RestartInv ==
  ASSUME IInv, NEW i \in Instances, Restart(i)
  PROVE  IInv'
<1>1. /\ cache' = [cache EXCEPT ![i] = {}] /\ UNCHANGED told
      /\ faults' = faults + 1 /\ UNCHANGED ledger
      /\ handler' = [h \in Handlers |->
           IF Busy(h) /\ handler[h].instance = i THEN Idle ELSE handler[h]]
  BY DEF Restart
<1>2. /\ handler' \in [Handlers -> Running \cup {Idle}]
      /\ \A g \in Handlers : handler'[g] = handler[g] \/ handler'[g].pc \notin {"simulate", "send"}
  BY <1>1 DEF IInv, TypeOK, Idle
<1>3. /\ cache' \in [Instances -> SUBSET Accounts]
      /\ \A j \in Instances : cache'[j] \subseteq cache[j]
  BY <1>1 DEF IInv, TypeOK
<1>4. told' \subseteq Accounts /\ faults' \in Nat
  BY <1>1 DEF IInv, TypeOK
<1> QED
  BY <1>1, <1>2, <1>3, <1>4, RequestInv

(* The number moves, for a transaction of this module or another: every    *)
(* number that a request holds is stale from then on.                      *)
LEMMA NumberTaken ==
  ASSUME IInv, sequence' = sequence + 1, UNCHANGED handler
  PROVE  HandlerInv'
<1>1. ASSUME NEW h \in Handlers, handler[h].pc \in {"simulate", "send"}
      PROVE  handler[h].sequence <= sequence' + 1 /\ handler[h].sequence # sequence' + 1
  <2>1. handler[h].sequence \in Nat
    BY <1>1, BusyIsRunning DEF Busy, IInv
  <2>2. handler[h].sequence <= sequence + 1 /\ sequence \in Nat
    BY <1>1 DEF IInv, HandlerInv, TypeOK
  <2> QED
    BY <2>1, <2>2
<1> QED
  BY <1>1 DEF HandlerInv, Fresh

\* The ledger takes the transaction, in vain or not.
LEMMA TakenInv ==
  ASSUME IInv, NEW tx \in mempool, NEW status \in {"SUCCESS", "FAILED"},
         deployed' = (IF status = "SUCCESS" THEN deployed \cup {tx.account} ELSE deployed),
         sequence' = tx.sequence,
         mempool' = {},
         results' = results \cup {[tx |-> tx, status |-> status]},
         faults' \in Nat,
         UNCHANGED <<cache, told, handler>>
  PROVE  IInv'
<1>1. /\ tx \in Transaction /\ tx.account \in Accounts
      /\ tx.sequence \in Nat /\ tx.sequence = sequence + 1
  BY DEF IInv, TypeOK, Transaction, MempoolInv
<1>2. TypeOK'
  <2>1. [tx |-> tx, status |-> status] \in Result
    BY <1>1 DEF Result
  <2>2. results' \subseteq Result /\ deployed' \subseteq Accounts
    BY <1>1, <2>1 DEF IInv, TypeOK
  <2> QED
    BY <1>1, <2>2 DEF IInv, TypeOK
<1>3. HandlerInv'
  BY <1>1, NumberTaken
<1>4. ResultsInv'
  <2>1. ASSUME NEW r \in results', r.status = "SUCCESS"
        PROVE  r.tx.account \in deployed'
    <3>1. CASE r \in results
      BY <2>1, <3>1 DEF IInv, ResultsInv
    <3>2. CASE r = [tx |-> tx, status |-> status]
      BY <2>1, <3>2
    <3> QED
      BY <3>1, <3>2
  <2> QED
    BY <2>1 DEF ResultsInv
<1>5. MempoolInv' /\ CacheInv' /\ FactoryTellsTruth'
  BY DEF IInv, MempoolInv, CacheInv, FactoryTellsTruth
<1> QED
  BY <1>2, <1>3, <1>4, <1>5 DEF IInv

\* What the network does with the bundler's transaction keeps the invariant.
LEMMA NetworkInv ==
  ASSUME IInv, Apply \/ ApplyFails \/ OtherTransaction \/ Expire
  PROVE  IInv'
<1>1. CASE Apply
  <2>1. PICK tx \in mempool :
          /\ deployed' = deployed \cup {tx.account}
          /\ sequence' = tx.sequence
          /\ mempool' = {}
          /\ results' = results \cup {[tx |-> tx, status |-> "SUCCESS"]}
          /\ UNCHANGED <<cache, told, handler, faults>>
    BY <1>1 DEF Apply
  <2>2. faults' \in Nat
    BY <2>1 DEF IInv, TypeOK
  <2> DEFINE status == "SUCCESS"
  <2>3. deployed' = (IF status = "SUCCESS" THEN deployed \cup {tx.account} ELSE deployed)
    BY <2>1
  <2> QED
    BY <2>1, <2>2, <2>3, TakenInv
<1>2. CASE ApplyFails
  <2>1. PICK tx \in mempool :
          /\ faults' \in {faults, faults + 1}
          /\ sequence' = tx.sequence
          /\ mempool' = {}
          /\ results' = results \cup {[tx |-> tx, status |-> "FAILED"]}
          /\ UNCHANGED <<deployed, cache, told, handler>>
    BY <1>2 DEF ApplyFails
  <2>2. faults' \in Nat
    BY <2>1 DEF IInv, TypeOK
  <2> DEFINE status == "FAILED"
  <2>3. deployed' = (IF status = "SUCCESS" THEN deployed \cup {tx.account} ELSE deployed)
    BY <2>1
  <2> QED
    BY <2>1, <2>2, <2>3, TakenInv
<1>3. CASE Expire
  BY <1>3 DEF Expire, IInv, TypeOK, MempoolInv, HandlerInv, Fresh, ResultsInv, CacheInv,
              FactoryTellsTruth
<1>4. CASE OtherTransaction
  <2>1. /\ mempool = {} /\ sequence' = sequence + 1
        /\ UNCHANGED <<deployed, mempool, results, cache, told, handler, faults>>
    BY <1>4 DEF OtherTransaction
  <2>2. TypeOK'
    BY <2>1 DEF IInv, TypeOK
  <2> QED
    BY <2>1, <2>2, NumberTaken DEF IInv, MempoolInv, ResultsInv, CacheInv, FactoryTellsTruth
<1> QED
  BY <1>1, <1>2, <1>3, <1>4

\* The invariant is inductive.
LEMMA NextInv == IInv /\ [Next]_vars => IInv'
<1> SUFFICES ASSUME IInv, [Next]_vars
             PROVE  IInv'
  OBVIOUS
<1>1. ASSUME NEW h \in Handlers, Step(h)
      PROVE  IInv'
  BY <1>1, CheckInv, GetSequenceInv, SimulateInv, AcceptInv, RefuseInv, PollInv DEF Step
<1>2. ASSUME NEW h \in Handlers, Fail(h)
      PROVE  IInv'
  <2>1. Throw(h) /\ UNCHANGED ledger /\ faults' \in Nat
    BY <1>2 DEF Fail, IInv, TypeOK
  <2> QED
    BY <2>1, ThrowInv
<1>3. CASE UNCHANGED vars
  BY <1>3 DEF vars, ledger, IInv, TypeOK, MempoolInv, HandlerInv, Fresh, ResultsInv, CacheInv,
              FactoryTellsTruth
<1> QED
  BY <1>1, <1>2, <1>3, PostInv, LookUpInv, RestartInv, NetworkInv DEF Next

(* The invariant holds in every reachable state.                           *)
THEOREM Invariance == Spec => []IInv
BY InitInv, NextInv, PTL DEF Spec

-----------------------------------------------------------------------------
(* Every cache, request and transaction keeps its shape.                   *)
THEOREM TypeCorrect == Spec => []TypeOK
<1>1. IInv => TypeOK
  BY DEF IInv
<1> QED
  BY <1>1, Invariance, PTL

(* However many deployments share the bundler account, no create           *)
(* transaction meets the contract it creates (smart-account/route 168).    *)
THEOREM NothingCreatedTwice == Spec => []CreateMeetsNoContract
<1>1. IInv => CreateMeetsNoContract
  BY DEF IInv, MempoolInv, CreateMeetsNoContract
<1> QED
  BY <1>1, Invariance, PTL

(* The factory route calls an account deployed only when it is, through    *)
(* restarts, failures and the other routes' requests.                      *)
THEOREM FactoryIsTruthful == Spec => []FactoryTellsTruth
<1>1. IInv => FactoryTellsTruth
  BY DEF IInv
<1> QED
  BY <1>1, Invariance, PTL

(* A send is refused without a fault only when a transaction has been      *)
(* taken since the request read its number, however many requests and      *)
(* counter calls share the bundler (factory/route 220 and 256).            *)
THEOREM OnlyTheOvertakenAreRefused == Spec => RefusedWasOvertaken
<1>1. ASSUME IInv, [Next]_vars, NEW h \in Handlers,
             handler[h].pc = "send", ~Busy(h)', UNCHANGED faults
      PROVE  handler[h].sequence <= sequence
  <2>1. Busy(h)
    BY <1>1 DEF Busy
  <2>2. /\ handler[h].sequence \in Nat /\ sequence \in Nat
        /\ handler[h].sequence <= sequence + 1
    BY <1>1, <2>1, BusyIsRunning DEF IInv, HandlerInv, TypeOK
  <2>3. handler[h].sequence # sequence + 1
    <3>1. ASSUME NEW g \in Handlers, Step(g)
          PROVE  handler[h].sequence # sequence + 1
      <4>1. g = h
        BY <1>1, <2>1, <3>1 DEF Step, Check, GetSequence, Simulate, Accept, Refuse, Poll, GiveUp,
                                Goto, Announce, Throw, Busy, IInv, TypeOK
      <4>2. ~Accept(h)
        <5>1. ASSUME Accept(h)
              PROVE  FALSE
          BY <1>1, <2>1, <5>1, GotoMoves DEF Accept, Busy, IInv
        <5> QED
          BY <5>1
      <4>3. Refuse(h)
        BY <1>1, <3>1, <4>1, <4>2 DEF Step, Check, GetSequence, Simulate, Poll, GiveUp
      <4>4. ~Goto(h, "poll")
        BY <1>1, <2>1, GotoMoves DEF Busy, IInv
      <4> QED
        BY <4>3, <4>4 DEF Refuse
    <3>2. ASSUME NEW g \in Handlers, Fail(g)
          PROVE  FALSE
      BY <1>1, <3>2 DEF Fail, IInv, TypeOK
    <3>3. ASSUME NEW i \in Instances, Restart(i)
          PROVE  FALSE
      BY <1>1, <3>3 DEF Restart, IInv, TypeOK
    <3>4. ASSUME NEW g \in Handlers, NEW i \in Instances, NEW a \in Accounts, Post(g, i, a)
          PROVE  FALSE
      BY <1>1, <2>1, <3>4 DEF Post, Busy, IInv, TypeOK
    <3>5. ~UNCHANGED handler
      BY <1>1, <2>1 DEF Busy
    <3> QED
      BY <1>1, <3>1, <3>2, <3>3, <3>4, <3>5
         DEF Next, LookUp, Apply, ApplyFails, OtherTransaction, Expire, vars
  <2> QED
    BY <2>2, <2>3
<1>2. IInv /\ [Next]_vars =>
        [\A h \in Handlers : handler[h].pc = "send" /\ ~Busy(h)' /\ UNCHANGED faults
                              => handler[h].sequence <= sequence]_vars
  BY <1>1
<1> QED
  BY <1>2, Invariance, PTL DEF Spec, RefusedWasOvertaken

-----------------------------------------------------------------------------
\* The caches and the replies of these routes tell the truth.
TrueFor(routes) ==
  /\ \A i \in Instances : \A a \in cache[i] : Route[a] \in routes => a \in deployed
  /\ \A a \in told : Route[a] \in routes => a \in deployed

(* A request supposes that its account is deployed: the webauthn and the   *)
(* freighter route after thirty misses, the legacy route when all that it  *)
(* knows is that the transaction has failed.                               *)
Guesses(h) ==
  \/ GiveUp(h) /\ Route[handler[h].account] \in {"webauthn", "freighter"}
  \/ /\ Poll(h) /\ Route[handler[h].account] = "legacy"
     /\ \A r \in Settled(h) : r.status # "SUCCESS"

GuessesRight(routes) ==
  \A h \in Handlers : Guesses(h) /\ Route[handler[h].account] \in routes
                        => handler[h].account \in deployed

\* An account may be announced if it is deployed, or of another route.
LEMMA AnnounceTrue ==
  ASSUME IInv, NEW routes, TrueFor(routes), NEW h \in Handlers, Busy(h), Announce(h),
         UNCHANGED deployed,
         Route[handler[h].account] \in routes => handler[h].account \in deployed
  PROVE  TrueFor(routes)'
<1>1. handler[h].instance \in Instances
  BY BusyIsRunning DEF IInv
<1> QED
  BY <1>1 DEF Announce, TrueFor, IInv, TypeOK

\* What a request announces it has seen, or it guesses.
LEMMA StepTrue ==
  ASSUME IInv, NEW routes, TrueFor(routes), NEW h \in Handlers, Step(h),
         [GuessesRight(routes)]_vars
  PROVE  TrueFor(routes)'
<1>1. Busy(h)
  BY DEF Step, Check, GetSequence, Simulate, Accept, Refuse, Poll, GiveUp, Busy
<1>2. UNCHANGED deployed
  BY DEF Step, Check, GetSequence, Simulate, Accept, Refuse, Poll, GiveUp, ledger
<1>3. CASE UNCHANGED <<cache, told>>
  BY <1>2, <1>3 DEF TrueFor
<1>4. CASE ~UNCHANGED <<cache, told>>
  <2>1. /\ Check(h) \/ Simulate(h) \/ Poll(h) \/ GiveUp(h)
        /\ ~Throw(h)
    BY <1>4 DEF Step, GetSequence, Accept, Refuse, Throw
  <2>2. Announce(h)
    BY <1>4, <2>1 DEF Check, Simulate, Poll, GiveUp
  <2>3. GuessesRight(routes)
    BY <1>4 DEF vars
  <2>4. CASE Check(h) \/ Simulate(h)
    <3>1. handler[h].account \in deployed
      BY <1>4, <2>4 DEF Check, Simulate
    <3> QED
      BY <1>1, <1>2, <2>2, <3>1, AnnounceTrue
  <2>5. CASE Guesses(h)
    BY <1>1, <1>2, <2>2, <2>3, <2>5, AnnounceTrue DEF GuessesRight
  <2>6. ASSUME NEW r \in Settled(h), r.status = "SUCCESS"
        PROVE  TrueFor(routes)'
    <3>1. r \in results /\ r.tx.account = handler[h].account
      BY DEF Settled, Built
    <3>2. handler[h].account \in deployed
      BY <2>6, <3>1 DEF IInv, ResultsInv
    <3> QED
      BY <1>1, <1>2, <2>2, <3>2, AnnounceTrue
  <2>7. Poll(h) \/ GiveUp(h) => Guesses(h) \/ \E r \in Settled(h) : r.status = "SUCCESS"
    BY <2>1 DEF Poll, GiveUp, Guesses
  <2> QED
    BY <2>1, <2>4, <2>5, <2>6, <2>7
<1> QED
  BY <1>3, <1>4

\* A route that guesses right tells the truth, and its caches keep it.
LEMMA NextTrue ==
  ASSUME IInv, NEW routes, TrueFor(routes), [Next]_vars, [GuessesRight(routes)]_vars
  PROVE  TrueFor(routes)'
<1>1. ASSUME NEW h \in Handlers, Fail(h)
      PROVE  TrueFor(routes)'
  BY <1>1 DEF Fail, Throw, ledger, TrueFor
<1>2. ASSUME NEW h \in Handlers, NEW i \in Instances, NEW a \in Accounts, Post(h, i, a)
      PROVE  TrueFor(routes)'
  BY <1>2 DEF Post, ledger, TrueFor
<1>3. ASSUME NEW i \in Instances, NEW a \in Accounts, LookUp(i, a)
      PROVE  TrueFor(routes)'
  BY <1>3 DEF LookUp, ledger, TrueFor, IInv, TypeOK
<1>4. ASSUME NEW i \in Instances, Restart(i)
      PROVE  TrueFor(routes)'
  BY <1>4 DEF Restart, ledger, TrueFor, IInv, TypeOK
<1>5. CASE Apply \/ ApplyFails \/ OtherTransaction \/ Expire
  BY <1>5 DEF Apply, ApplyFails, OtherTransaction, Expire, TrueFor
<1>6. CASE UNCHANGED vars
  BY <1>6 DEF vars, ledger, TrueFor
<1> QED
  BY <1>1, <1>2, <1>3, <1>4, <1>5, <1>6, StepTrue DEF Next

(* The legacy route's only untruth is that a failed transaction means an   *)
(* existing account (smart-account/route 168): if that were right whenever *)
(* it is supposed, every account the route has called deployed would be.   *)
THEOREM OnlyFailuresMislead ==
  Spec /\ [][GuessesRight({"legacy"})]_vars => []LegacyTellsTruth
<1>1. Init => TrueFor({"legacy"})
  BY DEF Init, TrueFor
<1>2. IInv /\ TrueFor({"legacy"}) /\ [Next]_vars /\ [GuessesRight({"legacy"})]_vars
        => TrueFor({"legacy"})'
  BY NextTrue
<1>3. TrueFor({"legacy"}) => LegacyTellsTruth
  BY DEF TrueFor, LegacyTellsTruth
<1> QED
  BY <1>1, <1>2, <1>3, Invariance, PTL DEF Spec

(* No reply of any route is untrue but for the guesses of the three: the   *)
(* look-ups, the caches and the simulations never are, however requests,   *)
(* processes and the bundler's transactions interleave (webauthn/route 19, *)
(* smart-account/route 35).                                                *)
THEOREM OnlyGuessesMislead == Spec /\ [][GuessesRight(Routes)]_vars => []ToldIsDeployed
<1>1. Init => TrueFor(Routes)
  BY DEF Init, TrueFor
<1>2. IInv /\ TrueFor(Routes) /\ [Next]_vars /\ [GuessesRight(Routes)]_vars => TrueFor(Routes)'
  BY NextTrue
<1>3. IInv /\ TrueFor(Routes) => ToldIsDeployed
  BY RouteAssumption DEF IInv, TypeOK, TrueFor, ToldIsDeployed
<1> QED
  BY <1>1, <1>2, <1>3, Invariance, PTL DEF Spec

=============================================================================
