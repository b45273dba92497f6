---------------------------- MODULE TxSubmit_proofs ----------------------------
(***************************************************************************)
(* Proofs about TxSubmit, for every number of clients, nonces and          *)
(* overlapping submit requests, every life of an authorisation, every size *)
(* of the counter and every number a client writes into a transaction.     *)
(***************************************************************************)
EXTENDS TxSubmit, TLAPS

-----------------------------------------------------------------------------
\* Only signed authorisations are submitted, and only those of a build.
SignedInv ==
  /\ \A n \in signed : IsBuilt(n)
  /\ \A h \in Handlers : Busy(h) => handler[h].nonce \in signed

\* No build has given a number past the next one.
NumberInv == \A n \in Nonces : IsBuilt(n) => built[n].sequence <= sequence + 1

\* The nonces that a transaction of the bundler has consumed.
Spent == used \ elsewhere

\* A request whose number was not past the next one when it was posted has never
\* one past the next; past its simulation, if it has the next one, the bundler has
\* not spent its nonce yet.
PostedInv ==
  \A h \in Handlers : Busy(h) /\ Sent(h) \notin early =>
    /\ handler[h].sequence <= sequence + 1
    /\ handler[h].pc = "send" /\ handler[h].sequence = sequence + 1
         => handler[h].nonce \notin Spent

\* The waiting transaction has the next number and a nonce the bundler has not spent.
MempoolInv ==
  \A tx \in mempool :
    /\ tx.nonce \in signed
    /\ tx.sequence = sequence + 1
    /\ tx \in early \/ tx.nonce \notin Spent

\* Only what was signed is consumed.
UsedInv == used \subseteq signed

\* getTransaction says SUCCESS only of a call that was executed, and knows only
\* transactions whose number is used up, each with one status.
ResultsInv ==
  /\ \A r \in results : (r.ok => r.tx.nonce \in used) /\ r.tx.sequence <= sequence
  /\ \A r1, r2 \in results : r1.tx = r2.tx => r1 = r2

IInv == TypeOK /\ SignedInv /\ NumberInv /\ PostedInv /\ MempoolInv /\ UsedInv /\ ResultsInv

-----------------------------------------------------------------------------
\* A build is a record of three fields, and no build is the absence of one.
LEMMA BuiltIsBuild ==
  ASSUME TypeOK, NEW n \in Nonces, IsBuilt(n)
  PROVE  /\ built[n] \in Build
         /\ built[n].client \in Clients
         /\ built[n].sequence \in Nat
         /\ built[n].until \in Nat
BY DEF TypeOK, IsBuilt, Build

\* A request in flight has all the fields of a running one.
LEMMA BusyIsRunning ==
  ASSUME TypeOK, NEW h \in Handlers, Busy(h)
  PROVE  /\ handler[h] \in Running
         /\ handler[h].nonce \in Nonces
         /\ handler[h].sequence \in Nat
         /\ handler[h].bound \in Nat
         /\ handler[h].fee \in Fees
BY DEF TypeOK, Busy, Idle, Running

\* What a request sends is a transaction.
LEMMA SentTyped ==
  ASSUME TypeOK, NEW h \in Handlers, Busy(h)
  PROVE  /\ Sent(h) \in Transaction
         /\ Sent(h).nonce = handler[h].nonce
         /\ Sent(h).sequence = handler[h].sequence
BY BusyIsRunning DEF Sent, Transaction

\* What a step leaves of the requests in flight: those that stay carry what they
\* carried, and one that comes to its send has an unused nonce.
Moved ==
  /\ handler' \in [Handlers -> Running \cup {Idle}]
  /\ \A g \in Handlers : Busy(g)' =>
       /\ Busy(g)
       /\ handler'[g].nonce = handler[g].nonce
       /\ handler'[g].sequence = handler[g].sequence
       /\ Sent(g)' = Sent(g)
       /\ handler'[g].pc = "send" => handler[g].pc = "send" \/ handler[g].nonce \notin used

\* Moving a request to another step keeps what it carries.
LEMMA GotoMoves ==
  ASSUME TypeOK, NEW h \in Handlers, Busy(h), NEW p \in {"simulate", "send", "poll"}, Goto(h, p),
         p = "send" => handler[h].nonce \notin used
  PROVE  Moved
<1>1. handler[h] \in Running
  BY BusyIsRunning
<1>2. [handler[h] EXCEPT !.pc = p] \in Running
  BY <1>1 DEF Running
<1>3. handler' = [handler EXCEPT ![h] = [handler[h] EXCEPT !.pc = p]]
  BY DEF Goto
<1> DEFINE w == [handler[h] EXCEPT !.pc = p]
<1>4. /\ w.nonce = handler[h].nonce /\ w.sequence = handler[h].sequence
      /\ w.bound = handler[h].bound /\ w.fee = handler[h].fee /\ w.pc = p
  BY <1>1 DEF Running
<1>5. handler' \in [Handlers -> Running \cup {Idle}] /\ handler'[h] = w
      /\ \A g \in Handlers \ {h} : handler'[g] = handler[g]
  BY <1>2, <1>3 DEF TypeOK
<1> QED
  BY <1>4, <1>5 DEF Moved, Busy, Sent

\* A request that is answered is gone, the others are as they were.
LEMMA LeaveFrees ==
  ASSUME TypeOK, NEW h \in Handlers, Leave(h)
  PROVE  Moved
<1>1. handler' \in [Handlers -> Running \cup {Idle}] /\ handler'[h] = Idle
      /\ \A g \in Handlers \ {h} : handler'[g] = handler[g]
  BY DEF Leave, TypeOK
<1> QED
  BY <1>1 DEF Moved, Busy, Idle, Sent

-----------------------------------------------------------------------------
\* The empty ledger satisfies the invariant.
LEMMA InitInv == Init => IInv
<1> SUFFICES ASSUME Init
             PROVE  IInv
  OBVIOUS
<1>1. TypeOK
  BY LifeAssumption DEF Init, TypeOK
<1>2. \A h \in Handlers : ~Busy(h)
  BY DEF Init, Busy, Idle
<1>3. SignedInv /\ PostedInv
  BY <1>2 DEF Init, SignedInv, PostedInv
<1>4. NumberInv
  BY DEF Init, NumberInv, IsBuilt
<1>5. MempoolInv /\ UsedInv /\ ResultsInv
  BY DEF Init, MempoolInv, UsedInv, ResultsInv
<1> QED
  BY <1>1, <1>3, <1>4, <1>5 DEF IInv

\* A build adds a record and touches no other.
LEMMA PrepareInv ==
  ASSUME IInv, NEW c \in Clients, Prepare(c)
  PROVE  IInv'
<1>1. PICK n \in Nonces :
        /\ ~IsBuilt(n)
        /\ built' = [built EXCEPT ![n] =
             [client |-> c, sequence |-> sequence + 1, until |-> ledger + Life]]
  BY DEF Prepare
<1> DEFINE b == [client |-> c, sequence |-> sequence + 1, until |-> ledger + Life]
<1>2. b \in Build /\ b # Unbuilt
  <2>1. sequence + 1 \in Nat /\ ledger + Life \in Nat
    BY LifeAssumption DEF IInv, TypeOK
  <2> QED
    BY <2>1 DEF Build, Unbuilt
<1>3. n \notin signed
  BY <1>1 DEF IInv, SignedInv
<1>4. /\ built' \in [Nonces -> Build \cup {Unbuilt}]
      /\ \A m \in Nonces \ {n} : built'[m] = built[m]
      /\ built'[n] = b
  BY <1>1, <1>2 DEF IInv, TypeOK
<1>5. UNCHANGED <<ledger, sequence, mempool, results, used, counter, elsewhere, faults, signed,
                  handler, early, reported, failed>>
  BY DEF Prepare, chain, answers
<1>6. TypeOK'
  BY <1>4, <1>5 DEF IInv, TypeOK
<1>7. SignedInv'
  BY <1>3, <1>4, <1>5 DEF IInv, TypeOK, SignedInv, IsBuilt, Busy
<1>8. NumberInv'
  <2>1. sequence + 1 <= sequence + 1 /\ b.sequence = sequence + 1
    BY DEF IInv, TypeOK
  <2> QED
    BY <1>4, <1>5, <2>1 DEF IInv, NumberInv, IsBuilt
<1>9. MempoolInv' /\ UsedInv' /\ ResultsInv'
  BY <1>5 DEF IInv, MempoolInv, UsedInv, ResultsInv, Spent
<1>10. PostedInv'
  BY <1>5 DEF IInv, PostedInv, Spent, Busy, Sent
<1> QED
  BY <1>6, <1>7, <1>8, <1>9, <1>10 DEF IInv

\* A submit request starts with what was signed, and a number past the next one
\* is recorded.
LEMMA SubmitInv ==
  ASSUME IInv, NEW h \in Handlers, NEW n \in Nonces, NEW m \in Nonces, Submit(h, n, m)
  PROVE  IInv'
<1> USE DEF IInv
<1>1. n \in signed /\ IsBuilt(n) /\ IsBuilt(m) /\ ~Busy(h)
  BY DEF Submit, SignedInv
<1>2. PICK s \in Nat, fee \in Fees, bound \in Nat :
        handler' = [handler EXCEPT ![h] =
          [pc |-> "simulate", nonce |-> n, caller |-> built[m].client, sequence |-> s,
           bound |-> bound, fee |-> fee]]
  <2>1. ledger + Life \in Nat /\ built[m].until \in Nat /\ built[m].sequence \in Nat
    BY <1>1, BuiltIsBuild, LifeAssumption DEF TypeOK
  <2> QED
    BY <2>1, MadeAssumption DEF Submit
<1>3. UNCHANGED <<chain, built, signed, answers>>
      /\ early' = early \cup {tx \in {Sent(h)'} : tx.sequence > sequence + 1}
  BY DEF Submit
<1> DEFINE w == [pc |-> "simulate", nonce |-> n, caller |-> built[m].client, sequence |-> s,
                 bound |-> bound, fee |-> fee]
<1>4. w \in Running
  BY <1>1, BuiltIsBuild DEF TypeOK, Running
<1>5. /\ handler' \in [Handlers -> Running \cup {Idle}]
      /\ handler'[h] = w
      /\ \A g \in Handlers \ {h} : handler'[g] = handler[g]
  BY <1>2, <1>4 DEF TypeOK
<1>6. Sent(h)' = [nonce |-> n, sequence |-> s, bound |-> bound, fee |-> fee]
  BY <1>5 DEF Sent
<1>7. Sent(h)' \in Transaction /\ Sent(h)'.sequence = s
  BY <1>6 DEF Transaction
<1>8. TypeOK'
  BY <1>3, <1>5, <1>7 DEF TypeOK, chain, answers
<1>9. SignedInv' /\ NumberInv' /\ UsedInv' /\ ResultsInv'
  BY <1>1, <1>3, <1>5 DEF SignedInv, NumberInv, UsedInv, ResultsInv, Busy, IsBuilt, chain
<1>10. MempoolInv'
  BY <1>3 DEF MempoolInv, Spent, chain
<1>11. PostedInv'
  <2> SUFFICES ASSUME NEW g \in Handlers, Busy(g)', Sent(g)' \notin early'
               PROVE  /\ handler'[g].sequence <= sequence' + 1
                      /\ handler'[g].pc = "send" /\ handler'[g].sequence = sequence' + 1
                           => handler'[g].nonce \notin Spent'
    BY DEF PostedInv
  <2>1. UNCHANGED <<sequence, Spent>>
    BY <1>3 DEF chain, Spent
  <2>2. CASE g = h
    <3>1. ~(s > sequence + 1)
      BY <1>3, <1>7, <2>2
    <3>2. s <= sequence + 1
      BY <3>1 DEF TypeOK
    <3> QED
      BY <1>5, <2>1, <2>2, <3>2
  <2>3. CASE g # h
    <3>1. Busy(g) /\ handler'[g] = handler[g] /\ Sent(g)' = Sent(g)
      BY <1>5, <2>3 DEF Busy, Sent
    <3>2. Sent(g) \notin early
      BY <1>3, <3>1
    <3> QED
      BY <2>1, <3>1, <3>2 DEF PostedInv
  <2> QED
    BY <2>2, <2>3
<1> QED
  BY <1>8, <1>9, <1>10, <1>11

\* Steps that change only the request and the history.
LEMMA AnswerInv ==
  ASSUME IInv, UNCHANGED <<chain, built, signed, early>>, Moved,
         reported' \subseteq Nonces, failed' \subseteq Transaction
  PROVE  IInv'
<1>1. TypeOK'
  BY DEF IInv, TypeOK, chain, Moved
<1>2. SignedInv'
  BY DEF IInv, SignedInv, IsBuilt, Moved
<1>3. PostedInv'
  BY DEF IInv, PostedInv, Moved, Spent, chain
<1> QED
  BY <1>1, <1>2, <1>3 DEF IInv, NumberInv, IsBuilt, MempoolInv, UsedInv, ResultsInv, Spent, chain

\* A transaction is taken in if its number is the next.
LEMMA AcceptInv ==
  ASSUME IInv, NEW h \in Handlers, Accept(h)
  PROVE  IInv'
<1>1. Busy(h)
  BY DEF Accept, Busy
<1>2. Moved
  BY <1>1, GotoMoves DEF IInv, Accept
<1>3. /\ Sent(h) \in Transaction
      /\ Sent(h).nonce = handler[h].nonce
      /\ handler[h].nonce \in signed
      /\ Sent(h).sequence = sequence + 1
      /\ handler[h].sequence = sequence + 1
      /\ handler[h].pc = "send"
  BY <1>1, SentTyped DEF IInv, SignedInv, Accept
<1>4. mempool' = {Sent(h)}
  BY DEF Accept
<1>5. UNCHANGED <<ledger, sequence, results, used, counter, elsewhere, faults, built, signed,
                  early, answers>>
  BY DEF Accept
<1>6. TypeOK'
  BY <1>2, <1>3, <1>4, <1>5 DEF IInv, TypeOK, answers, Moved
<1>7. SignedInv' /\ NumberInv' /\ PostedInv'
  BY <1>2, <1>5 DEF IInv, SignedInv, NumberInv, PostedInv, IsBuilt, Moved, Spent
<1>8. Sent(h) \in early \/ Sent(h).nonce \notin Spent
  BY <1>1, <1>3 DEF IInv, PostedInv
<1>9. MempoolInv'
  BY <1>3, <1>4, <1>5, <1>8 DEF MempoolInv, Spent
<1> QED
  BY <1>5, <1>6, <1>7, <1>9 DEF IInv, UsedInv, ResultsInv

\* Every step of a submit request keeps the invariant.
LEMMA StepInv ==
  ASSUME IInv, NEW h \in Handlers, Step(h) \/ Fail(h)
  PROVE  IInv'
<1>1. CASE Simulate(h)
  <2>1. Busy(h)
    BY <1>1 DEF Simulate, Busy
  <2>2. UNCHANGED <<chain, built, signed, early, answers>>
        /\ \/ Goto(h, "send") /\ handler[h].nonce \notin used
           \/ Leave(h)
    BY <1>1 DEF Simulate, Authorised
  <2>3. reported' \subseteq Nonces /\ failed' \subseteq Transaction
    BY <2>2 DEF answers, IInv, TypeOK
  <2> QED
    BY <2>1, <2>2, <2>3, GotoMoves, LeaveFrees, AnswerInv DEF IInv
<1>2. CASE Accept(h)
  BY <1>2, AcceptInv
<1>3. CASE Refuse(h)
  <2>1. Busy(h)
    BY <1>3 DEF Refuse, Busy
  <2>2. UNCHANGED <<chain, built, signed, early, answers>> /\ (Goto(h, "poll") \/ Leave(h))
    BY <1>3 DEF Refuse
  <2>3. reported' \subseteq Nonces /\ failed' \subseteq Transaction
    BY <2>2 DEF answers, IInv, TypeOK
  <2> QED
    BY <2>1, <2>2, <2>3, GotoMoves, LeaveFrees, AnswerInv DEF IInv
<1>4. CASE Poll(h) \/ GiveUp(h)
  <2>1. Busy(h)
    BY <1>4 DEF Poll, GiveUp, Busy
  <2>2. handler[h].nonce \in Nonces /\ Sent(h) \in Transaction
    BY <2>1, BusyIsRunning, SentTyped DEF IInv
  <2>3. Succeeds(h) \/ Fails(h)
    BY <1>4 DEF Poll, GiveUp
  <2>4. /\ Leave(h)
        /\ UNCHANGED <<chain, built, signed, early>>
        /\ reported' \subseteq Nonces /\ failed' \subseteq Transaction
    BY <2>2, <2>3 DEF Succeeds, Fails, IInv, TypeOK
  <2> QED
    BY <2>4, LeaveFrees, AnswerInv DEF IInv
<1>5. CASE Fail(h)
  <2>1. Leave(h) /\ UNCHANGED <<chain, built, signed, early, answers>>
    BY <1>5 DEF Fail
  <2>2. reported' \subseteq Nonces /\ failed' \subseteq Transaction
    BY <2>1 DEF answers, IInv, TypeOK
  <2> QED
    BY <2>1, <2>2, LeaveFrees, AnswerInv DEF IInv
<1> QED
  BY <1>1, <1>2, <1>3, <1>4, <1>5 DEF Step

\* When the next number is used up, no request that was posted in time has the
\* one after it.
LEMMA NumberTaken ==
  ASSUME IInv, sequence' = sequence + 1, UNCHANGED <<built, handler, early>>
  PROVE  NumberInv' /\ PostedInv'
<1>1. sequence \in Nat
  BY DEF IInv, TypeOK
<1>2. NumberInv'
  <2>1. ASSUME NEW n \in Nonces, IsBuilt(n)
        PROVE  built[n].sequence <= sequence + 1 + 1
    BY <1>1, <2>1, BuiltIsBuild DEF IInv, NumberInv
  <2> QED
    BY <2>1 DEF NumberInv, IsBuilt
<1>3. PostedInv'
  <2> SUFFICES ASSUME NEW h \in Handlers, Busy(h), Sent(h) \notin early
               PROVE  handler[h].sequence <= sequence + 1 + 1 /\ handler[h].sequence # sequence + 1 + 1
    BY DEF PostedInv, Busy, Sent
  <2>1. handler[h].sequence <= sequence + 1 /\ handler[h].sequence \in Nat
    BY BusyIsRunning DEF IInv, PostedInv
  <2> QED
    BY <1>1, <2>1
<1> QED
  BY <1>2, <1>3

\* The ledger takes a transaction, in vain or not: its number is used up, and
\* its nonce if the call was executed.
LEMMA TakenInv ==
  ASSUME IInv, NEW tx \in mempool, NEW ok \in BOOLEAN,
         used' = (IF ok THEN used \cup {tx.nonce} ELSE used),
         counter' \in Nat, faults' \in Nat,
         sequence' = tx.sequence,
         mempool' = {},
         results' = results \cup {[tx |-> tx, ok |-> ok]},
         UNCHANGED <<ledger, elsewhere, built, signed, handler, early, answers>>
  PROVE  IInv'
<1>1. /\ tx \in Transaction /\ tx.nonce \in Nonces /\ tx.sequence \in Nat
      /\ tx.nonce \in signed
      /\ tx.sequence = sequence + 1
      /\ sequence \in Nat
  BY DEF IInv, TypeOK, Transaction, MempoolInv
<1>2. TypeOK'
  <2>1. [tx |-> tx, ok |-> ok] \in Result
    BY <1>1 DEF Result
  <2>2. results' \subseteq Result
    BY <2>1 DEF IInv, TypeOK
  <2>3. used' \subseteq Nonces
    BY <1>1 DEF IInv, TypeOK
  <2> QED
    BY <1>1, <2>2, <2>3 DEF IInv, TypeOK, answers
<1>3. SignedInv' /\ MempoolInv'
  BY DEF IInv, SignedInv, MempoolInv, IsBuilt, Busy
<1>4. UsedInv'
  BY <1>1 DEF IInv, UsedInv
<1>5. NumberInv' /\ PostedInv'
  BY <1>1, NumberTaken
<1>6. ResultsInv'
  <2>1. ASSUME NEW r \in results
        PROVE  r.tx.sequence \in Nat /\ r.tx.sequence <= sequence /\ r.tx # tx
    BY <1>1 DEF IInv, TypeOK, Result, Transaction, ResultsInv
  <2>2. ASSUME NEW r \in results'
        PROVE  (r.ok => r.tx.nonce \in used') /\ r.tx.sequence <= sequence'
    <3>1. CASE r \in results
      BY <1>1, <2>1, <3>1 DEF IInv, ResultsInv
    <3>2. CASE r = [tx |-> tx, ok |-> ok]
      BY <1>1, <3>2
    <3> QED
      BY <3>1, <3>2
  <2>3. ASSUME NEW r1 \in results', NEW r2 \in results', r1.tx = r2.tx
        PROVE  r1 = r2
    BY <2>1, <2>3 DEF IInv, ResultsInv
  <2> QED
    BY <2>2, <2>3 DEF ResultsInv
<1> QED
  BY <1>2, <1>3, <1>4, <1>5, <1>6 DEF IInv

\* Both ways of taking a transaction keep the invariant.
LEMMA ApplyInv ==
  ASSUME IInv, Apply \/ ApplyFails
  PROVE  IInv'
<1>1. CASE Apply
  <2>1. PICK tx \in mempool :
          /\ used' = used \cup {tx.nonce}
          /\ counter' = counter + 1
          /\ sequence' = tx.sequence
          /\ mempool' = {}
          /\ results' = results \cup {[tx |-> tx, ok |-> TRUE]}
          /\ UNCHANGED <<ledger, elsewhere, faults, built, signed, handler, early, answers>>
    BY <1>1 DEF Apply
  <2>2. counter' \in Nat /\ faults' \in Nat
    BY <2>1 DEF IInv, TypeOK
  <2>3. used' = (IF TRUE THEN used \cup {tx.nonce} ELSE used)
    BY <2>1
  <2> QED
    BY <2>1, <2>2, <2>3, TakenInv
<1>2. CASE ApplyFails
  <2>1. PICK tx \in mempool :
          /\ faults' \in {faults, faults + 1}
          /\ sequence' = tx.sequence
          /\ mempool' = {}
          /\ results' = results \cup {[tx |-> tx, ok |-> FALSE]}
          /\ UNCHANGED <<ledger, used, counter, elsewhere, built, signed, handler, early, answers>>
    BY <1>2 DEF ApplyFails
  <2>2. counter' \in Nat /\ faults' \in Nat
    BY <2>1 DEF IInv, TypeOK
  <2>3. used' = (IF FALSE THEN used \cup {tx.nonce} ELSE used)
    BY <2>1
  <2> QED
    BY <2>1, <2>2, <2>3, TakenInv
<1> QED
  BY <1>1, <1>2

\* A call executed outside the bundler consumes its nonce and no number.
LEMMA DirectInv ==
  ASSUME IInv, NEW n \in Nonces, SendDirectly(n)
  PROVE  IInv'
<1>1. /\ n \in signed
      /\ used' = used \cup {n}
      /\ counter' = counter + 1
      /\ elsewhere' = elsewhere \cup {n}
      /\ UNCHANGED <<ledger, sequence, mempool, results, faults, built, signed, handler, early,
                     reported, failed>>
  BY DEF SendDirectly, answers
<1>2. TypeOK'
  BY <1>1 DEF IInv, TypeOK
<1>3. Spent' \subseteq Spent
  BY <1>1 DEF Spent
<1>4. MempoolInv' /\ PostedInv'
  BY <1>1, <1>3 DEF IInv, MempoolInv, PostedInv, Busy, Sent
<1>5. ResultsInv'
  BY <1>1 DEF IInv, ResultsInv
<1> QED
  BY <1>1, <1>2, <1>4, <1>5 DEF IInv, SignedInv, NumberInv, UsedInv, IsBuilt, Busy

\* Signing, and what the network does besides, keeps the invariant.
LEMMA OtherInv ==
  ASSUME IInv, (\E n \in Nonces : Sign(n)) \/ Drop \/ OtherTransaction \/ CloseLedger
               \/ UNCHANGED vars
  PROVE  IInv'
<1> USE DEF IInv
<1>1. ASSUME NEW n \in Nonces, Sign(n)
      PROVE  IInv'
  <2>1. IsBuilt(n) /\ signed' = signed \cup {n}
        /\ UNCHANGED <<ledger, sequence, mempool, results, used, counter, elsewhere, faults,
                       built, handler, early, reported, failed>>
    BY <1>1 DEF Sign, chain, answers
  <2>2. TypeOK'
    BY <2>1 DEF TypeOK
  <2>3. PostedInv' /\ NumberInv'
    BY <2>1 DEF PostedInv, NumberInv, Busy, Sent, IsBuilt, Spent
  <2> QED
    BY <2>1, <2>2, <2>3 DEF SignedInv, MempoolInv, UsedInv, ResultsInv, IsBuilt, Busy, Spent
<1>2. CASE OtherTransaction
  <2>1. /\ mempool = {} /\ sequence' = sequence + 1
        /\ UNCHANGED <<ledger, mempool, results, used, counter, elsewhere, faults, built, signed,
                       handler, early, reported, failed>>
    BY <1>2 DEF OtherTransaction, answers
  <2>2. TypeOK'
    BY <2>1 DEF TypeOK
  <2>3. NumberInv' /\ PostedInv'
    BY <2>1, NumberTaken
  <2>4. ResultsInv'
    <3>1. \A r \in results : r.tx.sequence \in Nat
      BY DEF TypeOK, Result, Transaction
    <3> QED
      BY <2>1, <3>1 DEF ResultsInv, TypeOK
  <2> QED
    BY <2>1, <2>2, <2>3, <2>4 DEF SignedInv, MempoolInv, UsedInv, IsBuilt, Busy
<1>3. CASE Drop \/ CloseLedger \/ UNCHANGED vars
  <2>1. /\ ledger' \in Nat /\ mempool' \subseteq mempool
        /\ UNCHANGED <<sequence, results, used, counter, elsewhere, faults, built, signed,
                       handler, early, reported, failed>>
    BY <1>3 DEF Drop, CloseLedger, vars, chain, answers, TypeOK
  <2>2. TypeOK'
    BY <2>1 DEF TypeOK
  <2>3. PostedInv' /\ NumberInv'
    BY <2>1 DEF PostedInv, NumberInv, Busy, Sent, IsBuilt, Spent
  <2> QED
    BY <2>1, <2>2, <2>3 DEF SignedInv, MempoolInv, UsedInv, ResultsInv, IsBuilt, Busy, Spent
<1> QED
  BY <1>1, <1>2, <1>3

\* The invariant is inductive.
LEMMA NextInv == IInv /\ [Next]_vars => IInv'
BY PrepareInv, SubmitInv, StepInv, ApplyInv, DirectInv, OtherInv DEF Next

(* The invariant holds in every reachable state.                           *)
THEOREM Invariance == Spec => []IInv
BY InitInv, NextInv, PTL DEF Spec

-----------------------------------------------------------------------------
(* Every build reply, transaction and request keeps its shape.             *)
THEOREM TypeCorrect == Spec => []TypeOK
<1>1. IInv => TypeOK
  BY DEF IInv
<1> QED
  BY <1>1, Invariance, PTL

(* However often a signed body is posted, with the transaction of whatever *)
(* build, and whatever else the bundler sends meanwhile, no transaction    *)
(* waits whose nonce another transaction of the bundler consumed, unless   *)
(* the client raised its number.                                           *)
THEOREM NothingSentInVain == Spec => []NothingSentTwice
<1>1. IInv => NothingSentTwice
  BY DEF IInv, MempoolInv, Spent, NothingSentTwice
<1> QED
  BY <1>1, Invariance, PTL

(* Only a number the client has written into its transaction can be one    *)
(* too high when the body is posted: the transactions of the build routes  *)
(* are all covered by NothingSentTwice, whichever entry they come with.    *)
THEOREM BuildsAreNotEarly ==
  Spec => [][\A h \in Handlers, n, m \in Nonces :
               Submit(h, n, m) /\ handler'[h].sequence = built[m].sequence => early' = early]_vars
<1>1. ASSUME IInv, NEW h \in Handlers, NEW n \in Nonces, NEW m \in Nonces,
             Submit(h, n, m), handler'[h].sequence = built[m].sequence
      PROVE  early' = early
  <2>1. IsBuilt(m) /\ early' = early \cup {tx \in {Sent(h)'} : tx.sequence > sequence + 1}
    BY <1>1 DEF Submit
  <2>2. Sent(h)'.sequence = built[m].sequence
    BY <1>1 DEF Sent
  <2>3. built[m].sequence <= sequence + 1 /\ built[m].sequence \in Nat /\ sequence \in Nat
    BY <1>1, <2>1, BuiltIsBuild DEF IInv, NumberInv, TypeOK
  <2>4. ~(Sent(h)'.sequence > sequence + 1)
    BY <2>2, <2>3
  <2> QED
    BY <2>1, <2>4
<1>2. IInv => [\A h \in Handlers, n, m \in Nonces :
                 Submit(h, n, m) /\ handler'[h].sequence = built[m].sequence => early' = early]_vars
  BY <1>1
<1> QED
  BY <1>2, Invariance, PTL

(* The routes and contracts implement the call book: only what was signed  *)
(* is executed, once, and only what was executed is reported.              *)
THEOREM Refinement == Spec => ImplementsCallBook
<1>1. Init => Book!Init
  BY DEF Init, Book!Init
<1>2. ASSUME IInv, [Next]_vars
      PROVE  [Book!Next]_Book!callVars
  <2> USE DEF Book!callVars
  <2>1. CASE \E n \in Nonces : Sign(n)
    BY <2>1 DEF Sign, chain, answers, Book!Next, Book!Sign
  <2>0. ASSUME NEW n \in Nonces, SendDirectly(n)
        PROVE  [Book!Next]_Book!callVars
    <3>1. Book!Execute(n)
      BY <2>0 DEF SendDirectly, Authorised, answers, Book!Execute
    <3> QED
      BY <3>1 DEF Book!Next
  <2>2. CASE Apply
    <3>1. PICK tx \in mempool :
            /\ Authorised(tx.nonce)
            /\ used' = used \cup {tx.nonce}
            /\ counter' = counter + 1
            /\ UNCHANGED <<signed, reported>>
      BY <2>2 DEF Apply, answers
    <3>2. tx.nonce \in Nonces /\ tx.nonce \in signed
      BY <1>2 DEF IInv, TypeOK, Transaction, MempoolInv
    <3>3. Book!Execute(tx.nonce)
      BY <3>1, <3>2 DEF Book!Execute, Authorised
    <3> QED
      BY <3>2, <3>3 DEF Book!Next
  <2>3. ASSUME NEW h \in Handlers, Poll(h)
        PROVE  [Book!Next]_Book!callVars
    <3>1. PICK r \in Settled(h) : IF r.ok THEN Succeeds(h) ELSE Fails(h)
      BY <2>3 DEF Poll
    <3>2. CASE ~r.ok
      BY <3>1, <3>2 DEF Fails, chain
    <3>3. CASE r.ok
      <4>1. Busy(h) /\ handler[h].nonce \in Nonces
        BY <1>2, <2>3, BusyIsRunning DEF Poll, Busy, IInv
      <4>2. r \in results /\ r.tx = Sent(h) /\ r.tx.nonce = handler[h].nonce
        BY <1>2, <4>1, SentTyped DEF Settled, IInv
      <4>3. handler[h].nonce \in used
        BY <1>2, <3>3, <4>2 DEF IInv, ResultsInv
      <4>4. Book!Report(handler[h].nonce)
        BY <3>1, <3>3, <4>3 DEF Succeeds, chain, Book!Report
      <4> QED
        BY <4>1, <4>4 DEF Book!Next
    <3> QED
      BY <3>2, <3>3
  <2>4. CASE UNCHANGED <<signed, used, reported, counter>>
    BY <2>4
  <2>5. ASSUME NEW h \in Handlers, Step(h) \/ Fail(h), ~Poll(h)
        PROVE  UNCHANGED <<signed, used, reported, counter>>
    BY <2>5 DEF Step, Simulate, Accept, Refuse, GiveUp, Fails, Fail, chain, answers
  <2>6. ASSUME (\E c \in Clients : Prepare(c)) \/ (\E h \in Handlers, n, m \in Nonces : Submit(h, n, m))
               \/ ApplyFails \/ Drop \/ OtherTransaction \/ CloseLedger \/ UNCHANGED vars
        PROVE  UNCHANGED <<signed, used, reported, counter>>
    BY <2>6 DEF Prepare, Submit, ApplyFails, Drop, OtherTransaction, CloseLedger, vars,
                chain, answers
  <2> QED
    BY <1>2, <2>0, <2>1, <2>2, <2>3, <2>4, <2>5, <2>6 DEF Next
<1>3. Spec => Book!Init /\ [][Book!Next]_Book!callVars
  BY <1>1, <1>2, Invariance, PTL DEF Spec
<1> QED
  BY <1>3 DEF ImplementsCallBook, Book!Spec

-----------------------------------------------------------------------------
(* A transaction that is answered with "Transaction failed" can not be     *)
(* executed any more: its number is used up.                               *)
FailedInv ==
  \A tx \in failed : tx.sequence <= sequence /\ [tx |-> tx, ok |-> TRUE] \notin results

\* The number of this request's transaction is used up; a request that gives up
\* has seen no status, so it was used up by another one.
Hopeless(h) == Sent(h).sequence <= sequence

\* A number that is used up stays so, and gets no further status.
LEMMA UsedUpStays ==
  ASSUME IInv, [Next]_vars, NEW tx \in Transaction, tx.sequence <= sequence,
         NEW r, r.tx = tx, r \notin results
  PROVE  tx.sequence <= sequence' /\ r \notin results'
<1>1. tx.sequence \in Nat /\ sequence \in Nat
  BY DEF IInv, TypeOK, Transaction
<1>2. CASE Apply \/ ApplyFails
  <2>1. PICK t \in mempool, ok \in BOOLEAN : /\ sequence' = t.sequence
                              /\ results' = results \cup {[tx |-> t, ok |-> ok]}
    BY <1>2 DEF Apply, ApplyFails
  <2>2. t.sequence = sequence + 1
    BY DEF IInv, MempoolInv
  <2> QED
    BY <1>1, <2>1, <2>2
<1>3. CASE OtherTransaction
  BY <1>1, <1>3 DEF OtherTransaction
<1>4. ASSUME NEW h \in Handlers, Step(h) \/ Fail(h)
      PROVE  UNCHANGED <<results, sequence>>
  BY <1>4 DEF Step, Simulate, Accept, Refuse, Poll, GiveUp, Succeeds, Fails, Fail, chain
<1>5. ASSUME (\E h \in Handlers, n, m \in Nonces : Submit(h, n, m)) \/ Drop \/ CloseLedger
             \/ (\E n \in Nonces : Sign(n) \/ SendDirectly(n)) \/ (\E c \in Clients : Prepare(c))
             \/ UNCHANGED vars
      PROVE  UNCHANGED <<results, sequence>>
  BY <1>5 DEF Submit, Drop, CloseLedger, Sign, SendDirectly, Prepare, vars, chain
<1> QED
  BY <1>2, <1>3, <1>4, <1>5 DEF Next

\* Only a request that gives up while its transaction may still be applied can
\* call an applied transaction failed.
LEMMA FailedStep ==
  ASSUME IInv, FailedInv, [Next]_vars,
         [\A h \in Handlers : GiveUp(h) => Hopeless(h)]_vars
  PROVE  FailedInv'
<1> SUFFICES ASSUME NEW tx \in failed'
             PROVE  tx.sequence <= sequence' /\ [tx |-> tx, ok |-> TRUE] \notin results'
  BY DEF FailedInv
<1>1. CASE tx \in failed
  <2>1. tx \in Transaction
    BY <1>1 DEF IInv, TypeOK
  <2> QED
    BY <1>1, <2>1, UsedUpStays DEF FailedInv
<1>2. CASE tx \notin failed
  <2>1. PICK h \in Handlers : (Poll(h) \/ GiveUp(h)) /\ Fails(h)
    <3>1. ~UNCHANGED failed
      BY <1>2
    <3> QED
      BY <3>1 DEF Next, Prepare, Sign, Submit, Step, Simulate, Accept, Refuse, Poll, GiveUp,
                  Succeeds, Fail, Apply, ApplyFails, SendDirectly, Drop, OtherTransaction,
                  CloseLedger, vars, answers
  <2>2. tx = Sent(h) /\ UNCHANGED <<sequence, results>>
    BY <1>2, <2>1 DEF Fails, chain
  <2>3. ~UNCHANGED vars
    BY <1>2 DEF vars, answers
  <2>4. CASE GiveUp(h)
    BY <2>2, <2>3, <2>4 DEF Hopeless, GiveUp, Settled
  <2>5. CASE Poll(h)
    <3>1. PICK r \in Settled(h) : IF r.ok THEN Succeeds(h) ELSE Fails(h)
      BY <2>5 DEF Poll
    <3>2. ~r.ok
      BY <1>2, <3>1 DEF Succeeds
    <3>3. r \in results /\ r.tx = tx
      BY <2>2 DEF Settled
    <3>4. [tx |-> tx, ok |-> TRUE] \notin results
      BY <3>2, <3>3 DEF IInv, ResultsInv
    <3> QED
      BY <2>2, <3>3, <3>4 DEF IInv, ResultsInv
  <2> QED
    BY <2>1, <2>4, <2>5
<1> QED
  BY <1>1, <1>2

(* "Transaction failed" means that the transaction is not executed, if no  *)
(* request gives up before its number is used up without it: a status      *)
(* FAILED is final, thirty misses of getTransaction are not (submit 415,   *)
(* submit-webauthn 159, submit-delegated 126).  This is about one          *)
(* transaction; another body may still have the same call executed.        *)
THEOREM OnlyGivingUpMisleads ==
  Spec /\ [][\A h \in Handlers : GiveUp(h) => Hopeless(h)]_vars => []FailedIsNotExecuted
<1>1. Init => FailedInv
  BY DEF Init, FailedInv
<1>2. IInv /\ FailedInv /\ [Next]_vars
        /\ [\A h \in Handlers : GiveUp(h) => Hopeless(h)]_vars => FailedInv'
  BY FailedStep
<1>3. FailedInv => FailedIsNotExecuted
  BY DEF FailedInv, FailedIsNotExecuted
<1> QED
  BY <1>1, <1>2, <1>3, Invariance, PTL DEF Spec

=============================================================================
