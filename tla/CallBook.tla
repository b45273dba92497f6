------------------------------- MODULE CallBook -------------------------------
(***************************************************************************)
(* What a person who calls the counter through a smart account is          *)
(* promised: every call that is executed was signed, a signature is good   *)
(* for one call, the counter counts the calls, and a call that is reported *)
(* has been executed.  TxSubmit implements it with requests that overlap,  *)
(* repeat and give up, and with one account that pays for all.             *)
(***************************************************************************)
EXTENDS Naturals

CONSTANTS Nonces, CounterMax

VARIABLES signed, executed, reported, counter

callVars == <<signed, executed, reported, counter>>

Init == signed = {} /\ executed = {} /\ reported = {} /\ counter \in 0..CounterMax

Sign(n) ==
  /\ signed' = signed \cup {n}
  /\ UNCHANGED <<executed, reported, counter>>

Execute(n) ==
  /\ n \in signed \ executed
  /\ counter < CounterMax
  /\ executed' = executed \cup {n}
  /\ counter' = counter + 1
  /\ UNCHANGED <<signed, reported>>

Report(n) ==
  /\ n \in executed
  /\ reported' = reported \cup {n}
  /\ UNCHANGED <<signed, executed, counter>>

Next == \E n \in Nonces : Sign(n) \/ Execute(n) \/ Report(n)

Spec == Init /\ [][Next]_callVars

=============================================================================
