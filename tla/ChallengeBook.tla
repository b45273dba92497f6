----------------------------- MODULE ChallengeBook -----------------------------
(***************************************************************************)
(* What the passkey ceremonies promise their clients: a challenge is       *)
(* issued once and authorises at most one acknowledged ceremony, and a     *)
(* passkey whose registration was acknowledged has an account from then    *)
(* on.  PasskeyCeremony implements it with handlers that overlap, fail     *)
(* and repeat.                                                             *)
(***************************************************************************)
EXTENDS Naturals

CONSTANTS Challenges, Credentials

VARIABLES
  issued,  \* challenges handed out so far
  wins,    \* acknowledged ceremonies per challenge
  kept,    \* passkeys with an account
  acked    \* passkeys whose registration was acknowledged

bookVars == <<issued, wins, kept, acked>>

Init ==
  /\ issued = {}
  /\ wins = [c \in Challenges |-> 0]
  /\ kept = {}
  /\ acked = {}

Issue(c) ==
  /\ c \notin issued
  /\ issued' = issued \cup {c}
  /\ UNCHANGED <<wins, kept, acked>>

Keep(k) ==
  /\ kept' = kept \cup {k}
  /\ UNCHANGED <<issued, wins, acked>>

\* A login is acknowledged, or the registration of a passkey with an account.
Acknowledge(c, k) ==
  /\ c \in issued
  /\ wins[c] = 0
  /\ k \in kept
  /\ wins' = [wins EXCEPT ![c] = 1]
  /\ acked' \in {acked, acked \cup {k}}
  /\ UNCHANGED <<issued, kept>>

Next ==
  \/ \E c \in Challenges : Issue(c)
  \/ \E k \in Credentials : Keep(k)
  \/ \E c \in Challenges, k \in Credentials : Acknowledge(c, k)

Spec == Init /\ [][Next]_bookVars

=============================================================================
