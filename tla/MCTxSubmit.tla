------------------------------ MODULE MCTxSubmit ------------------------------
(* Two clients that share the bundler, one of which re-stamps its          *)
(* transaction when it submits.                                            *)
EXTENDS TxSubmit, TLC

CONSTANTS First, FirstPath, SecondPath

MCPath == [c \in Clients |-> IF c = First THEN FirstPath ELSE SecondPath]

\* The state without failed, a history that no step and, but for its typing, no
\* property of the run with this view depends on.
Seen == <<chain, built, signed, handler, early, reported>>

Symmetry == Permutations(Handlers) \cup Permutations(Nonces) \cup Permutations(Fees)

=============================================================================
