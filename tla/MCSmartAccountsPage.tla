-------------------------- MODULE MCSmartAccountsPage --------------------------
(* Two wallets, one of which may be asked to sign again, and two passkeys. *)
EXTENDS SmartAccountsPage, TLC

Symmetry == Permutations(Passkeys) \cup Permutations(Increments)

=============================================================================
