-------------------------- MODULE MCCallAuthorization --------------------------
\* One key of each kind.
EXTENDS CallAuthorization, TLC

CONSTANTS Phantom, Passkey, Freighter

KindOf == [s \in Signers |->
  IF s = Phantom THEN "phantom" ELSE IF s = Passkey THEN "passkey" ELSE "freighter"]

Symmetry == Permutations(Nonces) \cup Permutations(GNonces) \cup Permutations(Handlers)

=============================================================================
