-------------------------- MODULE MCPasskeyCeremony --------------------------
(* Model values, symmetry and state bounds for PasskeyCeremony.            *)
EXTENDS PasskeyCeremony, TLC

Symmetry == Permutations(Browsers) \cup Permutations(Users)
              \cup Permutations(Challenges) \cup Permutations(Handlers)

=============================================================================
