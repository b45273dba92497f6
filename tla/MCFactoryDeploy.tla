--------------------------- MODULE MCFactoryDeploy ---------------------------
(* Accounts that share the bundler, on routes that treat a transaction     *)
(* they never saw land differently.                                        *)
EXTENDS FactoryDeploy, TLC

CONSTANTS First, FirstRoute, Second, SecondRoute, OtherRoute

MCRoute == [a \in Accounts |-> CASE a = First -> FirstRoute
                                 [] a = Second -> SecondRoute
                                 [] OTHER -> OtherRoute]

Symmetry == Permutations(Handlers) \cup Permutations(Instances)

=============================================================================
