------------------------------ MODULE MCRunner ------------------------------
(* Runner and Limiter on small instances: a model that takes one value, and one that does not say.
   The two share no state, so that no interleaving of them is worth a state: in each behaviour
   one of them moves.  Requests, and the limiter's threads and addresses, are interchangeable. *)
EXTENDS Runner, Limiter, TLC

CONSTANTS one, any

VARIABLE part

SmallTakes == one :> 1
Symmetry == Permutations(Requests) \cup Permutations(Threads) \cup Permutations(Addresses)

EitherInit ==
  /\ part \in {"runner", "limiter"}
  /\ Init /\ LimiterInit
  /\ part = "limiter" => runs = Mock

EitherNext ==
  /\ \/ part = "runner" /\ Next /\ UNCHANGED limiterVars
     \/ part = "limiter" /\ LimiterNext /\ UNCHANGED vars
  /\ UNCHANGED part

Either == EitherInit /\ [][EitherNext]_<<vars, limiterVars, part>>
=============================================================================
