----------------------------- MODULE MCSessions -----------------------------
(* Sessions on small instances.  Users, passwords and requests are interchangeable. *)
EXTENDS Sessions, TLC

Symmetry == Permutations(Users) \cup Permutations(Passwords) \cup Permutations(Requests)
=============================================================================
