----------------------------- MODULE MCDevices ------------------------------
(* Devices on small instances: devices and requests are interchangeable. *)
EXTENDS Devices, TLC

Symmetry == Permutations(Ids) \cup Permutations(Requests)
=============================================================================
