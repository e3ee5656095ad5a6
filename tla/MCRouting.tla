------------------------------ MODULE MCRouting ------------------------------
(* Instances of Routing for TLC.                                           *)
EXTENDS Routing, TLC

(* Nodes, sockets and messages are interchangeable among themselves.       *)
Symmetry ==
  Permutations(Nodes) \cup Permutations(Sockets) \cup Permutations(Messages)
=============================================================================
