--------------------------- MODULE MCShareSession ---------------------------
(* Instances of ShareSession for TLC.                                      *)
EXTENDS ShareSession, TLC

(* Clients, shares and handlers are interchangeable among themselves.      *)
Symmetry ==
  Permutations(Clients) \cup Permutations(Shares) \cup Permutations(Handlers)
=============================================================================
