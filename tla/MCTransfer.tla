----------------------------- MODULE MCTransfer -----------------------------
(* Instances of Transfer for TLC.                                          *)
EXTENDS Transfer, TLC

(* Chunks and handlers are interchangeable among themselves; used by the   *)
(* run without liveness.                                                   *)
Symmetry == Permutations(Chunks) \cup Permutations(Handlers)
=============================================================================
