-------------------------- MODULE MCMasterElection --------------------------
(* Instances of MasterElection for TLC.                                    *)
EXTENDS MasterElection, TLC

(* Nodes are interchangeable; used by the runs without liveness.           *)
NodeSymmetry == Permutations(Nodes)
=============================================================================
