------------------------- MODULE MCUploadAdmission -------------------------
(* Instances of UploadAdmission for TLC.                                   *)
EXTENDS UploadAdmission, TLC

CONSTANTS c1, c2

(* Both are in one share, but c2 has registered again since it joined, and *)
(* its session names no share.                                             *)
MCPartner == (c1 :> c2) @@ (c2 :> None)

(* Files and handlers are interchangeable among themselves.                *)
Symmetry == Permutations(Files) \cup Permutations(Handlers)
=============================================================================
