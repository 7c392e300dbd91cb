---------------------------- MODULE MCSpecialDir ----------------------------
(***************************************************************************)
(* SpecialDir for TLC: processes of one release of pbuild.                 *)
(***************************************************************************)
EXTENDS SpecialDir, TLC

CONSTANT release

MCVersionOf == [p \in Proc |-> release]
Symmetry == Permutations(Proc)
=============================================================================
