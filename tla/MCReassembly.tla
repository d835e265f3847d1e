---------------------------- MODULE MCReassembly ----------------------------
(***************************************************************************)
(* Reassembly for TLC.  The sources are alike: none is named in the model. *)
(***************************************************************************)
EXTENDS Reassembly, TLC

SourceSymmetry == Permutations(Sources)
=============================================================================
