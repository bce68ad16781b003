------------------------------- MODULE MCProc -------------------------------
(***************************************************************************)
(* Proc on small instances.                                                *)
(***************************************************************************)
EXTENDS Proc, TLC

MCSymmetry == Permutations(CPU)
=============================================================================
