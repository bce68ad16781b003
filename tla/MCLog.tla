------------------------------- MODULE MCLog -------------------------------
(***************************************************************************)
(* Log on small instances.  MCHome is the range of blocks after the log.   *)
(***************************************************************************)
EXTENDS Log, TLC

CONSTANT NHome    \* how many blocks the file system has

MCHome == NLOG .. NLOG + NHome - 1

MCSymmetry == Permutations(Proc) \cup Permutations(Val)
=============================================================================
