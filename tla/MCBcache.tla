------------------------------ MODULE MCBcache ------------------------------
(* Bcache for TLC: processes, blocks and contents are interchangeable, the  *)
(* disk's first contents being any.                                         *)
EXTENDS Bcache, TLC

Symmetry == Permutations(Proc) \cup Permutations(Block) \cup Permutations(Val)
=============================================================================
