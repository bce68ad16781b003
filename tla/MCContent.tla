------------------------------ MODULE MCContent -----------------------------
(* Content with the kernel's MAXOPBLOCKS and NDIRECT, for one large write.  *)
EXTENDS Content

MCImages == {<<<<1, <<1>>>>>>}
MCBytes == {[k \in 1 .. 26 |-> 1]}
=============================================================================
