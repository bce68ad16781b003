-------------------------------- MODULE MCFs --------------------------------
(* Fs on a small instance.                                                 *)
EXTENDS Fs, TLC

C(op, path, new) == [op |-> op, path |-> path, new |-> new]
A == <<"/", "a">>
AB == <<"/", "a", "b">>

MCCall == {C("creat", A, <<>>), C("mkdir", A, <<>>), C("unlink", A, <<>>),
           C("chdir", A, <<>>), C("mknod", <<"b">>, <<>>), C("openw", AB, <<>>),
           C("unlink", AB, <<>>), C("link", A, AB), C("unlink", <<"/">>, <<>>),
           C("link", AB, <<"b">>), C("chdir", <<"/">>, <<>>), C("mkdir", AB, <<>>),
           C("chdir", AB, <<>>), C("chdir", <<"..">>, <<>>)}
MCSymmetry == Permutations(Proc)
=============================================================================
