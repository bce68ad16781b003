-------------------------------- MODULE MCSh --------------------------------
(* Sh on a small instance.                                                 *)
EXTENDS Sh

X(name, prg) == [type |-> "EXEC", name |-> name, prog |-> prg]
R(c, file, fd) == [type |-> "REDIR", cmd |-> c, file |-> file, fd |-> fd]
P(l, r, node) == [type |-> "PIPE", left |-> l, right |-> r, node |-> node]
L(l, r) == [type |-> "LIST", left |-> l, right |-> r]
B(c) == [type |-> "BACK", cmd |-> c]

\* a | b | c, where c does not read;  d < in | e ; g > out;  h & k | m, where h takes all
\* the descriptors and files it can get.
MCCmds == {P(X("a", "gen"), P(X("b", "cat"), X("c", "nop"), "bc"), "ab"),
           L(P(R(X("d", "gen"), "in", 0), X("e", "cat"), "de"), R(X("g", "cat"), "out", 1)),
           L(B(X("h", "hog")), P(X("k", "gen"), X("m", "cat"), "km"))}
=============================================================================
