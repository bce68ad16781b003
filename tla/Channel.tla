------------------------------ MODULE Channel ------------------------------
(***************************************************************************)
(* What a pipe promises: a bounded first-in first-out channel of bytes.    *)
(* A write may be split and its pieces interleave with those of others; a  *)
(* read takes at least one byte, in order, unless the channel is at its    *)
(* end: empty, with no writer left.                                        *)
(***************************************************************************)
EXTENDS Integers, Sequences

CONSTANTS Proc, Byte, Capacity

VARIABLES content,   \* the bytes in the channel
          got,       \* what the last read of each process returned
          writers    \* whether the writing side is open

cvars == <<content, got, writers>>

CInit == /\ content = <<>>
         /\ got = [p \in Proc |-> <<>>]
         /\ writers = TRUE

Send == \E k \in 1 .. Capacity - Len(content), s \in [1 .. Capacity -> Byte] :
          /\ writers
          /\ content' = content \o SubSeq(s, 1, k)
          /\ UNCHANGED <<got, writers>>

Receive(p) == \E n \in 1 .. Len(content) :
                /\ got' = [got EXCEPT ![p] = SubSeq(content, 1, n)]
                /\ content' = SubSeq(content, n + 1, Len(content))
                /\ UNCHANGED writers

EndOfFile(p) == /\ content = <<>> /\ ~writers
                /\ got' = [got EXCEPT ![p] = <<>>]
                /\ UNCHANGED <<content, writers>>

CloseWriters == writers' = FALSE /\ UNCHANGED <<content, got>>

CNext == Send \/ CloseWriters \/ \E p \in Proc : Receive(p) \/ EndOfFile(p)

CSpec == CInit /\ [][CNext]_cvars
=============================================================================
