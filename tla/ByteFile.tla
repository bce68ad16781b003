------------------------------ MODULE ByteFile ------------------------------
(***************************************************************************)
(* What the file layer promises: a file is a sequence of bytes, a write    *)
(* replaces or appends bytes at the offset of the open file, a read        *)
(* returns what is there, both move the offset past these bytes, and       *)
(* nothing done to one file shows in another.                              *)
(***************************************************************************)
EXTENDS Integers, Sequences

CONSTANTS File, Bytes   \* Bytes: the byte strings that are written

VARIABLES file, off, got   \* contents and offset of each file; what a read just returned

bvars == <<file, off, got>>

Init == file = [i \in File |-> <<>>] /\ off = [i \in File |-> 0] /\ got = <<>>

Overwrite(s, o, t) == SubSeq(s, 1, o) \o t \o SubSeq(s, o + Len(t) + 1, Len(s))

Read(i) == \E n \in 0 .. Len(file[i]) - off[i] :
  /\ off' = [off EXCEPT ![i] = @ + n]
  /\ got' = SubSeq(file[i], off[i] + 1, off[i] + n) /\ UNCHANGED file

\* A directory is read from its start to its end.
ReadAll(i) == UNCHANGED off /\ got' = file[i] /\ UNCHANGED file

Rewind(i) == off' = [off EXCEPT ![i] = 0] /\ got' = <<>> /\ UNCHANGED file

Truncate(i) == /\ off' = [off EXCEPT ![i] = 0] /\ got' = <<>>
               /\ file' = [file EXCEPT ![i] = <<>>]

Write(i) == \E b \in Bytes :
  /\ off' = [off EXCEPT ![i] = @ + Len(b)] /\ got' = <<>>
  /\ file' = [file EXCEPT ![i] = Overwrite(@, off[i], b)]

\* An image is made, before there are offsets.
AddToImage(i) == \E b \in Bytes : /\ UNCHANGED off /\ got' = <<>>
                                  /\ file' = [file EXCEPT ![i] = @ \o b]

Next == \/ \E i \in File : Read(i) \/ ReadAll(i) \/ Rewind(i)
        \/ \E i \in File : Truncate(i)
        \/ \E i \in File : Write(i) \/ AddToImage(i)

Spec == Init /\ [][Next]_bvars
=============================================================================
