-------------------------------- MODULE Tty ---------------------------------
(***************************************************************************)
(* What the console promises: a line is edited until it is entered, and    *)
(* entered characters are read once and in order, a line at a time.        *)
(***************************************************************************)
EXTENDS Integers, Sequences, SequencesExt

CONSTANTS Reader, Char, SIZE

VARIABLES ready,  \* entered, and not read yet
          line,   \* the line being edited
          got     \* what each reader's call has read so far

vars == <<ready, line, got>>
EOF == "^D"
Ends == {"\n", EOF}

Init == ready = <<>> /\ line = <<>> /\ got = [p \in Reader |-> <<>>]

\* A character is lost if there is no room for it.
Type(c) ==
  LET l == Append(line, c)
  IN /\ Len(ready) + Len(line) < SIZE
     /\ IF c \in Ends \/ Len(ready) + Len(l) = SIZE
        THEN ready' = ready \o l /\ line' = <<>>
        ELSE ready' = ready /\ line' = l
     /\ UNCHANGED got

Edit == /\ line # <<>> /\ line' \in {Front(line), <<>>}
        /\ UNCHANGED <<ready, got>>

\* A reader takes characters of one line; the end of file is taken by a call that reads nothing.
Read(p) ==
  \E k \in 0 .. Len(ready), new \in BOOLEAN :
    LET x == SubSeq(ready, 1, k)  old == IF new THEN <<>> ELSE got[p]
    IN /\ \A i \in 1 .. k - 1 : x[i] \notin Ends
       /\ IF k > 0 /\ x[k] = EOF THEN k = 1 /\ old = <<>> /\ got' = [got EXCEPT ![p] = <<>>]
          ELSE got' = [got EXCEPT ![p] = old \o x]
       /\ ready' = SubSeq(ready, k + 1, Len(ready))
       /\ UNCHANGED line

Next == (\E c \in Char \cup Ends : Type(c)) \/ Edit \/ (\E p \in Reader : Read(p))

Spec == Init /\ [][Next]_vars
=============================================================================
