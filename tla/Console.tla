------------------------------ MODULE Console -------------------------------
(***************************************************************************)
(* The console's input (console.c): consoleintr() puts what is typed into  *)
(* a ring with three indices, which count modulo UINT, and lets the last   *)
(* line be edited; consoleread() takes entered lines from it.  Both run    *)
(* under input.lock, but for sleep(): one step is the work from one        *)
(* acquisition of the lock to its release.  kill() does not take it.       *)
(***************************************************************************)
EXTENDS Integers, Sequences, FiniteSetsExt

CONSTANTS Reader, Char,
          INPUT_BUF, UINT,  \* the size of the ring, and the range of its indices
          ReadLens          \* the lengths that are asked for

VARIABLES input,   \* [buf, r, w, e]
          pc,      \* idle; about to sleep with input.lock; asleep; woken
          n, got,  \* what is missing, and what was copied to dst
          killed

vars == <<input, pc, n, got, killed>>

Keys == Char \cup {"\n", "\r", "^D", "^U", "^H", "^P"}
Slot(i) == i % INPUT_BUF

Init == /\ input = [buf |-> [i \in 0 .. INPUT_BUF - 1 |-> "0"], r |-> 0, w |-> 0, e |-> 0]
        /\ pc = [p \in Reader |-> "idle"]
        /\ n = [p \in Reader |-> 0]
        /\ got = [p \in Reader |-> <<>>]
        /\ killed = [p \in Reader |-> FALSE]

\* Nobody holds input.lock.
Unlocked == \A p \in Reader : pc[p] # "to sleep"

\* Variant: nobody is woken.
wakeup_none == pc' = pc
wakeup == pc' = [p \in Reader |-> IF pc[p] = "asleep" THEN "woken" ELSE pc[p]]

\* The characters from index i up to j.
Span(i, j) == [k \in 1 .. (j - i) % UINT |-> input.buf[Slot(i + k - 1)]]

\* How many characters of s the kill-line key erases: back to a newline, or all.
Erased(s) == Len(s) - Max({0} \cup {k \in DOMAIN s : s[k] = "\n"})
Back(k) == /\ input' = [input EXCEPT !.e = (@ - k) % UINT]
           /\ UNCHANGED pc

\* Variant: the last place of the ring is not the end of the line.
IsFull_late(e) == e = (input.r + INPUT_BUF + 1) % UINT
IsFull(e) == e = (input.r + INPUT_BUF) % UINT

Insert(c) ==
  LET e == (input.e + 1) % UINT  in == [input EXCEPT !.buf[Slot(input.e)] = c, !.e = e]
  IN IF c \in {"\n", "^D"} \/ IsFull(e) THEN input' = [in EXCEPT !.w = e] /\ wakeup
     ELSE input' = in /\ UNCHANGED pc

\* One character of getc(): the loop may take several under one acquisition.
consoleintr(key) ==
  /\ Unlocked
  /\ CASE key = "^P" -> UNCHANGED <<input, pc>>
       [] key = "^U" -> Back(Erased(Span(input.w, input.e)))
       [] key = "^H" -> Back(IF input.e # input.w THEN 1 ELSE 0)
       [] OTHER -> IF (input.e - input.r) % UINT < INPUT_BUF
                   THEN Insert(IF key = "\r" THEN "\n" ELSE key)
                   ELSE UNCHANGED <<input, pc>>
  /\ UNCHANGED <<n, got, killed>>

\* consoleread() from the top of its loop: p has copied old and misses m characters.
Loop(p, old, m) ==
  LET here == Span(input.r, input.w)
      s == SubSeq(here, 1, Min({m, Len(here)}))
      ends == {k \in DOMAIN s : s[k] \in {"\n", "^D"}}
      last == IF ends = {} THEN Len(s) ELSE Min(ends)
      eof == ends # {} /\ s[last] = "^D"
      new == IF eof THEN last - 1 ELSE last
      kept == eof /\ old \o SubSeq(s, 1, new) # <<>>
      returns == ends # {} \/ Len(s) = m
  IN /\ input' = [input EXCEPT !.r = (@ + IF kept THEN new ELSE last) % UINT]
     /\ got' = [got EXCEPT ![p] = old \o SubSeq(s, 1, new)]
     /\ n' = [n EXCEPT ![p] = IF returns \/ killed[p] THEN 0 ELSE m - new]
     /\ pc' = [pc EXCEPT ![p] = IF returns \/ killed[p] THEN "idle" ELSE "to sleep"]
     /\ killed' = [killed EXCEPT ![p] = FALSE]

consoleread(p, len) == /\ pc[p] = "idle" /\ Unlocked
                       /\ Loop(p, <<>>, len)

\* sleep() gives up input.lock, and takes it again when it returns.
sleep(p) == /\ pc[p] = "to sleep"
            /\ pc' = [pc EXCEPT ![p] = "asleep"]
            /\ UNCHANGED <<input, n, got, killed>>
woken(p) == /\ pc[p] = "woken" /\ Unlocked
            /\ Loop(p, got[p], n[p])

\* kill(): a killed reader exits when it returns, and another process may take its place.
kill(p) == /\ pc[p] # "idle" /\ ~killed[p]
           /\ killed' = [killed EXCEPT ![p] = TRUE]
           /\ pc' = [pc EXCEPT ![p] = IF @ = "asleep" THEN "woken" ELSE @]
           /\ UNCHANGED <<input, n, got>>

Next == \/ \E key \in Keys : consoleintr(key)
        \/ \E p \in Reader : \/ \E len \in ReadLens : consoleread(p, len)
                             \/ sleep(p) \/ woken(p) \/ kill(p)

Spec == Init /\ [][Next]_vars

-----------------------------------------------------------------------------
\* The ring is a line editor: what consoleread() returns is what was typed, as edited, once
\* and in order, although the indices wrap, the line being edited shares the ring with the
\* lines that wait, and the ring may be full.
T == INSTANCE Tty WITH ready <- Span(input.r, input.w), line <- Span(input.w, input.e), SIZE <- INPUT_BUF
IsTty == T!Spec

\* No reader sleeps while there is something to read: consoleintr() cannot run between
\* the test and the sleep, and a full ring is readable.
ReaderNotMissed ==
  /\ \A p \in Reader : pc[p] \in {"asleep", "to sleep"} => input.r = input.w
  /\ (input.e - input.r) % UINT = INPUT_BUF => input.r # input.w
=============================================================================
