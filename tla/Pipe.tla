-------------------------------- MODULE Pipe --------------------------------
(***************************************************************************)
(* A pipe of pipe.c shared by several readers and writers, with sleep(),   *)
(* wakeup() and kill() of proc.c.  A critical section of the pipe's lock   *)
(* is one step; it ends by keeping the lock when the process is about to   *)
(* call sleep(), which gives up the lock and the CPU in one step, since    *)
(* every wakeup and kill() waits for ptable.lock.  nread and nwrite are    *)
(* unsigned integers that wrap at UINT.                                    *)
(***************************************************************************)
EXTENDS Integers, Sequences, FiniteSetsExt

CONSTANTS Reader, Writer,  \* the processes that hold the two ends at first
          PIPESIZE,
          UINT,            \* one more than the largest unsigned int
          WriteLens,       \* bound: how many bytes a write may ask for
          ReadLens,        \* bound: how many bytes a read may ask for
          None             \* the lock is free; also the junk that kfree() leaves

ASSUME PipeAssumption ==
  /\ PIPESIZE \in Nat \ {0} /\ UINT \in Nat /\ WriteLens \cup ReadLens \subseteq Nat \ {0}
  /\ UINT > PIPESIZE /\ UINT % PIPESIZE = 0
  /\ Reader \cap Writer = {} /\ None \notin Reader \cup Writer

Proc == Reader \cup Writer
Byte == Writer      \* a byte is represented by the process that wrote it

VARIABLES
  data, nread, nwrite, readopen, writeopen,  \* struct pipe
  lock,      \* the process that holds p->lock across steps, or None
  fds,       \* the processes that have the end they hold still open
  pc,        \* idle, in pipewrite() or piperead(), about to sleep, asleep
  addr,      \* the bytes a writer has still to write
  n,         \* the bytes a reader asks for
  got,       \* the bytes the last piperead() of a process returned
  killed

pipe == <<data, nread, nwrite, readopen, writeopen>>
vars == <<pipe, lock, fds, pc, addr, n, got, killed>>

\* pipealloc().
Init == /\ data = [i \in 0 .. PIPESIZE - 1 |-> None]
        /\ nread = 0 /\ nwrite = 0 /\ readopen = TRUE /\ writeopen = TRUE
        /\ lock = None /\ fds = Proc
        /\ pc = [p \in Proc |-> "idle"]
        /\ addr = [p \in Writer |-> <<>>] /\ n = [p \in Reader |-> 0]
        /\ got = [p \in Reader |-> <<>>]
        /\ killed = [p \in Proc |-> FALSE]

\* Variant that wakes nobody.
wakeup_none(pcs, S) == pcs

\* wakeup(&p->nread) is wakeup(Reader), wakeup(&p->nwrite) is wakeup(Writer):
\* only readers sleep on the one, only writers on the other.
wakeup(pcs, S) == [p \in Proc |-> IF p \in S /\ pcs[p] = "asleep" THEN "run" ELSE pcs[p]]
Goto(p, l) == [pc EXCEPT ![p] = l]

-----------------------------------------------------------------------------
(* System calls on the pipe.                                               *)

\* sys_write() and sys_read() reach the pipe; trap() lets no killed process in.
sys_write(p) == \E len \in WriteLens :
  /\ pc[p] = "idle" /\ ~killed[p] /\ p \in fds \cap Writer
  /\ addr' = [addr EXCEPT ![p] = [i \in 1 .. len |-> p]]
  /\ pc' = Goto(p, "run")
  /\ UNCHANGED <<pipe, lock, fds, n, got, killed>>

sys_read(p) == \E len \in ReadLens :
  /\ pc[p] = "idle" /\ ~killed[p] /\ p \in fds \cap Reader
  /\ n' = [n EXCEPT ![p] = len]
  /\ pc' = Goto(p, "run")
  /\ UNCHANGED <<pipe, lock, fds, addr, got, killed>>

\* Variant of the test that is one byte late.
Full_late(k) == (nwrite + k) % UINT = (nread + PIPESIZE + 1) % UINT

\* The test of pipewrite()'s inner loop, after k more bytes.
Full(k) == (nwrite + k) % UINT = (nread + PIPESIZE) % UINT
\* data[] after the first k bytes of s are put into it.
Put(s, k) == [i \in DOMAIN data |->
  LET J == {j \in 1 .. k : (nwrite + j - 1) % PIPESIZE = i}
  IN IF J = {} THEN data[i] ELSE s[Max(J)]]

\* pipewrite(): copy until done or full; when full, give up, or wake the
\* readers and sleep.
pipewrite(p) ==
  LET s == addr[p]
      k == Min({Len(s)} \cup {j \in 0 .. UINT - 1 : Full(j)})
  IN /\ p \in Writer /\ pc[p] = "run" /\ lock = None
     /\ data' = Put(s, k)
     /\ nwrite' = (nwrite + k) % UINT
     /\ \/ /\ k = Len(s)
           /\ pc' = wakeup(Goto(p, "idle"), Reader)
           /\ addr' = [addr EXCEPT ![p] = <<>>]
           /\ UNCHANGED lock
        \/ /\ k < Len(s) /\ (~readopen \/ killed[p])
           /\ pc' = Goto(p, "idle")
           /\ addr' = [addr EXCEPT ![p] = <<>>]
           /\ UNCHANGED lock
        \/ /\ k < Len(s) /\ readopen /\ ~killed[p]
           /\ pc' = wakeup(Goto(p, "sleep"), Reader)
           /\ addr' = [addr EXCEPT ![p] = SubSeq(s, k + 1, Len(s))]
           /\ lock' = p
     /\ UNCHANGED <<nread, readopen, writeopen, fds, n, got, killed>>

\* piperead(): wait while empty, then copy what there is.
piperead(p) ==
  LET m == Min({n[p]} \cup {j \in 0 .. UINT - 1 : (nread + j) % UINT = nwrite})
  IN /\ p \in Reader /\ pc[p] = "run" /\ lock = None
     /\ IF nread = nwrite /\ writeopen
        THEN /\ pc' = Goto(p, IF killed[p] THEN "idle" ELSE "sleep")
             /\ lock' = IF killed[p] THEN None ELSE p
             /\ n' = [n EXCEPT ![p] = IF killed[p] THEN 0 ELSE @]
             /\ UNCHANGED <<nread, got>>
        ELSE /\ nread' = (nread + m) % UINT
             /\ got' = [got EXCEPT ![p] = [j \in 1 .. m |-> data[(nread + j - 1) % PIPESIZE]]]
             /\ n' = [n EXCEPT ![p] = 0]
             /\ pc' = wakeup(Goto(p, "idle"), Writer)
             /\ UNCHANGED lock
     /\ UNCHANGED <<data, nwrite, readopen, writeopen, fds, addr, killed>>

\* sleep(chan, &p->lock).
sleep(p) == /\ pc[p] = "sleep"
            /\ pc' = Goto(p, "asleep")
            /\ lock' = None
            /\ UNCHANGED <<pipe, fds, addr, n, got, killed>>

\* Variant that closes an end when the first of its holders closes it.
close_first(p) ==
  /\ pc[p] = "idle" /\ p \in fds /\ lock = None
  /\ fds' = fds \ {p}
  /\ writeopen' = (writeopen /\ p \notin Writer)
  /\ readopen' = (readopen /\ p \notin Reader)
  /\ pc' = wakeup(pc, Proc \ {p})
  /\ UNCHANGED <<data, nread, nwrite, lock, addr, n, got, killed>>

\* fileclose() by a system call or exit(); the last one calls pipeclose().
close(p) ==
  /\ pc[p] = "idle" /\ p \in fds /\ lock = None
  /\ fds' = fds \ {p}
  /\ writeopen' = (writeopen /\ fds' \cap Writer # {})
  /\ readopen' = (readopen /\ fds' \cap Reader # {})
  /\ pc' = IF writeopen' # writeopen THEN wakeup(pc, Reader)
           ELSE IF readopen' # readopen THEN wakeup(pc, Writer) ELSE pc
  /\ UNCHANGED <<data, nread, nwrite, lock, addr, n, got, killed>>

kill(p) == /\ p \in fds
           /\ killed' = [killed EXCEPT ![p] = TRUE]
           /\ pc' = wakeup(pc, {p})
           /\ UNCHANGED <<pipe, lock, fds, addr, n, got>>

\* Both ends are closed and kfree() has taken the page.
Freed == ~readopen /\ ~writeopen /\ UNCHANGED vars

Kernel(p) == pipewrite(p) \/ piperead(p) \/ sleep(p)
Next == Freed \/ \E p \in Proc : sys_write(p) \/ sys_read(p) \/ Kernel(p) \/ close(p) \/ kill(p)

Spec == Init /\ [][Next]_vars

-----------------------------------------------------------------------------
(* Properties.                                                             *)

Used == (nwrite - nread) % UINT

\* Used is never more than PIPESIZE, so the bytes of the pipe are these.
Content == [j \in 1 .. Used |-> data[(nread + j - 1) % PIPESIZE]]

Ch == INSTANCE Channel WITH Proc <- Reader, Capacity <- PIPESIZE, content <- Content, writers <- writeopen

\* However reads, writes, closes, kills and wrapping counters interleave, the
\* bytes come out once each and in order, and a read returns no byte only at
\* the end of the file.
IsChannel == Ch!CSpec

\* The page is not freed under a process that is in pipewrite() or piperead().
NoUseAfterFree == ~readopen /\ ~writeopen => \A p \in Proc : pc[p] = "idle"

\* Not checked, since neither holds (see the README).  A reader sleeps only on an empty
\* pipe that can still be written to.
ReaderHasReason == \A p \in Reader : pc[p] = "asleep" => Used = 0 /\ writeopen
\* A killed process leaves the pipe's code, to exit.
KilledReturns == \A p \in Proc : []<>(killed[p] => pc[p] = "idle")

\* A system call on the pipe returns.
CallReturns == \A p \in Proc : []<>(pc[p] = "idle")

\* The kernel runs each process that can run; a spinning process gets the lock.
KernelFair == \A p \in Proc : SF_vars(Kernel(p))
\* Besides, a process that is idle again and again closes its end some day (an
\* assumption on user programs, which exit() makes true of those that end).
UserFair == \A p \in Proc : SF_vars(close(p))
KillSpec == Spec /\ KernelFair
LiveSpec == KillSpec /\ UserFair
=============================================================================
