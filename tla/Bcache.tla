------------------------------- MODULE Bcache -------------------------------
(***************************************************************************)
(* The buffer cache of bio.c on the disk driver of ide.c: processes that   *)
(* get, read, change, write and release buffers, the queue of requests,    *)
(* and the disk, which serves one request at a time and interrupts.  A     *)
(* critical section of bcache.lock or idelock is one step.  A process      *)
(* holds one buffer at a time.                                             *)
(***************************************************************************)
EXTENDS Integers, Sequences, FiniteSetsExt

CONSTANTS Proc, Block, Val,
          NBUF,        \* param.h: buffers in the cache
          MaxPinned,   \* the most buffers the log keeps B_DIRTY at a time
          Outcomes,    \* what idewait(1) >= 0 may yield: {TRUE}, or BOOLEAN for a bad disk
          None         \* no block, no buffer, no request

Buf == 1 .. NBUF

\* What idestart() tells the controller.
Command == [write : BOOLEAN, blk : Block, data : Val \cup {None}]

ASSUME BcacheAssumption ==
  /\ NBUF \in Nat \ {0} /\ MaxPinned \in Nat /\ Outcomes \subseteq BOOLEAN
  /\ None \notin Block \cup Buf \cup Val \cup Command

VARIABLES
  blockno, busy, valid, dirty, data,  \* struct buf
  lru,        \* the list of bcache, most recently used first
  idequeue,   \* the queue of requests; its head is the active one
  disk,       \* what is on the disk
  ide,        \* the command the controller executes, or None
  irq,        \* the disk's interrupt is pending
  pc, want,   \* where a process is, and the block it asks for
  bp,         \* the buffer a process has got, or sleeps for
  latest      \* history: the last contents a process gave each block

cache == <<blockno, busy, valid, dirty, data>>
hardware == <<disk, ide, irq>>
vars == <<cache, lru, idequeue, hardware, pc, want, bp, latest>>

\* binit() puts each buffer at the head of the list in turn; b->dev = -1
\* matches no block.
Init == /\ blockno = [b \in Buf |-> None]
        /\ busy = [b \in Buf |-> FALSE] /\ valid = [b \in Buf |-> FALSE]
        /\ dirty = [b \in Buf |-> FALSE] /\ data = [b \in Buf |-> None]
        /\ lru = [i \in 1 .. NBUF |-> NBUF + 1 - i]
        /\ idequeue = <<>> /\ ide = None /\ irq = FALSE
        /\ disk \in [Block -> Val]
        /\ pc = [p \in Proc |-> "idle"] /\ want = [p \in Proc |-> None]
        /\ bp = [p \in Proc |-> None]
        /\ latest = disk

Goto(p, l) == [pc EXCEPT ![p] = l]

\* wakeup(b): b is the channel of those who wait for the buffer in bget()
\* and of the one who waits for its I/O in iderw(); both test again.
wakeup(pcs, b) == [p \in Proc |->
  CASE bp[p] = b /\ pcs[p] = "bget_asleep" -> "bget"
    [] bp[p] = b /\ pcs[p] = "iderw_asleep" -> "iderw_wait"
    [] OTHER -> pcs[p]]

-----------------------------------------------------------------------------
(* bio.c.                                                                  *)

\* A process calls bread(k).
bread(p, k) == /\ pc[p] = "idle"
               /\ want' = [want EXCEPT ![p] = k]
               /\ pc' = Goto(p, "bget")
               /\ UNCHANGED <<cache, lru, idequeue, hardware, bp, latest>>

\* Variant without the test of B_DIRTY.
Recyclable_dirty(b) == ~busy[b]
Recyclable(b) == ~busy[b] /\ ~dirty[b]

\* bget() returns a cached buffer once it is not B_BUSY.
\* Variant without the test.
InUse_ignored(b) == FALSE
InUse(b) == busy[b]

\* One pass of bget() over the list, and bread()'s test of B_VALID.
bget(p) ==
  LET hits == {b \in Buf : blockno[b] = want[p]}
      old == {i \in 1 .. NBUF : Recyclable(lru[i])}
      b == IF hits # {} THEN CHOOSE x \in hits : TRUE ELSE lru[Max(old)]
  IN /\ pc[p] = "bget"
     /\ IF hits = {} /\ old = {}
        THEN pc' = Goto(p, "no_buffers") /\ UNCHANGED <<cache, bp>>
        ELSE /\ bp' = [bp EXCEPT ![p] = b]
             /\ IF hits # {} /\ InUse(b)
                THEN pc' = Goto(p, "bget_asleep") /\ UNCHANGED cache
                ELSE /\ blockno' = [blockno EXCEPT ![b] = want[p]]
                     /\ busy' = [busy EXCEPT ![b] = TRUE]
                     /\ valid' = [valid EXCEPT ![b] = @ /\ hits # {}]
                     /\ dirty' = [dirty EXCEPT ![b] = @ /\ hits # {}]
                     /\ pc' = Goto(p, IF valid'[b] THEN "hold" ELSE "iderw")
                     /\ UNCHANGED data
     /\ UNCHANGED <<lru, idequeue, hardware, want, latest>>

\* The buffers the log keeps in the cache: dirty, and not being written.
Pinned == {b \in Buf : dirty[b] /\ \A p \in Proc :
             bp[p] = b => pc[p] \in {"hold", "bget", "bget_asleep", "no_buffers"}}

\* The holder changes the block and calls log_write(), which pins it.
log_write(p, v) ==
  LET b == bp[p] IN
  /\ pc[p] = "hold"
  /\ b \in Pinned \/ Cardinality(Pinned) < MaxPinned
  /\ data' = [data EXCEPT ![b] = v]
  /\ dirty' = [dirty EXCEPT ![b] = TRUE]
  /\ latest' = [latest EXCEPT ![blockno[b]] = v]
  /\ UNCHANGED <<blockno, busy, valid, lru, idequeue, hardware, pc, want, bp>>

bwrite(p, v) ==
  LET b == bp[p] IN
  /\ pc[p] = "hold"
  /\ data' = [data EXCEPT ![b] = v]
  /\ dirty' = [dirty EXCEPT ![b] = TRUE]
  /\ latest' = [latest EXCEPT ![blockno[b]] = v]
  /\ pc' = Goto(p, "iderw")
  /\ UNCHANGED <<blockno, busy, valid, lru, idequeue, hardware, want, bp>>

\* brelse() moves the buffer to the front of the list.
ToFront(b) == LET k == CHOOSE i \in 1 .. NBUF : lru[i] = b
              IN <<b>> \o (SubSeq(lru, 1, k - 1) \o SubSeq(lru, k + 1, NBUF))

brelse(p) ==
  LET b == bp[p] IN
  /\ pc[p] = "hold"
  /\ lru' = ToFront(b)
  /\ busy' = [busy EXCEPT ![b] = FALSE]
  /\ pc' = wakeup(Goto(p, "idle"), b)
  /\ want' = [want EXCEPT ![p] = None]
  /\ bp' = [bp EXCEPT ![p] = None]
  /\ UNCHANGED <<blockno, valid, dirty, data, idequeue, hardware, latest>>

-----------------------------------------------------------------------------
(* ide.c.                                                                  *)

\* idestart(b), with idewait(0) spinning until the controller is ready.
idestart(b) == /\ ide = None
               /\ ide' = [write |-> dirty[b], blk |-> blockno[b], data |-> data[b]]

\* The end of ideintr(): start the disk on the next request.
\* Variant that leaves it to the next iderw().
StartNext_none(q) == UNCHANGED ide
StartNext(q) == IF q = <<>> THEN UNCHANGED ide ELSE idestart(Head(q))

\* iderw() up to its sleep: queue the request, start the disk if it is idle.
iderw(p) ==
  LET b == bp[p] IN
  /\ pc[p] = "iderw"
  /\ IF ~busy[b] \/ (valid[b] /\ ~dirty[b])
     THEN pc' = Goto(p, "panic") /\ UNCHANGED <<idequeue, ide>>
     ELSE /\ idequeue' = Append(idequeue, b)
          /\ IF idequeue = <<>> THEN idestart(b) ELSE UNCHANGED ide
          /\ pc' = Goto(p, "iderw_asleep")
  /\ UNCHANGED <<cache, lru, disk, irq, want, bp, latest>>

\* iderw() woken: the test of its loop, under idelock.
iderw_wait(p) ==
  /\ pc[p] = "iderw_wait"
  /\ pc' = Goto(p, IF valid[bp[p]] /\ ~dirty[bp[p]] THEN "hold" ELSE "iderw_asleep")
  /\ UNCHANGED <<cache, lru, idequeue, hardware, want, bp, latest>>

\* The controller finishes a command and raises the interrupt.
disk_done ==
  /\ ide # None /\ ~irq
  /\ disk' = IF ide.write THEN [disk EXCEPT ![ide.blk] = ide.data] ELSE disk
  /\ ide' = None
  /\ irq' = TRUE
  /\ UNCHANGED <<cache, lru, idequeue, pc, want, bp, latest>>

\* The interrupt handler; ok is whether idewait(1) sees no error.
ideintr(ok) ==
  LET b == Head(idequeue) IN
  /\ irq /\ irq' = FALSE
  /\ IF idequeue = <<>>
     THEN UNCHANGED <<cache, idequeue, ide, pc>>
     ELSE /\ idequeue' = Tail(idequeue)
          /\ data' = IF ~dirty[b] /\ ok THEN [data EXCEPT ![b] = disk[blockno[b]]] ELSE data
          /\ valid' = [valid EXCEPT ![b] = TRUE]
          /\ dirty' = [dirty EXCEPT ![b] = FALSE]
          /\ pc' = wakeup(pc, b)
          /\ StartNext(Tail(idequeue))
          /\ UNCHANGED <<blockno, busy>>
  /\ UNCHANGED <<lru, disk, want, bp, latest>>

Step(p) == bget(p) \/ iderw(p) \/ iderw_wait(p)
Disk == disk_done \/ \E ok \in Outcomes : ideintr(ok)
Next == \/ Disk
        \/ \E p \in Proc : \/ Step(p) \/ brelse(p)
                           \/ \E k \in Block : bread(p, k)
                           \/ \E v \in Val : log_write(p, v) \/ bwrite(p, v)

Spec == Init /\ [][Next]_vars

-----------------------------------------------------------------------------
(* Properties.                                                             *)

Holds(p) == pc[p] \in {"iderw", "iderw_asleep", "iderw_wait", "hold"}

\* "Only one process at a time can use a buffer", and a block is in no two
\* buffers: processes that read or change it use the same copy.
OneCopyOneUser ==
  /\ \A a, b \in Buf : blockno[a] = blockno[b] /\ blockno[a] # None => a = b
  /\ \A p, q \in Proc : Holds(p) /\ Holds(q) /\ bp[p] = bp[q] => p = q
  /\ \A b \in Buf : busy[b] <=> \E p \in Proc : Holds(p) /\ bp[p] = b

\* What bread() returns is what was last written to the block, whether it
\* comes from the cache or the disk, and recycling a buffer loses nothing.
ReadsLatest ==
  /\ \A p \in Proc : pc[p] = "hold" =>
       blockno[bp[p]] = want[p] /\ data[bp[p]] = latest[want[p]]
  /\ \A k \in Block : (\A b \in Buf : blockno[b] # k) => disk[k] = latest[k]

\* No request is lost or served twice: the queue holds each waiting buffer once, the disk
\* works on its head or has an interrupt pending, a process sleeps in bget() only while
\* another one uses the buffer it wants, and iderw() does not panic over a buffer that is
\* idle or has nothing to transfer.
RequestsServed ==
  /\ \A p \in Proc : pc[p] = "iderw_asleep" => \E i \in DOMAIN idequeue : idequeue[i] = bp[p]
  /\ \A i, j \in DOMAIN idequeue : idequeue[i] = idequeue[j] => i = j
  /\ idequeue # <<>> <=> irq \/ ide # None
  /\ \A p \in Proc : pc[p] = "bget_asleep" => busy[bp[p]] /\ blockno[bp[p]] = want[p]
  /\ \A p \in Proc : pc[p] # "panic"
=============================================================================
