-------------------------------- MODULE Log --------------------------------
(***************************************************************************)
(* The write-ahead log of log.c, over a disk whose block writes are atomic *)
(* and synchronous, and a machine that may lose power between any two      *)
(* steps.  Blocks are numbered from log.start: block 0 is the header,      *)
(* blocks 1 .. NLOG-1 are the log's data blocks, and the blocks of Home    *)
(* (all >= NLOG) belong to the file system.                                *)
(***************************************************************************)
EXTENDS Integers, Sequences, FiniteSets, Functions

CONSTANTS Proc,         \* processes that make file-system system calls
          Home,         \* numbers of the blocks that follow the log
          Val,          \* what a data block can hold
          NoBlk,        \* no buffer held; also "block not in the cache"
          LOGSIZE,      \* param.h: entries of struct logheader
          MAXOPBLOCKS,  \* param.h: blocks begin_op() reserves for one operation
          NLOG,         \* superblock: blocks of the log area, header included
          OpBlocks      \* the most distinct blocks one operation logs

ASSUME ConstantsAssumption ==
  /\ LOGSIZE \in Nat \ {0} /\ MAXOPBLOCKS \in Nat \ {0}
  /\ NLOG \in Nat \ {0} /\ OpBlocks \in Nat \ {0}
  /\ Home \subseteq {b \in Nat : b >= NLOG}
  /\ NoBlk \notin Home /\ NoBlk \notin Val

LogBlk == 1 .. NLOG - 1

VARIABLES
  disk,         \* data blocks on the disk, of the log and of the file system
  head,         \* the header block on the disk: its sequence of block numbers
  lh,           \* log.lh, the header in memory
  outstanding,  \* log.outstanding
  committing,   \* log.committing
  cache,        \* buffer cache: contents of each cached block of Home
  dirty,        \* the cached blocks with B_DIRTY set
  boot,         \* where the machine is in initlog(), or "run"
  pc,           \* where each process is
  buf,          \* the buffer a process holds B_BUSY
  wrote,        \* the blocks the current operation of a process has logged
  tail          \* the loop variable of write_log() and install_trans()

vars == <<disk, head, lh, outstanding, committing, cache, dirty, boot, pc, buf,
          wrote, tail>>
memory == <<lh, outstanding, committing, cache, dirty>>
procs == <<pc, buf, wrote>>

\* What bread(b) returns: the cached copy, or else the block on the disk.
Bread(b) == IF b \in Home /\ cache[b] # NoBlk THEN cache[b] ELSE disk[b]

\* bwrite(): v goes to the disk and stays in the cache, without B_DIRTY.
Bwrite(a, v) == /\ disk' = [disk EXCEPT ![a] = v]
                /\ cache' = [b \in Home |-> IF b = a THEN v ELSE cache[b]]
                /\ dirty' = dirty \ {a}

\* Variant of wakeup(&log) that wakes nobody.
Wakeup_none(pcs) == pcs

\* wakeup(&log), on a process map that already includes the caller's step.
Wakeup(pcs) == [p \in Proc |-> IF pcs[p] = "asleep" THEN "woken" ELSE pcs[p]]

\* A file system made by mkfs: the log area is zeroed, so its header is empty.
\* Memory is as it is when the machine starts: main() up to forkret().
Init == /\ disk \in [LogBlk \cup Home -> Val]
        /\ \A i, j \in LogBlk : disk[i] = disk[j]
        /\ head = <<>>
        /\ lh = <<>> /\ outstanding = 0 /\ committing = FALSE
        /\ cache = [b \in Home |-> NoBlk] /\ dirty = {}
        /\ boot = "read_head" /\ tail = 0
        /\ pc = [p \in Proc |-> "idle"]
        /\ buf = [p \in Proc |-> NoBlk] /\ wrote = [p \in Proc |-> {}]

-----------------------------------------------------------------------------
(* Recovery, run by the first process before any operation starts.         *)

read_head == /\ boot = "read_head"
             /\ lh' = head
             /\ tail' = 0
             /\ boot' = IF head = <<>> THEN "clear" ELSE "install"
             /\ UNCHANGED <<disk, head, outstanding, committing, cache, dirty, procs>>

\* One iteration of install_trans(): copy log block tail+1 to its home.
InstallOne == /\ Bwrite(lh[tail + 1], Bread(tail + 1))
              /\ tail' = tail + 1

recover_install == /\ boot = "install"
                   /\ InstallOne
                   /\ boot' = IF tail + 1 = Len(lh) THEN "clear" ELSE boot
                   /\ UNCHANGED <<head, lh, outstanding, committing, procs>>

recover_clear == /\ boot = "clear"
                 /\ lh' = <<>>
                 /\ head' = <<>>
                 /\ boot' = "run"
                 /\ UNCHANGED <<disk, outstanding, committing, cache, dirty, procs, tail>>

-----------------------------------------------------------------------------
(* File-system operations.                                                 *)

\* Variant that forgets the caller's own reservation.
MustWait_others == \/ committing
                   \/ Len(lh) + outstanding * MAXOPBLOCKS > LOGSIZE

\* begin_op(): the test of the loop, made with log.lock held.
MustWait == \/ committing
            \/ Len(lh) + (outstanding + 1) * MAXOPBLOCKS > LOGSIZE

begin_op(p) ==
  /\ boot = "run"
  /\ pc[p] \in {"idle", "woken"}
  /\ IF MustWait
     THEN /\ pc' = [pc EXCEPT ![p] = "asleep"]
          /\ UNCHANGED <<outstanding, wrote>>
     ELSE /\ outstanding' = outstanding + 1
          /\ pc' = [pc EXCEPT ![p] = "op"]
          /\ wrote' = [wrote EXCEPT ![p] = {}]
  /\ UNCHANGED <<disk, head, lh, committing, cache, dirty, boot, buf, tail>>

\* The operation breads block b, stores v in it and enters log_write(), whose
\* two panic tests read the log without its lock.  b stays B_BUSY.
log_write_enter(p, b, v) ==
  /\ pc[p] = "op"
  /\ b \in wrote[p] \/ Cardinality(wrote[p]) < OpBlocks
  /\ \A q \in Proc : buf[q] # b
  /\ buf' = [buf EXCEPT ![p] = b]
  /\ cache' = [cache EXCEPT ![b] = v]
  /\ pc' = [pc EXCEPT ![p] =
              IF \/ Len(lh) >= LOGSIZE \/ Len(lh) >= NLOG - 1
                 \/ outstanding < 1
              THEN "panic" ELSE "log_write"]
  /\ UNCHANGED <<disk, head, lh, outstanding, committing, dirty, boot, wrote, tail>>

\* Variant without log absorption.
Absorb_none(b) == Append(lh, b)

\* The header after log_write(): "log absorbtion" keeps a block in it once.
Absorb(b) == IF b \in Range(lh) THEN lh ELSE Append(lh, b)

\* The rest of log_write(), under log.lock, and the caller's brelse().
log_write(p) ==
  /\ pc[p] = "log_write"
  /\ lh' = Absorb(buf[p])
  /\ dirty' = dirty \cup {buf[p]}
  /\ wrote' = [wrote EXCEPT ![p] = @ \cup {buf[p]}]
  /\ buf' = [buf EXCEPT ![p] = NoBlk]
  /\ pc' = [pc EXCEPT ![p] = "op"]
  /\ UNCHANGED <<disk, head, outstanding, committing, cache, boot, tail>>

\* end_op() up to the release of log.lock, and commit()'s test of log.lh.n.
end_op(p) ==
  /\ pc[p] = "op"
  /\ outstanding' = outstanding - 1
  /\ IF committing
     THEN pc' = [pc EXCEPT ![p] = "panic"] /\ UNCHANGED <<committing, tail>>
     ELSE IF outstanding' = 0
     THEN /\ committing' = TRUE
          /\ tail' = 0
          /\ pc' = [pc EXCEPT ![p] = IF Len(lh) > 0 THEN "write_log" ELSE "committed"]
     ELSE /\ pc' = Wakeup([pc EXCEPT ![p] = "idle"])
          /\ UNCHANGED <<committing, tail>>
  /\ UNCHANGED <<disk, head, lh, cache, dirty, boot, buf, wrote>>

-----------------------------------------------------------------------------
(* commit(), run by the last end_op() without log.lock; one disk write per *)
(* step.                                                                   *)

write_log(p) ==
  /\ pc[p] = "write_log"
  /\ Bwrite(tail + 1, Bread(lh[tail + 1]))
  /\ tail' = tail + 1
  /\ pc' = [pc EXCEPT ![p] = IF tail + 1 = Len(lh) THEN "write_head" ELSE @]
  /\ UNCHANGED <<head, lh, outstanding, committing, boot, buf, wrote>>

\* Variant that forgets to write the header.
write_head_skipped(p) ==
  /\ pc[p] = "write_head"
  /\ tail' = 0
  /\ pc' = [pc EXCEPT ![p] = "install"]
  /\ UNCHANGED <<disk, head, memory, boot, buf, wrote>>

\* "This is the true point at which the current transaction commits."
write_head(p) ==
  /\ pc[p] = "write_head"
  /\ head' = lh
  /\ tail' = 0
  /\ pc' = [pc EXCEPT ![p] = "install"]
  /\ UNCHANGED <<disk, memory, boot, buf, wrote>>

\* Variant whose loop ends one block early.
install_trans_short(p) ==
  /\ pc[p] = "install"
  /\ InstallOne
  /\ pc' = [pc EXCEPT ![p] = IF tail + 2 >= Len(lh) THEN "clear" ELSE @]
  /\ UNCHANGED <<head, lh, outstanding, committing, boot, buf, wrote>>

install_trans(p) ==
  /\ pc[p] = "install"
  /\ InstallOne
  /\ pc' = [pc EXCEPT ![p] = IF tail + 1 = Len(lh) THEN "clear" ELSE @]
  /\ UNCHANGED <<head, lh, outstanding, committing, boot, buf, wrote>>

\* log.lh.n = 0 and the second write_head().
clear_head(p) ==
  /\ pc[p] = "clear"
  /\ lh' = <<>>
  /\ head' = <<>>
  /\ pc' = [pc EXCEPT ![p] = "committed"]
  /\ UNCHANGED <<disk, outstanding, committing, cache, dirty, boot, buf, wrote, tail>>

\* The second critical section of end_op().
end_commit(p) ==
  /\ pc[p] = "committed"
  /\ committing' = FALSE
  /\ pc' = Wakeup([pc EXCEPT ![p] = "idle"])
  /\ UNCHANGED <<disk, head, lh, outstanding, cache, dirty, boot, buf, wrote, tail>>

-----------------------------------------------------------------------------
(* The buffer cache around the log, and the power switch.                  *)

\* Any process may read a block, inside an operation or outside one.
bread(b) == /\ boot = "run" /\ cache[b] = NoBlk
            /\ cache' = [cache EXCEPT ![b] = disk[b]]
            /\ UNCHANGED <<disk, head, lh, outstanding, committing, dirty, boot, procs, tail>>

\* Variant that recycles a buffer whose contents wait to be logged.
Recyclable_dirty(b) == \A p \in Proc : buf[p] # b

\* bget() recycles a buffer that is neither B_BUSY nor B_DIRTY.
Recyclable(b) == b \notin dirty /\ \A p \in Proc : buf[p] # b
recycle(b) == /\ boot = "run" /\ cache[b] # NoBlk /\ Recyclable(b)
              /\ cache' = [cache EXCEPT ![b] = NoBlk]
              /\ UNCHANGED <<disk, head, lh, outstanding, committing, dirty, boot, procs, tail>>

\* Power is lost and comes back: only the disk is left.
crash == /\ lh' = <<>> /\ outstanding' = 0 /\ committing' = FALSE
         /\ cache' = [b \in Home |-> NoBlk] /\ dirty' = {}
         /\ boot' = "read_head" /\ tail' = 0
         /\ pc' = [p \in Proc |-> "idle"]
         /\ buf' = [p \in Proc |-> NoBlk] /\ wrote' = [p \in Proc |-> {}]
         /\ UNCHANGED <<disk, head>>

Recover == read_head \/ recover_install \/ recover_clear
Commit(p) == \/ write_log(p) \/ write_head(p) \/ install_trans(p)
             \/ clear_head(p) \/ end_commit(p)
Op(p) == \/ begin_op(p) \/ end_op(p) \/ log_write(p)
         \/ \E b \in Home, v \in Val : log_write_enter(p, b, v)
Cache == \E b \in Home : bread(b) \/ recycle(b)

Run == Recover \/ Cache \/ \E p \in Proc : Op(p) \/ Commit(p)
Next == Run \/ crash

Spec == Init /\ [][Next]_vars

-----------------------------------------------------------------------------
(* Properties.                                                             *)

TypeOK ==
  /\ disk \in [LogBlk \cup Home -> Val]
  /\ head \in Seq(Home) /\ lh \in Seq(Home)
  /\ outstanding \in Nat /\ committing \in BOOLEAN
  /\ cache \in [Home -> Val \cup {NoBlk}] /\ dirty \subseteq Home
  /\ boot \in {"read_head", "install", "clear", "run"}
  /\ pc \in [Proc -> {"idle", "asleep", "woken", "op", "log_write", "panic",
                      "write_log", "write_head", "install", "clear", "committed"}]
  /\ buf \in [Proc -> Home \cup {NoBlk}]
  /\ wrote \in [Proc -> SUBSET Home]
  /\ tail \in Nat

\* The log blocks that header h lists, laid over the home blocks of disk d.
Overlay(h, d) == [b \in Home |->
  IF b \in Range(h) THEN d[CHOOSE i \in DOMAIN h : h[i] = b] ELSE d[b]]

\* The refinement mapping: what a reboot would recover is the disk with the
\* committed log laid over it; a running operation sees the cache, or the disk.
Recovered == Overlay(head, disk)
View == IF boot = "run" THEN [b \in Home |-> Bread(b)] ELSE Recovered
Active == {p \in Proc : pc[p] \in {"op", "log_write", "panic"}}

AD == INSTANCE AtomicDisk WITH durable <- Recovered, view <- View, active <- Active

\* Every behaviour of log.c, crashes included, is one of AtomicDisk: the disk
\* changes by whole groups of whole operations, and recovery finds exactly the
\* committed groups.
CrashAtomic == AD!ASpec

\* Write-ahead: a block of the file system is overwritten on the disk only
\* while the header on the disk lists it, so that a crash can redo the write.
WriteAhead == [][\A b \in Home : disk'[b] # disk[b] => b \in Range(head)]_vars

\* What the panic of log_write() is there to ensure: the transaction fits in
\* the blocks that mkfs set aside for the log.
LogFits == Len(lh) <= NLOG - 1

\* The condition on the constants under which the reservation is enough: an
\* operation logs fewer blocks than begin_op() reserves for it, by so many
\* that the largest transaction leaves the last slot of the log free.
OpsFit == /\ OpBlocks < MAXOPBLOCKS
          /\ LOGSIZE - (MAXOPBLOCKS - OpBlocks) < NLOG - 1

\* The reservation of begin_op() is enough: no panic of log.c is ever reached.
NoPanic == \A p \in Proc : pc[p] # "panic"

\* When the end_op() that commits is done with commit(), every update made so
\* far survives a crash.
CommitDurable == (\E p \in Proc : pc[p] = "committed") => Recovered = View

\* A process asleep in begin_op() is always woken (it may have to wait again).
WaiterIsWoken == \A p \in Proc : []<>(pc[p] # "asleep")

\* The scheduler runs every process that can run, and an operation ends.
Fairness == /\ WF_vars(Recover)
            /\ \A p \in Proc : /\ WF_vars(pc[p] = "woken" /\ begin_op(p))
                              /\ WF_vars(log_write(p))
                              /\ SF_vars(end_op(p))
                              /\ WF_vars(Commit(p))
LiveSpec == Init /\ [][Run]_vars /\ Fairness
=============================================================================
