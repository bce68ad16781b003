# A verification of xv6 in TLA+

The program is the x86 teaching kernel under `src/xv6-public` (the rest of the
repository is a packaged emulator to run it). This directory holds TLA+ modules
for the kernel and its user-level tools, the TLC runs that check them, and TLAPS
proofs for the write-ahead log, the buffer cache, the spin locks, the process table and the
pipes. `PROJECT.json` lists every run, mutant,
hazard and theorem, and maps each definition to the lines it models.

## The system

| part | sources | how it interacts | module |
|---|---|---|---|
| write-ahead log | `log.c` | groups the block writes of system calls into transactions; uses the buffer cache | `Log`, `AtomicDisk` |
| buffer cache, IDE driver | `bio.c`, `ide.c` | one copy and one user per block; queue of buffers, interrupt, `wakeup` | `Bcache` |
| blocks and file contents | `fs.c`, `file.c`, `mkfs.c` | inside transactions, on buffers; starts from `mkfs`'s image | `Content`, `ByteFile` |
| inodes, directories, paths | `fs.c`, `sysfile.c` | inode locks and reference counts under the system calls on names | `Fs` |
| file table, descriptors | `file.c`, `sysfile.c` | on inodes and pipes; shared by `fork`, dropped by `exit` | `Sh` |
| pipes | `pipe.c` | `sleep`/`wakeup`, reached through the file table | `Pipe`, `Channel` |
| processes, scheduler | `proc.c`, `swtch.S`, parts of `trap.c`, `sysproc.c` | everything sleeps and wakes through it | `Proc` |
| spin locks | `spinlock.c`, parts of `proc.c`, `trapasm.S` | every shared structure | `Spinlock` |
| virtual memory, page allocator, `exec` | `vm.c`, `kalloc.c`, `exec.c` | `fork`, `growproc`, `wait` share one free list | `Memory` |
| console | `console.c` | input ring between interrupt and `read` | `Console`, `Tty` |
| shell | `sh.c` | a parser, and processes joined by pipes | `ShParse`, `Sh` |
| user allocator | `umalloc.c` | `sbrk` | `Malloc` |
| library, `grep`, `wc` | `string.c`, `ulib.c`, `printf.c`, `grep.c`, `wc.c` | sequential routines | `Ulib` |
| clock, system call entry, boot, interrupt controllers, other programs | | | not modelled, see the end |

## The modules

Throughout, a critical section of a lock in which nobody else can observe an
intermediate state is one step; it is split where the code gives up the lock,
switches stacks, waits for the disk, or reads shared state without the lock.

**`Log`** (`log.c` on an abstract cache). `disk` and `head` survive a crash:
the data blocks and the header block, numbered from `log.start`, so block
`i` of `1 .. NLOG-1` is log block `i` and the blocks of `Home` are the file
system's. The rest is memory: `lh`, `outstanding`, `committing` are the fields of
`struct log`; `cache` and `dirty` stand for the buffers and `B_DIRTY`; `buf` is the
buffer a process has busy. One action for each of `begin_op`, the two parts of
`log_write` (the size test without the lock, then the append under it), `end_op`
and its second critical section, and **one action for each disk write** of
`write_log`, `write_head`, `install_trans` and of recovery. `bread` and
`recycle` fill and empty the cache whenever `bget` could; `crash` is enabled in every
state. `OpBlocks` bounds the distinct blocks one operation logs.

**`AtomicDisk`** is what `log.c:8-14` promises: operations write into one view, the
view becomes durable in one step when no operation is under way, and a crash
goes back to the last durable view. The refinement mapping takes `durable`
to the disk with the log blocks listed in the on-disk header laid over their homes,
`view` to what `bread` would return, and `active` to the processes inside an operation.

**`Bcache`** (`bio.c` and `ide.c`). The fields of `struct buf` as functions of the
buffer, the LRU list as a sequence, `idequeue`, the controller's current command
`ide`, the pending interrupt `irq`. Actions: `bread`, `bget` (search, sleep on a busy
buffer and search again, recycle, panic), `log_write` (pins the buffer), `bwrite`, `brelse`,
`iderw` (append, start the disk if the queue was empty), `iderw_wait`, `ideintr`, and the
external `disk_done`. `latest` is a history variable: what was last stored in each block.

**`Content`** (`fs.c` below the inode, `file.c`'s `fileread` and `filewrite`, `mkfs.c`).
`balloc`, `bmap`, `readi` and `writei` are functions on a record of an inode, the
blocks, the bitmap and the set of blocks logged; an action applies one call. The
behaviour starts in `mkfs`: `iappend` puts its files on the disk, `mkfs_end` rounds the root's size and
writes the bitmap, and the kernel goes on from that image. A freed block keeps
junk, so a block that is not cleared when it is used again shows. **`ByteFile`** is the promise: a
read returns the bytes written last, and no file changes another.

**`Fs`** (inodes and names). `dinode` and `dir` are the disk as the running kernel sees
it, `icache` the in-memory inodes with `ref`, `I_BUSY`, `I_VALID` and the copies of `type` and
`nlink`. A process in a system call has a program counter, the path that is left, and the inodes it
points to. A stretch from `ilock` to `iunlock` is a step; `namex` is a step per element;
`unlink` and `create`, which lock a second inode while they hold a directory, and the
truncation inside `iput`, are split there.

**`Sh`** (descriptors, and the shell). A process is the list of the system calls it has still to
make; `runcmd` turns a command into that list. `close`, `dup`, `open`, `pipe`, `fork1`,
`exit` and `wait` act on the file table, the descriptors and the pipes, which are small
enough to run out. `fileclose` gives up `ftable.lock` before `pipeclose`, a step of its own.

**`ShParse`** is the parser as functions on positions in a line, each of which returns the new
position with its result, and, apart from it, the grammar: the set `Lines` of pairs of
a token string and the command it stands for.

**`Pipe`** (`pipe.c` with `sleep`, `wakeup`, `kill`). `struct pipe` with counters that wrap at `UINT`; a
byte is the name of its writer. `sleep` is a step of its own between the
test and the wait, during which the pipe's lock is held but `kill`, which uses
`ptable.lock`, can run. **`Channel`** is the promise: a bounded FIFO; the
mapping reads the content off the ring.

**`Console`** has the input ring with its three wrapping indices; `consoleintr` is a step per key,
`consoleread` a step up to its next sleep, with the same gap before `sleep` as in `Pipe`. **`Tty`** is the
promise: a line editor with what is ready to read, the line being edited, and a capacity.

**`Proc`** (`proc.c`). The process table, `ptable.lock`, and for each CPU the stack it runs
on and its scan position. `sched`, `scheduler` and `forkret` hand the lock over between
stacks as the code does. Actions for `fork` (`allocproc`, `kalloc`, `copyuvm` and
their failures are separate steps), `exit`, `wait` (scan, free, sleep), `kill`, `yield`
at every interruptible point, and the killed-tests of `trap`. A user process is free to call
anything at any time. Bounds: `NPROC` slots, no `fork` after `MaxPid`.

**`Spinlock`** (`spinlock.c`). The interrupt flag, `ncli` and `intena` of each CPU,
`locked` and `cpu` of each lock, and a frame for each context (process or per-CPU
scheduler). An interrupt can come wherever the flag is on, also between the two
instructions of `pushcli`, and its handler takes locks; `sched` saves `intena`, and
a process can resume on another CPU. Locks are taken in increasing
order, which is the discipline of the kernel's call graph.

**`Memory`** (`kalloc.c`, `vm.c`, `exec.c`, `growproc`). Pages are interchangeable, so
the free list is a count; a page table is the set of its page tables, of mapped addresses and of those
with `PTE_U`. `fork`, `exec` and `sbrk` go page by page, so that processes
compete for the last pages, and every failure path is there. `stale` holds the translations
the TLB may still have.

**`Malloc`** has the headers with `ptr` and `size`, `freep` and the break. **`Ulib`** has the
library's loops as recursive operators and, for each, what it is for.
`MCUnits` puts `Console`, `Memory`, `Malloc`, `ShParse` and `Ulib` side by side: they share
no state, so a behaviour picks one of them at the start and keeps to it, and the calls of the pure
routines range over all their small inputs.

## Runs

States are distinct states; times are with two workers.

| run | instance | what it shows |
|---|---|---|
| `log_crash` (465512) | 3 processes, 2 blocks, 2 values, log of 8 | `CrashAtomic` (implements `AtomicDisk`, crashes also during recovery), `WriteAhead`, `CommitDurable` |
| `log_space` (202510) | 3 processes, 3 blocks, `LOGSIZE` 4, reserve 2, use 1 | at a full log: `NoPanic`, `LogFits`; every sleeper in `begin_op` is woken (`WaiterIsWoken`) |
| `log_race` | reserve 1, use 1 | the finding, below |
| `proc_safety` (91075) | 2 CPUs, 3 slots, pids to 3 | `RunsSafely` (no stack freed in use, no process on two CPUs, no leak from a failed `fork`), `NoOrphan`, no lost wakeup in `wait` (`WaitsForAChild`), `LifeCycle` |
| `proc_live` (22505) | 1 CPU, 3 slots | killed processes die, runnable ones run, orphans are reaped |
| `spinlock` (29573) | 2 CPUs, 1 process, 2 locks | `MutualExclusion` with interrupts off and no panic, `InterruptsRestored`, every `acquire` ends |
| `pipe` (116912) | 2 writers, 1 reader, a ring of 2, counters modulo 4 | `IsChannel`, `NoUseAfterFree`, every call returns (`CallReturns`) |
| `bcache` (231934) | 2 processes, 4 blocks, 3 buffers, 1 pinned | `OneCopyOneUser`, `ReadsLatest` (no update lost), `RequestsServed` (no request or wakeup lost, no panic) |
| `fs` (312910) | 2 processes, 3 inodes, 2 names, 11 calls | `NoPanic`, `RefCounts`, `EntriesAreLinks`, `UnlinkedIsFreed`; and no deadlock of inode locks |
| `content` (78620) | 3 files, blocks of 2, 1 direct and 2 indirect | `IsByteFile`, `BlocksHeldOnce`, `OpFits` |
| `shell` (171958) | 6 processes, 6 files, 2 pipes, 3 commands | `RefsAreDescriptors`, `Wired`, `ListOrder`, `CommandEnds` |
| `units` (631279) | see below | `IsTty`, `ReaderNotMissed`; `PageHeldOnce`, `ImageIsMapped`; `HeapTiled`; `ParsesRight`; `LibraryRight` |

*Why the bounds are enough for the cases that matter.*

- Log: two blocks in one transaction distinguish a half-written group from a whole one, and three
  processes give one that commits, one that sleeps and one that arrives; `log_space` reaches the last free slot.
- Process table: three slots are init, a parent and its child, so orphans and re-use
  of slots happen, and two CPUs are needed for a parent to see its child's stack in use.
- Pipe: a ring of two bytes fills and wraps, the counters too; writes of two bytes from two writers
  interleave and block half-way, and reads ask for less or more than there is.
- Cache: more blocks than buffers, and as many unpinned buffers as processes, the least with which
  `bget` need not panic.
- `Fs`: the calls collide on `/a`, as a file or a directory, and on `/a/b` and `b` in it,
  from inside and outside; three inodes are used again and again.
- `Content`: a write of five bytes fills the largest file, goes over the border of direct and indirect
  blocks and takes several transactions, and reads of three bytes are never aligned for long.
- `Sh`: a pipeline of three, one with a redirection followed by a list, and a background
  command, which may leave processes that hold descriptors when the next is typed; forks fail
  when the table is full.
- `Console`: a ring of three, indices modulo 6, two readers. `Memory`: 20 pages are not enough for
  three processes with the programs of the run, tables hold two pages each. `Malloc`: a
  break that grows three times, and requests smaller and larger than `NALLOC`. Parser: every line of up to five
  characters over one letter, the blank and all symbols. Library: all strings and numbers up to
  the sizes in `Units.cfg`, integers of 8 bits.

Symmetry is used only in runs without liveness properties, over sets whose elements the
module never orders or singles out. `units` does not check for deadlock: a panic stops the kernel, and
a behaviour of `Memory` ends when more pages than `MaxLost` are lost; all other runs do.

*Fairness.* `Log`: recovery, `commit` and woken processes go on (weak), and an
operation ends (strong, since it may be between two `log_write`s again and
again); its specification leaves crashes out, since a crash ends every wait. `Proc`: each CPU executes, its timer
fires, and a CPU that spins for `ptable.lock` gets it (strong: the lock is free again
and again; `xchg` gives no order, so this is an assumption about the hardware); a
process inside the kernel makes progress between preemptions; `init` keeps calling `wait`, as
`init.c` does. `Spinlock`: as before, and critical sections end. `Pipe`: the
kernel runs a process that can run; for `CallReturns` also that each user
eventually closes its end, without which a `read` may wait for ever, rightly. `Sh`: each process that can
take its next step does (weak; the scheduler's rounds, which `proc_live` checks), and `init` waits; nothing
is assumed of whoever types.

Every property has a mutant: a variant of one definition, written beside it, that makes
a plausible mistake, under which TLC finds the property violated.

## Finding

`log_race`. `log_write` tests the log's size before it takes `log.lock`
(`log.c:215`). With operations that use the whole reservation, two processes
pass the test together and the header outgrows the log area. It can be reached
because `mkfs.c:25` counts the header block among the `LOGSIZE` blocks
that `param.h:11` calls "data blocks". The proofs below say when it cannot.

## Observations

What the models had to take into account because the code does it. The first three are
definitions of the modules that TLC refutes when they are given to it.

- `kill` looks at `UNUSED` slots too (`proc.c:417`), and `allocproc` does not clear `killed`, so a process
  can be born killed (`BornUnkilled` in `Proc`).
- A killed writer leaves a full pipe without waking the reader (`pipe.c:85`; `ReaderHasReason` in `Pipe`).
- `kill` between the test of `killed` and `sleep` is not noticed (`pipe.c:106`; `KilledReturns` under `KillSpec`
  in `Pipe`); `consoleread` and `sys_sleep` have the same gap, `wait` has not.
- `filewrite` reckons with `LOGSIZE`: its largest chunk logs up to 17 blocks (`OpFits` holds), more than the
  `MAXOPBLOCKS` of 10 that `begin_op` reserves (`param.h:10`, `file.c:132`).
- `allocuvm` ignores a failure of `mappages` (`vm.c:240`), although its comment promises
  "0 on error" (`vm.c:219`): the process then has a hole, and a later `fork`
  or `exec` panics. `setupkvm` and `copyuvm` lose pages there. `Memory` counts the lost pages; `ImageIsMapped`
  holds as long as there are none, `PageHeldOnce` always. `deallocuvm`'s step over an absent
  page table is not aligned to the next one.
- `growproc` to size 0 returns failure after the pages are freed (`proc.c:117`); the model's sizes stay positive.
- A process whose current directory has been removed can still go to `..`, which may by then be a free
  inode, and `ilock` panics; the paths of the run `fs` do without `..`. `create` in a directory removed
  since the path was walked makes an entry nobody can reach.
- A crash while an unlinked file is open leaves an inode that nothing frees.
- `mkfs` rounds the root's size up even from a multiple of `BSIZE` (`mkfs.c:161`), to a block
  that is not there; the images of the run are not such multiples.
- A `fork1` that fails after the first child of a pipeline makes the shell's process exit without waiting;
  `ListOrder` is stated for commands in which no call of the shell failed.
- `grep` drops what it has read when a read ends without any newline (`grep.c:29`); its lines are right
  for the streams in which that does not happen.
- `>>` opens its file like `>` (`sh.c:392`), and in the model they are one.

## Proofs

A module `XProofs` extends `X` and holds its inductive invariant, always called `Inv`, the
lemmas, and the theorems. They hold for all values of the constants that satisfy the
module's `ASSUME` and the hypotheses named below: any number of processes, CPUs, locks,
buffers, blocks. None of the properties is inductive as it stands; what each invariant adds,
and why, is said with it. Every proof has the same plan: a lemma per action (or
per conjunct of the invariant, with one case per action) that the step keeps `Inv`,
the theorem `Spec => []Inv`, and a short step from `Inv` to each property.

**`LogProofs`**, under `OpsFit`.

| theorem | states |
|---|---|
| `Invariance` | `Spec => []Inv` |
| `TypeCorrect`, `PanicFree`, `FitsLog` | `TypeOK`, `NoPanic`, `LogFits` |
| `Durability` | `CommitDurable` |
| `LogsAhead` | `WriteAhead`, an action property |
| `CrashAtomicity` | `CrashAtomic`: every step of `Log` is a step of `AtomicDisk` or a stutter |

`OpsFit` is `OpBlocks < MAXOPBLOCKS` and `LOGSIZE - (MAXOPBLOCKS - OpBlocks) < NLOG - 1`. It
is the hypothesis the code needs, not a convenience: without it `log_race` is a
counterexample. With the sizes of `param.h` and `mkfs.c` (10, 30, 30) it says that
an operation logs at most 8 blocks. The chunks of `filewrite` may
exceed that, so for those the theorems promise nothing. `Inv` adds to `TypeOK`:

- `SpaceInv`, the accounting of `begin_op`: `Credit` is the set of blocks the running
  operations may still log, and logged blocks, credit and the slack of each
  operation together never exceed `LOGSIZE`. `log_write` moves one token from
  credit to the log, `begin_op` adds `OpBlocks` of them within its reservation. Because each operation
  has slack, even two processes past the unlocked test fit.
- `ControlInv`: one committer, and no operation while it commits.
- `HeaderInv`: how far each loop of `commit` and of recovery has got, as an equality between
  log blocks, home blocks and the cache. In particular a half-done
  `install_trans` leaves the log blocks intact, so `Recovered` does not change when it
  runs, or runs again after a crash.
- `CacheInv`: `B_DIRTY` pins exactly the logged blocks that are not yet
  installed, and every other idle buffer agrees with the disk.

For the refinement, `write_head` is the step that maps to `Commit`, `crash` to `Crash`, and
the other disk writes to stutters.

**`BcacheProofs`**.

| theorem | states | hypothesis |
|---|---|---|
| `CacheInvariance` | `Spec => []Inv` | none |
| `OneCopy` | `OneCopyOneUser` | none: the disk may report any outcome |
| `ReadsAreLatest` | `ReadsLatest` | `NoErrors`: the disk makes none |
| `Served` | `RequestsServed` | `BuffersSuffice` |

`Inv` ties the buffers to the program counters: `UseInv` (a busy buffer has one user, and a block one buffer),
`FlagInv` (what `B_VALID` and `B_DIRTY` say at each point of `iderw`) and `QueueInv` (`idequeue`
holds the buffers of the processes asleep in `iderw`, each once, and the controller
works on its head). `DataInv` adds that a valid buffer is up to date, and the disk too unless the buffer
is dirty; the recycling in `bget` needs it. `BuffersSuffice` is
`NBUF >= Cardinality(Proc) + MaxPinned`; with it a count of the busy and of the pinned
buffers leaves one for `bget`. The kernel's own sizes do not meet it (`NBUF` and `LOGSIZE` are both 30, and
there are 64 processes): the theorem says when `bget` cannot panic, not that it
cannot in xv6.

**`SpinlockProofs`**: `SpinInvariance`, `LocksExclude` (`MutualExclusion`) and `FlagsRestored`
(`InterruptsRestored`). `CpuInv` counts: `ncli` is the number of locks held by
what runs on the CPU, plus one that is being taken or released, so `popcli` finds it positive and the flag
stays off. `FrameInv` says that an interrupted frame holds no lock, and `RunInv` that a context that is
switched out has `saved` its `intena`. `LockInv` gives each lock one owner. It counts a context
between `xchg` and `release`'s last store as the owner too, and it survives `sched` and `scheduler`,
where `ptable.lock` changes hands without being released.

**`ProcProofs`**: `ProcInvariance`, `RunSafe` (`RunsSafely`), `Parents` (`NoOrphan`), `NoLostWakeup`
(`WaitsForAChild`), and `Lives` (`LifeCycle`, an action property). `Inv` is `TypeOK` with
`CpuInv` (who is on which CPU, and who has `ptable.lock`), `StateInv` (what a state says of the place where the
process goes on: a sleeper is in `wait` on its own address, a runnable process has not exited),
`ForkInv` (what an unfinished `fork` has made, and that nobody else has it) and `FamilyInv` (parents
live, and a process asleep in `wait` has a child to wait for). The heart of
`RunSafe` is that a zombie in the table has left its CPU whenever a parent can look: the
parent has the lock, which the scheduler on the zombie's CPU must have given up.

**`PipeProofs`**: `PipeInvariance`, `NotFreedInUse` (`NoUseAfterFree`), and `PipeIsChannel`, that `Pipe` implements
`Channel`. It assumes of `UINT` what is true of `2^32`, that it is a multiple of `PIPESIZE` and larger. `RingInv` is
that the counters are at most `PIPESIZE` apart; with the lemmas about counters that wrap at
the beginning of the module, the loops of `pipewrite` and `piperead` copy exactly what fits and what is there,
and the content of the ring after a copy is the old one with the bytes
appended, or without its first ones. `OpenInv` says that a process inside a call has its
end open, which is why `pipeclose` frees nothing in use.

**Only model-checked.** Liveness (`WaiterIsWoken`, `KilledDies`, `RunnableRuns`, `OrphanReaped`,
`AcquireEnds`, `CallReturns`, `CommandEnds`) is out of the prover's reach. `Content`, `Sh`, `ShParse`, `Ulib`, `Malloc` and `Memory`
define their algorithms with `RECURSIVE` operators, about which nothing can be proved here by
induction. Nothing has been proved of `Console`.
The invariants of `Fs` are checked by TLC only: `Fs.tla` states the assumption on the calls that a proof would start from.

## What the models leave out

- A block write is atomic and in order; `bio.c` and `ide.c` wait for each. Disk errors
  have no error path in `ide.c` (a failed read is marked valid, `ide.c:118`), so `bcache`
  assumes none; the constant `Outcomes` allows them.
- In `Bcache` a process holds one buffer at a time, while `install_trans` and `bmap` hold two.
  Spurious interrupts and the second disk are left out, and liveness is not checked.
- `Fs` has an inode cache and an inode table that are large enough: the panics of `iget` and `ialloc` are
  outside the bound `Room`. Directories have a slot for each name. `Content` has a disk
  that is large enough. Neither has crashes; what a crash leaves is `Log`'s subject.
- `Proc` models `sleep` as `wait` uses it; other channels appear where they are used (`Log`,
  `Pipe`, `Bcache`, `Console`). Memory contents are not modelled: `Memory` has pages, not bytes.
- `exec` in `Memory` takes its file as a sequence of segments; the transaction and the inode lock it
  holds while it loads are left out.
- Stores are sequentially consistent, as locked instructions make them for data under a lock.

## Not modelled

- The clock (`ticks`, `sys_sleep`): the same sleep and wakeup as in `Pipe` and `Console`; `ticks` wraps and the
  unsigned difference is compared with a signed argument (`sysproc.c:69`).
- Fetching system call arguments (`syscall.c`), the boot code (`bootasm.S`, `bootmain.c`, `main.c`, `mp.c`), and the
  interrupt controllers (`lapic.c`, `ioapic.c`, `picirq.c`): sequential, or register programming; what they leave is
  the initial state of the other modules.
- Scan codes, the serial port, the screen (`kbd.c`, `uart.c`, the rest of `console.c`): tables and I/O.
- `memide.c`, a driver for a disk in memory; segment descriptors in `vm.c`; `mkfs.c`'s super block and byte order.
- `cat`, `echo`, `kill`, `ln`, `ls`, `mkdir`, `rm`, `zombie`: a few system calls each. `usertests.c`, `forktest.c` and
  `stressfs.c` are tests of the system calls; they state nothing the modules could be checked against beyond what
  they exercise.
