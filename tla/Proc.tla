-------------------------------- MODULE Proc --------------------------------
(***************************************************************************)
(* The process table of proc.c: scheduler(), sched(), yield(), fork(),     *)
(* exit(), wait() and kill(), run by several CPUs, with the timer          *)
(* interrupts and the killed-checks of trap().  A critical section of      *)
(* ptable.lock that does not switch stacks is one step; one that does      *)
(* keeps the lock, as the code does, until the other side releases it.     *)
(***************************************************************************)
EXTENDS Integers, FiniteSets, FiniteSetsExt

CONSTANTS CPU,      \* the CPUs
          NPROC,    \* param.h: slots of ptable.proc
          MaxPid    \* bound: no fork() once nextpid exceeds it

ASSUME ProcAssumption == /\ NPROC \in Nat \ {0} /\ MaxPid \in Nat \ {0}
                         /\ 0 \notin CPU

Slot == 1 .. NPROC
initproc == 1       \* userinit() takes the first slot

VARIABLES
  state, pid, parent, killed, chan,  \* fields of struct proc; 0 is a null pointer
  kstack, pgdir,  \* whether the slot owns a kernel stack, a page directory
  context,        \* where the process resumes when the scheduler switches to it
  nextpid,
  lock,           \* the CPU that holds ptable.lock, or 0
  on,             \* whose stack each CPU runs on: a process, or 0 for the scheduler
  scan,           \* the scheduler's position: next slot to look at, or 0 outside its loop
  pc,             \* where a process that is on a CPU executes
  resume,         \* where yield() returns to
  np,             \* fork()'s new process
  panicked

table == <<state, pid, parent, killed, chan>>
owned == <<kstack, pgdir>>
local == <<resume, np>>
vars == <<state, pid, parent, killed, chan, kstack, pgdir, context, nextpid, lock,
          on, scan, pc, resume, np, panicked>>

\* The state after userinit(), when every CPU enters scheduler().
Init == /\ state = [p \in Slot |-> IF p = initproc THEN "RUNNABLE" ELSE "UNUSED"]
        /\ pid = [p \in Slot |-> IF p = initproc THEN 1 ELSE 0]
        /\ parent = [p \in Slot |-> 0]
        /\ killed = [p \in Slot |-> FALSE]
        /\ chan = [p \in Slot |-> 0]
        /\ kstack = [p \in Slot |-> p = initproc]
        /\ pgdir = [p \in Slot |-> p = initproc]
        /\ context = [p \in Slot |-> "forkret"]
        /\ nextpid = 2
        /\ lock = 0
        /\ on = [c \in CPU |-> 0]
        /\ scan = [c \in CPU |-> 0]
        /\ pc = [p \in Slot |-> "off"]
        /\ resume = [p \in Slot |-> "user"]
        /\ np = [p \in Slot |-> 0]
        /\ panicked = FALSE

\* CPU c executes a process that is at label l.
At(c, l) == ~panicked /\ on[c] # 0 /\ pc[on[c]] = l
Goto(p, l) == pc' = [pc EXCEPT ![p] = l]
\* The end of a system call, where trap() makes a killed process exit.
Return(p) == Goto(p, IF killed[p] THEN "exit" ELSE "user")

\* Variant of wakeup1() that wakes nobody.
wakeup1_none(s, ch) == s

\* wakeup1(ch), on table contents s.
wakeup1(s, ch) == [p \in Slot |->
  IF s[p] = "SLEEPING" /\ chan[p] = ch THEN "RUNNABLE" ELSE s[p]]

-----------------------------------------------------------------------------
(* The scheduler and the switch to it.                                     *)

sched_acquire(c) == /\ ~panicked /\ on[c] = 0 /\ scan[c] = 0 /\ lock = 0
                    /\ lock' = c
                    /\ scan' = [scan EXCEPT ![c] = 1]
                    /\ UNCHANGED <<table, owned, context, nextpid, on, pc, local, panicked>>

\* Variant of the loop's p++ that leaves the loop after one process.
NextSlot_break(p) == NPROC + 1

NextSlot(p) == p + 1

\* The scan from scan[c] on: run the next RUNNABLE process, or end the round.
\* A zombie that is resumed falls into the panic that ends exit().
scheduler(c) ==
  LET ready == {p \in Slot : p >= scan[c] /\ state[p] = "RUNNABLE"}
      p == Min(ready)
  IN /\ ~panicked /\ on[c] = 0 /\ scan[c] # 0
     /\ IF ready = {}
        THEN /\ scan' = [scan EXCEPT ![c] = 0]
             /\ lock' = 0
             /\ UNCHANGED <<state, on, pc, panicked>>
        ELSE /\ scan' = [scan EXCEPT ![c] = NextSlot(p)]
             /\ state' = [state EXCEPT ![p] = "RUNNING"]
             /\ on' = [on EXCEPT ![c] = p]
             /\ Goto(p, context[p])
             /\ panicked' = (context[p] = "zombie_exit")
             /\ UNCHANGED lock
     /\ UNCHANGED <<pid, parent, killed, chan, owned, context, nextpid, local>>

\* sched(): its panics, or the switch back to this CPU's scheduler.
sched(c) == /\ At(c, "sched")
            /\ IF lock # c \/ state[on[c]] = "RUNNING"
               THEN panicked' = TRUE /\ UNCHANGED <<on, pc>>
               ELSE /\ on' = [on EXCEPT ![c] = 0]
                    /\ Goto(on[c], "off")
                    /\ UNCHANGED panicked
            /\ UNCHANGED <<table, owned, context, nextpid, lock, scan, local>>

\* The first run of a process: release ptable.lock and go to user space.
forkret(c) == /\ At(c, "forkret")
              /\ lock' = 0
              /\ Goto(on[c], "user")
              /\ UNCHANGED <<table, owned, context, nextpid, on, scan, local, panicked>>

-----------------------------------------------------------------------------
(* trap() on a timer interrupt.                                            *)

\* Code that runs with interrupts enabled.
Interruptible == {"user", "sys", "fork_kalloc", "fork_copyuvm", "fork_ready", "exit"}

yield(c) == LET p == on[c] IN
  /\ \E l \in Interruptible : At(c, l)
  /\ ~(killed[p] /\ pc[p] = "user")
  /\ lock = 0
  /\ lock' = c
  /\ state' = [state EXCEPT ![p] = "RUNNABLE"]
  /\ context' = [context EXCEPT ![p] = "yielded"]
  /\ resume' = [resume EXCEPT ![p] = pc[p]]
  /\ Goto(p, "sched")
  /\ UNCHANGED <<pid, parent, killed, chan, owned, nextpid, on, scan, np, panicked>>

\* The end of yield(), and trap()'s second check of a killed user process.
yielded(c) == LET p == on[c] IN
  /\ At(c, "yielded")
  /\ lock' = 0
  /\ IF resume[p] = "user" THEN Return(p) ELSE Goto(p, resume[p])
  /\ resume' = [resume EXCEPT ![p] = "user"]
  /\ UNCHANGED <<table, owned, context, nextpid, on, scan, np, panicked>>

\* A trap from user space finds the process killed.
trap_killed(c) == /\ At(c, "user") /\ killed[on[c]]
                  /\ Goto(on[c], "exit")
                  /\ UNCHANGED <<table, owned, context, nextpid, lock, on, scan, local, panicked>>

\* A fault in user space kills the process.
trap_fault(c) == /\ At(c, "user")
                 /\ killed' = [killed EXCEPT ![on[c]] = TRUE]
                 /\ Goto(on[c], "exit")
                 /\ UNCHANGED <<state, pid, parent, chan, owned, context, nextpid, lock, on, scan, local, panicked>>

\* A system call begins; the caller may be killed between this test and the
\* critical section of the call.
syscall(c) == /\ At(c, "user") /\ ~killed[on[c]]
              /\ Goto(on[c], "sys")
              /\ UNCHANGED <<table, owned, context, nextpid, lock, on, scan, local, panicked>>

sys_exit(c) == /\ At(c, "sys")
               /\ Goto(on[c], "exit")
               /\ UNCHANGED <<table, owned, context, nextpid, lock, on, scan, local, panicked>>

-----------------------------------------------------------------------------
(* fork().                                                                 *)

NextPid == nextpid + 1

\* allocproc()'s critical section.
fork(c) ==
  LET p == on[c]
      free == {q \in Slot : state[q] = "UNUSED"}
      q == Min(free)
  IN /\ At(c, "sys") /\ lock = 0
     /\ nextpid <= MaxPid
     /\ IF free = {}
        THEN Return(p) /\ UNCHANGED <<state, pid, nextpid, np>>
        ELSE /\ state' = [state EXCEPT ![q] = "EMBRYO"]
             /\ pid' = [pid EXCEPT ![q] = nextpid]
             /\ nextpid' = NextPid
             /\ np' = [np EXCEPT ![p] = q]
             /\ Goto(p, "fork_kalloc")
     /\ UNCHANGED <<parent, killed, chan, owned, context, lock, on, scan, resume, panicked>>

\* The kernel stack; ok is what kalloc() returns.
fork_kalloc(c, ok) == LET p == on[c] q == np[p] IN
  /\ At(c, "fork_kalloc")
  /\ kstack' = [kstack EXCEPT ![q] = ok]
  /\ IF ok
     THEN /\ context' = [context EXCEPT ![q] = "forkret"]
          /\ Goto(p, "fork_copyuvm")
          /\ UNCHANGED <<state, np>>
     ELSE /\ state' = [state EXCEPT ![q] = "UNUSED"]
          /\ np' = [np EXCEPT ![p] = 0]
          /\ Return(p)
          /\ UNCHANGED context
  /\ UNCHANGED <<pid, parent, killed, chan, pgdir, nextpid, lock, on, scan, resume, panicked>>

fork_copyuvm(c, ok) == LET p == on[c] q == np[p] IN
  /\ At(c, "fork_copyuvm")
  /\ pgdir' = [pgdir EXCEPT ![q] = ok]
  /\ IF ok
     THEN /\ parent' = [parent EXCEPT ![q] = p]
          /\ Goto(p, "fork_ready")
          /\ UNCHANGED <<state, kstack, np>>
     ELSE /\ kstack' = [kstack EXCEPT ![q] = FALSE]
          /\ state' = [state EXCEPT ![q] = "UNUSED"]
          /\ np' = [np EXCEPT ![p] = 0]
          /\ Return(p)
          /\ UNCHANGED parent
  /\ UNCHANGED <<pid, killed, chan, context, nextpid, lock, on, scan, resume, panicked>>

fork_ready(c) == LET p == on[c] IN
  /\ At(c, "fork_ready") /\ lock = 0
  /\ state' = [state EXCEPT ![np[p]] = "RUNNABLE"]
  /\ np' = [np EXCEPT ![p] = 0]
  /\ Return(p)
  /\ UNCHANGED <<pid, parent, killed, chan, owned, context, nextpid, lock, on, scan, resume, panicked>>

-----------------------------------------------------------------------------
(* exit(), wait(), kill().                                                 *)

\* Variant that leaves the children with their dead parent.
Abandon_none(p) == parent

\* The parents once p has passed its children to init.
Abandon(p) == [q \in Slot |-> IF parent[q] = p THEN initproc ELSE parent[q]]

\* Variant of exit() that releases ptable.lock before it leaves its stack.
exit_unlocked(c) == LET p == on[c] IN
  /\ At(c, "exit") /\ p # initproc /\ lock = 0
  /\ parent' = Abandon(p)
  /\ state' = [wakeup1(state, parent[p]) EXCEPT ![p] = "ZOMBIE"]
  /\ context' = [context EXCEPT ![p] = "zombie_exit"]
  /\ Goto(p, "sched")
  /\ UNCHANGED <<pid, killed, chan, owned, nextpid, lock, on, scan, local, panicked>>

\* exit() once the files are closed: wake the parent, hand the children to
\* init, and become a zombie, all before the switch that lets go of the lock.
exit(c) ==
  LET p == on[c]
      kids == {q \in Slot : parent[q] = p}
      s1 == wakeup1(state, parent[p])
      s2 == IF \E q \in kids : state[q] = "ZOMBIE" THEN wakeup1(s1, initproc) ELSE s1
  IN /\ At(c, "exit")
     /\ IF p = initproc
        THEN panicked' = TRUE /\ UNCHANGED <<state, parent, context, lock, pc>>
        ELSE /\ lock = 0 /\ lock' = c
             /\ parent' = Abandon(p)
             /\ state' = [s2 EXCEPT ![p] = "ZOMBIE"]
             /\ context' = [context EXCEPT ![p] = "zombie_exit"]
             /\ Goto(p, "sched")
             /\ UNCHANGED panicked
     /\ UNCHANGED <<pid, killed, chan, owned, nextpid, on, scan, local>>

wait(c) == /\ At(c, "sys") /\ lock = 0
           /\ lock' = c
           /\ Goto(on[c], "wait")
           /\ UNCHANGED <<table, owned, context, nextpid, on, scan, local, panicked>>

\* wait() frees the first zombie child it finds.
reap(c) ==
  LET p == on[c]
      zombies == {q \in Slot : parent[q] = p /\ state[q] = "ZOMBIE"}
      q == Min(zombies)
  IN /\ At(c, "wait") /\ zombies # {}
     /\ kstack' = [kstack EXCEPT ![q] = FALSE]
     /\ pgdir' = [pgdir EXCEPT ![q] = FALSE]
     /\ state' = [state EXCEPT ![q] = "UNUSED"]
     /\ pid' = [pid EXCEPT ![q] = 0]
     /\ parent' = [parent EXCEPT ![q] = 0]
     /\ killed' = [killed EXCEPT ![q] = FALSE]
     /\ chan' = [chan EXCEPT ![p] = 0]
     /\ lock' = 0
     /\ Return(p)
     /\ UNCHANGED <<context, nextpid, on, scan, local, panicked>>

\* wait() with no zombie child: give up, or sleep(proc, &ptable.lock).
wait_sleep(c) ==
  LET p == on[c]
      kids == {q \in Slot : parent[q] = p}
  IN /\ At(c, "wait") /\ \A q \in kids : state[q] # "ZOMBIE"
     /\ IF kids = {} \/ killed[p]
        THEN /\ chan' = [chan EXCEPT ![p] = 0]
             /\ lock' = 0
             /\ Return(p)
             /\ UNCHANGED <<state, context>>
        ELSE /\ chan' = [chan EXCEPT ![p] = p]
             /\ state' = [state EXCEPT ![p] = "SLEEPING"]
             /\ context' = [context EXCEPT ![p] = "wait"]
             /\ Goto(p, "sched")
             /\ UNCHANGED lock
     /\ UNCHANGED <<pid, parent, killed, owned, nextpid, on, scan, local, panicked>>

\* Variants of kill()'s wakeup: none, and one that does not look at the state.
Unsleep_never(q) == state
Unsleep_always(q) == [state EXCEPT ![q] = "RUNNABLE"]

Unsleep(q) == [state EXCEPT ![q] = IF @ = "SLEEPING" THEN "RUNNABLE" ELSE @]

\* A pid that no process has may still be found in an unused slot.
kill(c, n) ==
  LET p == on[c]
      match == {q \in Slot : pid[q] = n}
      q == Min(match)
  IN /\ At(c, "sys") /\ lock = 0
     /\ IF match = {}
        THEN UNCHANGED <<killed, state>>
        ELSE /\ killed' = [killed EXCEPT ![q] = TRUE]
             /\ state' = Unsleep(q)
     /\ Goto(p, IF killed'[p] THEN "exit" ELSE "user")
     /\ UNCHANGED <<pid, parent, chan, owned, context, nextpid, lock, on, scan, local, panicked>>

Halted == panicked /\ UNCHANGED vars

Kernel(c) == \/ sched_acquire(c) \/ scheduler(c) \/ sched(c) \/ forkret(c) \/ yielded(c)
             \/ \E ok \in BOOLEAN : fork_kalloc(c, ok) \/ fork_copyuvm(c, ok)
             \/ fork_ready(c) \/ exit(c) \/ reap(c) \/ wait_sleep(c)
User(c) == \/ trap_killed(c) \/ trap_fault(c) \/ syscall(c)
           \/ fork(c) \/ wait(c) \/ sys_exit(c)
           \/ \E n \in 0 .. MaxPid : kill(c, n)

Next == (\E c \in CPU : Kernel(c) \/ User(c) \/ yield(c)) \/ Halted

Spec == Init /\ [][Next]_vars

-----------------------------------------------------------------------------
(* Properties.                                                             *)

Live == {"RUNNABLE", "RUNNING", "SLEEPING"}

\* However two CPUs interleave, the process table and the CPUs agree: a process runs on at
\* most one CPU, and when ptable.lock is free the RUNNING ones are those on a CPU; the
\* stack and the page directory a CPU runs on are not freed under it, not even in exit(),
\* which makes the process a zombie while still on them; a free slot owns no memory, on
\* every path by which fork() or wait() frees it; and sched() always finds ptable.lock
\* held and the state changed, so that the only panic of proc.c is that of init exiting.
RunsSafely ==
  /\ \A c, d \in CPU : on[c] = on[d] /\ on[c] # 0 => c = d
  /\ lock = 0 => \A p \in Slot : state[p] = "RUNNING" <=> \E c \in CPU : on[c] = p
  /\ \A c \in CPU : on[c] # 0 =>
       kstack[on[c]] /\ pgdir[on[c]] /\ state[on[c]] \notin {"UNUSED", "EMBRYO"}
  /\ \A p \in Slot : state[p] = "UNUSED" => ~kstack[p] /\ ~pgdir[p]
  /\ panicked => \E c \in CPU : on[c] = initproc /\ pc[initproc] = "exit"

\* Every process but init has a parent that can still wait for it: exit()
\* passes the children on before anyone sees the parent dead.
NoOrphan == \A p \in Slot \ {initproc} :
  state[p] \in Live \cup {"ZOMBIE"} => parent[p] # 0 /\ state[parent[p]] \in Live

\* No wakeup is lost: a process asleep in wait() has a child, none of its
\* children is a zombie, and it has not been killed.
WaitsForAChild == \A p \in Slot : state[p] = "SLEEPING" =>
  /\ ~killed[p]
  /\ \E q \in Slot : parent[q] = p
  /\ \A q \in Slot : parent[q] = p => state[q] # "ZOMBIE"

\* Whatever the interleaving, a process keeps its pid and its parent while it
\* lives, except that an orphan goes to init, and ends as a zombie; and a
\* zombie can only be freed.
LifeCycle == [][\A p \in Slot :
  /\ state[p] \in Live => /\ state'[p] \in Live \cup {"ZOMBIE"}
                         /\ pid'[p] = pid[p] /\ parent'[p] \in {parent[p], initproc}
  /\ state[p] = "ZOMBIE" => state'[p] \in {"ZOMBIE", "UNUSED"}]_vars

\* A process that fork() has just begun to create has not been killed.  Not checked, since
\* it does not hold: kill() finds the pid that an unused slot keeps, and sets killed there.
BornUnkilled == [][\A p \in Slot :
  state[p] = "UNUSED" /\ state'[p] = "EMBRYO" => ~killed[p]]_vars

\* A killed process dies, whatever it was doing: none stays alive for ever.
KilledDies == \A p \in Slot : []<>(killed[p] /\ state[p] \in Live => panicked)

\* A runnable process gets a CPU: the rounds of scheduler() miss nobody.
RunnableRuns == \A p \in Slot : []<>(state[p] = "RUNNABLE" => panicked)

\* The zombie of an orphan is freed, since init keeps waiting.
OrphanReaped == \A p \in Slot : []<>(state[p] = "ZOMBIE" /\ parent[p] = initproc => panicked)

\* A step of the kernel code that process p executes in a system call or trap.
Advance(p) == \E c \in CPU : on[c] = p /\
  \/ trap_killed(c) \/ sys_exit(c) \/ exit(c) \/ fork(c) \/ fork_ready(c) \/ wait(c)
  \/ \E ok \in BOOLEAN : fork_kalloc(c, ok) \/ fork_copyuvm(c, ok)
  \/ \E n \in 0 .. MaxPid : kill(c, n)

\* CPUs and their timers do not stop, a CPU that spins for the lock gets it in
\* the end, the preemptions of a process leave it time to advance, and init
\* calls wait() again and again (init.c).
Fairness ==
  /\ \A c \in CPU :
       /\ WF_vars(scheduler(c) \/ sched(c) \/ forkret(c) \/ yielded(c) \/ reap(c) \/ wait_sleep(c))
       /\ SF_vars(sched_acquire(c)) /\ SF_vars(yield(c))
  /\ \A p \in Slot : SF_vars(Advance(p))
  /\ SF_vars(\E c \in CPU : on[c] = initproc /\ syscall(c))
  /\ SF_vars(\E c \in CPU : on[c] = initproc /\ wait(c))
LiveSpec == Spec /\ Fairness
=============================================================================
