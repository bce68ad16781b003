------------------------------ MODULE Spinlock ------------------------------
(***************************************************************************)
(* spinlock.c on several CPUs: acquire() and release(), pushcli() and      *)
(* popcli(), and what they rest on, the interrupt flag of each CPU, with   *)
(* interrupt handlers that take locks themselves, and with sched() and     *)
(* scheduler() handing ptable.lock from one stack to another.  A context   *)
(* is a process (its kernel stack) or the scheduler of a CPU.              *)
(***************************************************************************)
EXTENDS Integers, FiniteSets

CONSTANTS CPU, Thread,
          NLOCK,        \* the number of locks
          ptable,       \* the place of ptable.lock in the locking order
          None          \* a null cpu pointer; also no interrupted code

\* Locks are numbered in the order in which the kernel takes them.  ptable.lock need not
\* be the last: wait() calls kfree(), which takes kmem.lock, under it.
Lock == 1 .. NLOCK
Ctx == CPU \cup Thread

Label == {"run", "cli", "xchg", "setcpu", "unlock", "popcli", "sti", "new",
          "switched", "forkret", "trapret"}
Frame == [pc : Label, lk : Lock, eflags : BOOLEAN, then : {"run", "sti", "trapret"},
          held : SUBSET Lock]

ASSUME SpinAssumption == /\ NLOCK \in Nat /\ ptable \in Lock /\ CPU \cap Thread = {}
                         /\ None \notin CPU \cup Frame

VARIABLES
  locked, lkcpu,   \* lk->locked and lk->cpu
  FL_IF,           \* the interrupt flag of each CPU
  ncli, intena,    \* cpu->ncli and cpu->intena
  cur,             \* the context each CPU executes
  frame,           \* where a context is: pc, the lock lk at hand, the eflags
                   \* that pushcli() read, the label after popcli(), and the
                   \* locks held, which were acquired and not released
  interrupted,     \* the frame below an interrupt handler, or None
  saved,           \* sched()'s local variable intena
  panicked

vars == <<locked, lkcpu, FL_IF, ncli, intena, cur, frame, interrupted, saved, panicked>>
lockstate == <<locked, lkcpu>>
cpustate == <<FL_IF, ncli, intena>>
stacks == <<cur, interrupted, saved>>

\* A frame at label l, outside acquire() and release(): its locals are dead.
FrameAt(l, h) == [pc |-> l, lk |-> ptable, eflags |-> FALSE, then |-> "run", held |-> h]

Init == /\ locked = [l \in Lock |-> FALSE] /\ lkcpu = [l \in Lock |-> None]
        /\ FL_IF = [c \in CPU |-> FALSE]
        /\ ncli = [c \in CPU |-> 0] /\ intena = [c \in CPU |-> FALSE]
        /\ cur = [c \in CPU |-> c]
        /\ frame = [k \in Ctx |-> FrameAt(IF k \in CPU THEN "sti" ELSE "new", {})]
        /\ interrupted = [k \in Ctx |-> None]
        /\ saved = [t \in Thread |-> FALSE]
        /\ panicked = FALSE

At(c, l) == ~panicked /\ frame[cur[c]].pc = l
Goto(c, l) == frame' = [frame EXCEPT ![cur[c]].pc = l]
Return(c, l, h) == frame' = [frame EXCEPT ![cur[c]] = FrameAt(l, h)]
holding(c, l) == locked[l] /\ lkcpu[l] = c

-----------------------------------------------------------------------------
(* acquire() and release().  Code between cli and the return of popcli()   *)
(* cannot be interrupted, so it is split only where other CPUs look.       *)

\* acquire(l): pushcli() reads eflags.  That the kernel takes locks in one order is
\* assumed of its callers here.  scheduler() itself takes only ptable.lock.
acquire(c, l) ==
  LET k == cur[c] IN
  /\ At(c, "run") /\ \A h \in frame[k].held : h < l
  /\ k \in CPU /\ interrupted[k] = None => l = ptable
  /\ frame' = [frame EXCEPT ![k].pc = "cli", ![k].lk = l, ![k].eflags = FL_IF[c]]
  /\ UNCHANGED <<lockstate, cpustate, stacks, panicked>>

pushcli(c) ==
  LET k == cur[c] IN
  /\ At(c, "cli")
  /\ FL_IF' = [FL_IF EXCEPT ![c] = FALSE]
  /\ ncli' = [ncli EXCEPT ![c] = @ + 1]
  /\ intena' = [intena EXCEPT ![c] = IF ncli[c] = 0 THEN frame[k].eflags ELSE @]
  /\ panicked' = holding(c, frame[k].lk)
  /\ frame' = [frame EXCEPT ![k].pc = "xchg", ![k].eflags = FALSE]
  /\ UNCHANGED <<lockstate, stacks>>

\* Variant that does not look at the old value.
xchg_blind(c) == LET k == cur[c] IN
  /\ At(c, "xchg")
  /\ locked' = [locked EXCEPT ![frame[k].lk] = TRUE]
  /\ Goto(c, "setcpu")
  /\ UNCHANGED <<lkcpu, cpustate, stacks, panicked>>

\* The atomic exchange; the loop ends when the old value is 0.
xchg(c) == LET k == cur[c] IN
  /\ At(c, "xchg")
  /\ locked' = [locked EXCEPT ![frame[k].lk] = TRUE]
  /\ Goto(c, IF locked[frame[k].lk] THEN "xchg" ELSE "setcpu")
  /\ UNCHANGED <<lkcpu, cpustate, stacks, panicked>>

setcpu(c) == LET k == cur[c] IN
  /\ At(c, "setcpu")
  /\ lkcpu' = [lkcpu EXCEPT ![frame[k].lk] = c]
  /\ Return(c, "run", frame[k].held \cup {frame[k].lk})
  /\ UNCHANGED <<locked, cpustate, stacks, panicked>>

\* release(l) up to lk->cpu = 0.
ReleaseThen(c, l, then) ==
  LET k == cur[c] IN
  /\ IF holding(c, l)
     THEN lkcpu' = [lkcpu EXCEPT ![l] = None] /\ UNCHANGED panicked
     ELSE panicked' = TRUE /\ UNCHANGED lkcpu
  /\ frame' = [frame EXCEPT ![k].pc = "unlock", ![k].lk = l, ![k].then = then,
                            ![k].held = @ \ {l}]
  /\ UNCHANGED <<locked, cpustate, stacks>>

release(c, l) ==
  /\ At(c, "run") /\ l \in frame[cur[c]].held
  /\ ReleaseThen(c, l, IF cur[c] \in CPU /\ interrupted[cur[c]] = None THEN "sti" ELSE "run")

\* Variant that leaves the lock locked.
unlock_never(c) == At(c, "unlock") /\ Goto(c, "popcli")
                   /\ UNCHANGED <<lockstate, cpustate, stacks, panicked>>

unlock(c) == /\ At(c, "unlock")
             /\ locked' = [locked EXCEPT ![frame[cur[c]].lk] = FALSE]
             /\ Goto(c, "popcli")
             /\ UNCHANGED <<lkcpu, cpustate, stacks, panicked>>

Ncli(c) == ncli[c] - 1
Outermost(c) == ncli[c] = 1

popcli(c) ==
  /\ At(c, "popcli")
  /\ panicked' = (FL_IF[c] \/ ncli[c] = 0)
  /\ ncli' = [ncli EXCEPT ![c] = Ncli(c)]
  /\ FL_IF' = [FL_IF EXCEPT ![c] = @ \/ (Outermost(c) /\ intena[c])]
  /\ Return(c, frame[cur[c]].then, frame[cur[c]].held)
  /\ UNCHANGED <<lockstate, intena, stacks>>

-----------------------------------------------------------------------------
(* Interrupts: the gate clears FL_IF, iret restores the interrupted eflags. *)

interrupt(c) == LET k == cur[c] IN
  /\ ~panicked /\ FL_IF[c] /\ interrupted[k] = None
  /\ frame[k].pc \in {"run", "cli", "sti", "trapret"}
  /\ FL_IF' = [FL_IF EXCEPT ![c] = FALSE]
  /\ interrupted' = [interrupted EXCEPT ![k] = frame[k]]
  /\ Return(c, "run", {})
  /\ UNCHANGED <<lockstate, ncli, intena, cur, saved, panicked>>

iret(c) == LET k == cur[c] IN
  /\ At(c, "run") /\ interrupted[k] # None /\ frame[k].held = {}
  /\ FL_IF' = [FL_IF EXCEPT ![c] = TRUE]
  /\ frame' = [frame EXCEPT ![k] = interrupted[k]]
  /\ interrupted' = [interrupted EXCEPT ![k] = None]
  /\ UNCHANGED <<lockstate, ncli, intena, cur, saved, panicked>>

-----------------------------------------------------------------------------
(* The switches between contexts, with ptable.lock held across them.       *)

\* The top of scheduler()'s loop.
sti(c) == /\ At(c, "sti")
          /\ FL_IF' = [FL_IF EXCEPT ![c] = TRUE]
          /\ Goto(c, "run")
          /\ UNCHANGED <<lockstate, ncli, intena, stacks, panicked>>

\* Variant of sched() that does not put intena back.
IntenaFor_cpu(c, t) == intena[c]

\* The intena of a process that is switched to: what sched() saved for it, or
\* that of the scheduler when it starts.
IntenaFor(c, t) == IF frame[t].pc = "new" THEN intena[c] ELSE saved[t]

\* scheduler() switches to t: into forkret() the first time, else into sched().
scheduler(c, t) ==
  /\ At(c, "run") /\ cur[c] = c /\ interrupted[c] = None /\ frame[c].held = {ptable}
  /\ frame[t].pc \in {"new", "switched"}
  /\ cur' = [cur EXCEPT ![c] = t]
  /\ frame' = [frame EXCEPT ![c].held = {}, ![t].held = {ptable},
                            ![t].pc = IF @ = "new" THEN "forkret" ELSE "run"]
  /\ intena' = [intena EXCEPT ![c] = IntenaFor(c, t)]
  /\ saved' = [saved EXCEPT ![t] = FALSE]
  /\ UNCHANGED <<lockstate, FL_IF, ncli, interrupted, panicked>>

\* sched(), called by yield(), sleep() and exit() with only ptable.lock held.
sched(c) == LET k == cur[c] IN
  /\ At(c, "run") /\ k \in Thread /\ frame[k].held = {ptable}
  /\ panicked' = (~holding(c, ptable) \/ ncli[c] # 1 \/ FL_IF[c])
  /\ saved' = [saved EXCEPT ![k] = intena[c]]
  /\ cur' = [cur EXCEPT ![c] = c]
  /\ frame' = [frame EXCEPT ![k] = FrameAt("switched", {}), ![c].held = {ptable}]
  /\ UNCHANGED <<lockstate, cpustate, interrupted>>

forkret(c) == At(c, "forkret") /\ ReleaseThen(c, ptable, "trapret")

\* The iret that ends the first switch to a process.
trapret(c) == /\ At(c, "trapret")
              /\ FL_IF' = [FL_IF EXCEPT ![c] = TRUE]
              /\ Goto(c, "run")
              /\ UNCHANGED <<lockstate, ncli, intena, stacks, panicked>>

Next == \E c \in CPU :
  \/ pushcli(c) \/ xchg(c) \/ setcpu(c) \/ unlock(c) \/ popcli(c)
  \/ interrupt(c) \/ iret(c) \/ sti(c) \/ sched(c) \/ forkret(c) \/ trapret(c)
  \/ \E l \in Lock : acquire(c, l) \/ release(c, l)
  \/ \E t \in Thread : scheduler(c, t)

Spec == Init /\ [][Next]_vars

-----------------------------------------------------------------------------
(* Properties.                                                             *)

\* A lock has one holder, also while ptable.lock passes between stacks; a context runs on
\* one CPU, and interrupts stay off while it holds a lock; so no handler asks for a lock
\* that the code it interrupted holds, and no panic of acquire(), release(), popcli() or
\* sched() is reached.
MutualExclusion ==
  /\ \A j, k \in Ctx : j # k => frame[j].held \cap frame[k].held = {}
  /\ \A c \in CPU :
       /\ \A d \in CPU : cur[c] = cur[d] => c = d
       /\ frame[cur[c]].held # {} => ~FL_IF[c] /\ ncli[c] >= Cardinality(frame[cur[c]].held)
  /\ ~panicked

\* Matched pushcli() and popcli() leave interrupts as they were, though the
\* process may have been switched out in between and resumed on another CPU:
\* with no lock, they are on in kernel code and off in a handler.
InterruptsRestored == \A c \in CPU : LET k == cur[c] IN
  frame[k].pc = "run" /\ frame[k].held = {} => FL_IF[c] = (interrupted[k] = None)

\* A CPU that spins on a lock gets it.
AcquireEnds == \A c \in CPU : []<>(frame[cur[c]].pc # "xchg")

\* Code proceeds, critical sections end, and a spinning CPU is not passed over
\* for ever.
Fairness == \A c \in CPU :
  /\ WF_vars(pushcli(c) \/ setcpu(c) \/ unlock(c) \/ popcli(c) \/ forkret(c))
  /\ SF_vars(xchg(c)) /\ \A l \in Lock : SF_vars(release(c, l))
LiveSpec == Spec /\ Fairness
=============================================================================
