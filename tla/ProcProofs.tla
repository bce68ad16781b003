----------------------------- MODULE ProcProofs -----------------------------
(***************************************************************************)
(* The inductive invariant of Proc, for every number of CPUs and of slots  *)
(* and whatever bounds the pids, and what follows from it: RunsSafely,     *)
(* NoOrphan, WaitsForAChild and LifeCycle.                                 *)
(***************************************************************************)
EXTENDS Proc, TLAPS, WellFoundedInduction

State == {"UNUSED", "EMBRYO", "SLEEPING", "RUNNABLE", "RUNNING", "ZOMBIE"}
Locking == {"forkret", "yielded", "wait", "sched"}
Label == Interruptible \cup Locking \cup {"off"}
Born == {"SLEEPING", "RUNNABLE", "RUNNING", "ZOMBIE"}

TypeOK ==
  /\ state \in [Slot -> State] /\ pid \in [Slot -> Nat] /\ parent \in [Slot -> Slot \cup {0}]
  /\ killed \in [Slot -> BOOLEAN] /\ chan \in [Slot -> Slot \cup {0}]
  /\ kstack \in [Slot -> BOOLEAN] /\ pgdir \in [Slot -> BOOLEAN]
  /\ context \in [Slot -> {"forkret", "yielded", "wait", "zombie_exit"}]
  /\ nextpid \in Nat /\ lock \in CPU \cup {0}
  /\ on \in [CPU -> Slot \cup {0}] /\ scan \in [CPU -> Nat]
  /\ pc \in [Slot -> Label] /\ resume \in [Slot -> Interruptible]
  /\ np \in [Slot -> Slot \cup {0}] /\ panicked \in BOOLEAN

\* Which CPU holds ptable.lock, and who is on a CPU.
HasLock(c) == IF on[c] = 0 THEN scan[c] # 0 ELSE pc[on[c]] \in Locking
CpuInv ==
  /\ \A c, d \in CPU : on[c] = on[d] /\ on[c] # 0 => c = d
  /\ \A p \in Slot : pc[p] # "off" <=> \E c \in CPU : on[c] = p
  /\ \A c \in CPU : HasLock(c) <=> lock = c
  /\ \A c \in CPU : on[c] # 0 => scan[c] # 0
  /\ panicked => \E c \in CPU : on[c] = initproc /\ pc[initproc] = "exit"

\* What the state of a process says of where it is and goes on.
StateOf(p) ==
  /\ pc[p] \notin {"off", "sched"} <=> state[p] = "RUNNING"
  /\ pc[p] = "sched" => state[p] \in {"RUNNABLE", "SLEEPING", "ZOMBIE"}
  /\ state[p] = "RUNNABLE" => context[p] # "zombie_exit"
  /\ state[p] = "SLEEPING" => context[p] = "wait" /\ chan[p] = p
  /\ resume[p] # "user" => context[p] = "yielded" /\ (state[p] = "RUNNABLE" \/ pc[p] = "yielded")
StateInv == \A p \in Slot : StateOf(p)

\* Process p is at label l of fork(), or was when it yielded.
ForkAt(p, l) == pc[p] = l \/ resume[p] = l
Forking(p) == ForkAt(p, "fork_kalloc") \/ ForkAt(p, "fork_copyuvm") \/ ForkAt(p, "fork_ready")

\* What fork() by p has made so far.
ForkOf(p) ==
  /\ Forking(p) <=> np[p] # 0
  /\ np[p] # 0 => state[np[p]] = "EMBRYO"
  /\ ForkAt(p, "fork_kalloc") => ~kstack[np[p]] /\ ~pgdir[np[p]] /\ parent[np[p]] = 0
  /\ ForkAt(p, "fork_copyuvm") =>
       kstack[np[p]] /\ ~pgdir[np[p]] /\ parent[np[p]] = 0 /\ context[np[p]] = "forkret"
  /\ ForkAt(p, "fork_ready") =>
       kstack[np[p]] /\ pgdir[np[p]] /\ parent[np[p]] = p /\ context[np[p]] = "forkret"
\* What a slot owns.
Owns(p) ==
  /\ state[p] = "UNUSED" => ~kstack[p] /\ ~pgdir[p] /\ parent[p] = 0
  /\ state[p] \in Born => kstack[p] /\ pgdir[p]
ForkInv ==
  /\ \A p \in Slot : ForkOf(p)
  /\ \A p, q \in Slot : np[p] = np[q] /\ np[p] # 0 => p = q
  /\ \A p \in Slot : Owns(p)

\* Parents and children.
FamilyInv ==
  /\ state[initproc] \in Live /\ parent[initproc] = 0
  /\ \A p \in Slot : parent[p] # p
  /\ NoOrphan
  /\ WaitsForAChild

Inv == TypeOK /\ CpuInv /\ StateInv /\ ForkInv /\ FamilyInv

-----------------------------------------------------------------------------
(* Facts about the operators.                                              *)

\* Min() of a nonempty set of slots is one of them.
LEMMA MinIn ==
  ASSUME NEW S \in SUBSET Slot, S # {}
  PROVE  Min(S) \in S
<1>1. S \subseteq Nat BY ProcAssumption DEF Slot
<1> DEFINE R == OpToRel(<, Nat)
<1>2. IsWellFoundedOn(R, Nat) BY Zenon, NatLessThanWellFounded
<1>3. \E x \in S : \A y \in S : ~(<<y, x>> \in R)
  <2> HIDE DEF R
  <2> QED BY Zenon, <1>1, <1>2, WFMin
<1>4. PICK x \in S : \A y \in S : ~(<<y, x>> \in R) BY Zenon, <1>3
<1>5. \A y \in S : ~(y < x) BY Zenon, <1>1, <1>4 DEF OpToRel
<1>6. \A y \in S : x <= y
  <2> SUFFICES ASSUME NEW y \in S PROVE x <= y BY Zenon
  <2>1. ~(y < x) /\ x \in Nat /\ y \in Nat BY Zenon, <1>1, <1>5
  <2> QED BY <2>1
<1> QED BY Zenon, <1>6 DEF Min

\* 0 is neither a CPU nor a slot of the process table.
LEMMA Zero == 0 \notin CPU /\ 0 \notin Slot /\ initproc \in Slot
BY ProcAssumption DEF Slot, initproc

\* What is known of the process a CPU executes.
LEMMA Here ==
  ASSUME Inv, NEW c \in CPU, NEW l, At(c, l)
  PROVE  /\ on[c] \in Slot /\ on[c] # 0 /\ pc[on[c]] = l /\ ~panicked
         /\ l \notin {"off", "sched"} => state[on[c]] = "RUNNING"
         /\ l \notin {"off", "sched", "yielded"} => resume[on[c]] = "user"
<1>1. on[c] \in Slot /\ on[c] # 0 /\ pc[on[c]] = l /\ ~panicked BY Zenon DEF At, Inv, TypeOK
<1>2. l \notin {"off", "sched"} => state[on[c]] = "RUNNING" BY Zenon, <1>1 DEF Inv, StateInv, StateOf
<1>3. ASSUME l \notin {"off", "sched", "yielded"} PROVE resume[on[c]] = "user"
  <2>1. state[on[c]] # "RUNNABLE" BY <1>2, <1>3
  <2> QED BY Zenon, <1>1, <1>3, <2>1 DEF Inv, StateInv, StateOf
<1> QED BY Zenon, <1>1, <1>2, <1>3

-----------------------------------------------------------------------------
(* Steps that leave a part of the state alone.                             *)

\* A process goes on, on its CPU: it takes ptable.lock, keeps it, lets it go, or has nothing
\* to do with it.
LockStep(c, l) ==
  \/ l \in Locking /\ lock \in {0, c} /\ lock' = c
  \/ l \notin Locking /\ pc[on[c]] \in Locking /\ lock' = 0
  \/ l \notin Locking /\ pc[on[c]] \notin Locking /\ lock' = lock

\* A process moves on its CPU.
LEMMA CpuStep ==
  ASSUME TypeOK, CpuInv, NEW c \in CPU, on[c] \in Slot, pc[on[c]] # "off", ~panicked,
         NEW l \in Label \ {"off"}, Goto(on[c], l), LockStep(c, l), UNCHANGED <<on, scan, panicked>>
  PROVE  CpuInv' /\ lock' \in CPU \cup {0}
<1> DEFINE p == on[c]
<1>1. \A q \in Slot : pc'[q] = IF q = p THEN l ELSE pc[q] BY Zenon DEF Goto, TypeOK
<1>2. p # 0 /\ 0 \notin CPU /\ 0 \notin Slot BY Zenon, Zero
<1>3. \A d \in CPU : d # c /\ on[d] # 0 => on[d] \in Slot /\ on[d] # p
  <2> SUFFICES ASSUME NEW d \in CPU, d # c, on[d] # 0 PROVE on[d] \in Slot /\ on[d] # p BY Zenon
  <2>1. on[d] \in Slot BY Zenon DEF TypeOK
  <2>2. on[d] # on[c] BY Zenon DEF CpuInv
  <2> QED BY Zenon, <2>1, <2>2
<1>4. \A d \in CPU : HasLock(d) <=> lock = d BY Zenon DEF CpuInv
<1>5. HasLock(c) <=> pc[p] \in Locking BY Zenon, <1>2 DEF HasLock
<1>6. HasLock(c)' <=> l \in Locking BY Zenon, <1>1, <1>2 DEF HasLock
<1>7. \A d \in CPU : d # c => (HasLock(d)' <=> HasLock(d))
  <2> SUFFICES ASSUME NEW d \in CPU, d # c PROVE HasLock(d)' <=> HasLock(d) BY Zenon
  <2>1. on[d] # 0 => pc'[on[d]] = pc[on[d]] BY Zenon, <1>1, <1>3
  <2> QED BY Zenon, <2>1 DEF HasLock
<1> HIDE DEF p
<1>8. lock' \in CPU \cup {0} BY Zenon DEF LockStep, TypeOK
<1>9. \A d \in CPU : HasLock(d)' <=> lock' = d
  <2>1. CASE l \in Locking /\ lock \in {0, c} /\ lock' = c BY Zenon, <1>2, <1>4, <1>6, <1>7, <2>1
  <2>2. CASE l \notin Locking /\ pc[on[c]] \in Locking /\ lock' = 0
    BY Zenon, <1>2, <1>4, <1>5, <1>6, <1>7, <2>2 DEF p
  <2>3. CASE l \notin Locking /\ pc[on[c]] \notin Locking /\ lock' = lock
    BY Zenon, <1>2, <1>4, <1>5, <1>6, <1>7, <2>3 DEF p
  <2> QED BY Zenon, <2>1, <2>2, <2>3 DEF LockStep
<1>10. \A q \in Slot : pc'[q] # "off" <=> pc[q] # "off" BY Zenon, <1>1 DEF p
<1>11. \A q \in Slot : pc'[q] # "off" <=> \E d \in CPU : on'[d] = q BY Zenon, <1>10 DEF CpuInv
<1>12. /\ \A d, e \in CPU : on'[d] = on'[e] /\ on'[d] # 0 => d = e
       /\ \A d \in CPU : on'[d] # 0 => scan'[d] # 0
       /\ ~panicked'
  BY Zenon DEF CpuInv
<1> QED BY Zenon, <1>8, <1>9, <1>11, <1>12 DEF CpuInv

\* A process whose fields do not change.
SameProc(q) == /\ pc'[q] = pc[q] /\ state'[q] = state[q] /\ context'[q] = context[q]
               /\ chan'[q] = chan[q] /\ resume'[q] = resume[q]

\* A process that a step leaves alone.
LEMMA StateSame == ASSUME NEW q \in Slot, StateOf(q), SameProc(q) PROVE StateOf(q)'
BY Zenon DEF StateOf, SameProc

\* A process that runs.
LEMMA StateRun ==
  ASSUME NEW q \in Slot, pc'[q] \notin {"off", "sched"}, state'[q] = "RUNNING",
         resume'[q] = "user"
  PROVE  StateOf(q)'
BY Zenon DEF StateOf

\* A slot that nothing happens to.
SameSlot(q) == /\ state'[q] = state[q] /\ kstack'[q] = kstack[q] /\ pgdir'[q] = pgdir[q]
               /\ parent'[q] = parent[q] /\ context'[q] = context[q]

\* A process that stays where it is in fork(), if it is there, and whose new process
\* nothing happens to.
LEMMA ForkKept ==
  ASSUME NEW p \in Slot, ForkOf(p), np'[p] = np[p],
         ForkAt(p, "fork_kalloc")' <=> ForkAt(p, "fork_kalloc"),
         ForkAt(p, "fork_copyuvm")' <=> ForkAt(p, "fork_copyuvm"),
         ForkAt(p, "fork_ready")' <=> ForkAt(p, "fork_ready"),
         np[p] # 0 => SameSlot(np[p])
  PROVE  ForkOf(p)'
<1>1. Forking(p)' <=> Forking(p) BY Zenon DEF Forking
<1>2. CASE np[p] = 0
  <2>1. ~Forking(p)' /\ np'[p] = 0 BY Zenon, <1>1, <1>2 DEF ForkOf
  <2> QED BY Zenon, <2>1 DEF ForkOf, Forking
<1>3. CASE np[p] # 0
  <2>1. SameSlot(np[p]) BY Zenon, <1>3
  <2> QED BY Zenon, <1>1, <1>3, <2>1 DEF ForkOf, SameSlot
<1> QED BY Zenon, <1>2, <1>3

\* A process that is not in fork().
LEMMA ForkNone ==
  ASSUME NEW p \in Slot, np'[p] = 0, resume'[p] = "user",
         pc'[p] \notin {"fork_kalloc", "fork_copyuvm", "fork_ready"}
  PROVE  ForkOf(p)'
<1>1. ~Forking(p)' BY DEF Forking, ForkAt
<1> QED BY Zenon, <1>1 DEF ForkOf, Forking

\* A step after which the same processes live, nobody else sleeps and no sleeper is killed.
LEMMA FamilySame ==
  ASSUME FamilyInv, TypeOK, parent' = parent,
         \A q \in Slot : state'[q] \in Live <=> state[q] \in Live,
         \A q \in Slot : state'[q] = "ZOMBIE" <=> state[q] = "ZOMBIE",
         \A q \in Slot : state'[q] = "SLEEPING" => state[q] = "SLEEPING" /\ ~killed'[q]
  PROVE  FamilyInv'
<1>1. state'[initproc] \in Live /\ parent'[initproc] = 0 BY Zenon, Zero DEF FamilyInv
<1>2. NoOrphan'
  <2> SUFFICES ASSUME NEW p \in Slot \ {initproc}, state'[p] \in Live \cup {"ZOMBIE"}
               PROVE  parent'[p] # 0 /\ state'[parent'[p]] \in Live
    BY Zenon DEF NoOrphan
  <2>1. state[p] \in Live \cup {"ZOMBIE"}
    <3>1. CASE state'[p] \in Live BY Zenon, <3>1
    <3>2. CASE state'[p] = "ZOMBIE" BY Zenon, <3>2
    <3> QED BY Zenon, <3>1, <3>2
  <2>2. parent[p] # 0 /\ state[parent[p]] \in Live BY Zenon, <2>1 DEF FamilyInv, NoOrphan
  <2>3. parent[p] \in Slot BY Zenon, <2>2 DEF TypeOK
  <2> QED BY Zenon, <2>2, <2>3
<1>3. WaitsForAChild'
  <2> SUFFICES ASSUME NEW p \in Slot, state'[p] = "SLEEPING"
               PROVE  /\ ~killed'[p]
                      /\ \E q \in Slot : parent'[q] = p
                      /\ \A q \in Slot : parent'[q] = p => state'[q] # "ZOMBIE"
    BY Zenon DEF WaitsForAChild
  <2> QED BY Zenon DEF FamilyInv, WaitsForAChild
<1>4. \A p \in Slot : parent'[p] # p BY Zenon DEF FamilyInv
<1> QED BY Zenon, <1>1, <1>2, <1>3, <1>4 DEF FamilyInv

\* A step inside the kernel or from user space that changes neither the table nor fork()'s
\* new process.
LEMMA PlainStep ==
  ASSUME Inv, NEW c \in CPU, NEW k \in {"forkret", "user", "sys", "wait"}, At(c, k),
         NEW l \in {"user", "sys", "exit", "wait"}, Goto(on[c], l), LockStep(c, l),
         killed' \in [Slot -> BOOLEAN], \A q \in Slot : q # on[c] => killed'[q] = killed[q],
         chan' \in [Slot -> Slot \cup {0}], \A q \in Slot : q # on[c] => chan'[q] = chan[q],
         UNCHANGED <<state, pid, parent, kstack, pgdir, context, nextpid, on, scan, resume, np, panicked>>
  PROVE  Inv'
<1> USE DEF Inv
<1>0. PICK p \in Slot : p = on[c] BY Zenon, Here
<1>1. pc[p] = k /\ ~panicked /\ state[p] = "RUNNING" /\ resume[p] = "user"
  BY Zenon, <1>0, Here
<1>2. \A q \in Slot : pc'[q] = IF q = p THEN l ELSE pc[q] BY Zenon, <1>0 DEF Goto, TypeOK
<1>3. CpuInv' /\ lock' \in CPU \cup {0}
  <2>1. l \in Label \ {"off"} /\ pc[p] # "off" BY <1>1 DEF Label, Interruptible, Locking
  <2> QED BY Zenon, <1>0, <1>1, <2>1, CpuStep
<1>4. TypeOK'
  <2>1. l \in Label BY DEF Label, Interruptible, Locking
  <2>2. pc' \in [Slot -> Label] BY Zenon, <1>0, <1>1, <2>1 DEF Goto, TypeOK
  <2> QED BY Zenon, <1>3, <2>2 DEF TypeOK
<1>5. StateInv'
  <2>1. l \notin {"off", "sched"} OBVIOUS
  <2>3. StateOf(p)' BY Zenon, <1>1, <1>2, <2>1, StateRun
  <2>2. \A q \in Slot : q # p => SameProc(q) BY Zenon, <1>0, <1>2 DEF SameProc
  <2> QED BY Zenon, <2>2, <2>3, StateSame DEF StateInv
<1>6. ForkInv'
  <2>1. \A q \in Slot : ForkOf(q)'
    <3> SUFFICES ASSUME NEW q \in Slot PROVE ForkOf(q)' BY Zenon
    <3>1. ForkAt(q, "fork_kalloc")' <=> ForkAt(q, "fork_kalloc") BY Zenon, <1>1, <1>2 DEF ForkAt
    <3>2. ForkAt(q, "fork_copyuvm")' <=> ForkAt(q, "fork_copyuvm") BY Zenon, <1>1, <1>2 DEF ForkAt
    <3>3. ForkAt(q, "fork_ready")' <=> ForkAt(q, "fork_ready") BY Zenon, <1>1, <1>2 DEF ForkAt
    <3>4. ForkOf(q) /\ SameSlot(np[q]) BY Zenon DEF SameSlot, ForkInv
    <3> QED BY Zenon, <3>1, <3>2, <3>3, <3>4, ForkKept
  <2>2. \A q \in Slot : Owns(q)' BY Zenon DEF ForkInv, Owns
  <2>3. \A q, r \in Slot : np'[q] = np'[r] /\ np'[q] # 0 => q = r BY Zenon DEF ForkInv
  <2> QED BY Zenon, <2>1, <2>2, <2>3 DEF ForkInv
<1>7. FamilyInv'
  <2>1. \A q \in Slot : state'[q] = "SLEEPING" => state[q] = "SLEEPING" /\ ~killed'[q]
    <3> SUFFICES ASSUME NEW q \in Slot, state[q] = "SLEEPING" PROVE ~killed'[q] BY Zenon
    <3>1. q # p BY <1>1
    <3>2. ~killed[q] BY Zenon DEF FamilyInv, WaitsForAChild
    <3> QED BY Zenon, <1>0, <3>1, <3>2
  <2> QED BY Zenon, <2>1, FamilySame
<1> QED BY Zenon, <1>3, <1>4, <1>5, <1>6, <1>7

-----------------------------------------------------------------------------
(* The steps of a process that change little, and of the scheduler.        *)

\* What is known of a process that goes from label to label.
LEMMA Move ==
  ASSUME Inv, NEW c \in CPU, NEW k, k # "off", At(c, k), NEW p \in Slot, p = on[c],
         NEW l \in Label \ {"off"}, Goto(p, l), LockStep(c, l), UNCHANGED <<on, scan, panicked>>
  PROVE  /\ CpuInv' /\ lock' \in CPU \cup {0} /\ pc' \in [Slot -> Label]
         /\ pc'[p] = l /\ \A q \in Slot : q # p => pc'[q] = pc[q]
<1>1. pc[p] = k /\ ~panicked BY Zenon, Here
<1>2. CpuInv' /\ lock' \in CPU \cup {0} BY Zenon, <1>1, CpuStep DEF Inv
<1>3. pc' \in [Slot -> Label] BY Zenon DEF Goto, Inv, TypeOK
<1>4. pc'[p] = l /\ \A q \in Slot : q # p => pc'[q] = pc[q] BY Zenon DEF Goto, Inv, TypeOK
<1> QED BY Zenon, <1>2, <1>3, <1>4

\* Where the end of a system call leads.
LEMMA Returns ==
  ASSUME TypeOK, NEW p \in Slot, Return(p)
  PROVE  \E l \in {"user", "exit"} : Goto(p, l)
<1>1. CASE killed[p] BY Zenon, <1>1 DEF Return
<1>2. CASE ~killed[p] BY Zenon, <1>2 DEF Return
<1> QED BY Zenon, <1>1, <1>2

\* Who holds the lock, from where its process is.
LEMMA Locked ==
  ASSUME Inv, NEW c \in CPU, on[c] # 0
  PROVE  pc[on[c]] \in Locking <=> lock = c
BY Zenon DEF Inv, CpuInv, HasLock

\* The steps of a process that leave the process table alone.
LEMMA NextPlain ==
  ASSUME Inv, NEW c \in CPU,
         \/ forkret(c) \/ trap_killed(c) \/ trap_fault(c) \/ syscall(c) \/ sys_exit(c) \/ wait(c)
  PROVE  Inv'
<1> USE DEF table, owned, local
<1>t. killed \in [Slot -> BOOLEAN] /\ chan \in [Slot -> Slot \cup {0}] BY Zenon DEF Inv, TypeOK
<1>l. {"user", "sys", "exit"} \cap Locking = {} /\ "wait" \in Locking BY DEF Locking
<1>1. CASE forkret(c)
  <2>1. At(c, "forkret") BY Zenon, <1>1 DEF forkret
  <2>2. LockStep(c, "user")
    <3>1. pc[on[c]] \in Locking BY Zenon, <2>1 DEF At, Locking
    <3> QED BY Zenon, <1>1, <1>l, <3>1 DEF LockStep, forkret
  <2> QED BY Zenon, <1>1, <1>t, <2>1, <2>2, PlainStep DEF forkret
<1>k. ASSUME NEW k \in {"user", "sys"}, At(c, k), lock' = lock
      PROVE  LockStep(c, "exit") /\ LockStep(c, "sys")
  <2>1. pc[on[c]] \notin Locking BY Zenon, <1>k, <1>l DEF At
  <2> QED BY Zenon, <1>k, <1>l, <2>1 DEF LockStep
<1>2. CASE trap_killed(c)
  <2>1. At(c, "user") /\ lock' = lock BY Zenon, <1>2 DEF trap_killed
  <2> QED BY Zenon, <1>2, <1>k, <1>t, <2>1, PlainStep DEF trap_killed
<1>3. CASE trap_fault(c)
  <2>1. At(c, "user") /\ lock' = lock BY Zenon, <1>3 DEF trap_fault
  <2>2. killed' \in [Slot -> BOOLEAN] /\ \A q \in Slot : q # on[c] => killed'[q] = killed[q]
    BY Zenon, <1>3, <1>t DEF trap_fault
  <2> QED BY Zenon, <1>3, <1>k, <1>t, <2>1, <2>2, PlainStep DEF trap_fault
<1>4. CASE syscall(c)
  <2>1. At(c, "user") /\ lock' = lock BY Zenon, <1>4 DEF syscall
  <2> QED BY Zenon, <1>4, <1>k, <1>t, <2>1, PlainStep DEF syscall
<1>5. CASE sys_exit(c)
  <2>1. At(c, "sys") /\ lock' = lock BY Zenon, <1>5 DEF sys_exit
  <2> QED BY Zenon, <1>5, <1>k, <1>t, <2>1, PlainStep DEF sys_exit
<1>6. CASE wait(c)
  <2>1. At(c, "sys") BY Zenon, <1>6 DEF wait
  <2>2. LockStep(c, "wait") BY Zenon, <1>6, <1>l DEF LockStep, wait
  <2> QED BY Zenon, <1>6, <1>t, <2>1, <2>2, PlainStep DEF wait
<1> QED BY Zenon, <1>1, <1>2, <1>3, <1>4, <1>5, <1>6

\* A process that does not move, and whose new process nothing happens to.
LEMMA ForkOther ==
  ASSUME NEW q \in Slot, ForkOf(q), pc'[q] = pc[q], resume'[q] = resume[q], np'[q] = np[q],
         np[q] # 0 => SameSlot(np[q])
  PROVE  ForkOf(q)'
<1>1. /\ ForkAt(q, "fork_kalloc")' <=> ForkAt(q, "fork_kalloc")
      /\ ForkAt(q, "fork_copyuvm")' <=> ForkAt(q, "fork_copyuvm")
      /\ ForkAt(q, "fork_ready")' <=> ForkAt(q, "fork_ready")
  BY Zenon DEF ForkAt
<1> QED BY Zenon, <1>1, ForkKept

\* A step that changes at most the lock, the CPUs' places and panicked.
LEMMA TableSame ==
  ASSUME Inv, UNCHANGED <<state, parent, killed, chan, kstack, pgdir, context, pc, resume, np>>
  PROVE  StateInv' /\ ForkInv' /\ FamilyInv'
<1> USE DEF Inv
<1>1. StateInv' BY Zenon, StateSame DEF StateInv, SameProc
<1>2. \A q \in Slot : ForkOf(q)' BY Zenon, ForkOther DEF ForkInv, SameSlot
<1>3. \A q \in Slot : Owns(q)' BY Zenon DEF ForkInv, Owns
<1>4. ForkInv' BY Zenon, <1>2, <1>3 DEF ForkInv
<1>5. FamilyInv' BY Zenon, FamilySame DEF FamilyInv, WaitsForAChild
<1> QED BY Zenon, <1>1, <1>4, <1>5

\* scheduler() takes ptable.lock.
LEMMA NextAcquire == ASSUME Inv, NEW c \in CPU, sched_acquire(c) PROVE Inv'
<1> USE DEF table, owned, local
<1>1. StateInv' /\ ForkInv' /\ FamilyInv' BY Zenon, TableSame DEF sched_acquire
<1>2. TypeOK'
  <2>1. scan' \in [CPU -> Nat] BY DEF sched_acquire, Inv, TypeOK
  <2> QED BY Zenon, <2>1 DEF sched_acquire, Inv, TypeOK
<1>3. \A d \in CPU : scan'[d] = IF d = c THEN 1 ELSE scan[d] BY Zenon DEF sched_acquire, Inv, TypeOK
<1>4. \A d \in CPU : HasLock(d)' <=> lock' = d
  <2> SUFFICES ASSUME NEW d \in CPU PROVE HasLock(d)' <=> lock' = d BY Zenon
  <2>1. HasLock(d) <=> lock = d BY Zenon DEF Inv, CpuInv
  <2>2. lock = 0 /\ d # 0 /\ lock' = c BY Zenon, Zero DEF sched_acquire
  <2>3. CASE d = c
    <3>1. on'[d] = 0 /\ scan'[d] # 0 BY <1>3, <2>3 DEF sched_acquire
    <3> QED BY Zenon, <2>2, <2>3, <3>1 DEF HasLock
  <2>4. CASE d # c
    <3>1. HasLock(d)' <=> HasLock(d) BY Zenon, <1>3, <2>4 DEF HasLock, sched_acquire
    <3> QED BY Zenon, <2>1, <2>2, <2>4, <3>1
  <2> QED BY Zenon, <2>3, <2>4
<1>5. \A d \in CPU : on'[d] # 0 => scan'[d] # 0
  <2> SUFFICES ASSUME NEW d \in CPU, on[d] # 0 PROVE scan'[d] # 0 BY Zenon DEF sched_acquire
  <2>1. d # c BY Zenon DEF sched_acquire
  <2>2. scan[d] # 0 BY Zenon DEF Inv, CpuInv
  <2> QED BY Zenon, <1>3, <2>1, <2>2
<1>6. CpuInv' BY Zenon, <1>4, <1>5 DEF sched_acquire, Inv, CpuInv
<1> QED BY Zenon, <1>1, <1>2, <1>6 DEF Inv

\* A process that the scheduler can take is on no CPU, since the scheduler has the lock.
LEMMA OffCpu ==
  ASSUME Inv, NEW c \in CPU, lock = c, NEW q \in Slot, state[q] # "RUNNING", on[c] # q
  PROVE  pc[q] = "off" /\ \A d \in CPU : on[d] # q
<1>1. pc[q] \in {"off", "sched"} BY Zenon DEF Inv, StateInv, StateOf
<1>2. ASSUME NEW d \in CPU, on[d] = q PROVE FALSE
  <2>1. on[d] # 0 BY Zenon, <1>2, Zero
  <2>2. pc[q] # "off" BY Zenon, <1>2 DEF Inv, CpuInv
  <2>3. pc[on[d]] \in Locking BY <1>1, <1>2, <2>2 DEF Locking
  <2>4. lock = d BY Zenon, <2>1, <2>3, Locked
  <2> QED BY Zenon, <1>2, <2>4
<1>3. pc[q] = "off" BY Zenon, <1>2 DEF Inv, CpuInv
<1> QED BY Zenon, <1>2, <1>3

\* scheduler() finds nothing to run.
LEMMA NextIdle ==
  ASSUME Inv, NEW c \in CPU, on[c] = 0, scan[c] # 0, scan' = [scan EXCEPT ![c] = 0], lock' = 0,
         UNCHANGED <<table, owned, context, nextpid, on, pc, local, panicked>>
  PROVE  Inv'
<1> USE DEF table, owned, local
<1>1. StateInv' /\ ForkInv' /\ FamilyInv' BY Zenon, TableSame
<1>2. TypeOK'
  <2>1. scan' \in [CPU -> Nat] BY DEF Inv, TypeOK
  <2> QED BY Zenon, <2>1 DEF Inv, TypeOK
<1>3. \A d \in CPU : scan'[d] = IF d = c THEN 0 ELSE scan[d] BY Zenon DEF Inv, TypeOK
<1>4. \A d \in CPU : HasLock(d)' <=> lock' = d
  <2> SUFFICES ASSUME NEW d \in CPU PROVE ~HasLock(d)'
    BY Zenon, Zero
  <2>1. CASE d = c BY Zenon, <1>3, <2>1 DEF HasLock
  <2>2. CASE d # c
    <3>1. HasLock(d)' <=> HasLock(d) BY Zenon, <1>3, <2>2 DEF HasLock
    <3>2. HasLock(c) BY Zenon DEF HasLock
    <3>3. lock = c BY Zenon, <3>2 DEF Inv, CpuInv
    <3>4. HasLock(d) <=> lock = d BY Zenon DEF Inv, CpuInv
    <3> QED BY Zenon, <2>2, <3>1, <3>3, <3>4
  <2> QED BY Zenon, <2>1, <2>2
<1>5. \A d \in CPU : on'[d] # 0 => scan'[d] # 0 BY Zenon, <1>3 DEF Inv, CpuInv
<1>6. CpuInv' BY Zenon, <1>4, <1>5 DEF Inv, CpuInv
<1> QED BY Zenon, <1>1, <1>2, <1>6 DEF Inv

\* The scheduler switches to a process.
LEMMA NextSwitch ==
  ASSUME Inv, NEW c \in CPU, ~panicked, on[c] = 0, scan[c] # 0,
         NEW p \in Slot, state[p] = "RUNNABLE",
         scan' = [scan EXCEPT ![c] = NextSlot(p)], state' = [state EXCEPT ![p] = "RUNNING"],
         on' = [on EXCEPT ![c] = p], Goto(p, context[p]),
         panicked' = (context[p] = "zombie_exit"),
         UNCHANGED <<lock, pid, parent, killed, chan, owned, context, nextpid, local>>
  PROVE  Inv'
<1> USE DEF owned, local
<1>1. lock = c BY Zenon DEF Inv, CpuInv, HasLock
<1>2. pc[p] = "off" /\ \A d \in CPU : on[d] # p
  <2>1. on[c] # p /\ state[p] # "RUNNING" BY Zenon, Zero
  <2> QED BY Zenon, <1>1, <2>1, OffCpu
<1>3. context[p] \in Locking \ {"sched"} /\ context[p] # "zombie_exit"
  <2>1. context[p] # "zombie_exit" BY Zenon DEF Inv, StateInv, StateOf
  <2>2. context[p] \in {"forkret", "yielded", "wait", "zombie_exit"} BY Zenon DEF Inv, TypeOK
  <2> QED BY <2>1, <2>2 DEF Locking
<1>4. ~panicked' BY Zenon, <1>3
<1>5. \A q \in Slot : /\ pc'[q] = IF q = p THEN context[p] ELSE pc[q]
                      /\ state'[q] = IF q = p THEN "RUNNING" ELSE state[q]
  BY Zenon DEF Goto, Inv, TypeOK
<1>6. \A d \in CPU : on'[d] = IF d = c THEN p ELSE on[d] BY Zenon DEF Inv, TypeOK
<1>7. \A d \in CPU : scan'[d] = IF d = c THEN p + 1 ELSE scan[d] BY Zenon DEF Inv, TypeOK, NextSlot
<1>8. p # 0 /\ p + 1 \in Nat /\ p + 1 # 0 BY ProcAssumption DEF Slot
<1>9. TypeOK'
  <2>1. scan' \in [CPU -> Nat] BY Zenon, <1>8 DEF Inv, TypeOK, NextSlot
  <2>2. "RUNNING" \in State BY DEF State
  <2>3. state' \in [Slot -> State] BY Zenon, <2>2 DEF Inv, TypeOK
  <2>4. pc' \in [Slot -> Label] BY Zenon, <1>3 DEF Inv, TypeOK, Goto, Label
  <2>5. on' \in [CPU -> Slot \cup {0}] BY Zenon DEF Inv, TypeOK
  <2> QED BY Zenon, <1>4, <2>1, <2>3, <2>4, <2>5 DEF Inv, TypeOK
<1>10. CpuInv'
  <2>1. \A d, e \in CPU : on'[d] = on'[e] /\ on'[d] # 0 => d = e
    <3> SUFFICES ASSUME NEW d \in CPU, NEW e \in CPU, on'[d] = on'[e], on'[d] # 0 PROVE d = e BY Zenon
    <3>1. \A i \in CPU : on[i] = on[d] /\ on[d] # 0 => i = d BY Zenon DEF Inv, CpuInv
    <3>2. CASE d = c BY Zenon, <1>2, <1>6, <3>2
    <3>3. CASE d # c BY Zenon, <1>2, <1>6, <3>1, <3>3
    <3> QED BY Zenon, <3>2, <3>3
  <2>2. \A q \in Slot : pc'[q] # "off" <=> \E d \in CPU : on'[d] = q
    <3> SUFFICES ASSUME NEW q \in Slot PROVE pc'[q] # "off" <=> \E d \in CPU : on'[d] = q BY Zenon
    <3>1. CASE q = p
      <4>1. pc'[q] # "off" BY <1>3, <1>5, <3>1 DEF Locking
      <4> QED BY Zenon, <1>6, <3>1, <4>1
    <3>2. CASE q # p
      <4>1. pc[q] # "off" <=> \E d \in CPU : on[d] = q BY Zenon DEF Inv, CpuInv
      <4>2. (\E d \in CPU : on[d] = q) <=> \E d \in CPU : on'[d] = q
        <5>1. ASSUME NEW d \in CPU, on[d] = q PROVE on'[d] = q BY Zenon, <1>6, <5>1, Zero
        <5>2. ASSUME NEW d \in CPU, on'[d] = q PROVE on[d] = q BY Zenon, <1>6, <3>2, <5>2
        <5> QED BY Zenon, <5>1, <5>2
      <4> QED BY Zenon, <1>5, <3>2, <4>1, <4>2
    <3> QED BY Zenon, <3>1, <3>2
  <2>3. \A d \in CPU : HasLock(d)' <=> lock' = d
    <3> SUFFICES ASSUME NEW d \in CPU PROVE HasLock(d)' <=> lock = d BY Zenon
    <3>1. CASE d = c
      <4>1. on'[d] = p /\ pc'[p] = context[p] BY Zenon, <1>5, <1>6, <3>1
      <4>2. HasLock(d)' BY Zenon, <1>3, <1>8, <4>1 DEF HasLock
      <4> QED BY Zenon, <1>1, <3>1, <4>2
    <3>2. CASE d # c
      <4>1. on'[d] = on[d] /\ scan'[d] = scan[d] /\ on[d] # p BY Zenon, <1>2, <1>6, <1>7, <3>2
      <4>2. on[d] # 0 => on[d] \in Slot BY Zenon DEF Inv, TypeOK
      <4>3. HasLock(d)' <=> HasLock(d) BY Zenon, <1>5, <4>1, <4>2 DEF HasLock
      <4> QED BY Zenon, <4>3 DEF Inv, CpuInv
    <3> QED BY Zenon, <3>1, <3>2
  <2>4. \A d \in CPU : on'[d] # 0 => scan'[d] # 0
    <3> SUFFICES ASSUME NEW d \in CPU, on'[d] # 0 PROVE scan'[d] # 0 BY Zenon
    <3>1. CASE d = c BY Zenon, <1>7, <1>8, <3>1
    <3>2. CASE d # c BY Zenon, <1>6, <1>7, <3>2 DEF Inv, CpuInv
    <3> QED BY Zenon, <3>1, <3>2
  <2> QED BY Zenon, <1>4, <2>1, <2>2, <2>3, <2>4 DEF CpuInv
<1>11. StateInv'
  <2>1. StateOf(p)'
    <3>1. pc'[p] \notin {"off", "sched"} BY <1>3, <1>5 DEF Locking
    <3>2. resume[p] # "user" => context[p] = "yielded" BY Zenon DEF Inv, StateInv, StateOf
    <3>3. state'[p] = "RUNNING" /\ pc'[p] = context[p] BY Zenon, <1>5
    <3> QED BY Zenon, <3>1, <3>2, <3>3 DEF StateOf
  <2>2. \A q \in Slot : q # p => SameProc(q) BY Zenon, <1>5 DEF SameProc
  <2> QED BY Zenon, <2>1, <2>2, StateSame DEF Inv, StateInv
<1>12. ForkInv'
  <2>1. \A q \in Slot : ForkOf(q)'
    <3> SUFFICES ASSUME NEW q \in Slot PROVE ForkOf(q)' BY Zenon
    <3>1. ForkOf(q) BY Zenon DEF Inv, ForkInv
    <3>2. np[q] # 0 => SameSlot(np[q])
      <4>1. np[q] # 0 => np[q] \in Slot /\ np[q] # p BY Zenon, <3>1 DEF ForkOf, Inv, TypeOK
      <4> QED BY Zenon, <1>5, <4>1 DEF SameSlot
    <3>3. CASE q = p
      <4>1. context[p] \notin {"fork_kalloc", "fork_copyuvm", "fork_ready"} BY <1>3 DEF Locking
      <4>2. /\ ForkAt(q, "fork_kalloc")' <=> ForkAt(q, "fork_kalloc")
            /\ ForkAt(q, "fork_copyuvm")' <=> ForkAt(q, "fork_copyuvm")
            /\ ForkAt(q, "fork_ready")' <=> ForkAt(q, "fork_ready")
        BY Zenon, <1>2, <1>5, <3>3, <4>1 DEF ForkAt
      <4> QED BY Zenon, <3>1, <3>2, <4>2, ForkKept
    <3>4. CASE q # p BY Zenon, <1>5, <3>1, <3>2, <3>4, ForkOther
    <3> QED BY Zenon, <3>3, <3>4
  <2>2. \A q \in Slot : Owns(q)'
    <3>1. {"RUNNABLE", "RUNNING"} \subseteq Born BY DEF Born
    <3> SUFFICES ASSUME NEW q \in Slot PROVE Owns(q)' BY Zenon
    <3>2. Owns(q) BY Zenon DEF Inv, ForkInv
    <3>3. CASE q = p
      <4>1. state'[q] = "RUNNING" /\ state[q] = "RUNNABLE" BY Zenon, <1>5, <3>3
      <4> QED BY Zenon, <3>1, <3>2, <4>1 DEF Owns
    <3>4. CASE q # p
      <4>1. state'[q] = state[q] BY Zenon, <1>5, <3>4
      <4> QED BY Zenon, <3>2, <4>1 DEF Owns
    <3> QED BY Zenon, <3>3, <3>4
  <2> QED BY Zenon, <2>1, <2>2 DEF Inv, ForkInv
<1>13. FamilyInv'
  <2>1. \A q \in Slot : state'[q] \in Live <=> state[q] \in Live BY <1>5 DEF Live
  <2>2. \A q \in Slot : state'[q] = "ZOMBIE" <=> state[q] = "ZOMBIE" BY <1>5
  <2>3. \A q \in Slot : state'[q] = "SLEEPING" => state[q] = "SLEEPING" /\ ~killed'[q]
    <3> SUFFICES ASSUME NEW q \in Slot, state'[q] = "SLEEPING" PROVE state[q] = "SLEEPING" /\ ~killed[q]
      BY Zenon
    <3>1. state[q] = "SLEEPING" BY <1>5
    <3> QED BY Zenon, <3>1 DEF Inv, FamilyInv, WaitsForAChild
  <2> QED BY Zenon, <2>1, <2>2, <2>3, FamilySame DEF Inv
<1> QED BY Zenon, <1>9, <1>10, <1>11, <1>12, <1>13 DEF Inv

\* scheduler() switches to a process.
LEMMA NextScheduler == ASSUME Inv, NEW c \in CPU, scheduler(c) PROVE Inv'
<1> DEFINE ready == {p \in Slot : p >= scan[c] /\ state[p] = "RUNNABLE"}
<1>1. CASE ready = {} BY Zenon, <1>1, NextIdle DEF scheduler, table
<1>2. CASE ready # {}
  <2>1. Min(ready) \in ready BY Zenon, <1>2, MinIn
  <2>2. PICK p \in Slot : p = Min(ready) /\ state[p] = "RUNNABLE" BY Zenon, <2>1
  <2> QED BY Zenon, <1>2, <2>2, NextSwitch DEF scheduler
<1> QED BY Zenon, <1>1, <1>2

\* sched() switches back.
LEMMA NextSched == ASSUME Inv, NEW c \in CPU, sched(c) PROVE Inv'
<1> USE DEF table, owned, local
<1>1. At(c, "sched") BY Zenon DEF sched
<1>2. PICK p \in Slot : p = on[c] BY Zenon, <1>1, Here
<1>3. pc[p] = "sched" /\ ~panicked /\ p # 0 BY Zenon, <1>1, <1>2, Here
<1>4. lock = c
  <2>1. pc[on[c]] \in Locking BY <1>2, <1>3 DEF Locking
  <2> QED BY Zenon, <1>2, <1>3, <2>1, Locked
<1>5. state[p] # "RUNNING" BY <1>3 DEF Inv, StateInv, StateOf
<1>6. on' = [on EXCEPT ![c] = 0] /\ Goto(p, "off") /\ ~panicked'
  BY Zenon, <1>2, <1>3, <1>4, <1>5 DEF sched
<1>7. \A q \in Slot : pc'[q] = IF q = p THEN "off" ELSE pc[q] BY Zenon, <1>6 DEF Goto, Inv, TypeOK
<1>8. \A d \in CPU : on'[d] = IF d = c THEN 0 ELSE on[d] BY Zenon, <1>6 DEF Inv, TypeOK
<1>9. TypeOK'
  <2>1. "off" \in Label BY DEF Label
  <2>2. pc' \in [Slot -> Label] BY Zenon, <1>6, <2>1 DEF Inv, TypeOK, Goto
  <2>3. on' \in [CPU -> Slot \cup {0}] BY Zenon, <1>6 DEF Inv, TypeOK
  <2> QED BY Zenon, <1>6, <2>2, <2>3 DEF sched, Inv, TypeOK
<1>10. CpuInv'
  <2>0. \A d \in CPU : d # c => on[d] # p BY Zenon, <1>2, <1>3 DEF Inv, CpuInv
  <2>1. \A d, e \in CPU : on'[d] = on'[e] /\ on'[d] # 0 => d = e
    <3> SUFFICES ASSUME NEW d \in CPU, NEW e \in CPU, on'[d] = on'[e], on'[d] # 0 PROVE d = e BY Zenon
    <3>1. \A i \in CPU : on[i] = on[d] /\ on[d] # 0 => i = d BY Zenon DEF Inv, CpuInv
    <3>2. on'[d] = on[d] /\ on'[e] = on[e] BY Zenon, <1>8
    <3> QED BY Zenon, <3>1, <3>2
  <2>2. \A q \in Slot : pc'[q] # "off" <=> \E d \in CPU : on'[d] = q
    <3> SUFFICES ASSUME NEW q \in Slot PROVE pc'[q] # "off" <=> \E d \in CPU : on'[d] = q BY Zenon
    <3>1. CASE q = p BY Zenon, <1>3, <1>7, <1>8, <2>0, <3>1
    <3>2. CASE q # p
      <4>1. pc[q] # "off" <=> \E d \in CPU : on[d] = q BY Zenon DEF Inv, CpuInv
      <4>2. (\E d \in CPU : on[d] = q) <=> \E d \in CPU : on'[d] = q BY Zenon, <1>2, <1>8, <3>2, Zero
      <4> QED BY Zenon, <1>7, <3>2, <4>1, <4>2
    <3> QED BY Zenon, <3>1, <3>2
  <2>3. \A d \in CPU : HasLock(d)' <=> lock' = d
    <3> SUFFICES ASSUME NEW d \in CPU PROVE HasLock(d)' <=> lock = d BY Zenon DEF sched
    <3>1. CASE d = c
      <4>1. scan'[c] # 0 /\ on'[c] = 0 BY Zenon, <1>2, <1>3, <1>8 DEF sched, Inv, CpuInv
      <4> QED BY Zenon, <1>4, <3>1, <4>1 DEF HasLock
    <3>2. CASE d # c
      <4>1. on'[d] = on[d] /\ scan'[d] = scan[d] /\ on[d] # p BY Zenon, <1>8, <2>0, <3>2 DEF sched
      <4>2. on[d] # 0 => on[d] \in Slot BY Zenon DEF Inv, TypeOK
      <4>3. HasLock(d)' <=> HasLock(d) BY Zenon, <1>7, <4>1, <4>2 DEF HasLock
      <4> QED BY Zenon, <4>3 DEF Inv, CpuInv
    <3> QED BY Zenon, <3>1, <3>2
  <2>4. \A d \in CPU : on'[d] # 0 => scan'[d] # 0 BY Zenon, <1>8 DEF sched, Inv, CpuInv
  <2> QED BY Zenon, <1>6, <2>1, <2>2, <2>3, <2>4 DEF CpuInv
<1>11. StateInv'
  <2>1. StateOf(p)'
    <3>1. StateOf(p) BY Zenon DEF Inv, StateInv
    <3> QED BY Zenon, <1>3, <1>5, <1>7, <3>1 DEF StateOf, sched
  <2>2. \A q \in Slot : q # p => SameProc(q) BY Zenon, <1>7 DEF SameProc, sched
  <2> QED BY Zenon, <2>1, <2>2, StateSame DEF Inv, StateInv
<1>12. ForkInv'
  <2>1. \A q \in Slot : ForkOf(q)'
    <3> SUFFICES ASSUME NEW q \in Slot PROVE ForkOf(q)' BY Zenon
    <3>1. /\ ForkAt(q, "fork_kalloc")' <=> ForkAt(q, "fork_kalloc")
          /\ ForkAt(q, "fork_copyuvm")' <=> ForkAt(q, "fork_copyuvm")
          /\ ForkAt(q, "fork_ready")' <=> ForkAt(q, "fork_ready")
      BY Zenon, <1>3, <1>7 DEF ForkAt, sched
    <3>2. ForkOf(q) /\ SameSlot(np[q]) BY Zenon DEF Inv, ForkInv, SameSlot, sched
    <3> QED BY Zenon, <3>1, <3>2, ForkKept DEF sched
  <2>2. \A q \in Slot : Owns(q)' BY Zenon DEF Inv, ForkInv, Owns, sched
  <2> QED BY Zenon, <2>1, <2>2 DEF Inv, ForkInv, sched
<1>13. FamilyInv' BY Zenon, FamilySame DEF Inv, FamilyInv, WaitsForAChild, sched
<1> QED BY Zenon, <1>9, <1>10, <1>11, <1>12, <1>13 DEF Inv

-----------------------------------------------------------------------------
(* What the invariant says of one process.                                 *)

\* fork()'s new process is an embryo.
LEMMA Embryo ==
  ASSUME Inv, NEW q \in Slot, np[q] # 0
  PROVE  np[q] \in Slot /\ state[np[q]] = "EMBRYO"
<1>1. np[q] \in Slot BY Zenon DEF Inv, TypeOK
<1>2. state[np[q]] = "EMBRYO" BY Zenon DEF Inv, ForkInv, ForkOf
<1> QED BY Zenon, <1>1, <1>2

\* A process outside fork() has no new process.
LEMMA NoChild ==
  ASSUME Inv, NEW q \in Slot, pc[q] \notin {"fork_kalloc", "fork_copyuvm", "fork_ready"},
         resume[q] = "user"
  PROVE  np[q] = 0
<1>1. ~Forking(q) BY DEF Forking, ForkAt
<1> QED BY Zenon, <1>1 DEF Inv, ForkInv, ForkOf

\* A slot that is neither RUNNING nor RUNNABLE.
LEMMA Resting ==
  ASSUME Inv, NEW q \in Slot, state[q] \notin {"RUNNING", "RUNNABLE"}
  PROVE  /\ resume[q] = "user" /\ pc[q] \in {"off", "sched"}
         /\ state[q] \in {"UNUSED", "EMBRYO"} => pc[q] = "off"
         /\ np[q] = 0
<1>0. StateOf(q) BY Zenon DEF Inv, StateInv
<1>1. pc[q] \in {"off", "sched"} BY Zenon, <1>0 DEF StateOf
<1>2. resume[q] = "user"
  <2>1. pc[q] # "yielded" BY <1>1
  <2> QED BY Zenon, <1>0, <2>1 DEF StateOf
<1>3. state[q] \in {"UNUSED", "EMBRYO"} => pc[q] = "off" BY <1>0, <1>1 DEF StateOf
<1>4. np[q] = 0
  <2>1. pc[q] \notin {"fork_kalloc", "fork_copyuvm", "fork_ready"} BY <1>1
  <2> QED BY Zenon, <1>2, <2>1, NoChild
<1> QED BY Zenon, <1>1, <1>2, <1>3, <1>4

\* A slot that no CPU runs on, after the step.
LEMMA StateIdle ==
  ASSUME NEW q \in Slot, pc'[q] = "off", state'[q] \notin {"RUNNING", "SLEEPING"},
         state'[q] = "RUNNABLE" => context'[q] # "zombie_exit", resume'[q] = "user"
  PROVE  StateOf(q)'
BY Zenon DEF StateOf

\* What a slot owns, when neither that nor whether it is in use changes.
LEMMA OwnsSame ==
  ASSUME NEW q \in Slot, Owns(q), kstack'[q] = kstack[q], pgdir'[q] = pgdir[q],
         state'[q] = "UNUSED" => state[q] = "UNUSED" /\ parent'[q] = parent[q],
         state'[q] \in Born => state[q] \in Born
  PROVE  Owns(q)'
BY Zenon DEF Owns

\* No two calls of fork() make the same child.
LEMMA Distinct ==
  ASSUME Inv, np' = np
  PROVE  \A q, r \in Slot : np'[q] = np'[r] /\ np'[q] # 0 => q = r
BY Zenon DEF Inv, ForkInv

-----------------------------------------------------------------------------
(* Preemption.                                                             *)

\* yield() by a timer interrupt.
LEMMA NextYield == ASSUME Inv, NEW c \in CPU, yield(c) PROVE Inv'
<1> USE DEF owned
<1>1. PICK l \in Interruptible : At(c, l) BY Zenon DEF yield
<1>2. PICK p \in Slot : p = on[c] BY Zenon, <1>1, Here
<1>3. l \notin {"off", "sched", "yielded"} BY DEF Interruptible
<1>4. pc[p] = l /\ state[p] = "RUNNING" /\ resume[p] = "user" BY Zenon, <1>1, <1>2, <1>3, Here
<1>5. LockStep(c, "sched")
  <2>1. "sched" \in Locking BY DEF Locking
  <2> QED BY Zenon, <2>1 DEF LockStep, yield
<1>6. /\ CpuInv' /\ lock' \in CPU \cup {0} /\ pc' \in [Slot -> Label]
      /\ pc'[p] = "sched" /\ \A q \in Slot : q # p => pc'[q] = pc[q]
  <2>1. "sched" \in Label \ {"off"} BY DEF Label, Locking
  <2>2. Goto(p, "sched") BY Zenon, <1>2 DEF yield
  <2>3. l # "off" BY <1>3
  <2> QED BY <1>1, <1>2, <1>5, <2>1, <2>2, <2>3, Move DEF yield
<1>7. state'[p] = "RUNNABLE" /\ context'[p] = "yielded" /\ resume'[p] = l
  BY Zenon, <1>2, <1>4 DEF yield, Inv, TypeOK
<1>8. \A q \in Slot : q # p =>
        state'[q] = state[q] /\ context'[q] = context[q] /\ resume'[q] = resume[q]
  BY Zenon, <1>2 DEF yield, Inv, TypeOK
<1>9. TypeOK'
  <2>1. "RUNNABLE" \in State BY DEF State
  <2>2. state' \in [Slot -> State] BY Zenon, <1>2, <2>1 DEF yield, Inv, TypeOK
  <2>3. context' \in [Slot -> {"forkret", "yielded", "wait", "zombie_exit"}]
    BY Zenon, <1>2 DEF yield, Inv, TypeOK
  <2>4. resume' \in [Slot -> Interruptible] BY Zenon, <1>2, <1>4 DEF yield, Inv, TypeOK
  <2> QED BY Zenon, <1>6, <2>2, <2>3, <2>4 DEF yield, Inv, TypeOK
<1>10. StateInv'
  <2>1. StateOf(p)' BY <1>6, <1>7 DEF StateOf
  <2>2. \A q \in Slot : q # p => SameProc(q) BY Zenon, <1>6, <1>8 DEF SameProc, yield
  <2> QED BY Zenon, <2>1, <2>2, StateSame DEF Inv, StateInv
<1>11. ForkInv'
  <2>1. \A q \in Slot : ForkOf(q)'
    <3> SUFFICES ASSUME NEW q \in Slot PROVE ForkOf(q)' BY Zenon
    <3>1. ForkOf(q) BY Zenon DEF Inv, ForkInv
    <3>2. np[q] # 0 => SameSlot(np[q])
      <4>1. np[q] # 0 => np[q] \in Slot /\ np[q] # p
        <5>1. "RUNNING" # "EMBRYO" OBVIOUS
        <5> QED BY Zenon, <1>4, <5>1, Embryo
      <4> QED BY Zenon, <1>8, <4>1 DEF SameSlot, yield
    <3>3. CASE q = p
      <4>1. /\ ForkAt(q, "fork_kalloc")' <=> ForkAt(q, "fork_kalloc")
            /\ ForkAt(q, "fork_copyuvm")' <=> ForkAt(q, "fork_copyuvm")
            /\ ForkAt(q, "fork_ready")' <=> ForkAt(q, "fork_ready")
        BY Zenon, <1>4, <1>6, <1>7, <3>3 DEF ForkAt
      <4> QED BY Zenon, <3>1, <3>2, <4>1, ForkKept DEF yield
    <3>4. CASE q # p BY Zenon, <1>6, <1>8, <3>1, <3>2, <3>4, ForkOther DEF yield
    <3> QED BY Zenon, <3>3, <3>4
  <2>2. \A q \in Slot : Owns(q)'
    <3> SUFFICES ASSUME NEW q \in Slot PROVE Owns(q)' BY Zenon
    <3>1. Owns(q) BY Zenon DEF Inv, ForkInv
    <3>2. state'[q] = "UNUSED" => state[q] = "UNUSED" BY <1>7, <1>8
    <3>3. state'[q] \in Born => state[q] \in Born BY <1>4, <1>8 DEF Born
    <3> QED BY Zenon, <3>1, <3>2, <3>3, OwnsSame DEF yield
  <2> QED BY Zenon, <2>1, <2>2, Distinct DEF ForkInv, yield
<1>12. FamilyInv'
  <2>1. \A q \in Slot : state'[q] \in Live <=> state[q] \in Live BY <1>4, <1>7, <1>8 DEF Live
  <2>2. \A q \in Slot : state'[q] = "ZOMBIE" <=> state[q] = "ZOMBIE" BY <1>4, <1>7, <1>8
  <2>3. \A q \in Slot : state'[q] = "SLEEPING" => state[q] = "SLEEPING" /\ ~killed'[q]
    <3> SUFFICES ASSUME NEW q \in Slot, state'[q] = "SLEEPING" PROVE state[q] = "SLEEPING" /\ ~killed[q]
      BY Zenon DEF yield
    <3>1. state[q] = "SLEEPING" BY <1>7, <1>8
    <3> QED BY Zenon, <3>1 DEF Inv, FamilyInv, WaitsForAChild
  <2> QED BY Zenon, <2>1, <2>2, <2>3, FamilySame DEF Inv, yield
<1> QED BY Zenon, <1>6, <1>9, <1>10, <1>11, <1>12 DEF Inv

\* yield() returns.
LEMMA NextYielded == ASSUME Inv, NEW c \in CPU, yielded(c) PROVE Inv'
<1> USE DEF owned, table
<1>1. At(c, "yielded") BY Zenon DEF yielded
<1>2. PICK p \in Slot : p = on[c] BY Zenon, <1>1, Here
<1>4. pc[p] = "yielded" /\ state[p] = "RUNNING"
  <2>1. "yielded" \notin {"off", "sched"} OBVIOUS
  <2> QED BY Zenon, <1>1, <1>2, <2>1, Here
<1>3. \E l \in Interruptible : Goto(p, l) /\ (IF resume[p] = "user" THEN l \in {"user", "exit"} ELSE l = resume[p])
  <2>1. CASE resume[p] = "user"
    <3>1. Return(p) BY Zenon, <1>2, <2>1 DEF yielded
    <3>2. PICK l \in {"user", "exit"} : Goto(p, l) BY Zenon, <3>1, Returns DEF Inv
    <3>3. l \in Interruptible BY DEF Interruptible
    <3> QED BY Zenon, <2>1, <3>2, <3>3
  <2>2. CASE resume[p] # "user"
    <3>1. resume[p] \in Interruptible BY Zenon DEF Inv, TypeOK
    <3> QED BY Zenon, <1>2, <2>2, <3>1 DEF yielded
  <2> QED BY Zenon, <2>1, <2>2
<1>5. PICK l \in Interruptible : Goto(p, l) /\ (IF resume[p] = "user" THEN l \in {"user", "exit"} ELSE l = resume[p])
  BY Zenon, <1>3
<1>6. l \notin Locking /\ l \notin {"off", "sched"} /\ l \in Label \ {"off"} BY DEF Interruptible, Locking, Label
<1>7. /\ CpuInv' /\ lock' \in CPU \cup {0} /\ pc' \in [Slot -> Label]
      /\ pc'[p] = l /\ \A q \in Slot : q # p => pc'[q] = pc[q]
  <2>1. LockStep(c, l)
    <3>1. pc[on[c]] \in Locking BY <1>2, <1>4 DEF Locking
    <3> QED BY Zenon, <1>6, <3>1 DEF LockStep, yielded
  <2>2. "yielded" # "off" OBVIOUS
  <2> QED BY <1>1, <1>2, <1>5, <1>6, <2>1, <2>2, Move DEF yielded
<1>8. resume'[p] = "user" /\ \A q \in Slot : q # p => resume'[q] = resume[q]
  BY Zenon, <1>2 DEF yielded, Inv, TypeOK
<1>9. TypeOK'
  <2>1. "user" \in Interruptible BY DEF Interruptible
  <2>2. resume' \in [Slot -> Interruptible] BY Zenon, <1>2, <2>1 DEF yielded, Inv, TypeOK
  <2> QED BY Zenon, <1>7, <2>2 DEF yielded, Inv, TypeOK
<1>10. StateInv'
  <2>1. state'[p] = "RUNNING" BY Zenon, <1>4 DEF yielded
  <2>2. StateOf(p)' BY Zenon, <1>6, <1>7, <1>8, <2>1, StateRun
  <2>3. \A q \in Slot : q # p => SameProc(q) BY Zenon, <1>7, <1>8 DEF SameProc, yielded
  <2> QED BY Zenon, <2>2, <2>3, StateSame DEF Inv, StateInv
<1>11. ForkInv'
  <2>1. \A q \in Slot : ForkOf(q)'
    <3> SUFFICES ASSUME NEW q \in Slot PROVE ForkOf(q)' BY Zenon
    <3>1. ForkOf(q) BY Zenon DEF Inv, ForkInv
    <3>2. SameSlot(np[q]) BY Zenon DEF SameSlot, yielded
    <3>3. CASE q = p
      <4>1. /\ ForkAt(q, "fork_kalloc")' <=> ForkAt(q, "fork_kalloc")
            /\ ForkAt(q, "fork_copyuvm")' <=> ForkAt(q, "fork_copyuvm")
            /\ ForkAt(q, "fork_ready")' <=> ForkAt(q, "fork_ready")
        BY <1>4, <1>5, <1>7, <1>8, <3>3 DEF ForkAt
      <4> QED BY Zenon, <3>1, <3>2, <4>1, ForkKept DEF yielded
    <3>4. CASE q # p BY Zenon, <1>7, <1>8, <3>1, <3>2, <3>4, ForkOther DEF yielded
    <3> QED BY Zenon, <3>3, <3>4
  <2>2. \A q \in Slot : Owns(q)' BY Zenon DEF Inv, ForkInv, Owns, yielded
  <2> QED BY Zenon, <2>1, <2>2, Distinct DEF ForkInv, yielded
<1>12. FamilyInv' BY Zenon, FamilySame DEF Inv, FamilyInv, WaitsForAChild, yielded
<1> QED BY Zenon, <1>7, <1>9, <1>10, <1>11, <1>12 DEF Inv

-----------------------------------------------------------------------------
(* fork().                                                                 *)

\* A process outside ptable.lock's critical sections goes on outside them.
LEMMA Unlocked ==
  ASSUME Inv, NEW c \in CPU, NEW k \in Interruptible, At(c, k), NEW p \in Slot, p = on[c],
         NEW l \in Interruptible, Goto(p, l), UNCHANGED <<lock, on, scan, panicked>>
  PROVE  /\ CpuInv' /\ lock' \in CPU \cup {0} /\ pc' \in [Slot -> Label]
         /\ pc'[p] = l /\ \A q \in Slot : q # p => pc'[q] = pc[q]
<1>1. /\ l \notin Locking /\ k \notin Locking /\ k # "off" /\ l \in Label \ {"off"}
  BY DEF Interruptible, Locking, Label
<1>2. LockStep(c, l) BY Zenon, <1>1 DEF LockStep, At
<1> QED BY <1>1, <1>2, Move

\* A process that executes kernel code with interrupts enabled.
LEMMA Runs ==
  ASSUME Inv, NEW c \in CPU, NEW k \in Interruptible, At(c, k)
  PROVE  /\ on[c] \in Slot /\ pc[on[c]] = k /\ state[on[c]] = "RUNNING" /\ resume[on[c]] = "user"
         /\ ~panicked
<1>1. k \notin {"off", "sched", "yielded"} BY DEF Interruptible
<1> QED BY Zenon, <1>1, Here

\* The kernel code of p changes only the slot q, which is no living process.
LEMMA OtherProcs ==
  ASSUME Inv, NEW p \in Slot, NEW q \in Slot, state[q] \in {"UNUSED", "EMBRYO"},
         pc'[p] \notin {"off", "sched"}, state'[p] = "RUNNING", resume[p] = "user",
         \A r \in Slot : r # p => pc'[r] = pc[r],
         \A r \in Slot : r # q => state'[r] = state[r] /\ context'[r] = context[r],
         state'[q] \notin {"RUNNING", "SLEEPING"},
         state'[q] = "RUNNABLE" => context'[q] # "zombie_exit",
         p # q, UNCHANGED <<chan, resume>>
  PROVE  StateInv'
<1>1. StateOf(p)' BY Zenon, StateRun
<1>2. StateOf(q)'
  <2>1. state[q] \notin {"RUNNING", "RUNNABLE"} OBVIOUS
  <2>2. resume[q] = "user" /\ pc[q] = "off" BY Zenon, <2>1, Resting
  <2>3. resume'[q] = "user" /\ pc'[q] = "off" BY Zenon, <2>2
  <2> QED BY Zenon, <2>3, StateIdle
<1>3. \A r \in Slot : r \notin {p, q} => StateOf(r)' BY Zenon, StateSame DEF Inv, StateInv, SameProc
<1> QED BY Zenon, <1>1, <1>2, <1>3 DEF StateInv

\* The other processes in fork() do not have q as their new process.
LEMMA OtherForks ==
  ASSUME Inv, NEW p \in Slot, NEW q \in Slot, q = np[p] \/ state[q] # "EMBRYO",
         \A r \in Slot : r # p => pc'[r] = pc[r] /\ resume'[r] = resume[r] /\ np'[r] = np[r],
         \A r \in Slot : r # q => SameSlot(r)
  PROVE  \A r \in Slot : r # p => ForkOf(r)'
<1> SUFFICES ASSUME NEW r \in Slot, r # p PROVE ForkOf(r)' BY Zenon
<1>1. ForkOf(r) BY Zenon DEF Inv, ForkInv
<1>2. ASSUME np[r] # 0 PROVE SameSlot(np[r])
  <2>1. np[r] \in Slot /\ state[np[r]] = "EMBRYO" BY Zenon, <1>2, Embryo
  <2>2. np[r] # np[p] BY Zenon, <1>2 DEF Inv, ForkInv
  <2> QED BY Zenon, <2>1, <2>2
<1> QED BY Zenon, <1>1, <1>2, ForkOther

\* allocproc() finds a slot, or fork() fails.
LEMMA NextFork == ASSUME Inv, NEW c \in CPU, fork(c) PROVE Inv'
<1> USE DEF owned
<1>1. At(c, "sys") BY Zenon DEF fork
<1>s. {"user", "exit", "sys", "fork_kalloc"} \subseteq Interruptible BY DEF Interruptible
<1>2. PICK p \in Slot : p = on[c] BY Zenon, <1>1, Here
<1>3. pc[p] = "sys" /\ state[p] = "RUNNING" /\ resume[p] = "user" BY Zenon, <1>1, <1>2, <1>s, Runs
<1> DEFINE free == {q \in Slot : state[q] = "UNUSED"}
<1>4. CASE free = {}
  <2>1. Return(p) /\ UNCHANGED <<state, pid, nextpid, np>> BY Zenon, <1>2, <1>4 DEF fork
  <2>2. PICK l \in {"user", "exit"} : Goto(p, l) BY Zenon, <2>1, Returns DEF Inv
  <2>3. LockStep(c, l)
    <3>1. l \notin Locking /\ pc[on[c]] \notin Locking BY <1>2, <1>3 DEF Locking
    <3> QED BY Zenon, <3>1 DEF LockStep, fork
  <2>4. killed' \in [Slot -> BOOLEAN] /\ chan' \in [Slot -> Slot \cup {0}] BY Zenon DEF fork, Inv, TypeOK
  <2>5. l \in {"user", "sys", "exit", "wait"} /\ "sys" \in {"forkret", "user", "sys", "wait"} OBVIOUS
  <2> QED BY Zenon, <1>1, <1>2, <2>1, <2>2, <2>3, <2>4, <2>5, PlainStep DEF fork
<1>5. CASE free # {}
  <2>1. PICK q \in Slot : q = Min(free) /\ state[q] = "UNUSED"
    <3>1. Min(free) \in free BY Zenon, <1>5, MinIn
    <3> QED BY Zenon, <3>1
  <2>2. /\ state' = [state EXCEPT ![q] = "EMBRYO"] /\ pid' = [pid EXCEPT ![q] = nextpid]
        /\ nextpid' = NextPid /\ np' = [np EXCEPT ![p] = q] /\ Goto(p, "fork_kalloc")
    BY Zenon, <1>2, <1>5, <2>1 DEF fork
  <2>3. q # p /\ q # 0
    <3>1. q # p BY <1>3, <2>1
    <3> QED BY Zenon, <3>1, Zero
  <2>4. /\ CpuInv' /\ lock' \in CPU \cup {0} /\ pc' \in [Slot -> Label]
        /\ pc'[p] = "fork_kalloc" /\ \A r \in Slot : r # p => pc'[r] = pc[r]
    <3>1. "sys" \in Interruptible /\ "fork_kalloc" \in Interruptible BY Zenon, <1>s
    <3>2. UNCHANGED <<lock, on, scan, panicked>> BY Zenon DEF fork
    <3>3. PICK k \in Interruptible : k = "sys" BY Zenon, <3>1
    <3>4. PICK l \in Interruptible : l = "fork_kalloc" BY Zenon, <3>1
    <3>5. At(c, k) /\ Goto(p, l) BY Zenon, <1>1, <2>2, <3>3, <3>4
    <3> QED BY <1>2, <3>2, <3>4, <3>5, Unlocked
  <2>5. /\ state'[q] = "EMBRYO" /\ \A r \in Slot : r # q => state'[r] = state[r]
        /\ np'[p] = q /\ \A r \in Slot : r # p => np'[r] = np[r]
    BY Zenon, <2>2 DEF Inv, TypeOK
  <2>6. TypeOK'
    <3>1. "EMBRYO" \in State BY DEF State
    <3>2. state' \in [Slot -> State] /\ pid' \in [Slot -> Nat] /\ np' \in [Slot -> Slot \cup {0}]
      BY Zenon, <2>2, <3>1 DEF Inv, TypeOK
    <3>3. nextpid' \in Nat BY <2>2 DEF Inv, TypeOK, NextPid
    <3> QED BY Zenon, <2>4, <3>2, <3>3 DEF fork, Inv, TypeOK
  <2>7. StateInv'
    <3>1. pc'[p] \notin {"off", "sched"} /\ state'[q] \notin {"RUNNING", "SLEEPING", "RUNNABLE"} BY <2>4, <2>5
    <3>2. state[q] \in {"UNUSED", "EMBRYO"} /\ state'[p] = "RUNNING" BY Zenon, <1>3, <2>1, <2>3, <2>5
    <3>3. UNCHANGED <<context, chan, resume>> BY Zenon DEF fork
    <3>4. \A r \in Slot : r # q => state'[r] = state[r] /\ context'[r] = context[r] BY Zenon, <2>5, <3>3
    <3> QED BY Zenon, <1>3, <2>3, <2>4, <3>1, <3>2, <3>3, <3>4, OtherProcs
  <2>8. \A r \in Slot : ForkOf(r)'
    <3>1. ForkOf(p)'
      <4>1. ~kstack'[q] /\ ~pgdir'[q] /\ parent'[q] = 0 BY Zenon, <2>1 DEF Inv, ForkInv, Owns, fork
      <4>2. ForkAt(p, "fork_kalloc")' /\ ~ForkAt(p, "fork_copyuvm")' /\ ~ForkAt(p, "fork_ready")'
        BY <1>3, <2>4 DEF ForkAt, fork
      <4> QED BY Zenon, <2>3, <2>5, <4>1, <4>2 DEF ForkOf, Forking
    <3>2. state[q] # "EMBRYO" BY <2>1
    <3>3. \A r \in Slot : r # q => SameSlot(r) BY Zenon, <2>5 DEF SameSlot, fork
    <3>4. \A r \in Slot : r # p => pc'[r] = pc[r] /\ resume'[r] = resume[r] /\ np'[r] = np[r]
      BY Zenon, <2>4, <2>5 DEF fork
    <3>5. \A r \in Slot : r # p => ForkOf(r)' BY Zenon, <3>2, <3>3, <3>4, OtherForks
    <3> QED BY Zenon, <3>1, <3>5
  <2>9. \A r \in Slot : Owns(r)'
    <3> SUFFICES ASSUME NEW r \in Slot PROVE Owns(r)' BY Zenon
    <3>1. Owns(r) BY Zenon DEF Inv, ForkInv
    <3>2. state'[r] = "UNUSED" => state[r] = "UNUSED" BY <2>1, <2>5
    <3>3. state'[r] \in Born => state[r] \in Born BY <2>5 DEF Born
    <3> QED BY Zenon, <3>1, <3>2, <3>3, OwnsSame DEF fork
  <2>10. \A r, s \in Slot : np'[r] = np'[s] /\ np'[r] # 0 => r = s
    <3> SUFFICES ASSUME NEW r \in Slot, NEW s \in Slot, np'[r] = np'[s], np'[r] # 0 PROVE r = s BY Zenon
    <3>1. \A t \in Slot : np[t] # q
      <4>1. "UNUSED" # "EMBRYO" OBVIOUS
      <4> QED BY Zenon, <2>1, <2>3, <4>1, Embryo
    <3>2. CASE r = p \/ s = p BY Zenon, <2>5, <3>1, <3>2
    <3>3. CASE r # p /\ s # p
      <4>1. np[r] = np[s] /\ np[r] # 0 BY Zenon, <2>5, <3>3
      <4> QED BY Zenon, <4>1 DEF Inv, ForkInv
    <3> QED BY Zenon, <3>2, <3>3
  <2>11. FamilyInv'
    <3>1. \A r \in Slot : state'[r] \in Live <=> state[r] \in Live BY <2>1, <2>5 DEF Live
    <3>2. \A r \in Slot : state'[r] = "ZOMBIE" <=> state[r] = "ZOMBIE" BY <2>1, <2>5
    <3>3. \A r \in Slot : state'[r] = "SLEEPING" => state[r] = "SLEEPING" /\ ~killed'[r]
      <4> SUFFICES ASSUME NEW r \in Slot, state'[r] = "SLEEPING" PROVE state[r] = "SLEEPING" /\ ~killed[r]
        BY Zenon DEF fork
      <4>1. state[r] = "SLEEPING" BY <2>5
      <4> QED BY Zenon, <4>1 DEF Inv, FamilyInv, WaitsForAChild
    <3> QED BY Zenon, <3>1, <3>2, <3>3, FamilySame DEF Inv, fork
  <2>12. ForkInv' BY Zenon, <2>8, <2>9, <2>10 DEF ForkInv
  <2> QED BY Zenon, <2>4, <2>6, <2>7, <2>11, <2>12 DEF Inv
<1> QED BY Zenon, <1>4, <1>5

\* The new process of a process that is in fork().
LEMMA NewProc ==
  ASSUME Inv, NEW p \in Slot, NEW k \in {"fork_kalloc", "fork_copyuvm", "fork_ready"}, pc[p] = k,
         state[p] = "RUNNING"
  PROVE  np[p] \in Slot /\ np[p] # 0 /\ np[p] # p /\ state[np[p]] = "EMBRYO"
<1>1. ForkOf(p) BY Zenon DEF Inv, ForkInv
<1>2. Forking(p) BY DEF Forking, ForkAt
<1>3. np[p] # 0 BY Zenon, <1>1, <1>2 DEF ForkOf
<1>4. np[p] \in Slot /\ state[np[p]] = "EMBRYO" BY Zenon, <1>3, Embryo
<1>5. np[p] # p BY <1>4
<1> QED BY Zenon, <1>3, <1>4, <1>5

\* fork() is done with its new process.
LEMMA Forgotten ==
  ASSUME Inv, NEW p \in Slot, np' = [np EXCEPT ![p] = 0]
  PROVE  /\ np' \in [Slot -> Slot \cup {0}]
         /\ np'[p] = 0 /\ \A r \in Slot : r # p => np'[r] = np[r]
         /\ \A r, s \in Slot : np'[r] = np'[s] /\ np'[r] # 0 => r = s
<1>1. np' \in [Slot -> Slot \cup {0}] BY Zenon DEF Inv, TypeOK
<1>2. np'[p] = 0 /\ \A r \in Slot : r # p => np'[r] = np[r] BY Zenon DEF Inv, TypeOK
<1>3. ASSUME NEW r \in Slot, NEW s \in Slot, np'[r] = np'[s], np'[r] # 0 PROVE r = s
  <2>1. r # p /\ s # p BY Zenon, <1>2, <1>3
  <2>2. np[r] = np[s] /\ np[r] # 0 BY Zenon, <1>2, <1>3, <2>1
  <2> QED BY Zenon, <2>2 DEF Inv, ForkInv
<1> QED BY Zenon, <1>1, <1>2, <1>3

\* A step of fork() that changes the new process q and leaves it no living process.
LEMMA ForkFamily ==
  ASSUME Inv, NEW q \in Slot, state[q] = "EMBRYO", state'[q] \in {"EMBRYO", "UNUSED"},
         \A r \in Slot : r # q => state'[r] = state[r], UNCHANGED <<parent, killed>>
  PROVE  FamilyInv'
<1>1. \A r \in Slot : state'[r] \in Live <=> state[r] \in Live BY DEF Live
<1>2. \A r \in Slot : state'[r] = "ZOMBIE" <=> state[r] = "ZOMBIE" OBVIOUS
<1>3. \A r \in Slot : state'[r] = "SLEEPING" => state[r] = "SLEEPING" /\ ~killed'[r]
  <2> SUFFICES ASSUME NEW r \in Slot, state'[r] = "SLEEPING" PROVE state[r] = "SLEEPING" /\ ~killed[r]
    BY Zenon
  <2>1. state[r] = "SLEEPING" OBVIOUS
  <2> QED BY Zenon, <2>1 DEF Inv, FamilyInv, WaitsForAChild
<1> QED BY Zenon, <1>1, <1>2, <1>3, FamilySame DEF Inv

\* fork() of p gives up on the slot q.
GivesUp(p, q) ==
  /\ state' = [state EXCEPT ![q] = "UNUSED"] /\ np' = [np EXCEPT ![p] = 0] /\ Return(p)
  /\ kstack' = [kstack EXCEPT ![q] = FALSE]
  /\ pgdir' \in [Slot -> BOOLEAN] /\ ~pgdir'[q] /\ \A r \in Slot : r # q => pgdir'[r] = pgdir[r]
  /\ UNCHANGED <<context, pid, parent, killed, chan, nextpid, lock, on, scan, resume, panicked>>

\* fork() gives up: the slot is free again and owns nothing.
LEMMA ForkFails ==
  ASSUME Inv, NEW c \in CPU, NEW k \in {"fork_kalloc", "fork_copyuvm"}, At(c, k),
         NEW p \in Slot, p = on[c], NEW q, q = np[p], GivesUp(p, q)
  PROVE  Inv'
<1> USE DEF GivesUp
<1>1. k \in Interruptible BY DEF Interruptible
<1>2. pc[p] = k /\ state[p] = "RUNNING" /\ resume[p] = "user" BY Zenon, <1>1, Runs
<1>3. q \in Slot /\ q # 0 /\ q # p /\ state[q] = "EMBRYO"
  <2>1. k \in {"fork_kalloc", "fork_copyuvm", "fork_ready"} OBVIOUS
  <2> QED BY Zenon, <1>2, <2>1, NewProc
<1>4. PICK l \in {"user", "exit"} : Goto(p, l) BY Zenon, Returns DEF Inv
<1>5. /\ CpuInv' /\ lock' \in CPU \cup {0} /\ pc' \in [Slot -> Label]
      /\ pc'[p] = l /\ \A r \in Slot : r # p => pc'[r] = pc[r]
  <2>1. l \in Interruptible BY DEF Interruptible
  <2> QED BY <1>1, <1>4, <2>1, Unlocked
<1>6. state'[q] = "UNUSED" /\ \A r \in Slot : r # q => state'[r] = state[r]
  BY Zenon, <1>3 DEF Inv, TypeOK
<1>7. ~kstack'[q] /\ \A r \in Slot : r # q => kstack'[r] = kstack[r] BY Zenon, <1>3 DEF Inv, TypeOK
<1>8. parent[q] = 0
  <2>1. ForkOf(p) BY Zenon DEF Inv, ForkInv
  <2>2. ForkAt(p, "fork_kalloc") \/ ForkAt(p, "fork_copyuvm") BY <1>2 DEF ForkAt
  <2> QED BY Zenon, <2>1, <2>2 DEF ForkOf
<1>9. TypeOK'
  <2>1. "UNUSED" \in State BY DEF State
  <2>2. state' \in [Slot -> State] BY Zenon, <1>3, <2>1 DEF Inv, TypeOK
  <2>3. kstack' \in [Slot -> BOOLEAN] BY Zenon, <1>3 DEF Inv, TypeOK
  <2>4. np' \in [Slot -> Slot \cup {0}] BY Zenon, Forgotten
  <2> QED BY Zenon, <1>5, <2>2, <2>3, <2>4 DEF Inv, TypeOK
<1>10. StateInv'
  <2>1. pc'[p] \notin {"off", "sched"} /\ state'[q] \notin {"RUNNING", "SLEEPING", "RUNNABLE"} BY <1>5, <1>6
  <2>2. state[q] \in {"UNUSED", "EMBRYO"} /\ state'[p] = "RUNNING" BY Zenon, <1>2, <1>3, <1>6
  <2>3. \A r \in Slot : r # q => state'[r] = state[r] /\ context'[r] = context[r] BY Zenon, <1>6
  <2> QED BY Zenon, <1>2, <1>3, <1>5, <2>1, <2>2, <2>3, OtherProcs
<1>11. \A r \in Slot : ForkOf(r)'
  <2>1. ForkOf(p)'
    <3>1. np'[p] = 0 /\ resume'[p] = "user" BY Zenon, <1>2, Forgotten
    <3>2. pc'[p] \notin {"fork_kalloc", "fork_copyuvm", "fork_ready"} BY <1>5
    <3> QED BY Zenon, <3>1, <3>2, ForkNone
  <2>2. \A r \in Slot : r # q => SameSlot(r) BY Zenon, <1>6, <1>7 DEF SameSlot
  <2>3. \A r \in Slot : r # p => pc'[r] = pc[r] /\ resume'[r] = resume[r] /\ np'[r] = np[r]
    BY Zenon, <1>5, Forgotten
  <2>4. \A r \in Slot : r # p => ForkOf(r)' BY Zenon, <1>3, <2>2, <2>3, OtherForks
  <2> QED BY Zenon, <2>1, <2>4
<1>12. \A r \in Slot : Owns(r)'
  <2>1. Owns(q)'
    <3>1. state'[q] \notin Born BY <1>6 DEF Born
    <3> QED BY Zenon, <1>7, <1>8, <3>1 DEF Owns
  <2>2. ASSUME NEW r \in Slot, r # q PROVE Owns(r)'
    <3>1. Owns(r) BY Zenon DEF Inv, ForkInv
    <3> QED BY Zenon, <1>6, <1>7, <2>2, <3>1, OwnsSame
  <2> QED BY Zenon, <2>1, <2>2
<1>13. \A r, s \in Slot : np'[r] = np'[s] /\ np'[r] # 0 => r = s BY Zenon, Forgotten
<1>14. FamilyInv'
  <2>1. state'[q] \in {"EMBRYO", "UNUSED"} BY Zenon, <1>6
  <2> QED BY Zenon, <1>3, <1>6, <2>1, ForkFamily
<1>15. ForkInv' BY Zenon, <1>11, <1>12, <1>13 DEF ForkInv
<1> QED BY Zenon, <1>5, <1>9, <1>10, <1>14, <1>15 DEF Inv

\* allocproc() gets a kernel stack, or not.
LEMMA NextKalloc == ASSUME Inv, NEW c \in CPU, NEW ok \in BOOLEAN, fork_kalloc(c, ok) PROVE Inv'
<1>1. At(c, "fork_kalloc") BY Zenon DEF fork_kalloc
<1>s. "fork_kalloc" \in Interruptible /\ "fork_copyuvm" \in Interruptible BY DEF Interruptible
<1>2. PICK p \in Slot : p = on[c] BY Zenon, <1>1, Here
<1>3. pc[p] = "fork_kalloc" /\ state[p] = "RUNNING" /\ resume[p] = "user" BY Zenon, <1>1, <1>2, <1>s, Runs
<1>4. PICK q \in Slot : q = np[p] /\ q # 0 /\ q # p /\ state[q] = "EMBRYO" BY Zenon, <1>3, NewProc
<1>5. ~kstack[q] /\ ~pgdir[q] /\ parent[q] = 0
  BY Zenon, <1>3, <1>4 DEF Inv, ForkInv, ForkOf, ForkAt
<1>6. CASE ~ok
  <2>1. /\ state' = [state EXCEPT ![q] = "UNUSED"] /\ np' = [np EXCEPT ![p] = 0] /\ Return(p)
        /\ kstack' = [kstack EXCEPT ![q] = FALSE]
    <3>1. ok = FALSE BY Zenon, <1>6
    <3> QED BY Zenon, <1>2, <1>4, <3>1 DEF fork_kalloc
  <2>2. UNCHANGED <<context, pid, parent, killed, chan, pgdir, nextpid, lock, on, scan, resume, panicked>>
    BY Zenon, <1>6 DEF fork_kalloc
  <2>3. pgdir' \in [Slot -> BOOLEAN] BY Zenon, <2>2 DEF Inv, TypeOK
  <2>4. GivesUp(p, q) BY Zenon, <1>5, <2>1, <2>2, <2>3 DEF GivesUp
  <2> QED BY Zenon, <1>1, <1>2, <1>4, <2>4, ForkFails
<1>7. CASE ok
  <2>1. /\ context' = [context EXCEPT ![q] = "forkret"] /\ kstack' = [kstack EXCEPT ![q] = TRUE]
        /\ Goto(p, "fork_copyuvm")
    <3>1. ok = TRUE BY Zenon, <1>7
    <3> QED BY Zenon, <1>2, <1>4, <3>1 DEF fork_kalloc
  <2>2. UNCHANGED <<state, np, pid, parent, killed, chan, pgdir, nextpid, lock, on, scan, resume, panicked>>
    BY Zenon, <1>7 DEF fork_kalloc
  <2>3. /\ CpuInv' /\ lock' \in CPU \cup {0} /\ pc' \in [Slot -> Label]
        /\ pc'[p] = "fork_copyuvm" /\ \A r \in Slot : r # p => pc'[r] = pc[r]
    <3>1. PICK k \in Interruptible : k = "fork_kalloc" BY Zenon, <1>s
    <3>2. PICK l \in Interruptible : l = "fork_copyuvm" BY Zenon, <1>s
    <3>3. At(c, k) /\ Goto(p, l) BY Zenon, <1>1, <2>1, <3>1, <3>2
    <3> QED BY <1>2, <2>2, <3>2, <3>3, Unlocked
  <2>4. /\ kstack'[q] /\ context'[q] = "forkret"
        /\ \A r \in Slot : r # q => kstack'[r] = kstack[r] /\ context'[r] = context[r]
    BY Zenon, <2>1 DEF Inv, TypeOK
  <2>5. TypeOK'
    <3>1. kstack' \in [Slot -> BOOLEAN] BY Zenon, <2>1 DEF Inv, TypeOK
    <3>2. context' \in [Slot -> {"forkret", "yielded", "wait", "zombie_exit"}]
      BY Zenon, <2>1 DEF Inv, TypeOK
    <3> QED BY Zenon, <2>2, <2>3, <3>1, <3>2 DEF Inv, TypeOK
  <2>6. StateInv'
    <3>1. pc'[p] \notin {"off", "sched"} /\ state'[q] \notin {"RUNNING", "SLEEPING", "RUNNABLE"}
      BY <1>4, <2>2, <2>3
    <3>2. state[q] \in {"UNUSED", "EMBRYO"} /\ state'[p] = "RUNNING" BY Zenon, <1>3, <1>4, <2>2
    <3>3. \A r \in Slot : r # q => state'[r] = state[r] /\ context'[r] = context[r] BY Zenon, <2>2, <2>4
    <3> QED BY Zenon, <1>3, <1>4, <2>2, <2>3, <3>1, <3>2, <3>3, OtherProcs
  <2>7. \A r \in Slot : ForkOf(r)'
    <3>1. ForkOf(p)'
      <4>1. ~ForkAt(p, "fork_kalloc")' /\ ForkAt(p, "fork_copyuvm")' /\ ~ForkAt(p, "fork_ready")'
        BY <1>3, <2>2, <2>3 DEF ForkAt
      <4>2. np'[p] = q /\ state'[q] = "EMBRYO" /\ ~pgdir'[q] /\ parent'[q] = 0 BY Zenon, <1>4, <1>5, <2>2
      <4> QED BY Zenon, <1>4, <2>4, <4>1, <4>2 DEF ForkOf, Forking
    <3>2. \A r \in Slot : r # q => SameSlot(r) BY Zenon, <2>2, <2>4 DEF SameSlot
    <3>3. \A r \in Slot : r # p => pc'[r] = pc[r] /\ resume'[r] = resume[r] /\ np'[r] = np[r]
      BY Zenon, <2>2, <2>3
    <3>4. \A r \in Slot : r # p => ForkOf(r)' BY Zenon, <1>4, <3>2, <3>3, OtherForks
    <3> QED BY Zenon, <3>1, <3>4
  <2>8. \A r \in Slot : Owns(r)'
    <3>1. Owns(q)'
      <4>1. state'[q] \notin Born /\ state'[q] # "UNUSED" BY <1>4, <2>2 DEF Born
      <4> QED BY Zenon, <4>1 DEF Owns
    <3>2. ASSUME NEW r \in Slot, r # q PROVE Owns(r)'
      <4>1. Owns(r) BY Zenon DEF Inv, ForkInv
      <4> QED BY Zenon, <2>2, <2>4, <3>2, <4>1, OwnsSame
    <3> QED BY Zenon, <3>1, <3>2
  <2>9. ForkInv' BY Zenon, <2>2, <2>7, <2>8, Distinct DEF ForkInv
  <2>10. FamilyInv'
    <3>1. state'[q] \in {"EMBRYO", "UNUSED"} /\ \A r \in Slot : r # q => state'[r] = state[r]
      BY Zenon, <1>4, <2>2
    <3> QED BY Zenon, <1>4, <2>2, <3>1, ForkFamily
  <2> QED BY Zenon, <2>3, <2>5, <2>6, <2>9, <2>10 DEF Inv
<1> QED BY Zenon, <1>6, <1>7

\* copyuvm() copies the memory, or fork() undoes its work.
LEMMA NextCopyuvm == ASSUME Inv, NEW c \in CPU, NEW ok \in BOOLEAN, fork_copyuvm(c, ok) PROVE Inv'
<1>1. At(c, "fork_copyuvm") BY Zenon DEF fork_copyuvm
<1>s. "fork_ready" \in Interruptible /\ "fork_copyuvm" \in Interruptible BY DEF Interruptible
<1>2. PICK p \in Slot : p = on[c] BY Zenon, <1>1, Here
<1>3. pc[p] = "fork_copyuvm" /\ state[p] = "RUNNING" /\ resume[p] = "user" BY Zenon, <1>1, <1>2, <1>s, Runs
<1>4. PICK q \in Slot : q = np[p] /\ q # 0 /\ q # p /\ state[q] = "EMBRYO" BY Zenon, <1>3, NewProc
<1>5. kstack[q] /\ ~pgdir[q] /\ parent[q] = 0 /\ context[q] = "forkret"
  BY Zenon, <1>3, <1>4 DEF Inv, ForkInv, ForkOf, ForkAt
<1>6. CASE ~ok
  <2>1. /\ state' = [state EXCEPT ![q] = "UNUSED"] /\ np' = [np EXCEPT ![p] = 0] /\ Return(p)
        /\ kstack' = [kstack EXCEPT ![q] = FALSE] /\ pgdir' = [pgdir EXCEPT ![q] = FALSE]
    <3>1. ok = FALSE BY Zenon, <1>6
    <3> QED BY Zenon, <1>2, <1>4, <3>1 DEF fork_copyuvm
  <2>2. UNCHANGED <<context, pid, parent, killed, chan, nextpid, lock, on, scan, resume, panicked>>
    BY Zenon, <1>6 DEF fork_copyuvm
  <2>3. pgdir' \in [Slot -> BOOLEAN] /\ ~pgdir'[q] /\ \A r \in Slot : r # q => pgdir'[r] = pgdir[r]
    BY Zenon, <2>1 DEF Inv, TypeOK
  <2>4. GivesUp(p, q) BY Zenon, <2>1, <2>2, <2>3 DEF GivesUp
  <2> QED BY Zenon, <1>1, <1>2, <1>4, <2>4, ForkFails
<1>7. CASE ok
  <2>1. /\ parent' = [parent EXCEPT ![q] = p] /\ pgdir' = [pgdir EXCEPT ![q] = TRUE]
        /\ Goto(p, "fork_ready")
    <3>1. ok = TRUE BY Zenon, <1>7
    <3> QED BY Zenon, <1>2, <1>4, <3>1 DEF fork_copyuvm
  <2>2. UNCHANGED <<state, kstack, np, pid, killed, chan, context, nextpid, lock, on, scan, resume, panicked>>
    BY Zenon, <1>7 DEF fork_copyuvm
  <2>3. /\ CpuInv' /\ lock' \in CPU \cup {0} /\ pc' \in [Slot -> Label]
        /\ pc'[p] = "fork_ready" /\ \A r \in Slot : r # p => pc'[r] = pc[r]
    <3>1. PICK k \in Interruptible : k = "fork_copyuvm" BY Zenon, <1>s
    <3>2. PICK l \in Interruptible : l = "fork_ready" BY Zenon, <1>s
    <3>3. At(c, k) /\ Goto(p, l) BY Zenon, <1>1, <2>1, <3>1, <3>2
    <3> QED BY <1>2, <2>2, <3>2, <3>3, Unlocked
  <2>4. /\ pgdir'[q] /\ parent'[q] = p
        /\ \A r \in Slot : r # q => pgdir'[r] = pgdir[r] /\ parent'[r] = parent[r]
    BY Zenon, <2>1 DEF Inv, TypeOK
  <2>5. TypeOK'
    <3>1. pgdir' \in [Slot -> BOOLEAN] BY Zenon, <2>1 DEF Inv, TypeOK
    <3>2. parent' \in [Slot -> Slot \cup {0}] BY Zenon, <2>1 DEF Inv, TypeOK
    <3> QED BY Zenon, <2>2, <2>3, <3>1, <3>2 DEF Inv, TypeOK
  <2>6. StateInv'
    <3>1. pc'[p] \notin {"off", "sched"} /\ state'[q] \notin {"RUNNING", "SLEEPING", "RUNNABLE"}
      BY <1>4, <2>2, <2>3
    <3>2. state[q] \in {"UNUSED", "EMBRYO"} /\ state'[p] = "RUNNING" BY Zenon, <1>3, <1>4, <2>2
    <3> QED BY Zenon, <1>3, <1>4, <2>2, <2>3, <3>1, <3>2, OtherProcs
  <2>7. \A r \in Slot : ForkOf(r)'
    <3>1. ForkOf(p)'
      <4>1. ~ForkAt(p, "fork_kalloc")' /\ ~ForkAt(p, "fork_copyuvm")' /\ ForkAt(p, "fork_ready")'
        BY <1>3, <2>2, <2>3 DEF ForkAt
      <4>2. np'[p] = q /\ state'[q] = "EMBRYO" /\ kstack'[q] /\ context'[q] = "forkret"
        BY Zenon, <1>4, <1>5, <2>2
      <4> QED BY Zenon, <1>4, <2>4, <4>1, <4>2 DEF ForkOf, Forking
    <3>2. \A r \in Slot : r # q => SameSlot(r) BY Zenon, <2>2, <2>4 DEF SameSlot
    <3>3. \A r \in Slot : r # p => pc'[r] = pc[r] /\ resume'[r] = resume[r] /\ np'[r] = np[r]
      BY Zenon, <2>2, <2>3
    <3>4. \A r \in Slot : r # p => ForkOf(r)' BY Zenon, <1>4, <3>2, <3>3, OtherForks
    <3> QED BY Zenon, <3>1, <3>4
  <2>8. \A r \in Slot : Owns(r)'
    <3>1. Owns(q)'
      <4>1. state'[q] \notin Born /\ state'[q] # "UNUSED" BY <1>4, <2>2 DEF Born
      <4> QED BY Zenon, <4>1 DEF Owns
    <3>2. ASSUME NEW r \in Slot, r # q PROVE Owns(r)'
      <4>1. Owns(r) BY Zenon DEF Inv, ForkInv
      <4> QED BY Zenon, <2>2, <2>4, <3>2, <4>1, OwnsSame
    <3> QED BY Zenon, <3>1, <3>2
  <2>9. ForkInv' BY Zenon, <2>2, <2>7, <2>8, Distinct DEF ForkInv
  <2>10. FamilyInv'
    <3>0. q # initproc
      <4>1. "EMBRYO" \notin Live BY DEF Live
      <4> QED BY Zenon, <1>4, <4>1 DEF Inv, FamilyInv
    <3>1. state'[initproc] \in Live /\ parent'[initproc] = 0
      BY Zenon, <2>2, <2>4, <3>0, Zero DEF Inv, FamilyInv
    <3>2. \A r \in Slot : parent'[r] # r BY Zenon, <1>4, <2>4 DEF Inv, FamilyInv
    <3>3. NoOrphan'
      <4> SUFFICES ASSUME NEW r \in Slot \ {initproc}, state[r] \in Live \cup {"ZOMBIE"}
                   PROVE  parent'[r] # 0 /\ state[parent'[r]] \in Live
        BY Zenon, <2>2 DEF NoOrphan
      <4>1. r # q BY <1>4 DEF Live
      <4>2. parent[r] # 0 /\ state[parent[r]] \in Live BY Zenon DEF Inv, FamilyInv, NoOrphan
      <4> QED BY Zenon, <2>4, <4>1, <4>2
    <3>4. WaitsForAChild'
      <4> SUFFICES ASSUME NEW r \in Slot, state[r] = "SLEEPING"
                   PROVE  /\ ~killed[r]
                          /\ \E s \in Slot : parent'[s] = r
                          /\ \A s \in Slot : parent'[s] = r => state[s] # "ZOMBIE"
        BY Zenon, <2>2 DEF WaitsForAChild
      <4>1. /\ ~killed[r]
            /\ \A s \in Slot : parent[s] = r => state[s] # "ZOMBIE"
        BY Zenon DEF Inv, FamilyInv, WaitsForAChild
      <4>2. PICK s \in Slot : parent[s] = r BY Zenon DEF Inv, FamilyInv, WaitsForAChild
      <4>3. s # q BY Zenon, <1>5, <4>2, Zero
      <4>4. parent'[s] = r BY Zenon, <2>4, <4>2, <4>3
      <4>5. ASSUME NEW t \in Slot, parent'[t] = r PROVE state[t] # "ZOMBIE"
        <5>1. CASE t = q BY <1>4, <5>1
        <5>2. CASE t # q BY Zenon, <2>4, <4>1, <4>5, <5>2
        <5> QED BY Zenon, <5>1, <5>2
      <4> QED BY Zenon, <4>1, <4>4, <4>5
    <3> QED BY Zenon, <3>1, <3>2, <3>3, <3>4 DEF FamilyInv
  <2> QED BY Zenon, <2>3, <2>5, <2>6, <2>9, <2>10 DEF Inv
<1> QED BY Zenon, <1>6, <1>7

\* fork() makes the child runnable.
LEMMA NextReady == ASSUME Inv, NEW c \in CPU, fork_ready(c) PROVE Inv'
<1> USE DEF owned
<1>1. At(c, "fork_ready") BY Zenon DEF fork_ready
<1>s. "fork_ready" \in Interruptible BY DEF Interruptible
<1>2. PICK p \in Slot : p = on[c] BY Zenon, <1>1, Here
<1>3. pc[p] = "fork_ready" /\ state[p] = "RUNNING" /\ resume[p] = "user" BY Zenon, <1>1, <1>2, <1>s, Runs
<1>4. PICK q \in Slot : q = np[p] /\ q # 0 /\ q # p /\ state[q] = "EMBRYO" BY Zenon, <1>3, NewProc
<1>5. kstack[q] /\ pgdir[q] /\ parent[q] = p /\ context[q] = "forkret"
  BY Zenon, <1>3, <1>4 DEF Inv, ForkInv, ForkOf, ForkAt
<1>6. state' = [state EXCEPT ![q] = "RUNNABLE"] /\ np' = [np EXCEPT ![p] = 0] /\ Return(p)
  BY Zenon, <1>2, <1>4 DEF fork_ready
<1>7. UNCHANGED <<pid, parent, killed, chan, kstack, pgdir, context, nextpid, lock, on, scan, resume, panicked>>
  BY Zenon DEF fork_ready
<1>8. PICK l \in {"user", "exit"} : Goto(p, l) BY Zenon, <1>6, Returns DEF Inv
<1>9. /\ CpuInv' /\ lock' \in CPU \cup {0} /\ pc' \in [Slot -> Label]
      /\ pc'[p] = l /\ \A r \in Slot : r # p => pc'[r] = pc[r]
  <2>1. l \in Interruptible BY DEF Interruptible
  <2>2. PICK k \in Interruptible : k = "fork_ready" BY Zenon, <1>s
  <2>3. At(c, k) BY Zenon, <1>1, <2>2
  <2> QED BY <1>2, <1>7, <1>8, <2>1, <2>3, Unlocked
<1>10. state'[q] = "RUNNABLE" /\ \A r \in Slot : r # q => state'[r] = state[r]
  BY Zenon, <1>6 DEF Inv, TypeOK
<1>11. TypeOK'
  <2>1. "RUNNABLE" \in State BY DEF State
  <2>2. state' \in [Slot -> State] BY Zenon, <1>6, <2>1 DEF Inv, TypeOK
  <2>3. np' \in [Slot -> Slot \cup {0}] BY Zenon, <1>6, Forgotten
  <2> QED BY Zenon, <1>7, <1>9, <2>2, <2>3 DEF Inv, TypeOK
<1>12. StateInv'
  <2>1. /\ pc'[p] \notin {"off", "sched"} /\ state'[q] \notin {"RUNNING", "SLEEPING"}
        /\ context'[q] # "zombie_exit"
    BY <1>5, <1>7, <1>9, <1>10
  <2>2. state[q] \in {"UNUSED", "EMBRYO"} /\ state'[p] = "RUNNING" BY Zenon, <1>3, <1>4, <1>10
  <2>3. \A r \in Slot : r # q => state'[r] = state[r] /\ context'[r] = context[r] BY Zenon, <1>7, <1>10
  <2> QED BY Zenon, <1>3, <1>4, <1>7, <1>9, <2>1, <2>2, <2>3, OtherProcs
<1>13. \A r \in Slot : ForkOf(r)'
  <2>1. ForkOf(p)'
    <3>1. np'[p] = 0 /\ resume'[p] = "user" BY Zenon, <1>3, <1>6, <1>7, Forgotten
    <3>2. pc'[p] \notin {"fork_kalloc", "fork_copyuvm", "fork_ready"} BY <1>9
    <3> QED BY Zenon, <3>1, <3>2, ForkNone
  <2>2. \A r \in Slot : r # q => SameSlot(r) BY Zenon, <1>7, <1>10 DEF SameSlot
  <2>3. \A r \in Slot : r # p => pc'[r] = pc[r] /\ resume'[r] = resume[r] /\ np'[r] = np[r]
    BY Zenon, <1>6, <1>7, <1>9, Forgotten
  <2>4. \A r \in Slot : r # p => ForkOf(r)' BY Zenon, <1>4, <2>2, <2>3, OtherForks
  <2> QED BY Zenon, <2>1, <2>4
<1>14. \A r \in Slot : Owns(r)'
  <2>1. Owns(q)'
    <3>1. state'[q] # "UNUSED" BY <1>10
    <3> QED BY Zenon, <1>5, <1>7, <3>1 DEF Owns
  <2>2. ASSUME NEW r \in Slot, r # q PROVE Owns(r)'
    <3>1. Owns(r) BY Zenon DEF Inv, ForkInv
    <3> QED BY Zenon, <1>7, <1>10, <2>2, <3>1, OwnsSame
  <2> QED BY Zenon, <2>1, <2>2
<1>15. \A r, s \in Slot : np'[r] = np'[s] /\ np'[r] # 0 => r = s BY Zenon, <1>6, Forgotten
<1>16. ForkInv' BY Zenon, <1>13, <1>14, <1>15 DEF ForkInv
<1>17. FamilyInv'
  <2>0. \A r \in Slot : state[r] \in Live => state'[r] \in Live BY <1>10 DEF Live
  <2>1. state'[initproc] \in Live /\ parent'[initproc] = 0
    BY Zenon, <1>7, <2>0, Zero DEF Inv, FamilyInv
  <2>2. \A r \in Slot : parent'[r] # r BY Zenon, <1>7 DEF Inv, FamilyInv
  <2>3. NoOrphan'
    <3> SUFFICES ASSUME NEW r \in Slot \ {initproc}, state'[r] \in Live \cup {"ZOMBIE"}
                 PROVE  parent[r] # 0 /\ state'[parent[r]] \in Live
      BY Zenon, <1>7 DEF NoOrphan
    <3>1. CASE r = q
      <4>1. state[p] \in Live BY <1>3 DEF Live
      <4> QED BY Zenon, <1>5, <2>0, <3>1, <4>1, Zero
    <3>2. CASE r # q
      <4>1. state[r] \in Live \cup {"ZOMBIE"} BY Zenon, <1>10, <3>2
      <4>2. parent[r] # 0 /\ state[parent[r]] \in Live BY Zenon, <4>1 DEF Inv, FamilyInv, NoOrphan
      <4>3. parent[r] \in Slot BY Zenon, <4>2 DEF Inv, TypeOK
      <4> QED BY Zenon, <2>0, <4>2, <4>3
    <3> QED BY Zenon, <3>1, <3>2
  <2>4. WaitsForAChild'
    <3> SUFFICES ASSUME NEW r \in Slot, state'[r] = "SLEEPING"
                 PROVE  /\ ~killed[r]
                        /\ \E s \in Slot : parent[s] = r
                        /\ \A s \in Slot : parent[s] = r => state'[s] # "ZOMBIE"
      BY Zenon, <1>7 DEF WaitsForAChild
    <3>1. state[r] = "SLEEPING" BY <1>10
    <3>2. /\ ~killed[r] /\ \E s \in Slot : parent[s] = r
          /\ \A s \in Slot : parent[s] = r => state[s] # "ZOMBIE"
      BY Zenon, <3>1 DEF Inv, FamilyInv, WaitsForAChild
    <3>3. \A s \in Slot : state[s] # "ZOMBIE" => state'[s] # "ZOMBIE" BY <1>10
    <3> QED BY Zenon, <3>2, <3>3
  <2> QED BY Zenon, <2>1, <2>2, <2>3, <2>4 DEF FamilyInv
<1> QED BY Zenon, <1>9, <1>11, <1>12, <1>16, <1>17 DEF Inv

-----------------------------------------------------------------------------
(* exit(), wait() and kill().                                              *)

\* wakeup1() only makes sleepers runnable, and leaves none asleep on the channel.
LEMMA Wakes ==
  ASSUME NEW s, NEW ch, NEW r \in Slot
  PROVE  /\ wakeup1(s, ch)[r] = s[r] \/ (s[r] = "SLEEPING" /\ wakeup1(s, ch)[r] = "RUNNABLE")
         /\ chan[r] = ch => wakeup1(s, ch)[r] # "SLEEPING"
<1>1. wakeup1(s, ch)[r] = IF s[r] = "SLEEPING" /\ chan[r] = ch THEN "RUNNABLE" ELSE s[r]
  BY Zenon DEF wakeup1
<1> QED BY <1>1

\* A step that makes some sleepers runnable, and otherwise leaves them as they are.
Wakened(r) == state'[r] = state[r] \/ (state[r] = "SLEEPING" /\ state'[r] = "RUNNABLE")

\* A sleeper that a wakeup makes runnable keeps the rest of its state ...
LEMMA WakenedState ==
  ASSUME Inv, NEW r \in Slot, Wakened(r), pc'[r] = pc[r], context'[r] = context[r],
         chan'[r] = chan[r], resume'[r] = resume[r]
  PROVE  StateOf(r)'
<1>0. StateOf(r) BY Zenon DEF Inv, StateInv
<1>1. CASE state'[r] = state[r] BY Zenon, <1>0, <1>1, StateSame DEF SameProc
<1>2. CASE state[r] = "SLEEPING" /\ state'[r] = "RUNNABLE"
  <2>1. state[r] \notin {"RUNNING", "RUNNABLE"} BY <1>2
  <2>2. resume[r] = "user" /\ pc[r] \in {"off", "sched"} BY Zenon, <2>1, Resting
  <2>3. context[r] # "zombie_exit" BY <1>0, <1>2 DEF StateOf
  <2> QED BY <1>2, <2>2, <2>3 DEF StateOf
<1> QED BY Zenon, <1>1, <1>2 DEF Wakened

\* ... and what it owns.
LEMMA WakenedOwns ==
  ASSUME Inv, NEW r \in Slot, Wakened(r), kstack'[r] = kstack[r], pgdir'[r] = pgdir[r],
         state'[r] = "UNUSED" => parent'[r] = parent[r]
  PROVE  Owns(r)'
<1>1. Owns(r) BY Zenon DEF Inv, ForkInv
<1>2. state'[r] = "UNUSED" => state[r] = "UNUSED" BY DEF Wakened
<1>3. state'[r] \in Born => state[r] \in Born BY DEF Wakened, Born
<1> QED BY Zenon, <1>1, <1>2, <1>3, OwnsSame

\* Sleepers that are woken live on.
LEMMA WakenedLive ==
  ASSUME NEW r \in Slot, Wakened(r)
  PROVE  /\ state'[r] \in Live <=> state[r] \in Live
         /\ state'[r] = "ZOMBIE" <=> state[r] = "ZOMBIE"
         /\ state'[r] = "SLEEPING" => state[r] = "SLEEPING"
         /\ state[r] = "EMBRYO" => state'[r] = "EMBRYO"
         /\ state'[r] = "UNUSED" => state[r] = "UNUSED"
         /\ state'[r] = "RUNNING" <=> state[r] = "RUNNING"
BY DEF Wakened, Live

\* kill() marks a process and wakes it.
LEMMA NextKill == ASSUME Inv, NEW c \in CPU, NEW n, kill(c, n) PROVE Inv'
<1> USE DEF owned, local
<1>1. At(c, "sys") BY Zenon DEF kill
<1>s. "sys" \in Interruptible BY DEF Interruptible
<1>2. PICK p \in Slot : p = on[c] BY Zenon, <1>1, Here
<1>3. pc[p] = "sys" /\ state[p] = "RUNNING" /\ resume[p] = "user" BY Zenon, <1>1, <1>2, <1>s, Runs
<1>4. UNCHANGED <<pid, parent, chan, kstack, pgdir, context, nextpid, lock, on, scan, resume, np, panicked>>
  BY Zenon DEF kill
<1>5. PICK l \in {"user", "exit"} : Goto(p, l)
  <2>1. CASE killed'[p] BY Zenon, <1>2, <2>1 DEF kill
  <2>2. CASE ~killed'[p] BY Zenon, <1>2, <2>2 DEF kill
  <2> QED BY Zenon, <2>1, <2>2
<1>6. /\ CpuInv' /\ lock' \in CPU \cup {0} /\ pc' \in [Slot -> Label]
      /\ pc'[p] = l /\ \A r \in Slot : r # p => pc'[r] = pc[r]
  <2>1. l \in Interruptible BY DEF Interruptible
  <2>2. PICK k \in Interruptible : k = "sys" BY Zenon, <1>s
  <2>3. At(c, k) BY Zenon, <1>1, <2>2
  <2> QED BY <1>2, <1>4, <1>5, <2>1, <2>3, Unlocked
<1> DEFINE match == {q \in Slot : pid[q] = n}
<1>7. /\ killed' \in [Slot -> BOOLEAN] /\ state' \in [Slot -> State]
      /\ \A r \in Slot : Wakened(r)
      /\ \A r \in Slot : state'[r] = "SLEEPING" => killed'[r] = killed[r]
  <2>1. CASE match = {}
    <3>1. killed' = killed /\ state' = state BY Zenon, <2>1 DEF kill
    <3> QED BY Zenon, <3>1 DEF Inv, TypeOK, Wakened
  <2>2. CASE match # {}
    <3>1. PICK q \in Slot : q = Min(match)
      <4>1. Min(match) \in match BY Zenon, <2>2, MinIn
      <4> QED BY Zenon, <4>1
    <3>2. killed' = [killed EXCEPT ![q] = TRUE] /\ state' = Unsleep(q) BY Zenon, <2>2, <3>1 DEF kill
    <3>3. killed' \in [Slot -> BOOLEAN] /\ \A r \in Slot : r # q => killed'[r] = killed[r]
      BY Zenon, <3>2 DEF Inv, TypeOK
    <3>4. /\ state'[q] = IF state[q] = "SLEEPING" THEN "RUNNABLE" ELSE state[q]
          /\ \A r \in Slot : r # q => state'[r] = state[r]
      BY Zenon, <3>2 DEF Inv, TypeOK, Unsleep
    <3>5. state' \in [Slot -> State] BY <3>2 DEF Inv, TypeOK, Unsleep, State
    <3>6. \A r \in Slot : Wakened(r)
      <4> SUFFICES ASSUME NEW r \in Slot PROVE Wakened(r) BY Zenon
      <4>1. CASE r = q BY Zenon, <3>4, <4>1 DEF Wakened
      <4>2. CASE r # q BY Zenon, <3>4, <4>2 DEF Wakened
      <4> QED BY Zenon, <4>1, <4>2
    <3>7. state'[q] # "SLEEPING" BY <3>4
    <3> QED BY Zenon, <3>3, <3>5, <3>6, <3>7
  <2> QED BY Zenon, <2>1, <2>2
<1>8. TypeOK' BY Zenon, <1>4, <1>6, <1>7 DEF Inv, TypeOK
<1>9. StateInv'
  <2>1. StateOf(p)'
    <3>1. state'[p] = "RUNNING" BY Zenon, <1>3, <1>7, WakenedLive
    <3>2. pc'[p] \notin {"off", "sched"} BY <1>6
    <3> QED BY Zenon, <1>3, <1>4, <3>1, <3>2, StateRun
  <2>2. \A r \in Slot : r # p => StateOf(r)' BY Zenon, <1>4, <1>6, <1>7, WakenedState
  <2> QED BY Zenon, <2>1, <2>2 DEF StateInv
<1>10. ForkInv'
  <2>1. \A r \in Slot : ForkOf(r)'
    <3> SUFFICES ASSUME NEW r \in Slot PROVE ForkOf(r)' BY Zenon
    <3>1. ForkOf(r) BY Zenon DEF Inv, ForkInv
    <3>2. ASSUME np[r] # 0 PROVE SameSlot(np[r])
      <4>1. np[r] \in Slot /\ state[np[r]] = "EMBRYO" BY Zenon, <3>2, Embryo
      <4>2. state'[np[r]] = "EMBRYO" BY Zenon, <1>7, <4>1, WakenedLive
      <4> QED BY Zenon, <1>4, <4>1, <4>2 DEF SameSlot
    <3>3. /\ ForkAt(r, "fork_kalloc")' <=> ForkAt(r, "fork_kalloc")
          /\ ForkAt(r, "fork_copyuvm")' <=> ForkAt(r, "fork_copyuvm")
          /\ ForkAt(r, "fork_ready")' <=> ForkAt(r, "fork_ready")
      BY <1>3, <1>4, <1>6 DEF ForkAt
    <3> QED BY Zenon, <1>4, <3>1, <3>2, <3>3, ForkKept
  <2>2. \A r \in Slot : Owns(r)' BY Zenon, <1>4, <1>7, WakenedOwns
  <2> QED BY Zenon, <1>4, <2>1, <2>2, Distinct DEF ForkInv
<1>11. FamilyInv'
  <2>1. \A r \in Slot : /\ state'[r] \in Live <=> state[r] \in Live
                        /\ state'[r] = "ZOMBIE" <=> state[r] = "ZOMBIE"
    BY Zenon, <1>7, WakenedLive
  <2>2. ASSUME NEW r \in Slot, state'[r] = "SLEEPING" PROVE state[r] = "SLEEPING" /\ ~killed'[r]
    <3>1. state[r] = "SLEEPING" BY Zenon, <1>7, <2>2, WakenedLive
    <3>2. ~killed[r] BY Zenon, <3>1 DEF Inv, FamilyInv, WaitsForAChild
    <3> QED BY Zenon, <1>7, <2>2, <3>1, <3>2
  <2> QED BY Zenon, <1>4, <2>1, <2>2, FamilySame DEF Inv
<1> QED BY Zenon, <1>6, <1>8, <1>9, <1>10, <1>11 DEF Inv

\* The panic of exit() when init calls it.
LEMMA NextPanic ==
  ASSUME Inv, NEW c \in CPU, At(c, "exit"), on[c] = initproc, panicked' = TRUE,
         UNCHANGED <<table, owned, context, nextpid, lock, on, scan, pc, local>>
  PROVE  Inv'
<1> USE DEF table, owned, local
<1>1. StateInv' /\ ForkInv' /\ FamilyInv' BY Zenon, TableSame
<1>2. TypeOK' BY Zenon DEF Inv, TypeOK
<1>3. \A d \in CPU : HasLock(d)' <=> HasLock(d) BY Zenon DEF HasLock
<1>4. \E d \in CPU : on'[d] = initproc /\ pc'[initproc] = "exit" BY Zenon DEF At
<1>5. CpuInv' BY Zenon, <1>3, <1>4 DEF Inv, CpuInv
<1> QED BY Zenon, <1>1, <1>2, <1>5 DEF Inv

\* exit() by a process that is not init.
LEMMA NextExit == ASSUME Inv, NEW c \in CPU, exit(c) PROVE Inv'
<1> USE DEF owned, local
<1>1. At(c, "exit") BY Zenon DEF exit
<1>s. "exit" \in Interruptible BY DEF Interruptible
<1>2. PICK p \in Slot : p = on[c] BY Zenon, <1>1, Here
<1>3. pc[p] = "exit" /\ state[p] = "RUNNING" /\ resume[p] = "user" BY Zenon, <1>1, <1>2, <1>s, Runs
<1>4. CASE p = initproc BY Zenon, <1>1, <1>2, <1>4, NextPanic DEF exit, table
<1>5. CASE p # initproc
  <2> DEFINE kids == {q \in Slot : parent[q] = p}
             s1 == wakeup1(state, parent[p])
             s2 == IF \E q \in kids : state[q] = "ZOMBIE" THEN wakeup1(s1, initproc) ELSE s1
  <2>1. /\ lock = 0 /\ lock' = c /\ parent' = Abandon(p) /\ state' = [s2 EXCEPT ![p] = "ZOMBIE"]
        /\ context' = [context EXCEPT ![p] = "zombie_exit"] /\ Goto(p, "sched")
    BY Zenon, <1>2, <1>5 DEF exit
  <2>2. UNCHANGED <<pid, killed, chan, kstack, pgdir, nextpid, on, scan, resume, np, panicked>>
    BY Zenon, <1>2, <1>5 DEF exit
  <2>s. \A r \in Slot : s2[r] = s1[r] \/ (s1[r] = "SLEEPING" /\ s2[r] = "RUNNABLE")
    <3> SUFFICES ASSUME NEW r \in Slot
                 PROVE  s2[r] = s1[r] \/ (s1[r] = "SLEEPING" /\ s2[r] = "RUNNABLE")
      BY Zenon
    <3>1. s2 = s1 \/ s2 = wakeup1(s1, initproc) BY Zenon
    <3> HIDE DEF s1, s2
    <3> QED BY <3>1, Wakes
  <2>3. \A r \in Slot : s2[r] = state[r] \/ (state[r] = "SLEEPING" /\ s2[r] = "RUNNABLE")
    <3> SUFFICES ASSUME NEW r \in Slot
                 PROVE  s2[r] = state[r] \/ (state[r] = "SLEEPING" /\ s2[r] = "RUNNABLE")
      BY Zenon
    <3>1. s1[r] = state[r] \/ (state[r] = "SLEEPING" /\ s1[r] = "RUNNABLE") BY Wakes
    <3>2. s2[r] = s1[r] \/ (s1[r] = "SLEEPING" /\ s2[r] = "RUNNABLE") BY Zenon, <2>s
    <3> HIDE DEF s1, s2
    <3> QED BY Zenon, <3>1, <3>2
  <2>4. \A r \in Slot : state[r] = "SLEEPING" /\ r = parent[p] => s2[r] # "SLEEPING"
    <3> SUFFICES ASSUME NEW r \in Slot, state[r] = "SLEEPING", r = parent[p] PROVE s2[r] # "SLEEPING"
      BY Zenon
    <3>1. chan[r] = r BY Zenon DEF Inv, StateInv, StateOf
    <3>2. s1[r] # "SLEEPING" BY Zenon, <3>1, Wakes
    <3>3. s2[r] = s1[r] \/ (s1[r] = "SLEEPING" /\ s2[r] = "RUNNABLE") BY Zenon, <2>s
    <3> HIDE DEF s1, s2
    <3> QED BY Zenon, <3>2, <3>3
  <2>5. \A q \in Slot : parent[q] = p /\ state[q] = "ZOMBIE" /\ state[initproc] = "SLEEPING"
                        => s2[initproc] # "SLEEPING"
    <3> SUFFICES ASSUME NEW q \in Slot, parent[q] = p, state[q] = "ZOMBIE", state[initproc] = "SLEEPING"
                 PROVE  s2[initproc] # "SLEEPING"
      BY Zenon
    <3>1. chan[initproc] = initproc BY Zenon, Zero DEF Inv, StateInv, StateOf
    <3>2. s2 = wakeup1(s1, initproc) BY Zenon
    <3> HIDE DEF s1, s2
    <3> QED BY Zenon, <3>1, <3>2, Wakes, Zero
  <2>6. s2 \in [Slot -> State]
    <3>1. DOMAIN s2 = Slot /\ s2 = [r \in Slot |-> s2[r]] BY Zenon DEF wakeup1
    <3>2. \A r \in Slot : s2[r] \in State
      <4> HIDE DEF s2
      <4>1. "RUNNABLE" \in State BY DEF State
      <4> QED BY Zenon, <2>3, <4>1 DEF Inv, TypeOK
    <3> HIDE DEF s2
    <3> QED BY Zenon, <3>1, <3>2
  <2> HIDE DEF s1, s2
  <2>7. state'[p] = "ZOMBIE" /\ \A r \in Slot : r # p => state'[r] = s2[r] BY Zenon, <2>1, <2>6
  <2>8. \A r \in Slot : r # p => Wakened(r) BY Zenon, <2>3, <2>7 DEF Wakened
  <2>9. \A r \in Slot : parent'[r] = IF parent[r] = p THEN initproc ELSE parent[r] BY Zenon, <2>1 DEF Abandon
  <2>10. context'[p] = "zombie_exit" /\ \A r \in Slot : r # p => context'[r] = context[r]
    BY Zenon, <2>1 DEF Inv, TypeOK
  <2>11. /\ CpuInv' /\ lock' \in CPU \cup {0} /\ pc' \in [Slot -> Label]
         /\ pc'[p] = "sched" /\ \A r \in Slot : r # p => pc'[r] = pc[r]
    <3>1. PICK l \in Label \ {"off"} : l = "sched" /\ l \in Locking BY DEF Label, Locking
    <3>2. LockStep(c, l) /\ Goto(p, l) BY Zenon, <2>1, <3>1 DEF LockStep
    <3>3. PICK k : k = "exit" /\ k # "off" BY "exit" # "off"
    <3>4. At(c, k) BY Zenon, <1>1, <3>3
    <3> QED BY <1>2, <2>2, <3>1, <3>2, <3>3, <3>4, Move
  <2>12. TypeOK'
    <3>1. state' \in [Slot -> State]
      <4>1. "ZOMBIE" \in State BY DEF State
      <4> QED BY Zenon, <2>1, <2>6, <4>1
    <3>2. parent' \in [Slot -> Slot \cup {0}]
      <4>1. \A r \in Slot : parent'[r] \in Slot \cup {0} BY Zenon, <2>9, Zero DEF Inv, TypeOK
      <4>2. parent' = [r \in Slot |-> parent'[r]] BY Zenon, <2>1 DEF Abandon
      <4> QED BY Zenon, <4>1, <4>2
    <3>3. context' \in [Slot -> {"forkret", "yielded", "wait", "zombie_exit"}]
      BY Zenon, <2>1 DEF Inv, TypeOK
    <3> QED BY Zenon, <2>2, <2>11, <3>1, <3>2, <3>3 DEF Inv, TypeOK
  <2>13. StateInv'
    <3>1. StateOf(p)' BY <1>3, <2>2, <2>7, <2>11 DEF StateOf
    <3>2. \A r \in Slot : r # p => StateOf(r)' BY Zenon, <2>2, <2>8, <2>10, <2>11, WakenedState
    <3> QED BY Zenon, <3>1, <3>2 DEF StateInv
  <2>14. np[p] = 0
    <3>1. pc[p] \notin {"fork_kalloc", "fork_copyuvm", "fork_ready"} BY <1>3
    <3> QED BY Zenon, <1>3, <3>1, NoChild
  <2>15. ForkInv'
    <3>1. ForkOf(p)'
      <4>1. pc'[p] \notin {"fork_kalloc", "fork_copyuvm", "fork_ready"} BY <2>11
      <4> QED BY Zenon, <1>3, <2>2, <2>14, <4>1, ForkNone
    <3>2. ASSUME NEW r \in Slot, r # p PROVE ForkOf(r)'
      <4>1. ForkOf(r) BY Zenon DEF Inv, ForkInv
      <4>2. ASSUME np[r] # 0 PROVE SameSlot(np[r])
        <5>1. np[r] \in Slot /\ state[np[r]] = "EMBRYO" BY Zenon, <4>2, Embryo
        <5>2. np[r] # p BY <1>3, <5>1
        <5>3. state'[np[r]] = "EMBRYO" BY Zenon, <2>8, <5>1, <5>2, WakenedLive
        <5>4. parent[np[r]] \in {0, r}
          <6>1. Forking(r) BY Zenon, <4>1, <4>2 DEF ForkOf
          <6> QED BY Zenon, <4>1, <6>1 DEF ForkOf, Forking
        <5>5. parent'[np[r]] = parent[np[r]] BY Zenon, <2>9, <3>2, <5>1, <5>4, Zero
        <5> QED BY Zenon, <2>2, <2>10, <5>1, <5>2, <5>3, <5>5 DEF SameSlot
      <4> QED BY Zenon, <2>2, <2>11, <3>2, <4>1, <4>2, ForkOther
    <3>3. ASSUME NEW r \in Slot PROVE Owns(r)'
      <4>1. CASE r = p
        <5>1. state'[r] # "UNUSED" /\ state[r] \in Born BY <1>3, <2>7, <4>1 DEF Born
        <5>2. kstack[r] /\ pgdir[r] BY Zenon, <5>1 DEF Inv, ForkInv, Owns
        <5> QED BY Zenon, <2>2, <5>1, <5>2 DEF Owns
      <4>2. CASE r # p
        <5>1. Wakened(r) BY Zenon, <2>8, <4>2
        <5>2. ASSUME state'[r] = "UNUSED" PROVE parent'[r] = parent[r]
          <6>1. state[r] = "UNUSED" BY Zenon, <5>1, <5>2, WakenedLive
          <6>2. parent[r] = 0 BY Zenon, <6>1 DEF Inv, ForkInv, Owns
          <6> QED BY Zenon, <2>9, <6>2, Zero
        <5> QED BY Zenon, <2>2, <5>1, <5>2, WakenedOwns
      <4> QED BY Zenon, <4>1, <4>2
    <3>4. \A r \in Slot : ForkOf(r)' BY Zenon, <3>1, <3>2
    <3> QED BY Zenon, <2>2, <3>3, <3>4, Distinct DEF ForkInv
  <2>16. FamilyInv'
    <3>0. \A r \in Slot : r # p => /\ state'[r] \in Live <=> state[r] \in Live
                                   /\ state'[r] = "ZOMBIE" <=> state[r] = "ZOMBIE"
      BY Zenon, <2>8, WakenedLive
    <3>1. state'[initproc] \in Live /\ parent'[initproc] = 0
      BY Zenon, <1>5, <2>9, <3>0, Zero DEF Inv, FamilyInv
    <3>2. \A r \in Slot : parent'[r] # r BY Zenon, <2>9, Zero DEF Inv, FamilyInv
    <3>3. NoOrphan'
      <4> SUFFICES ASSUME NEW r \in Slot \ {initproc}, state'[r] \in Live \cup {"ZOMBIE"}
                   PROVE  parent'[r] # 0 /\ state'[parent'[r]] \in Live
        BY Zenon DEF NoOrphan
      <4>1. state[r] \in Live \cup {"ZOMBIE"}
        <5>1. CASE r = p BY <1>3, <5>1 DEF Live
        <5>2. CASE r # p BY Zenon, <3>0, <5>2
        <5> QED BY Zenon, <5>1, <5>2
      <4>2. parent[r] # 0 /\ state[parent[r]] \in Live BY Zenon, <4>1 DEF Inv, FamilyInv, NoOrphan
      <4>3. parent[r] \in Slot BY Zenon, <4>2 DEF Inv, TypeOK
      <4>4. CASE parent[r] = p BY Zenon, <2>9, <3>1, <4>4, Zero
      <4>5. CASE parent[r] # p BY Zenon, <2>9, <3>0, <4>2, <4>3, <4>5
      <4> QED BY Zenon, <4>4, <4>5
    <3>4. WaitsForAChild'
      <4> SUFFICES ASSUME NEW r \in Slot, state'[r] = "SLEEPING"
                   PROVE  /\ ~killed[r]
                          /\ \E s \in Slot : parent'[s] = r
                          /\ \A s \in Slot : parent'[s] = r => state'[s] # "ZOMBIE"
        BY Zenon, <2>2 DEF WaitsForAChild
      <4>1. r # p BY <2>7
      <4>2. state[r] = "SLEEPING" /\ s2[r] = "SLEEPING" BY Zenon, <2>7, <2>8, <4>1, WakenedLive
      <4>3. /\ ~killed[r] /\ \A s \in Slot : parent[s] = r => state[s] # "ZOMBIE"
        BY Zenon, <4>2 DEF Inv, FamilyInv, WaitsForAChild
      <4>4. PICK s \in Slot : parent[s] = r BY Zenon, <4>2 DEF Inv, FamilyInv, WaitsForAChild
      <4>5. parent'[s] = r BY Zenon, <2>9, <4>1, <4>4
      <4>6. ASSUME NEW t \in Slot, parent'[t] = r, state'[t] = "ZOMBIE" PROVE FALSE
        <5>1. CASE parent[t] = p
          <6>1. r = initproc BY Zenon, <2>9, <4>6, <5>1
          <6>2. t # p BY Zenon, <5>1 DEF Inv, FamilyInv
          <6>3. state[t] = "ZOMBIE" BY Zenon, <3>0, <4>6, <6>2
          <6> QED BY Zenon, <2>5, <4>2, <5>1, <6>1, <6>3
        <5>2. CASE parent[t] # p
          <6>1. parent[t] = r BY Zenon, <2>9, <4>6, <5>2
          <6>2. t # p BY Zenon, <2>4, <4>2, <6>1
          <6>3. state[t] = "ZOMBIE" BY Zenon, <3>0, <4>6, <6>2
          <6> QED BY Zenon, <4>3, <6>1, <6>3
        <5> QED BY Zenon, <5>1, <5>2
      <4> QED BY Zenon, <4>3, <4>5, <4>6
    <3> QED BY Zenon, <3>1, <3>2, <3>3, <3>4 DEF FamilyInv
  <2> QED BY Zenon, <2>11, <2>12, <2>13, <2>15, <2>16 DEF Inv
<1> QED BY Zenon, <1>4, <1>5

\* wait() frees a zombie.  It is on no CPU: exit() left its stack before ptable.lock was free.
LEMMA NextReap == ASSUME Inv, NEW c \in CPU, reap(c) PROVE Inv'
<1> USE DEF local
<1>1. At(c, "wait") BY Zenon DEF reap
<1>2. PICK p \in Slot : p = on[c] BY Zenon, <1>1, Here
<1>3. pc[p] = "wait" /\ state[p] = "RUNNING" /\ resume[p] = "user" /\ p # 0
  <2>1. "wait" \notin {"off", "sched", "yielded"} OBVIOUS
  <2> QED BY Zenon, <1>1, <1>2, <2>1, Here
<1> DEFINE zombies == {q \in Slot : parent[q] = p /\ state[q] = "ZOMBIE"}
<1>4. PICK q \in Slot : q = Min(zombies) /\ parent[q] = p /\ state[q] = "ZOMBIE"
  <2>1. zombies # {} BY Zenon, <1>2 DEF reap
  <2>2. Min(zombies) \in zombies BY Zenon, <2>1, MinIn
  <2> QED BY Zenon, <2>2
<1>5. /\ kstack' = [kstack EXCEPT ![q] = FALSE] /\ pgdir' = [pgdir EXCEPT ![q] = FALSE]
      /\ state' = [state EXCEPT ![q] = "UNUSED"] /\ pid' = [pid EXCEPT ![q] = 0]
      /\ parent' = [parent EXCEPT ![q] = 0] /\ killed' = [killed EXCEPT ![q] = FALSE]
      /\ chan' = [chan EXCEPT ![p] = 0] /\ lock' = 0 /\ Return(p)
  BY Zenon, <1>2, <1>4 DEF reap
<1>6. UNCHANGED <<context, nextpid, on, scan, resume, np, panicked>> BY Zenon DEF reap
<1>7. q # p BY <1>3, <1>4
<1>8. pc[on[c]] \in Locking BY <1>2, <1>3 DEF Locking
<1>9. pc[q] = "off" /\ resume[q] = "user" /\ np[q] = 0
  <2>1. lock = c BY Zenon, <1>2, <1>3, <1>8, Locked
  <2>2. state[q] \notin {"RUNNING", "RUNNABLE"} BY <1>4
  <2>3. pc[q] = "off" BY Zenon, <1>2, <1>7, <2>1, <2>2, OffCpu
  <2> QED BY Zenon, <2>2, <2>3, Resting
<1>10. PICK l \in {"user", "exit"} : Goto(p, l) BY Zenon, <1>5, Returns DEF Inv
<1>11. /\ CpuInv' /\ lock' \in CPU \cup {0} /\ pc' \in [Slot -> Label]
       /\ pc'[p] = l /\ \A r \in Slot : r # p => pc'[r] = pc[r]
  <2>1. l \in Label \ {"off"} /\ l \notin Locking BY DEF Label, Interruptible, Locking
  <2>2. LockStep(c, l) BY Zenon, <1>5, <1>8, <2>1 DEF LockStep
  <2>3. PICK k : k = "wait" /\ k # "off" BY "wait" # "off"
  <2>4. At(c, k) BY Zenon, <1>1, <2>3
  <2> QED BY <1>2, <1>6, <1>10, <2>1, <2>2, <2>3, <2>4, Move
<1>12. /\ state'[q] = "UNUSED" /\ ~kstack'[q] /\ ~pgdir'[q] /\ parent'[q] = 0
  BY Zenon, <1>5 DEF Inv, TypeOK
<1>13. \A r \in Slot : r # q => /\ state'[r] = state[r] /\ kstack'[r] = kstack[r] /\ pgdir'[r] = pgdir[r]
                                /\ parent'[r] = parent[r] /\ killed'[r] = killed[r]
  BY Zenon, <1>5 DEF Inv, TypeOK
<1>14. \A r \in Slot : r # p => chan'[r] = chan[r] BY Zenon, <1>5 DEF Inv, TypeOK
<1>15. TypeOK'
  <2>1. "UNUSED" \in State BY DEF State
  <2>2. state' \in [Slot -> State] BY Zenon, <1>5, <2>1 DEF Inv, TypeOK
  <2>3. kstack' \in [Slot -> BOOLEAN] /\ pgdir' \in [Slot -> BOOLEAN] /\ killed' \in [Slot -> BOOLEAN]
    BY Zenon, <1>5 DEF Inv, TypeOK
  <2>4. pid' \in [Slot -> Nat] BY <1>5 DEF Inv, TypeOK
  <2>5. parent' \in [Slot -> Slot \cup {0}] /\ chan' \in [Slot -> Slot \cup {0}]
    BY Zenon, <1>5 DEF Inv, TypeOK
  <2> QED BY Zenon, <1>6, <1>11, <2>2, <2>3, <2>4, <2>5 DEF Inv, TypeOK
<1>16. StateInv'
  <2>1. StateOf(p)'
    <3>1. pc'[p] \notin {"off", "sched"} BY <1>11
    <3>2. state'[p] = "RUNNING" /\ resume'[p] = "user" BY Zenon, <1>3, <1>6, <1>7, <1>13
    <3> QED BY Zenon, <3>1, <3>2, StateRun
  <2>2. StateOf(q)'
    <3>1. state'[q] \notin {"RUNNING", "SLEEPING", "RUNNABLE"} BY <1>12
    <3>2. pc'[q] = "off" /\ resume'[q] = "user" BY Zenon, <1>6, <1>7, <1>9, <1>11
    <3> QED BY Zenon, <3>1, <3>2, StateIdle
  <2>3. ASSUME NEW r \in Slot, r # p, r # q PROVE StateOf(r)'
    <3>1. SameProc(r) BY Zenon, <1>6, <1>11, <1>13, <1>14, <2>3 DEF SameProc
    <3> QED BY Zenon, <3>1, StateSame DEF Inv, StateInv
  <2> QED BY Zenon, <2>1, <2>2, <2>3 DEF StateInv
<1>17. ForkInv'
  <2>1. \A r \in Slot : r # q => SameSlot(r) BY Zenon, <1>6, <1>13 DEF SameSlot
  <2>2. state[q] # "EMBRYO" BY <1>4
  <2>3. \A r \in Slot : r # p => pc'[r] = pc[r] /\ resume'[r] = resume[r] /\ np'[r] = np[r]
    BY Zenon, <1>6, <1>11
  <2>4. \A r \in Slot : r # p => ForkOf(r)' BY Zenon, <2>1, <2>2, <2>3, OtherForks
  <2>5. ForkOf(p)'
    <3>1. pc[p] \notin {"fork_kalloc", "fork_copyuvm", "fork_ready"} BY <1>3
    <3>2. np[p] = 0 BY Zenon, <1>3, <3>1, NoChild
    <3>3. pc'[p] \notin {"fork_kalloc", "fork_copyuvm", "fork_ready"} BY <1>11
    <3> QED BY Zenon, <1>3, <1>6, <3>2, <3>3, ForkNone
  <2>6. Owns(q)'
    <3>1. state'[q] \notin Born BY <1>12 DEF Born
    <3> QED BY Zenon, <1>12, <3>1 DEF Owns
  <2>7. ASSUME NEW r \in Slot, r # q PROVE Owns(r)'
    <3>1. Owns(r) BY Zenon DEF Inv, ForkInv
    <3> QED BY Zenon, <1>13, <2>7, <3>1, OwnsSame
  <2>8. \A r \in Slot : ForkOf(r)' BY Zenon, <2>4, <2>5
  <2>9. \A r \in Slot : Owns(r)' BY Zenon, <2>6, <2>7
  <2> QED BY Zenon, <1>6, <2>8, <2>9, Distinct DEF ForkInv
<1>18. FamilyInv'
  <2>0. q # initproc
    <3>1. "ZOMBIE" \notin Live BY DEF Live
    <3> QED BY Zenon, <1>4, <3>1 DEF Inv, FamilyInv
  <2>1. state'[initproc] \in Live /\ parent'[initproc] = 0
    BY Zenon, <1>13, <2>0, Zero DEF Inv, FamilyInv
  <2>2. ASSUME NEW r \in Slot PROVE parent'[r] # r
    <3>1. CASE r = q BY Zenon, <1>12, <3>1, Zero
    <3>2. CASE r # q BY Zenon, <1>13, <3>2 DEF Inv, FamilyInv
    <3> QED BY Zenon, <3>1, <3>2
  <2>3. NoOrphan'
    <3> SUFFICES ASSUME NEW r \in Slot \ {initproc}, state'[r] \in Live \cup {"ZOMBIE"}
                 PROVE  parent'[r] # 0 /\ state'[parent'[r]] \in Live
      BY Zenon DEF NoOrphan
    <3>1. r # q BY <1>12 DEF Live
    <3>2. parent[r] # 0 /\ state[parent[r]] \in Live
      BY Zenon, <1>13, <3>1 DEF Inv, FamilyInv, NoOrphan
    <3>3. parent[r] \in Slot BY Zenon, <3>2 DEF Inv, TypeOK
    <3>4. parent[r] # q BY <1>4, <3>2 DEF Live
    <3> QED BY Zenon, <1>13, <3>1, <3>2, <3>3, <3>4
  <2>4. WaitsForAChild'
    <3> SUFFICES ASSUME NEW r \in Slot, state'[r] = "SLEEPING"
                 PROVE  /\ ~killed'[r]
                        /\ \E s \in Slot : parent'[s] = r
                        /\ \A s \in Slot : parent'[s] = r => state'[s] # "ZOMBIE"
      BY Zenon DEF WaitsForAChild
    <3>1. r # q BY <1>12
    <3>2. state[r] = "SLEEPING" BY Zenon, <1>13, <3>1
    <3>3. r # p BY <1>3, <3>2
    <3>4. ~killed[r] /\ \A s \in Slot : parent[s] = r => state[s] # "ZOMBIE"
      BY Zenon, <3>2 DEF Inv, FamilyInv, WaitsForAChild
    <3>5. PICK s \in Slot : parent[s] = r BY Zenon, <3>2 DEF Inv, FamilyInv, WaitsForAChild
    <3>6. parent'[s] = r BY Zenon, <1>4, <1>13, <3>3, <3>5
    <3>7. ASSUME NEW t \in Slot, parent'[t] = r PROVE state'[t] # "ZOMBIE"
      <4>1. t # q BY Zenon, <1>12, <3>7, Zero
      <4> QED BY Zenon, <1>13, <3>4, <3>7, <4>1
    <3> QED BY Zenon, <1>13, <3>1, <3>4, <3>6, <3>7
  <2> QED BY Zenon, <2>1, <2>2, <2>3, <2>4 DEF FamilyInv
<1> QED BY Zenon, <1>11, <1>15, <1>16, <1>17, <1>18 DEF Inv

\* wait() goes to sleep.
LEMMA NextWaitSleep == ASSUME Inv, NEW c \in CPU, wait_sleep(c) PROVE Inv'
<1> USE DEF owned, local
<1>1. At(c, "wait") BY Zenon DEF wait_sleep
<1>2. PICK p \in Slot : p = on[c] BY Zenon, <1>1, Here
<1>3. pc[p] = "wait" /\ state[p] = "RUNNING" /\ resume[p] = "user" /\ p # 0
  <2>1. "wait" \notin {"off", "sched", "yielded"} OBVIOUS
  <2> QED BY Zenon, <1>1, <1>2, <2>1, Here
<1>4. pc[on[c]] \in Locking BY <1>2, <1>3 DEF Locking
<1> DEFINE kids == {q \in Slot : parent[q] = p}
<1>5. CASE kids = {} \/ killed[p]
  <2>1. chan' = [chan EXCEPT ![p] = 0] /\ lock' = 0 /\ Return(p) /\ UNCHANGED <<state, context>>
    BY Zenon, <1>2, <1>5 DEF wait_sleep
  <2>2. PICK l \in {"user", "exit"} : Goto(p, l) BY Zenon, <2>1, Returns DEF Inv
  <2>3. LockStep(c, l)
    <3>1. l \notin Locking BY DEF Locking
    <3> QED BY Zenon, <1>4, <2>1, <3>1 DEF LockStep
  <2>4. killed' \in [Slot -> BOOLEAN] BY Zenon DEF wait_sleep, Inv, TypeOK
  <2>5. chan' \in [Slot -> Slot \cup {0}] /\ \A q \in Slot : q # p => chan'[q] = chan[q]
    BY Zenon, <2>1 DEF Inv, TypeOK
  <2>6. l \in {"user", "sys", "exit", "wait"} /\ "wait" \in {"forkret", "user", "sys", "wait"} OBVIOUS
  <2>7. UNCHANGED <<state, pid, parent, killed, kstack, pgdir, context, nextpid, on, scan, resume, np, panicked>>
    BY Zenon, <2>1 DEF wait_sleep
  <2> QED BY Zenon, <1>1, <1>2, <2>2, <2>3, <2>4, <2>5, <2>6, <2>7, PlainStep
<1>6. CASE kids # {} /\ ~killed[p]
  <2>1. /\ chan' = [chan EXCEPT ![p] = p] /\ state' = [state EXCEPT ![p] = "SLEEPING"]
        /\ context' = [context EXCEPT ![p] = "wait"] /\ Goto(p, "sched") /\ lock' = lock
    BY Zenon, <1>2, <1>6 DEF wait_sleep
  <2>2. UNCHANGED <<pid, parent, killed, kstack, pgdir, nextpid, on, scan, resume, np, panicked>>
    BY Zenon DEF wait_sleep
  <2>3. /\ CpuInv' /\ lock' \in CPU \cup {0} /\ pc' \in [Slot -> Label]
        /\ pc'[p] = "sched" /\ \A r \in Slot : r # p => pc'[r] = pc[r]
    <3>1. PICK l \in Label \ {"off"} : l = "sched" /\ l \in Locking BY DEF Label, Locking
    <3>2. lock = c BY Zenon, <1>2, <1>3, <1>4, Locked
    <3>3. LockStep(c, l) /\ Goto(p, l) BY Zenon, <2>1, <3>1, <3>2 DEF LockStep
    <3>4. PICK k : k = "wait" /\ k # "off" BY "wait" # "off"
    <3>5. At(c, k) BY Zenon, <1>1, <3>4
    <3> QED BY <1>2, <2>2, <3>1, <3>3, <3>4, <3>5, Move
  <2>4. chan'[p] = p /\ state'[p] = "SLEEPING" /\ context'[p] = "wait" BY Zenon, <2>1 DEF Inv, TypeOK
  <2>5. \A r \in Slot : r # p =>
          chan'[r] = chan[r] /\ state'[r] = state[r] /\ context'[r] = context[r]
    BY Zenon, <2>1 DEF Inv, TypeOK
  <2>6. TypeOK'
    <3>1. "SLEEPING" \in State BY DEF State
    <3>2. state' \in [Slot -> State] BY Zenon, <2>1, <3>1 DEF Inv, TypeOK
    <3>3. chan' \in [Slot -> Slot \cup {0}] BY Zenon, <2>1 DEF Inv, TypeOK
    <3>4. context' \in [Slot -> {"forkret", "yielded", "wait", "zombie_exit"}]
      BY Zenon, <2>1 DEF Inv, TypeOK
    <3> QED BY Zenon, <2>2, <2>3, <3>2, <3>3, <3>4 DEF Inv, TypeOK
  <2>7. StateInv'
    <3>1. StateOf(p)' BY <1>3, <2>2, <2>3, <2>4 DEF StateOf
    <3>2. \A r \in Slot : r # p => SameProc(r) BY Zenon, <2>2, <2>3, <2>5 DEF SameProc
    <3> QED BY Zenon, <3>1, <3>2, StateSame DEF Inv, StateInv
  <2>8. ForkInv'
    <3>1. ForkOf(p)'
      <4>1. pc[p] \notin {"fork_kalloc", "fork_copyuvm", "fork_ready"} BY <1>3
      <4>2. np[p] = 0 BY Zenon, <1>3, <4>1, NoChild
      <4>3. pc'[p] \notin {"fork_kalloc", "fork_copyuvm", "fork_ready"} BY <2>3
      <4> QED BY Zenon, <1>3, <2>2, <4>2, <4>3, ForkNone
    <3>2. \A r \in Slot : r # p => ForkOf(r)'
      <4>1. state[p] # "EMBRYO" BY <1>3
      <4>2. \A r \in Slot : r # p => SameSlot(r) BY Zenon, <2>2, <2>5 DEF SameSlot
      <4>3. \A r \in Slot : r # p => pc'[r] = pc[r] /\ resume'[r] = resume[r] /\ np'[r] = np[r]
        BY Zenon, <2>2, <2>3
      <4> QED BY Zenon, <4>1, <4>2, <4>3, OtherForks
    <3>3. ASSUME NEW r \in Slot PROVE Owns(r)'
      <4>1. Owns(r) BY Zenon DEF Inv, ForkInv
      <4>2. state'[r] = "UNUSED" => state[r] = "UNUSED" BY <2>4, <2>5
      <4>3. state'[r] \in Born => state[r] \in Born BY <1>3, <2>5 DEF Born
      <4> QED BY Zenon, <2>2, <4>1, <4>2, <4>3, OwnsSame
    <3>4. \A r \in Slot : ForkOf(r)' BY Zenon, <3>1, <3>2
    <3> QED BY Zenon, <2>2, <3>3, <3>4, Distinct DEF ForkInv
  <2>9. FamilyInv'
    <3>0. \A r \in Slot : /\ state'[r] \in Live <=> state[r] \in Live
                          /\ state'[r] = "ZOMBIE" <=> state[r] = "ZOMBIE"
      BY <1>3, <2>4, <2>5 DEF Live
    <3>1. state'[initproc] \in Live /\ parent'[initproc] = 0
      BY Zenon, <2>2, <3>0, Zero DEF Inv, FamilyInv
    <3>2. \A r \in Slot : parent'[r] # r BY Zenon, <2>2 DEF Inv, FamilyInv
    <3>3. NoOrphan'
      <4> SUFFICES ASSUME NEW r \in Slot \ {initproc}, state'[r] \in Live \cup {"ZOMBIE"}
                   PROVE  parent[r] # 0 /\ state'[parent[r]] \in Live
        BY Zenon, <2>2 DEF NoOrphan
      <4>1. state[r] \in Live \cup {"ZOMBIE"} BY Zenon, <3>0
      <4>2. parent[r] # 0 /\ state[parent[r]] \in Live BY Zenon, <4>1 DEF Inv, FamilyInv, NoOrphan
      <4>3. parent[r] \in Slot BY Zenon, <4>2 DEF Inv, TypeOK
      <4> QED BY Zenon, <3>0, <4>2, <4>3
    <3>4. WaitsForAChild'
      <4> SUFFICES ASSUME NEW r \in Slot, state'[r] = "SLEEPING"
                   PROVE  /\ ~killed[r]
                          /\ \E s \in Slot : parent[s] = r
                          /\ \A s \in Slot : parent[s] = r => state'[s] # "ZOMBIE"
        BY Zenon, <2>2 DEF WaitsForAChild
      <4>1. CASE r = p
        <5>1. \A s \in Slot : parent[s] = p => state[s] # "ZOMBIE" BY Zenon, <1>2 DEF wait_sleep
        <5>2. \E s \in Slot : parent[s] = p BY Zenon, <1>6
        <5> QED BY Zenon, <1>6, <3>0, <4>1, <5>1, <5>2
      <4>2. CASE r # p
        <5>1. state[r] = "SLEEPING" BY Zenon, <2>5, <4>2
        <5>2. /\ ~killed[r] /\ \E s \in Slot : parent[s] = r
              /\ \A s \in Slot : parent[s] = r => state[s] # "ZOMBIE"
          BY Zenon, <5>1 DEF Inv, FamilyInv, WaitsForAChild
        <5> QED BY Zenon, <3>0, <5>2
      <4> QED BY Zenon, <4>1, <4>2
    <3> QED BY Zenon, <3>1, <3>2, <3>3, <3>4 DEF FamilyInv
  <2> QED BY Zenon, <2>3, <2>6, <2>7, <2>8, <2>9 DEF Inv
<1> QED BY Zenon, <1>5, <1>6

-----------------------------------------------------------------------------
(* The theorems.                                                           *)

\* userinit() leaves the table with one process, initproc.
LEMMA InitInv == ASSUME Init PROVE Inv
<1> USE DEF Init
<1>0. 0 \notin CPU /\ 0 \notin Slot /\ initproc \in Slot /\ initproc # 0 BY Zenon, Zero
<1>1. TypeOK
  <2>1. {"RUNNABLE", "UNUSED"} \subseteq State /\ "off" \in Label /\ "user" \in Interruptible
    BY DEF State, Label, Interruptible
  <2>2. state \in [Slot -> State] BY Zenon, <2>1
  <2>3. pid \in [Slot -> Nat] /\ nextpid \in Nat /\ scan \in [CPU -> Nat] OBVIOUS
  <2>4. kstack \in [Slot -> BOOLEAN] /\ pgdir \in [Slot -> BOOLEAN] /\ killed \in [Slot -> BOOLEAN] BY Zenon
  <2> QED BY Zenon, <2>1, <2>2, <2>3, <2>4 DEF TypeOK
<1>2. CpuInv BY Zenon, <1>0 DEF CpuInv, HasLock
<1>3. StateInv
  <2> SUFFICES ASSUME NEW p \in Slot PROVE StateOf(p) BY Zenon DEF StateInv
  <2>1. state[p] \in {"RUNNABLE", "UNUSED"} BY Zenon
  <2>2. pc[p] = "off" /\ context[p] = "forkret" /\ resume[p] = "user" BY Zenon
  <2> QED BY <2>1, <2>2 DEF StateOf
<1>4. ForkInv
  <2>1. ASSUME NEW p \in Slot PROVE ForkOf(p)
    <3>1. pc[p] = "off" /\ resume[p] = "user" /\ np[p] = 0 BY Zenon
    <3>2. ~Forking(p) BY <3>1 DEF Forking, ForkAt
    <3> QED BY Zenon, <3>1, <3>2 DEF ForkOf, Forking
  <2>2. ASSUME NEW p \in Slot PROVE Owns(p)
    <3>1. CASE p = initproc
      <4>1. state[p] = "RUNNABLE" /\ kstack[p] /\ pgdir[p] BY Zenon, <3>1
      <4> QED BY <4>1 DEF Owns
    <3>2. CASE p # initproc
      <4>1. state[p] = "UNUSED" /\ ~kstack[p] /\ ~pgdir[p] /\ parent[p] = 0 BY Zenon, <3>2
      <4> QED BY <4>1 DEF Owns, Born
    <3> QED BY Zenon, <3>1, <3>2
  <2> QED BY Zenon, <2>1, <2>2 DEF ForkInv
<1>5. FamilyInv
  <2>1. state[initproc] \in Live /\ parent[initproc] = 0 BY Zenon, <1>0 DEF Live
  <2>2. \A p \in Slot : parent[p] # p BY Zenon, <1>0
  <2>3. NoOrphan
    <3> SUFFICES ASSUME NEW p \in Slot \ {initproc} PROVE state[p] \notin Live \cup {"ZOMBIE"}
      BY Zenon DEF NoOrphan
    <3>1. state[p] = "UNUSED" BY Zenon
    <3> QED BY <3>1 DEF Live
  <2>4. WaitsForAChild
    <3> SUFFICES ASSUME NEW p \in Slot PROVE state[p] # "SLEEPING" BY Zenon DEF WaitsForAChild
    <3>1. state[p] \in {"RUNNABLE", "UNUSED"} BY Zenon
    <3> QED BY <3>1
  <2> QED BY Zenon, <2>1, <2>2, <2>3, <2>4 DEF FamilyInv
<1> QED BY Zenon, <1>1, <1>2, <1>3, <1>4, <1>5 DEF Inv

\* A step that changes nothing.
LEMMA SameInv == ASSUME Inv, UNCHANGED vars PROVE Inv'
<1> USE DEF vars
<1>1. StateInv' /\ ForkInv' /\ FamilyInv' BY Zenon, TableSame
<1>2. TypeOK' BY Zenon DEF Inv, TypeOK
<1>3. \A d \in CPU : HasLock(d)' <=> HasLock(d) BY Zenon DEF HasLock
<1>4. CpuInv' BY Zenon, <1>3 DEF Inv, CpuInv
<1> QED BY Zenon, <1>1, <1>2, <1>4 DEF Inv

\* The invariant is inductive.
LEMMA NextInv == ASSUME Inv, [Next]_vars PROVE Inv'
<1>1. CASE Halted BY Zenon, <1>1, SameInv DEF Halted
<1>2. ASSUME NEW c \in CPU, Kernel(c) PROVE Inv'
  BY Zenon, <1>2, NextAcquire, NextScheduler, NextSched, NextPlain, NextYielded, NextKalloc,
     NextCopyuvm, NextReady, NextExit, NextReap, NextWaitSleep DEF Kernel
<1>3. ASSUME NEW c \in CPU, User(c) PROVE Inv'
  BY Zenon, <1>3, NextPlain, NextFork, NextKill DEF User
<1>4. ASSUME NEW c \in CPU, yield(c) PROVE Inv' BY Zenon, <1>4, NextYield
<1>5. CASE UNCHANGED vars BY Zenon, <1>5, SameInv
<1> QED BY Zenon, <1>1, <1>2, <1>3, <1>4, <1>5 DEF Next

\* The table, the CPUs, fork()'s new processes and the families stay consistent, on any
\* number of CPUs and slots, however the CPUs interleave.
THEOREM ProcInvariance == Spec => []Inv
<1>1. Init => Inv BY InitInv
<1>2. Inv /\ [Next]_vars => Inv' BY NextInv
<1> QED BY <1>1, <1>2, PTL DEF Spec

\* The processes that are on a CPU are those the table says: no stack or page directory is
\* freed under a CPU, sched() finds the lock held, and only init's exit panics.
THEOREM RunSafe == Spec => []RunsSafely
<1>1. ASSUME Inv PROVE RunsSafely
  <2>0. \A c \in CPU : on[c] # 0 => on[c] \in Slot /\ pc[on[c]] # "off"
    <3> SUFFICES ASSUME NEW c \in CPU, on[c] # 0 PROVE on[c] \in Slot /\ pc[on[c]] # "off" BY Zenon
    <3>1. on[c] \in Slot BY Zenon, <1>1 DEF Inv, TypeOK
    <3> QED BY Zenon, <1>1, <3>1 DEF Inv, CpuInv
  <2>1. ASSUME lock = 0, NEW p \in Slot PROVE state[p] = "RUNNING" <=> \E c \in CPU : on[c] = p
    <3>1. pc[p] # "sched"
      <4> SUFFICES ASSUME pc[p] = "sched" PROVE FALSE BY Zenon
      <4>1. pc[p] # "off" /\ pc[p] \in Locking BY DEF Locking
      <4>2. PICK c \in CPU : on[c] = p BY Zenon, <1>1, <4>1 DEF Inv, CpuInv
      <4>3. lock = c BY Zenon, <1>1, <4>1, <4>2, Locked, Zero
      <4> QED BY Zenon, <2>1, <4>3, Zero
    <3>2. state[p] = "RUNNING" <=> pc[p] # "off" BY Zenon, <1>1, <3>1 DEF Inv, StateInv, StateOf
    <3>3. pc[p] # "off" <=> \E c \in CPU : on[c] = p BY Zenon, <1>1 DEF Inv, CpuInv
    <3> QED BY Zenon, <3>2, <3>3
  <2>2. ASSUME NEW c \in CPU, on[c] # 0
        PROVE  kstack[on[c]] /\ pgdir[on[c]] /\ state[on[c]] \notin {"UNUSED", "EMBRYO"}
    <3>1. PICK p \in Slot : p = on[c] /\ pc[p] # "off" BY Zenon, <2>0, <2>2
    <3>2. StateOf(p) /\ Owns(p) BY Zenon, <1>1 DEF Inv, StateInv, ForkInv
    <3>3. state[p] \in Born BY <3>1, <3>2 DEF StateOf, Born
    <3>4. state[p] \notin {"UNUSED", "EMBRYO"} BY <3>3 DEF Born
    <3> QED BY Zenon, <3>1, <3>2, <3>3, <3>4 DEF Owns
  <2>3. \A p \in Slot : state[p] = "UNUSED" => ~kstack[p] /\ ~pgdir[p] BY Zenon, <1>1 DEF Inv, ForkInv, Owns
  <2>4. /\ \A c, d \in CPU : on[c] = on[d] /\ on[c] # 0 => c = d
        /\ panicked => \E c \in CPU : on[c] = initproc /\ pc[initproc] = "exit"
    BY Zenon, <1>1 DEF Inv, CpuInv
  <2> QED BY Zenon, <2>1, <2>2, <2>3, <2>4 DEF RunsSafely
<1> QED BY <1>1, ProcInvariance, PTL

\* Every process but init has a living parent: exit() hands the children on in one step.
THEOREM Parents == Spec => []NoOrphan
<1>1. Inv => NoOrphan BY Zenon DEF Inv, FamilyInv
<1> QED BY <1>1, ProcInvariance, PTL

\* A process asleep in wait() is not killed and has a child, none of them a zombie: no
\* wakeup of exit() or kill() is lost.
THEOREM NoLostWakeup == Spec => []WaitsForAChild
<1>1. Inv => WaitsForAChild BY Zenon DEF Inv, FamilyInv
<1> QED BY <1>1, ProcInvariance, PTL

\* What LifeCycle says of one slot.
Life(p) ==
  /\ state[p] \in Live => /\ state'[p] \in Live \cup {"ZOMBIE"}
                         /\ pid'[p] = pid[p] /\ parent'[p] \in {parent[p], initproc}
  /\ state[p] = "ZOMBIE" => state'[p] \in {"ZOMBIE", "UNUSED"}

\* A slot that keeps its pid and its parent, and lives on or not as before.
LEMMA LivesOn ==
  ASSUME NEW p \in Slot, pid'[p] = pid[p], parent'[p] = parent[p],
         state'[p] = state[p] \/ (state[p] \in Live /\ state'[p] \in Live)
  PROVE  Life(p)
<1>1. CASE state'[p] = state[p] BY Zenon, <1>1 DEF Life
<1>2. CASE state[p] \in Live /\ state'[p] \in Live
  <2>1. state[p] # "ZOMBIE" BY <1>2 DEF Live
  <2> QED BY Zenon, <1>2, <2>1 DEF Life
<1> QED BY Zenon, <1>1, <1>2

\* A slot that is no process.
LEMMA NoLife == ASSUME NEW p \in Slot, state[p] \in {"UNUSED", "EMBRYO"} PROVE Life(p)
<1>1. state[p] \notin Live /\ state[p] # "ZOMBIE" BY DEF Live
<1> QED BY Zenon, <1>1 DEF Life

\* The steps inside the kernel keep a process in its life cycle ...
LEMMA LifeKernel ==
  ASSUME Inv, NEW c \in CPU, Kernel(c), NEW p \in Slot
  PROVE  Life(p)
<1> USE DEF table
<1>1. ASSUME sched_acquire(c) \/ sched(c) \/ forkret(c) \/ yielded(c) PROVE Life(p)
  <2>1. UNCHANGED table BY Zenon, <1>1 DEF sched_acquire, sched, forkret, yielded
  <2> QED BY Zenon, <2>1, LivesOn
<1>2. ASSUME scheduler(c) PROVE Life(p)
  <2> DEFINE ready == {q \in Slot : q >= scan[c] /\ state[q] = "RUNNABLE"}
  <2>0. pid' = pid /\ parent' = parent BY Zenon, <1>2 DEF scheduler
  <2>1. CASE ready = {}
    <3>1. state' = state BY Zenon, <1>2, <2>1 DEF scheduler
    <3> QED BY Zenon, <2>0, <3>1, LivesOn
  <2>2. CASE ready # {}
    <3>1. Min(ready) \in ready BY Zenon, <2>2, MinIn
    <3>2. PICK q \in Slot : q = Min(ready) /\ state[q] = "RUNNABLE" BY Zenon, <3>1
    <3>3. state' = [state EXCEPT ![q] = "RUNNING"] BY Zenon, <1>2, <2>2, <3>2 DEF scheduler
    <3>4. "RUNNABLE" \in Live /\ "RUNNING" \in Live BY DEF Live
    <3>5. state'[p] = state[p] \/ (state[p] \in Live /\ state'[p] \in Live)
      BY Zenon, <3>2, <3>3, <3>4 DEF Inv, TypeOK
    <3> QED BY Zenon, <2>0, <3>5, LivesOn
  <2> QED BY Zenon, <2>1, <2>2
<1>3. ASSUME NEW l \in {"fork_kalloc", "fork_copyuvm", "fork_ready"}, At(c, l), NEW v,
             state' = state \/ state' = [state EXCEPT ![np[on[c]]] = v],
             pid' = pid, \A r \in Slot : r # np[on[c]] => parent'[r] = parent[r]
      PROVE  Life(p)
  <2>1. l \in Interruptible BY DEF Interruptible
  <2>2. PICK q \in Slot : q = np[on[c]] /\ state[q] = "EMBRYO"
    <3>1. on[c] \in Slot /\ pc[on[c]] = l /\ state[on[c]] = "RUNNING" BY Zenon, <1>3, <2>1, Runs
    <3> QED BY Zenon, <3>1, NewProc
  <2>3. CASE p = q BY Zenon, <2>2, <2>3, NoLife
  <2>4. CASE p # q
    <3>1. state'[p] = state[p] BY Zenon, <1>3, <2>2, <2>4 DEF Inv, TypeOK
    <3> QED BY Zenon, <1>3, <2>2, <2>4, <3>1, LivesOn
  <2> QED BY Zenon, <2>3, <2>4
<1>4. ASSUME NEW ok \in BOOLEAN, fork_kalloc(c, ok) PROVE Life(p)
  <2>1. /\ At(c, "fork_kalloc") /\ pid' = pid /\ parent' = parent
        /\ state' = state \/ state' = [state EXCEPT ![np[on[c]]] = "UNUSED"]
    BY Zenon, <1>4 DEF fork_kalloc
  <2> QED BY Zenon, <1>3, <2>1
<1>5. ASSUME NEW ok \in BOOLEAN, fork_copyuvm(c, ok) PROVE Life(p)
  <2>1. /\ At(c, "fork_copyuvm") /\ pid' = pid
        /\ state' = state \/ state' = [state EXCEPT ![np[on[c]]] = "UNUSED"]
        /\ parent' = parent \/ parent' = [parent EXCEPT ![np[on[c]]] = on[c]]
    BY Zenon, <1>5 DEF fork_copyuvm
  <2>2. \A r \in Slot : r # np[on[c]] => parent'[r] = parent[r] BY Zenon, <2>1 DEF Inv, TypeOK
  <2> QED BY Zenon, <1>3, <2>1, <2>2
<1>6. ASSUME fork_ready(c) PROVE Life(p)
  <2>1. /\ At(c, "fork_ready") /\ pid' = pid /\ parent' = parent
        /\ state' = [state EXCEPT ![np[on[c]]] = "RUNNABLE"]
    BY Zenon, <1>6 DEF fork_ready
  <2> QED BY Zenon, <1>3, <2>1
<1>7. ASSUME exit(c) PROVE Life(p)
  <2>0. pid' = pid BY Zenon, <1>7 DEF exit
  <2>1. At(c, "exit") /\ "exit" \in Interruptible BY Zenon, <1>7 DEF exit, Interruptible
  <2>2. PICK q \in Slot : q = on[c] /\ state[q] = "RUNNING" BY Zenon, <2>1, Runs
  <2>3. CASE q = initproc
    <3>1. state' = state /\ parent' = parent BY Zenon, <1>7, <2>2, <2>3 DEF exit
    <3> QED BY Zenon, <2>0, <3>1, LivesOn
  <2>4. CASE q # initproc
    <3> DEFINE s1 == wakeup1(state, parent[q])
               s2 == IF \E r \in {r \in Slot : parent[r] = q} : state[r] = "ZOMBIE"
                     THEN wakeup1(s1, initproc) ELSE s1
    <3>1. parent' = Abandon(q) /\ state' = [s2 EXCEPT ![q] = "ZOMBIE"] BY Zenon, <1>7, <2>2, <2>4 DEF exit
    <3>2. DOMAIN s2 = Slot BY Zenon DEF wakeup1
    <3>3. s2[p] = state[p] \/ (state[p] = "SLEEPING" /\ s2[p] = "RUNNABLE")
      <4>1. s2 = s1 \/ s2 = wakeup1(s1, initproc) BY Zenon
      <4>2. s1[p] = state[p] \/ (state[p] = "SLEEPING" /\ s1[p] = "RUNNABLE") BY Wakes
      <4> HIDE DEF s1, s2
      <4>3. s2[p] = s1[p] \/ (s1[p] = "SLEEPING" /\ s2[p] = "RUNNABLE") BY <4>1, Wakes
      <4> QED BY Zenon, <4>2, <4>3
    <3> HIDE DEF s2
    <3>4. parent'[p] \in {parent[p], initproc} BY Zenon, <3>1 DEF Abandon
    <3>5. CASE p = q
      <4>1. state'[p] = "ZOMBIE" BY Zenon, <3>1, <3>2, <3>5
      <4>2. state[p] # "ZOMBIE" BY <2>2, <3>5
      <4> QED BY Zenon, <2>0, <3>4, <4>1, <4>2 DEF Life
    <3>6. CASE p # q
      <4>1. state'[p] = s2[p] BY Zenon, <3>1, <3>2, <3>6
      <4>2. /\ state[p] \in Live => state'[p] \in Live
            /\ state[p] = "ZOMBIE" => state'[p] = "ZOMBIE"
        BY <3>3, <4>1 DEF Live
      <4> QED BY Zenon, <2>0, <3>4, <4>2 DEF Life
    <3> QED BY Zenon, <3>5, <3>6
  <2> QED BY Zenon, <2>3, <2>4
<1>8. ASSUME reap(c) PROVE Life(p)
  <2> DEFINE zombies == {q \in Slot : parent[q] = on[c] /\ state[q] = "ZOMBIE"}
  <2>1. zombies # {} BY Zenon, <1>8 DEF reap
  <2>2. Min(zombies) \in zombies BY Zenon, <2>1, MinIn
  <2>3. PICK q \in Slot : q = Min(zombies) /\ state[q] = "ZOMBIE" BY Zenon, <2>2
  <2>4. /\ state' = [state EXCEPT ![q] = "UNUSED"] /\ pid' = [pid EXCEPT ![q] = 0]
        /\ parent' = [parent EXCEPT ![q] = 0]
    BY Zenon, <1>8, <2>3 DEF reap
  <2>5. CASE p = q
    <3>1. state[p] \notin Live BY <2>3, <2>5 DEF Live
    <3>2. state'[p] = "UNUSED" BY Zenon, <2>4, <2>5 DEF Inv, TypeOK
    <3> QED BY Zenon, <3>1, <3>2 DEF Life
  <2>6. CASE p # q
    <3>1. state'[p] = state[p] /\ pid'[p] = pid[p] /\ parent'[p] = parent[p]
      BY Zenon, <2>4, <2>6 DEF Inv, TypeOK
    <3> QED BY Zenon, <3>1, LivesOn
  <2> QED BY Zenon, <2>5, <2>6
<1>9. ASSUME wait_sleep(c) PROVE Life(p)
  <2>1. /\ At(c, "wait") /\ pid' = pid /\ parent' = parent
        /\ state' = state \/ state' = [state EXCEPT ![on[c]] = "SLEEPING"]
    BY Zenon, <1>9 DEF wait_sleep
  <2>2. on[c] \in Slot /\ state[on[c]] = "RUNNING"
    <3>1. "wait" \notin {"off", "sched"} OBVIOUS
    <3> QED BY Zenon, <2>1, <3>1, Here
  <2>3. "SLEEPING" \in Live /\ "RUNNING" \in Live BY DEF Live
  <2>4. state'[p] = state[p] \/ (state[p] \in Live /\ state'[p] \in Live)
    BY Zenon, <2>1, <2>2, <2>3 DEF Inv, TypeOK
  <2> QED BY Zenon, <2>1, <2>4, LivesOn
<1> QED BY Zenon, <1>1, <1>2, <1>4, <1>5, <1>6, <1>7, <1>8, <1>9 DEF Kernel

\* ... and so do those of a process in user mode, and the clock.
LEMMA LifeUser ==
  ASSUME Inv, NEW c \in CPU, User(c) \/ yield(c), NEW p \in Slot
  PROVE  Life(p)
<1> USE DEF table
<1>1. ASSUME trap_killed(c) \/ syscall(c) \/ wait(c) \/ sys_exit(c) PROVE Life(p)
  <2>1. UNCHANGED table BY Zenon, <1>1 DEF trap_killed, syscall, wait, sys_exit
  <2> QED BY Zenon, <2>1, LivesOn
<1>2. ASSUME trap_fault(c) PROVE Life(p)
  <2>1. state' = state /\ pid' = pid /\ parent' = parent BY Zenon, <1>2 DEF trap_fault
  <2> QED BY Zenon, <2>1, LivesOn
<1>3. ASSUME fork(c) PROVE Life(p)
  <2> DEFINE free == {q \in Slot : state[q] = "UNUSED"}
  <2>0. parent' = parent BY Zenon, <1>3 DEF fork
  <2>1. CASE free = {}
    <3>1. state' = state /\ pid' = pid BY Zenon, <1>3, <2>1 DEF fork
    <3> QED BY Zenon, <2>0, <3>1, LivesOn
  <2>2. CASE free # {}
    <3>1. Min(free) \in free BY Zenon, <2>2, MinIn
    <3>2. PICK q \in Slot : q = Min(free) /\ state[q] = "UNUSED" BY Zenon, <3>1
    <3>3. state' = [state EXCEPT ![q] = "EMBRYO"] /\ pid' = [pid EXCEPT ![q] = nextpid]
      BY Zenon, <1>3, <2>2, <3>2 DEF fork
    <3>4. CASE p = q BY Zenon, <3>2, <3>4, NoLife
    <3>5. CASE p # q
      <4>1. state'[p] = state[p] /\ pid'[p] = pid[p] BY Zenon, <3>3, <3>5 DEF Inv, TypeOK
      <4> QED BY Zenon, <2>0, <4>1, LivesOn
    <3> QED BY Zenon, <3>4, <3>5
  <2> QED BY Zenon, <2>1, <2>2
<1>4. ASSUME NEW n, kill(c, n) PROVE Life(p)
  <2> DEFINE match == {q \in Slot : pid[q] = n}
  <2>0. pid' = pid /\ parent' = parent BY Zenon, <1>4 DEF kill
  <2>1. CASE match = {}
    <3>1. state' = state BY Zenon, <1>4, <2>1 DEF kill
    <3> QED BY Zenon, <2>0, <3>1, LivesOn
  <2>2. CASE match # {}
    <3>1. Min(match) \in match BY Zenon, <2>2, MinIn
    <3>2. PICK q \in Slot : q = Min(match) BY Zenon, <3>1
    <3>3. state' = Unsleep(q) BY Zenon, <1>4, <2>2, <3>2 DEF kill
    <3>4. "SLEEPING" \in Live /\ "RUNNABLE" \in Live BY DEF Live
    <3>5. state'[p] = state[p] \/ (state[p] = "SLEEPING" /\ state'[p] = "RUNNABLE")
      BY Zenon, <3>3 DEF Inv, TypeOK, Unsleep
    <3> QED BY Zenon, <2>0, <3>4, <3>5, LivesOn
  <2> QED BY Zenon, <2>1, <2>2
<1>5. ASSUME yield(c) PROVE Life(p)
  <2>1. PICK l \in Interruptible : At(c, l) BY Zenon, <1>5 DEF yield
  <2>2. on[c] \in Slot /\ state[on[c]] = "RUNNING" BY Zenon, <2>1, Runs
  <2>3. state' = [state EXCEPT ![on[c]] = "RUNNABLE"] /\ pid' = pid /\ parent' = parent
    BY Zenon, <1>5 DEF yield
  <2>4. "RUNNABLE" \in Live /\ "RUNNING" \in Live BY DEF Live
  <2>5. state'[p] = state[p] \/ (state[p] \in Live /\ state'[p] \in Live)
    BY Zenon, <2>2, <2>3, <2>4 DEF Inv, TypeOK
  <2> QED BY Zenon, <2>3, <2>5, LivesOn
<1> QED BY Zenon, <1>1, <1>2, <1>3, <1>4, <1>5 DEF User

\* In every step a living process keeps its pid, and its parent unless init becomes it, and
\* lives on or becomes a zombie; a zombie stays one until its slot is free.
THEOREM Lives == Spec => LifeCycle
<1> DEFINE Step == \A p \in Slot : Life(p)
<1>1. ASSUME Inv, [Next]_vars PROVE [Step]_vars
  <2>1. ASSUME Next, ~UNCHANGED vars PROVE Step
    <3>1. PICK c \in CPU : Kernel(c) \/ User(c) \/ yield(c) BY Zenon, <2>1 DEF Next, Halted
    <3> QED BY Zenon, <1>1, <3>1, LifeKernel, LifeUser
  <2> QED BY Zenon, <1>1, <2>1
<1>2. [][Step]_vars => LifeCycle BY DEF LifeCycle, Life
<1> QED BY <1>1, <1>2, ProcInvariance, PTL DEF Spec
=============================================================================
