--------------------------- MODULE SpinlockProofs ---------------------------
(***************************************************************************)
(* Proofs about Spinlock, for every number of CPUs, threads and locks: the *)
(* inductive invariant Inv, and MutualExclusion and InterruptsRestored,    *)
(* which follow from it.                                                   *)
(***************************************************************************)
EXTENDS Spinlock, TLAPS, FiniteSetTheorems

-----------------------------------------------------------------------------
(* The invariant, and the steps of acquire().                              *)

TypeOK ==
  /\ locked \in [Lock -> BOOLEAN] /\ lkcpu \in [Lock -> CPU \cup {None}]
  /\ FL_IF \in [CPU -> BOOLEAN] /\ ncli \in [CPU -> Nat] /\ intena \in [CPU -> BOOLEAN]
  /\ cur \in [CPU -> Ctx] /\ frame \in [Ctx -> Frame]
  /\ interrupted \in [Ctx -> Frame \cup {None}] /\ saved \in [Thread -> BOOLEAN]
  /\ panicked = FALSE

\* A frame that may be below a handler of context k: it was interrupted with interrupts
\* on, so it holds no lock.
Below(k, i) ==
  /\ i.held = {} /\ i.pc \in {"run", "cli", "sti", "trapret"}
  /\ k \in CPU => i.lk = ptable /\ i.pc # "trapret"
  /\ i.pc = "cli" => i.eflags = TRUE

\* What holds of context k with frame f above the interrupted frame i.
FrameOK(k, f, i) ==
  /\ f.pc \in {"cli", "xchg", "setcpu"} => \A h \in f.held : h < f.lk
  /\ f.pc = "unlock" => f.lk \notin f.held
  /\ f.pc \in {"sti", "trapret"} => f.held = {} /\ i = None
  /\ f.pc = "forkret" => f.held = {ptable}
  /\ f.pc \in {"forkret", "new"} => i = None
  /\ f.pc \in {"forkret", "new", "switched", "trapret"} => k \in Thread
  /\ f.pc \in {"unlock", "popcli"} =>
       /\ f.then # "run" => f.held = {} /\ i = None
       /\ f.then = "trapret" => k \in Thread
       /\ k \in CPU /\ i = None => f.then = "sti"
  /\ k \in CPU /\ i = None => f.held \subseteq {ptable} /\ f.lk = ptable
  /\ i # None => Below(k, i)

FrameInv == \A k \in Ctx : FrameOK(k, frame[k], interrupted[k])

\* pushcli() has counted the lock that acquire() or release() is at work on.
Counted(f) == IF f.pc \in {"xchg", "setcpu", "unlock", "popcli"} THEN 1 ELSE 0

\* What holds of a CPU that executes context k: n, fl and e are ncli, FL_IF and intena.
CpuOK(k, f, i, n, fl, e) ==
  /\ f.pc \notin {"new", "switched"}
  /\ n = Cardinality(f.held) + Counted(f)
  /\ n > 0 => ~fl
  /\ f.pc \in {"run", "cli"} /\ f.held = {} => fl = (i = None)
  /\ f.pc = "cli" /\ f.held = {} => f.eflags = (i = None)
  /\ /\ n > 0 /\ f.pc # "forkret" /\ (k \in Thread \/ i # None)
     /\ ~(f.pc \in {"unlock", "popcli"} /\ f.then = "trapret")
     => e = (i = None)

CpuInv == \A c \in CPU :
  CpuOK(cur[c], frame[cur[c]], interrupted[cur[c]], ncli[c], FL_IF[c], intena[c])

\* Which contexts run, and where the others are.
RunInv ==
  /\ \A c \in CPU : cur[c] \in Thread \cup {c}
  /\ \A c, d \in CPU : cur[c] = cur[d] => c = d
  /\ \A c \in CPU : cur[c] # c =>
       frame[c].pc = "run" /\ frame[c].held = {} /\ interrupted[c] = None
  /\ \A t \in Thread : (\A c \in CPU : cur[c] # t) =>
       frame[t].pc \in {"new", "switched"} /\ frame[t].held = {}
  /\ \A t \in Thread : frame[t].pc = "switched" => saved[t] = (interrupted[t] = None)

\* Context k has lock l, or is taking or giving it up.
Owns(k, l) == \/ l \in frame[k].held
              \/ frame[k].pc \in {"setcpu", "unlock"} /\ frame[k].lk = l

LockInv ==
  /\ \A k \in Ctx, l \in Lock : Owns(k, l) => locked[l]
  /\ \A j, k \in Ctx, l \in Lock : Owns(j, l) /\ Owns(k, l) => j = k
  /\ \A c \in CPU, l \in Lock : l \in frame[cur[c]].held <=> lkcpu[l] = c

Inv == TypeOK /\ FrameInv /\ CpuInv /\ RunInv /\ LockInv

-----------------------------------------------------------------------------
\* Sets of locks are finite; how their size changes.
LEMMA LocksFinite ==
  ASSUME NEW S \in SUBSET Lock
  PROVE  /\ Cardinality(S) \in Nat
         /\ Cardinality(S) = 0 <=> S = {}
         /\ \A l \in Lock \ S : Cardinality(S \cup {l}) = Cardinality(S) + 1
         /\ \A l \in S : Cardinality(S \ {l}) = Cardinality(S) - 1
<1>1. IsFiniteSet(Lock) BY SMTT(30), FS_Interval, SpinAssumption DEF Lock
<1>2. IsFiniteSet(S) BY Zenon, <1>1, FS_Subset
<1>3. Cardinality(S) \in Nat BY Zenon, <1>2, FS_CardinalityType
<1>4. Cardinality(S) = 0 <=> S = {} BY Zenon, <1>2, FS_EmptySet
<1>5. \A l \in Lock \ S : Cardinality(S \cup {l}) = Cardinality(S) + 1
  BY Zenon, <1>2, FS_AddElement
<1>6. \A l \in S : Cardinality(S \ {l}) = Cardinality(S) - 1
  BY Zenon, <1>2, FS_RemoveElement
<1> QED BY Zenon, <1>3, <1>4, <1>5, <1>6

\* A lock's number by itself.
LEMMA OneLock == ptable \in Lock /\ Cardinality({ptable}) = 1 /\ Cardinality({}) = 0
<1>1. ptable \in Lock BY SMTT(30), SpinAssumption DEF Lock
<1>2. Cardinality({}) = 0 BY Zenon, FS_EmptySet
<1>3. Cardinality({ptable}) = 1 BY Zenon, FS_Singleton
<1> QED BY Zenon, <1>1, <1>2, <1>3

\* The inductive invariant implies both properties.
LEMMA InvSafe == Inv => MutualExclusion /\ InterruptsRestored
<1> SUFFICES ASSUME Inv PROVE MutualExclusion /\ InterruptsRestored BY Zenon
<1> USE DEF Inv
<1>1. \A j, k \in Ctx : j # k => frame[j].held \cap frame[k].held = {}
  <2> SUFFICES ASSUME NEW j \in Ctx, NEW k \in Ctx, NEW l \in frame[j].held, l \in frame[k].held
               PROVE  j = k BY Zenon
  <2>1. l \in Lock BY Zenon DEF TypeOK, Frame
  <2> QED BY Zenon, <2>1 DEF LockInv, Owns
<1>2. ASSUME NEW c \in CPU, frame[cur[c]].held # {}
      PROVE  ~FL_IF[c] /\ ncli[c] >= Cardinality(frame[cur[c]].held)
  <2> DEFINE f == frame[cur[c]]
  <2>1. f \in Frame /\ ncli[c] \in Nat BY Zenon DEF TypeOK
  <2>2. f.held \in SUBSET Lock BY Zenon, <2>1 DEF Frame
  <2>3. Cardinality(f.held) \in Nat /\ Cardinality(f.held) # 0 BY Zenon, <1>2, <2>2, LocksFinite
  <2>4. Counted(f) \in {0, 1} BY Zenon DEF Counted
  <2>5. ncli[c] = Cardinality(f.held) + Counted(f) /\ (ncli[c] > 0 => ~FL_IF[c])
    BY Zenon DEF CpuInv, CpuOK
  <2> HIDE DEF f
  <2>6. ncli[c] >= Cardinality(f.held) /\ ncli[c] > 0 BY SMTT(30), <2>1, <2>3, <2>4, <2>5
  <2> QED BY Zenon, <2>5, <2>6 DEF f
<1>3. MutualExclusion BY Zenon, <1>1, <1>2 DEF MutualExclusion, RunInv, TypeOK
<1>4. InterruptsRestored BY Zenon DEF InterruptsRestored, CpuInv, CpuOK
<1> QED BY Zenon, <1>3, <1>4

\* main() starts every CPU in its scheduler, with no lock taken.
LEMMA InitInv == Init => Inv
<1> SUFFICES ASSUME Init PROVE Inv BY Zenon
<1> USE DEF Init
<1>1. \A k \in Ctx : /\ frame[k] = FrameAt(IF k \in CPU THEN "sti" ELSE "new", {})
                     /\ interrupted[k] = None
  BY Zenon
<1>2. \A k \in Ctx : /\ frame[k] \in Frame /\ frame[k].held = {} /\ frame[k].lk = ptable
                     /\ frame[k].pc = IF k \in CPU THEN "sti" ELSE "new"
  BY Zenon, <1>1, OneLock DEF FrameAt, Frame, Label
<1>3. TypeOK BY Zenon, <1>1, <1>2 DEF TypeOK, Ctx
<1>4. FrameInv BY ZenonT(60), <1>1, <1>2, SpinAssumption DEF FrameInv, FrameOK, Ctx
<1>5. CpuInv
  <2> SUFFICES ASSUME NEW c \in CPU
               PROVE  CpuOK(cur[c], frame[cur[c]], interrupted[cur[c]], ncli[c], FL_IF[c], intena[c])
    BY Zenon DEF CpuInv
  <2>1. cur[c] = c /\ ncli[c] = 0 /\ c \in Ctx BY Zenon DEF Ctx
  <2>2. frame[c].pc = "sti" /\ frame[c].held = {} BY Zenon, <1>2, <2>1
  <2>3. Counted(frame[c]) = 0 BY Zenon, <2>2 DEF Counted
  <2>4. Cardinality(frame[c].held) = 0 BY Zenon, <2>2, OneLock
  <2> HIDE DEF Init
  <2> QED BY SMTT(30), <2>1, <2>2, <2>3, <2>4 DEF CpuOK
<1>6. RunInv BY Zenon, <1>1, <1>2, SpinAssumption DEF RunInv, Ctx
<1>7. LockInv BY ZenonT(60), <1>2, SpinAssumption DEF LockInv, Owns, Ctx
<1> QED BY Zenon, <1>3, <1>4, <1>5, <1>6, <1>7 DEF Inv

-----------------------------------------------------------------------------
(* A step that stays within the context its CPU runs.                      *)

\* The step gives that context the frame g above i, and the CPU n, fl and e for ncli, FL_IF
\* and intena.
Local(c, g, i, n, fl, e) ==
  /\ frame' = [k \in Ctx |-> frame'[k]] /\ interrupted' = [k \in Ctx |-> interrupted'[k]]
  /\ ncli' = [d \in CPU |-> ncli'[d]] /\ FL_IF' = [d \in CPU |-> FL_IF'[d]]
  /\ intena' = [d \in CPU |-> intena'[d]]
  /\ frame'[cur[c]] = g /\ interrupted'[cur[c]] = i
  /\ \A k \in Ctx : k # cur[c] => frame'[k] = frame[k] /\ interrupted'[k] = interrupted[k]
  /\ ncli'[c] = n /\ FL_IF'[c] = fl /\ intena'[c] = e
  /\ \A d \in CPU : d # c => ncli'[d] = ncli[d] /\ FL_IF'[d] = FL_IF[d] /\ intena'[d] = intena[d]
  /\ cur' = cur /\ saved' = saved

\* These are right for them, and the rest of the state keeps its type.
Good(c, g, i, n, fl, e) ==
  /\ g \in Frame /\ i \in Frame \cup {None} /\ n \in Nat /\ fl \in BOOLEAN /\ e \in BOOLEAN
  /\ FrameOK(cur[c], g, i) /\ CpuOK(cur[c], g, i, n, fl, e)
  /\ locked' \in [Lock -> BOOLEAN] /\ lkcpu' \in [Lock -> CPU \cup {None}] /\ panicked' = FALSE

\* It is enough to look at that CPU and that context.
LEMMA LocalStep ==
  ASSUME Inv, NEW c \in CPU, NEW g, NEW i, NEW n, NEW fl, NEW e,
         Local(c, g, i, n, fl, e), Good(c, g, i, n, fl, e)
  PROVE  TypeOK' /\ FrameInv' /\ CpuInv' /\ RunInv'
<1> USE DEF Inv, Good
<1>1. cur[c] \in Ctx /\ \A d \in CPU : cur[d] \in Ctx /\ (d # c => cur[d] # cur[c])
  BY Zenon DEF TypeOK, RunInv
<1>2. TypeOK'
  <2>1. \A k \in Ctx : frame'[k] \in Frame /\ interrupted'[k] \in Frame \cup {None}
    BY Zenon, <1>1 DEF TypeOK, Local
  <2>2. \A d \in CPU : ncli'[d] \in Nat /\ FL_IF'[d] \in BOOLEAN /\ intena'[d] \in BOOLEAN
    BY Zenon DEF TypeOK, Local
  <2> QED BY Zenon, <2>1, <2>2 DEF TypeOK, Local
<1>3. /\ frame'[cur[c]] = g /\ interrupted'[cur[c]] = i
      /\ \A k \in Ctx : k # cur[c] => frame'[k] = frame[k] /\ interrupted'[k] = interrupted[k]
  BY Zenon DEF Local
<1>4. FrameInv' BY Zenon, <1>3 DEF FrameInv
<1>5. CpuInv'
  <2> SUFFICES ASSUME NEW d \in CPU
               PROVE  CpuOK(cur[d], frame'[cur[d]], interrupted'[cur[d]], ncli'[d], FL_IF'[d], intena'[d])
    BY Zenon DEF CpuInv, Local
  <2>1. CASE d = c
    <3>1. ncli'[d] = n /\ FL_IF'[d] = fl /\ intena'[d] = e BY Zenon, <2>1 DEF Local, TypeOK
    <3> QED BY Zenon, <1>3, <2>1, <3>1
  <2>2. CASE d # c
    <3>1. ncli'[d] = ncli[d] /\ FL_IF'[d] = FL_IF[d] /\ intena'[d] = intena[d]
      BY Zenon, <2>2 DEF Local, TypeOK
    <3> QED BY Zenon, <1>1, <1>3, <2>2, <3>1 DEF CpuInv
  <2> QED BY Zenon, <2>1, <2>2
<1>6. g.pc \notin {"new", "switched"} BY Zenon DEF CpuOK
<1>7. RunInv'
  <2>1. cur' = cur /\ saved' = saved BY Zenon DEF Local
  <2>2. ASSUME NEW d \in CPU, cur[d] # d
        PROVE  frame'[d].pc = "run" /\ frame'[d].held = {} /\ interrupted'[d] = None
    <3>1. d \in Ctx /\ d # cur[c] BY SMTT(30), <2>2, SpinAssumption DEF RunInv, Ctx
    <3> QED BY SMTT(30), <1>3, <2>2, <3>1 DEF RunInv
  <2>3. ASSUME NEW t \in Thread, \A d \in CPU : cur[d] # t
        PROVE  frame'[t].pc \in {"new", "switched"} /\ frame'[t].held = {}
    <3>1. t \in Ctx /\ t # cur[c] BY Zenon, <2>3 DEF Ctx
    <3> QED BY Zenon, <1>3, <2>3, <3>1 DEF RunInv
  <2>4. ASSUME NEW t \in Thread, frame'[t].pc = "switched"
        PROVE  saved[t] = (interrupted'[t] = None)
    <3>1. t \in Ctx /\ t # cur[c] BY Zenon, <1>3, <1>6, <2>4 DEF Ctx
    <3> QED BY Zenon, <1>3, <2>4, <3>1 DEF RunInv
  <2> QED BY SMTT(30), <2>1, <2>2, <2>3, <2>4 DEF RunInv
<1> QED BY Zenon, <1>2, <1>4, <1>5, <1>7

\* Such a step that neither takes nor gives up a lock.
LEMMA SameLocks ==
  ASSUME Inv, NEW c \in CPU, NEW g, NEW i, NEW n, NEW fl, NEW e, Local(c, g, i, n, fl, e),
         UNCHANGED lockstate, g.held = frame[cur[c]].held,
         frame[cur[c]].pc \notin {"setcpu", "unlock"}, g.pc \notin {"setcpu", "unlock"}
  PROVE  LockInv'
<1> USE DEF Inv, lockstate
<1>1. cur' = cur /\ \A k \in Ctx : frame'[k] = IF k = cur[c] THEN g ELSE frame[k] BY Zenon DEF Local
<1>2. \A k \in Ctx, l \in Lock : Owns(k, l)' <=> Owns(k, l) BY Zenon, <1>1 DEF Owns
<1>3. \A d \in CPU : cur[d] \in Ctx /\ frame'[cur[d]].held = frame[cur[d]].held
  BY Zenon, <1>1 DEF TypeOK
<1> QED BY Zenon, <1>1, <1>2, <1>3 DEF LockInv

\* What is known of the context that CPU c runs.
Facts(c) ==
  /\ cur[c] \in Ctx /\ cur[c] \in Thread \cup {c}
  /\ frame[cur[c]] \in Frame /\ interrupted[cur[c]] \in Frame \cup {None}
  /\ frame[cur[c]].pc \in Label /\ frame[cur[c]].lk \in Lock /\ frame[cur[c]].eflags \in BOOLEAN
  /\ frame[cur[c]].then \in {"run", "sti", "trapret"} /\ frame[cur[c]].held \in SUBSET Lock
  /\ FL_IF[c] \in BOOLEAN /\ ncli[c] \in Nat /\ intena[c] \in BOOLEAN
  /\ FrameOK(cur[c], frame[cur[c]], interrupted[cur[c]])
  /\ CpuOK(cur[c], frame[cur[c]], interrupted[cur[c]], ncli[c], FL_IF[c], intena[c])
  /\ \A l \in Lock : l \in frame[cur[c]].held <=> lkcpu[l] = c
  /\ \A l \in frame[cur[c]].held : locked[l]

\* They follow from the invariant.
LEMMA InvFacts == ASSUME Inv, NEW c \in CPU PROVE Facts(c)
<1>1. cur[c] \in Ctx /\ frame[cur[c]] \in Frame BY Zenon DEF Inv, TypeOK
<1>2. /\ frame[cur[c]].pc \in Label /\ frame[cur[c]].lk \in Lock /\ frame[cur[c]].eflags \in BOOLEAN
      /\ frame[cur[c]].then \in {"run", "sti", "trapret"} /\ frame[cur[c]].held \in SUBSET Lock
  BY Zenon, <1>1 DEF Frame
<1> QED BY ZenonT(60), <1>1, <1>2 DEF Facts, Inv, TypeOK, FrameInv, CpuInv, RunInv, LockInv, Owns

\* A record with the fields of a frame.
Rec(p, l, e, t, h) == [pc |-> p, lk |-> l, eflags |-> e, then |-> t, held |-> h]

\* Its type and its fields.
LEMMA RecType ==
  ASSUME NEW p \in Label, NEW l \in Lock, NEW e \in BOOLEAN, NEW t \in {"run", "sti", "trapret"},
         NEW h \in SUBSET Lock
  PROVE  /\ Rec(p, l, e, t, h) \in Frame
         /\ Rec(p, l, e, t, h).pc = p /\ Rec(p, l, e, t, h).lk = l /\ Rec(p, l, e, t, h).eflags = e
         /\ Rec(p, l, e, t, h).then = t /\ Rec(p, l, e, t, h).held = h
BY Zenon DEF Frame, Rec

\* A frame that differs from f in its pc.
LEMMA RecGoto ==
  ASSUME NEW f \in Frame, NEW p \in Label
  PROVE  LET g == Rec(p, f.lk, f.eflags, f.then, f.held)
         IN  g \in Frame /\ g.pc = p /\ g.lk = f.lk /\ g.then = f.then /\ g.held = f.held
<1>1. /\ f.lk \in Lock /\ f.eflags \in BOOLEAN /\ f.then \in {"run", "sti", "trapret"}
      /\ f.held \in SUBSET Lock
  BY Zenon DEF Frame
<1> QED BY SMTT(30), <1>1, RecType

\* ncli counts the locks held and the one on its way.
LEMMA NcliCount ==
  ASSUME NEW c, Facts(c)
  PROVE  /\ Cardinality(frame[cur[c]].held) \in Nat
         /\ Cardinality(frame[cur[c]].held) = 0 <=> frame[cur[c]].held = {}
         /\ ncli[c] = Cardinality(frame[cur[c]].held) + Counted(frame[cur[c]])
         /\ ncli[c] > 0 => ~FL_IF[c]
<1>1. frame[cur[c]].held \in SUBSET Lock BY Zenon DEF Facts
<1>2. /\ Cardinality(frame[cur[c]].held) \in Nat
      /\ Cardinality(frame[cur[c]].held) = 0 <=> frame[cur[c]].held = {}
  BY Zenon, <1>1, LocksFinite
<1> QED BY Zenon, <1>2 DEF Facts, CpuOK

\* The lock on its way is not among those held.
LEMMA NewLock ==
  ASSUME NEW c, Facts(c), frame[cur[c]].pc \in {"cli", "xchg", "setcpu"}
  PROVE  frame[cur[c]].lk \in Lock /\ frame[cur[c]].lk \notin frame[cur[c]].held
<1> DEFINE f == frame[cur[c]]
<1>1. (\A h \in f.held : h < f.lk) /\ f.lk \in Lock BY Zenon DEF Facts, FrameOK
<1>2. f.lk \in Nat BY SMTT(30), <1>1, SpinAssumption DEF Lock
<1> HIDE DEF f
<1>3. f.lk \in Lock /\ f.lk \notin f.held BY SMTT(30), <1>1, <1>2
<1> QED BY Zenon, <1>3 DEF f

-----------------------------------------------------------------------------
(* The actions one by one.                                                 *)

\* acquire() reads eflags.
LEMMA AcquireStep == ASSUME Inv, NEW c \in CPU, NEW l \in Lock, acquire(c, l) PROVE Inv'
<1> DEFINE k == cur[c]  f == frame[k]  i == interrupted[k]
           g == Rec("cli", l, FL_IF[c], f.then, f.held)
<1>1. Facts(c) /\ f.pc = "run" BY Zenon, InvFacts DEF acquire, At
<1>2. frame'[k] = g /\ frame' = [j \in Ctx |-> frame'[j]] /\ \A j \in Ctx : j # k => frame'[j] = frame[j]
  BY Zenon, <1>1 DEF acquire, Rec, Facts, Inv, TypeOK, Frame
<1>3. UNCHANGED <<locked, lkcpu, FL_IF, ncli, intena, cur, interrupted, saved, panicked>>
  BY Zenon DEF acquire, lockstate, cpustate, stacks
<1>4. Local(c, g, i, ncli[c], FL_IF[c], intena[c])
  BY Zenon, <1>2, <1>3 DEF Local, Inv, TypeOK
<1>5. (\A h \in f.held : h < l) /\ (k \in CPU /\ i = None => l = ptable)
  <2>1. \A h \in f.held : h < l BY Zenon DEF acquire
  <2>2. k \in CPU /\ i = None => l = ptable BY ZenonT(60) DEF acquire
  <2> QED BY Zenon, <2>1, <2>2
<1>6. /\ g \in Frame /\ g.pc = "cli" /\ g.lk = l /\ g.eflags = FL_IF[c] /\ g.then = f.then
      /\ g.held = f.held
  BY SMTT(30), <1>1, RecType DEF Facts, Label
<1> HIDE DEF g
<1>7. FrameOK(k, g, i) BY Zenon, <1>1, <1>5, <1>6 DEF FrameOK, Facts
<1>8. CpuOK(k, g, i, ncli[c], FL_IF[c], intena[c]) BY Zenon, <1>1, <1>6 DEF CpuOK, Counted, Facts
<1>9. LockInv' BY Zenon, <1>1, <1>3, <1>4, <1>6, SameLocks DEF lockstate
<1>10. Good(c, g, i, ncli[c], FL_IF[c], intena[c])
  BY Zenon, <1>1, <1>3, <1>6, <1>7, <1>8 DEF Good, Facts, Inv, TypeOK
<1> QED BY Zenon, <1>4, <1>9, <1>10, LocalStep DEF Inv

\* pushcli() turns interrupts off; the lock is not one this CPU holds.
LEMMA PushcliStep == ASSUME Inv, NEW c \in CPU, pushcli(c) PROVE Inv'
<1> DEFINE k == cur[c]  f == frame[k]  i == interrupted[k]
           g == Rec("xchg", f.lk, FALSE, f.then, f.held)
           n == ncli[c] + 1
           e == IF ncli[c] = 0 THEN f.eflags ELSE intena[c]
<1>1. Facts(c) /\ f.pc = "cli" BY Zenon, InvFacts DEF pushcli, At
<1>2. frame'[k] = g /\ frame' = [j \in Ctx |-> frame'[j]] /\ \A j \in Ctx : j # k => frame'[j] = frame[j]
  BY Zenon, <1>1 DEF pushcli, Rec, Facts, Inv, TypeOK, Frame
<1>3. UNCHANGED <<locked, lkcpu, cur, interrupted, saved>> BY Zenon DEF pushcli, lockstate, stacks
<1>4. /\ ncli' = [ncli EXCEPT ![c] = n] /\ FL_IF' = [FL_IF EXCEPT ![c] = FALSE]
      /\ intena' = [intena EXCEPT ![c] = e] /\ panicked' = holding(c, f.lk)
  BY Zenon DEF pushcli
<1>5. Local(c, g, i, n, FALSE, e) BY Zenon, <1>2, <1>3, <1>4 DEF Local, Inv, TypeOK
<1>6. /\ g \in Frame /\ g.pc = "xchg" /\ g.lk = f.lk /\ g.eflags = FALSE /\ g.then = f.then
      /\ g.held = f.held
  <2>1. "xchg" \in Label /\ FALSE \in BOOLEAN BY Zenon DEF Label
  <2>2. g \in Frame BY Zenon, <1>1, <2>1 DEF Facts, Frame, Rec
  <2> QED BY Zenon, <2>2 DEF Rec
<1> HIDE DEF g
<1>7. f.lk \notin f.held BY Zenon, <1>1, NewLock
<1>8. ~panicked' BY Zenon, <1>1, <1>4, <1>7 DEF holding, Facts
<1>9. FrameOK(k, g, i) BY ZenonT(60), <1>1, <1>6 DEF FrameOK, Facts
<1>10. CpuOK(k, g, i, n, FALSE, e)
  <2>1. /\ Cardinality(f.held) \in Nat /\ (Cardinality(f.held) = 0 => f.held = {})
        /\ ncli[c] = Cardinality(f.held) + Counted(f)
    BY Zenon, <1>1, NcliCount
  <2>2. Counted(f) = 0 /\ Counted(g) = 1 BY Zenon, <1>1, <1>6 DEF Counted
  <2>3. ncli[c] = Cardinality(f.held) BY SMTT(30), <2>1, <2>2
  <2>4. ncli[c] = 0 => f.eflags = (i = None) BY Zenon, <1>1, <2>1, <2>3 DEF Facts, CpuOK
  <2>5. ncli[c] > 0 /\ (k \in Thread \/ i # None) => intena[c] = (i = None)
    BY Zenon, <1>1 DEF Facts, CpuOK
  <2>6. k \in Thread \/ i # None => e = (i = None) BY SMTT(30), <2>1, <2>3, <2>4, <2>5
  <2> HIDE DEF e
  <2> QED BY Zenon, <1>6, <2>1, <2>2, <2>3, <2>6 DEF CpuOK
<1>11. LockInv' BY ZenonT(60), <1>1, <1>3, <1>5, <1>6, SameLocks DEF lockstate
<1>12. panicked' = FALSE /\ n \in Nat /\ e \in BOOLEAN
  BY SMTT(30), <1>1, <1>4, <1>8 DEF Facts, holding, Inv, TypeOK
<1> HIDE DEF n, e
<1>13. Good(c, g, i, n, FALSE, e)
  BY ZenonT(60), <1>1, <1>3, <1>6, <1>9, <1>10, <1>12 DEF Good, Facts, Inv, TypeOK
<1> QED BY Zenon, <1>5, <1>11, <1>13, LocalStep DEF Inv

\* xchg() takes the lock if nobody has it.
LEMMA XchgStep == ASSUME Inv, NEW c \in CPU, xchg(c) PROVE Inv'
<1> DEFINE k == cur[c]  f == frame[k]  i == interrupted[k]
           p == IF locked[f.lk] THEN "xchg" ELSE "setcpu"
           g == Rec(p, f.lk, f.eflags, f.then, f.held)
<1>1. Facts(c) /\ f.pc = "xchg" BY Zenon, InvFacts DEF xchg, At
<1>2. frame'[k] = g /\ frame' = [j \in Ctx |-> frame'[j]] /\ \A j \in Ctx : j # k => frame'[j] = frame[j]
  BY ZenonT(60), <1>1 DEF xchg, Goto, Rec, Facts, Inv, TypeOK, Frame
<1>3. /\ UNCHANGED <<lkcpu, FL_IF, ncli, intena, cur, interrupted, saved, panicked>>
      /\ locked' = [locked EXCEPT ![f.lk] = TRUE]
  BY Zenon DEF xchg, cpustate, stacks
<1>4. Local(c, g, i, ncli[c], FL_IF[c], intena[c]) BY Zenon, <1>2, <1>3 DEF Local, Inv, TypeOK
<1>5. g \in Frame /\ g.pc = p /\ g.lk = f.lk /\ g.then = f.then /\ g.held = f.held
  <2>1. f \in Frame BY Zenon, <1>1 DEF Facts
  <2>2. p \in Label BY ZenonT(60) DEF Label
  <2> HIDE DEF f, p
  <2> QED BY Zenon, <2>1, <2>2, RecGoto
<1> HIDE DEF g
<1>6. FrameOK(k, g, i) BY Zenon, <1>1, <1>5 DEF FrameOK, Facts
<1>7. CpuOK(k, g, i, ncli[c], FL_IF[c], intena[c]) BY ZenonT(60), <1>1, <1>5 DEF CpuOK, Counted, Facts
<1>8. LockInv'
  <2>1. \A j \in Ctx, l \in Lock : Owns(j, l)' <=> Owns(j, l) \/ (j = k /\ l = f.lk /\ ~locked[l])
    BY SMTT(30), <1>1, <1>2, <1>5 DEF Owns
  <2>2. f.lk \in Lock /\ locked'[f.lk] /\ \A l \in Lock : locked[l] => locked'[l]
    BY Zenon, <1>1, <1>3 DEF Inv, TypeOK, Facts
  <2>3. \A d \in CPU : frame'[cur[d]].held = frame[cur[d]].held
    BY Zenon, <1>2, <1>5 DEF Inv, TypeOK
  <2>4. (\A j \in Ctx, l \in Lock : Owns(j, l) => locked[l])' BY Zenon, <2>1, <2>2 DEF Inv, LockInv
  <2>5. (\A j, m \in Ctx, l \in Lock : Owns(j, l) /\ Owns(m, l) => j = m)'
    BY Zenon, <2>1 DEF Inv, LockInv
  <2>6. (\A d \in CPU, l \in Lock : l \in frame[cur[d]].held <=> lkcpu[l] = d)'
    BY Zenon, <1>3, <2>3 DEF Inv, LockInv
  <2> QED BY Zenon, <2>4, <2>5, <2>6 DEF LockInv
<1>9. Good(c, g, i, ncli[c], FL_IF[c], intena[c])
  BY Zenon, <1>1, <1>3, <1>5, <1>6, <1>7 DEF Good, Facts, Inv, TypeOK
<1> QED BY Zenon, <1>4, <1>8, <1>9, LocalStep DEF Inv

\* acquire() records the CPU; the lock is held.
LEMMA SetcpuStep == ASSUME Inv, NEW c \in CPU, setcpu(c) PROVE Inv'
<1> DEFINE k == cur[c]  f == frame[k]  i == interrupted[k]
           g == Rec("run", ptable, FALSE, "run", f.held \cup {f.lk})
<1>1. Facts(c) /\ f.pc = "setcpu" BY Zenon, InvFacts DEF setcpu, At
<1>2. frame'[k] = g /\ frame' = [j \in Ctx |-> frame'[j]] /\ \A j \in Ctx : j # k => frame'[j] = frame[j]
  BY ZenonT(60), <1>1 DEF setcpu, Return, FrameAt, Rec, Facts, Inv, TypeOK
<1>3. /\ UNCHANGED <<locked, FL_IF, ncli, intena, cur, interrupted, saved, panicked>>
      /\ lkcpu' = [lkcpu EXCEPT ![f.lk] = c]
  BY Zenon DEF setcpu, cpustate, stacks
<1>4. Local(c, g, i, ncli[c], FL_IF[c], intena[c]) BY Zenon, <1>2, <1>3 DEF Local, Inv, TypeOK
<1>5. g \in Frame /\ g.pc = "run" /\ g.lk = ptable /\ g.held = f.held \cup {f.lk}
  <2>1. "run" \in Label /\ FALSE \in BOOLEAN /\ f.held \cup {f.lk} \in SUBSET Lock
    BY Zenon, <1>1 DEF Facts, Label
  <2>2. g \in Frame BY Zenon, <2>1, OneLock DEF Frame, Rec
  <2> QED BY Zenon, <2>2 DEF Rec
<1> HIDE DEF g
<1>6. FrameOK(k, g, i) BY Zenon, <1>1, <1>5 DEF FrameOK, Facts
<1>7. f.lk \in Lock /\ f.lk \notin f.held BY Zenon, <1>1, NewLock
<1>8. CpuOK(k, g, i, ncli[c], FL_IF[c], intena[c])
  <2>1. f.held \in SUBSET Lock BY Zenon, <1>1 DEF Facts
  <2>2. Cardinality(g.held) = Cardinality(f.held) + 1 /\ Cardinality(f.held) \in Nat
    BY ZenonT(60), <1>5, <1>7, <2>1, LocksFinite
  <2>3. Counted(f) = 1 /\ Counted(g) = 0 BY Zenon, <1>1, <1>5 DEF Counted
  <2>4. g.held # {} BY Zenon, <1>5
  <2>5. ncli[c] = Cardinality(f.held) + Counted(f) BY Zenon, <1>1, NcliCount
  <2> HIDE DEF f
  <2>6. ncli[c] = Cardinality(g.held) + Counted(g) BY SMTT(30), <2>2, <2>3, <2>5
  <2> QED BY Zenon, <1>1, <1>5, <2>4, <2>6 DEF CpuOK, Facts, f
<1>9. LockInv'
  <2>1. \A j \in Ctx, l \in Lock : Owns(j, l)' <=> Owns(j, l) BY ZenonT(60), <1>1, <1>2, <1>5 DEF Owns
  <2>2. Owns(k, f.lk) /\ k \in Ctx BY Zenon, <1>1 DEF Owns, Facts
  <2>3. ASSUME NEW d \in CPU, NEW l \in Lock PROVE l \in frame'[cur[d]].held <=> lkcpu'[l] = d
    <3>1. CASE d = c
      <4>1. lkcpu'[l] = IF l = f.lk THEN c ELSE lkcpu[l] BY Zenon, <1>3 DEF Inv, TypeOK
      <4> QED BY Zenon, <1>1, <1>2, <1>5, <3>1, <4>1 DEF Facts
    <3>2. CASE d # c
      <4>1. cur[d] \in Ctx /\ cur[d] # k BY Zenon, <3>2 DEF Inv, TypeOK, RunInv
      <4>2. frame'[cur[d]] = frame[cur[d]] BY Zenon, <1>2, <4>1
      <4>3. f.lk \notin frame[cur[d]].held BY SMTT(30), <1>7, <2>2, <4>1 DEF Inv, LockInv, Owns
      <4>4. CASE l = f.lk BY ZenonT(60), <1>3, <1>7, <3>2, <4>2, <4>3, <4>4 DEF Inv, TypeOK
      <4>5. CASE l # f.lk BY SMTT(30), <1>3, <4>2, <4>5 DEF Inv, TypeOK, LockInv
      <4> QED BY Zenon, <4>4, <4>5
    <3> QED BY Zenon, <3>1, <3>2
  <2>4. cur' = cur /\ locked' = locked BY ZenonT(60), <1>3
  <2> QED BY Zenon, <2>1, <2>3, <2>4 DEF Inv, LockInv
<1>10. Good(c, g, i, ncli[c], FL_IF[c], intena[c])
  BY Zenon, <1>1, <1>3, <1>5, <1>6, <1>8 DEF Good, Facts, Inv, TypeOK
<1> QED BY Zenon, <1>4, <1>9, <1>10, LocalStep DEF Inv

-----------------------------------------------------------------------------
(* The steps that release locks, take and leave interrupts, and switch.    *)

\* release() up to lk->cpu = 0, and the same in forkret().
LEMMA ReleaseThenStep ==
  ASSUME Inv, NEW c \in CPU, NEW l \in frame[cur[c]].held, NEW th \in {"run", "sti", "trapret"},
         frame[cur[c]].pc \in {"run", "forkret"}, frame[cur[c]].pc = "forkret" => th = "trapret",
         th # "run" => frame[cur[c]].held = {l} /\ interrupted[cur[c]] = None,
         th = "trapret" => cur[c] \in Thread,
         cur[c] \in CPU /\ interrupted[cur[c]] = None => th = "sti",
         ReleaseThen(c, l, th)
  PROVE  Inv'
<1> DEFINE k == cur[c]  f == frame[k]  i == interrupted[k]
           g == Rec("unlock", l, f.eflags, th, f.held \ {l})
<1>1. Facts(c) /\ l \in Lock BY Zenon, InvFacts DEF Facts
<1>2. holding(c, l) BY ZenonT(60), <1>1 DEF holding, Facts
<1>3. frame'[k] = g /\ frame' = [j \in Ctx |-> frame'[j]] /\ \A j \in Ctx : j # k => frame'[j] = frame[j]
  BY ZenonT(60), <1>1 DEF ReleaseThen, Rec, Facts, Inv, TypeOK, Frame
<1>4. /\ UNCHANGED <<locked, FL_IF, ncli, intena, cur, interrupted, saved, panicked>>
      /\ lkcpu' = [lkcpu EXCEPT ![l] = None]
  BY Zenon, <1>2 DEF ReleaseThen, cpustate, stacks
<1>5. Local(c, g, i, ncli[c], FL_IF[c], intena[c]) BY ZenonT(60), <1>3, <1>4 DEF Local, Inv, TypeOK
<1>6. g \in Frame /\ g.pc = "unlock" /\ g.lk = l /\ g.then = th /\ g.held = f.held \ {l}
  <2>1. f.eflags \in BOOLEAN /\ f.held \ {l} \in SUBSET Lock BY Zenon, <1>1 DEF Facts
  <2>2. "unlock" \in Label BY Zenon DEF Label
  <2> QED BY SMTT(30), <1>1, <2>1, <2>2, RecType
<1> HIDE DEF g
<1>7. FrameOK(k, g, i) BY Zenon, <1>1, <1>6 DEF FrameOK, Facts
<1>8. CpuOK(k, g, i, ncli[c], FL_IF[c], intena[c])
  <2>1. f.held \in SUBSET Lock BY ZenonT(60), <1>1 DEF Facts
  <2>2. Cardinality(g.held) = Cardinality(f.held) - 1 /\ Cardinality(f.held) \in Nat
    BY SMTT(30), <1>6, <2>1, LocksFinite
  <2>3. Counted(f) = 0 /\ Counted(g) = 1 BY Zenon, <1>6 DEF Counted
  <2>4. ncli[c] = Cardinality(f.held) + Counted(f) BY ZenonT(60), <1>1, NcliCount
  <2> HIDE DEF f
  <2>5. ncli[c] = Cardinality(g.held) + Counted(g) BY SMTT(30), <2>2, <2>3, <2>4
  <2> QED BY Zenon, <1>1, <1>6, <2>5 DEF CpuOK, Facts, f
<1>9. LockInv'
  <2>1. \A j \in Ctx, m \in Lock : Owns(j, m)' <=> Owns(j, m) BY ZenonT(60), <1>3, <1>6 DEF Owns
  <2>2. lkcpu[l] = c BY ZenonT(60), <1>1 DEF Facts
  <2>3. ASSUME NEW d \in CPU, NEW m \in Lock PROVE m \in frame'[cur[d]].held <=> lkcpu'[m] = d
    <3>1. d # None BY Zenon, SpinAssumption
    <3>2. lkcpu'[m] = IF m = l THEN None ELSE lkcpu[m] BY ZenonT(60), <1>4 DEF Inv, TypeOK
    <3>3. CASE d = c BY ZenonT(60), <1>1, <1>3, <1>6, <3>1, <3>2, <3>3 DEF Facts
    <3>4. CASE d # c
      <4>1. cur[d] \in Ctx /\ cur[d] # k BY SMTT(30), <3>4 DEF Inv, TypeOK, RunInv
      <4>2. frame'[cur[d]] = frame[cur[d]] BY Zenon, <1>3, <4>1
      <4> QED BY SMTT(30), <2>2, <3>1, <3>2, <3>4, <4>2 DEF Inv, LockInv
    <3> QED BY Zenon, <3>3, <3>4
  <2>4. cur' = cur /\ locked' = locked BY Zenon, <1>4
  <2> QED BY ZenonT(60), <2>1, <2>3, <2>4 DEF Inv, LockInv
<1>10. Good(c, g, i, ncli[c], FL_IF[c], intena[c])
  BY ZenonT(60), <1>1, <1>4, <1>6, <1>7, <1>8 DEF Good, Facts, Inv, TypeOK
<1> QED BY ZenonT(60), <1>5, <1>9, <1>10, LocalStep DEF Inv

\* release() of a held lock; the scheduler goes on to sti().
LEMMA ReleaseStep == ASSUME Inv, NEW c \in CPU, NEW l \in Lock, release(c, l) PROVE Inv'
<1> DEFINE k == cur[c]
           th == IF k \in CPU /\ interrupted[k] = None THEN "sti" ELSE "run"
<1>1. Facts(c) BY Zenon, InvFacts
<1>2. frame[k].pc = "run" /\ l \in frame[k].held /\ ReleaseThen(c, l, th) BY ZenonT(60) DEF release, At
<1>3. th = "sti" => frame[k].held = {l} /\ interrupted[k] = None
  BY ZenonT(60), <1>1, <1>2 DEF Facts, FrameOK
<1>4. th \in {"run", "sti"} /\ (k \in CPU /\ interrupted[k] = None => th = "sti") BY Zenon
<1> HIDE DEF th
<1> QED BY Zenon, <1>2, <1>3, <1>4, ReleaseThenStep

\* forkret() releases the lock that scheduler() took.
LEMMA ForkretStep == ASSUME Inv, NEW c \in CPU, forkret(c) PROVE Inv'
<1> DEFINE f == frame[cur[c]]
<1>1. f.pc = "forkret" /\ ReleaseThen(c, ptable, "trapret") BY ZenonT(60) DEF forkret, At
<1>2. f.held = {ptable} /\ interrupted[cur[c]] = None /\ cur[c] \in Thread
  BY Zenon, <1>1, InvFacts DEF Facts, FrameOK
<1>3. cur[c] \notin CPU BY Zenon, <1>2, SpinAssumption
<1> QED BY Zenon, <1>1, <1>2, <1>3, ReleaseThenStep

\* lk->locked = 0.
LEMMA UnlockStep == ASSUME Inv, NEW c \in CPU, unlock(c) PROVE Inv'
<1> DEFINE k == cur[c]  f == frame[k]  i == interrupted[k]
           g == Rec("popcli", f.lk, f.eflags, f.then, f.held)
<1>1. Facts(c) /\ f.pc = "unlock" BY Zenon, InvFacts DEF unlock, At
<1>2. frame'[k] = g /\ frame' = [j \in Ctx |-> frame'[j]] /\ \A j \in Ctx : j # k => frame'[j] = frame[j]
  BY ZenonT(60), <1>1 DEF unlock, Goto, Rec, Facts, Inv, TypeOK, Frame
<1>3. /\ UNCHANGED <<lkcpu, FL_IF, ncli, intena, cur, interrupted, saved, panicked>>
      /\ locked' = [locked EXCEPT ![f.lk] = FALSE]
  BY Zenon DEF unlock, cpustate, stacks
<1>4. Local(c, g, i, ncli[c], FL_IF[c], intena[c]) BY Zenon, <1>2, <1>3 DEF Local, Inv, TypeOK
<1>5. g \in Frame /\ g.pc = "popcli" /\ g.lk = f.lk /\ g.then = f.then /\ g.held = f.held
  BY Zenon, <1>1, RecGoto DEF Facts, Label
<1> HIDE DEF g
<1>6. FrameOK(k, g, i) BY ZenonT(60), <1>1, <1>5 DEF FrameOK, Facts
<1>7. CpuOK(k, g, i, ncli[c], FL_IF[c], intena[c]) BY ZenonT(60), <1>1, <1>5 DEF CpuOK, Counted, Facts
<1>8. LockInv'
  <2>1. f.lk \in Lock /\ f.lk \notin f.held BY ZenonT(60), <1>1 DEF Facts, FrameOK
  <2>2. \A j \in Ctx : Owns(j, f.lk) => j = k
    <3>1. k \in Ctx /\ Owns(k, f.lk) BY Zenon, <1>1 DEF Facts, Owns
    <3>2. \A j, m \in Ctx, l \in Lock : Owns(j, l) /\ Owns(m, l) => j = m BY Zenon DEF Inv, LockInv
    <3> QED BY Zenon, <2>1, <3>1, <3>2
  <2>3. \A j \in Ctx, l \in Lock : Owns(j, l)' => Owns(j, l) /\ l # f.lk
    <3>1. \A j \in Ctx, l \in Lock : Owns(j, l)' => Owns(j, l) BY Zenon, <1>2, <1>5 DEF Owns
    <3>2. \A j \in Ctx, l \in Lock : j = k /\ Owns(j, l)' => l # f.lk
      BY Zenon, <1>2, <1>5, <2>1 DEF Owns
    <3> QED BY Zenon, <2>2, <3>1, <3>2
  <2>4. \A l \in Lock : l # f.lk => locked'[l] = locked[l] BY Zenon, <1>3 DEF Inv, TypeOK
  <2>5. (\A j \in Ctx, l \in Lock : Owns(j, l) => locked[l])' BY SMTT(30), <2>3, <2>4 DEF Inv, LockInv
  <2>6. (\A j, m \in Ctx, l \in Lock : Owns(j, l) /\ Owns(m, l) => j = m)'
    BY Zenon, <2>3 DEF Inv, LockInv
  <2>7. \A d \in CPU : frame'[cur[d]].held = frame[cur[d]].held BY Zenon, <1>2, <1>5 DEF Inv, TypeOK
  <2>8. (\A d \in CPU, l \in Lock : l \in frame[cur[d]].held <=> lkcpu[l] = d)'
    BY Zenon, <1>3, <2>7 DEF Inv, LockInv
  <2> QED BY ZenonT(60), <2>5, <2>6, <2>8 DEF LockInv
<1>9. locked' \in [Lock -> BOOLEAN] BY ZenonT(60), <1>3 DEF Inv, TypeOK
<1>10. Good(c, g, i, ncli[c], FL_IF[c], intena[c])
  BY ZenonT(60), <1>1, <1>3, <1>5, <1>6, <1>7, <1>9 DEF Good, Facts, Inv, TypeOK
<1> QED BY ZenonT(60), <1>4, <1>8, <1>10, LocalStep DEF Inv

\* popcli() turns interrupts on again when it is the outermost one.
LEMMA PopcliStep == ASSUME Inv, NEW c \in CPU, popcli(c) PROVE Inv'
<1> DEFINE k == cur[c]  f == frame[k]  i == interrupted[k]
           g == Rec(f.then, ptable, FALSE, "run", f.held)
           n == ncli[c] - 1
           fl == FL_IF[c] \/ (ncli[c] = 1 /\ intena[c])
<1>1. Facts(c) /\ f.pc = "popcli" BY Zenon, InvFacts DEF popcli, At
<1>2. frame'[k] = g /\ frame' = [j \in Ctx |-> frame'[j]] /\ \A j \in Ctx : j # k => frame'[j] = frame[j]
  BY ZenonT(60), <1>1 DEF popcli, Return, FrameAt, Rec, Facts, Inv, TypeOK
<1>3. UNCHANGED <<locked, lkcpu, intena, cur, interrupted, saved>> BY Zenon DEF popcli, lockstate, stacks
<1>4. /\ ncli' = [ncli EXCEPT ![c] = n] /\ FL_IF' = [FL_IF EXCEPT ![c] = fl]
      /\ panicked' = (FL_IF[c] \/ ncli[c] = 0)
  BY Zenon DEF popcli, Ncli, Outermost
<1>5. Local(c, g, i, n, fl, intena[c]) BY ZenonT(60), <1>2, <1>3, <1>4 DEF Local, Inv, TypeOK
<1>6. g \in Frame /\ g.pc = f.then /\ g.lk = ptable /\ g.held = f.held
  <2>1. f.then \in Label /\ FALSE \in BOOLEAN BY ZenonT(60), <1>1 DEF Facts, Label
  <2>2. g \in Frame BY Zenon, <1>1, <2>1, OneLock DEF Facts, Frame, Rec
  <2> QED BY Zenon, <2>2 DEF Rec
<1> HIDE DEF g
<1>7. /\ Cardinality(f.held) \in Nat /\ (Cardinality(f.held) = 0 <=> f.held = {})
      /\ ncli[c] = Cardinality(f.held) + 1 /\ ~FL_IF[c]
  <2>1. Cardinality(f.held) \in Nat /\ (Cardinality(f.held) = 0 <=> f.held = {})
    BY Zenon, <1>1, NcliCount
  <2>2. Counted(f) = 1 BY Zenon, <1>1 DEF Counted
  <2>3. ncli[c] = Cardinality(f.held) + 1 /\ (ncli[c] > 0 => ~FL_IF[c])
    BY Zenon, <1>1, <2>2, NcliCount
  <2> HIDE DEF f
  <2> QED BY SMTT(30), <2>1, <2>3
<1>8. FrameOK(k, g, i) BY ZenonT(60), <1>1, <1>6 DEF FrameOK, Facts
<1>9. CpuOK(k, g, i, n, fl, intena[c])
  <2>1. Counted(g) = 0 BY Zenon, <1>1, <1>6 DEF Counted, Facts
  <2>2. n = Cardinality(g.held) BY SMTT(30), <1>6, <1>7
  <2>3. n > 0 => fl = FALSE BY SMTT(30), <1>7
  <2>4. f.then # "trapret" /\ (k \in Thread \/ i # None) => intena[c] = (i = None)
    <3>1. ncli[c] > 0 BY SMTT(30), <1>7
    <3> QED BY Zenon, <1>1, <3>1 DEF Facts, CpuOK
  <2>5. f.then = "run" => k \in Thread \/ i # None BY Zenon, <1>1 DEF Facts, FrameOK, Ctx
  <2>6. f.then = "run" /\ f.held = {} => fl = (i = None)
    <3>1. f.held = {} => ncli[c] = 1 BY SMTT(30), <1>7
    <3> QED BY ZenonT(60), <1>7, <2>4, <2>5, <3>1
  <2>7. n > 0 => f.then = "run"
    <3>1. n > 0 => f.held # {} BY SMTT(30), <1>7
    <3> QED BY Zenon, <1>1, <3>1 DEF Facts, FrameOK
  <2>8. n > 0 /\ (k \in Thread \/ i # None) => intena[c] = (i = None) BY ZenonT(60), <2>4, <2>7
  <2>9. g.pc \in {"run", "sti", "trapret"} BY Zenon, <1>1, <1>6 DEF Facts
  <2>10. Cardinality(g.held) \in Nat BY Zenon, <1>6, <1>7
  <2> HIDE DEF n, fl
  <2> QED BY SMTT(30), <1>6, <2>1, <2>2, <2>3, <2>6, <2>8, <2>9, <2>10 DEF CpuOK
<1>10. LockInv'
  <2>1. g.pc \notin {"setcpu", "unlock"} BY ZenonT(60), <1>1, <1>6 DEF Facts
  <2> QED BY Zenon, <1>1, <1>3, <1>5, <1>6, <2>1, SameLocks DEF lockstate
<1>11. panicked' = FALSE /\ n \in Nat /\ fl \in BOOLEAN BY SMTT(30), <1>1, <1>4, <1>7 DEF Facts
<1> HIDE DEF n, fl
<1>12. Good(c, g, i, n, fl, intena[c])
  BY Zenon, <1>1, <1>3, <1>6, <1>8, <1>9, <1>11 DEF Good, Facts, Inv, TypeOK
<1> QED BY Zenon, <1>5, <1>10, <1>12, LocalStep DEF Inv

\* An interrupt comes while interrupts are on, so the code it finds holds no lock.
LEMMA InterruptStep == ASSUME Inv, NEW c \in CPU, interrupt(c) PROVE Inv'
<1> DEFINE k == cur[c]  f == frame[k]
           g == Rec("run", ptable, FALSE, "run", {})
<1>1. /\ Facts(c) /\ f.pc \in {"run", "cli", "sti", "trapret"} /\ FL_IF[c] /\ interrupted[k] = None
  BY Zenon, InvFacts DEF interrupt
<1>2. frame'[k] = g /\ frame' = [j \in Ctx |-> frame'[j]] /\ \A j \in Ctx : j # k => frame'[j] = frame[j]
  BY ZenonT(60), <1>1 DEF interrupt, Return, FrameAt, Rec, Facts, Inv, TypeOK
<1>3. /\ UNCHANGED <<locked, lkcpu, ncli, intena, cur, saved, panicked>>
      /\ FL_IF' = [FL_IF EXCEPT ![c] = FALSE] /\ interrupted' = [interrupted EXCEPT ![k] = f]
  BY Zenon DEF interrupt, lockstate
<1>4. Local(c, g, f, ncli[c], FALSE, intena[c])
  <2>1. /\ interrupted' = [j \in Ctx |-> interrupted'[j]] /\ interrupted'[k] = f
        /\ \A j \in Ctx : j # k => interrupted'[j] = interrupted[j]
    BY ZenonT(60), <1>1, <1>3 DEF Inv, TypeOK, Facts
  <2>2. /\ FL_IF' = [d \in CPU |-> FL_IF'[d]] /\ FL_IF'[c] = FALSE
        /\ \A d \in CPU : d # c => FL_IF'[d] = FL_IF[d]
    BY Zenon, <1>3 DEF Inv, TypeOK
  <2> QED BY ZenonT(60), <1>2, <1>3, <2>1, <2>2 DEF Local, Inv, TypeOK
<1>5. g \in Frame /\ g.pc = "run" /\ g.lk = ptable /\ g.held = {}
  <2>1. "run" \in Label /\ FALSE \in BOOLEAN BY Zenon DEF Label
  <2>2. g \in Frame BY Zenon, <2>1, OneLock DEF Frame, Rec
  <2> QED BY Zenon, <2>2 DEF Rec
<1> HIDE DEF g
<1>6. f.held = {} /\ ncli[c] = 0
  <2>1. /\ Cardinality(f.held) \in Nat /\ (Cardinality(f.held) = 0 => f.held = {})
        /\ ncli[c] = Cardinality(f.held) + Counted(f) /\ ~(ncli[c] > 0)
    BY Zenon, <1>1, NcliCount
  <2>2. Counted(f) = 0 BY Zenon, <1>1 DEF Counted
  <2> HIDE DEF f
  <2> QED BY SMTT(30), <2>1, <2>2
<1>7. f # None BY Zenon, <1>1, SpinAssumption DEF Facts
<1>8. Below(k, f)
  <2>1. f.pc = "cli" => f.eflags = TRUE BY Zenon, <1>1, <1>6 DEF Facts, CpuOK
  <2>2. k \in CPU => f.lk = ptable /\ f.pc # "trapret" BY Zenon, <1>1, SpinAssumption DEF Facts, FrameOK
  <2> QED BY Zenon, <1>1, <1>6, <2>1, <2>2 DEF Below
<1>9. FrameOK(k, g, f) BY Zenon, <1>5, <1>7, <1>8 DEF FrameOK
<1>10. CpuOK(k, g, f, ncli[c], FALSE, intena[c])
  <2>1. Counted(g) = 0 BY Zenon, <1>5 DEF Counted
  <2> QED BY SMTT(30), <1>5, <1>6, <1>7, <2>1, OneLock DEF CpuOK
<1>11. LockInv' BY Zenon, <1>1, <1>3, <1>4, <1>5, <1>6, SameLocks DEF lockstate
<1>12. Good(c, g, f, ncli[c], FALSE, intena[c])
  BY Zenon, <1>1, <1>3, <1>5, <1>9, <1>10 DEF Good, Facts, Inv, TypeOK
<1> QED BY ZenonT(60), <1>4, <1>11, <1>12, LocalStep DEF Inv

\* iret goes back to the interrupted frame.
LEMMA IretStep == ASSUME Inv, NEW c \in CPU, iret(c) PROVE Inv'
<1> DEFINE k == cur[c]  f == frame[k]  i == interrupted[k]
<1>1. Facts(c) /\ f.pc = "run" /\ f.held = {} /\ i # None BY Zenon, InvFacts DEF iret, At
<1>2. /\ UNCHANGED <<locked, lkcpu, ncli, intena, cur, saved, panicked>>
      /\ FL_IF' = [FL_IF EXCEPT ![c] = TRUE] /\ interrupted' = [interrupted EXCEPT ![k] = None]
      /\ frame' = [frame EXCEPT ![k] = i]
  BY Zenon DEF iret, lockstate
<1>3. Local(c, i, None, ncli[c], TRUE, intena[c]) BY Zenon, <1>1, <1>2 DEF Local, Inv, TypeOK, Facts
<1>4. i \in Frame /\ Below(k, i) BY Zenon, <1>1 DEF Facts, FrameOK
<1>5. i.held = {} /\ i.pc \in {"run", "cli", "sti", "trapret"} BY Zenon, <1>4 DEF Below
<1>6. ncli[c] = 0
  <2>1. Counted(f) = 0 BY Zenon, <1>1 DEF Counted
  <2>2. ncli[c] = 0 + 0 BY Zenon, <1>1, <2>1, OneLock, NcliCount
  <2> QED BY SMTT(30), <2>2
<1>7. FrameOK(k, i, None) BY Zenon, <1>1, <1>4 DEF FrameOK, Below, Facts, Ctx
<1>8. CpuOK(k, i, None, ncli[c], TRUE, intena[c])
  <2>1. Counted(i) = 0 BY Zenon, <1>5 DEF Counted
  <2>2. i.pc = "cli" => i.eflags = TRUE BY Zenon, <1>4 DEF Below
  <2>3. i.pc = "cli" => i.eflags = (None = None) BY Zenon, <2>2
  <2>4. ncli[c] = Cardinality(i.held) + Counted(i) /\ ~(ncli[c] > 0)
    BY SMTT(30), <1>5, <1>6, <2>1, OneLock
  <2> QED BY Zenon, <1>5, <2>3, <2>4 DEF CpuOK
<1>9. LockInv' BY Zenon, <1>1, <1>2, <1>3, <1>5, SameLocks DEF lockstate
<1>10. Good(c, i, None, ncli[c], TRUE, intena[c])
  BY Zenon, <1>1, <1>2, <1>4, <1>7, <1>8 DEF Good, Facts, Inv, TypeOK
<1> QED BY ZenonT(60), <1>3, <1>9, <1>10, LocalStep DEF Inv

\* sti() at the top of scheduler()'s loop, and the iret of trapret.
LEMMA StiStep == ASSUME Inv, NEW c \in CPU, sti(c) \/ trapret(c) PROVE Inv'
<1> DEFINE k == cur[c]  f == frame[k]
           g == Rec("run", f.lk, f.eflags, f.then, f.held)
<1>1. Facts(c) /\ f.pc \in {"sti", "trapret"} BY Zenon, InvFacts DEF sti, trapret, At
<1>2. frame'[k] = g /\ frame' = [j \in Ctx |-> frame'[j]] /\ \A j \in Ctx : j # k => frame'[j] = frame[j]
  <2>1. frame' = [frame EXCEPT ![k].pc = "run"] BY Zenon DEF sti, trapret, Goto
  <2>2. k \in Ctx /\ f \in Frame /\ frame \in [Ctx -> Frame] BY Zenon, <1>1 DEF Facts, Inv, TypeOK
  <2> QED BY Zenon, <2>1, <2>2 DEF Rec, Frame
<1>3. /\ UNCHANGED <<locked, lkcpu, ncli, intena, cur, interrupted, saved, panicked>>
      /\ FL_IF' = [FL_IF EXCEPT ![c] = TRUE]
  BY Zenon DEF sti, trapret, lockstate, stacks
<1>4. f.held = {} /\ interrupted[k] = None BY Zenon, <1>1 DEF Facts, FrameOK
<1>5. Local(c, g, None, ncli[c], TRUE, intena[c]) BY Zenon, <1>2, <1>3, <1>4 DEF Local, Inv, TypeOK
<1>6. g \in Frame /\ g.pc = "run" /\ g.lk = f.lk /\ g.held = {}
  <2>1. f \in Frame /\ "run" \in Label BY Zenon, <1>1 DEF Facts, Label
  <2> QED BY Zenon, <1>4, <2>1, RecGoto
<1> HIDE DEF g
<1>7. ncli[c] = 0
  <2>1. Counted(f) = 0 BY Zenon, <1>1 DEF Counted
  <2>2. ncli[c] = 0 + 0 BY Zenon, <1>1, <1>4, <2>1, OneLock, NcliCount
  <2> QED BY SMTT(30), <2>2
<1>8. FrameOK(k, g, None) BY ZenonT(60), <1>1, <1>4, <1>6 DEF FrameOK, Facts
<1>9. CpuOK(k, g, None, ncli[c], TRUE, intena[c])
  <2>1. Counted(g) = 0 BY Zenon, <1>6 DEF Counted
  <2> QED BY SMTT(30), <1>6, <1>7, <2>1, OneLock DEF CpuOK
<1>10. LockInv' BY Zenon, <1>1, <1>3, <1>4, <1>5, <1>6, SameLocks DEF lockstate
<1>11. Good(c, g, None, ncli[c], TRUE, intena[c])
  BY Zenon, <1>1, <1>3, <1>6, <1>8, <1>9 DEF Good, Facts, Inv, TypeOK
<1> QED BY ZenonT(60), <1>5, <1>10, <1>11, LocalStep DEF Inv

-----------------------------------------------------------------------------
(* The switches.                                                           *)

\* scheduler() hands ptable.lock and the CPU to t, which runs nowhere.
LEMMA SchedulerStep == ASSUME Inv, NEW c \in CPU, NEW t \in Thread, scheduler(c, t) PROVE Inv'
<1> DEFINE f == frame[c]  h == frame[t]
           pc == IF h.pc = "new" THEN "forkret" ELSE "run"
           fc == Rec(f.pc, f.lk, f.eflags, f.then, {})
           ft == Rec(pc, h.lk, h.eflags, h.then, {ptable})
<1>1. /\ f.pc = "run" /\ cur[c] = c /\ interrupted[c] = None /\ f.held = {ptable}
      /\ h.pc \in {"new", "switched"} /\ ~panicked
  BY Zenon DEF scheduler, At
<1>2. c \in Ctx /\ t \in Ctx /\ c # t BY Zenon, SpinAssumption DEF Ctx
<1>3. f \in Frame /\ h \in Frame BY Zenon, <1>2 DEF Inv, TypeOK
<1>4. /\ frame' = [j \in Ctx |-> frame'[j]] /\ frame'[c] = fc /\ frame'[t] = ft
      /\ \A j \in Ctx : j \notin {c, t} => frame'[j] = frame[j]
  BY Zenon, <1>1, <1>2, <1>3 DEF scheduler, Rec, Inv, TypeOK, Frame
<1>5. /\ UNCHANGED <<locked, lkcpu, FL_IF, ncli, interrupted, panicked>>
      /\ cur' = [cur EXCEPT ![c] = t] /\ saved' = [saved EXCEPT ![t] = FALSE]
      /\ intena' = [intena EXCEPT ![c] = IntenaFor(c, t)]
  BY ZenonT(60) DEF scheduler, lockstate
<1>6. fc \in Frame /\ fc.pc = "run" /\ fc.lk = f.lk /\ fc.held = {}
  <2>1. f.pc \in Label /\ f.lk \in Lock /\ f.eflags \in BOOLEAN /\ f.then \in {"run", "sti", "trapret"}
    BY ZenonT(60), <1>3 DEF Frame
  <2> HIDE DEF f
  <2>2. fc \in Frame /\ fc.pc = f.pc /\ fc.lk = f.lk /\ fc.held = {} BY Zenon, <2>1 DEF Rec, Frame
  <2> QED BY Zenon, <1>1, <2>2
<1>7. ft \in Frame /\ ft.pc = pc /\ ft.held = {ptable}
  <2>1. h.lk \in Lock /\ h.eflags \in BOOLEAN /\ h.then \in {"run", "sti", "trapret"}
    BY Zenon, <1>3 DEF Frame
  <2>2. pc \in Label BY ZenonT(60) DEF Label
  <2> HIDE DEF pc
  <2> QED BY SMTT(30), <2>1, <2>2, OneLock, RecType
<1> HIDE DEF fc, ft
<1>8. (\A d \in CPU : cur[d] # t) /\ h.held = {}
  BY ZenonT(60), <1>1 DEF Inv, CpuInv, CpuOK, RunInv
<1>9. \A d \in CPU : d # c => cur'[d] = cur[d] /\ cur[d] \in Ctx /\ cur[d] \notin {c, t}
  BY SMTT(30), <1>1, <1>5, <1>8 DEF Inv, TypeOK, RunInv
<1>10. cur'[c] = t BY Zenon, <1>5 DEF Inv, TypeOK
<1>11. IntenaFor(c, t) \in BOOLEAN BY Zenon DEF IntenaFor, Inv, TypeOK
<1>12. TypeOK'
  <2>1. \A j \in Ctx : frame'[j] \in Frame BY Zenon, <1>4, <1>6, <1>7 DEF Inv, TypeOK
  <2>2. frame' \in [Ctx -> Frame] BY Zenon, <1>4, <2>1
  <2>3. cur' \in [CPU -> Ctx] BY Zenon, <1>2, <1>5 DEF Inv, TypeOK
  <2>4. saved' \in [Thread -> BOOLEAN] /\ intena' \in [CPU -> BOOLEAN]
    BY Zenon, <1>5, <1>11 DEF Inv, TypeOK
  <2> QED BY Zenon, <1>5, <2>2, <2>3, <2>4 DEF Inv, TypeOK
<1>13. FrameOK(c, f, None) /\ FrameOK(t, h, interrupted[t])
  BY Zenon, <1>1, <1>2 DEF Inv, FrameInv
<1>14. FrameInv'
  <2>1. FrameOK(c, fc, None) BY Zenon, <1>1, <1>6, <1>13 DEF FrameOK
  <2>2. FrameOK(t, ft, interrupted[t]) BY Zenon, <1>1, <1>2, <1>7, <1>13, SpinAssumption DEF FrameOK
  <2> QED BY Zenon, <1>1, <1>4, <1>5, <2>1, <2>2 DEF Inv, FrameInv
<1>15. CpuInv'
  <2>1. CpuOK(c, f, None, ncli[c], FL_IF[c], intena[c]) BY Zenon, <1>1 DEF Inv, CpuInv
  <2>2. ncli[c] = 1
    <3>1. Counted(f) = 0 BY Zenon, <1>1 DEF Counted
    <3> QED BY SMTT(30), <1>1, <2>1, <3>1, OneLock DEF CpuOK
  <2>3. ~FL_IF[c] BY SMTT(30), <2>1, <2>2 DEF CpuOK
  <2>4. h.pc = "switched" => IntenaFor(c, t) = (interrupted[t] = None)
    BY Zenon DEF IntenaFor, Inv, RunInv
  <2>5. pc # "forkret" => h.pc = "switched" BY Zenon, <1>1
  <2>6. CpuOK(t, ft, interrupted[t], ncli[c], FL_IF[c], IntenaFor(c, t))
    <3>1. Counted(ft) = 0 BY Zenon, <1>7 DEF Counted
    <3>2. ft.pc \in {"run", "forkret"} /\ ft.held # {} BY Zenon, <1>7
    <3>3. ft.pc # "forkret" => IntenaFor(c, t) = (interrupted[t] = None) BY Zenon, <1>7, <2>4, <2>5
    <3>4. ncli[c] = Cardinality(ft.held) + Counted(ft) BY SMTT(30), <1>7, <2>2, <3>1, OneLock
    <3> QED BY Zenon, <2>3, <3>2, <3>3, <3>4 DEF CpuOK
  <2>7. intena'[c] = IntenaFor(c, t) /\ \A d \in CPU : d # c => intena'[d] = intena[d]
    BY ZenonT(60), <1>5 DEF Inv, TypeOK
  <2> SUFFICES ASSUME NEW d \in CPU
               PROVE  CpuOK(cur'[d], frame'[cur'[d]], interrupted[cur'[d]], ncli[d], FL_IF[d], intena'[d])
    BY Zenon, <1>5 DEF CpuInv
  <2>8. CASE d = c BY ZenonT(60), <1>4, <1>10, <2>6, <2>7, <2>8
  <2>9. CASE d # c
    <3>1. cur'[d] = cur[d] /\ frame'[cur[d]] = frame[cur[d]] /\ intena'[d] = intena[d]
      BY Zenon, <1>4, <1>9, <2>7, <2>9
    <3> QED BY Zenon, <3>1 DEF Inv, CpuInv
  <2> QED BY Zenon, <2>8, <2>9
<1>16. RunInv'
  <2>1. \A d \in CPU : cur'[d] \in Thread \cup {d} BY Zenon, <1>9, <1>10 DEF Inv, RunInv
  <2>2. \A d, e \in CPU : cur'[d] = cur'[e] => d = e BY SMTT(30), <1>9, <1>10 DEF Inv, RunInv
  <2>3. ASSUME NEW d \in CPU, cur'[d] # d
        PROVE  frame'[d].pc = "run" /\ frame'[d].held = {} /\ interrupted[d] = None
    <3>1. CASE d = c BY ZenonT(60), <1>1, <1>4, <1>6, <3>1
    <3>2. CASE d # c
      <4>1. d \in Ctx /\ d \notin {c, t} /\ cur[d] # d
        BY ZenonT(60), <1>9, <2>3, <3>2, SpinAssumption DEF Ctx
      <4> QED BY SMTT(30), <1>4, <4>1 DEF Inv, RunInv
    <3> QED BY Zenon, <3>1, <3>2
  <2>4. ASSUME NEW u \in Thread, \A d \in CPU : cur'[d] # u
        PROVE  frame'[u].pc \in {"new", "switched"} /\ frame'[u].held = {}
    <3>1. u \in Ctx /\ u \notin {c, t} BY Zenon, <1>10, <2>4, SpinAssumption DEF Ctx
    <3>2. \A d \in CPU : cur[d] # u BY ZenonT(60), <1>1, <1>9, <2>4, <3>1
    <3> QED BY SMTT(30), <1>4, <3>1, <3>2 DEF Inv, RunInv
  <2>5. ASSUME NEW u \in Thread, frame'[u].pc = "switched"
        PROVE  saved'[u] = (interrupted[u] = None)
    <3>1. u # t BY Zenon, <1>4, <1>7, <2>5
    <3>2. u \in Ctx /\ u # c BY Zenon, SpinAssumption DEF Ctx
    <3>3. frame'[u] = frame[u] /\ saved'[u] = saved[u] BY Zenon, <1>4, <1>5, <3>1, <3>2 DEF Inv, TypeOK
    <3> QED BY Zenon, <2>5, <3>3 DEF Inv, RunInv
  <2> QED BY ZenonT(60), <1>5, <2>1, <2>2, <2>3, <2>4, <2>5 DEF RunInv
<1>17. LockInv'
  <2>1. \A j \in Ctx, l \in Lock : j \notin {c, t} => (Owns(j, l)' <=> Owns(j, l))
    BY Zenon, <1>4 DEF Owns
  <2>2. \A l \in Lock : ~Owns(c, l)' /\ (Owns(t, l)' <=> l = ptable)
    BY Zenon, <1>4, <1>6, <1>7 DEF Owns
  <2>3. \A l \in Lock : ~Owns(t, l) /\ (Owns(c, l) <=> l = ptable)
    BY ZenonT(60), <1>1, <1>8 DEF Owns
  <2>4. (\A j \in Ctx, l \in Lock : Owns(j, l) => locked[l])'
    BY ZenonT(60), <1>2, <1>5, <2>1, <2>2, <2>3 DEF Inv, LockInv
  <2>5. (\A j, k \in Ctx, l \in Lock : Owns(j, l) /\ Owns(k, l) => j = k)'
    BY SMTT(30), <1>2, <2>1, <2>2, <2>3 DEF Inv, LockInv
  <2>6. \A d \in CPU : frame'[cur'[d]].held = frame[cur[d]].held
    BY ZenonT(60), <1>1, <1>4, <1>7, <1>9, <1>10
  <2>7. (\A d \in CPU, l \in Lock : l \in frame[cur[d]].held <=> lkcpu[l] = d)'
    BY Zenon, <1>5, <2>6 DEF Inv, LockInv
  <2> QED BY ZenonT(60), <2>4, <2>5, <2>7 DEF LockInv
<1> QED BY Zenon, <1>12, <1>14, <1>15, <1>16, <1>17 DEF Inv

\* sched() hands both back to the scheduler, which waits inside its own switch.
LEMMA SchedStep == ASSUME Inv, NEW c \in CPU, sched(c) PROVE Inv'
<1> DEFINE t == cur[c]  f == frame[t]  h == frame[c]
           ft == Rec("switched", ptable, FALSE, "run", {})
           fc == Rec(h.pc, h.lk, h.eflags, h.then, {ptable})
<1>1. Facts(c) /\ f.pc = "run" /\ t \in Thread /\ f.held = {ptable} BY Zenon, InvFacts DEF sched, At
<1>2. c \in Ctx /\ t \in Ctx /\ c # t BY ZenonT(60), <1>1, SpinAssumption DEF Ctx
<1>3. h \in Frame /\ h.pc = "run" /\ h.held = {} /\ interrupted[c] = None
  BY Zenon, <1>2 DEF Inv, TypeOK, RunInv
<1>4. /\ frame' = [j \in Ctx |-> frame'[j]] /\ frame'[c] = fc /\ frame'[t] = ft
      /\ \A j \in Ctx : j \notin {c, t} => frame'[j] = frame[j]
  BY Zenon, <1>2, <1>3 DEF sched, FrameAt, Rec, Inv, TypeOK, Frame
<1>5. /\ UNCHANGED <<locked, lkcpu, FL_IF, ncli, intena, interrupted>>
      /\ cur' = [cur EXCEPT ![c] = c] /\ saved' = [saved EXCEPT ![t] = intena[c]]
      /\ panicked' = (~holding(c, ptable) \/ ncli[c] # 1 \/ FL_IF[c])
  BY ZenonT(60) DEF sched, lockstate, cpustate
<1>6. fc \in Frame /\ fc.pc = "run" /\ fc.lk = h.lk /\ fc.held = {ptable}
  <2>1. h.pc \in Label /\ h.lk \in Lock /\ h.eflags \in BOOLEAN /\ h.then \in {"run", "sti", "trapret"}
    BY ZenonT(60), <1>3 DEF Frame
  <2> QED BY SMTT(30), <1>3, <2>1, OneLock, RecType
<1>7. ft \in Frame /\ ft.pc = "switched" /\ ft.held = {}
  <2>1. "switched" \in Label /\ FALSE \in BOOLEAN BY Zenon DEF Label
  <2>2. ft \in Frame BY ZenonT(60), <2>1, OneLock DEF Frame, Rec
  <2> QED BY <2>2 DEF Rec
<1> HIDE DEF fc, ft
<1>8. \A d \in CPU : d # c => cur'[d] = cur[d] /\ cur[d] \in Ctx /\ cur[d] \notin {c, t}
  BY SMTT(30), <1>5, SpinAssumption DEF Inv, TypeOK, RunInv
<1>9. cur'[c] = c BY Zenon, <1>5 DEF Inv, TypeOK
<1>10. ncli[c] = 1 /\ ~FL_IF[c] /\ intena[c] = (interrupted[t] = None)
  <2>1. Counted(f) = 0 BY Zenon, <1>1 DEF Counted
  <2>2. ncli[c] = 1 + 0 BY Zenon, <1>1, <2>1, OneLock, NcliCount
  <2>3. ncli[c] = 1 /\ ncli[c] > 0 BY SMTT(30), <2>2
  <2> QED BY ZenonT(60), <1>1, <2>3 DEF Facts, CpuOK
<1>11. panicked' = FALSE
  <2>1. holding(c, ptable) BY Zenon, <1>1, OneLock DEF holding, Facts
  <2> QED BY ZenonT(60), <1>5, <1>10, <2>1
<1>12. TypeOK'
  <2>1. \A j \in Ctx : frame'[j] \in Frame BY Zenon, <1>4, <1>6, <1>7 DEF Inv, TypeOK
  <2>2. frame' \in [Ctx -> Frame] BY Zenon, <1>4, <2>1
  <2>3. cur' \in [CPU -> Ctx] BY Zenon, <1>2, <1>5 DEF Inv, TypeOK
  <2>4. saved' \in [Thread -> BOOLEAN] BY Zenon, <1>1, <1>5 DEF Inv, TypeOK
  <2> QED BY ZenonT(60), <1>5, <1>11, <2>2, <2>3, <2>4 DEF Inv, TypeOK
<1>13. FrameOK(c, h, None) /\ FrameOK(t, f, interrupted[t])
  BY Zenon, <1>2, <1>3 DEF Inv, FrameInv
<1>14. FrameInv'
  <2>1. FrameOK(c, fc, None) BY Zenon, <1>6, <1>13 DEF FrameOK
  <2>2. FrameOK(t, ft, interrupted[t]) BY Zenon, <1>1, <1>7, <1>13, SpinAssumption DEF FrameOK
  <2> QED BY Zenon, <1>3, <1>4, <1>5, <2>1, <2>2 DEF Inv, FrameInv
<1>15. CpuInv'
  <2>1. CpuOK(c, fc, None, ncli[c], FL_IF[c], intena[c])
    <3>1. Counted(fc) = 0 BY Zenon, <1>6 DEF Counted
    <3>2. fc.held # {} /\ c \notin Thread BY Zenon, <1>6, SpinAssumption
    <3>3. ncli[c] = Cardinality(fc.held) + Counted(fc) BY SMTT(30), <1>6, <1>10, <3>1, OneLock
    <3> QED BY ZenonT(60), <1>6, <1>10, <3>2, <3>3 DEF CpuOK
  <2> SUFFICES ASSUME NEW d \in CPU
               PROVE  CpuOK(cur'[d], frame'[cur'[d]], interrupted[cur'[d]], ncli[d], FL_IF[d], intena[d])
    BY Zenon, <1>5 DEF CpuInv
  <2>2. CASE d = c BY ZenonT(60), <1>3, <1>4, <1>9, <2>1, <2>2
  <2>3. CASE d # c
    <3>1. cur'[d] = cur[d] /\ frame'[cur[d]] = frame[cur[d]] BY Zenon, <1>4, <1>8, <2>3
    <3> QED BY Zenon, <3>1 DEF Inv, CpuInv
  <2> QED BY Zenon, <2>2, <2>3
<1>16. RunInv'
  <2>1. \A d \in CPU : cur'[d] \in Thread \cup {d} BY ZenonT(60), <1>8, <1>9 DEF Inv, RunInv
  <2>2. \A d, e \in CPU : cur'[d] = cur'[e] => d = e BY SMTT(30), <1>8, <1>9 DEF Inv, RunInv
  <2>3. ASSUME NEW d \in CPU, cur'[d] # d
        PROVE  frame'[d].pc = "run" /\ frame'[d].held = {} /\ interrupted[d] = None
    <3>1. d # c /\ d \in Ctx /\ d # t BY ZenonT(60), <1>1, <1>9, <2>3, SpinAssumption DEF Ctx
    <3> QED BY SMTT(30), <1>4, <1>8, <2>3, <3>1 DEF Inv, RunInv
  <2>4. ASSUME NEW u \in Thread, \A d \in CPU : cur'[d] # u
        PROVE  frame'[u].pc \in {"new", "switched"} /\ frame'[u].held = {}
    <3>1. CASE u = t BY ZenonT(60), <1>4, <1>7, <3>1
    <3>2. CASE u # t
      <4>1. u \in Ctx /\ u # c BY Zenon, SpinAssumption DEF Ctx
      <4>2. \A d \in CPU : cur[d] # u BY Zenon, <1>8, <2>4, <3>2
      <4> QED BY ZenonT(60), <1>4, <3>2, <4>1, <4>2 DEF Inv, RunInv
    <3> QED BY Zenon, <3>1, <3>2
  <2>5. ASSUME NEW u \in Thread, frame'[u].pc = "switched"
        PROVE  saved'[u] = (interrupted[u] = None)
    <3>1. CASE u = t
      <4>1. saved'[t] = intena[c] BY Zenon, <1>1, <1>5 DEF Inv, TypeOK
      <4> QED BY Zenon, <1>10, <3>1, <4>1
    <3>2. CASE u # t
      <4>1. u \in Ctx /\ u # c BY Zenon, SpinAssumption DEF Ctx
      <4>2. frame'[u] = frame[u] /\ saved'[u] = saved[u]
        BY ZenonT(60), <1>4, <1>5, <3>2, <4>1 DEF Inv, TypeOK
      <4> QED BY Zenon, <2>5, <4>2 DEF Inv, RunInv
    <3> QED BY Zenon, <3>1, <3>2
  <2> QED BY ZenonT(60), <1>5, <2>1, <2>2, <2>3, <2>4, <2>5 DEF RunInv
<1>17. LockInv'
  <2>1. \A j \in Ctx, l \in Lock : j \notin {c, t} => (Owns(j, l)' <=> Owns(j, l))
    BY Zenon, <1>4 DEF Owns
  <2>2. \A j \in Ctx, l \in Lock : j = t => ~Owns(j, l)' BY Zenon, <1>4, <1>7 DEF Owns
  <2>3. \A l \in Lock : Owns(c, l)' <=> l = ptable BY Zenon, <1>4, <1>6 DEF Owns
  <2>4. \A l \in Lock : ~Owns(c, l) /\ (Owns(t, l) <=> l = ptable) BY Zenon, <1>1, <1>3 DEF Owns
  <2>5. (\A j \in Ctx, l \in Lock : Owns(j, l) => locked[l])'
    <3>1. \A j \in Ctx, l \in Lock : Owns(j, l)' => \E k \in Ctx : Owns(k, l)
      BY ZenonT(60), <1>2, <2>1, <2>2, <2>3, <2>4
    <3> QED BY Zenon, <1>5, <3>1 DEF Inv, LockInv
  <2>6. (\A j, k \in Ctx, l \in Lock : Owns(j, l) /\ Owns(k, l) => j = k)'
    BY SMTT(30), <1>2, <2>1, <2>2, <2>3, <2>4 DEF Inv, LockInv
  <2>7. \A d \in CPU : frame'[cur'[d]].held = frame[cur[d]].held
    BY ZenonT(60), <1>1, <1>4, <1>6, <1>8, <1>9
  <2>8. (\A d \in CPU, l \in Lock : l \in frame[cur[d]].held <=> lkcpu[l] = d)'
    BY Zenon, <1>5, <2>7 DEF Inv, LockInv
  <2> QED BY Zenon, <2>5, <2>6, <2>8 DEF LockInv
<1> QED BY Zenon, <1>12, <1>14, <1>15, <1>16, <1>17 DEF Inv

-----------------------------------------------------------------------------
\* No step of any CPU breaks the invariant.
LEMMA NextInv == Inv /\ [Next]_vars => Inv'
<1> SUFFICES ASSUME Inv, [Next]_vars PROVE Inv' BY Zenon
<1>1. CASE UNCHANGED vars
  <2> USE <1>1 DEF vars
  <2>1. TypeOK' BY Zenon DEF Inv, TypeOK
  <2>2. FrameInv' BY Zenon DEF Inv, FrameInv
  <2>3. CpuInv' BY Zenon DEF Inv, CpuInv
  <2>4. RunInv' BY ZenonT(60) DEF Inv, RunInv
  <2>5. LockInv'
    <3>1. \A k \in Ctx, l \in Lock : Owns(k, l)' <=> Owns(k, l) BY Zenon DEF Owns
    <3> QED BY Zenon, <3>1 DEF Inv, LockInv
  <2> QED BY Zenon, <2>1, <2>2, <2>3, <2>4, <2>5 DEF Inv
<1>2. ASSUME NEW c \in CPU, NEW l \in Lock, acquire(c, l) \/ release(c, l) PROVE Inv'
  BY Zenon, <1>2, AcquireStep, ReleaseStep
<1>3. ASSUME NEW c \in CPU, NEW t \in Thread, scheduler(c, t) PROVE Inv'
  BY Zenon, <1>3, SchedulerStep
<1>4. ASSUME NEW c \in CPU,
             \/ pushcli(c) \/ xchg(c) \/ setcpu(c) \/ unlock(c) \/ popcli(c)
             \/ interrupt(c) \/ iret(c) \/ sti(c) \/ sched(c) \/ forkret(c) \/ trapret(c)
      PROVE  Inv'
  BY ZenonT(60), <1>4, PushcliStep, XchgStep, SetcpuStep, UnlockStep, PopcliStep, InterruptStep, IretStep,
     StiStep, SchedStep, ForkretStep
<1> QED BY Zenon, <1>1, <1>2, <1>3, <1>4 DEF Next

\* Every reachable state of the locks and CPUs satisfies the inductive invariant.
THEOREM SpinInvariance == Spec => []Inv
<1> QED BY InitInv, NextInv, PTL DEF Spec

\* acquire() and release() exclude, with interrupts off for as long as a lock is held, and
\* no panic of spinlock.c or sched() is reached, for all CPUs, processes and locks.
THEOREM LocksExclude == Spec => []MutualExclusion
<1>1. Inv => MutualExclusion BY Zenon, InvSafe
<1> QED BY <1>1, SpinInvariance, PTL

\* pushcli() and popcli() give the interrupt flag back as they found it, across sched().
THEOREM FlagsRestored == Spec => []InterruptsRestored
<1>1. Inv => InterruptsRestored BY Zenon, InvSafe
<1> QED BY <1>1, SpinInvariance, PTL
=============================================================================
