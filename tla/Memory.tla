------------------------------- MODULE Memory -------------------------------
(***************************************************************************)
(* Physical pages (kalloc.c), page tables (vm.c) and the calls that build  *)
(* and drop address spaces: fork, exec, sbrk, exit and wait, by processes  *)
(* that run concurrently and share the free list.  A step is one turn of   *)
(* the loops of allocuvm() and copyuvm(): a page, and the page table page  *)
(* that mapping it may need.  Page tables are private to their process, so *)
(* all that the others can change between two steps is the free list.      *)
(* Pages are interchangeable: the model keeps how many there are in each   *)
(* place, and not which.  Addresses are in units; PGSIZE make a page.      *)
(***************************************************************************)
EXTENDS Integers, Sequences, FiniteSetsExt

CONSTANTS NPROC, NPAGES, PGSIZE, NPTENTRIES, KERNBASE,
          Programs,   \* bound: what exec() may load, as sequences of segments
          ArgLens,    \* bound: how much of the stack the arguments take
          Grow,       \* bound: the arguments of sbrk()
          MaxLost     \* bound: a behaviour ends when more pages than this are lost

Proc == 1 .. NPROC
PGROUNDUP(x) == ((x + PGSIZE - 1) \div PGSIZE) * PGSIZE
VA == {a \in 0 .. KERNBASE - 1 : a % PGSIZE = 0}
PDX(a) == a \div (PGSIZE * NPTENTRIES)
Upto(a, b) == {v \in VA : a <= v /\ v < b}

\* A page table: whether there is a directory with the page table of the kernel's half,
\* the page tables of the user's half, the addresses mapped, and those with PTE_U; hole is
\* history, the addresses that allocuvm() left out or growproc() took away by mistake.
NoTable == [dir |-> FALSE, tab |-> {}, pte |-> {}, u |-> {}, hole |-> {}]
Pages(t) == (IF t.dir THEN 2 ELSE 0) + Cardinality(t.tab) + Cardinality(t.pte)

VARIABLES
  freelist,   \* how many pages kmem.freelist has
  leaked,     \* how many pages nothing points to after a mappages() that failed
  pt, sz,     \* proc->pgdir with all it leads to, and proc->sz
  kstack,     \* whether the process has a kernel stack
  state,      \* "unused", "embryo", "user" (in user mode), "sys", "zombie"
  th,         \* the call under way, its child, and allocuvm()'s and copyuvm()'s variables
  new,        \* the table that fork() or exec() builds, or the one exec() replaced
  stale,      \* user pages taken away since %cr3 was last loaded
  panicked

vars == <<freelist, leaked, pt, sz, kstack, state, th, new, stale, panicked>>

Quiet == [pc |-> "none", op |-> "none", np |-> 0, a |-> 0, old |-> 0, end |-> 0, segs |-> <<>>]

-----------------------------------------------------------------------------
(* kalloc.c and vm.c, as functions on the free list f and a table t.       *)

\* The free list after n pages were taken from it, or given back: only the count matters,
\* and a caller takes them if they are there.
kalloc(f, n) == f - n
kfree(f, n) == f + n

\* kalloc() of a page for address a and mappages() of it, which may allocate a page
\* table, and if it cannot, loses the page.
mappages(f, t, a, user) ==
  LET t1 == [t EXCEPT !.pte = @ \cup {a}, !.u = IF user THEN @ \cup {a} ELSE @,
                      !.tab = @ \cup {PDX(a)}]
      need == 1 + Cardinality({PDX(a)} \ t.tab)
  IN IF f >= need THEN [f |-> kalloc(f, need), t |-> t1, lost |-> 0]
                  ELSE [f |-> 0, t |-> t, lost |-> f]

\* The addresses that deallocuvm() looks at from a on: without a page table it goes on
\* NPTENTRIES pages later.
RECURSIVE Looked(_, _, _)
Looked(t, a, end) ==
  IF a >= end THEN {}
  ELSE IF PDX(a) \notin t.tab THEN Looked(t, a + NPTENTRIES * PGSIZE, end)
                              ELSE {a} \cup Looked(t, a + PGSIZE, end)

\* Variant: the page that newsz is in goes too.
Unmapped_down(t, oldsz, newsz) == Looked(t, (newsz \div PGSIZE) * PGSIZE, oldsz) \cap t.pte
\* What deallocuvm(t, oldsz, newsz) unmaps and frees, and the table it leaves.
Unmapped(t, oldsz, newsz) == Looked(t, PGROUNDUP(newsz), oldsz) \cap t.pte
deallocuvm(t, oldsz, newsz) ==
  LET S == Unmapped(t, oldsz, newsz)
  IN [t EXCEPT !.pte = @ \ S, !.u = @ \ S, !.hole = {a \in @ : a < newsz}]

\* The free list after freevm(t), which looks for all its pages.
freevm(f, t) == kfree(f, Pages([t EXCEPT !.pte = Unmapped(t, KERNBASE, 0)]))

Init ==
  /\ freelist = NPAGES - 5 /\ leaked = 0
  /\ pt = [[p \in Proc |-> NoTable] EXCEPT
             ![1] = [dir |-> TRUE, tab |-> {0}, pte |-> {0}, u |-> {0}, hole |-> {}]]
  /\ sz = [p \in Proc |-> IF p = 1 THEN PGSIZE ELSE 0]
  /\ kstack = [p \in Proc |-> p = 1]
  /\ state = [p \in Proc |-> IF p = 1 THEN "user" ELSE "unused"]
  /\ th = [p \in Proc |-> Quiet] /\ new = [p \in Proc |-> NoTable]
  /\ stale = [p \in Proc |-> {}] /\ panicked = FALSE

-----------------------------------------------------------------------------
Table(p) == IF th[p].op = "sbrk" THEN pt[p] ELSE new[p]
SetTable(p, t) == IF th[p].op = "sbrk" THEN pt' = [pt EXCEPT ![p] = t] /\ UNCHANGED new
                                       ELSE new' = [new EXCEPT ![p] = t] /\ UNCHANGED pt

\* What the functions of vm.c panic on: in mappages() an address that is mapped already; in
\* copyuvm() one that is not; in loaduvm() one in the middle of a page, which exec() does not
\* test for, or one without a page table; in clearpteu() a guard page without a page table.
Remap(p) == th[p].pc = "alloc" /\ th[p].a < th[p].end /\ th[p].a \in Table(p).pte
NotPresent(p) == th[p].pc = "copy" /\ th[p].a < sz[p] /\ th[p].a \notin pt[p].pte
Unloadable(p) ==
  /\ th[p].pc = "seg"
  /\ LET seg == Head(th[p].segs)
     IN \/ seg.vaddr % PGSIZE # 0
        \/ \E a \in Upto(seg.vaddr, seg.vaddr + seg.filesz) : PDX(a) \notin new[p].tab
GuardPage(p) == th[p].end - 2 * PGSIZE
Unguarded(p) == th[p].pc = "stack" /\ PDX(GuardPage(p)) \notin new[p].tab
Panics(p) == Remap(p) \/ NotPresent(p) \/ Unloadable(p) \/ Unguarded(p)

panic(p) ==
  /\ ~panicked /\ Panics(p) /\ panicked' = TRUE
  /\ UNCHANGED <<freelist, leaked, pt, sz, kstack, state, th, new, stale>>

At(p, l) == th[p].pc = l /\ ~panicked /\ ~Panics(p)
Goto(p, l) == th' = [th EXCEPT ![p].pc = l]
\* Back to user mode.
Return(p) == /\ th' = [th EXCEPT ![p] = Quiet]
             /\ state' = [state EXCEPT ![p] = "user"]

\* fork() up to the stack of allocproc().
fork(p) ==
  LET np == Min({q \in Proc : state[q] = "unused"})
  IN /\ state[p] = "user" /\ ~panicked /\ \E q \in Proc : state[q] = "unused"
     /\ freelist > 0
     /\ kstack' = [kstack EXCEPT ![np] = TRUE] /\ freelist' = kalloc(freelist, 1)
     /\ state' = [state EXCEPT ![p] = "sys", ![np] = "embryo"]
     /\ th' = [th EXCEPT ![p] = [Quiet EXCEPT !.pc = "setup", !.op = "fork", !.np = np]]
     /\ UNCHANGED <<leaked, pt, sz, new, stale, panicked>>

\* exec() of a file with a good header.
exec(p) == \E segs \in Programs :
  /\ state[p] = "user" /\ ~panicked
  /\ state' = [state EXCEPT ![p] = "sys"]
  /\ th' = [th EXCEPT ![p] = [Quiet EXCEPT !.pc = "setup", !.op = "exec", !.segs = segs]]
  /\ UNCHANGED <<freelist, leaked, pt, sz, kstack, new, stale, panicked>>

\* Variant: fork() does not free the child's stack.
Undo_stack(p, f, t) ==
  /\ freelist' = freevm(f, t)
  /\ kstack' = [q \in Proc |-> kstack[q] /\ q # th[p].np]
  /\ state' = [q \in Proc |-> IF q = p THEN "user" ELSE IF q = th[p].np THEN "unused" ELSE state[q]]
  /\ new' = [new EXCEPT ![p] = NoTable]
  /\ th' = [th EXCEPT ![p] = Quiet]

\* The failure of fork() or exec() with the free list f: the child's stack, and the new
\* table, if the caller has it.
Undo(p, f, t) ==
  /\ freelist' = kfree(freevm(f, t), IF th[p].op = "fork" THEN 1 ELSE 0)
  /\ kstack' = [q \in Proc |-> kstack[q] /\ q # th[p].np]
  /\ state' = [q \in Proc |-> IF q = p THEN "user" ELSE IF q = th[p].np THEN "unused" ELSE state[q]]
  /\ new' = [new EXCEPT ![p] = NoTable]
  /\ th' = [th EXCEPT ![p] = Quiet]

\* setupkvm(): without memory for the kernel's page tables it forgets the directory.
setupkvm(p) ==
  /\ At(p, "setup")
  /\ IF freelist >= 2
     THEN /\ freelist' = kalloc(freelist, 2)
          /\ new' = [new EXCEPT ![p] = [NoTable EXCEPT !.dir = TRUE]]
          /\ Goto(p, IF th[p].op = "fork" THEN "copy" ELSE "load")
          /\ UNCHANGED <<leaked, kstack, state>>
     ELSE Undo(p, 0, NoTable) /\ leaked' = leaked + freelist
  /\ UNCHANGED <<pt, sz, stale, panicked>>

\* A turn of copyuvm()'s loop.
copyuvm(p) ==
  LET i == th[p].a  r == mappages(freelist, new[p], i, i \in pt[p].u)
  IN /\ At(p, "copy") /\ i < sz[p]
     /\ IF freelist = 0 \/ r.lost # 0
        THEN Undo(p, r.f, new[p]) /\ leaked' = leaked + r.lost
        ELSE /\ freelist' = r.f /\ new' = [new EXCEPT ![p] = r.t]
             /\ th' = [th EXCEPT ![p].a = @ + PGSIZE]
             /\ UNCHANGED <<leaked, kstack, state>>
     /\ UNCHANGED <<pt, sz, stale, panicked>>

fork_done(p) ==
  /\ At(p, "copy") /\ th[p].a >= sz[p]
  /\ pt' = [pt EXCEPT ![th[p].np] = new[p]] /\ sz' = [sz EXCEPT ![th[p].np] = sz[p]]
  /\ new' = [new EXCEPT ![p] = NoTable]
  /\ th' = [th EXCEPT ![p] = Quiet]
  /\ state' = [state EXCEPT ![p] = "user", ![th[p].np] = "user"]
  /\ UNCHANGED <<freelist, leaked, kstack, stale, panicked>>

\* exec() goes on to the next segment, or to the stack.
exec_next(p) ==
  LET t == th[p]
      newsz == IF t.segs = <<>> THEN PGROUNDUP(t.end) + 2 * PGSIZE
                                ELSE Head(t.segs).vaddr + Head(t.segs).memsz
  IN /\ At(p, "load")
     /\ IF newsz >= KERNBASE
        THEN Undo(p, freelist, new[p])
        ELSE /\ th' = [th EXCEPT ![p] = [t EXCEPT
                         !.old = IF t.segs = <<>> THEN PGROUNDUP(t.end) ELSE t.end,
                         !.a = PGROUNDUP(t.end),
                         !.end = Max({newsz, t.end}),
                         !.pc = "alloc"]]
             /\ UNCHANGED <<freelist, kstack, state, new>>
     /\ UNCHANGED <<leaked, pt, sz, stale, panicked>>

\* A turn of allocuvm()'s loop, which goes on when mappages() has failed.
allocuvm(p) ==
  LET i == th[p].a  r == mappages(freelist, Table(p), i, TRUE)
      t == IF r.lost = 0 THEN r.t ELSE [r.t EXCEPT !.hole = @ \cup {i}]
  IN /\ At(p, "alloc") /\ i < th[p].end /\ freelist > 0
     /\ freelist' = r.f /\ SetTable(p, t) /\ leaked' = leaked + r.lost
     /\ th' = [th EXCEPT ![p].a = @ + PGSIZE]
     /\ UNCHANGED <<sz, kstack, state, stale, panicked>>

\* Out of memory: deallocuvm(), and the failure of the call.
allocuvm_fail(p) ==
  LET t == th[p]
      S == Unmapped(Table(p), t.end, t.old)
      f == kfree(freelist, Cardinality(S))
  IN /\ At(p, "alloc") /\ t.a < t.end /\ freelist = 0
     /\ IF t.op = "sbrk"
        THEN /\ freelist' = f /\ pt' = [pt EXCEPT ![p] = deallocuvm(@, t.end, t.old)]
             /\ stale' = [stale EXCEPT ![p] = @ \cup {a \in S : a < sz[p]}]
             /\ Return(p) /\ UNCHANGED <<kstack, new>>
        ELSE Undo(p, f, deallocuvm(new[p], t.end, t.old)) /\ UNCHANGED <<pt, stale>>
     /\ UNCHANGED <<leaked, sz, panicked>>

allocuvm_done(p) ==
  /\ At(p, "alloc") /\ th[p].a >= th[p].end
  /\ Goto(p, CASE th[p].op = "sbrk" -> "switch" [] th[p].segs = <<>> -> "stack" [] OTHER -> "seg")
  /\ UNCHANGED <<freelist, leaked, pt, sz, kstack, state, new, stale, panicked>>

\* loaduvm() of the segment, or a file that is too short.
loaduvm(p) ==
  /\ At(p, "seg")
  /\ \/ /\ th' = [th EXCEPT ![p].segs = Tail(@), ![p].pc = "load"]
        /\ UNCHANGED <<freelist, kstack, state, new>>
     \/ Head(th[p].segs).filesz > 0 /\ Undo(p, freelist, new[p])
  /\ UNCHANGED <<leaked, pt, sz, stale, panicked>>

\* The pages that copyout() of the arguments goes through.
Args(sp, len) == Upto(((sp - len) \div PGSIZE) * PGSIZE, sp)

\* The guard page, copyout() of the arguments, and the commit with switchuvm().
exec_stack(p) == \E len \in ArgLens :
  LET end == th[p].end
      t == [new[p] EXCEPT !.u = @ \ {GuardPage(p)}]
  IN /\ At(p, "stack")
     /\ IF Args(end, len) \subseteq t.u
        THEN /\ pt' = [pt EXCEPT ![p] = t] /\ sz' = [sz EXCEPT ![p] = end]
             /\ new' = [new EXCEPT ![p] = pt[p]] /\ stale' = [stale EXCEPT ![p] = {}]
             /\ Goto(p, "freeold") /\ UNCHANGED <<freelist, kstack, state>>
        ELSE Undo(p, freelist, t) /\ UNCHANGED <<pt, sz, stale>>
     /\ UNCHANGED <<leaked, panicked>>

exec_done(p) ==
  /\ At(p, "freeold")
  /\ freelist' = freevm(freelist, new[p]) /\ new' = [new EXCEPT ![p] = NoTable]
  /\ Return(p)
  /\ UNCHANGED <<leaked, pt, sz, kstack, stale, panicked>>

\* growproc() up to its switchuvm().  A size below zero wraps to one that deallocuvm() takes
\* for larger, and nothing changes; for one past KERNBASE allocuvm() fails at once.
growproc(p) == \E n \in Grow :
  LET end == IF sz[p] + n < 0 THEN sz[p] ELSE sz[p] + n
      t == [Quiet EXCEPT !.op = "sbrk", !.old = sz[p], !.end = end, !.a = PGROUNDUP(sz[p]),
                         !.pc = IF n > 0 THEN "alloc" ELSE "switch"]
  IN /\ state[p] = "user" /\ ~panicked /\ end \in 1 .. KERNBASE - 1
     /\ state' = [state EXCEPT ![p] = "sys"] /\ th' = [th EXCEPT ![p] = t]
     /\ freelist' = kfree(freelist, Cardinality(Unmapped(pt[p], sz[p], end)))
     /\ pt' = [pt EXCEPT ![p] = deallocuvm(@, sz[p], end)]
     /\ stale' = [stale EXCEPT ![p] = @ \cup Unmapped(pt[p], sz[p], end)]
     /\ UNCHANGED <<leaked, sz, kstack, new, panicked>>

\* growproc() to the size zero, which deallocuvm() returns when it has freed everything, and
\* growproc() takes for an error: it sets no size, calls no switchuvm(), and returns -1.
growproc_zero(p) == \E n \in Grow :
  LET S == Unmapped(pt[p], sz[p], 0)
  IN /\ state[p] = "user" /\ ~panicked /\ n < 0 /\ sz[p] + n = 0
     /\ freelist' = kfree(freelist, Cardinality(S))
     /\ pt' = [pt EXCEPT ![p] = [deallocuvm(@, sz[p], 0) EXCEPT !.hole = Upto(0, sz[p])]]
     /\ stale' = [stale EXCEPT ![p] = @ \cup S]
     /\ UNCHANGED <<leaked, sz, kstack, state, th, new, panicked>>

switchuvm(p) ==
  /\ At(p, "switch")
  /\ sz' = [sz EXCEPT ![p] = th[p].end] /\ stale' = [stale EXCEPT ![p] = {}]
  /\ Return(p)
  /\ UNCHANGED <<freelist, leaked, pt, kstack, new, panicked>>

\* exit() ends in the scheduler, whose switchkvm() empties the TLB.
exit(p) ==
  /\ state[p] = "user" /\ p # 1 /\ ~panicked
  /\ state' = [state EXCEPT ![p] = "zombie"] /\ stale' = [stale EXCEPT ![p] = {}]
  /\ UNCHANGED <<freelist, leaked, pt, sz, kstack, th, new, panicked>>

\* What wait() does with a zombie.
wait(p) ==
  /\ state[p] = "zombie" /\ ~panicked
  /\ freelist' = kfree(freevm(freelist, pt[p]), 1)
  /\ kstack' = [kstack EXCEPT ![p] = FALSE] /\ pt' = [pt EXCEPT ![p] = NoTable]
  /\ sz' = [sz EXCEPT ![p] = 0] /\ state' = [state EXCEPT ![p] = "unused"]
  /\ UNCHANGED <<leaked, th, new, stale, panicked>>

Next == leaked <= MaxLost /\ \E p \in Proc :
  \/ fork(p) \/ exec(p) \/ growproc(p) \/ growproc_zero(p) \/ exit(p) \/ wait(p)
  \/ setupkvm(p) \/ copyuvm(p) \/ fork_done(p)
  \/ exec_next(p) \/ allocuvm(p) \/ allocuvm_fail(p) \/ allocuvm_done(p)
  \/ loaduvm(p) \/ exec_stack(p) \/ exec_done(p) \/ switchuvm(p) \/ panic(p)

Spec == Init /\ [][Next]_vars

-----------------------------------------------------------------------------
(* Properties.                                                             *)

\* No page is in two places and none is forgotten: the pages on the free list, in the
\* address spaces, under the kernel stacks, and lost by a mappages() that failed, are all
\* there are.  A page freed twice, or freed and still mapped, would make them more; one that
\* fork(), exec() or sbrk() does not give back when it fails half way would make them fewer.
PageHeldOnce ==
  freelist + leaked + Cardinality({p \in Proc : kstack[p]})
  + MapThenSumSet(LAMBDA p : Pages(pt[p]) + Pages(new[p]), Proc) = NPAGES

\* The two mistakes above are all that can come between a process and its image.  In user
\* mode it has the pages below its size and no others, except for those that allocuvm() went
\* on without (vm.c:240) or that growproc() freed before it failed (proc.c:117), and only the
\* latter can still be in the TLB; and mappages(), copyuvm(), loaduvm() and clearpteu() panic
\* only on such an image or on a segment that is not aligned.
ImageIsMapped ==
  /\ \A p \in Proc : state[p] = "user" =>
       pt[p].pte = Upto(0, sz[p]) \ pt[p].hole /\ stale[p] \subseteq pt[p].hole
  /\ panicked => \E p \in Proc :
       \/ th[p].op = "fork" /\ pt[p].hole # {}
       \/ th[p].op = "exec" /\ new[p].hole # {}
       \/ th[p].pc = "seg" /\ Head(th[p].segs).vaddr % PGSIZE # 0
=============================================================================
