------------------------------- MODULE Malloc -------------------------------
(***************************************************************************)
(* The user memory allocator (umalloc.c).  Addresses are in units of a     *)
(* header.  A block starts with its header; the free blocks and base,      *)
(* whose size is 0, are a ring in the order of their addresses.  The       *)
(* headers kept are those of blocks and of base: one that is inside a      *)
(* block, left there by a merge, is only memory.                           *)
(***************************************************************************)
EXTENDS Integers, Functions

CONSTANTS HEADER,  \* sizeof(Header)
          NALLOC,  \* the units morecore() asks for at least, 4096
          HEAP,    \* the first address after the program's data
          LIMIT,   \* sbrk() fails beyond
          Sizes    \* the sizes that are asked for

VARIABLES heap,  \* [ptr, size, freep, brk]
          live   \* the blocks that the program holds

vars == <<heap, live>>

base == 0
NULL == -1

Init == /\ heap = [ptr |-> [a \in {base} |-> base], size |-> [a \in {base} |-> 0],
                   freep |-> NULL, brk |-> HEAP]
        /\ live = {}

\* Only the headers in A remain.
Headers(h, A) == [h EXCEPT !.ptr = Restrict(@, A), !.size = Restrict(@, A)]
Set(f, a, v) == [x \in DOMAIN f \cup {a} |-> IF x = a THEN v ELSE f[x]]

\* The free block after which bp belongs, from p on.
RECURSIVE place(_, _, _)
place(h, p, bp) ==
  LET q == h.ptr[p]
  IN IF (bp > p /\ bp < q) \/ (p >= q /\ (bp > p \/ bp < q)) THEN p ELSE place(h, q, bp)

Touches(h, b, next) == b + h.size[b] = next

\* Variant: the lower neighbour is not looked at.
free_above(h, bp) ==
  LET p == place(h, h.freep, bp)  up == h.ptr[p]
  IN IF Touches(h, bp, up)
     THEN [Headers([h EXCEPT !.size[bp] = @ + h.size[up], !.ptr[bp] = h.ptr[up], !.ptr[p] = bp],
                   DOMAIN h.ptr \ {up}) EXCEPT !.freep = p]
     ELSE [h EXCEPT !.ptr[bp] = up, !.ptr[p] = bp, !.freep = p]

free(h, bp) ==
  LET p == place(h, h.freep, bp)  up == h.ptr[p]
      h1 == IF Touches(h, bp, up)
            THEN Headers([h EXCEPT !.size[bp] = @ + h.size[up], !.ptr[bp] = h.ptr[up]], DOMAIN h.ptr \ {up})
            ELSE [h EXCEPT !.ptr[bp] = up]
      h2 == IF Touches(h1, p, bp)
            THEN Headers([h1 EXCEPT !.size[p] = @ + h1.size[bp], !.ptr[p] = h1.ptr[bp]], DOMAIN h1.ptr \ {bp})
            ELSE [h1 EXCEPT !.ptr[p] = bp]
  IN [h2 EXCEPT !.freep = p]

\* The heap with a new free block for nu units, the same one if sbrk() fails.
morecore(h, nu) ==
  LET n == IF nu < NALLOC THEN NALLOC ELSE nu  hp == h.brk
  IN IF hp + n > LIMIT THEN h
     ELSE free([h EXCEPT !.ptr = Set(@, hp, NULL), !.size = Set(@, hp, n), !.brk = @ + n], hp)

\* n units of the free block after prevp: all of it, or its end.
take(h, prevp, n) ==
  LET p == h.ptr[prevp]  rest == h.size[p] - n
      h1 == [h EXCEPT !.freep = prevp]
  IN IF rest = 0 THEN [h |-> [h1 EXCEPT !.ptr[prevp] = h.ptr[p]], b |-> p]
     ELSE [h |-> [h1 EXCEPT !.size = Set([@ EXCEPT ![p] = rest], p + rest, n),
                            !.ptr = Set(@, p + rest, NULL)], b |-> p + rest]

RECURSIVE search(_, _, _)
search(h, prevp, n) ==
  LET p == h.ptr[prevp]  more == morecore(h, n)
  IN CASE h.size[p] >= n -> take(h, prevp, n)
       [] h.size[p] < n /\ p # h.freep -> search(h, p, n)
       [] OTHER -> IF more = h THEN [h |-> h, b |-> NULL] ELSE search(more, more.freep, n)

nunits(nbytes) == (nbytes + HEADER - 1) \div HEADER + 1

malloc(nbytes) ==
  LET h == IF heap.freep = NULL THEN [heap EXCEPT !.freep = base] ELSE heap
      r == search(h, h.freep, nunits(nbytes))
  IN /\ heap' = r.h
     /\ live' = (live \cup {r.b}) \ {NULL}

Free(b) == /\ heap' = free(heap, b)
           /\ live' = live \ {b}

Next == \/ \E n \in Sizes : malloc(n)
        \/ \E b \in live : Free(b)

Spec == Init /\ [][Next]_vars

-----------------------------------------------------------------------------
RECURSIVE Ring(_, _)
Ring(h, S) == LET T == S \cup {h.ptr[a] : a \in S} IN IF T = S THEN S ELSE Ring(h, T)

\* The free blocks and the ones the program holds lie in the heap one after the other
\* without a gap or an overlap: free() and malloc() neither lose memory nor give it out
\* twice.  The list of free blocks is a ring through base in the order of the addresses,
\* which free() needs to find a block's neighbours, and no two free blocks touch.
HeapTiled ==
  LET free_ == IF heap.freep = NULL THEN {} ELSE Ring(heap, {heap.freep}) \ {base}
      blocks == free_ \cup live
      next(b) == b + heap.size[b]
  IN /\ free_ \cap live = {}
     /\ HEAP \in blocks \cup {heap.brk}
     /\ \A b \in blocks : /\ heap.size[b] > 0
                          /\ next(b) \in blocks \cup {heap.brk}
                          /\ ~\E c \in blocks : b < c /\ c < next(b)
     /\ \A b \in free_ : /\ next(b) \notin free_
                         /\ heap.ptr[b] > b \/ heap.ptr[b] = base
     /\ heap.freep # NULL => heap.freep \in free_ \cup {base}
=============================================================================
