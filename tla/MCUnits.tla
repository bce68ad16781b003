------------------------------ MODULE MCUnits -------------------------------
(***************************************************************************)
(* Small components in one run: a behaviour is one of the console, one of  *)
(* the kernel's memory, one of the contents of files, one of the users'    *)
(* allocator, or calls of the pure routines, of the shell's parser among   *)
(* them, each with an input of the given sizes.                            *)
(***************************************************************************)
EXTENDS Integers, Sequences

CONSTANTS Reader, Char, INPUT_BUF, UINT, ReadLens,
          NPROC, NPAGES, PGSIZE, NPTENTRIES, KERNBASE, Programs, ArgLens, Grow, MaxLost,
          NFILE, BSIZE, NDIRECT, SIZE, MAXOPBLOCKS, Images, Bytes, Lens,
          HEADER, NALLOC, HEAP, LIMIT, Sizes,
          MAXARGS, LineLen,
          WIDTH, ReLen, TextLen, FmtLen, MemSize, StreamLen, BufSize

VARIABLES input, pc, n, got, killed,
          freelist, leaked, pt, sz, kstack, state, th, new, stale, panicked,
          inode, blk, used, off, left, fgot, logged, image, freeblock, fpanicked,
          heap, live,
          unit,  \* which component this behaviour is of
          call   \* the last call of a pure routine

console == <<input, pc, n, got, killed>>
memory == <<freelist, leaked, pt, sz, kstack, state, th, new, stale, panicked>>
content == <<inode, blk, used, off, left, fgot, logged, image, freeblock, fpanicked>>
allocator == <<heap, live>>
vars == <<console, memory, content, allocator, unit, call>>

C == INSTANCE Console
M == INSTANCE Memory
F == INSTANCE Content WITH got <- fgot, panicked <- fpanicked
H == INSTANCE Malloc
P == INSTANCE ShParse
U == INSTANCE Ulib WITH Code <- [NUL |-> 0, a |-> 1, b |-> 2]

S(vaddr, memsz, filesz) == [vaddr |-> vaddr, memsz |-> memsz, filesz |-> filesz]
MCPrograms == {<<S(0, 1, 1)>>, <<S(0, 2, 2), S(2, 1, 0)>>, <<S(1, 1, 1)>>}
MCGrow == {-3, 3}

\* A directory entry is one number, so that the root's three do not fill its last block.
MCImages == {<<<<1, <<1>>>>, <<1, <<1>>>>, <<1, <<2>>>>, <<2, <<1, 2, 1>>>>>>}
MCBytes == {<<1, 2, 2, 1, 2>>}

Strings(A, k) == UNION {[1 .. len -> A] : len \in 0 .. k}
None == [f |-> "none"]

Init == /\ unit \in {"console", "memory", "content", "allocator", "calls"}
        /\ C!Init /\ M!Init /\ F!Init /\ H!Init
        /\ call = None

Calls(c) == call' = c

Parse == \E l \in Strings({"a", " ", "<", "|", ">", "&", ";", "(", ")"}, LineLen) :
           Calls([f |-> "parsecmd", line |-> l])
Move == \E d \in 1 .. MemSize, s \in 1 .. MemSize, k \in 0 .. MemSize :
          /\ d + k <= MemSize + 1 /\ s + k <= MemSize + 1
          /\ Calls([f |-> "memmove", d |-> d, s |-> s, n |-> k])
Copy == \E t \in Strings({"a", "b"}, TextLen), k \in -1 .. MemSize :
          Calls([f |-> "strncpy", t |-> t, n |-> k])
Compare == \E p \in Strings({"a", "b"}, TextLen), q \in Strings({"a", "b"}, TextLen), k \in 0 .. TextLen + 1 :
             Calls([f |-> "strncmp", p |-> p, q |-> q, n |-> k])
Number == \E x \in -(2^(WIDTH - 1)) .. 2^(WIDTH - 1) - 1, base \in {10, 16}, sgn \in BOOLEAN :
            Calls([f |-> "printint", x |-> x, base |-> base, sgn |-> sgn])
Format == \E fmt \in Strings({"a", "%", "d", "p", "c"}, FmtLen) : Calls([f |-> "printf", fmt |-> fmt])
Match == \E re \in Strings({"a", ".", "*", "^", "$"}, ReLen), t \in Strings({"a", "b"}, TextLen) :
           Calls([f |-> "match", re |-> re, text |-> t])
Stream == \E re \in {<<"a">>, <<"^", "$">>}, t \in Strings({"a", " ", "\n", "\r"}, StreamLen), chunk \in 1 .. StreamLen :
            Calls([f |-> "grep", re |-> re, text |-> t, chunk |-> chunk])

Next == \/ unit = "console" /\ C!Next /\ UNCHANGED <<memory, content, allocator, unit, call>>
        \/ unit = "memory" /\ M!Next /\ UNCHANGED <<console, content, allocator, unit, call>>
        \/ unit = "content" /\ F!Next /\ UNCHANGED <<console, memory, allocator, unit, call>>
        \/ unit = "allocator" /\ H!Next /\ UNCHANGED <<console, memory, content, unit, call>>
        \/ /\ unit = "calls" /\ UNCHANGED <<console, memory, content, allocator, unit>>
           /\ IF call = None THEN Parse \/ Move \/ Copy \/ Compare \/ Number \/ Format \/ Match \/ Stream
              ELSE call' = None

Spec == Init /\ [][Next]_vars

-----------------------------------------------------------------------------
\* What consoleread() returns is what was typed, as edited, once and in order.
IsTty == C!IsTty

\* No reader of the console sleeps while there is something to read, a full ring included.
ReaderNotMissed == unit = "console" => C!ReaderNotMissed

\* Every page is in one place when fork(), exec() or sbrk() has failed at any point; the pages
\* that a failing mappages() or setupkvm() forgets are counted as lost.
PageHeldOnce == unit = "memory" => M!PageHeldOnce

\* In user mode a process has the pages below its size, except for those that allocuvm() went
\* on without or a growproc() to zero took, and vm.c panics for no other reason but an
\* unaligned segment.
ImageIsMapped == unit = "memory" => M!ImageIsMapped

\* Files are sequences of bytes with offsets, through direct and indirect blocks.
IsByteFile == F!IsByteFile

\* The bitmap marks exactly the blocks in use, and no block is held twice.
BlocksHeldOnce == unit = "content" => F!BlocksHeldOnce

\* malloc() and free() neither lose memory nor give it out twice, and merge all neighbours.
HeapTiled == unit = "allocator" => H!HeapTiled

\* The shell's parser accepts the lines of its grammar, and gives each one its only reading.
ParsesRight == call.f = "parsecmd" => P!ParsesRight(call.line)

Cells == [i \in 1 .. MemSize |-> i]
\* The routines of string.c, ulib.c, printf.c, console.c and grep.c compute what they are
\* for: overlapping copies, strings cut to a size, orders, digits, formats, matches,
\* and counts of a stream that do not depend on the pieces it is read in.
LibraryRight ==
  CASE call.f = "memmove" -> U!CopyRight(Cells, call.d, call.s, call.n)
    [] call.f = "strncpy" -> U!StrcpyRight([i \in 1 .. MemSize |-> "b"], call.t, call.n)
    [] call.f = "strncmp" -> U!CompareRight(call.p, call.q, call.n)
    [] call.f = "printint" -> U!NumberRight(call.x, call.base, call.sgn)
    [] call.f = "printf" -> U!FormatRight(call.fmt)
    [] call.f = "match" -> U!MatchRight(call.re, call.text)
    [] call.f = "grep" -> U!StreamRight(call.re, call.text, BufSize, call.chunk)
    [] OTHER -> TRUE
=============================================================================
