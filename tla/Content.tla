------------------------------ MODULE Content -------------------------------
(***************************************************************************)
(* File contents: the bitmap, the block map and the reads and writes of    *)
(* fs.c, the calls of file.c above them, and the image that mkfs.c builds  *)
(* and the kernel starts from.  The inode is locked throughout readi(),    *)
(* writei() and itrunc(), so each of them is one step; filewrite() is one  *)
(* step per transaction.  A block is an array of BSIZE numbers: bytes, or  *)
(* the block numbers of an indirect block (NINDIRECT is BSIZE here).       *)
(***************************************************************************)
EXTENDS Integers, Sequences, FiniteSetsExt

CONSTANTS NFILE,           \* inodes 1 .. NFILE; 1 is the root directory
          BSIZE, NDIRECT,
          SIZE,            \* sb.size
          MAXOPBLOCKS,
          Images,          \* bound: inputs of mkfs, sequences of <<inode, bytes>>
          Bytes,           \* bound: the byte strings that programs write
          Lens             \* bound: how many bytes a read asks for

File == 1 .. NFILE
LOGSIZE == 3 * MAXOPBLOCKS
MAXFILE == NDIRECT + BSIZE
IBLOCK == 2                \* mkfs's layout: boot, super block, inodes, bitmap
BBLOCK == 3
NMETA == 4
Zero == [k \in 0 .. BSIZE - 1 |-> 0]
Junk == [k \in 0 .. BSIZE - 1 |-> SIZE]   \* what a free block holds, for old bytes of any value
NoBlocks == [size |-> 0, addrs |-> [k \in 0 .. NDIRECT |-> 0]]

VARIABLES
  inode,      \* size and addrs[] of each inode
  blk,        \* the blocks of the disk, through log and cache
  used,       \* the bitmap: blocks marked in use
  off,        \* struct file: the offset of the one that each inode has open
  left,       \* what filewrite() has still to write
  got,        \* what the read that was just made returned
  logged,     \* how many blocks the last transaction logged
  image,      \* what mkfs has still to append
  freeblock,  \* mkfs's next free block
  panicked

disk == <<inode, blk, used>>
vars == <<disk, off, left, got, logged, image, freeblock, panicked>>

Init ==
  /\ inode = [i \in File |-> NoBlocks]
  /\ blk = [b \in 0 .. SIZE - 1 |-> Zero]
  /\ used = {}
  /\ off = [i \in File |-> 0] /\ left = [i \in File |-> <<>>]
  /\ got = <<>> /\ logged = 0 /\ panicked = FALSE
  /\ image \in Images /\ freeblock = NMETA

-----------------------------------------------------------------------------
(* The functions of fs.c, on a record of the inode and the disk.           *)

State(i) == [ip |-> inode[i], blk |-> blk, used |-> used, log |-> {}, addr |-> 0, got |-> <<>>]

Log(s, b) == [s EXCEPT !.log = @ \cup {b}]

\* balloc() and its bzero(); s.addr is what it returns.
balloc(s) == LET b == Min((0 .. SIZE - 1) \ s.used)
             IN [s EXCEPT !.used = @ \cup {b}, !.blk[b] = Zero, !.addr = b,
                          !.log = @ \cup {BBLOCK, b}]

\* addrs[n], allocated if it is not there.
direct(s, n) ==
  IF s.ip.addrs[n] # 0 THEN [s EXCEPT !.addr = s.ip.addrs[n]]
  ELSE LET t == balloc(s) IN [t EXCEPT !.ip.addrs[n] = t.addr]

\* Variant: the index into the indirect block is not reduced by NDIRECT.
bmap_off(s, bn) ==
  IF bn < NDIRECT THEN direct(s, bn)
  ELSE LET t == direct(s, NDIRECT)  a == t.addr  k == bn % BSIZE
       IN IF t.blk[a][k] # 0 THEN [t EXCEPT !.addr = t.blk[a][k]]
          ELSE LET u == balloc(t) IN Log([u EXCEPT !.blk[a][k] = u.addr], a)

bmap(s, bn) ==
  IF bn < NDIRECT THEN direct(s, bn)
  ELSE LET t == direct(s, NDIRECT)  a == t.addr  k == bn - NDIRECT
       IN IF t.blk[a][k] # 0 THEN [t EXCEPT !.addr = t.blk[a][k]]
          ELSE LET u == balloc(t) IN Log([u EXCEPT !.blk[a][k] = u.addr], a)

\* Bytes that go into, or come from, one block at offset o.
Chunk(o, n) == Min({n, BSIZE - (o % BSIZE)})
Patch(b, o, bytes) == [k \in 0 .. BSIZE - 1 |->
  IF k \in o .. o + Len(bytes) - 1 THEN bytes[k - o + 1] ELSE b[k]]

RECURSIVE writei_loop(_, _, _)
writei_loop(s, o, src) ==
  IF src = <<>> THEN s
  ELSE LET t == bmap(s, o \div BSIZE)
           m == Chunk(o, Len(src))
           u == Log([t EXCEPT !.blk[t.addr] = Patch(@, o % BSIZE, SubSeq(src, 1, m))], t.addr)
       IN writei_loop(u, o + m, SubSeq(src, m + 1, Len(src)))

\* The checks of writei(), and the state it leaves.  off + n < off never holds: filewrite()
\* passes no more than MaxWrite bytes, at an offset in the file.
WriteFails(i, o, n) == o > inode[i].size \/ o + n > MAXFILE * BSIZE
writei(i, o, src) ==
  LET s == writei_loop(State(i), o, src)
  IN IF o + Len(src) > s.ip.size THEN Log([s EXCEPT !.ip.size = o + Len(src)], IBLOCK) ELSE s

\* The loop of readi(), which ends with what was read in s.got.
RECURSIVE readi(_, _, _)
readi(s, o, n) ==
  IF n <= 0 THEN s
  ELSE LET t == bmap(s, o \div BSIZE)
           m == Chunk(o, n)
       IN readi([t EXCEPT !.got = @ \o [k \in 1 .. m |-> t.blk[t.addr][(o % BSIZE) + k - 1]]],
                o + m, n - m)

\* The places where inode i holds a block number, and the blocks.
Refs(i) ==
  LET a == inode[i].addrs[NDIRECT]
  IN {k \in 0 .. NDIRECT : inode[i].addrs[k] # 0}
     \cup {NDIRECT + 1 + k : k \in {k \in 0 .. BSIZE - 1 : a # 0 /\ blk[a][k] # 0}}
BlockAt(i, r) == IF r <= NDIRECT THEN inode[i].addrs[r]
                                 ELSE blk[inode[i].addrs[NDIRECT]][r - NDIRECT - 1]
Blocks(i) == {BlockAt(i, r) : r \in Refs(i)}

Set(i, s) == /\ inode' = [inode EXCEPT ![i] = s.ip]
             /\ blk' = s.blk /\ used' = s.used

-----------------------------------------------------------------------------
(* mkfs: blocks are taken in order, and the bitmap is written at the end.  *)

mkfs_block(s, n) == IF n # 0 THEN [s EXCEPT !.addr = n]
                             ELSE [s EXCEPT !.addr = s.free, !.free = @ + 1]
mkfs_bmap(s, bn) ==
  LET t == mkfs_block(s, s.ip.addrs[Min({bn, NDIRECT})])
      a == t.addr
      u == [t EXCEPT !.ip.addrs[Min({bn, NDIRECT})] = a]
      v == mkfs_block(u, u.blk[a][bn - NDIRECT])
  IN IF bn < NDIRECT THEN u ELSE [v EXCEPT !.blk[a][bn - NDIRECT] = v.addr]

RECURSIVE iappend_loop(_, _, _)
iappend_loop(s, o, p) ==
  IF p = <<>> THEN [s EXCEPT !.ip.size = o]
  ELSE LET t == mkfs_bmap(s, o \div BSIZE)
           n1 == Chunk(o, Len(p))
           u == [t EXCEPT !.blk[t.addr] = Patch(@, o % BSIZE, SubSeq(p, 1, n1))]
       IN iappend_loop(u, o + n1, SubSeq(p, n1 + 1, Len(p)))

iappend ==
  LET i == image[1][1]
      s == iappend_loop([ip |-> inode[i], blk |-> blk, free |-> freeblock, addr |-> 0],
                        inode[i].size, image[1][2])
  IN /\ image # <<>>
     /\ inode' = [inode EXCEPT ![i] = s.ip] /\ blk' = s.blk /\ freeblock' = s.free
     /\ image' = Tail(image)
     /\ UNCHANGED <<used, off, left, got, logged, panicked>>

\* The end of mkfs's main(): the root's size is rounded up, and balloc().
mkfs_end ==
  /\ image = <<>> /\ used = {}
  /\ inode' = [inode EXCEPT ![1].size = ((@ \div BSIZE) + 1) * BSIZE]
  /\ used' = 0 .. freeblock - 1
  /\ UNCHANGED <<blk, off, left, got, logged, image, freeblock, panicked>>

-----------------------------------------------------------------------------
(* The kernel, started on the image.                                       *)

Ready == used # {} /\ ~panicked
Idle(i) == Ready /\ left[i] = <<>> /\ i # 1

\* The file is closed and opened again.
sys_open(i) == /\ Idle(i) /\ off[i] # 0
               /\ off' = [off EXCEPT ![i] = 0]
               /\ logged' = 0 /\ got' = <<>>
               /\ UNCHANGED <<disk, left, image, freeblock, panicked>>

\* Variant: the indirect block itself is not freed.
itrunc_leak(i) ==
  LET B == Blocks(i) \ {inode[i].addrs[NDIRECT]}
  IN /\ Idle(i)
     /\ inode' = [inode EXCEPT ![i] = NoBlocks]
     /\ used' = used \ B
     /\ blk' = [b \in DOMAIN blk |-> IF b \in B THEN Junk ELSE blk[b]]
     /\ off' = [off EXCEPT ![i] = 0]
     /\ logged' = 0 /\ got' = <<>>
     /\ UNCHANGED <<left, image, freeblock, panicked>>

\* Its last link and reference are gone: itrunc(), with the panic of bfree().
\* The inode is free for the next creat().
itrunc(i) ==
  /\ Idle(i)
  /\ inode' = [inode EXCEPT ![i] = NoBlocks]
  /\ used' = used \ Blocks(i)
  /\ blk' = [b \in DOMAIN blk |-> IF b \in Blocks(i) THEN Junk ELSE blk[b]]
  /\ panicked' = (~(Blocks(i) \subseteq used) \/ Cardinality(Blocks(i)) # Cardinality(Refs(i)))
  /\ off' = [off EXCEPT ![i] = 0]
  /\ logged' = 0 /\ got' = <<>>
  /\ UNCHANGED <<left, image, freeblock>>

\* dirlookup() reads the root to its end, in a path that is looked up in a
\* transaction or not.
dirlookup ==
  LET s == readi(State(1), 0, inode[1].size)
  IN /\ Ready
     /\ Set(1, s) /\ got' = s.got
     /\ panicked' = (s.log # {})
     /\ logged' = 0
     /\ UNCHANGED <<off, left, image, freeblock>>

\* fileread(): not in a transaction, so log_write() in balloc() would panic.
fileread(i, n) ==
  LET s == readi(State(i), off[i], Min({n, inode[i].size - off[i]}))
  IN /\ Idle(i)
     /\ Set(i, s) /\ got' = s.got
     /\ off' = [off EXCEPT ![i] = @ + Len(s.got)]
     /\ panicked' = (s.log # {})
     /\ logged' = 0
     /\ UNCHANGED <<left, image, freeblock>>

MaxWrite == ((LOGSIZE - 1 - 1 - 2) \div 2) * BSIZE

\* One turn of filewrite()'s loop, with src the bytes that it has still to write.
filewrite(i, src) ==
  LET n1 == Min({Len(src), MaxWrite})
      s == writei(i, off[i], SubSeq(src, 1, n1))
  IN /\ IF WriteFails(i, off[i], n1)
        THEN left' = [left EXCEPT ![i] = <<>>] /\ logged' = 0 /\ UNCHANGED <<disk, off>>
        ELSE /\ Set(i, s) /\ logged' = Cardinality(s.log)
             /\ off' = [off EXCEPT ![i] = @ + n1]
             /\ left' = [left EXCEPT ![i] = SubSeq(src, n1 + 1, Len(src))]
     /\ got' = <<>>
     /\ UNCHANGED <<image, freeblock, panicked>>

sys_write(i) == Idle(i) /\ \E src \in Bytes : filewrite(i, src)
filewrite_more(i) == Ready /\ left[i] # <<>> /\ filewrite(i, left[i])

Next == \/ iappend \/ mkfs_end \/ dirlookup
        \/ \E i \in File : \/ sys_open(i) \/ itrunc(i) \/ sys_write(i) \/ filewrite_more(i)
                           \/ \E n \in Lens : fileread(i, n)

Spec == Init /\ [][Next]_vars

-----------------------------------------------------------------------------
(* Properties.                                                             *)

\* The bytes of inode i, by the definition of the on-disk format.
Contents(i) == [k \in 1 .. inode[i].size |->
  LET bn == (k - 1) \div BSIZE
  IN blk[BlockAt(i, IF bn < NDIRECT THEN bn ELSE bn + 1)][(k - 1) % BSIZE]]

Written == Bytes \cup UNION {{m[k][2] : k \in DOMAIN m} : m \in Images}
Substrings == UNION {{SubSeq(s, a, b) : a, b \in 1 .. Len(s)} : s \in Written}

\* Direct and indirect blocks, partial blocks and the chunks of filewrite() make
\* a file of bytes: reads return what was written last at their offset, and the files, made
\* by mkfs or by the kernel, do not touch each other.
Abstract == INSTANCE ByteFile WITH file <- [i \in File |-> Contents(i)],
                                   Bytes <- Substrings \cup {<<0>>}
IsByteFile == Abstract!Spec

\* The bitmap marks the metadata and exactly the blocks the inodes hold, and no
\* block is held twice: bfree() frees no free block, and a read allocates none.
BlocksHeldOnce == ~panicked /\ (used # {} =>
  /\ used = (0 .. NMETA - 1) \cup UNION {Blocks(i) : i \in File}
  /\ Cardinality(used) = NMETA + MapThenSumSet(LAMBDA i : Cardinality(Refs(i)), File))

\* A transaction of filewrite() logs no more than MAXOPBLOCKS blocks, "max # of blocks any
\* FS op writes" (param.h:10), which is what begin_op() reserves for it (log.c:131).
OpFits == logged <= MAXOPBLOCKS

=============================================================================
