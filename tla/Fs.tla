--------------------------------- MODULE Fs ---------------------------------
(***************************************************************************)
(* Inodes, the inode cache, directories and path names (fs.c), and the     *)
(* system calls on names (sysfile.c), by processes that run concurrently.  *)
(* A stretch of code that holds one inode locked from ilock() to iunlock() *)
(* is one step: nobody else can see its middle.  Code that holds a         *)
(* directory while it locks a second inode, and the truncation inside      *)
(* iput(), are split where another process can come in.  dinode and dir    *)
(* are the file system as the running kernel sees it through the log and   *)
(* the cache; a cache entry is named by its inode, the cache being large   *)
(* enough for all of them.                                                 *)
(***************************************************************************)
EXTENDS Integers, Sequences, FiniteSetsExt

CONSTANTS Proc,
          NINODES,  \* sb.ninodes - 1: inodes are numbered from 1, the root
          Name,     \* names other than "." and ".."
          Call      \* bound: the system calls made, with their path, and link()'s
                    \* second; a path is its elements, after "/" if absolute

Root == 1
Inum == 1 .. NINODES
NoEntries == [n \in Name \cup {".", ".."} |-> 0]
Uncached == [ref |-> 0, busy |-> FALSE, valid |-> FALSE, type |-> "free", nlink |-> 0]

VARIABLES
  dinode,    \* struct dinode: type and nlink of each inode
  dir,       \* the entries of each directory
  icache,    \* struct inode: ref, I_BUSY, I_VALID, and the copy of dinode
  ofile,     \* the inode a process has open, or 0
  cwd,       \* proc->cwd
  th,        \* each process in a system call: where it is, the call, the path
             \* still to walk, the second path, the inodes it points to, and as
             \* history whether it has gone through the ".." of a removed directory
  freeing,   \* the inode whose last reference iput() is giving up, or 0 ...
  trunc,     \* ... and whether itrunc() is still to be done
  lost,      \* history: inodes entered in a removed directory, and the directory if its
             \* own link count went up with that
  panicked

vars == <<dinode, dir, icache, ofile, cwd, th, freeing, trunc, lost, panicked>>

Idle == [pc |-> "idle", op |-> "none", todo |-> <<>>, new |-> <<>>, at |-> 0, ip |-> 0,
         astray |-> FALSE]

Init ==
  /\ dinode = [i \in Inum |-> IF i = Root THEN [type |-> "dir", nlink |-> 1]
                                          ELSE [type |-> "free", nlink |-> 0]]
  /\ dir = [i \in Inum |-> IF i = Root THEN [NoEntries EXCEPT !["."] = Root, ![".."] = Root]
                                       ELSE NoEntries]
  /\ icache = [i \in Inum |-> [Uncached EXCEPT !.ref = IF i = Root THEN Cardinality(Proc) ELSE 0]]
  /\ ofile = [p \in Proc |-> 0] /\ cwd = [p \in Proc |-> Root]
  /\ th = [p \in Proc |-> Idle]
  /\ freeing = [p \in Proc |-> 0] /\ trunc = [p \in Proc |-> FALSE]
  /\ lost = {}
  /\ panicked = FALSE

\* A directory that no name leads to any more.
Removed(i) == i # Root /\ \A d \in Inum, n \in Name : dir[d][n] # i

-----------------------------------------------------------------------------
(* The inode cache, as functions on icache.                                *)

idup(c, i) == [c EXCEPT ![i].ref = @ + 1]

iget(c, i) == IF c[i].ref > 0 THEN idup(c, i) ELSE [c EXCEPT ![i] = [Uncached EXCEPT !.ref = 1]]

\* What ilock() leaves in the entry, besides I_BUSY.
ilock(c, i) == [c EXCEPT ![i].valid = TRUE,
                         ![i].type  = IF c[i].valid THEN @ ELSE dinode[i].type,
                         ![i].nlink = IF c[i].valid THEN @ ELSE dinode[i].nlink]
\* I_BUSY, where it stays set from one step to the next; iunlock() clears it.
Busy(c, i, b) == [c EXCEPT ![i].busy = b]
iunlock(c, i) == Busy(c, i, FALSE)

iupdate(d, c, i) == [d EXCEPT ![i] = [type |-> c[i].type, nlink |-> c[i].nlink]]

Unref(c, i) == IF c[i].ref = 1 THEN [c EXCEPT ![i] = Uncached] ELSE [c EXCEPT ![i].ref = @ - 1]

\* Variants: iput() does not look at ref; iput() looks for the value after the decrement.
LastRef_any(c, i) == c[i].valid /\ c[i].nlink = 0
LastRef_zero(c, i) == c[i].ref = 0 /\ c[i].valid /\ c[i].nlink = 0
LastRef(c, i) == c[i].ref = 1 /\ c[i].valid /\ c[i].nlink = 0

\* The panic "ilock: no type", or another one of the caller.
Panics(c, bad) == bad \/ \E i \in Inum : c[i].valid /\ c[i].type = "free"

\* The step ends with the cache c.
Keep(c, bad) == icache' = c /\ panicked' = Panics(c, bad) /\ UNCHANGED <<freeing, trunc>>

\* The step ends with iput(i) on the cache c, up to the itrunc() of a last reference.
iput(p, c, i, bad) ==
  /\ icache' = IF LastRef(c, i) THEN Busy(c, i, TRUE) ELSE Unref(c, i)
  /\ freeing' = [freeing EXCEPT ![p] = IF LastRef(c, i) THEN i ELSE 0]
  /\ trunc' = [trunc EXCEPT ![p] = LastRef(c, i)]
  /\ panicked' = Panics(c, bad \/ (LastRef(c, i) /\ c[i].busy))

\* itrunc(), and the inode is free on the disk.
iput_trunc(p) ==
  /\ trunc[p] /\ ~panicked
  /\ dir' = [dir EXCEPT ![freeing[p]] = NoEntries]
  /\ dinode' = [dinode EXCEPT ![freeing[p]] = [type |-> "free", nlink |-> 0]]
  /\ trunc' = [trunc EXCEPT ![p] = FALSE] /\ lost' = lost \ {freeing[p]}
  /\ UNCHANGED <<icache, ofile, cwd, th, freeing, panicked>>

\* The rest of iput(), with icache.lock again.
iput_done(p) ==
  /\ freeing[p] # 0 /\ ~trunc[p] /\ ~panicked
  /\ icache' = Unref([icache EXCEPT ![freeing[p]].busy = FALSE, ![freeing[p]].valid = FALSE],
                     freeing[p])
  /\ freeing' = [freeing EXCEPT ![p] = 0]
  /\ UNCHANGED <<dinode, dir, ofile, cwd, th, trunc, lost, panicked>>

-----------------------------------------------------------------------------
(* System calls and path names.                                            *)

At(p, l) == th[p].pc = l /\ freeing[p] = 0 /\ ~panicked
Goto(p, l) == th' = [th EXCEPT ![p].pc = l]
Return(p) == th' = [th EXCEPT ![p] = Idle]

Creates == {"creat", "mkdir", "mknod"}
TypeOf(op) == CASE op = "mkdir" -> "dir" [] op = "mknod" -> "dev" [] OTHER -> "file"

\* namex() is asked for the parent; link() asks for it with its second path.
Nameiparent(t) == t.op \in Creates \cup {"unlink"} \/ t.ip # 0
Absolute(path) == path # <<>> /\ Head(path) = "/"
Elements(path) == IF Absolute(path) THEN Tail(path) ELSE path
Start(p, path) == IF Absolute(path) THEN Root ELSE cwd[p]

\* The calls there are.
Ops == Creates \cup {"open", "openw", "chdir", "link", "unlink"}

\* A path is made of names, "." and "..", and there are finitely many names.
ASSUME FsAssumption ==
  /\ IsFiniteSet(Proc) /\ IsFiniteSet(Name) /\ NINODES \in Nat \ {0}
  /\ Name \cap {".", ".."} = {}
  /\ \A a \in Call : /\ a.op \in Ops
                     /\ {Elements(a.path), Elements(a.new)} \subseteq Seq(Name \cup {".", ".."})

\* Where namex() goes on when the path that is left is rest.
Walk(rest, parent) == IF rest = <<>> /\ ~parent THEN "got" ELSE "namex"

\* Bound: a free inode is left for every call that may allocate one.
Room == Cardinality({p \in Proc : th[p].op \in Creates}) <
        Cardinality({i \in Inum : dinode[i].type = "free"})

syscall(p) == \E a \in Call :
  LET t == [Idle EXCEPT !.op = a.op, !.todo = Elements(a.path), !.at = Start(p, a.path),
                        !.new = a.new]
  IN /\ At(p, "idle") /\ (a.op \in Creates => Room)
     /\ th' = [th EXCEPT ![p] = [t EXCEPT !.pc = Walk(t.todo, Nameiparent(t))]]
     /\ Keep(iget(icache, t.at), FALSE)
     /\ UNCHANGED <<dinode, dir, ofile, cwd, lost>>

\* What becomes of a call whose path leads nowhere.
Fail(p) == IF th[p].ip # 0 THEN th' = [th EXCEPT ![p].pc = "link_bad", ![p].at = 0] ELSE Return(p)

\* One turn of namex()'s loop, or its end for an empty path.
namex(p) ==
  LET t == th[p]  i == t.at  c == ilock(icache, i)  parent == Nameiparent(t)
      next == IF t.todo = <<>> THEN 0 ELSE dir[i][Head(t.todo)]
  IN /\ At(p, "namex") /\ (t.todo # <<>> => ~icache[i].busy)
     /\ \/ /\ t.todo = <<>>
           /\ iput(p, icache, i, FALSE) /\ Fail(p)
        \/ /\ t.todo # <<>> /\ c[i].type = "dir" /\ parent /\ Len(t.todo) = 1
           /\ Keep(c, FALSE) /\ Goto(p, "got")
        \/ /\ t.todo # <<>> /\ ~(parent /\ Len(t.todo) = 1) /\ c[i].type = "dir" /\ next # 0
           /\ iput(p, iget(c, next), i, FALSE)
           /\ th' = [th EXCEPT ![p].at = next, ![p].todo = Tail(@),
                               ![p].pc = Walk(Tail(t.todo), parent),
                               ![p].astray = @ \/ (Head(t.todo) = ".." /\ Removed(i))]
        \/ /\ t.todo # <<>>
           /\ c[i].type # "dir" \/ (~(parent /\ Len(t.todo) = 1) /\ next = 0)
           /\ iput(p, c, i, FALSE) /\ Fail(p)
     /\ UNCHANGED <<dinode, dir, ofile, cwd, lost>>

\* sys_open() without O_CREATE; "openw" is one with a mode that is not O_RDONLY.
\* A process has room for one open file: filealloc() or fdalloc() fails on a second.
sys_open(p) ==
  LET i == th[p].at  c == ilock(icache, i)
  IN /\ At(p, "got") /\ th[p].op \in {"open", "openw"} /\ ~icache[i].busy
     /\ IF (c[i].type = "dir" /\ th[p].op = "openw") \/ ofile[p] # 0
        THEN iput(p, c, i, FALSE) /\ UNCHANGED ofile
        ELSE Keep(c, FALSE) /\ ofile' = [ofile EXCEPT ![p] = i]
     /\ Return(p)
     /\ UNCHANGED <<dinode, dir, cwd, lost>>

\* sys_close() and the iput() of fileclose().
sys_close(p) ==
  /\ At(p, "idle") /\ ofile[p] # 0
  /\ iput(p, icache, ofile[p], FALSE)
  /\ ofile' = [ofile EXCEPT ![p] = 0]
  /\ UNCHANGED <<dinode, dir, cwd, th, lost>>

sys_chdir(p) ==
  LET i == th[p].at  c == ilock(icache, i)
  IN /\ At(p, "got") /\ th[p].op = "chdir" /\ ~icache[i].busy
     /\ IF c[i].type = "dir" THEN Keep(c, FALSE) /\ Goto(p, "chdir_put")
                             ELSE iput(p, c, i, FALSE) /\ Return(p)
     /\ UNCHANGED <<dinode, dir, ofile, cwd, lost>>

\* Variant: the old directory is not put.
sys_chdir_put_leak(p) ==
  /\ At(p, "chdir_put")
  /\ Keep(icache, FALSE)
  /\ cwd' = [cwd EXCEPT ![p] = th[p].at] /\ Return(p)
  /\ UNCHANGED <<dinode, dir, ofile, lost>>

sys_chdir_put(p) ==
  /\ At(p, "chdir_put")
  /\ iput(p, icache, cwd[p], FALSE)
  /\ cwd' = [cwd EXCEPT ![p] = th[p].at] /\ Return(p)
  /\ UNCHANGED <<dinode, dir, ofile, lost>>

\* Variant: sys_link() does not count the new link.
AddLink_drop(c, i, k) == IF c[i].type = "file" /\ k = 1 THEN c ELSE [c EXCEPT ![i].nlink = @ + k]
AddLink(c, i, k) == [c EXCEPT ![i].nlink = @ + k]

\* sys_link() counts the link, and begins to look for the directory.
sys_link(p) ==
  LET t == th[p]  i == t.at  c == ilock(icache, i)  c1 == AddLink(c, i, 1)  d == Start(p, t.new)
  IN /\ At(p, "got") /\ t.op = "link" /\ t.ip = 0 /\ ~icache[i].busy
     /\ IF c[i].type = "dir"
        THEN iput(p, c, i, FALSE) /\ Return(p) /\ UNCHANGED dinode
        ELSE /\ Keep(iget(c1, d), FALSE)
             /\ dinode' = iupdate(dinode, c1, i)
             /\ th' = [th EXCEPT ![p].pc = "namex", ![p].ip = i, ![p].at = d,
                                 ![p].todo = Elements(t.new)]
     /\ UNCHANGED <<dir, ofile, cwd, lost>>

\* dirlink() of the new name, or "goto bad".
sys_link_dir(p) ==
  LET t == th[p]  d == t.at  c == ilock(icache, d)  name == t.todo[1]
  IN /\ At(p, "got") /\ t.ip # 0 /\ ~icache[d].busy
     /\ iput(p, c, d, c[d].type # "dir")
     /\ dir' = IF dir[d][name] = 0 THEN [dir EXCEPT ![d][name] = t.ip] ELSE dir
     /\ lost' = IF dir[d][name] = 0 /\ Removed(d) THEN lost \cup {t.ip} ELSE lost
     /\ th' = [th EXCEPT ![p].at = 0, ![p].pc = IF dir[d][name] = 0 THEN "link_put" ELSE "link_bad"]
     /\ UNCHANGED <<dinode, ofile, cwd>>

sys_link_put(p) ==
  /\ At(p, "link_put")
  /\ iput(p, icache, th[p].ip, FALSE) /\ Return(p)
  /\ UNCHANGED <<dinode, dir, ofile, cwd, lost>>

sys_link_bad(p) ==
  LET i == th[p].ip  c == AddLink(ilock(icache, i), i, -1)
  IN /\ At(p, "link_bad") /\ ~icache[i].busy
     /\ dinode' = iupdate(dinode, c, i)
     /\ iput(p, c, i, FALSE) /\ Return(p)
     /\ UNCHANGED <<dir, ofile, cwd, lost>>

\* sys_unlink() up to the lock of the inode to unlink; the directory stays locked.
sys_unlink(p) ==
  LET d == th[p].at  c == ilock(icache, d)  name == th[p].todo[1]  i == dir[d][name]
  IN /\ At(p, "got") /\ th[p].op = "unlink" /\ ~icache[d].busy
     /\ IF name \in {".", ".."} \/ i = 0
        THEN iput(p, c, d, c[d].type # "dir") /\ Return(p)
        ELSE /\ Keep(iget(Busy(c, d, TRUE), i), c[d].type # "dir")
             /\ th' = [th EXCEPT ![p].pc = "unlink_ip", ![p].ip = i]
     /\ UNCHANGED <<dinode, dir, ofile, cwd, lost>>

isdirempty(d) == \A n \in Name : dir[d][n] = 0

\* The entry goes, and the directory is unlocked; a full directory stays.
sys_unlink_ip(p) ==
  LET d == th[p].at  i == th[p].ip  c == ilock(icache, i)
      isdir == c[i].type = "dir"
      c1 == IF isdir THEN AddLink(c, d, -1) ELSE c
  IN /\ At(p, "unlink_ip") /\ ~icache[i].busy
     /\ IF isdir /\ ~isdirempty(i)
        THEN /\ iput(p, c, i, c[i].nlink < 1)
             /\ th' = [th EXCEPT ![p].pc = "unlink_bad", ![p].ip = 0]
             /\ UNCHANGED <<dinode, dir>>
        ELSE /\ iput(p, iunlock(Busy(c1, i, TRUE), d), d, c[i].nlink < 1)
             /\ th' = [th EXCEPT ![p].pc = "unlink_end", ![p].at = 0]
             /\ dir' = [dir EXCEPT ![d][th[p].todo[1]] = 0]
             /\ dinode' = iupdate(dinode, c1, d)
     /\ UNCHANGED <<ofile, cwd, lost>>

sys_unlink_bad(p) ==
  /\ At(p, "unlink_bad")
  /\ iput(p, iunlock(icache, th[p].at), th[p].at, FALSE) /\ Return(p)
  /\ UNCHANGED <<dinode, dir, ofile, cwd, lost>>

sys_unlink_end(p) ==
  LET i == th[p].ip  c == AddLink(iunlock(icache, i), i, -1)
  IN /\ At(p, "unlink_end")
     /\ dinode' = iupdate(dinode, c, i)
     /\ iput(p, c, i, FALSE) /\ Return(p)
     /\ UNCHANGED <<dir, ofile, cwd, lost>>

\* sys_open(), sys_mkdir() and sys_mknod() with the inode i that create() returns
\* locked, in the cache c.
Created(p, c, i) ==
  /\ IF th[p].op = "creat" /\ ofile[p] = 0
     THEN Keep(iunlock(c, i), FALSE) /\ ofile' = [ofile EXCEPT ![p] = i]
     ELSE iput(p, iunlock(c, i), i, FALSE) /\ UNCHANGED ofile
  /\ Return(p)

ialloc == Min({i \in Inum : dinode[i].type = "free"})

\* create() up to the lock of the inode: the old one, or a new one with the
\* directory still locked.
create(p) ==
  LET t == th[p]  d == t.at  c == ilock(icache, d)  i == dir[d][t.todo[1]]
  IN /\ At(p, "got") /\ t.op \in Creates /\ ~icache[d].busy
     /\ IF i # 0
        THEN /\ iput(p, iget(c, i), d, c[d].type # "dir")
             /\ th' = [th EXCEPT ![p].pc = "create_old", ![p].at = 0, ![p].ip = i]
             /\ UNCHANGED dinode
        ELSE /\ Keep(iget(Busy(c, d, TRUE), ialloc), c[d].type # "dir")
             /\ dinode' = [dinode EXCEPT ![ialloc] = [type |-> TypeOf(t.op), nlink |-> 0]]
             /\ th' = [th EXCEPT ![p].pc = "create_new", ![p].ip = ialloc]
     /\ UNCHANGED <<dir, ofile, cwd, lost>>

create_old(p) ==
  LET i == th[p].ip  c == ilock(icache, i)
  IN /\ At(p, "create_old") /\ ~icache[i].busy
     /\ IF th[p].op = "creat" /\ c[i].type = "file"
        THEN Created(p, c, i)
        ELSE iput(p, c, i, FALSE) /\ Return(p) /\ UNCHANGED ofile
     /\ UNCHANGED <<dinode, dir, cwd, lost>>

\* The new inode is filled in and entered, and the directory unlocked.
create_new(p) ==
  LET t == th[p]  d == t.at  i == t.ip  isdir == t.op = "mkdir"
      c0 == [ilock(icache, i) EXCEPT ![i].nlink = 1]
      c == IF isdir THEN AddLink(c0, d, 1) ELSE c0
      dots == IF isdir THEN [dir EXCEPT ![i]["."] = i, ![i][".."] = d] ELSE dir
  IN /\ At(p, "create_new") /\ ~icache[i].busy
     /\ dinode' = iupdate(iupdate(dinode, c, i), c, d)
     /\ dir' = [dots EXCEPT ![d][t.todo[1]] = i]
     /\ lost' = IF Removed(d) THEN lost \cup {i} \cup (IF isdir THEN {d} ELSE {}) ELSE lost
     /\ iput(p, iunlock(Busy(c, i, TRUE), d), d,
             (isdir /\ (dir[i]["."] # 0 \/ dir[i][".."] # 0)) \/ dir[d][t.todo[1]] # 0)
     /\ th' = [th EXCEPT ![p].pc = "create_end", ![p].at = 0]
     /\ UNCHANGED <<ofile, cwd>>

create_end(p) ==
  /\ At(p, "create_end")
  /\ Created(p, icache, th[p].ip)
  /\ UNCHANGED <<dinode, dir, cwd, lost>>

Run(p) ==
  \/ iput_trunc(p) \/ iput_done(p) \/ namex(p)
  \/ sys_open(p) \/ sys_chdir(p) \/ sys_chdir_put(p)
  \/ sys_link(p) \/ sys_link_dir(p) \/ sys_link_put(p) \/ sys_link_bad(p)
  \/ sys_unlink(p) \/ sys_unlink_ip(p) \/ sys_unlink_bad(p) \/ sys_unlink_end(p)
  \/ create(p) \/ create_old(p) \/ create_new(p) \/ create_end(p)

\* panic() never returns.
panic == panicked /\ UNCHANGED vars

Next == panic \/ \E p \in Proc : Run(p) \/ syscall(p) \/ sys_close(p)

Spec == Init /\ [][Next]_vars

-----------------------------------------------------------------------------
(* Properties.                                                             *)

\* None of the panics of ilock, iput, dirlookup, unlink and create is reached but one: a
\* process in a directory that was removed follows its "..", which is no link, and finds
\* that its parent has been freed too (ilock's "no type").
OnlyAstrayPanics == [][panicked' =>
  \E p \in Proc : th[p].astray /\ dinode[th[p].at].type = "free"]_vars

\* ip->ref is the number of pointers to the entry: open files, current
\* directories, and what the system calls under way hold (fs.c:120).
RefCounts == \A i \in Inum : icache[i].ref =
  LET Ps(S) == Cardinality({p \in Proc : i \in S[p]})
  IN Ps([p \in Proc |-> {cwd[p]}]) + Ps([p \in Proc |-> {ofile[p]}])
     + Ps([p \in Proc |-> {th[p].at}]) + Ps([p \in Proc |-> {th[p].ip}])
     + Ps([p \in Proc |-> {freeing[p]}])

\* A directory entry leads to an allocated inode, whose link count on the disk is at least
\* the number of its entries: what a name leads to is never freed.  When no call is changing
\* it the count is exact, a directory's with its subdirectories' ".." (and one for the root),
\* unless a name was made in a directory that had been removed.
EntriesAreLinks == \A i \in Inum :
  LET E == {e \in Inum \X Name : dir[e[1]][e[2]] = i}
      subdirs == {n \in Name : dir[i][n] # 0 /\ dinode[dir[i][n]].type = "dir"}
      n == Cardinality(E) + Cardinality(subdirs) + IF i = Root THEN 1 ELSE 0
  IN /\ E # {} => dinode[i].type # "free" /\ dinode[i].nlink >= Cardinality(E)
     /\ i \notin lost /\ (\A p \in Proc : th[p].ip # i) => dinode[i].nlink = n

\* An inode that no name leads to is free as soon as nothing points to it: iput() and the
\* failure paths of link() and create() forget none.  Only what was entered in a directory
\* that had been removed may stay, with a link count that is never taken back.
NamelessIsFreed == \A i \in Inum \ lost :
  dinode[i].type # "free" /\ Removed(i) => icache[i].ref > 0
=============================================================================
