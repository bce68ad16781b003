--------------------------------- MODULE Sh ---------------------------------
(***************************************************************************)
(* The shell's runcmd() (sh.c) on the file table (file.c), the descriptor  *)
(* calls (sysfile.c), pipe creation and closing (pipe.c), and the sharing  *)
(* of descriptors by fork(), exit() and wait() (proc.c).  A process is the *)
(* list of what it has still to do, mostly system calls, each one step;    *)
(* pipe() and open() are a step for each table they take from, with their  *)
(* local variables as arguments of the next step, and fileclose() gives up *)
(* ftable.lock before it closes what is behind the file.  The programs     *)
(* that the shell runs are external: they write a little, copy their input *)
(* to its end, use up their descriptors, or do nothing.                    *)
(***************************************************************************)
EXTENDS Integers, Sequences, FiniteSetsExt

CONSTANTS NPROC, NFILE, NOFILE, NPIPE,
          PIPESIZE,
          Inode,      \* the files that commands name, "console" among them
          Cmds        \* bound: the commands typed, as parsecmd() returns them

Proc == 1 .. NPROC    \* 1 is the shell
File == 1 .. NFILE
Fd == 0 .. NOFILE - 1
Pipes == 1 .. NPIPE
NoFile == [ref |-> 0, type |-> "none", pipe |-> 0, writable |-> FALSE, name |-> "none"]
NoPipe == [readopen |-> FALSE, writeopen |-> FALSE, n |-> 0, node |-> "none"]

VARIABLES
  ftable,     \* struct file
  pipes,      \* struct pipe, with the name of the command that made it
  ofile,      \* the descriptors of each process
  iref,       \* how many references to an inode files and open() have
  closing,    \* fileclose()'s ff, whose pipe end or inode it has still to give up
  todo,       \* what each process has still to do; <<>> in a free slot
  fds,        \* runcmd()'s p[2]
  parent,     \* proc->parent, 0 for init
  exited,     \* zombies
  prog,       \* the program that each process runs
  failed      \* a fork, pipe or open of the shell has failed since getcmd()

kernel == <<ftable, pipes, ofile, iref, closing>>
vars == <<kernel, todo, fds, parent, exited, prog, failed>>

P0 == -1              \* p[0] and p[1] as arguments of close() and dup()
P1 == -2
Op(op, arg) == [op |-> op, arg |-> arg]
Console == [NoFile EXCEPT !.ref = 3, !.type = "inode", !.name = "console"]

Init ==
  /\ ftable = [f \in File |-> IF f = 1 THEN Console ELSE NoFile]
  /\ pipes = [k \in Pipes |-> NoPipe]
  /\ iref = [n \in Inode |-> IF n = "console" THEN 1 ELSE 0]
  /\ ofile = [p \in Proc |-> [d \in Fd |-> IF p = 1 /\ d < 3 THEN 1 ELSE 0]]
  /\ closing = [p \in Proc |-> NoFile]
  /\ todo = [p \in Proc |-> IF p = 1 THEN <<Op("getcmd", 0)>> ELSE <<>>]
  /\ fds = [p \in Proc |-> <<0, 0>>]
  /\ parent = [p \in Proc |-> 0] /\ exited = {}
  /\ prog = [p \in Proc |-> "none"] /\ failed = FALSE

-----------------------------------------------------------------------------
(* Files and descriptors.                                                  *)

\* p is about to do op.
At(p, op) == todo[p] # <<>> /\ Head(todo[p]).op = op /\ closing[p] = NoFile
Arg(p) == Head(todo[p]).arg
Do(p, ops) == todo' = [todo EXCEPT ![p] = ops \o Tail(@)]
Then(p, ops) == todo' = [todo EXCEPT ![p] = ops]
Done(p) == Do(p, <<>>) /\ UNCHANGED failed
\* A call fails, once ops are done: the shell's panic() exits, other programs go on.
Fail(p, ops) == LET shell == prog[p] = "none"
                IN /\ Then(p, ops \o (IF shell THEN <<Op("exit", 0)>> ELSE Tail(todo[p])))
                   /\ failed' = (failed \/ shell)
panic(p) == Fail(p, <<>>)

\* fdalloc(): the lowest free descriptor, or -1.
fdalloc(of) == IF \E d \in Fd : of[d] = 0 THEN Min({d \in Fd : of[d] = 0}) ELSE -1
FreeFiles == {f \in File : ftable[f].ref = 0}
filealloc == Min(FreeFiles)
filedup(t, f) == [t EXCEPT ![f].ref = @ + 1]

\* fileclose(f) by p, up to the pipeclose() of the last reference.
fileclose(p, f) ==
  LET last == ftable[f].ref = 1
  IN /\ ftable' = [ftable EXCEPT ![f] = IF last THEN NoFile ELSE [@ EXCEPT !.ref = @ - 1]]
     /\ closing' = IF last /\ ftable[f].type # "none" THEN [closing EXCEPT ![p] = ftable[f]] ELSE closing

pipeclose(p) ==
  LET c == closing[p]  k == c.pipe
      q == IF c.writable THEN [pipes[k] EXCEPT !.writeopen = FALSE]
                         ELSE [pipes[k] EXCEPT !.readopen = FALSE]
  IN /\ c.type = "pipe"
     /\ pipes' = [pipes EXCEPT ![k] = IF q.readopen \/ q.writeopen THEN q ELSE NoPipe]
     /\ closing' = [closing EXCEPT ![p] = NoFile]
     /\ UNCHANGED <<ftable, ofile, iref, todo, fds, parent, exited, prog, failed>>

\* The iput() of an inode's last file.
fileclose_iput(p) ==
  /\ closing[p].type = "inode"
  /\ iref' = [iref EXCEPT ![closing[p].name] = @ - 1]
  /\ closing' = [closing EXCEPT ![p] = NoFile]
  /\ UNCHANGED <<ftable, pipes, ofile, todo, fds, parent, exited, prog, failed>>

\* A descriptor named in a script: a number, or p[0] or p[1].
Desc(p) == CASE Arg(p) = P0 -> fds[p][1] [] Arg(p) = P1 -> fds[p][2] [] OTHER -> Arg(p)

sys_close(p) ==
  LET d == Desc(p)
  IN /\ At(p, "close")
     /\ IF ofile[p][d] = 0 THEN UNCHANGED <<ftable, ofile, closing>>
        ELSE fileclose(p, ofile[p][d]) /\ ofile' = [ofile EXCEPT ![p][d] = 0]
     /\ Done(p)
     /\ UNCHANGED <<pipes, iref, fds, parent, exited, prog>>

sys_dup(p) ==
  LET f == ofile[p][Desc(p)]  d == fdalloc(ofile[p])
  IN /\ At(p, "dup")
     /\ IF d < 0 \/ f = 0 THEN UNCHANGED <<ftable, ofile>>
        ELSE ofile' = [ofile EXCEPT ![p][d] = f] /\ ftable' = filedup(ftable, f)
     /\ Done(p)
     /\ UNCHANGED <<pipes, iref, closing, fds, parent, exited, prog>>

-----------------------------------------------------------------------------
(* open() and pipe(), with their local variables: the inode or the command  *)
(* they are for, and the files they have.                                   *)

Local(name, rf, wf) == [name |-> name, rf |-> rf, wf |-> wf]
Become(p, op, arg) == Do(p, <<Op(op, arg)>>) /\ UNCHANGED failed
Allocated(f) == [ftable EXCEPT ![f].ref = 1]

\* The files that op has and no descriptor leads to, and the inodes that no file leads to.
FilesOf(o) == IF o.op \in {"pipe_wf", "pipe_fds", "open_fd", "fclose"} THEN {o.arg.rf, o.arg.wf} \ {0} ELSE {}
InodesOf(o) == IF o.op \in {"open_file", "open_fd"} THEN {o.arg.name} ELSE {}

\* sys_open() of a file that is there or can be created, up to the inode.
sys_open(p) ==
  /\ At(p, "open")
  /\ iref' = [iref EXCEPT ![Arg(p)] = @ + 1]
  /\ Become(p, "open_file", Local(Arg(p), 0, 0))
  /\ UNCHANGED <<ftable, pipes, ofile, closing, fds, parent, exited, prog>>

\* The filealloc() of sys_open(), or iunlockput().
sys_open_file(p) ==
  LET n == Arg(p).name
  IN /\ At(p, "open_file")
     /\ IF FreeFiles = {}
        THEN Fail(p, <<>>) /\ iref' = [iref EXCEPT ![n] = @ - 1] /\ UNCHANGED ftable
        ELSE /\ ftable' = Allocated(filealloc)
             /\ Become(p, "open_fd", Local(n, filealloc, 0)) /\ UNCHANGED iref
     /\ UNCHANGED <<pipes, ofile, closing, fds, parent, exited, prog>>

\* The fdalloc() of sys_open(), or fileclose() and iunlockput().
sys_open_fd(p) ==
  LET n == Arg(p).name  f == Arg(p).rf  d == fdalloc(ofile[p])
  IN /\ At(p, "open_fd")
     /\ IF d < 0
        THEN /\ fileclose(p, f) /\ iref' = [iref EXCEPT ![n] = @ - 1]
             /\ Fail(p, <<>>) /\ UNCHANGED ofile
        ELSE /\ ftable' = [ftable EXCEPT ![f] = [@ EXCEPT !.type = "inode", !.name = n]]
             /\ ofile' = [ofile EXCEPT ![p][d] = f]
             /\ Done(p) /\ UNCHANGED <<iref, closing>>
     /\ UNCHANGED <<pipes, fds, parent, exited, prog>>

\* sys_pipe(): pipealloc()'s first filealloc().
sys_pipe(p) ==
  /\ At(p, "pipe")
  /\ IF FreeFiles = {} THEN Fail(p, <<>>) /\ UNCHANGED ftable
     ELSE ftable' = Allocated(filealloc) /\ Become(p, "pipe_wf", Local(Arg(p), filealloc, 0))
  /\ UNCHANGED <<pipes, ofile, iref, closing, fds, parent, exited, prog>>

\* The second filealloc(), or the fileclose() of the first file.
pipealloc_wf(p) ==
  LET a == Arg(p)
  IN /\ At(p, "pipe_wf")
     /\ IF FreeFiles = {} THEN fileclose(p, a.rf) /\ Fail(p, <<>>)
        ELSE /\ ftable' = Allocated(filealloc)
             /\ Become(p, "pipe_fds", Local(a.name, a.rf, filealloc)) /\ UNCHANGED closing
     /\ UNCHANGED <<pipes, ofile, iref, fds, parent, exited, prog>>

\* Variant: only the first file is closed when pipe() fails.
CloseBoth_first(rf, wf) == <<Op("fclose", Local("none", rf, 0))>>

\* The two fileclose() of a pipe() that fails.
CloseBoth(rf, wf) == <<Op("fclose", Local("none", rf, 0)), Op("fclose", Local("none", wf, 0))>>

\* The kalloc() of the pipe, and sys_pipe()'s two fdalloc(), the first of which is undone when
\* the second fails.
sys_pipe_fds(p) ==
  LET rf == Arg(p).rf  wf == Arg(p).wf
      K == {k \in Pipes : pipes[k] = NoPipe}  k == Min(K)
      d0 == fdalloc(ofile[p])  d1 == fdalloc([ofile[p] EXCEPT ![d0] = rf])
      end(w) == [NoFile EXCEPT !.ref = 1, !.type = "pipe", !.pipe = k, !.writable = w]
  IN /\ At(p, "pipe_fds")
     /\ IF K = {} THEN Fail(p, CloseBoth(rf, wf)) /\ UNCHANGED <<ftable, pipes, ofile, fds>>
        ELSE /\ ftable' = [ftable EXCEPT ![rf] = end(FALSE), ![wf] = end(TRUE)]
             /\ pipes' = [pipes EXCEPT ![k] = [readopen |-> TRUE, writeopen |-> TRUE, n |-> 0,
                                               node |-> Arg(p).name]]
             /\ IF Cardinality({d \in Fd : ofile[p][d] = 0}) < 2
                THEN Fail(p, CloseBoth(rf, wf)) /\ UNCHANGED <<ofile, fds>>
                ELSE /\ ofile' = [ofile EXCEPT ![p][d0] = rf, ![p][d1] = wf]
                     /\ fds' = [fds EXCEPT ![p] = <<d0, d1>>]
                     /\ Done(p)
     /\ UNCHANGED <<iref, closing, parent, exited, prog>>

\* A fileclose() of a failing pipe().
pipe_bad(p) ==
  /\ At(p, "fclose") /\ fileclose(p, Arg(p).rf) /\ Done(p)
  /\ UNCHANGED <<pipes, ofile, iref, fds, parent, exited, prog>>

-----------------------------------------------------------------------------
(* Processes.                                                              *)

FreeProcs == {q \in Proc : todo[q] = <<>> /\ q \notin exited}

\* fork1(); the child's script is the argument.
fork1(p) ==
  LET np == Min(FreeProcs)
      shared == {d \in Fd : ofile[p][d] # 0}
  IN /\ At(p, "fork")
     /\ IF FreeProcs = {} THEN panic(p) /\ UNCHANGED <<ftable, ofile, fds, parent>>
        ELSE /\ todo' = [todo EXCEPT ![p] = Tail(@), ![np] = Arg(p)]
             /\ ofile' = [ofile EXCEPT ![np] = ofile[p]]
             /\ ftable' = [f \in File |-> [ftable[f] EXCEPT
                             !.ref = @ + Cardinality({d \in shared : ofile[p][d] = f})]]
             /\ fds' = [fds EXCEPT ![np] = fds[p]]
             /\ parent' = [parent EXCEPT ![np] = p] /\ UNCHANGED failed
     /\ UNCHANGED <<pipes, iref, closing, exited, prog>>

\* exit() closes the files one by one; then the children go to init.
exit(p) ==
  LET open == {d \in Fd : ofile[p][d] # 0}
  IN /\ At(p, "exit")
     /\ IF open # {}
        THEN /\ fileclose(p, ofile[p][Min(open)])
             /\ ofile' = [ofile EXCEPT ![p][Min(open)] = 0]
             /\ UNCHANGED <<todo, fds, parent, exited, prog>>
        ELSE /\ exited' = exited \cup {p} /\ Then(p, <<>>)
             /\ parent' = [q \in Proc |-> IF parent[q] = p THEN 0 ELSE parent[q]]
             /\ fds' = [fds EXCEPT ![p] = <<0, 0>>] /\ prog' = [prog EXCEPT ![p] = "none"]
             /\ UNCHANGED <<ftable, ofile, closing>>
     /\ UNCHANGED <<pipes, iref, failed>>

Children(p) == {q \in Proc : parent[q] = p /\ (todo[q] # <<>> \/ q \in exited)}

\* Variant: wait() returns although the children still run.
wait_nohang(p) ==
  /\ At(p, "wait")
  /\ LET Z == Children(p) \cap exited
     IN IF Z = {} THEN UNCHANGED <<parent, exited>>
        ELSE \E q \in Z : exited' = exited \ {q} /\ parent' = [parent EXCEPT ![q] = 0]
  /\ Done(p)
  /\ UNCHANGED <<kernel, fds, prog>>

\* wait() takes one zombie, or returns -1 when there are no children.
wait(p) ==
  /\ At(p, "wait")
  /\ IF Children(p) = {} THEN UNCHANGED <<parent, exited>>
     ELSE \E q \in Children(p) \cap exited :
            exited' = exited \ {q} /\ parent' = [parent EXCEPT ![q] = 0]
  /\ Done(p)
  /\ UNCHANGED <<kernel, fds, prog>>

\* init's wait().
init_wait == \E q \in exited :
  /\ parent[q] = 0 /\ exited' = exited \ {q}
  /\ UNCHANGED <<kernel, todo, fds, parent, prog, failed>>

-----------------------------------------------------------------------------
(* The shell.                                                              *)

Call(op, arg) == <<Op(op, arg)>>
Run(c) == Call("run", c)
\* Variant: the child keeps both ends of the pipe.
Pair_keep(d) == Call("close", d) \o Call("dup", IF d = 1 THEN P1 ELSE P0)
\* What a child of a pipeline does before its runcmd().
Pair(d) == Call("close", d) \o Call("dup", IF d = 1 THEN P1 ELSE P0)
           \o Call("close", P0) \o Call("close", P1)

\* What runcmd() does with each type of command.
Script(c) ==
  CASE c.type = "EXEC" -> Call("exec", c)
    [] c.type = "REDIR" -> Call("close", c.fd) \o Call("open", c.file) \o Run(c.cmd)
    [] c.type = "LIST" -> Call("fork", Run(c.left)) \o Call("wait", 0) \o Run(c.right)
    [] c.type = "PIPE" -> Call("pipe", c.node) \o Call("fork", Pair(1) \o Run(c.left))
                          \o Call("fork", Pair(0) \o Run(c.right))
                          \o Call("close", P0) \o Call("close", P1)
                          \o Call("wait", 0) \o Call("wait", 0) \o Call("exit", 0)
    [] c.type = "BACK" -> Call("fork", Run(c.cmd)) \o Call("exit", 0)

runcmd(p) == /\ At(p, "run") /\ Then(p, Script(Arg(p)))
             /\ UNCHANGED <<kernel, fds, parent, exited, prog, failed>>

\* The programs: two writes; a copy of the input; pipes and files until no descriptor is
\* free; nothing, as when exec() fails.
Program(name) == (CASE name = "gen" -> Call("write", 0) \o Call("write", 0)
                    [] name = "cat" -> Call("read", 0)
                    [] name = "hog" -> Call("pipe", "hog") \o Call("pipe", "hog")
                                       \o Call("open", "in") \o Call("open", "in")
                    [] OTHER -> <<>>) \o Call("exit", 0)

exec(p) == /\ At(p, "exec") /\ Then(p, Program(Arg(p).prog))
           /\ prog' = [prog EXCEPT ![p] = Arg(p).name]
           /\ UNCHANGED <<kernel, fds, parent, exited, failed>>

\* One turn of main()'s loop.  Bound: a command is typed when the processes of the last one,
\* background ones included, are gone, so that main()'s own fork1() finds a slot.
getcmd(p) == \E c \in Cmds :
  /\ At(p, "getcmd") /\ FreeProcs = Proc \ {p}
  /\ Then(p, Call("fork", Run(c)) \o Call("wait", 0) \o Call("getcmd", 0))
  /\ failed' = FALSE
  /\ UNCHANGED <<kernel, fds, parent, exited, prog>>

\* Variant: a read of an empty pipe tries again, whether or not there are writers.
read_noeof(p) ==
  LET k == ftable[ofile[p][0]].pipe
  IN /\ At(p, "read")
     /\ CASE k = 0 -> Do(p, <<>>) /\ UNCHANGED pipes
          [] k # 0 /\ pipes[k].n = 0 -> UNCHANGED <<pipes, todo>>
          [] OTHER -> /\ pipes' = [pipes EXCEPT ![k].n = @ - 1]
                      /\ Do(p, Call("write", 0) \o Call("read", 0))
     /\ UNCHANGED <<ftable, ofile, iref, closing, fds, parent, exited, prog, failed>>

\* A read of descriptor 0: from a pipe it waits for data or for the last writer.
read(p) ==
  LET f == ofile[p][0]  k == ftable[f].pipe
      piped == f # 0 /\ ftable[f].type = "pipe" /\ ~ftable[f].writable
  IN /\ At(p, "read")
     /\ piped => pipes[k].n > 0 \/ ~pipes[k].writeopen
     /\ IF piped /\ pipes[k].n > 0
        THEN /\ pipes' = [pipes EXCEPT ![k].n = @ - 1]
             /\ Do(p, Call("write", 0) \o Call("read", 0))
        ELSE Do(p, <<>>) /\ UNCHANGED pipes
     /\ UNCHANGED <<ftable, ofile, iref, closing, fds, parent, exited, prog, failed>>

\* A write to descriptor 1: to a pipe it waits for room or for the last reader.
write(p) ==
  LET f == ofile[p][1]  k == ftable[f].pipe
      piped == f # 0 /\ ftable[f].type = "pipe" /\ ftable[f].writable
  IN /\ At(p, "write")
     /\ piped => pipes[k].n < PIPESIZE \/ ~pipes[k].readopen
     /\ pipes' = IF piped /\ pipes[k].readopen THEN [pipes EXCEPT ![k].n = @ + 1] ELSE pipes
     /\ Do(p, <<>>)
     /\ UNCHANGED <<ftable, ofile, iref, closing, fds, parent, exited, prog, failed>>

Step(p) == \/ pipeclose(p) \/ fileclose_iput(p) \/ sys_close(p) \/ sys_dup(p)
           \/ sys_open(p) \/ sys_open_file(p) \/ sys_open_fd(p)
           \/ sys_pipe(p) \/ pipealloc_wf(p) \/ sys_pipe_fds(p) \/ pipe_bad(p)
           \/ fork1(p) \/ exit(p) \/ wait(p) \/ runcmd(p) \/ exec(p) \/ read(p) \/ write(p)

Next == init_wait \/ \E p \in Proc : Step(p) \/ getcmd(p)

\* The scheduler runs every process that can run, and init waits.
Spec == Init /\ [][Next]_vars /\ WF_vars(init_wait) /\ \A p \in Proc : WF_vars(Step(p))

-----------------------------------------------------------------------------
(* Properties.                                                             *)

\* f->ref counts the descriptors that lead to the file, and what pipe() or open() has of it
\* while under way; a pipe's end is open, and an inode has a reference, while a file leads
\* to it, its last close is under way, or open() has it: fork(), dup(), close(), exit(), and
\* a pipe() or open() that fails half way for want of a file, a page or a descriptor, lose
\* and keep none.
RefsAreDescriptors ==
  LET Ops == {x \in Proc \X (1 .. 2) : x[2] <= Len(todo[x[1]])}
      o(x) == todo[x[1]][x[2]]
  IN /\ \A f \in File : ftable[f].ref = Cardinality({x \in Proc \X Fd : ofile[x[1]][x[2]] = f})
                                       + Cardinality({x \in Ops : f \in FilesOf(o(x))})
     /\ \A k \in Pipes, w \in BOOLEAN :
          (IF w THEN pipes[k].writeopen ELSE pipes[k].readopen) <=>
            \E c \in {ftable[f] : f \in File} \cup {closing[p] : p \in Proc} :
              c.type = "pipe" /\ c.pipe = k /\ c.writable = w
     /\ \A n \in Inode : iref[n] = Cardinality({f \in File : ftable[f].name = n})
                                   + Cardinality({p \in Proc : closing[p].name = n})
                                   + Cardinality({x \in Ops : n \in InodesOf(o(x))})

\* Where the input and the output of the program called name should go, by the structure
\* of the command c alone.
RECURSIVE Env(_, _, _, _)
Env(c, name, in, out) ==
  CASE c.type = "EXEC" -> IF c.name = name THEN {<<in, out>>} ELSE {}
    [] c.type = "REDIR" -> Env(c.cmd, name, IF c.fd = 0 THEN c.file ELSE in,
                                            IF c.fd = 1 THEN c.file ELSE out)
    [] c.type = "PIPE" -> Env(c.left, name, in, c.node) \cup Env(c.right, name, c.node, out)
    [] c.type = "LIST" -> Env(c.left, name, in, out) \cup Env(c.right, name, in, out)
    [] c.type = "BACK" -> Env(c.cmd, name, in, out)

Goal(p, d) == LET f == ftable[ofile[p][d]] IN IF f.type = "pipe" THEN pipes[f.pipe].node ELSE f.name

\* A program starts with its input, output and errors where the command says, and with no
\* other descriptor: a pipe end that stayed open would keep a reader waiting for ever.
Wired == \A p \in Proc : At(p, "exec") =>
  /\ <<Goal(p, 0), Goal(p, 1)>> \in UNION {Env(c, Arg(p).name, "console", "console") : c \in Cmds}
  /\ Goal(p, 2) = "console" /\ \A d \in Fd : d > 2 => ofile[p][d] = 0

\* The programs of c, and those that must have ended before the one called name starts.
RECURSIVE Programs(_)
Programs(c) == CASE c.type = "EXEC" -> {c.name}
                 [] c.type = "REDIR" -> Programs(c.cmd)
                 [] c.type = "BACK" -> {}
                 [] OTHER -> Programs(c.left) \cup Programs(c.right)
RECURSIVE Before(_, _)
Before(c, name) ==
  CASE c.type = "EXEC" -> {}
    [] c.type \in {"REDIR", "BACK"} -> Before(c.cmd, name)
    [] c.type = "PIPE" -> Before(c.left, name) \cup Before(c.right, name)
    [] c.type = "LIST" -> Before(c.left, name) \cup Before(c.right, name)
                          \cup (IF name \in Programs(c.right) THEN Programs(c.left) ELSE {})

\* In "a ; b" no program of a runs any more when one of b does, background ones apart,
\* unless a fork, pipe or open of the shell failed: each wait() waits for the right child.
ListOrder == ~failed => \A p \in {p \in Proc : prog[p] # "none"}, c \in Cmds :
  \A q \in Proc : prog[q] \notin Before(c, prog[p])

\* The shell always comes back to its prompt: no pipeline waits for ever for an end of
\* file, for room, or for a child.
CommandEnds == []<>At(1, "getcmd")
=============================================================================
