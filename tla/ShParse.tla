------------------------------ MODULE ShParse -------------------------------
(***************************************************************************)
(* The shell's parser (sh.c).  A line is a sequence of characters; pointers*)
(* into it are positions, and the position after the last one is es.  A    *)
(* function that moves *ps returns the new position with its result, and   *)
(* ok = FALSE stands for a panic, which ends the process.  A word is where *)
(* it starts and ends, [q, eq].                                            *)
(***************************************************************************)
EXTENDS Integers, Sequences, FiniteSetsExt

CONSTANT MAXARGS

NUL == "NUL"
whitespace == {" "}
symbols == {"<", "|", ">", "&", ";", "(", ")"}

es(b) == Len(b) + 1
At(b, s) == IF s >= es(b) THEN NUL ELSE b[s]
\* The first position from s on, es if there is none, that holds none of S or one of S.
SkipAll(b, s, S) == Min({es(b)} \cup {k \in s .. Len(b) : b[k] \notin S})
Find(b, s, S) == Min({es(b)} \cup {k \in s .. Len(b) : b[k] \in S})

gettoken(b, s) ==
  LET q == SkipAll(b, s, whitespace)  c == At(b, q)
      append == c = ">" /\ At(b, q + 1) = ">"
      eq == CASE c = NUL -> q
              [] append -> q + 2
              [] c \in symbols -> q + 1
              [] OTHER -> Find(b, q, whitespace \cup symbols)
      tok == CASE append -> "+" [] c \in symbols \cup {NUL} -> c [] OTHER -> "a"
  IN [tok |-> tok, q |-> q, eq |-> eq, s |-> SkipAll(b, eq, whitespace)]

\* Variant: white space is not skipped.
peek_raw(b, s, toks) == At(b, s) \in toks
\* The next character that is not white space is one of toks.
peek(b, s, toks) == At(b, SkipAll(b, s, whitespace)) \in toks
Word(t) == [q |-> t.q, eq |-> t.eq]

execcmd(argv) == [type |-> "EXEC", argv |-> argv]
redircmd(c, file, fd) == [type |-> "REDIR", cmd |-> c, file |-> file, fd |-> fd]
pipecmd(l, r) == [type |-> "PIPE", left |-> l, right |-> r]
listcmd(l, r) == [type |-> "LIST", left |-> l, right |-> r]
backcmd(c) == [type |-> "BACK", cmd |-> c]

Fails(s) == [ok |-> FALSE, s |-> s]
\* r's result, if it has one, made into a command by F.
Then(r, F(_)) == IF r.ok THEN F(r) ELSE r

\* The redirections at s, after the ones in rs: each is a file and its descriptor.
RECURSIVE redirs(_, _, _)
redirs(b, s, rs) ==
  LET t == gettoken(b, s)  f == gettoken(b, t.s)
  IN CASE ~peek(b, s, {"<", ">"}) -> [ok |-> TRUE, rs |-> rs, s |-> s]
       [] f.tok # "a" -> Fails(s)
       [] OTHER -> redirs(b, f.s, Append(rs, [file |-> Word(f), fd |-> IF t.tok = "<" THEN 0 ELSE 1]))

\* redircmd() around c for each of rs, the last one outermost.
RECURSIVE Wrap(_, _)
Wrap(c, rs) == IF rs = <<>> THEN c
               ELSE LET n == Len(rs) IN redircmd(Wrap(c, SubSeq(rs, 1, n - 1)), rs[n].file, rs[n].fd)

parseredirs(b, s, c) ==
  Then(redirs(b, s, <<>>), LAMBDA r : [ok |-> TRUE, cmd |-> Wrap(c, r.rs), s |-> r.s])

\* The loop of parseexec(), with the arguments and redirections so far: the execcmd that
\* the redirections point to gets its arguments one by one.
RECURSIVE args(_, _, _, _)
args(b, s, argv, rs) ==
  LET t == gettoken(b, s)
      done == [ok |-> TRUE, cmd |-> Wrap(execcmd(argv), rs), s |-> t.s]
  IN CASE peek(b, s, {"|", ")", "&", ";"}) -> [done EXCEPT !.s = s]
       [] t.tok = NUL -> done
       [] t.tok # "a" \/ Len(argv) + 1 >= MAXARGS -> Fails(s)
       [] OTHER -> Then(redirs(b, t.s, rs), LAMBDA r : args(b, r.s, Append(argv, Word(t)), r.rs))

RECURSIVE parseline(_, _)
\* parseblock() after the command inside the parentheses.
Close(b, r) == IF r.ok /\ peek(b, r.s, {")"}) THEN parseredirs(b, gettoken(b, r.s).s, r.cmd) ELSE Fails(r.s)
parseblock(b, s) == Close(b, parseline(b, gettoken(b, s).s))

parseexec(b, s) == IF peek(b, s, {"("}) THEN parseblock(b, s)
                   ELSE Then(redirs(b, s, <<>>), LAMBDA r : args(b, r.s, <<>>, r.rs))

RECURSIVE parsepipe(_, _)
\* parsepipe() after its first command l.
Pipeline(b, l) ==
  IF l.ok /\ peek(b, l.s, {"|"})
  THEN Then(parsepipe(b, gettoken(b, l.s).s), LAMBDA r : [r EXCEPT !.cmd = pipecmd(l.cmd, @)])
  ELSE l
parsepipe(b, s) == Pipeline(b, parseexec(b, s))

\* The loop of parseline() over "&".
RECURSIVE backs(_, _)
backs(b, r) == IF r.ok /\ peek(b, r.s, {"&"})
               THEN backs(b, [r EXCEPT !.cmd = backcmd(@), !.s = gettoken(b, @).s])
               ELSE r

\* parseline() after its first pipeline l and the "&" that follow it.
List(b, l) ==
  IF l.ok /\ peek(b, l.s, {";"})
  THEN Then(parseline(b, gettoken(b, l.s).s), LAMBDA r : [r EXCEPT !.cmd = listcmd(l.cmd, @)])
  ELSE l
parseline(b, s) == List(b, backs(b, parsepipe(b, s)))

\* The words of a command, as nulterminate() visits them.
RECURSIVE Words(_)
Words(c) == CASE c.type = "EXEC" -> {c.argv[i] : i \in DOMAIN c.argv}
              [] c.type = "REDIR" -> Words(c.cmd) \cup {c.file}
              [] c.type = "BACK" -> Words(c.cmd)
              [] OTHER -> Words(c.left) \cup Words(c.right)

\* The line with a NUL after every word.
nulterminate(b, c) == [k \in 1 .. es(b) |-> IF \E w \in Words(c) : w.eq = k THEN NUL ELSE At(b, k)]

\* parsecmd(): the command and the line it leaves.
parsecmd(b) ==
  LET r == parseline(b, 1)
  IN IF ~r.ok \/ SkipAll(b, r.s, whitespace) # es(b) THEN Fails(1)
     ELSE [ok |-> TRUE, cmd |-> r.cmd, buf |-> nulterminate(b, r.cmd)]

-----------------------------------------------------------------------------
(* The grammar: all commands that a sequence of tokens can stand for.      *)

RECURSIVE Tokens(_, _)
Tokens(b, s) == LET t == gettoken(b, s) IN IF t.tok = NUL THEN <<>> ELSE <<t>> \o Tokens(b, t.s)

Part(t, i, j) == SubSeq(t, i, j)
Rest(t, i) == SubSeq(t, i, Len(t))
Redirs == {"<", ">", "+"}

\* The redirections in t, if it is made of words and redirections, in order.
Files(t) == SelectSeq([i \in DOMAIN t |-> [tok |-> IF i > 1 THEN t[i - 1].tok ELSE "a", w |-> t[i]]],
                      LAMBDA x : x.tok \in Redirs)
Plain(t) == SelectSeq([i \in DOMAIN t |-> [tok |-> IF i > 1 THEN t[i - 1].tok ELSE "a", w |-> t[i]]],
                      LAMBDA x : x.tok \notin Redirs /\ x.w.tok = "a")
Simple(t) == \A i \in DOMAIN t : \/ t[i].tok = "a"
                                 \/ t[i].tok \in Redirs /\ i < Len(t) /\ t[i + 1].tok = "a"
Redirected(c, t) ==
  LET f == Files(t)
  IN Wrap(c, [i \in DOMAIN f |-> [file |-> Word(f[i].w), fd |-> IF f[i].tok = "<" THEN 0 ELSE 1]])

RECURSIVE Lines(_)
Commands(t) ==
  (IF Simple(t) /\ Len(Plain(t)) < MAXARGS
   THEN {LET p == Plain(t) IN Redirected(execcmd([i \in DOMAIN p |-> Word(p[i].w)]), t)} ELSE {})
  \cup UNION {{Redirected(c, Rest(t, k + 1)) : c \in Lines(Part(t, 2, k - 1))} :
              k \in {k \in 2 .. Len(t) : /\ t[1].tok = "(" /\ t[k].tok = ")"
                                         /\ Simple(Rest(t, k + 1)) /\ Plain(Rest(t, k + 1)) = <<>>}}
RECURSIVE Pipelines(_)
Pipelines(t) ==
  Commands(t) \cup UNION {{pipecmd(l, r) : l \in Commands(Part(t, 1, k - 1)), r \in Pipelines(Rest(t, k + 1))} :
                          k \in {k \in DOMAIN t : t[k].tok = "|"}}
RECURSIVE Jobs(_)
Jobs(t) == Pipelines(t) \cup (IF t # <<>> /\ t[Len(t)].tok = "&"
                              THEN {backcmd(c) : c \in Jobs(Part(t, 1, Len(t) - 1))} ELSE {})
Lines(t) ==
  Jobs(t) \cup UNION {{listcmd(l, r) : l \in Jobs(Part(t, 1, k - 1)), r \in Lines(Rest(t, k + 1))} :
                      k \in {k \in DOMAIN t : t[k].tok = ";"}}

\* The text of the word that starts at q, up to the first NUL.
Text(b, q) == SubSeq(b, q, Min({k \in q .. Len(b) : b[k] = NUL}) - 1)

\* parsecmd() accepts the lines of the grammar, which is not ambiguous, with the command
\* that the grammar gives them, and the NULs end every word where it ends.
ParsesRight(b) ==
  LET r == parsecmd(b)  L == Lines(Tokens(b, 1))
  IN /\ L = IF r.ok THEN {r.cmd} ELSE {}
     /\ r.ok => \A w \in Words(r.cmd) : Text(r.buf, w.q) = SubSeq(b, w.q, w.eq - 1)
=============================================================================
