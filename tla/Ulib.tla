-------------------------------- MODULE Ulib --------------------------------
(***************************************************************************)
(* The pure routines of the kernel and of the user programs: copies and    *)
(* comparisons of memory and strings (string.c, ulib.c), conversions of    *)
(* numbers, the two printf()s, and grep's matcher, and what each one is    *)
(* for, stated without its loop.  A string is a sequence of characters     *)
(* without its NUL; memory is a function on addresses.                     *)
(***************************************************************************)
EXTENDS Integers, Sequences, FiniteSetsExt, SequencesExt

CONSTANTS WIDTH,  \* the bits of an int
          Code    \* the order of the characters, NUL first

NUL == "NUL"
CharAt(s, i) == IF i <= Len(s) THEN s[i] ELSE NUL

-----------------------------------------------------------------------------
(* Copies.                                                                 *)

\* The assignments m[d + i] = m[s + i] one after the other, for i in the order of seq.
Assign(m, d, s, seq) == FoldLeft(LAMBDA a, i : [a EXCEPT ![d + i] = a[s + i]], m, seq)
Up(n) == [i \in 1 .. n |-> i - 1]
Down(n) == [i \in 1 .. n |-> n - i]

\* Variant: an overlap is not looked for.
memmove_up(m, d, s, n) == Assign(m, d, s, Up(n))
memmove(m, d, s, n) == Assign(m, d, s, IF s < d /\ s + n > d THEN Down(n) ELSE Up(n))
\* memmove() of ulib.c, which grep calls with d < s.
memmove_user(m, d, s, n) == Assign(m, d, s, Up(n))

\* A copy has at the destination what was at the source, although they may overlap.
Copied(m, d, s, n) == [a \in DOMAIN m |-> IF a \in d .. d + n - 1 THEN m[s + a - d] ELSE m[a]]
CopyRight(m, d, s, n) == /\ memmove(m, d, s, n) = Copied(m, d, s, n)
                         /\ d <= s => memmove_user(m, d, s, n) = Copied(m, d, s, n)

RECURSIVE strncpy_from(_, _, _, _)
strncpy_from(s, t, n, i) ==
  CASE n <= 0 -> s
    [] n > 0 /\ CharAt(t, i) # NUL -> strncpy_from([s EXCEPT ![i] = t[i]], t, n - 1, i + 1)
    [] OTHER -> [k \in DOMAIN s |-> IF k \in i .. i + n - 1 THEN NUL ELSE s[k]]
strncpy(s, t, n) == strncpy_from(s, t, n, 1)

\* After the copy of a NUL, s is one further, and the NUL is written again there.
RECURSIVE safestrcpy_from(_, _, _, _)
safestrcpy_from(s, t, n, i) ==
  CASE n - 1 <= 0 -> [s EXCEPT ![i] = NUL]
    [] n - 1 > 0 /\ CharAt(t, i) # NUL -> safestrcpy_from([s EXCEPT ![i] = t[i]], t, n - 1, i + 1)
    [] OTHER -> [s EXCEPT ![i] = NUL, ![i + 1] = NUL]
safestrcpy(s, t, n) == IF n <= 0 THEN s ELSE safestrcpy_from(s, t, n, 1)

Str(s) == SubSeq(s, 1, Min({k \in DOMAIN s : s[k] = NUL}) - 1)

\* strncpy() fills n characters with t and NULs; safestrcpy() leaves a string, the longest
\* start of t that fits, and touches nothing past n.
StrcpyRight(s, t, n) ==
  /\ strncpy(s, t, n) = [k \in DOMAIN s |-> IF k <= n THEN CharAt(t, k) ELSE s[k]]
  /\ n > 0 => LET r == safestrcpy(s, t, n)
              IN /\ Str(r) = SubSeq(t, 1, Min({n - 1, Len(t)}))
                 /\ \A k \in DOMAIN s : k > n => r[k] = s[k]

-----------------------------------------------------------------------------
(* Comparisons.                                                            *)

RECURSIVE strncmp_from(_, _, _, _)
strncmp_from(p, q, n, i) ==
  CASE n > 0 /\ CharAt(p, i) # NUL /\ CharAt(p, i) = CharAt(q, i) -> strncmp_from(p, q, n - 1, i + 1)
    [] n = 0 -> 0
    [] OTHER -> Code[CharAt(p, i)] - Code[CharAt(q, i)]
strncmp(p, q, n) == strncmp_from(p, q, n, 1)

RECURSIVE strcmp_from(_, _, _)
strcmp_from(p, q, i) ==
  IF CharAt(p, i) # NUL /\ CharAt(p, i) = CharAt(q, i) THEN strcmp_from(p, q, i + 1)
  ELSE Code[CharAt(p, i)] - Code[CharAt(q, i)]
strcmp(p, q) == strcmp_from(p, q, 1)

\* p is before q in the order of a dictionary.
Before(p, q) == \E k \in 1 .. Len(q) : /\ \A i \in 1 .. k - 1 : CharAt(p, i) = q[i]
                                       /\ Code[CharAt(p, k)] < Code[q[k]]
Prefix(s, n) == SubSeq(s, 1, Min({n, Len(s)}))
OrderRight(r, p, q) == (r < 0 <=> Before(p, q)) /\ (r > 0 <=> Before(q, p)) /\ (r = 0 <=> p = q)
CompareRight(p, q, n) == /\ OrderRight(strcmp(p, q), p, q)
                         /\ OrderRight(strncmp(p, q, n), Prefix(p, n), Prefix(q, n))

-----------------------------------------------------------------------------
(* Numbers.                                                                *)

RECURSIVE digits(_, _)
digits(x, base) == (IF x \div base # 0 THEN digits(x \div base, base) ELSE <<>>) \o <<x % base>>

\* printint() of printf.c and of console.c: the sign, and the digits of an unsigned x.
printint(xx, base, sgn) ==
  LET neg == sgn /\ xx < 0
  IN [neg |-> neg, digits |-> digits((IF neg THEN -xx ELSE xx) % 2^WIDTH, base)]

atoi(ds) == FoldLeft(LAMBDA n, d : n * 10 + d, 0, ds)

Value(ds, base) == MapThenSumSet(LAMBDA i : ds[i] * base^(Len(ds) - i), DOMAIN ds)
\* The digits are those of the number, the least negative one included, without zeros in
\* front, and atoi() reads them back.
NumberRight(xx, base, sgn) ==
  LET r == printint(xx, base, sgn)  v == Value(r.digits, base)
  IN /\ IF sgn THEN xx = (IF r.neg THEN -v ELSE v) ELSE v = xx % 2^WIDTH /\ ~r.neg
     /\ Len(r.digits) > 1 => r.digits[1] # 0
     /\ \A i \in DOMAIN r.digits : r.digits[i] \in 0 .. base - 1
     /\ base = 10 => atoi(r.digits) = v

-----------------------------------------------------------------------------
(* Formats.  The output is a sequence of characters of the format and of   *)
(* converted arguments [conv, arg]; the argument is its position.          *)

\* hex is "X" for the users' digits[], which has capitals, and "x" for the kernel's.
Conv(c, k, hex) == [conv |-> IF c \in {"p", "x"} THEN hex ELSE c, arg |-> k]
Plain(c) == [conv |-> "char", arg |-> c]

\* The loop of printf(), one character a step: the state, the next argument, the output.
putc(o, c) == Append(o, Plain(c))
printf_step(x, c) ==
  CASE ~x.pct /\ c = "%" -> [x EXCEPT !.pct = TRUE]
    [] ~x.pct /\ c # "%" -> [x EXCEPT !.out = putc(@, c)]
    [] x.pct /\ c \in {"d", "x", "p", "s", "c"} ->
         [pct |-> FALSE, ap |-> x.ap + 1, out |-> Append(x.out, Conv(c, x.ap, "X"))]
    [] x.pct /\ c = "%" -> [x EXCEPT !.pct = FALSE, !.out = putc(@, c)]
    [] OTHER -> [x EXCEPT !.pct = FALSE, !.out = putc(putc(@, "%"), c)]
printf(fmt) == FoldLeft(printf_step, [pct |-> FALSE, ap |-> 1, out |-> <<>>], fmt).out

\* The loop of cprintf(), which takes a conversion in one go, from fmt[i] on.
RECURSIVE cprintf_from(_, _, _)
cprintf_from(fmt, i, ap) ==
  LET c == CharAt(fmt, i)  d == CharAt(fmt, i + 1)
  IN CASE c = NUL \/ (c = "%" /\ d = NUL) -> <<>>
       [] c \notin {NUL, "%"} -> <<Plain(c)>> \o cprintf_from(fmt, i + 1, ap)
       [] c = "%" /\ d \in {"d", "x", "p", "s"} -> <<Conv(d, ap, "x")>> \o cprintf_from(fmt, i + 2, ap + 1)
       [] c = "%" /\ d = "%" -> <<Plain("%")>> \o cprintf_from(fmt, i + 2, ap)
       [] OTHER -> <<Plain("%"), Plain(d)>> \o cprintf_from(fmt, i + 2, ap)
cprintf(fmt) == cprintf_from(fmt, 1, 1)

Lower(out) == [i \in DOMAIN out |-> IF out[i].conv = "X" THEN [out[i] EXCEPT !.conv = "x"] ELSE out[i]]
\* The kernel's and the users' printf() print a format alike, up to the case of hexadecimal
\* digits; only %c is for users alone.
FormatRight(fmt) ==
  (~\E i \in 2 .. Len(fmt) : fmt[i - 1] = "%" /\ fmt[i] = "c") => Lower(printf(fmt)) = cprintf(fmt)

-----------------------------------------------------------------------------
(* grep's regular expressions.                                             *)

RECURSIVE matchhere(_, _)
RECURSIVE matchstar(_, _, _)
matchhere(re, text) ==
  CASE re = <<>> -> TRUE
    [] re # <<>> /\ CharAt(re, 2) = "*" -> matchstar(re[1], SubSeq(re, 3, Len(re)), text)
    [] re = <<"$">> -> text = <<>>
    [] OTHER -> text # <<>> /\ re[1] \in {".", text[1]} /\ matchhere(Tail(re), Tail(text))
matchstar(c, re, text) ==
  \/ matchhere(re, text)
  \/ text # <<>> /\ c \in {".", text[1]} /\ matchstar(c, re, Tail(text))

match(re, text) ==
  IF CharAt(re, 1) = "^" THEN matchhere(Tail(re), text)
  ELSE \E k \in 0 .. Len(text) : matchhere(re, SubSeq(text, k + 1, Len(text)))

\* The expression's units: a character, or one with a star.
RECURSIVE Units(_)
Units(re) == IF re = <<>> THEN <<>>
             ELSE LET star == CharAt(re, 2) = "*"
                  IN <<[c |-> re[1], star |-> star]>> \o Units(SubSeq(re, IF star THEN 3 ELSE 2, Len(re)))

\* A text matches if some part of it, which "^" and "$" fix at the ends, is cut into pieces
\* that are instances of the units in order.
MatchRight(re, text) ==
  LET front == CharAt(re, 1) = "^"
      u == Units(IF front THEN Tail(re) ELSE re)
      back == u # <<>> /\ u[Len(u)] = [c |-> "$", star |-> FALSE]
      n == IF back THEN Len(u) - 1 ELSE Len(u)
      L == Len(text)
      instance(k, i, j) == /\ i <= j /\ (u[k].star \/ j = i + 1)
                           /\ \A x \in i + 1 .. j : u[k].c \in {".", text[x]}
  IN match(re, text) <=> \E cut \in [0 .. n -> 0 .. L] :
                            /\ front => cut[0] = 0
                            /\ back => cut[n] = L
                            /\ \A k \in 1 .. n : instance(k, cut[k - 1], cut[k])

-----------------------------------------------------------------------------
(* Programs that read a stream piece by piece: a read() of up to k         *)
(* characters returns the next ones, at most Chunk of them.                *)

Piece(text, k, chunk) == SubSeq(text, 1, Min({k, chunk, Len(text)}))
After(text, x) == SubSeq(text, Len(x) + 1, Len(text))
Newlines(s) == {i \in DOMAIN s : s[i] = "\n"}
EndOfLine == {"\n", "\r"}
Space == EndOfLine \cup {" "}

\* gets(): a read() for every character.
RECURSIVE gets_from(_, _, _)
gets_from(text, max, buf) ==
  IF Len(buf) + 1 >= max \/ text = <<>> THEN buf
  ELSE IF text[1] \in EndOfLine THEN Append(buf, text[1])
       ELSE gets_from(Tail(text), max, Append(buf, text[1]))
gets(text, max) == gets_from(text, max, <<>>)

\* The loop of wc() over a buffer, and the one over the file.
wc_char(x, c) == [l |-> x.l + IF c = "\n" THEN 1 ELSE 0,
                  w |-> x.w + IF c \notin Space /\ ~x.inword THEN 1 ELSE 0,
                  c |-> x.c + 1, inword |-> c \notin Space]
RECURSIVE wc_from(_, _, _)
wc_from(text, chunk, x) == LET buf == Piece(text, chunk, chunk)
                           IN IF buf = <<>> THEN x ELSE wc_from(After(text, buf), chunk, FoldLeft(wc_char, x, buf))
wc(text, chunk) == wc_from(text, chunk, [l |-> 0, w |-> 0, c |-> 0, inword |-> FALSE])

\* The lines that end in s, with their newlines.
LinesOf(s) == LET nl == SetToSortSeq(Newlines(s), <)
              IN [i \in DOMAIN nl |-> SubSeq(s, (IF i = 1 THEN 0 ELSE nl[i - 1]) + 1, nl[i])]
Matching(re, lines) == SelectSeq(lines, LAMBDA l : match(re, Front(l)))

\* grep(), with its buffer of size characters: what it prints, and whether a piece without a
\* newline was dropped (m = 0).
RECURSIVE grep_from(_, _, _, _, _)
grep_from(re, text, size, chunk, x) ==
  LET new == Piece(text, size - Len(x.buf) - 1, chunk)
      buf == x.buf \o new
      nl == Newlines(buf)
  IN IF new = <<>> THEN x
     ELSE grep_from(re, After(text, new), size, chunk,
                    [out |-> x.out \o Matching(re, LinesOf(buf)),
                     buf |-> IF nl = {} THEN <<>> ELSE SubSeq(buf, Max(nl) + 1, Len(buf)),
                     dropped |-> x.dropped \/ nl = {}])
grep(re, text, size, chunk) == grep_from(re, text, size, chunk, [out |-> <<>>, buf |-> <<>>, dropped |-> FALSE])

\* gets() returns the first line, which a carriage return ends too, cut to max - 1
\* characters.  wc() counts the same whatever
\* pieces the file comes in, and grep() prints the lines that match, if it dropped nothing.
StreamRight(re, text, size, chunk) ==
  LET g == grep(re, text, size, chunk)  w == wc(text, chunk)
  IN /\ gets(text, size) = Prefix(text, Min({size - 1} \cup {i \in DOMAIN text : text[i] \in EndOfLine}))
     /\ w.l = Cardinality(Newlines(text)) /\ w.c = Len(text)
     /\ w.w = Cardinality({i \in DOMAIN text : text[i] \notin Space /\ (i = 1 \/ text[i - 1] \in Space)})
     /\ ~g.dropped => g.out = Matching(re, LinesOf(text))
=============================================================================
