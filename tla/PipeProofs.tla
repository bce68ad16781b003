----------------------------- MODULE PipeProofs -----------------------------
(***************************************************************************)
(* Proofs about Pipe, for any readers and writers, any size of the ring    *)
(* and any range of the counters that is a multiple of it: a pipe is a     *)
(* Channel, and its page is not freed under a process that uses it.        *)
(***************************************************************************)
EXTENDS Pipe, TLAPS

-----------------------------------------------------------------------------
(* Counters that wrap.                                                     *)

\* What the quotient and the remainder are.
LEMMA DivMod ==
  ASSUME NEW a \in Int, NEW w \in Nat \ {0}
  PROVE  a \div w \in Int /\ a % w \in 0 .. w - 1 /\ a = w * (a \div w) + (a % w)
OBVIOUS

\* A remainder is a number.
LEMMA ModInt == ASSUME NEW a \in Int, NEW w \in Nat \ {0} PROVE a % w \in Int
BY DivMod

\* The remainder is the only one.
LEMMA ModIs ==
  ASSUME NEW w \in Nat \ {0}, NEW a \in Int, NEW q \in Int, NEW r \in 0 .. w - 1, a = w * q + r
  PROVE  a % w = r
OBVIOUS

\* Multiples of w do not matter modulo w.
LEMMA ModSame ==
  ASSUME NEW w \in Nat \ {0}, NEW a \in Int, NEW b \in Int, NEW q \in Int, a = b + w * q
  PROVE  a % w = b % w
<1>1. PICK k \in Int, r \in 0 .. w - 1 : b = w * k + r BY ZenonT(40), DivMod
<1>2. a = w * (k + q) + r BY <1>1
<1>3. b % w = r BY Zenon, <1>1, ModIs
<1>4. k + q \in Int OBVIOUS
<1> QED BY Zenon, <1>2, <1>3, <1>4, ModIs

\* A sum may be reduced early, on the left ...
LEMMA AddMod ==
  ASSUME NEW w \in Nat \ {0}, NEW a \in Int, NEW b \in Int
  PROVE  ((a % w) + b) % w = (a + b) % w
<1>1. PICK k \in Int, r \in 0 .. w - 1 : a = w * k + r /\ a % w = r BY Zenon, DivMod
<1>2. a + b = (r + b) + w * k /\ a + b \in Int /\ r + b \in Int BY <1>1
<1>3. (a + b) % w = (r + b) % w BY Zenon, <1>2, ModSame
<1> QED BY Zenon, <1>1, <1>3

\* A counter that wraps at a multiple N of w keeps its place in a ring of w.
LEMMA ModMod ==
  ASSUME NEW w \in Nat \ {0}, NEW N \in Nat \ {0}, N % w = 0, NEW a \in Int
  PROVE  (a % N) % w = a % w
<1>1. PICK m \in Int : N = w * m
  <2>1. N = w * (N \div w) + (N % w) /\ N \div w \in Int BY DivMod
  <2>2. N = w * (N \div w) BY <2>1
  <2> QED BY Zenon, <2>1, <2>2
<1>2. PICK k \in Int, r \in Int : a = N * k + r /\ a % N = r
  <2>1. a \div N \in Int /\ a % N \in 0 .. N - 1 /\ a = N * (a \div N) + (a % N) BY Zenon, DivMod
  <2>2. a % N \in Int BY <2>1
  <2> QED BY Zenon, <2>1, <2>2
<1>3. a = r + w * (m * k) BY <1>1, <1>2
<1>4. m * k \in Int OBVIOUS
<1>5. a % w = r % w BY ZenonT(40), <1>3, <1>4, ModSame
<1> QED BY Zenon, <1>2, <1>5

\* w consecutive numbers are all different modulo w.
LEMMA ModDistinct ==
  ASSUME NEW w \in Nat \ {0}, NEW a \in Int, NEW s \in Int, NEW t \in Int,
         s - t \in -(w - 1) .. w - 1, (a + s) % w = (a + t) % w
  PROVE  s = t
<1>1. PICK q \in Int, k \in Int, r \in Int : a + s = w * q + r /\ a + t = w * k + r
  <2>1. a + s \in Int /\ a + t \in Int OBVIOUS
  <2>2. (a + s) \div w \in Int /\ a + s = w * ((a + s) \div w) + ((a + s) % w) BY Zenon, <2>1, DivMod
  <2>3. (a + t) \div w \in Int /\ a + t = w * ((a + t) \div w) + ((a + s) % w) BY Zenon, <2>1, DivMod
  <2>4. (a + s) % w \in Int BY <2>1, DivMod
  <2> QED BY Zenon, <2>2, <2>3, <2>4
<1>2. s - t = w * (q - k) BY <1>1
<1>3. q - k \in Int OBVIOUS
<1>4. ASSUME NEW z \in Int, w * z \in -(w - 1) .. w - 1 PROVE z = 0 BY <1>4
<1>5. w * (q - k) \in -(w - 1) .. w - 1 BY Zenon, <1>2
<1>6. q - k = 0 BY Zenon, <1>3, <1>4, <1>5
<1> QED BY <1>2, <1>6

\* ... and a difference on the right.
LEMMA SubMod ==
  ASSUME NEW w \in Nat \ {0}, NEW a \in Int, NEW b \in Int
  PROVE  (b - (a % w)) % w = (b - a) % w
<1>1. PICK k \in Int, r \in 0 .. w - 1 : a = w * k + r /\ a % w = r BY Zenon, DivMod
<1>2. b - r = (b - a) + w * k /\ b - a \in Int /\ b - r \in Int BY <1>1
<1>3. (b - r) % w = (b - a) % w BY Zenon, <1>2, ModSame
<1> QED BY Zenon, <1>1, <1>3

\* A small number is its own remainder.
LEMMA ModSmall == ASSUME NEW w \in Nat \ {0}, NEW a \in 0 .. w - 1 PROVE a % w = a
OBVIOUS

\* A counter w that is u ahead of a counter r stays so.
LEMMA Ahead ==
  ASSUME NEW N \in Nat \ {0}, NEW r \in Int, NEW w \in Int, NEW x \in Int
  PROVE  (r + (((w - r) % N) + x)) % N = (w + x) % N
<1>1. w - r \in Int /\ r + x \in Int OBVIOUS
<1>2. PICK u \in Int : u = (w - r) % N BY Zenon, <1>1, ModInt
<1>3. (u + (r + x)) % N = ((w - r) + (r + x)) % N BY Zenon, <1>1, <1>2, AddMod
<1>4. u + (r + x) = r + (u + x) /\ (w - r) + (r + x) = w + x OBVIOUS
<1> QED BY Zenon, <1>2, <1>3, <1>4

\* How far it is ahead when it goes on by k.
LEMMA AheadMore ==
  ASSUME NEW N \in Nat \ {0}, NEW r \in Int, NEW w \in Int, NEW k \in Int,
         ((w - r) % N) + k \in 0 .. N - 1
  PROVE  (((w + k) % N) - r) % N = ((w - r) % N) + k
<1>1. w - r \in Int /\ w + k \in Int /\ -r \in Int OBVIOUS
<1>2. PICK u \in Int : u = (w - r) % N BY Zenon, <1>1, ModInt
<1>3. PICK v \in Int : v = (w + k) % N BY Zenon, <1>1, ModInt
<1>4. (v + (-r)) % N = ((w + k) + (-r)) % N BY Zenon, <1>1, <1>3, AddMod
<1>5. (u + k) % N = ((w - r) + k) % N BY Zenon, <1>1, <1>2, AddMod
<1>6. v + (-r) = v - r /\ (w + k) + (-r) = (w - r) + k OBVIOUS
<1>7. (u + k) % N = u + k BY Zenon, <1>2, ModSmall
<1> QED BY Zenon, <1>2, <1>3, <1>4, <1>5, <1>6, <1>7

-----------------------------------------------------------------------------
(* The invariant.                                                          *)

Label == {"idle", "run", "sleep", "asleep"}

TypeOK ==
  /\ data \in [0 .. PIPESIZE - 1 -> Writer \cup {None}]
  /\ nread \in 0 .. UINT - 1 /\ nwrite \in 0 .. UINT - 1
  /\ readopen \in BOOLEAN /\ writeopen \in BOOLEAN
  /\ fds \in SUBSET Proc /\ pc \in [Proc -> Label]
  /\ addr \in [Writer -> Seq(Writer)] /\ n \in [Reader -> Nat]
  /\ got \in [Reader -> Seq(Writer \cup {None})] /\ killed \in [Proc -> BOOLEAN]

\* A process in pipewrite() or piperead() has its end open, and an end that somebody has
\* open is open in struct pipe.
OpenInv ==
  /\ \A p \in Proc : pc[p] # "idle" => p \in fds
  /\ fds \cap Writer # {} => writeopen
  /\ fds \cap Reader # {} => readopen

\* A writer has only bytes of its own to write, and a reader asks for some.
CallInv ==
  /\ \A p \in Writer : \A i \in 1 .. Len(addr[p]) : addr[p][i] = p
  /\ \A p \in Reader : pc[p] # "idle" => n[p] # 0

\* The counters are never further apart than the ring is long.
RingInv == Used <= PIPESIZE

Inv == TypeOK /\ OpenInv /\ CallInv /\ RingInv

-----------------------------------------------------------------------------
(* The distance between the counters.                                      *)

\* The byte after the last is Used places after the first, in the counters and in the ring.
LEMMA Places ==
  ASSUME TypeOK, NEW x \in Int
  PROVE  /\ Used \in 0 .. UINT - 1
         /\ (nwrite + x) % UINT = (nread + (Used + x)) % UINT
         /\ (nwrite + x) % PIPESIZE = (nread + (Used + x)) % PIPESIZE
<1>1. /\ UINT \in Nat \ {0} /\ PIPESIZE \in Nat \ {0} /\ UINT % PIPESIZE = 0
      /\ nread \in Int /\ nwrite \in Int
  BY PipeAssumption DEF TypeOK
<1>2. nwrite - nread \in Int BY <1>1
<1>3. Used \in 0 .. UINT - 1 BY Zenon, <1>1, <1>2, DivMod DEF Used
<1>4. (nread + (Used + x)) % UINT = (nwrite + x) % UINT BY ZenonT(60), <1>1, Ahead DEF Used
<1>5. (nread + (Used + x)) % PIPESIZE = (nwrite + x) % PIPESIZE
  <2>1. nread + (Used + x) \in Int /\ nwrite + x \in Int BY <1>1, <1>3
  <2>2. ((nread + (Used + x)) % UINT) % PIPESIZE = (nread + (Used + x)) % PIPESIZE
    BY Zenon, <1>1, <2>1, ModMod
  <2>3. ((nwrite + x) % UINT) % PIPESIZE = (nwrite + x) % PIPESIZE BY Zenon, <1>1, <2>1, ModMod
  <2> QED BY Zenon, <1>4, <2>2, <2>3
<1> QED BY Zenon, <1>3, <1>4, <1>5

\* The loop of pipewrite() stops when the ring is full.
LEMMA FullAt ==
  ASSUME TypeOK, RingInv, NEW j \in 0 .. UINT - 1
  PROVE  Full(j) <=> j = PIPESIZE - Used
<1>1. /\ UINT \in Nat \ {0} /\ PIPESIZE \in Nat \ {0} /\ PIPESIZE < UINT
      /\ nread \in Int /\ Used \in 0 .. UINT - 1 /\ Used <= PIPESIZE
  BY PipeAssumption, Places DEF TypeOK, RingInv
<1>2. (nwrite + j) % UINT = (nread + (Used + j)) % UINT
  <2>1. j \in Int BY <1>1
  <2> QED BY Zenon, <2>1, Places
<1>3. Used + j \in Int /\ (Used + j) - PIPESIZE \in -(UINT - 1) .. UINT - 1 /\ PIPESIZE \in Int BY <1>1
<1>4. Full(j) => Used + j = PIPESIZE BY Zenon, <1>1, <1>2, <1>3, ModDistinct DEF Full
<1>5. Used + j = PIPESIZE => Full(j) BY Zenon, <1>2 DEF Full
<1>6. Used + j = PIPESIZE <=> j = PIPESIZE - Used BY <1>1
<1> QED BY Zenon, <1>4, <1>5, <1>6

\* That of piperead() stops when it is empty.
LEMMA EmptyAt ==
  ASSUME TypeOK, NEW j \in 0 .. UINT - 1
  PROVE  (nread + j) % UINT = nwrite <=> j = Used
<1>1. /\ UINT \in Nat \ {0} /\ nread \in Int /\ Used \in 0 .. UINT - 1 /\ nwrite \in 0 .. UINT - 1
  BY PipeAssumption, Places DEF TypeOK
<1>2. nwrite = (nread + Used) % UINT
  <2>1. 0 \in Int /\ nwrite + 0 = nwrite /\ Used + 0 = Used BY <1>1
  <2>2. nwrite % UINT = nwrite BY Zenon, <1>1, ModSmall
  <2> QED BY Zenon, <2>1, <2>2, Places
<1>3. j \in Int /\ Used \in Int /\ j - Used \in -(UINT - 1) .. UINT - 1 BY <1>1
<1>4. (nread + j) % UINT = nwrite => j = Used BY Zenon, <1>1, <1>2, <1>3, ModDistinct
<1> QED BY Zenon, <1>2, <1>4

-----------------------------------------------------------------------------
(* How many bytes a call moves.                                            *)

\* What Min chooses.
LEMMA MinIs ==
  ASSUME NEW S \in SUBSET Int, NEW x \in S, \A y \in S : x <= y
  PROVE  Min(S) = x
<1>1. Min(S) \in S /\ \A y \in S : Min(S) <= y BY Zenon DEF Min
<1>2. Min(S) <= x /\ x <= Min(S) /\ x \in Int /\ Min(S) \in Int BY Zenon, <1>1
<1> QED BY <1>2

\* The least of two numbers.
LEMMA MinOfTwo ==
  ASSUME NEW x \in Nat, NEW y \in Nat
  PROVE  /\ Min({x} \cup {y}) \in Nat /\ Min({x} \cup {y}) <= x /\ Min({x} \cup {y}) <= y
         /\ Min({x} \cup {y}) = x \/ Min({x} \cup {y}) = y
<1>1. CASE x <= y
  <2>1. {x} \cup {y} \in SUBSET Int /\ x \in {x} \cup {y} /\ \A z \in {x} \cup {y} : x <= z BY <1>1
  <2> QED BY <1>1, <2>1, MinIs
<1>2. CASE ~(x <= y)
  <2>1. {x} \cup {y} \in SUBSET Int /\ y \in {x} \cup {y} /\ \A z \in {x} \cup {y} : y <= z BY <1>2
  <2> QED BY <1>2, <2>1, MinIs
<1> QED BY Zenon, <1>1, <1>2

Room(len) == Min({len} \cup {j \in 0 .. UINT - 1 : Full(j)})
Avail(len) == Min({len} \cup {j \in 0 .. UINT - 1 : (nread + j) % UINT = nwrite})

\* pipewrite() copies as much as there is room for.
LEMMA RoomIs ==
  ASSUME TypeOK, RingInv, NEW len \in Nat
  PROVE  /\ Room(len) \in Nat /\ Room(len) <= len /\ Used + Room(len) <= PIPESIZE
         /\ Room(len) = len \/ Used + Room(len) = PIPESIZE
<1>1. /\ PIPESIZE \in Nat \ {0} /\ UINT \in Nat /\ PIPESIZE < UINT
      /\ Used \in 0 .. UINT - 1 /\ Used <= PIPESIZE
  BY PipeAssumption, Places DEF RingInv
<1>2. PIPESIZE - Used \in 0 .. UINT - 1 /\ PIPESIZE - Used \in Nat BY <1>1
<1>3. {j \in 0 .. UINT - 1 : Full(j)} = {PIPESIZE - Used} BY Zenon, <1>2, FullAt
<1>4. Room(len) = Min({len} \cup {PIPESIZE - Used}) BY Zenon, <1>3 DEF Room
<1>5. Room(len) \in Nat /\ Room(len) <= len /\ Room(len) <= PIPESIZE - Used
      /\ (Room(len) = len \/ Room(len) = PIPESIZE - Used)
  BY Zenon, <1>2, <1>4, MinOfTwo
<1> QED BY <1>1, <1>5

\* piperead() copies as much as there is.
LEMMA AvailIs ==
  ASSUME TypeOK, NEW len \in Nat
  PROVE  /\ Avail(len) \in Nat /\ Avail(len) <= len /\ Avail(len) <= Used
         /\ Avail(len) = len \/ Avail(len) = Used
<1>1. Used \in 0 .. UINT - 1 /\ UINT \in Nat BY PipeAssumption, Places
<1>2. Used \in Nat BY <1>1
<1>3. {j \in 0 .. UINT - 1 : (nread + j) % UINT = nwrite} = {Used} BY Zenon, <1>1, EmptyAt
<1>4. Avail(len) = Min({len} \cup {Used}) BY Zenon, <1>3 DEF Avail
<1> QED BY ZenonT(60), <1>2, <1>4, MinOfTwo

\* The test that piperead() makes before it sleeps.
LEMMA EmptyIs ==
  ASSUME TypeOK
  PROVE  nread = nwrite <=> Used = 0
<1>1. 0 \in 0 .. UINT - 1 /\ nread + 0 = nread /\ UINT \in Nat \ {0} /\ nread \in 0 .. UINT - 1
  BY PipeAssumption DEF TypeOK
<1>2. nread % UINT = nread BY Zenon, <1>1, ModSmall
<1> QED BY Zenon, <1>1, <1>2, EmptyAt

-----------------------------------------------------------------------------
(* The ring.                                                               *)

\* The bytes that pipewrite() puts into the ring go to places of their own ...
LEMMA PutNew ==
  ASSUME TypeOK, RingInv, NEW s, NEW k \in Nat, Used + k <= PIPESIZE, NEW j \in 1 .. k
  PROVE  Put(s, k)[(nwrite + (j - 1)) % PIPESIZE] = s[j]
<1>1. PIPESIZE \in Nat \ {0} /\ nwrite \in Int /\ j - 1 \in Int /\ k <= PIPESIZE
  <2>1. Used \in 0 .. UINT - 1 BY Places
  <2> QED BY <2>1, PipeAssumption DEF TypeOK
<1>2. PICK i \in 0 .. PIPESIZE - 1 : i = (nwrite + (j - 1)) % PIPESIZE
  <2>1. nwrite + (j - 1) \in Int BY <1>1
  <2> QED BY Zenon, <1>1, <2>1, DivMod
<1>3. ASSUME NEW x \in 1 .. k, (nwrite + x - 1) % PIPESIZE = i PROVE x = j
  <2>1. x - 1 \in Int /\ (x - 1) - (j - 1) \in -(PIPESIZE - 1) .. PIPESIZE - 1 BY <1>1
  <2>2. nwrite + x - 1 = nwrite + (x - 1) BY <1>1
  <2>3. x - 1 = j - 1 BY Zenon, <1>1, <1>2, <1>3, <2>1, <2>2, ModDistinct
  <2> QED BY <2>3
<1>4. (nwrite + j - 1) % PIPESIZE = i
  <2>1. nwrite + j - 1 = nwrite + (j - 1) BY <1>1
  <2> QED BY Zenon, <1>2, <2>1
<1>5. {x \in 1 .. k : (nwrite + x - 1) % PIPESIZE = i} = {j} BY Zenon, <1>3, <1>4
<1>6. Max({j}) = j
  <2>1. j >= j OBVIOUS
  <2> QED BY Zenon, <2>1 DEF Max
<1>7. i \in DOMAIN data BY Zenon DEF TypeOK
<1>8. {j} # {} OBVIOUS
<1> QED BY Zenon, <1>2, <1>5, <1>6, <1>7, <1>8 DEF Put

\* ... that no unread byte is in.
LEMMA PutOld ==
  ASSUME TypeOK, RingInv, NEW s, NEW k \in Nat, Used + k <= PIPESIZE, NEW j \in 1 .. Used
  PROVE  Put(s, k)[(nread + (j - 1)) % PIPESIZE] = data[(nread + (j - 1)) % PIPESIZE]
<1>1. PIPESIZE \in Nat \ {0} /\ nread \in Int /\ nwrite \in Int /\ j - 1 \in Int /\ Used \in Nat
  <2>1. Used \in 0 .. UINT - 1 BY Places
  <2> QED BY <2>1, PipeAssumption DEF TypeOK
<1>2. PICK i \in 0 .. PIPESIZE - 1 : i = (nread + (j - 1)) % PIPESIZE
  <2>1. nread + (j - 1) \in Int BY <1>1
  <2> QED BY Zenon, <1>1, <2>1, DivMod
<1>3. ASSUME NEW x \in 1 .. k, (nwrite + x - 1) % PIPESIZE = i PROVE FALSE
  <2>1. x - 1 \in Int /\ Used + (x - 1) \in Int
        /\ (Used + (x - 1)) - (j - 1) \in 1 .. PIPESIZE - 1
    BY <1>1
  <2>2. nwrite + x - 1 = nwrite + (x - 1) BY <1>1
  <2>3. (nread + (Used + (x - 1))) % PIPESIZE = (nread + (j - 1)) % PIPESIZE
    BY Zenon, <1>2, <1>3, <2>1, <2>2, Places
  <2>4. (Used + (x - 1)) - (j - 1) \in -(PIPESIZE - 1) .. PIPESIZE - 1 BY <1>1, <2>1
  <2>5. Used + (x - 1) = j - 1 BY Zenon, <1>1, <2>1, <2>3, <2>4, ModDistinct
  <2> QED BY <1>1, <2>1, <2>5
<1>4. {x \in 1 .. k : (nwrite + x - 1) % PIPESIZE = i} = {} BY Zenon, <1>3
<1>5. i \in DOMAIN data BY Zenon DEF TypeOK
<1> QED BY Zenon, <1>2, <1>4, <1>5 DEF Put

Bytes(d, r, u) == [j \in 1 .. u |-> d[(r + j - 1) % PIPESIZE]]

\* The u bytes of ring d from counter r on.
LEMMA BytesAre ==
  ASSUME NEW d \in [0 .. PIPESIZE - 1 -> Writer \cup {None}], NEW r \in Int, NEW u \in Nat
  PROVE  /\ Bytes(d, r, u) \in Seq(Writer \cup {None}) /\ Len(Bytes(d, r, u)) = u
         /\ \A j \in 1 .. u : Bytes(d, r, u)[j] = d[(r + (j - 1)) % PIPESIZE]
<1>1. PIPESIZE \in Nat \ {0} BY PipeAssumption
<1>2. ASSUME NEW j \in 1 .. u
      PROVE  /\ r + j - 1 = r + (j - 1)
             /\ d[(r + j - 1) % PIPESIZE] \in Writer \cup {None}
  <2>1. r + j - 1 = r + (j - 1) /\ r + j - 1 \in Int OBVIOUS
  <2>2. (r + j - 1) % PIPESIZE \in 0 .. PIPESIZE - 1 BY Zenon, <1>1, <2>1, DivMod
  <2> QED BY Zenon, <2>1, <2>2
<1>3. \A j \in 1 .. u : Bytes(d, r, u)[j] = d[(r + j - 1) % PIPESIZE] BY Zenon DEF Bytes
<1>4. Bytes(d, r, u) \in [1 .. u -> Writer \cup {None}] BY Zenon, <1>2 DEF Bytes
<1>5. Bytes(d, r, u) \in Seq(Writer \cup {None}) /\ Len(Bytes(d, r, u)) = u BY <1>4
<1> QED BY Zenon, <1>2, <1>3, <1>5

\* The content of the pipe.
LEMMA ContentIs ==
  ASSUME TypeOK
  PROVE  /\ Content \in Seq(Writer \cup {None}) /\ Len(Content) = Used /\ Used \in Nat
         /\ \A j \in 1 .. Used : Content[j] = data[(nread + (j - 1)) % PIPESIZE]
<1>1. nread \in Int /\ Used \in Nat
  <2>1. Used \in 0 .. UINT - 1 BY Places
  <2> QED BY <2>1, PipeAssumption DEF TypeOK
<1>2. Content = Bytes(data, nread, Used) BY Zenon DEF Content, Bytes
<1>3. data \in [0 .. PIPESIZE - 1 -> Writer \cup {None}] BY Zenon DEF TypeOK
<1> QED BY Zenon, <1>1, <1>2, <1>3, BytesAre

\* The content after a step.
LEMMA ContentNext ==
  ASSUME TypeOK', Used' \in Nat
  PROVE  /\ Content' \in Seq(Writer \cup {None}) /\ Len(Content') = Used'
         /\ \A j \in 1 .. Used' : Content'[j] = data'[(nread' + (j - 1)) % PIPESIZE]
<1>1. nread' \in Int BY PipeAssumption DEF TypeOK
<1>2. Content' = Bytes(data', nread', Used') BY Zenon DEF Content, Bytes
<1>3. data' \in [0 .. PIPESIZE - 1 -> Writer \cup {None}] BY Zenon DEF TypeOK
<1> QED BY Zenon, <1>1, <1>2, <1>3, BytesAre

-----------------------------------------------------------------------------
(* What a call does to the content of the pipe.                            *)

\* How to recognise a concatenation ...
LEMMA ConcatIs ==
  ASSUME NEW c \in Seq(Writer \cup {None}), NEW t \in Seq(Writer \cup {None}),
         NEW d \in Seq(Writer \cup {None}),
         Len(d) = Len(c) + Len(t),
         \A j \in 1 .. Len(c) : d[j] = c[j],
         \A j \in 1 .. Len(t) : d[Len(c) + j] = t[j]
  PROVE  d = c \o t
<1>1. c \o t \in Seq(Writer \cup {None}) /\ Len(c \o t) = Len(c) + Len(t) OBVIOUS
<1>2. ASSUME NEW j \in 1 .. Len(d) PROVE d[j] = (c \o t)[j]
  <2>1. CASE j <= Len(c) BY <2>1
  <2>2. CASE ~(j <= Len(c))
    <3>1. j - Len(c) \in 1 .. Len(t) /\ Len(c) + (j - Len(c)) = j BY <2>2
    <3>2. d[j] = t[j - Len(c)] BY Zenon, <3>1
    <3> QED BY <2>2, <3>2
  <2> QED BY Zenon, <2>1, <2>2
<1> QED BY <1>1, <1>2

\* ... and a part of a sequence.
LEMMA SubSeqIs ==
  ASSUME NEW c \in Seq(Writer \cup {None}), NEW a \in Nat, NEW b \in Nat, a <= b, b <= Len(c),
         NEW d \in Seq(Writer \cup {None}), Len(d) = b - a, \A j \in 1 .. Len(d) : d[j] = c[a + j]
  PROVE  d = SubSeq(c, a + 1, b)
<1>1. SubSeq(c, a + 1, b) \in Seq(Writer \cup {None}) /\ Len(SubSeq(c, a + 1, b)) = b - a OBVIOUS
<1>2. ASSUME NEW j \in 1 .. Len(d) PROVE d[j] = SubSeq(c, a + 1, b)[j]
  <2>1. SubSeq(c, a + 1, b)[j] = c[a + 1 + j - 1] /\ a + 1 + j - 1 = a + j OBVIOUS
  <2> QED BY Zenon, <2>1
<1> QED BY <1>1, <1>2

\* The bytes that pipewrite() puts into the ring come after those that are there.
LEMMA WriteContent ==
  ASSUME TypeOK, TypeOK', RingInv, NEW s, NEW k \in Nat, Used + k <= PIPESIZE,
         data' = Put(s, k), nwrite' = (nwrite + k) % UINT, nread' = nread
  PROVE  /\ Used' = Used + k
         /\ \A j \in 1 .. Used : Content'[j] = Content[j]
         /\ \A j \in 1 .. k : Content'[Used + j] = s[j]
<1>1. /\ UINT \in Nat \ {0} /\ PIPESIZE < UINT /\ PIPESIZE \in Nat /\ nread \in Int /\ nwrite \in Int
      /\ Used \in Nat /\ k \in Int
  BY SMTT(30), PipeAssumption, ContentIs DEF TypeOK
<1>2. Used' = Used + k
  <2>1. Used + k \in 0 .. UINT - 1 BY <1>1
  <2>2. (((nwrite + k) % UINT) - nread) % UINT = ((nwrite - nread) % UINT) + k
    BY ZenonT(60), <1>1, <2>1, AheadMore DEF Used
  <2> QED BY Zenon, <2>2 DEF Used
<1>3. \A j \in 1 .. Used' : Content'[j] = data'[(nread' + (j - 1)) % PIPESIZE]
  <2>1. Used' \in Nat BY <1>1, <1>2
  <2> QED BY Zenon, <2>1, ContentNext
<1>4. ASSUME NEW j \in 1 .. Used PROVE Content'[j] = Content[j]
  <2>1. j \in 1 .. Used' BY <1>1, <1>2
  <2> QED BY ZenonT(60), <1>3, <2>1, ContentIs, PutOld
<1>5. ASSUME NEW j \in 1 .. k PROVE Content'[Used + j] = s[j]
  <2>1. Used + j \in 1 .. Used' /\ (Used + j) - 1 = Used + (j - 1) /\ j - 1 \in Int BY <1>1, <1>2
  <2>2. (nread + (Used + (j - 1))) % PIPESIZE = (nwrite + (j - 1)) % PIPESIZE BY Zenon, <2>1, Places
  <2>3. Content'[Used + j] = data'[(nread + ((Used + j) - 1)) % PIPESIZE] BY Zenon, <1>3, <2>1
  <2>4. Content'[Used + j] = data'[(nwrite + (j - 1)) % PIPESIZE] BY Zenon, <2>1, <2>2, <2>3
  <2> QED BY Zenon, <2>4, PutNew
<1> QED BY Zenon, <1>2, <1>4, <1>5

\* How far the writers are ahead when m bytes have been read.
LEMMA UsedAfterRead ==
  ASSUME TypeOK, NEW m \in Nat, m <= Used
  PROVE  (nwrite - ((nread + m) % UINT)) % UINT = Used - m
<1>1. UINT \in Nat \ {0} /\ nread \in Int /\ nwrite \in Int /\ m \in Int
  BY PipeAssumption DEF TypeOK
<1>2. Used \in 0 .. UINT - 1 BY Places
<1>3. /\ nread + m \in Int /\ nwrite - nread \in Int /\ -m \in Int /\ Used - m \in 0 .. UINT - 1
      /\ nwrite - (nread + m) = (nwrite - nread) + (-m) /\ Used + (-m) = Used - m
  BY <1>1, <1>2
<1>4. (nwrite - ((nread + m) % UINT)) % UINT = (nwrite - (nread + m)) % UINT
  BY Zenon, <1>1, <1>3, SubMod
<1>5. (Used + (-m)) % UINT = ((nwrite - nread) + (-m)) % UINT BY Zenon, <1>1, <1>3, AddMod DEF Used
<1>6. (Used - m) % UINT = Used - m BY Zenon, <1>1, <1>3, ModSmall
<1> QED BY Zenon, <1>3, <1>4, <1>5, <1>6

\* The bytes that piperead() takes are the first ones.
LEMMA ReadContent ==
  ASSUME TypeOK, TypeOK', NEW m \in Nat, m <= Used,
         nread' = (nread + m) % UINT, UNCHANGED <<data, nwrite>>
  PROVE  /\ Used' = Used - m
         /\ \A j \in 1 .. Used - m : Content'[j] = Content[m + j]
<1>0. PIPESIZE \in Nat \ {0} /\ UINT % PIPESIZE = 0 BY PipeAssumption
<1>1. /\ UINT \in Nat \ {0} /\ nread \in Int /\ nwrite \in Int /\ Used \in 0 .. UINT - 1 /\ m \in Int
  BY PipeAssumption, Places DEF TypeOK
<1>2. Used' = Used - m
  <2>1. (nwrite - ((nread + m) % UINT)) % UINT = Used - m BY Zenon, UsedAfterRead
  <2> QED BY Zenon, <2>1 DEF Used
<1>3. \A j \in 1 .. Used' : Content'[j] = data'[(nread' + (j - 1)) % PIPESIZE]
  <2>1. Used' \in Nat BY <1>1, <1>2
  <2> QED BY Zenon, <2>1, ContentNext
<1>4. ASSUME NEW j \in 1 .. Used - m PROVE Content'[j] = Content[m + j]
  <2>1. j \in 1 .. Used' /\ m + j \in 1 .. Used BY <1>1, <1>2
  <2>2. nread + m \in Int /\ j - 1 \in Int /\ (nread + m) + (j - 1) = nread + ((m + j) - 1) BY <1>1
  <2>3. (((nread + m) % UINT) + (j - 1)) % PIPESIZE = ((nread + m) + (j - 1)) % PIPESIZE
    <3>1. PICK r \in Int : r = (nread + m) % UINT BY Zenon, <1>1, <2>2, ModInt
    <3>2. r + (j - 1) \in Int /\ (nread + m) + (j - 1) \in Int BY <2>2
    <3>3. (r + (j - 1)) % UINT = ((nread + m) + (j - 1)) % UINT BY Zenon, <1>1, <2>2, <3>1, AddMod
    <3>4. ((r + (j - 1)) % UINT) % PIPESIZE = (r + (j - 1)) % PIPESIZE
      BY ZenonT(60), <1>0, <1>1, <3>2, ModMod
    <3>5. (((nread + m) + (j - 1)) % UINT) % PIPESIZE = ((nread + m) + (j - 1)) % PIPESIZE
      BY Zenon, <1>0, <1>1, <3>2, ModMod
    <3> QED BY Zenon, <3>1, <3>3, <3>4, <3>5
  <2>4. Content'[j] = data[(((nread + m) % UINT) + (j - 1)) % PIPESIZE] BY Zenon, <1>3, <2>1
  <2>5. Content[m + j] = data[(nread + ((m + j) - 1)) % PIPESIZE] BY Zenon, <2>1, ContentIs
  <2> QED BY Zenon, <2>2, <2>3, <2>4, <2>5
<1> QED BY Zenon, <1>2, <1>4

-----------------------------------------------------------------------------
(* The steps.                                                              *)

\* The rest of a sequence.
LEMMA SuffixAt ==
  ASSUME NEW S, NEW c \in Seq(S), NEW a \in Nat, a <= Len(c)
  PROVE  /\ SubSeq(c, a + 1, Len(c)) \in Seq(S)
         /\ \A i \in 1 .. Len(SubSeq(c, a + 1, Len(c))) :
              SubSeq(c, a + 1, Len(c))[i] = c[a + i] /\ a + i \in 1 .. Len(c)
<1>1. SubSeq(c, a + 1, Len(c)) \in Seq(S) /\ Len(SubSeq(c, a + 1, Len(c))) = Len(c) - a OBVIOUS
<1>2. ASSUME NEW i \in 1 .. Len(c) - a
      PROVE  SubSeq(c, a + 1, Len(c))[i] = c[a + i] /\ a + i \in 1 .. Len(c)
  <2>1. SubSeq(c, a + 1, Len(c))[i] = c[a + 1 + i - 1] /\ a + 1 + i - 1 = a + i OBVIOUS
  <2>2. a + i \in 1 .. Len(c) OBVIOUS
  <2> QED BY Zenon, <2>1, <2>2
<1> QED BY Zenon, <1>1, <1>2

\* wakeup() makes nobody return from the kernel or enter it.
LEMMA WakeupFacts ==
  ASSUME NEW f \in [Proc -> Label], NEW S
  PROVE  /\ wakeup(f, S) \in [Proc -> Label]
         /\ \A q \in Proc : wakeup(f, S)[q] = "idle" <=> f[q] = "idle"
<1>1. "run" \in Label /\ "asleep" # "idle" /\ "run" # "idle" BY DEF Label
<1>2. wakeup(f, S) \in [Proc -> Label] BY Zenon, <1>1 DEF wakeup
<1>3. ASSUME NEW q \in Proc PROVE wakeup(f, S)[q] = "idle" <=> f[q] = "idle"
  BY Zenon, <1>1 DEF wakeup
<1> QED BY Zenon, <1>2, <1>3

\* A process moves on.
LEMMA GotoFacts ==
  ASSUME TypeOK, NEW p \in Proc, NEW l \in Label
  PROVE  /\ Goto(p, l) \in [Proc -> Label] /\ Goto(p, l)[p] = l
         /\ \A q \in Proc : q # p => Goto(p, l)[q] = pc[q]
BY Zenon DEF Goto, TypeOK

\* What pipewrite() does when it copies k bytes, and piperead() when it copies m.
Writes(p, k) ==
  /\ p \in Writer /\ p \in fds
  /\ k \in Nat /\ k <= Len(addr[p]) /\ Used + k <= PIPESIZE
  /\ data' = Put(addr[p], k) /\ nwrite' = (nwrite + k) % UINT
  /\ UNCHANGED <<nread, readopen, writeopen, fds, n, got, killed>>

Reads(p, m) ==
  /\ p \in Reader
  /\ m \in Nat /\ m <= Used /\ (m = 0 => Used = 0 /\ ~writeopen)
  /\ nread' = (nread + m) % UINT
  /\ got' = [got EXCEPT ![p] = Bytes(data, nread, m)]
  /\ UNCHANGED <<data, nwrite, readopen, writeopen, fds, addr, killed>>

\* A process calls the kernel or returns from it, or stays where it is.
Moves(p, f) == f \in [Proc -> Label] /\ \A q \in Proc : q # p => (f[q] = "idle" <=> pc[q] = "idle")

\* A process moves on, and wakes others or not.
LEMMA MovesTo ==
  ASSUME TypeOK, NEW p \in Proc, NEW l \in Label, NEW S
  PROVE  /\ Moves(p, Goto(p, l)) /\ Goto(p, l)[p] = l
         /\ Moves(p, wakeup(Goto(p, l), S)) /\ (wakeup(Goto(p, l), S)[p] = "idle" <=> l = "idle")
<1>1. /\ Goto(p, l) \in [Proc -> Label] /\ Goto(p, l)[p] = l
      /\ \A q \in Proc : q # p => Goto(p, l)[q] = pc[q]
  BY ZenonT(60), GotoFacts
<1>2. /\ wakeup(Goto(p, l), S) \in [Proc -> Label]
      /\ \A q \in Proc : wakeup(Goto(p, l), S)[q] = "idle" <=> Goto(p, l)[q] = "idle"
  BY Zenon, <1>1, WakeupFacts
<1> QED BY Zenon, <1>1, <1>2 DEF Moves

\* pipewrite() copies what there is room for, and keeps only bytes of its own to write.
LEMMA WriteFacts ==
  ASSUME Inv, NEW p \in Proc, pipewrite(p)
  PROVE  /\ Writes(p, Room(Len(addr[p]))) /\ Moves(p, pc')
         /\ addr' \in [Writer -> Seq(Writer)]
         /\ \A q \in Writer : \A i \in 1 .. Len(addr'[q]) : addr'[q][i] = q
<1> USE DEF Inv
<1>1. /\ p \in Writer /\ p \in fds /\ addr[p] \in Seq(Writer) /\ Len(addr[p]) \in Nat
      /\ "idle" \in Label /\ "sleep" \in Label
  <2>1. p \in Writer /\ pc[p] # "idle" BY DEF pipewrite
  <2>2. addr[p] \in Seq(Writer) BY Zenon, <2>1 DEF TypeOK
  <2> QED BY <2>1, <2>2 DEF OpenInv, Label
<1>2. Writes(p, Room(Len(addr[p])))
  <2>1. /\ Room(Len(addr[p])) \in Nat /\ Room(Len(addr[p])) <= Len(addr[p])
        /\ Used + Room(Len(addr[p])) <= PIPESIZE
    BY Zenon, <1>1, RoomIs
  <2> QED BY Zenon, <1>1, <2>1 DEF pipewrite, Room, Writes
<1>3. Moves(p, pc')
  <2>1. \/ pc' = wakeup(Goto(p, "idle"), Reader) \/ pc' = Goto(p, "idle")
        \/ pc' = wakeup(Goto(p, "sleep"), Reader)
    BY Zenon DEF pipewrite
  <2> QED BY ZenonT(60), <1>1, <2>1, MovesTo
<1>4. PICK s : /\ addr' = [addr EXCEPT ![p] = s]
               /\ s = <<>> \/ s = SubSeq(addr[p], Room(Len(addr[p])) + 1, Len(addr[p]))
  BY Zenon DEF pipewrite, Room
<1>5. s \in Seq(Writer) /\ \A i \in 1 .. Len(s) : s[i] = p
  <2>1. CASE s = <<>> BY <2>1
  <2>2. CASE s = SubSeq(addr[p], Room(Len(addr[p])) + 1, Len(addr[p]))
    <3>1. \A i \in 1 .. Len(addr[p]) : addr[p][i] = p BY Zenon, <1>1 DEF CallInv
    <3>2. PICK k \in Nat : k = Room(Len(addr[p])) /\ k <= Len(addr[p]) BY Zenon, <1>2 DEF Writes
    <3>3. s = SubSeq(addr[p], k + 1, Len(addr[p])) BY Zenon, <2>2, <3>2
    <3>4. /\ SubSeq(addr[p], k + 1, Len(addr[p])) \in Seq(Writer)
          /\ \A i \in 1 .. Len(SubSeq(addr[p], k + 1, Len(addr[p]))) :
               SubSeq(addr[p], k + 1, Len(addr[p]))[i] = addr[p][k + i] /\ k + i \in 1 .. Len(addr[p])
      BY Zenon, <1>1, <3>2, SuffixAt
    <3> QED BY Zenon, <3>1, <3>3, <3>4
  <2> QED BY Zenon, <1>4, <2>1, <2>2
<1>6. addr'[p] = s /\ \A q \in Writer : q # p => addr'[q] = addr[q] BY Zenon, <1>1, <1>4 DEF TypeOK
<1>7. addr' \in [Writer -> Seq(Writer)] BY Zenon, <1>4, <1>5 DEF TypeOK
<1>8. ASSUME NEW q \in Writer PROVE \A i \in 1 .. Len(addr'[q]) : addr'[q][i] = q
  <2>1. CASE q = p BY Zenon, <1>5, <1>6, <2>1
  <2>2. CASE q # p BY Zenon, <1>6, <2>2 DEF CallInv
  <2> QED BY Zenon, <2>1, <2>2
<1> QED BY Zenon, <1>2, <1>3, <1>7, <1>8

\* piperead() waits, or gives up, or reads.
LEMMA ReadFacts ==
  ASSUME Inv, NEW p \in Proc, piperead(p)
  PROVE  /\ Moves(p, pc') /\ p \in Reader /\ p \in fds
         /\ n' \in [Reader -> Nat] /\ (\A q \in Reader : q # p => n'[q] = n[q])
         /\ pc'[p] # "idle" => n'[p] # 0
         /\ \/ UNCHANGED <<pipe, fds, addr, got, killed>>
            \/ Reads(p, Avail(n[p]))
<1> USE DEF Inv
<1>1. /\ p \in Reader /\ p \in fds /\ n[p] \in Nat /\ n[p] # 0
      /\ "idle" \in Label /\ "sleep" \in Label /\ 0 \in Nat
  <2>1. p \in Reader /\ pc[p] # "idle" BY DEF piperead
  <2>2. n[p] \in Nat /\ n[p] # 0 BY Zenon, <2>1 DEF TypeOK, CallInv
  <2> QED BY SMTT(30), <2>1, <2>2 DEF OpenInv, Label
<1>2. CASE nread = nwrite /\ writeopen
  <2>1. /\ pc' = Goto(p, IF killed[p] THEN "idle" ELSE "sleep")
        /\ n' = [n EXCEPT ![p] = IF killed[p] THEN 0 ELSE @]
        /\ UNCHANGED <<pipe, fds, addr, got, killed>>
    BY <1>2 DEF piperead, pipe
  <2>2. (IF killed[p] THEN "idle" ELSE "sleep") \in Label BY Zenon, <1>1
  <2>3. Moves(p, pc') /\ pc'[p] = (IF killed[p] THEN "idle" ELSE "sleep") BY Zenon, <2>1, <2>2, MovesTo
  <2>4. /\ n' \in [Reader -> Nat] /\ n'[p] = (IF killed[p] THEN 0 ELSE n[p])
        /\ \A q \in Reader : q # p => n'[q] = n[q]
    BY Zenon, <1>1, <2>1 DEF TypeOK
  <2>5. pc'[p] # "idle" => n'[p] # 0 BY Zenon, <1>1, <2>3, <2>4
  <2> QED BY Zenon, <1>1, <2>1, <2>3, <2>4, <2>5
<1>3. CASE ~(nread = nwrite /\ writeopen)
  <2>1. /\ nread' = (nread + Avail(n[p])) % UINT
        /\ got' = [got EXCEPT ![p] = Bytes(data, nread, Avail(n[p]))]
        /\ n' = [n EXCEPT ![p] = 0] /\ pc' = wakeup(Goto(p, "idle"), Writer)
        /\ UNCHANGED <<data, nwrite, readopen, writeopen, fds, addr, killed>>
    BY Zenon, <1>3 DEF piperead, Avail, Bytes
  <2>2. Moves(p, pc') /\ pc'[p] = "idle" BY Zenon, <1>1, <2>1, MovesTo
  <2>3. n' \in [Reader -> Nat] /\ \A q \in Reader : q # p => n'[q] = n[q]
    BY Zenon, <1>1, <2>1 DEF TypeOK
  <2>4. /\ Avail(n[p]) \in Nat /\ Avail(n[p]) <= Used
        /\ Avail(n[p]) = n[p] \/ Avail(n[p]) = Used
    BY Zenon, <1>1, AvailIs
  <2>5. Avail(n[p]) = 0 => Used = 0 /\ ~writeopen BY Zenon, <1>1, <1>3, <2>4, EmptyIs
  <2>6. Reads(p, Avail(n[p])) BY Zenon, <1>1, <2>1, <2>4, <2>5 DEF Reads
  <2> QED BY Zenon, <1>1, <2>2, <2>3, <2>6
<1> QED BY Zenon, <1>2, <1>3

\* What pipewrite() leaves in the ring are bytes.
LEMMA PutType ==
  ASSUME TypeOK, RingInv, NEW s \in Seq(Writer), NEW k \in Nat, Used + k <= PIPESIZE, k <= Len(s)
  PROVE  Put(s, k) \in [0 .. PIPESIZE - 1 -> Writer \cup {None}]
<1>1. DOMAIN data = 0 .. PIPESIZE - 1 /\ nwrite \in Int BY DEF TypeOK
<1>2. ASSUME NEW i \in 0 .. PIPESIZE - 1 PROVE Put(s, k)[i] \in Writer \cup {None}
  <2>1. CASE {j \in 1 .. k : (nwrite + j - 1) % PIPESIZE = i} = {}
    <3>1. Put(s, k)[i] = data[i] BY Zenon, <1>1, <2>1 DEF Put
    <3> QED BY Zenon, <3>1 DEF TypeOK
  <2>2. CASE {j \in 1 .. k : (nwrite + j - 1) % PIPESIZE = i} # {}
    <3>1. PICK j \in 1 .. k : (nwrite + j - 1) % PIPESIZE = i BY Zenon, <2>2
    <3>2. nwrite + j - 1 = nwrite + (j - 1) /\ s[j] \in Writer BY <1>1
    <3>3. Put(s, k)[(nwrite + (j - 1)) % PIPESIZE] = s[j] BY Zenon, PutNew
    <3> QED BY Zenon, <3>1, <3>2, <3>3
  <2> QED BY Zenon, <2>1, <2>2
<1>3. Put(s, k) = [i \in 0 .. PIPESIZE - 1 |-> Put(s, k)[i]] BY Zenon, <1>1 DEF Put
<1> QED BY Zenon, <1>2, <1>3

\* A process that enters or leaves the kernel with its end open, and one that closes it.
LEMMA OpenKept ==
  ASSUME OpenInv, NEW p \in fds, Moves(p, pc'), UNCHANGED <<fds, readopen, writeopen>>
  PROVE  OpenInv'
<1>1. fds' = fds /\ readopen' = readopen /\ writeopen' = writeopen OBVIOUS
<1>2. ASSUME NEW q \in Proc, pc'[q] # "idle" PROVE q \in fds' BY Zenon, <1>1, <1>2 DEF OpenInv, Moves
<1>3. (fds' \cap Writer # {} => writeopen') /\ (fds' \cap Reader # {} => readopen')
  BY <1>1 DEF OpenInv
<1> QED BY Zenon, <1>2, <1>3 DEF OpenInv

\* pipewrite() keeps the invariant ...
LEMMA WriteInv ==
  ASSUME Inv, NEW p \in Proc, pipewrite(p)
  PROVE  Inv'
<1> USE DEF Inv
<1>1. PICK k : k = Room(Len(addr[p])) OBVIOUS
<1>2. /\ Writes(p, k) /\ Moves(p, pc') /\ addr' \in [Writer -> Seq(Writer)]
      /\ \A q \in Writer : \A i \in 1 .. Len(addr'[q]) : addr'[q][i] = q
  BY Zenon, <1>1, WriteFacts
<1>3. nwrite' \in 0 .. UINT - 1
  <2>1. UINT \in Nat \ {0} /\ nwrite + k \in Int BY SMTT(30), <1>2, PipeAssumption DEF Writes, TypeOK
  <2> QED BY Zenon, <1>2, <2>1, DivMod DEF Writes
<1>4. data' \in [0 .. PIPESIZE - 1 -> Writer \cup {None}]
  <2>1. addr[p] \in Seq(Writer) BY Zenon, <1>2 DEF Writes, TypeOK
  <2> QED BY Zenon, <1>2, <2>1, PutType DEF Writes
<1>5. UNCHANGED <<nread, readopen, writeopen, fds, n, got, killed>> BY Zenon, <1>2 DEF Writes
<1>6. TypeOK' BY Zenon, <1>2, <1>3, <1>4, <1>5 DEF TypeOK, Moves
<1>7. RingInv'
  <2>1. Used' = Used + k BY Zenon, <1>2, <1>6, WriteContent DEF Writes
  <2> QED BY Zenon, <1>2, <2>1 DEF Writes, RingInv
<1>8. OpenInv' BY Zenon, <1>2, <1>5, OpenKept DEF Writes
<1>9. CallInv'
  <2>1. ASSUME NEW q \in Reader PROVE q # p /\ q \in Proc
    BY Zenon, <1>2, PipeAssumption DEF Writes, Proc
  <2> QED BY Zenon, <1>2, <1>5, <2>1 DEF CallInv, Moves
<1> QED BY Zenon, <1>6, <1>7, <1>8, <1>9

\* ... and so does piperead().
LEMMA ReadInv ==
  ASSUME Inv, NEW p \in Proc, piperead(p)
  PROVE  Inv'
<1> USE DEF Inv
<1>1. /\ Moves(p, pc') /\ p \in Reader /\ p \in fds
      /\ n' \in [Reader -> Nat] /\ (\A q \in Reader : q # p => n'[q] = n[q])
      /\ pc'[p] # "idle" => n'[p] # 0
  BY Zenon, ReadFacts
<1>2. UNCHANGED <<readopen, writeopen, fds, addr, killed, data, nwrite>> BY Zenon DEF piperead
<1>3. OpenInv' BY Zenon, <1>1, <1>2, OpenKept
<1>4. CallInv'
  <2>1. ASSUME NEW q \in Reader, pc'[q] # "idle" PROVE n'[q] # 0
    <3>1. q \in Proc BY Zenon DEF Proc
    <3> QED BY Zenon, <1>1, <2>1, <3>1 DEF CallInv, Moves
  <2> QED BY Zenon, <1>2, <2>1 DEF CallInv
<1>5. CASE UNCHANGED <<pipe, fds, addr, got, killed>>
  <2>1. UNCHANGED <<data, nread, nwrite, got>> BY Zenon, <1>5 DEF pipe
  <2>2. TypeOK' BY Zenon, <1>1, <1>2, <2>1 DEF TypeOK, Moves
  <2>3. RingInv' BY Zenon, <2>1 DEF RingInv, Used
  <2> QED BY Zenon, <1>3, <1>4, <2>2, <2>3
<1>6. CASE Reads(p, Avail(n[p]))
  <2>1. PICK m : m = Avail(n[p]) OBVIOUS
  <2>2. Reads(p, m) BY Zenon, <1>6, <2>1
  <2>3. nread' \in 0 .. UINT - 1
    <3>1. UINT \in Nat \ {0} /\ nread + m \in Int BY <2>2, PipeAssumption DEF Reads, TypeOK
    <3> QED BY Zenon, <2>2, <3>1, DivMod DEF Reads
  <2>4. got' \in [Reader -> Seq(Writer \cup {None})]
    <3>1. nread \in Int BY PipeAssumption DEF TypeOK
    <3>2. Bytes(data, nread, m) \in Seq(Writer \cup {None}) BY Zenon, <2>2, <3>1, BytesAre DEF Reads, TypeOK
    <3> QED BY Zenon, <2>2, <3>2 DEF Reads, TypeOK
  <2>5. TypeOK' BY Zenon, <1>1, <1>2, <2>3, <2>4 DEF TypeOK, Moves
  <2>6. Used' = Used - m BY Zenon, <1>2, <2>2, <2>5, ReadContent DEF Reads
  <2>7. Used \in Nat /\ m \in Nat /\ Used <= PIPESIZE /\ PIPESIZE \in Nat
    BY Zenon, <2>2, ContentIs, PipeAssumption DEF Reads, RingInv
  <2>8. RingInv' BY <2>6, <2>7 DEF RingInv
  <2> QED BY Zenon, <1>3, <1>4, <2>5, <2>8
<1> QED BY Zenon, <1>5, <1>6, ReadFacts

\* pipealloc() leaves the pipe empty and open.
LEMMA InitInv == Init => Inv
<1> SUFFICES ASSUME Init PROVE Inv OBVIOUS
<1>1. PIPESIZE \in Nat \ {0} /\ UINT \in Nat \ {0} BY PipeAssumption
<1>2. TypeOK
  <2>1. /\ 0 \in 0 .. UINT - 1 /\ "idle" \in Label /\ 0 \in Nat /\ <<>> \in Seq(Writer)
        /\ <<>> \in Seq(Writer \cup {None})
    BY <1>1 DEF Label
  <2> QED BY Zenon, <2>1 DEF Init, TypeOK
<1>3. Used = 0 BY <1>1 DEF Used, Init
<1>4. RingInv BY <1>1, <1>3 DEF RingInv
<1>5. OpenInv BY Zenon DEF Init, OpenInv
<1>6. CallInv
  <2>1. ASSUME NEW p \in Writer, NEW i \in 1 .. Len(addr[p]) PROVE FALSE
    <3>1. addr[p] = <<>> BY Zenon DEF Init
    <3> QED BY <3>1
  <2> QED BY Zenon, <2>1 DEF Init, CallInv, Proc
<1> QED BY Zenon, <1>2, <1>4, <1>5, <1>6 DEF Inv

\* The invariant is inductive.
LEMMA NextInv == Inv /\ [Next]_vars => Inv'
<1> SUFFICES ASSUME Inv, [Next]_vars PROVE Inv' OBVIOUS
<1> USE DEF Inv
<1>0. /\ "idle" \in Label /\ "run" \in Label /\ "asleep" \in Label
      /\ "sleep" # "idle" /\ "asleep" # "idle" /\ "run" # "idle"
  BY DEF Label
<1>1. CASE \E p \in Proc : sys_write(p)
  <2> PICK p \in Proc, len \in WriteLens :
        /\ p \in fds \cap Writer
        /\ addr' = [addr EXCEPT ![p] = [i \in 1 .. len |-> p]]
        /\ pc' = Goto(p, "run")
        /\ UNCHANGED <<pipe, lock, fds, n, got, killed>>
    BY Zenon, <1>1 DEF sys_write
  <2>1. UNCHANGED <<data, nread, nwrite, readopen, writeopen, fds, n, got, killed>> BY Zenon DEF pipe
  <2>2. Moves(p, pc') BY Zenon, <1>0, MovesTo
  <2>3. p \in fds /\ p \in Writer BY Zenon
  <2>4. PICK s \in Seq(Writer) : s = [i \in 1 .. len |-> p] /\ \A i \in 1 .. Len(s) : s[i] = p
    <3>1. len \in Nat BY PipeAssumption
    <3>2. [i \in 1 .. len |-> p] \in Seq(Writer) /\ Len([i \in 1 .. len |-> p]) = len BY <2>3, <3>1
    <3>3. \A i \in 1 .. len : [j \in 1 .. len |-> p][i] = p BY Zenon
    <3> QED BY Zenon, <3>2, <3>3
  <2>5. /\ addr' \in [Writer -> Seq(Writer)] /\ addr'[p] = s
        /\ \A q \in Writer : q # p => addr'[q] = addr[q]
    BY Zenon, <2>3, <2>4 DEF TypeOK
  <2>6. TypeOK' BY Zenon, <2>1, <2>2, <2>5 DEF TypeOK, Moves
  <2>7. RingInv' BY Zenon, <2>1 DEF RingInv, Used
  <2>8. OpenInv' BY Zenon, <2>1, <2>2, <2>3, OpenKept
  <2>9. CallInv'
    <3>1. ASSUME NEW q \in Writer PROVE \A i \in 1 .. Len(addr'[q]) : addr'[q][i] = q
      <4>1. CASE q = p BY Zenon, <2>4, <2>5, <4>1
      <4>2. CASE q # p BY Zenon, <2>5, <4>2 DEF CallInv
      <4> QED BY Zenon, <4>1, <4>2
    <3>2. ASSUME NEW q \in Reader PROVE q # p /\ q \in Proc BY Zenon, <2>3, PipeAssumption DEF Proc
    <3> QED BY Zenon, <2>1, <2>2, <3>1, <3>2 DEF CallInv, Moves
  <2> QED BY Zenon, <2>6, <2>7, <2>8, <2>9
<1>2. CASE \E p \in Proc : sys_read(p)
  <2> PICK p \in Proc, len \in ReadLens :
        /\ p \in fds \cap Reader
        /\ n' = [n EXCEPT ![p] = len]
        /\ pc' = Goto(p, "run")
        /\ UNCHANGED <<pipe, lock, fds, addr, got, killed>>
    BY Zenon, <1>2 DEF sys_read
  <2>1. UNCHANGED <<data, nread, nwrite, readopen, writeopen, fds, addr, got, killed>> BY Zenon DEF pipe
  <2>2. Moves(p, pc') BY Zenon, <1>0, MovesTo
  <2>3. p \in fds /\ p \in Reader /\ len \in Nat /\ len # 0 BY PipeAssumption
  <2>4. /\ n' \in [Reader -> Nat] /\ n'[p] = len
        /\ \A q \in Reader : q # p => n'[q] = n[q]
    BY Zenon, <2>3 DEF TypeOK
  <2>5. TypeOK' BY Zenon, <2>1, <2>2, <2>4 DEF TypeOK, Moves
  <2>6. RingInv' BY Zenon, <2>1 DEF RingInv, Used
  <2>7. OpenInv' BY Zenon, <2>1, <2>2, <2>3, OpenKept
  <2>8. CallInv'
    <3>1. ASSUME NEW q \in Reader, pc'[q] # "idle" PROVE n'[q] # 0
      <4>1. q \in Proc BY Zenon DEF Proc
      <4> QED BY Zenon, <2>2, <2>3, <2>4, <3>1, <4>1 DEF CallInv, Moves
    <3> QED BY Zenon, <2>1, <3>1 DEF CallInv
  <2> QED BY Zenon, <2>5, <2>6, <2>7, <2>8
<1>3. CASE \E p \in Proc : pipewrite(p) BY Zenon, <1>3, WriteInv
<1>4. CASE \E p \in Proc : piperead(p) BY Zenon, <1>4, ReadInv
<1>5. CASE \E p \in Proc : sleep(p) \/ close(p) \/ kill(p)
  <2> PICK p \in Proc : sleep(p) \/ close(p) \/ kill(p) BY Zenon, <1>5
  <2>1. UNCHANGED <<data, nread, nwrite, addr, n, got>> BY Zenon DEF sleep, close, kill, pipe
  <2>2. pc' \in [Proc -> Label] /\ \A q \in Proc : pc'[q] = "idle" <=> pc[q] = "idle"
    <3>0. pc \in [Proc -> Label] BY Zenon DEF TypeOK
    <3>1. CASE sleep(p)
      <4>1. pc[p] = "sleep" /\ pc' = Goto(p, "asleep") BY Zenon, <3>1 DEF sleep
      <4>2. /\ pc' \in [Proc -> Label] /\ pc'[p] = "asleep"
            /\ \A q \in Proc : q # p => pc'[q] = pc[q]
        BY ZenonT(60), <1>0, <4>1, GotoFacts
      <4> QED BY Zenon, <1>0, <4>1, <4>2
    <3>2. CASE close(p)
      <4>1. pc' = wakeup(pc, Reader) \/ pc' = wakeup(pc, Writer) \/ pc' = pc BY Zenon, <3>2 DEF close
      <4> QED BY Zenon, <3>0, <4>1, WakeupFacts
    <3>3. CASE kill(p)
      <4>1. pc' = wakeup(pc, {p}) BY Zenon, <3>3 DEF kill
      <4> QED BY ZenonT(60), <3>0, <4>1, WakeupFacts
    <3> QED BY Zenon, <3>1, <3>2, <3>3
  <2>3. fds' \in SUBSET Proc /\ readopen' \in BOOLEAN /\ writeopen' \in BOOLEAN
    <3>1. CASE UNCHANGED <<fds, readopen, writeopen>> BY Zenon, <3>1 DEF TypeOK
    <3>2. CASE close(p) BY <3>2 DEF close, TypeOK
    <3> QED BY Zenon, <3>1, <3>2 DEF sleep, kill, pipe
  <2>4. killed' \in [Proc -> BOOLEAN] BY Zenon DEF sleep, close, kill, TypeOK
  <2>5. TypeOK' BY Zenon, <2>1, <2>2, <2>3, <2>4 DEF TypeOK
  <2>6. RingInv' BY Zenon, <2>1 DEF RingInv, Used
  <2>7. CallInv' BY Zenon, <2>1, <2>2 DEF CallInv, Proc
  <2>8. OpenInv'
    <3>1. CASE UNCHANGED <<fds, readopen, writeopen>> BY Zenon, <2>2, <3>1 DEF OpenInv
    <3>2. CASE close(p)
      <4>1. /\ pc[p] = "idle" /\ fds' = fds \ {p}
            /\ writeopen' = (writeopen /\ fds' \cap Writer # {})
            /\ readopen' = (readopen /\ fds' \cap Reader # {})
        BY Zenon, <3>2 DEF close
      <4>2. ASSUME NEW q \in Proc, pc'[q] # "idle" PROVE q \in fds' BY Zenon, <2>2, <4>1, <4>2 DEF OpenInv
      <4>3. fds' \cap Writer # {} => writeopen' BY Zenon, <4>1 DEF OpenInv
      <4>4. fds' \cap Reader # {} => readopen' BY Zenon, <4>1 DEF OpenInv
      <4> QED BY Zenon, <4>2, <4>3, <4>4 DEF OpenInv
    <3> QED BY Zenon, <3>1, <3>2 DEF sleep, kill, pipe
  <2> QED BY Zenon, <2>5, <2>6, <2>7, <2>8
<1>6. CASE UNCHANGED vars
  BY Zenon, <1>6 DEF vars, pipe, TypeOK, OpenInv, CallInv, RingInv, Used
<1> QED BY Zenon, <1>1, <1>2, <1>3, <1>4, <1>5, <1>6 DEF Next, Kernel, Freed

\* Inv is an invariant of the pipe.
THEOREM PipeInvariance == Spec => []Inv
<1>1. Init => Inv BY Zenon, InitInv
<1>2. Inv /\ [Next]_vars => Inv' BY Zenon, NextInv
<1> QED BY <1>1, <1>2, PTL DEF Spec

\* pipeclose() does not free the page of the pipe while another process is in pipewrite()
\* or piperead(), awake or asleep: such a process has its end open.
THEOREM NotFreedInUse == Spec => []NoUseAfterFree
<1>1. ASSUME Inv, ~readopen, ~writeopen, NEW p \in Proc PROVE pc[p] = "idle"
  <2>1. p \notin fds BY Zenon, <1>1 DEF Inv, OpenInv, Proc
  <2> QED BY Zenon, <1>1, <2>1 DEF Inv, OpenInv
<1>2. Inv => NoUseAfterFree BY Zenon, <1>1 DEF NoUseAfterFree
<1> QED BY <1>2, PipeInvariance, PTL

-----------------------------------------------------------------------------
(* A pipe is a channel.                                                    *)

\* A new pipe is an empty channel.
LEMMA InitChannel == Init => Ch!CInit
<1> SUFFICES ASSUME Init PROVE Ch!CInit OBVIOUS
<1>1. TypeOK /\ Used \in Nat BY Zenon, InitInv, ContentIs DEF Inv
<1>2. Used = 0 BY PipeAssumption DEF Used, Init
<1>3. Content = <<>>
  <2>1. Content \in Seq(Writer \cup {None}) /\ Len(Content) = 0 BY Zenon, <1>1, <1>2, ContentIs
  <2> QED BY <2>1
<1> QED BY Zenon, <1>3 DEF Init, Ch!CInit

\* A copy of k bytes is the sending of k bytes.
LEMMA WriteSends ==
  ASSUME Inv, Inv', NEW p \in Proc, pipewrite(p)
  PROVE  Ch!Send \/ UNCHANGED Ch!cvars
<1>1. PICK k : k = Room(Len(addr[p])) OBVIOUS
<1>2. Writes(p, k) BY Zenon, <1>1, WriteFacts
<1>3. /\ Used' = Used + k /\ (\A j \in 1 .. Used : Content'[j] = Content[j])
      /\ \A j \in 1 .. k : Content'[Used + j] = addr[p][j]
  BY Zenon, <1>2, WriteContent DEF Inv, Writes
<1>4. /\ k \in Nat /\ k <= Len(addr[p]) /\ Used + k <= PIPESIZE /\ PIPESIZE \in Nat
      /\ p \in Writer /\ UNCHANGED <<got, writeopen>>
  BY Zenon, <1>2, PipeAssumption DEF Writes
<1>5. /\ Used \in Nat /\ Content \in Seq(Writer \cup {None}) /\ Len(Content) = Used
  BY Zenon, ContentIs DEF Inv
<1>6. Content' \in Seq(Writer \cup {None}) /\ Len(Content') = Used + k
  <2>1. Used' \in Nat BY <1>3, <1>4, <1>5
  <2> QED BY Zenon, <1>3, <2>1, ContentNext DEF Inv
<1>7. writeopen BY Zenon, <1>2, <1>4 DEF Inv, OpenInv, Writes
<1>8. addr[p] \in Seq(Writer) /\ \A j \in 1 .. Len(addr[p]) : addr[p][j] = p
  BY Zenon, <1>4 DEF Inv, TypeOK, CallInv
<1>9. PICK s \in [1 .. PIPESIZE -> Writer] : s = [i \in 1 .. PIPESIZE |-> p] BY Zenon, <1>4
<1>10. s \in Seq(Writer) /\ Len(s) = PIPESIZE /\ k <= PIPESIZE BY <1>4, <1>5, <1>9
<1>11. /\ SubSeq(s, 1, k) \in Seq(Writer \cup {None}) /\ Len(SubSeq(s, 1, k)) = k
       /\ \A j \in 1 .. k : SubSeq(s, 1, k)[j] = p
  <2>1. SubSeq(s, 1, k) \in Seq(Writer) /\ Len(SubSeq(s, 1, k)) = k BY <1>4, <1>10
  <2>2. ASSUME NEW j \in 1 .. k PROVE SubSeq(s, 1, k)[j] = p
    <3>1. SubSeq(s, 1, k)[j] = s[j] /\ j \in 1 .. PIPESIZE BY <1>4, <1>10
    <3> QED BY Zenon, <1>9, <3>1
  <2>3. SubSeq(s, 1, k) \in Seq(Writer \cup {None}) BY <2>1
  <2> QED BY Zenon, <2>1, <2>2, <2>3
<1>12. ASSUME NEW j \in 1 .. k PROVE Content'[Used + j] = SubSeq(s, 1, k)[j]
  <2>1. j \in 1 .. Len(addr[p]) BY <1>4, <1>8
  <2> QED BY Zenon, <1>3, <1>8, <1>11, <2>1
<1>13. Content' = Content \o SubSeq(s, 1, k)
  <2>1. PICK c, t, d : c = Content /\ t = SubSeq(s, 1, k) /\ d = Content' BY Zenon
  <2>2. /\ c \in Seq(Writer \cup {None}) /\ t \in Seq(Writer \cup {None}) /\ d \in Seq(Writer \cup {None})
        /\ Len(d) = Len(c) + Len(t)
        /\ \A j \in 1 .. Len(c) : d[j] = c[j]
        /\ \A j \in 1 .. Len(t) : d[Len(c) + j] = t[j]
    BY Zenon, <1>3, <1>5, <1>6, <1>11, <1>12, <2>1
  <2>3. d = c \o t BY Zenon, <2>2, ConcatIs
  <2> QED BY Zenon, <2>1, <2>3
<1>14. CASE k = 0
  <2>1. Len(Content') = Len(Content) /\ \A j \in 1 .. Len(Content) : Content'[j] = Content[j]
    BY SMTT(30), <1>3, <1>5, <1>6, <1>14
  <2>2. Content' = Content BY SMTT(30), <1>5, <1>6, <2>1
  <2> QED BY Zenon, <1>4, <2>2 DEF Ch!cvars
<1>15. CASE k # 0
  <2>1. k \in 1 .. PIPESIZE - Len(Content) BY <1>4, <1>5, <1>15
  <2> QED BY Zenon, <1>4, <1>7, <1>9, <1>13, <2>1 DEF Ch!Send, Byte
<1> QED BY Zenon, <1>14, <1>15

\* A copy of m bytes is a receipt of the first m, or of none at the end of the file.
LEMMA ReadReceives ==
  ASSUME Inv, Inv', NEW p \in Proc, piperead(p)
  PROVE  Ch!Receive(p) \/ Ch!EndOfFile(p) \/ UNCHANGED Ch!cvars
<1>1. CASE UNCHANGED <<pipe, fds, addr, got, killed>>
  BY Zenon, <1>1 DEF pipe, Ch!cvars, Content, Used
<1>2. CASE Reads(p, Avail(n[p]))
  <2>1. PICK m : m = Avail(n[p]) OBVIOUS
  <2>2. Reads(p, m) BY Zenon, <1>2, <2>1
  <2>3. Used' = Used - m /\ \A j \in 1 .. Used - m : Content'[j] = Content[m + j]
    BY Zenon, <2>2, ReadContent DEF Inv, Reads
  <2>4. /\ m \in Nat /\ m <= Used /\ (m = 0 => Used = 0 /\ ~writeopen) /\ writeopen' = writeopen
        /\ got' = [got EXCEPT ![p] = Bytes(data, nread, m)]
    BY Zenon, <2>2 DEF Reads
  <2>5. /\ Used \in Nat /\ Content \in Seq(Writer \cup {None}) /\ Len(Content) = Used
        /\ \A j \in 1 .. Used : Content[j] = data[(nread + (j - 1)) % PIPESIZE]
    BY Zenon, ContentIs DEF Inv
  <2>6. Content' \in Seq(Writer \cup {None}) /\ Len(Content') = Used - m
    <3>1. Used' \in Nat BY <2>3, <2>4, <2>5
    <3> QED BY Zenon, <2>3, <3>1, ContentNext DEF Inv
  <2>7. Content' = SubSeq(Content, m + 1, Len(Content))
    <3>1. PICK c, d : c = Content /\ d = Content' BY Zenon
    <3>2. /\ c \in Seq(Writer \cup {None}) /\ d \in Seq(Writer \cup {None})
          /\ Len(c) \in Nat /\ m <= Len(c) /\ Len(c) <= Len(c) /\ Len(d) = Len(c) - m
          /\ \A j \in 1 .. Len(d) : d[j] = c[m + j]
      BY SMTT(30), <2>3, <2>4, <2>5, <2>6, <3>1
    <3>3. d = SubSeq(c, m + 1, Len(c)) BY Zenon, <2>4, <3>2, SubSeqIs
    <3> QED BY Zenon, <3>1, <3>3
  <2>8. /\ Bytes(data, nread, m) \in Seq(Writer \cup {None}) /\ Len(Bytes(data, nread, m)) = m
        /\ \A j \in 1 .. m : Bytes(data, nread, m)[j] = data[(nread + (j - 1)) % PIPESIZE]
    <3>1. nread \in Int BY PipeAssumption DEF Inv, TypeOK
    <3>2. data \in [0 .. PIPESIZE - 1 -> Writer \cup {None}] BY Zenon DEF Inv, TypeOK
    <3> QED BY Zenon, <2>4, <3>1, <3>2, BytesAre
  <2>9. Bytes(data, nread, m) = SubSeq(Content, 1, m)
    <3>1. ASSUME NEW j \in 1 .. m PROVE Bytes(data, nread, m)[j] = Content[0 + j]
      <4>1. j \in 1 .. Used /\ 0 + j = j BY <2>4, <2>5
      <4> QED BY Zenon, <2>5, <2>8, <4>1
    <3>2. 0 + 1 = 1 /\ 0 \in Nat /\ 0 <= m /\ m - 0 = m BY <2>4
    <3>3. Bytes(data, nread, m) = SubSeq(Content, 0 + 1, m)
      <4>1. PICK c, d : c = Content /\ d = Bytes(data, nread, m) BY Zenon
      <4>2. /\ c \in Seq(Writer \cup {None}) /\ d \in Seq(Writer \cup {None})
            /\ m <= Len(c) /\ Len(d) = m - 0 /\ \A j \in 1 .. Len(d) : d[j] = c[0 + j]
        BY Zenon, <2>4, <2>5, <2>8, <3>1, <3>2, <4>1
      <4>3. d = SubSeq(c, 0 + 1, m) BY Zenon, <2>4, <3>2, <4>2, SubSeqIs
      <4> QED BY Zenon, <4>1, <4>3
    <3> QED BY Zenon, <3>2, <3>3
  <2>10. CASE m = 0
    <3>1. Content = <<>> BY <2>4, <2>5, <2>10
    <3>2. Content' = <<>> BY <2>4, <2>6, <2>10
    <3>3. Bytes(data, nread, m) = <<>> BY <2>8, <2>10
    <3> QED BY Zenon, <2>4, <2>10, <3>1, <3>2, <3>3 DEF Ch!EndOfFile
  <2>11. CASE m # 0
    <3>1. m \in 1 .. Len(Content) BY <2>4, <2>5, <2>11
    <3>2. got' = [got EXCEPT ![p] = SubSeq(Content, 1, m)] BY Zenon, <2>4, <2>9
    <3> QED BY Zenon, <2>4, <2>7, <3>1, <3>2 DEF Ch!Receive
  <2> QED BY Zenon, <2>10, <2>11
<1> QED BY Zenon, <1>1, <1>2, ReadFacts

\* Every step is one of the channel, or none.
LEMMA StepChannel == Inv /\ Inv' /\ [Next]_vars => [Ch!CNext]_Ch!cvars
<1> SUFFICES ASSUME Inv, Inv', [Next]_vars PROVE Ch!CNext \/ UNCHANGED Ch!cvars BY Zenon
<1>1. CASE \E p \in Proc : pipewrite(p) BY Zenon, <1>1, WriteSends DEF Ch!CNext
<1>2. CASE \E p \in Proc : piperead(p)
  <2> PICK p \in Proc : piperead(p) BY Zenon, <1>2
  <2>1. p \in Reader BY Zenon DEF piperead
  <2> QED BY Zenon, <2>1, ReadReceives DEF Ch!CNext
<1>3. CASE \E p \in Proc : close(p)
  <2>1. /\ UNCHANGED <<data, nread, nwrite, got>> /\ writeopen' \in BOOLEAN
        /\ writeopen' => writeopen
    BY Zenon, <1>3 DEF close, Inv, TypeOK
  <2>2. UNCHANGED <<Content, got>> BY Zenon, <2>1 DEF Content, Used
  <2>3. writeopen' = FALSE \/ writeopen' = writeopen BY <2>1 DEF Inv, TypeOK
  <2> QED BY Zenon, <2>2, <2>3 DEF Ch!CNext, Ch!CloseWriters, Ch!cvars
<1>4. CASE UNCHANGED <<pipe, got>> BY Zenon, <1>4 DEF pipe, Ch!cvars, Content, Used
<1> QED BY Zenon, <1>1, <1>2, <1>3, <1>4 DEF Next, Kernel, Freed, sys_write, sys_read, sleep, kill, vars

\* However the reads, writes, closes, kills and wakeups interleave, and however often the
\* counters wrap, the ring buffer of pipe.c is a bounded first-in first-out channel.
THEOREM PipeIsChannel == Spec => IsChannel
<1>1. Init => Ch!CInit BY Zenon, InitChannel
<1>2. Inv /\ Inv' /\ [Next]_vars => [Ch!CNext]_Ch!cvars BY Zenon, StepChannel
<1> QED BY <1>1, <1>2, PipeInvariance, PTL DEF Spec, IsChannel, Ch!CSpec
=============================================================================
