---------------------------- MODULE BcacheProofs ----------------------------
(***************************************************************************)
(* Proofs about Bcache, for all numbers of processes, blocks and buffers:  *)
(* the invariant of its control state (who uses which buffer, and what is  *)
(* in the queue of the disk), from which OneCopyOneUser and RequestsServed *)
(* follow; and, with a second invariant on top of it, ReadsLatest.         *)
(***************************************************************************)
EXTENDS Bcache, TLAPS, WellFoundedInduction

-----------------------------------------------------------------------------
(* The invariant, and the steps of bio.c.                                  *)

Label == {"idle", "bget", "bget_asleep", "iderw", "iderw_asleep", "iderw_wait", "hold", "no_buffers"}

TypeOK ==
  /\ blockno \in [Buf -> Block \cup {None}] /\ data \in [Buf -> Val \cup {None}]
  /\ busy \in [Buf -> BOOLEAN] /\ valid \in [Buf -> BOOLEAN] /\ dirty \in [Buf -> BOOLEAN]
  /\ lru \in [1 .. NBUF -> Buf] /\ \A b \in Buf : \E i \in 1 .. NBUF : lru[i] = b
  /\ idequeue \in Seq(Buf) /\ irq \in BOOLEAN
  /\ disk \in [Block -> Val] /\ latest \in [Block -> Val]
  /\ pc \in [Proc -> Label] /\ want \in [Proc -> Block \cup {None}]
  /\ bp \in [Proc -> Buf \cup {None}]

\* Who uses which buffer, for which block.
UseInv ==
  /\ \A p \in Proc : Holds(p) =>
       bp[p] \in Buf /\ busy[bp[p]] /\ want[p] \in Block /\ blockno[bp[p]] = want[p]
  /\ \A p, q \in Proc : Holds(p) /\ Holds(q) /\ bp[p] = bp[q] => p = q
  /\ \A b \in Buf : busy[b] => \E p \in Proc : Holds(p) /\ bp[p] = b
  /\ \A a, b \in Buf : blockno[a] = blockno[b] /\ blockno[a] # None => a = b
  /\ \A p \in Proc : pc[p] \in {"bget", "bget_asleep"} => want[p] \in Block
  /\ \A p \in Proc : pc[p] = "bget_asleep" =>
       bp[p] \in Buf /\ busy[bp[p]] /\ blockno[bp[p]] = want[p]
  /\ \A p \in Proc : pc[p] = "idle" => bp[p] = None

\* What the flags of a buffer say of its user.
FlagInv ==
  /\ \A p \in Proc : pc[p] = "hold" => valid[bp[p]]
  /\ \A p \in Proc : pc[p] = "iderw" => ~valid[bp[p]] \/ dirty[bp[p]]
  /\ \A p \in Proc : pc[p] = "iderw_wait" => valid[bp[p]] /\ ~dirty[bp[p]]
  /\ \A b \in Buf : (dirty[b] => valid[b] /\ data[b] \in Val) /\ (valid[b] => blockno[b] \in Block)

\* The queue holds the buffers of the processes asleep in iderw(), and the controller
\* works on its head or has done so.
QueueInv ==
  /\ \A p \in Proc : pc[p] = "iderw_asleep" => \E i \in DOMAIN idequeue : idequeue[i] = bp[p]
  /\ \A i \in DOMAIN idequeue :
       /\ ~valid[idequeue[i]] \/ dirty[idequeue[i]]
       /\ \E p \in Proc : pc[p] = "iderw_asleep" /\ bp[p] = idequeue[i]
  /\ \A i, j \in DOMAIN idequeue : idequeue[i] = idequeue[j] => i = j
  /\ idequeue # <<>> <=> irq \/ ide # None
  /\ irq => ide = None
  /\ ide # None => LET b == Head(idequeue) IN
       ide = [write |-> dirty[b], blk |-> blockno[b], data |-> data[b]]

Inv == TypeOK /\ UseInv /\ FlagInv /\ QueueInv

-----------------------------------------------------------------------------
(* Facts about the operators.                                              *)

\* Max() of a nonempty set of places in the list is one of them.
LEMMA MaxIn ==
  ASSUME NEW n \in Nat, NEW S \in SUBSET (1 .. n), S # {}
  PROVE  Max(S) \in S
<1> DEFINE T == {n - i : i \in S}
<1>1. T \subseteq Nat /\ T # {}
  <2>1. \A i \in S : n - i \in Nat OBVIOUS
  <2>2. PICK i \in S : TRUE BY Zenon
  <2>3. n - i \in T BY Zenon, <2>2
  <2> QED BY <2>1, <2>3, Zenon
<1> DEFINE R == OpToRel(<, Nat)
<1>2. IsWellFoundedOn(R, Nat) BY Zenon, NatLessThanWellFounded
<1>3. \E x \in T : \A y \in T : ~(<<y, x>> \in R)
  <2> HIDE DEF R, T
  <2> QED BY <1>1, <1>2, WFMin, Zenon
<1>4. PICK x \in T : \A y \in T : ~(<<y, x>> \in R) BY Zenon, <1>3
<1>5. \A y \in T : ~(y < x) BY Zenon, <1>1, <1>4 DEF OpToRel
<1>6. \E i \in S : \A j \in S : i >= j
  <2>1. PICK i \in S : x = n - i BY Zenon, <1>4
  <2>2. ASSUME NEW j \in S PROVE i >= j
    <3>1. n - j \in T BY Zenon
    <3>2. ~(n - j < n - i) BY Zenon, <1>5, <2>1, <3>1
    <3> QED BY SMTT(30), <3>2
  <2> QED BY Zenon, <2>2
<1> QED BY Zenon, <1>6 DEF Max

\* ToFront() permutes the list.
LEMMA ToFrontList ==
  ASSUME TypeOK, NEW b \in Buf
  PROVE  /\ ToFront(b) \in [1 .. NBUF -> Buf]
         /\ \A a \in Buf : \E i \in 1 .. NBUF : ToFront(b)[i] = a
<1> DEFINE k == CHOOSE i \in 1 .. NBUF : lru[i] = b
           new == [i \in 1 .. NBUF |-> IF i = 1 THEN b ELSE IF i <= k THEN lru[i - 1] ELSE lru[i]]
<1>0. NBUF \in Nat /\ NBUF > 0 BY SMTT(30), BcacheAssumption
<1>1. k \in 1 .. NBUF /\ lru[k] = b BY Zenon DEF TypeOK
<1>2. lru \in Seq(Buf) /\ Len(lru) = NBUF BY SMTT(30), <1>0 DEF TypeOK
<1> HIDE DEF k
<1>3. ToFront(b) = <<b>> \o (SubSeq(lru, 1, k - 1) \o SubSeq(lru, k + 1, NBUF)) BY Zenon DEF ToFront, k
<1> DEFINE u == SubSeq(lru, 1, k - 1)
           w == SubSeq(lru, k + 1, NBUF)
<1>5. /\ u \in Seq(Buf) /\ Len(u) = k - 1 /\ \A i \in 1 .. k - 1 : u[i] = lru[i]
      /\ w \in Seq(Buf) /\ Len(w) = NBUF - k /\ \A i \in 1 .. NBUF - k : w[i] = lru[i + k]
  BY SMTT(30), <1>0, <1>1, <1>2
<1>6. ToFront(b) = <<b>> \o (u \o w) BY Zenon, <1>3
<1> HIDE DEF u, w
<1>7. /\ Len(ToFront(b)) = NBUF /\ ToFront(b) \in Seq(Buf)
      /\ \A i \in 1 .. NBUF : ToFront(b)[i] = new[i]
  <2> DEFINE x == u \o w
  <2>1. x \in Seq(Buf) /\ Len(x) = NBUF - 1
    <3>1. x \in Seq(Buf) /\ Len(x) = Len(u) + Len(w) BY SMTT(30), <1>5
    <3> QED BY SMTT(30), <1>0, <1>1, <1>5, <3>1
  <2>2. \A i \in 1 .. NBUF - 1 : x[i] = IF i < k THEN lru[i] ELSE lru[i + 1]
    <3> SUFFICES ASSUME NEW i \in 1 .. NBUF - 1
                 PROVE  x[i] = IF i < k THEN lru[i] ELSE lru[i + 1]
      BY Zenon
    <3>1. CASE i < k
      <4>1. x[i] = u[i] BY SMTT(30), <1>0, <1>1, <1>5, <3>1
      <4> QED BY SMTT(30), <1>0, <1>1, <1>5, <3>1, <4>1
    <3>2. CASE ~(i < k)
      <4>1. x[i] = w[i - (k - 1)] BY SMTT(30), <1>0, <1>1, <1>5, <3>2
      <4>2. i - (k - 1) \in 1 .. NBUF - k /\ (i - (k - 1)) + k = i + 1 BY SMTT(30), <1>0, <1>1, <3>2
      <4>3. w[i - (k - 1)] = lru[(i - (k - 1)) + k] BY Zenon, <1>5, <4>2
      <4> QED BY Zenon, <3>2, <4>1, <4>2, <4>3
    <3> QED BY Zenon, <3>1, <3>2
  <2> HIDE DEF x
  <2>3. /\ Len(<<b>> \o x) = NBUF /\ <<b>> \o x \in Seq(Buf)
        /\ \A i \in 1 .. NBUF : (<<b>> \o x)[i] = IF i = 1 THEN b ELSE x[i - 1]
    BY SMTT(30), <1>0, <2>1
  <2>4. ToFront(b) = <<b>> \o x BY Zenon, <1>6 DEF x
  <2>5. \A i \in 1 .. NBUF : i # 1 => x[i - 1] = new[i] BY SMTT(30), <1>0, <1>1, <2>2
  <2> QED BY SMTT(30), <2>3, <2>4, <2>5
<1>8. ToFront(b) \in [1 .. NBUF -> Buf] BY SMTT(30), <1>0, <1>7
<1>9. ASSUME NEW a \in Buf PROVE \E i \in 1 .. NBUF : ToFront(b)[i] = a
  <2>1. PICK j \in 1 .. NBUF : lru[j] = a BY Zenon DEF TypeOK
  <2>2. CASE j = k BY SMTT(30), <1>0, <1>1, <1>7, <2>1, <2>2
  <2>3. CASE j < k
    <3>1. j + 1 \in 1 .. NBUF /\ new[j + 1] = a BY SMTT(30), <1>0, <1>1, <2>1, <2>3
    <3> QED BY Zenon, <1>7, <3>1
  <2>4. CASE j > k
    <3>1. new[j] = a BY SMTT(30), <1>0, <1>1, <2>1, <2>4
    <3> QED BY Zenon, <1>7, <3>1
  <2> QED BY SMTT(30), <1>0, <1>1, <2>2, <2>3, <2>4
<1> QED BY Zenon, <1>8, <1>9

-----------------------------------------------------------------------------
(* The steps.                                                              *)

\* binit() leaves every buffer on the list once, unused and empty.
LEMMA InitInv == Init => Inv
<1> SUFFICES ASSUME Init PROVE Inv BY Zenon
<1>0. NBUF \in Nat /\ NBUF > 0 BY SMTT(30), BcacheAssumption
<1>1. TypeOK
  <2>1. lru \in [1 .. NBUF -> Buf] BY SMTT(30), <1>0 DEF Init, Buf
  <2>2. ASSUME NEW b \in Buf PROVE \E i \in 1 .. NBUF : lru[i] = b
    <3>1. NBUF + 1 - b \in 1 .. NBUF /\ lru[NBUF + 1 - b] = b BY SMTT(30), <1>0 DEF Init, Buf
    <3> QED BY Zenon, <3>1
  <2>3. /\ blockno \in [Buf -> Block \cup {None}] /\ data \in [Buf -> Val \cup {None}]
        /\ busy \in [Buf -> BOOLEAN] /\ valid \in [Buf -> BOOLEAN] /\ dirty \in [Buf -> BOOLEAN]
    BY Zenon DEF Init
  <2>4. idequeue \in Seq(Buf)
    <3>1. idequeue = <<>> BY Zenon DEF Init
    <3> QED BY SMTT(30), <3>1
  <2>5. disk \in [Block -> Val] /\ latest \in [Block -> Val] BY Zenon DEF Init
  <2>6. /\ pc \in [Proc -> Label] /\ want \in [Proc -> Block \cup {None}]
        /\ bp \in [Proc -> Buf \cup {None}] /\ irq \in BOOLEAN
    BY Zenon DEF Init, Label
  <2> QED BY Zenon, <2>1, <2>2, <2>3, <2>4, <2>5, <2>6 DEF TypeOK
<1>2. UseInv BY Zenon DEF Init, UseInv, Holds, Buf
<1>3. FlagInv BY Zenon DEF Init, FlagInv
<1>4. QueueInv BY SMTT(30) DEF Init, QueueInv
<1> QED BY Zenon, <1>1, <1>2, <1>3, <1>4 DEF Inv

\* A step that leaves the queue alone, the buffers in it and the processes asleep for them.
LEMMA SameQueue ==
  ASSUME TypeOK, QueueInv, UNCHANGED <<idequeue, irq, ide>>,
         \A p \in Proc : pc'[p] = "iderw_asleep" <=> pc[p] = "iderw_asleep",
         \A p \in Proc : pc[p] = "iderw_asleep" =>
           LET b == bp[p] IN /\ bp'[p] = b /\ blockno'[b] = blockno[b] /\ valid'[b] = valid[b]
                             /\ dirty'[b] = dirty[b] /\ data'[b] = data[b]
  PROVE  QueueInv'
<1>1. \A p \in Proc : pc'[p] = "iderw_asleep" => \E i \in DOMAIN idequeue : idequeue[i] = bp'[p]
  BY SMTT(30) DEF QueueInv
<1>2. ASSUME NEW i \in DOMAIN idequeue
      PROVE  LET b == idequeue[i] IN
             /\ ~valid'[b] \/ dirty'[b]
             /\ \E p \in Proc : pc'[p] = "iderw_asleep" /\ bp'[p] = b
             /\ blockno'[b] = blockno[b] /\ dirty'[b] = dirty[b] /\ data'[b] = data[b]
  <2>1. PICK p \in Proc : pc[p] = "iderw_asleep" /\ bp[p] = idequeue[i] BY Zenon DEF QueueInv
  <2>2. ~valid[idequeue[i]] \/ dirty[idequeue[i]] BY Zenon DEF QueueInv
  <2> QED BY SMTT(30), <2>1, <2>2
<1>3. idequeue # <<>> => Head(idequeue) = idequeue[1] /\ 1 \in DOMAIN idequeue BY SMTT(30) DEF TypeOK
<1>4. ide # None => LET b == Head(idequeue) IN
                    ide = [write |-> dirty'[b], blk |-> blockno'[b], data |-> data'[b]]
  <2>1. ide # None => 1 \in DOMAIN idequeue /\ Head(idequeue) = idequeue[1]
    BY Zenon, <1>3 DEF QueueInv
  <2> QED BY SMTT(30), <1>2, <2>1 DEF QueueInv
<1>5. \A i \in DOMAIN idequeue' :
        /\ ~valid'[idequeue'[i]] \/ dirty'[idequeue'[i]]
        /\ \E p \in Proc : pc'[p] = "iderw_asleep" /\ bp'[p] = idequeue'[i]
  BY Zenon, <1>2
<1>6. /\ \A i, j \in DOMAIN idequeue' : idequeue'[i] = idequeue'[j] => i = j
      /\ idequeue' # <<>> <=> irq' \/ ide' # None
      /\ irq' => ide' = None
  BY Zenon DEF QueueInv
<1>7. \A p \in Proc : pc'[p] = "iderw_asleep" => \E i \in DOMAIN idequeue' : idequeue'[i] = bp'[p]
  BY Zenon, <1>1
<1>8. ide' # None => LET b == Head(idequeue') IN
                     ide' = [write |-> dirty'[b], blk |-> blockno'[b], data |-> data'[b]]
  BY Zenon, <1>4
<1> QED BY Zenon, <1>5, <1>6, <1>7, <1>8 DEF QueueInv

\* A step that leaves the buffers and their users alone.
LEMMA SameUse ==
  ASSUME UseInv, UNCHANGED <<blockno, busy, want, bp>>,
         \A p \in Proc : Holds(p)' <=> Holds(p),
         \A p \in Proc : pc'[p] \in {"idle", "bget", "bget_asleep"} => pc'[p] = pc[p]
  PROVE  UseInv'
<1>1. \A p \in Proc : Holds(p)' =>
        bp'[p] \in Buf /\ busy'[bp'[p]] /\ want'[p] \in Block /\ blockno'[bp'[p]] = want'[p]
  BY Zenon DEF UseInv
<1>2. \A p, q \in Proc : Holds(p)' /\ Holds(q)' /\ bp'[p] = bp'[q] => p = q BY Zenon DEF UseInv
<1>3. \A b \in Buf : busy'[b] => \E p \in Proc : Holds(p)' /\ bp'[p] = b BY Zenon DEF UseInv
<1>4. \A p \in Proc : pc'[p] \in {"bget", "bget_asleep"} => want'[p] \in Block BY Zenon DEF UseInv
<1>5. \A p \in Proc : pc'[p] = "idle" => bp'[p] = None BY Zenon DEF UseInv
<1>6. \A p \in Proc : pc'[p] = "bget_asleep" =>
        bp'[p] \in Buf /\ busy'[bp'[p]] /\ blockno'[bp'[p]] = want'[p]
  BY Zenon DEF UseInv
<1>7. \A a, b \in Buf : blockno'[a] = blockno'[b] /\ blockno'[a] # None => a = b BY Zenon DEF UseInv
<1> QED BY Zenon, <1>1, <1>2, <1>3, <1>4, <1>5, <1>6, <1>7 DEF UseInv

\* A call of bread().
LEMMA BreadStep ==
  ASSUME Inv, NEW p \in Proc, NEW k \in Block, bread(p, k)
  PROVE  Inv'
<1> USE DEF Inv
<1>1. /\ \A q \in Proc : pc'[q] = IF q = p THEN "bget" ELSE pc[q]
      /\ \A q \in Proc : want'[q] = IF q = p THEN k ELSE want[q]
      /\ pc[p] = "idle"
  BY Zenon DEF bread, Goto, TypeOK
<1>2. UNCHANGED <<blockno, busy, valid, dirty, data, lru, idequeue, disk, ide, irq, bp, latest>>
  BY Zenon DEF bread, cache, hardware
<1>3. TypeOK' BY Zenon, <1>2 DEF TypeOK, bread, Goto, Label
<1>4. UseInv' BY SMTT(30), <1>1, <1>2 DEF UseInv, Holds
<1>5. FlagInv' BY Zenon, <1>1, <1>2 DEF FlagInv
<1>6. QueueInv' BY Zenon, <1>1, <1>2, SameQueue
<1> QED BY Zenon, <1>3, <1>4, <1>5, <1>6

\* What bget() does when it takes a buffer: no user has it, no other one caches the block,
\* and its contents are given up only if it is not dirty.
Take(p, b, v) ==
  /\ ~busy[b] /\ \A a \in Buf : blockno[a] = want[p] => a = b
  /\ v => valid[b] /\ blockno[b] = want[p]
  /\ ~v => ~dirty[b]
  /\ bp' = [bp EXCEPT ![p] = b]
  /\ blockno' = [blockno EXCEPT ![b] = want[p]]
  /\ busy' = [busy EXCEPT ![b] = TRUE]
  /\ valid' = [valid EXCEPT ![b] = v]
  /\ pc' = Goto(p, IF v THEN "hold" ELSE "iderw")
  /\ UNCHANGED <<dirty, data>>

\* bget() panics, sleeps for a buffer in use, or takes one.
LEMMA BgetCases ==
  ASSUME Inv, NEW p \in Proc, bget(p)
  PROVE  /\ pc[p] = "bget"
         /\ UNCHANGED <<lru, idequeue, disk, ide, irq, want, latest>>
         /\ \/ /\ \A a \in Buf : blockno[a] # want[p]
               /\ \A i \in 1 .. NBUF : ~Recyclable(lru[i])
               /\ pc' = Goto(p, "no_buffers")
               /\ UNCHANGED <<blockno, busy, valid, dirty, data, bp>>
            \/ \E b \in Buf : /\ busy[b] /\ blockno[b] = want[p]
                              /\ bp' = [bp EXCEPT ![p] = b]
                              /\ pc' = Goto(p, "bget_asleep")
                              /\ UNCHANGED <<blockno, busy, valid, dirty, data>>
            \/ \E b \in Buf, v \in BOOLEAN : Take(p, b, v)
<1> DEFINE hits == {b \in Buf : blockno[b] = want[p]}
           old == {i \in 1 .. NBUF : Recyclable(lru[i])}
           b == IF hits # {} THEN CHOOSE x \in hits : TRUE ELSE lru[Max(old)]
<1> USE DEF Inv
<1>1. pc[p] = "bget" /\ want[p] \in Block BY ZenonT(60) DEF bget, UseInv
<1>2. UNCHANGED <<lru, idequeue, disk, ide, irq, want, latest>> BY Zenon DEF bget, hardware
<1>3. CASE hits = {} /\ old = {}
  <2>1. pc' = Goto(p, "no_buffers") /\ UNCHANGED <<blockno, busy, valid, dirty, data, bp>>
    BY Zenon, <1>3 DEF bget, cache
  <2>2. \A a \in Buf : blockno[a] # want[p] BY Zenon, <1>3
  <2>3. \A i \in 1 .. NBUF : ~Recyclable(lru[i]) BY Zenon, <1>3
  <2> QED BY ZenonT(60), <1>1, <1>2, <2>1, <2>2, <2>3
<1>4. CASE hits # {}
  <2>1. b \in Buf /\ blockno[b] = want[p] BY Zenon, <1>4
  <2> HIDE DEF b
  <2>2. CASE busy[b]
    <3>1. bp' = [bp EXCEPT ![p] = b] /\ pc' = Goto(p, "bget_asleep") /\ UNCHANGED cache
      BY Zenon, <1>4, <2>2 DEF bget, InUse, b
    <3> QED BY ZenonT(60), <1>1, <1>2, <2>1, <2>2, <3>1 DEF cache
  <2>3. CASE ~busy[b]
    <3>1. /\ bp' = [bp EXCEPT ![p] = b]
          /\ blockno' = [blockno EXCEPT ![b] = want[p]]
          /\ busy' = [busy EXCEPT ![b] = TRUE]
          /\ valid' = [valid EXCEPT ![b] = @ /\ hits # {}]
          /\ dirty' = [dirty EXCEPT ![b] = @ /\ hits # {}]
          /\ pc' = Goto(p, IF valid'[b] THEN "hold" ELSE "iderw")
          /\ UNCHANGED data
      BY Zenon, <1>4, <2>3 DEF bget, InUse, b
    <3>2. \A a \in Buf : blockno[a] = want[p] => a = b
      BY SMTT(30), <1>1, <2>1, BcacheAssumption DEF UseInv
    <3>3. valid'[b] = valid[b] /\ dirty' = dirty /\ valid' = [valid EXCEPT ![b] = valid[b]]
      <4>1. valid[b] \in BOOLEAN /\ dirty[b] \in BOOLEAN BY Zenon, <2>1 DEF TypeOK
      <4>2. (valid[b] /\ hits # {}) = valid[b] /\ (dirty[b] /\ hits # {}) = dirty[b]
        BY Zenon, <1>4, <4>1
      <4>3. valid' = [valid EXCEPT ![b] = valid[b]] /\ dirty' = [dirty EXCEPT ![b] = dirty[b]]
        BY Zenon, <3>1, <4>2
      <4> QED BY Zenon, <2>1, <4>3 DEF TypeOK
    <3>4. ~valid[b] => ~dirty[b] BY Zenon, <2>1 DEF FlagInv
    <3>5. Take(p, b, valid[b]) BY Zenon, <2>1, <2>3, <3>1, <3>2, <3>3, <3>4 DEF Take
    <3>6. valid[b] \in BOOLEAN BY Zenon, <2>1 DEF TypeOK
    <3> QED BY Zenon, <1>1, <1>2, <2>1, <3>5, <3>6
  <2> QED BY Zenon, <2>2, <2>3
<1>5. CASE hits = {} /\ old # {}
  <2>1. Max(old) \in old
    <3>1. NBUF \in Nat /\ old \in SUBSET (1 .. NBUF) BY Zenon, BcacheAssumption
    <3> HIDE DEF old
    <3> QED BY Zenon, <1>5, <3>1, MaxIn
  <2>2. b = lru[Max(old)] BY Zenon, <1>5
  <2>3. b \in Buf /\ ~busy[b] /\ ~dirty[b] BY Zenon, <2>1, <2>2 DEF TypeOK, Recyclable
  <2> HIDE DEF b
  <2>4. /\ bp' = [bp EXCEPT ![p] = b]
        /\ blockno' = [blockno EXCEPT ![b] = want[p]]
        /\ busy' = [busy EXCEPT ![b] = TRUE]
        /\ valid' = [valid EXCEPT ![b] = @ /\ hits # {}]
        /\ dirty' = [dirty EXCEPT ![b] = @ /\ hits # {}]
        /\ pc' = Goto(p, IF valid'[b] THEN "hold" ELSE "iderw")
        /\ UNCHANGED data
    BY Zenon, <1>5 DEF bget, b
  <2>5. \A a \in Buf : blockno[a] = want[p] => a = b BY Zenon, <1>5
  <2>6. valid'[b] = FALSE /\ dirty' = dirty /\ valid' = [valid EXCEPT ![b] = FALSE]
    <3> HIDE DEF hits, old
    <3> QED BY ZenonT(60), <1>5, <2>3, <2>4 DEF TypeOK
  <2>7. Take(p, b, FALSE) BY Zenon, <2>3, <2>4, <2>5, <2>6 DEF Take
  <2> QED BY Zenon, <1>1, <1>2, <2>3, <2>7
<1> QED BY Zenon, <1>3, <1>4, <1>5

\* bget() takes a buffer, with the block in it or not.
LEMMA TakeStep ==
  ASSUME Inv, NEW p \in Proc, NEW b \in Buf, NEW v \in BOOLEAN, Take(p, b, v), pc[p] = "bget",
         UNCHANGED <<lru, idequeue, disk, ide, irq, want, latest>>
  PROVE  Inv'
<1> USE DEF Inv
<1>1. /\ \A q \in Proc : pc'[q] = IF q = p THEN IF v THEN "hold" ELSE "iderw" ELSE pc[q]
      /\ \A q \in Proc : bp'[q] = IF q = p THEN b ELSE bp[q]
      /\ \A a \in Buf : blockno'[a] = IF a = b THEN want[p] ELSE blockno[a]
      /\ \A a \in Buf : busy'[a] = IF a = b THEN TRUE ELSE busy[a]
      /\ \A a \in Buf : valid'[a] = IF a = b THEN v ELSE valid[a]
  BY Zenon DEF Take, Goto, TypeOK
<1>2. /\ ~busy[b] /\ \A a \in Buf : blockno[a] = want[p] => a = b
      /\ v => valid[b] /\ blockno[b] = want[p]
      /\ ~v => ~dirty[b]
      /\ UNCHANGED <<dirty, data>>
      /\ want[p] \in Block /\ None \notin Block
  BY Zenon, BcacheAssumption DEF Take, UseInv
<1>3. TypeOK' BY Zenon, <1>2 DEF TypeOK, Take, Goto, Label
<1>4. \A q \in Proc : Holds(q) => bp[q] # b BY SMTT(30), <1>2 DEF UseInv
<1>5. UseInv'
  <2>1. \A q \in Proc : Holds(q)' <=> q = p \/ Holds(q) BY Zenon, <1>1 DEF Holds
  <2>2. \A q \in Proc : q # p /\ Holds(q) => bp'[q] = bp[q] /\ bp[q] \in Buf /\ bp[q] # b
    BY Zenon, <1>1, <1>4 DEF UseInv
  <2>3. \A q \in Proc : Holds(q)' =>
          bp'[q] \in Buf /\ busy'[bp'[q]] /\ want'[q] \in Block /\ blockno'[bp'[q]] = want'[q]
    <3>1. bp'[p] = b /\ busy'[b] /\ want'[p] \in Block /\ blockno'[b] = want'[p] BY Zenon, <1>1, <1>2
    <3>2. \A q \in Proc : q # p /\ Holds(q) =>
            bp'[q] \in Buf /\ busy'[bp'[q]] /\ want'[q] \in Block /\ blockno'[bp'[q]] = want'[q]
      <4> SUFFICES ASSUME NEW q \in Proc, q # p, Holds(q)
                   PROVE  /\ bp'[q] \in Buf /\ busy'[bp'[q]] /\ want'[q] \in Block
                          /\ blockno'[bp'[q]] = want'[q]
        BY Zenon
      <4>1. bp'[q] = bp[q] /\ bp[q] \in Buf /\ bp[q] # b BY Zenon, <2>2
      <4>2. busy'[bp[q]] = busy[bp[q]] /\ blockno'[bp[q]] = blockno[bp[q]] BY Zenon, <1>1, <4>1
      <4>3. busy[bp[q]] /\ want[q] \in Block /\ blockno[bp[q]] = want[q] BY Zenon DEF UseInv
      <4> QED BY Zenon, <4>1, <4>2, <4>3
    <3> QED BY Zenon, <2>1, <3>1, <3>2
  <2>4. \A q, r \in Proc : Holds(q)' /\ Holds(r)' /\ bp'[q] = bp'[r] => q = r
    BY SMTT(30), <1>1, <2>1, <2>2 DEF UseInv
  <2>5. \A a \in Buf : busy'[a] => \E q \in Proc : Holds(q)' /\ bp'[q] = a
    <3> SUFFICES ASSUME NEW a \in Buf, busy'[a] PROVE \E q \in Proc : Holds(q)' /\ bp'[q] = a
      BY Zenon
    <3>1. CASE a = b BY Zenon, <1>1, <2>1, <3>1
    <3>2. CASE a # b
      <4>1. PICK q \in Proc : Holds(q) /\ bp[q] = a BY Zenon, <1>1, <3>2 DEF UseInv
      <4>2. q # p BY Zenon, <4>1 DEF Holds
      <4> QED BY Zenon, <1>1, <2>1, <4>1, <4>2
    <3> QED BY Zenon, <3>1, <3>2
  <2>6. \A a, e \in Buf : blockno'[a] = blockno'[e] /\ blockno'[a] # None => a = e
    BY SMTT(30), <1>1, <1>2 DEF UseInv
  <2>7. \A q \in Proc : pc'[q] \in {"bget", "bget_asleep"} => want'[q] \in Block
    BY Zenon, <1>1 DEF UseInv
  <2>8. \A q \in Proc : pc'[q] = "bget_asleep" =>
          bp'[q] \in Buf /\ busy'[bp'[q]] /\ blockno'[bp'[q]] = want'[q]
    <3>1. \A q \in Proc : pc'[q] = "bget_asleep" => pc[q] = "bget_asleep" /\ bp'[q] = bp[q]
      BY Zenon, <1>1
    <3>2. \A q \in Proc : pc[q] = "bget_asleep" => bp[q] \in Buf /\ busy[bp[q]] /\ bp[q] # b
      BY SMTT(30), <1>2 DEF UseInv
    <3> SUFFICES ASSUME NEW q \in Proc, pc'[q] = "bget_asleep"
                 PROVE  bp'[q] \in Buf /\ busy'[bp'[q]] /\ blockno'[bp'[q]] = want'[q]
      BY Zenon
    <3> pc[q] = "bget_asleep" /\ bp'[q] = bp[q] BY Zenon, <3>1
    <3>3. bp[q] \in Buf /\ busy[bp[q]] /\ bp[q] # b BY Zenon, <3>2
    <3>4. busy'[bp[q]] = busy[bp[q]] /\ blockno'[bp[q]] = blockno[bp[q]] BY Zenon, <1>1, <3>3
    <3>5. blockno[bp[q]] = want[q] BY Zenon DEF UseInv
    <3> QED BY Zenon, <3>3, <3>4, <3>5
  <2>9. \A q \in Proc : pc'[q] = "idle" => bp'[q] = None BY ZenonT(60), <1>1 DEF UseInv
  <2> QED BY Zenon, <2>3, <2>4, <2>5, <2>6, <2>7, <2>8, <2>9 DEF UseInv
<1>6. FlagInv'
  <2>1. \A q \in Proc : q # p /\ Holds(q) => bp'[q] = bp[q] /\ bp[q] \in Buf /\ bp[q] # b
    BY Zenon, <1>1, <1>4 DEF UseInv
  <2>2. \A q \in Proc : pc'[q] = "hold" => valid'[bp'[q]] BY SMTT(30), <1>1, <2>1 DEF FlagInv, Holds
  <2>3. \A q \in Proc : pc'[q] = "iderw" => ~valid'[bp'[q]] \/ dirty'[bp'[q]]
    BY SMTT(30), <1>1, <1>2, <2>1 DEF FlagInv, Holds
  <2>4. \A q \in Proc : pc'[q] = "iderw_wait" => valid'[bp'[q]] /\ ~dirty'[bp'[q]]
    <3> SUFFICES ASSUME NEW q \in Proc, pc'[q] = "iderw_wait" PROVE valid'[bp'[q]] /\ ~dirty'[bp'[q]]
      BY Zenon
    <3>1. q # p /\ pc[q] = "iderw_wait" BY Zenon, <1>1
    <3>2. bp'[q] = bp[q] /\ bp[q] \in Buf /\ bp[q] # b BY Zenon, <2>1, <3>1 DEF Holds
    <3> QED BY Zenon, <1>1, <1>2, <3>1, <3>2 DEF FlagInv
  <2>5. \A a \in Buf : /\ dirty'[a] => valid'[a] /\ data'[a] \in Val
                       /\ valid'[a] => blockno'[a] \in Block
    BY SMTT(30), <1>1, <1>2 DEF FlagInv
  <2> QED BY Zenon, <2>2, <2>3, <2>4, <2>5 DEF FlagInv
<1>7. QueueInv'
  <2>1. \A q \in Proc : pc'[q] = "iderw_asleep" <=> pc[q] = "iderw_asleep" BY Zenon, <1>1
  <2>2. \A q \in Proc : pc[q] = "iderw_asleep" => bp'[q] = bp[q] /\ bp[q] \in Buf /\ bp[q] # b
    BY Zenon, <1>1, <1>4 DEF Holds, UseInv
  <2> QED BY Zenon, <1>1, <1>2, <2>1, <2>2, SameQueue
<1> QED BY Zenon, <1>3, <1>5, <1>6, <1>7

\* A pass of bget(): it takes, recycles, sleeps or panics.
LEMMA BgetStep ==
  ASSUME Inv, NEW p \in Proc, bget(p)
  PROVE  Inv'
<1> USE DEF Inv
<1>1. pc[p] = "bget" /\ UNCHANGED <<lru, idequeue, disk, ide, irq, want, latest>> BY Zenon, BgetCases
<1>2. CASE pc' = Goto(p, "no_buffers") /\ UNCHANGED <<blockno, busy, valid, dirty, data, bp>>
  <2>1. \A q \in Proc : pc'[q] = IF q = p THEN "no_buffers" ELSE pc[q] BY Zenon, <1>2 DEF Goto, TypeOK
  <2>2. TypeOK' BY Zenon, <1>1, <1>2 DEF TypeOK, Goto, Label
  <2>3. UseInv'
    <3>1. \A q \in Proc : /\ Holds(q)' <=> Holds(q)
                          /\ pc'[q] \in {"idle", "bget", "bget_asleep"} => pc'[q] = pc[q]
      BY Zenon, <1>1, <2>1 DEF Holds
    <3> QED BY Zenon, <1>1, <1>2, <3>1, SameUse
  <2>4. FlagInv' BY Zenon, <1>1, <1>2, <2>1 DEF FlagInv
  <2>5. QueueInv' BY Zenon, <1>1, <1>2, <2>1, SameQueue
  <2> QED BY Zenon, <2>2, <2>3, <2>4, <2>5
<1>3. ASSUME NEW b \in Buf, busy[b], blockno[b] = want[p], bp' = [bp EXCEPT ![p] = b],
             pc' = Goto(p, "bget_asleep"), UNCHANGED <<blockno, busy, valid, dirty, data>>
      PROVE  Inv'
  <2>1. /\ \A q \in Proc : pc'[q] = IF q = p THEN "bget_asleep" ELSE pc[q]
        /\ \A q \in Proc : bp'[q] = IF q = p THEN b ELSE bp[q]
    BY Zenon, <1>3 DEF Goto, TypeOK
  <2>2. TypeOK' BY Zenon, <1>1, <1>3 DEF TypeOK, Goto, Label
  <2>3. UseInv'
    <3>1. \A q \in Proc : (Holds(q)' <=> Holds(q)) /\ (Holds(q) => bp'[q] = bp[q])
      BY ZenonT(60), <1>1, <2>1 DEF Holds
    <3>2. \A q \in Proc : pc'[q] = "bget_asleep" =>
            bp'[q] \in Buf /\ busy'[bp'[q]] /\ blockno'[bp'[q]] = want'[q]
      BY SMTT(30), <1>1, <1>3, <2>1 DEF UseInv
    <3>3. \A q \in Proc : /\ pc'[q] \in {"bget", "bget_asleep"} => want'[q] \in Block
                          /\ pc'[q] = "idle" => bp'[q] = None
      BY Zenon, <1>1, <2>1 DEF UseInv
    <3>4. \A q \in Proc : Holds(q)' =>
            bp'[q] \in Buf /\ busy'[bp'[q]] /\ want'[q] \in Block /\ blockno'[bp'[q]] = want'[q]
      <4> SUFFICES ASSUME NEW q \in Proc, Holds(q)'
                   PROVE  /\ bp'[q] \in Buf /\ busy'[bp'[q]]
                          /\ want'[q] \in Block /\ blockno'[bp'[q]] = want'[q]
        BY Zenon
      <4>1. Holds(q) /\ bp'[q] = bp[q] BY Zenon, <3>1
      <4> QED BY Zenon, <1>1, <1>3, <4>1 DEF UseInv
    <3>5. /\ \A a \in Buf : busy'[a] => \E q \in Proc : Holds(q)' /\ bp'[q] = a
          /\ \A a, e \in Buf : blockno'[a] = blockno'[e] /\ blockno'[a] # None => a = e
      BY SMTT(30), <1>3, <3>1 DEF UseInv
    <3>6. \A q, u \in Proc : Holds(q)' /\ Holds(u)' /\ bp'[q] = bp'[u] => q = u
      <4> SUFFICES ASSUME NEW q \in Proc, NEW u \in Proc, Holds(q)', Holds(u)', bp'[q] = bp'[u]
                   PROVE  q = u
        BY Zenon
      <4>1. Holds(q) /\ Holds(u) /\ bp[q] = bp[u] BY ZenonT(60), <3>1
      <4> QED BY Zenon, <4>1 DEF UseInv
    <3> QED BY Zenon, <3>2, <3>3, <3>4, <3>5, <3>6 DEF UseInv
  <2>4. FlagInv' BY SMTT(30), <1>1, <1>3, <2>1 DEF FlagInv
  <2>5. QueueInv' BY Zenon, <1>1, <1>3, <2>1, SameQueue
  <2> QED BY Zenon, <2>2, <2>3, <2>4, <2>5
<1>4. ASSUME NEW b \in Buf, NEW v \in BOOLEAN, Take(p, b, v) PROVE Inv' BY Zenon, <1>1, <1>4, TakeStep
<1> QED BY ZenonT(60), <1>2, <1>3, <1>4, BgetCases

\* log_write() and bwrite() change the data of the buffer in use.
LEMMA WriteStep ==
  ASSUME Inv, NEW p \in Proc, NEW x \in Val, NEW l \in {"hold", "iderw"}, pc[p] = "hold",
         data' = [data EXCEPT ![bp[p]] = x],
         dirty' = [dirty EXCEPT ![bp[p]] = TRUE],
         latest' = [latest EXCEPT ![blockno[bp[p]]] = x],
         pc' = Goto(p, l),
         UNCHANGED <<blockno, busy, valid, lru, idequeue, disk, ide, irq, want, bp>>
  PROVE  Inv'
<1> USE DEF Inv
<1> DEFINE b == bp[p]
<1>1. b \in Buf /\ valid[b] /\ blockno[b] \in Block BY Zenon DEF UseInv, FlagInv, Holds
<1>2. /\ \A q \in Proc : pc'[q] = IF q = p THEN l ELSE pc[q]
      /\ \A a \in Buf : data'[a] = IF a = b THEN x ELSE data[a]
      /\ \A a \in Buf : dirty'[a] = IF a = b THEN TRUE ELSE dirty[a]
  BY Zenon, <1>1 DEF Goto, TypeOK
<1>3. \A q \in Proc : q # p /\ Holds(q) => bp[q] \in Buf /\ bp[q] # b BY Zenon DEF UseInv, Holds
<1>4. TypeOK' BY ZenonT(60), <1>1 DEF TypeOK, Goto, Label
<1> HIDE DEF b
<1>5. UseInv'
  <2>1. \A q \in Proc : Holds(q)' <=> Holds(q) BY ZenonT(60), <1>2 DEF Holds
  <2>2. \A q \in Proc : pc'[q] \in {"bget", "bget_asleep", "idle"} => pc'[q] = pc[q] BY Zenon, <1>2
  <2> QED BY SMTT(30), <2>1, <2>2 DEF UseInv
<1>6. FlagInv'
  <2>1. \A q \in Proc : pc'[q] = "hold" => valid[bp[q]] BY Zenon, <1>1, <1>2 DEF FlagInv, b
  <2>2. \A q \in Proc : pc'[q] = "iderw" => ~valid[bp[q]] \/ dirty'[bp[q]]
    <3> SUFFICES ASSUME NEW q \in Proc, pc'[q] = "iderw" PROVE ~valid[bp[q]] \/ dirty'[bp[q]]
      BY Zenon
    <3>1. CASE q = p BY Zenon, <1>1, <1>2, <3>1 DEF b
    <3>2. CASE q # p
      <4>1. pc[q] = "iderw" BY Zenon, <1>2, <3>2
      <4>2. bp[q] \in Buf /\ bp[q] # b BY Zenon, <1>3, <3>2, <4>1 DEF Holds
      <4>3. dirty'[bp[q]] = dirty[bp[q]] BY Zenon, <1>2, <4>2
      <4> QED BY Zenon, <4>1, <4>3 DEF FlagInv
    <3> QED BY Zenon, <3>1, <3>2
  <2>3. \A q \in Proc : pc'[q] = "iderw_wait" => pc[q] = "iderw_wait" /\ q # p BY Zenon, <1>2
  <2>4. \A q \in Proc : pc'[q] = "iderw_wait" => valid[bp[q]] /\ ~dirty'[bp[q]]
    BY Zenon, <1>2, <1>3, <2>3 DEF FlagInv, Holds
  <2>5. \A a \in Buf : (dirty'[a] => valid[a] /\ data'[a] \in Val) /\ (valid[a] => blockno[a] \in Block)
    <3> SUFFICES ASSUME NEW a \in Buf
                 PROVE  (dirty'[a] => valid[a] /\ data'[a] \in Val) /\ (valid[a] => blockno[a] \in Block)
      BY Zenon
    <3>1. (dirty[a] => valid[a] /\ data[a] \in Val) /\ (valid[a] => blockno[a] \in Block)
      BY Zenon DEF FlagInv
    <3> QED BY Zenon, <1>1, <1>2, <3>1
  <2> QED BY ZenonT(60), <2>1, <2>2, <2>4, <2>5 DEF FlagInv
<1>7. QueueInv'
  <2>1. \A q \in Proc : pc'[q] = "iderw_asleep" <=> pc[q] = "iderw_asleep" BY Zenon, <1>2
  <2>2. \A q \in Proc : pc[q] = "iderw_asleep" => bp[q] \in Buf /\ bp[q] # b
    BY Zenon, <1>3 DEF Holds
  <2>3. \A q \in Proc : pc[q] = "iderw_asleep" =>
          dirty'[bp[q]] = dirty[bp[q]] /\ data'[bp[q]] = data[bp[q]]
    <3> SUFFICES ASSUME NEW q \in Proc, pc[q] = "iderw_asleep"
                 PROVE  dirty'[bp[q]] = dirty[bp[q]] /\ data'[bp[q]] = data[bp[q]]
      BY Zenon
    <3>1. bp[q] \in Buf /\ bp[q] # b BY Zenon, <2>2
    <3> QED BY ZenonT(60), <1>2, <3>1
  <2> QED BY Zenon, <2>1, <2>3, SameQueue
<1> QED BY Zenon, <1>4, <1>5, <1>6, <1>7

\* log_write() marks a buffer dirty.
LEMMA LogWriteStep ==
  ASSUME Inv, NEW p \in Proc, NEW x \in Val, log_write(p, x)
  PROVE  Inv'
<1>1. pc' = Goto(p, "hold") BY Zenon DEF log_write, Goto, Inv, TypeOK
<1> QED BY Zenon, <1>1, WriteStep DEF log_write, hardware

\* bwrite() of the log.
LEMMA BwriteStep ==
  ASSUME Inv, NEW p \in Proc, NEW x \in Val, bwrite(p, x)
  PROVE  Inv'
BY ZenonT(60), WriteStep DEF bwrite, hardware

\* brelse() moves the buffer to the front of the list and wakes those that wait.
LEMMA BrelseStep ==
  ASSUME Inv, NEW p \in Proc, brelse(p)
  PROVE  Inv'
<1> USE DEF Inv
<1> DEFINE b == bp[p]
<1>1. b \in Buf /\ None \notin Buf BY Zenon, BcacheAssumption DEF brelse, UseInv, Holds
<1>2. /\ pc[p] = "hold" /\ lru' = ToFront(b)
      /\ UNCHANGED <<blockno, valid, dirty, data, idequeue, disk, ide, irq, latest>>
  BY Zenon DEF brelse, hardware
<1>3. \A q \in Proc : q # p /\ Holds(q) => bp[q] \in Buf /\ bp[q] # b
  BY Zenon, <1>2 DEF UseInv, Holds
<1>4. /\ \A q \in Proc : pc'[q] = IF q = p THEN "idle"
                                  ELSE IF bp[q] = b /\ pc[q] = "bget_asleep" THEN "bget" ELSE pc[q]
      /\ \A q \in Proc : want'[q] = IF q = p THEN None ELSE want[q]
      /\ \A q \in Proc : bp'[q] = IF q = p THEN None ELSE bp[q]
      /\ \A a \in Buf : busy'[a] = IF a = b THEN FALSE ELSE busy[a]
  <2>1. \A q \in Proc : Goto(p, "idle")[q] = IF q = p THEN "idle" ELSE pc[q] BY Zenon DEF Goto, TypeOK
  <2>2. \A q \in Proc : q # p /\ bp[q] = b => pc[q] # "iderw_asleep" BY Zenon, <1>3 DEF Holds
  <2>3. pc' = wakeup(Goto(p, "idle"), b) BY Zenon DEF brelse
  <2> HIDE DEF b
  <2>4. \A q \in Proc : pc'[q] = IF q = p THEN "idle"
                                 ELSE IF bp[q] = b /\ pc[q] = "bget_asleep" THEN "bget" ELSE pc[q]
    BY Zenon, <2>1, <2>2, <2>3 DEF wakeup
  <2> QED BY Zenon, <2>4 DEF brelse, TypeOK, b
<1>5. TypeOK'
  <2>1. pc' \in [Proc -> Label]
    <3>1. pc' = wakeup(Goto(p, "idle"), b) BY Zenon DEF brelse
    <3>2. pc' = [q \in Proc |-> pc'[q]] BY Zenon, <3>1 DEF wakeup
    <3> QED BY SMTT(30), <1>4, <3>2 DEF TypeOK, Label
  <2>2. lru' \in [1 .. NBUF -> Buf] /\ \A a \in Buf : \E i \in 1 .. NBUF : lru'[i] = a
    BY Zenon, <1>1, <1>2, ToFrontList
  <2>3. /\ want' \in [Proc -> Block \cup {None}] /\ bp' \in [Proc -> Buf \cup {None}]
        /\ busy' \in [Buf -> BOOLEAN]
    BY Zenon DEF TypeOK, brelse
  <2> QED BY Zenon, <1>2, <2>1, <2>2, <2>3 DEF TypeOK
<1> HIDE DEF b
<1>6. \A q \in Proc : Holds(q)' <=> Holds(q) /\ q # p BY Zenon, <1>4 DEF Holds
<1>7. UseInv'
  <2>1. \A a \in Buf : busy'[a] => \E q \in Proc : Holds(q)' /\ bp'[q] = a
    <3> SUFFICES ASSUME NEW a \in Buf, busy'[a] PROVE \E q \in Proc : Holds(q)' /\ bp'[q] = a
      BY Zenon
    <3>1. a # b /\ busy[a] BY ZenonT(60), <1>1, <1>4
    <3>2. PICK q \in Proc : Holds(q) /\ bp[q] = a BY Zenon, <3>1 DEF UseInv
    <3> QED BY Zenon, <1>4, <1>6, <3>1, <3>2 DEF b
  <2>2. \A q \in Proc : Holds(q)' =>
          bp'[q] \in Buf /\ busy'[bp'[q]] /\ want'[q] \in Block /\ blockno'[bp'[q]] = want'[q]
    <3> SUFFICES ASSUME NEW q \in Proc, Holds(q)'
                 PROVE  /\ bp'[q] \in Buf /\ busy'[bp'[q]]
                        /\ want'[q] \in Block /\ blockno'[bp'[q]] = want'[q]
      BY Zenon
    <3>1. Holds(q) /\ q # p BY Zenon, <1>6
    <3>2. bp[q] \in Buf /\ bp[q] # b BY Zenon, <1>3, <3>1
    <3> QED BY Zenon, <1>2, <1>4, <3>1, <3>2 DEF UseInv
  <2>3. \A q \in Proc : pc'[q] = "bget_asleep" =>
          bp'[q] \in Buf /\ busy'[bp'[q]] /\ blockno'[bp'[q]] = want'[q]
    BY ZenonT(60), <1>2, <1>4 DEF UseInv
  <2>4. \A q, u \in Proc : Holds(q)' /\ Holds(u)' /\ bp'[q] = bp'[u] => q = u
    <3>1. \A q \in Proc : Holds(q)' => Holds(q) /\ bp'[q] = bp[q] BY Zenon, <1>4, <1>6
    <3> SUFFICES ASSUME NEW q \in Proc, NEW u \in Proc, Holds(q)', Holds(u)', bp'[q] = bp'[u]
                 PROVE  q = u
      BY Zenon
    <3>2. Holds(q) /\ Holds(u) /\ bp[q] = bp[u] BY Zenon, <3>1
    <3> QED BY Zenon, <3>2 DEF UseInv
  <2>5. \A q \in Proc : /\ pc'[q] \in {"bget", "bget_asleep"} => want'[q] \in Block
                        /\ pc'[q] = "idle" => bp'[q] = None
    BY Zenon, <1>2, <1>4 DEF UseInv
  <2>6. \A a, e \in Buf : blockno'[a] = blockno'[e] /\ blockno'[a] # None => a = e
    BY ZenonT(60), <1>2 DEF UseInv
  <2> QED BY Zenon, <2>1, <2>2, <2>3, <2>4, <2>5, <2>6 DEF UseInv
<1>8. FlagInv' BY ZenonT(60), <1>2, <1>4 DEF FlagInv
<1>9. QueueInv'
  <2>1. \A q \in Proc : pc'[q] = "iderw_asleep" <=> pc[q] = "iderw_asleep" BY Zenon, <1>2, <1>4
  <2>2. \A q \in Proc : pc[q] = "iderw_asleep" => bp'[q] = bp[q] BY ZenonT(60), <1>2, <1>4
  <2> QED BY ZenonT(60), <1>2, <2>1, <2>2, SameQueue
<1> QED BY Zenon, <1>5, <1>7, <1>8, <1>9

-----------------------------------------------------------------------------
(* The steps of ide.c and of the disk, and the theorems.                   *)

\* iderw() appends a buffer to the queue and starts the disk if it is alone.
LEMMA IderwStep ==
  ASSUME Inv, NEW p \in Proc, iderw(p)
  PROVE  Inv'
<1> USE DEF Inv
<1> DEFINE b == bp[p]
<1>1. /\ pc[p] = "iderw" /\ b \in Buf /\ busy[b] /\ blockno[b] \in Block
      /\ ~valid[b] \/ dirty[b]
  BY Zenon DEF iderw, UseInv, FlagInv, Holds
<1>2. /\ idequeue' = Append(idequeue, b) /\ pc' = Goto(p, "iderw_asleep")
      /\ IF idequeue = <<>> THEN idestart(b) ELSE UNCHANGED ide
  BY Zenon, <1>1 DEF iderw
<1>3. UNCHANGED <<blockno, busy, valid, dirty, data, lru, disk, irq, want, bp, latest>>
  BY Zenon DEF iderw, cache
<1>4. \A q \in Proc : pc'[q] = IF q = p THEN "iderw_asleep" ELSE pc[q] BY ZenonT(60), <1>2 DEF Goto, TypeOK
<1>5. TypeOK' BY SMTT(30), <1>1, <1>2, <1>3 DEF TypeOK, Goto, Label
<1>6. \A q \in Proc : Holds(q)' <=> Holds(q) BY Zenon, <1>1, <1>4 DEF Holds
<1>7. UseInv' BY Zenon, <1>1, <1>3, <1>4, <1>6, SameUse
<1>8. FlagInv' BY Zenon, <1>3, <1>4 DEF FlagInv
<1>9. QueueInv'
  <2> DEFINE n == Len(idequeue)
  <2>1. /\ n \in Nat /\ DOMAIN idequeue = 1 .. n /\ DOMAIN idequeue' = 1 .. n + 1
        /\ \A i \in 1 .. n : idequeue'[i] = idequeue[i]
        /\ idequeue'[n + 1] = b /\ idequeue' # <<>> /\ Head(idequeue') = idequeue'[1]
        /\ idequeue = <<>> <=> n = 0
        /\ idequeue # <<>> => Head(idequeue) = idequeue[1]
    BY SMTT(30), <1>1, <1>2 DEF TypeOK
  <2> HIDE DEF b, n
  <2>2. \A i \in 1 .. n : idequeue[i] # b
    <3>1. \A q \in Proc : pc[q] = "iderw_asleep" => bp[q] # b BY Zenon, <1>1 DEF UseInv, Holds, b
    <3> QED BY SMTT(30), <2>1, <3>1 DEF QueueInv
  <2>3. \A q \in Proc : pc'[q] = "iderw_asleep" => \E i \in 1 .. n + 1 : idequeue'[i] = bp'[q]
    BY SMTT(30), <1>3, <1>4, <2>1 DEF QueueInv, b
  <2>4. \A i \in 1 .. n + 1 :
          /\ ~valid'[idequeue'[i]] \/ dirty'[idequeue'[i]]
          /\ \E q \in Proc : pc'[q] = "iderw_asleep" /\ bp'[q] = idequeue'[i]
    <3>1. \A i \in 1 .. n :
            /\ ~valid'[idequeue'[i]] \/ dirty'[idequeue'[i]]
            /\ \E q \in Proc : pc'[q] = "iderw_asleep" /\ bp'[q] = idequeue'[i]
      <4> SUFFICES ASSUME NEW i \in 1 .. n
                   PROVE  /\ ~valid'[idequeue'[i]] \/ dirty'[idequeue'[i]]
                          /\ \E q \in Proc : pc'[q] = "iderw_asleep" /\ bp'[q] = idequeue'[i]
        BY Zenon
      <4>1. idequeue'[i] = idequeue[i] /\ i \in DOMAIN idequeue BY Zenon, <2>1
      <4>2. ~valid[idequeue[i]] \/ dirty[idequeue[i]] BY Zenon, <4>1 DEF QueueInv
      <4>3. PICK q \in Proc : pc[q] = "iderw_asleep" /\ bp[q] = idequeue[i] BY Zenon, <4>1 DEF QueueInv
      <4>4. pc'[q] = "iderw_asleep" /\ bp'[q] = bp[q] BY Zenon, <1>3, <1>4, <4>3
      <4> QED BY Zenon, <1>3, <4>1, <4>2, <4>3, <4>4
    <3>2. /\ ~valid'[b] \/ dirty'[b]
          /\ \E q \in Proc : pc'[q] = "iderw_asleep" /\ bp'[q] = b
      BY Zenon, <1>1, <1>3, <1>4 DEF b
    <3>3. \A i \in 1 .. n + 1 : i \in 1 .. n \/ i = n + 1 BY SMTT(30), <2>1
    <3> QED BY Zenon, <2>1, <3>1, <3>2, <3>3
  <2>5. \A i, j \in 1 .. n + 1 : idequeue'[i] = idequeue'[j] => i = j
    BY SMTT(30), <2>1, <2>2 DEF QueueInv
  <2>6. CASE idequeue = <<>>
    <3>1. ide' = [write |-> dirty[b], blk |-> blockno[b], data |-> data[b]] /\ ide = None
      BY Zenon, <1>2, <2>6 DEF idestart, b
    <3>2. ide' \in Command BY Zenon, <1>1, <3>1 DEF Command, TypeOK
    <3>3. ide' # None BY Zenon, <3>2, BcacheAssumption
    <3>4. irq = FALSE BY Zenon, <2>6 DEF QueueInv, TypeOK
    <3>5. Head(idequeue') = b BY SMTT(30), <2>1, <2>6
    <3>6. idequeue' # <<>> /\ irq' = FALSE /\ DOMAIN idequeue' = 1 .. n + 1
      BY Zenon, <1>3, <2>1, <3>4
    <3>7. ide' = [write |-> dirty'[b], blk |-> blockno'[b], data |-> data'[b]] BY Zenon, <1>3, <3>1
    <3> QED BY ZenonT(60), <2>3, <2>4, <2>5, <3>3, <3>5, <3>6, <3>7 DEF QueueInv
  <2>7. CASE idequeue # <<>>
    <3>1. ide' = ide /\ Head(idequeue') = Head(idequeue) BY SMTT(30), <1>2, <2>1, <2>7 DEF b
    <3>2. idequeue' # <<>> /\ irq' = irq /\ DOMAIN idequeue' = 1 .. n + 1 BY Zenon, <1>3, <2>1
    <3> QED BY SMTT(30), <1>3, <2>3, <2>4, <2>5, <2>7, <3>1, <3>2 DEF QueueInv
  <2> QED BY ZenonT(60), <2>6, <2>7
<1> QED BY Zenon, <1>5, <1>7, <1>8, <1>9

\* iderw() waits for the interrupt and returns.
LEMMA IderwWaitStep ==
  ASSUME Inv, NEW p \in Proc, iderw_wait(p)
  PROVE  Inv'
<1> USE DEF Inv
<1>1. pc[p] = "iderw_wait" /\ valid[bp[p]] /\ ~dirty[bp[p]] BY Zenon DEF iderw_wait, FlagInv
<1>2. pc' = Goto(p, "hold") BY Zenon, <1>1 DEF iderw_wait
<1>3. UNCHANGED <<blockno, busy, valid, dirty, data, lru, idequeue, disk, ide, irq, want, bp, latest>>
  BY Zenon DEF iderw_wait, cache, hardware
<1>4. \A q \in Proc : pc'[q] = IF q = p THEN "hold" ELSE pc[q] BY Zenon, <1>2 DEF Goto, TypeOK
<1>5. TypeOK' BY Zenon, <1>2, <1>3 DEF TypeOK, Goto, Label
<1>6. \A q \in Proc : Holds(q)' <=> Holds(q) BY Zenon, <1>1, <1>4 DEF Holds
<1>7. UseInv' BY Zenon, <1>3, <1>4, <1>6, SameUse
<1>8. FlagInv' BY Zenon, <1>1, <1>3, <1>4 DEF FlagInv
<1>9. QueueInv'
  <2>1. \A q \in Proc : pc'[q] = "iderw_asleep" <=> pc[q] = "iderw_asleep" BY Zenon, <1>1, <1>4
  <2> QED BY Zenon, <1>3, <2>1, SameQueue
<1> QED BY Zenon, <1>5, <1>7, <1>8, <1>9

\* The controller finishes the command for the head of the queue.
LEMMA DiskDoneStep == ASSUME Inv, disk_done PROVE Inv'
<1> USE DEF Inv
<1> DEFINE b == Head(idequeue)
<1>1. /\ ide # None /\ ~irq /\ ide' = None /\ irq' = TRUE
      /\ disk' = IF ide.write THEN [disk EXCEPT ![ide.blk] = ide.data] ELSE disk
      /\ UNCHANGED <<blockno, busy, valid, dirty, data, lru, idequeue, pc, want, bp, latest>>
  BY Zenon DEF disk_done, cache
<1>2. /\ idequeue # <<>> /\ ide = [write |-> dirty[b], blk |-> blockno[b], data |-> data[b]]
  BY Zenon, <1>1 DEF QueueInv
<1>3. b \in Buf BY SMTT(30), <1>2 DEF TypeOK
<1> HIDE DEF b
<1>4. ide.write = dirty[b] /\ ide.blk = blockno[b] /\ ide.data = data[b] BY Zenon, <1>2
<1>5. ide.write => ide.blk \in Block /\ ide.data \in Val BY Zenon, <1>3, <1>4 DEF FlagInv
<1>6. disk' \in [Block -> Val] BY Zenon, <1>1, <1>5 DEF TypeOK
<1>7. TypeOK' BY Zenon, <1>1, <1>6 DEF TypeOK
<1>8. UseInv' BY Zenon, <1>1, SameUse DEF Holds
<1>9. FlagInv' BY Zenon, <1>1 DEF FlagInv
<1>10. QueueInv' BY ZenonT(60), <1>1, <1>2 DEF QueueInv
<1> QED BY Zenon, <1>7, <1>8, <1>9, <1>10

\* The interrupt serves the head of the queue and wakes its processes.
LEMMA IdeintrEffect ==
  ASSUME Inv, NEW ok, ideintr(ok), NEW b, b = Head(idequeue)
  PROVE  /\ irq /\ irq' = FALSE /\ ide = None /\ idequeue # <<>> /\ b = idequeue[1]
         /\ b \in Buf /\ blockno[b] \in Block /\ (~valid[b] \/ dirty[b])
         /\ \A a \in Buf : valid'[a] = IF a = b THEN TRUE ELSE valid[a]
         /\ \A a \in Buf : dirty'[a] = IF a = b THEN FALSE ELSE dirty[a]
         /\ \A a \in Buf : a # b => data'[a] = data[a]
         /\ data'[b] = IF ~dirty[b] /\ ok THEN disk[blockno[b]] ELSE data[b]
         /\ \A q \in Proc : pc'[q] = IF bp[q] = b /\ pc[q] = "bget_asleep" THEN "bget"
                                    ELSE IF bp[q] = b /\ pc[q] = "iderw_asleep" THEN "iderw_wait"
                                    ELSE pc[q]
         /\ idequeue' = Tail(idequeue) /\ StartNext(Tail(idequeue))
         /\ UNCHANGED <<blockno, busy, lru, disk, want, bp, latest>>
         /\ valid' \in [Buf -> BOOLEAN] /\ dirty' \in [Buf -> BOOLEAN]
         /\ data' \in [Buf -> Val \cup {None}] /\ pc' \in [Proc -> Label]
<1> USE DEF Inv
<1>1. irq /\ irq' = FALSE /\ ide = None /\ idequeue # <<>> BY Zenon DEF ideintr, QueueInv
<1>2. b = idequeue[1] /\ 1 \in DOMAIN idequeue /\ b \in Buf BY SMTT(30), <1>1 DEF TypeOK
<1>3. ~valid[b] \/ dirty[b] BY SMTT(30), <1>2 DEF QueueInv
<1>4. blockno[b] \in Block
  <2>1. PICK q \in Proc : pc[q] = "iderw_asleep" /\ bp[q] = b BY SMTT(30), <1>2 DEF QueueInv
  <2>2. Holds(q) BY Zenon, <2>1 DEF Holds
  <2>3. want[q] \in Block /\ blockno[bp[q]] = want[q] BY Zenon, <2>2 DEF UseInv
  <2> QED BY ZenonT(60), <2>1, <2>3
<1>5. /\ data' = IF ~dirty[b] /\ ok THEN [data EXCEPT ![b] = disk[blockno[b]]] ELSE data
      /\ valid' = [valid EXCEPT ![b] = TRUE] /\ dirty' = [dirty EXCEPT ![b] = FALSE]
      /\ pc' = wakeup(pc, b) /\ idequeue' = Tail(idequeue) /\ StartNext(Tail(idequeue))
      /\ UNCHANGED <<blockno, busy, lru, disk, want, bp, latest>>
  BY Zenon, <1>1 DEF ideintr
<1>6. \A a \in Buf : valid'[a] = IF a = b THEN TRUE ELSE valid[a] BY Zenon, <1>5 DEF TypeOK
<1>7. \A a \in Buf : dirty'[a] = IF a = b THEN FALSE ELSE dirty[a] BY Zenon, <1>5 DEF TypeOK
<1>8. /\ data' \in [Buf -> Val \cup {None}]
      /\ \A a \in Buf : a # b => data'[a] = data[a]
      /\ data'[b] = IF ~dirty[b] /\ ok THEN disk[blockno[b]] ELSE data[b]
  BY Zenon, <1>2, <1>4, <1>5 DEF TypeOK
<1>9. \A q \in Proc : pc'[q] = IF bp[q] = b /\ pc[q] = "bget_asleep" THEN "bget"
                               ELSE IF bp[q] = b /\ pc[q] = "iderw_asleep" THEN "iderw_wait"
                               ELSE pc[q]
  BY Zenon, <1>5 DEF wakeup
<1>10. pc' \in [Proc -> Label]
  <2>1. pc' = [q \in Proc |-> pc'[q]] BY Zenon, <1>5 DEF wakeup
  <2>2. \A q \in Proc : pc'[q] \in Label BY Zenon, <1>9 DEF TypeOK, Label
  <2> QED BY Zenon, <2>1, <2>2
<1>11. valid' \in [Buf -> BOOLEAN] /\ dirty' \in [Buf -> BOOLEAN] BY Zenon, <1>5 DEF TypeOK
<1> QED BY Zenon, <1>1, <1>2, <1>3, <1>4, <1>5, <1>6, <1>7, <1>8, <1>9, <1>10, <1>11

\* ideintr() finishes the first request and starts the next.
LEMMA IdeintrStep == ASSUME Inv, NEW ok, ideintr(ok) PROVE Inv'
<1> DEFINE b == Head(idequeue)
<1>1. /\ irq /\ irq' = FALSE /\ ide = None /\ idequeue # <<>> /\ b = idequeue[1]
      /\ b \in Buf /\ blockno[b] \in Block
      /\ idequeue' = Tail(idequeue) /\ StartNext(Tail(idequeue))
      /\ UNCHANGED <<blockno, busy, lru, disk, want, bp, latest>>
      /\ valid' \in [Buf -> BOOLEAN] /\ dirty' \in [Buf -> BOOLEAN]
      /\ data' \in [Buf -> Val \cup {None}] /\ pc' \in [Proc -> Label]
  BY Zenon, IdeintrEffect
<1>2. /\ \A a \in Buf : valid'[a] = IF a = b THEN TRUE ELSE valid[a]
      /\ \A a \in Buf : dirty'[a] = IF a = b THEN FALSE ELSE dirty[a]
      /\ \A a \in Buf : a # b => data'[a] = data[a]
  <2>1. /\ \A a \in Buf : valid'[a] = IF a = b THEN TRUE ELSE valid[a]
        /\ \A a \in Buf : dirty'[a] = IF a = b THEN FALSE ELSE dirty[a]
    BY ZenonT(60), IdeintrEffect
  <2>2. \A a \in Buf : a # b => data'[a] = data[a] BY Zenon, IdeintrEffect
  <2> QED BY Zenon, <2>1, <2>2
<1>3. \A p \in Proc : pc'[p] = IF bp[p] = b /\ pc[p] = "bget_asleep" THEN "bget"
                               ELSE IF bp[p] = b /\ pc[p] = "iderw_asleep" THEN "iderw_wait"
                               ELSE pc[p]
  BY Zenon, IdeintrEffect
<1> USE DEF Inv
<1> DEFINE n == Len(idequeue)  q == Tail(idequeue)
<1>4. /\ n \in Nat \ {0} /\ DOMAIN idequeue = 1 .. n /\ q \in Seq(Buf) /\ DOMAIN q = 1 .. n - 1
      /\ \A i \in 1 .. n - 1 : i + 1 \in 1 .. n /\ q[i] = idequeue[i + 1]
      /\ q # <<>> => 1 \in 1 .. n - 1 /\ Head(q) = q[1]
  BY SMTT(30), <1>1 DEF TypeOK
<1>5. \A i \in 1 .. n - 1 : q[i] \in Buf /\ q[i] # b
  <2>1. \A i \in 1 .. n - 1 : 1 \in 1 .. n /\ i + 1 # 1 /\ q[i] \in Buf BY SMTT(30), <1>4
  <2> QED BY SMTT(30), <1>1, <1>4, <2>1 DEF QueueInv
<1> HIDE DEF b, n, q
<1>6. idequeue' = q /\ StartNext(q) BY Zenon, <1>1 DEF q
<1>7. TypeOK'
  <2>1. idequeue' \in Seq(Buf) /\ irq' \in BOOLEAN BY Zenon, <1>1, <1>4, <1>6
  <2> QED BY Zenon, <1>1, <2>1 DEF TypeOK
<1>8. \A p \in Proc : Holds(p)' <=> Holds(p) BY Zenon, <1>3 DEF Holds
<1>9. \A p \in Proc : /\ pc'[p] = "bget_asleep" => pc[p] = "bget_asleep"
                      /\ pc'[p] = "bget" => pc[p] \in {"bget", "bget_asleep"}
                      /\ pc'[p] = "idle" => pc[p] = "idle"
                      /\ pc'[p] = "hold" => pc[p] = "hold"
                      /\ pc'[p] = "iderw" => pc[p] = "iderw"
                      /\ pc'[p] = "iderw_asleep" <=> pc[p] = "iderw_asleep" /\ bp[p] # b
                      /\ pc'[p] = "iderw_wait" =>
                           pc[p] = "iderw_wait" \/ (pc[p] = "iderw_asleep" /\ bp[p] = b)
  BY Zenon, <1>3
<1>10. UseInv'
  <2>1. \A p \in Proc : pc'[p] \in {"bget", "bget_asleep"} => want[p] \in Block
    BY Zenon, <1>9 DEF UseInv
  <2>2. blockno' = blockno /\ busy' = busy /\ want' = want /\ bp' = bp BY Zenon, <1>1
  <2>3. \A a \in Buf : busy[a] => \E p \in Proc : Holds(p)' /\ bp[p] = a BY Zenon, <1>8 DEF UseInv
  <2>4. \A p \in Proc : pc'[p] = "bget_asleep" =>
          bp[p] \in Buf /\ busy[bp[p]] /\ blockno[bp[p]] = want[p]
    BY Zenon, <1>9 DEF UseInv
  <2>5. \A p \in Proc : pc'[p] = "idle" => bp[p] = None BY Zenon, <1>9 DEF UseInv
  <2> QED BY ZenonT(60), <1>8, <2>1, <2>2, <2>3, <2>4, <2>5 DEF UseInv
<1>11. \A p \in Proc : Holds(p) /\ pc[p] # "iderw_asleep" => bp[p] \in Buf /\ bp[p] # b
  <2>1. PICK r \in Proc : pc[r] = "iderw_asleep" /\ bp[r] = b
    <3>1. 1 \in DOMAIN idequeue BY SMTT(30), <1>4
    <3> QED BY Zenon, <1>1, <3>1 DEF QueueInv
  <2>2. Holds(r) BY Zenon, <2>1 DEF Holds
  <2> QED BY Zenon, <2>1, <2>2 DEF UseInv
<1>12. FlagInv'
  <2>1. \A p \in Proc : pc'[p] = "hold" => valid'[bp[p]] BY Zenon, <1>2, <1>9, <1>11 DEF FlagInv, Holds
  <2>2. \A p \in Proc : pc'[p] = "iderw" => ~valid'[bp[p]] \/ dirty'[bp[p]]
    <3> SUFFICES ASSUME NEW p \in Proc, pc'[p] = "iderw" PROVE ~valid'[bp[p]] \/ dirty'[bp[p]]
      BY Zenon
    <3>1. pc[p] = "iderw" BY Zenon, <1>9
    <3>2. bp[p] \in Buf /\ bp[p] # b BY Zenon, <1>11, <3>1 DEF Holds
    <3>3. ~valid[bp[p]] \/ dirty[bp[p]] BY Zenon, <3>1 DEF FlagInv
    <3> QED BY Zenon, <1>2, <3>2, <3>3
  <2>3. \A p \in Proc : pc'[p] = "iderw_wait" => valid'[bp[p]] /\ ~dirty'[bp[p]]
    BY ZenonT(60), <1>1, <1>2, <1>9, <1>11 DEF FlagInv, Holds
  <2>4. \A a \in Buf : (dirty'[a] => valid'[a] /\ data'[a] \in Val) /\ (valid'[a] => blockno[a] \in Block)
    BY Zenon, <1>1, <1>2 DEF FlagInv
  <2> QED BY ZenonT(60), <1>1, <2>1, <2>2, <2>3, <2>4 DEF FlagInv
<1>13. QueueInv'
  <2>1. \A p \in Proc : pc'[p] = "iderw_asleep" => \E i \in 1 .. n - 1 : q[i] = bp[p]
    <3> SUFFICES ASSUME NEW p \in Proc, pc'[p] = "iderw_asleep"
                 PROVE  \E i \in 1 .. n - 1 : q[i] = bp[p]
      BY Zenon
    <3>1. pc[p] = "iderw_asleep" /\ bp[p] # b BY Zenon, <1>9
    <3>2. PICK j \in 1 .. n : idequeue[j] = bp[p] BY ZenonT(60), <1>4, <3>1 DEF QueueInv
    <3>3. j # 1 BY Zenon, <1>1, <3>1, <3>2
    <3>4. j - 1 \in 1 .. n - 1 /\ (j - 1) + 1 = j BY SMTT(30), <1>4, <3>3
    <3>5. q[j - 1] = bp[p] BY Zenon, <1>4, <3>2, <3>4
    <3> QED BY Zenon, <3>4, <3>5
  <2>2. \A i \in 1 .. n - 1 : /\ ~valid'[q[i]] \/ dirty'[q[i]]
                              /\ \E p \in Proc : pc'[p] = "iderw_asleep" /\ bp[p] = q[i]
    <3> SUFFICES ASSUME NEW i \in 1 .. n - 1
                 PROVE  /\ ~valid'[q[i]] \/ dirty'[q[i]]
                        /\ \E p \in Proc : pc'[p] = "iderw_asleep" /\ bp[p] = q[i]
      BY Zenon
    <3>1. i + 1 \in DOMAIN idequeue /\ q[i] = idequeue[i + 1] BY Zenon, <1>4
    <3>2. ~valid[q[i]] \/ dirty[q[i]] BY Zenon, <3>1 DEF QueueInv
    <3>3. PICK p \in Proc : pc[p] = "iderw_asleep" /\ bp[p] = q[i] BY SMTT(30), <3>1 DEF QueueInv
    <3>4. q[i] \in Buf /\ q[i] # b BY Zenon, <1>5
    <3>5. pc'[p] = "iderw_asleep" BY Zenon, <1>9, <3>3, <3>4
    <3> QED BY Zenon, <1>2, <3>2, <3>3, <3>4, <3>5
  <2>3. \A i, j \in 1 .. n - 1 : q[i] = q[j] => i = j
    <3> SUFFICES ASSUME NEW i \in 1 .. n - 1, NEW j \in 1 .. n - 1, q[i] = q[j] PROVE i = j
      BY Zenon
    <3>1. \A k, m \in 1 .. n : idequeue[k] = idequeue[m] => k = m BY Zenon, <1>4 DEF QueueInv
    <3>2. /\ i + 1 \in 1 .. n /\ q[i] = idequeue[i + 1] /\ j + 1 \in 1 .. n
          /\ q[j] = idequeue[j + 1]
      BY Zenon, <1>4
    <3>3. i + 1 = j + 1 BY Zenon, <3>1, <3>2
    <3> QED BY SMTT(30), <3>3
  <2>4. DOMAIN idequeue' = 1 .. n - 1 /\ bp' = bp /\ irq' = FALSE BY Zenon, <1>1, <1>4, <1>6
  <2>5. (\A p \in Proc : pc[p] = "iderw_asleep" => \E i \in DOMAIN idequeue : idequeue[i] = bp[p])'
    BY Zenon, <1>6, <2>1, <2>4
  <2>6. (\A i \in DOMAIN idequeue : /\ ~valid[idequeue[i]] \/ dirty[idequeue[i]]
                                    /\ \E p \in Proc : pc[p] = "iderw_asleep" /\ bp[p] = idequeue[i])'
    BY Zenon, <1>6, <2>2, <2>4
  <2>7. (\A i, j \in DOMAIN idequeue : idequeue[i] = idequeue[j] => i = j)'
    BY Zenon, <1>6, <2>3, <2>4
  <2>8. CASE q = <<>>
    <3>1. ide' = None /\ idequeue' = <<>> BY Zenon, <1>1, <1>6, <2>8 DEF StartNext
    <3> QED BY Zenon, <2>4, <2>5, <2>6, <2>7, <3>1 DEF QueueInv
  <2>9. CASE q # <<>>
    <3> DEFINE h == Head(q)
    <3>1. h \in Buf /\ h # b /\ 1 \in 1 .. n - 1 /\ h = q[1] BY Zenon, <1>4, <1>5, <2>9
    <3> HIDE DEF h
    <3>2. ide' = [write |-> dirty[h], blk |-> blockno[h], data |-> data[h]]
      BY Zenon, <1>6, <2>9 DEF StartNext, idestart, h
    <3>3. ide' \in Command
      <4>1. dirty[h] \in BOOLEAN /\ data[h] \in Val \cup {None} BY Zenon, <3>1 DEF TypeOK
      <4>2. PICK p \in Proc : pc'[p] = "iderw_asleep" /\ bp[p] = h BY Zenon, <2>2, <3>1
      <4>3. Holds(p) BY Zenon, <1>9, <4>2 DEF Holds
      <4>4. blockno[h] \in Block BY Zenon, <4>2, <4>3 DEF UseInv
      <4> QED BY Zenon, <3>2, <4>1, <4>4 DEF Command
    <3>4. ide' # None BY Zenon, <3>3, BcacheAssumption
    <3>5. ide' = [write |-> dirty'[h], blk |-> blockno'[h], data |-> data'[h]]
      BY Zenon, <1>1, <1>2, <3>1, <3>2
    <3>6. idequeue' # <<>> /\ Head(idequeue') = h BY Zenon, <1>6, <2>9 DEF h
    <3> QED BY ZenonT(60), <2>4, <2>5, <2>6, <2>7, <3>4, <3>5, <3>6 DEF QueueInv
  <2> QED BY Zenon, <2>8, <2>9
<1> QED BY Zenon, <1>7, <1>10, <1>12, <1>13

-----------------------------------------------------------------------------
\* No step of a process, the disk or its interrupt breaks the invariant.
LEMMA NextInv == Inv /\ [Next]_vars => Inv'
<1> SUFFICES ASSUME Inv, [Next]_vars PROVE Inv' BY Zenon
<1>1. CASE UNCHANGED vars
  <2> USE <1>1 DEF vars, cache, hardware, Inv
  <2>1. TypeOK' BY Zenon DEF TypeOK
  <2>2. UseInv' BY Zenon, SameUse DEF Holds
  <2>3. FlagInv' BY Zenon DEF FlagInv
  <2>4. QueueInv' BY ZenonT(60) DEF QueueInv
  <2> QED BY Zenon, <2>1, <2>2, <2>3, <2>4
<1>2. CASE Disk BY Zenon, <1>2, DiskDoneStep, IdeintrStep DEF Disk
<1>3. ASSUME NEW p \in Proc, Step(p) \/ brelse(p) PROVE Inv'
  BY Zenon, <1>3, BgetStep, IderwStep, IderwWaitStep, BrelseStep DEF Step
<1>4. ASSUME NEW p \in Proc, NEW k \in Block, bread(p, k) PROVE Inv' BY Zenon, <1>4, BreadStep
<1>5. ASSUME NEW p \in Proc, NEW v \in Val, log_write(p, v) \/ bwrite(p, v) PROVE Inv'
  BY Zenon, <1>5, LogWriteStep, BwriteStep
<1> QED BY Zenon, <1>1, <1>2, <1>3, <1>4, <1>5 DEF Next

\* Every reachable state of the cache and the driver satisfies the inductive invariant.
THEOREM CacheInvariance == Spec => []Inv
<1> QED BY InitInv, NextInv, PTL DEF Spec

\* bget() and brelse() keep one copy of a block, used by one process at a time: for every
\* number of buffers, processes and blocks, and whatever errors the disk reports.
THEOREM OneCopy == Spec => []OneCopyOneUser
<1>1. Inv => OneCopyOneUser BY SMTT(30) DEF Inv, UseInv, OneCopyOneUser
<1> QED BY <1>1, CacheInvariance, PTL

\* A request is in the queue once, until the interrupt that serves it; who sleeps in bget()
\* waits for a buffer that is in use; and neither panic of iderw() is reached, whatever the
\* number of buffers.
THEOREM Served == Spec => []RequestsServed
<1>1. Inv => \A p \in Proc : pc[p] # "panic" BY Zenon DEF Inv, TypeOK, Label
<1>2. Inv => RequestsServed BY Zenon, <1>1 DEF Inv, UseInv, QueueInv, RequestsServed
<1> QED BY <1>2, CacheInvariance, PTL

-----------------------------------------------------------------------------
(* What the buffers and the disk hold, when the disk makes no errors.      *)

NoErrors == Outcomes \subseteq {TRUE}

\* A valid buffer has the latest contents of its block, the disk has them unless the buffer is
\* B_DIRTY, and a written block is on the disk when the interrupt for it comes.
DataInv ==
  /\ \A b \in Buf : valid[b] => data[b] = latest[blockno[b]]
  /\ \A b \in Buf : blockno[b] \in Block /\ ~dirty[b] => disk[blockno[b]] = latest[blockno[b]]
  /\ \A k \in Block : (\A b \in Buf : blockno[b] # k) => disk[k] = latest[k]
  /\ irq /\ dirty[Head(idequeue)] => disk[blockno[Head(idequeue)]] = data[Head(idequeue)]

\* A step that moves no data.
LEMMA SameData ==
  ASSUME DataInv, UNCHANGED <<blockno, valid, dirty, data, disk, latest, irq>>,
         irq => Head(idequeue') = Head(idequeue)
  PROVE  DataInv'
<1>1. irq' /\ dirty'[Head(idequeue')] =>
        disk'[blockno'[Head(idequeue')]] = data'[Head(idequeue')]
  BY Zenon DEF DataInv
<1> QED BY Zenon, <1>1 DEF DataInv

\* The buffer at the head of the queue is in use by the process asleep for it.
LEMMA HeadInUse ==
  ASSUME Inv, idequeue # <<>>
  PROVE  \E q \in Proc : pc[q] = "iderw_asleep" /\ bp[q] = Head(idequeue)
                         /\ Head(idequeue) \in Buf /\ busy[Head(idequeue)]
<1>1. Head(idequeue) = idequeue[1] /\ 1 \in DOMAIN idequeue BY SMTT(30) DEF Inv, TypeOK
<1>2. PICK q \in Proc : pc[q] = "iderw_asleep" /\ bp[q] = Head(idequeue)
  BY SMTT(30), <1>1 DEF Inv, QueueInv
<1>3. Holds(q) BY Zenon, <1>2 DEF Holds
<1>4. bp[q] \in Buf /\ busy[bp[q]] BY Zenon, <1>3 DEF Inv, UseInv
<1> QED BY Zenon, <1>2, <1>4

\* bget() takes a buffer: a block that comes into the cache is on the disk, and so is the one
\* that leaves it.
LEMMA TakeData ==
  ASSUME Inv, DataInv, NEW p \in Proc, NEW b \in Buf, NEW v \in BOOLEAN, Take(p, b, v),
         want[p] \in Block, UNCHANGED <<idequeue, disk, irq, latest>>
  PROVE  DataInv'
<1> USE DEF Inv
<1>1. /\ \A a \in Buf : blockno'[a] = IF a = b THEN want[p] ELSE blockno[a]
      /\ \A a \in Buf : valid'[a] = IF a = b THEN v ELSE valid[a]
  BY Zenon DEF Take, TypeOK
<1>2. /\ ~busy[b] /\ \A a \in Buf : blockno[a] = want[p] => a = b
      /\ v => valid[b] /\ blockno[b] = want[p]
      /\ ~v => ~dirty[b]
      /\ UNCHANGED <<dirty, data>>
  BY Zenon DEF Take
<1>3. \A a \in Buf : valid'[a] => data'[a] = latest'[blockno'[a]]
  <2> SUFFICES ASSUME NEW a \in Buf, valid'[a] PROVE data[a] = latest[blockno'[a]] BY ZenonT(60), <1>2
  <2>1. CASE a = b BY SMTT(30), <1>1, <1>2, <2>1 DEF DataInv
  <2>2. CASE a # b BY Zenon, <1>1, <2>2 DEF DataInv
  <2> QED BY Zenon, <2>1, <2>2
<1>4. ~dirty[b] => disk[want[p]] = latest[want[p]]
  <2>1. CASE blockno[b] = want[p] BY SMTT(30), <2>1 DEF DataInv
  <2>2. CASE blockno[b] # want[p]
    <3>1. \A a \in Buf : blockno[a] # want[p] BY Zenon, <1>2, <2>2
    <3> QED BY Zenon, <3>1 DEF DataInv
  <2> QED BY ZenonT(60), <2>1, <2>2
<1>5. \A a \in Buf : blockno'[a] \in Block /\ ~dirty'[a] => disk'[blockno'[a]] = latest'[blockno'[a]]
  <2> SUFFICES ASSUME NEW a \in Buf, blockno'[a] \in Block, ~dirty[a]
               PROVE  disk[blockno'[a]] = latest[blockno'[a]]
    BY Zenon, <1>2
  <2>1. CASE a = b BY ZenonT(60), <1>1, <1>4, <2>1
  <2>2. CASE a # b BY SMTT(30), <1>1, <2>2 DEF DataInv
  <2> QED BY Zenon, <2>1, <2>2
<1>6. \A k \in Block : (\A a \in Buf : blockno'[a] # k) => disk'[k] = latest'[k]
  <2> SUFFICES ASSUME NEW k \in Block, \A a \in Buf : blockno'[a] # k PROVE disk[k] = latest[k]
    BY Zenon
  <2>1. k # want[p] /\ \A a \in Buf : a # b => blockno[a] # k BY Zenon, <1>1
  <2>2. CASE blockno[b] = k
    <3>1. ~dirty[b] BY Zenon, <1>2, <2>1, <2>2
    <3> QED BY Zenon, <2>2, <3>1 DEF DataInv
  <2>3. CASE blockno[b] # k
    <3>1. \A a \in Buf : blockno[a] # k BY Zenon, <2>1, <2>3
    <3> QED BY Zenon, <3>1 DEF DataInv
  <2> QED BY Zenon, <2>2, <2>3
<1>7. irq' /\ dirty'[Head(idequeue')] =>
        disk'[blockno'[Head(idequeue')]] = data'[Head(idequeue')]
  <2> DEFINE h == Head(idequeue)
  <2> SUFFICES ASSUME irq, dirty[h] PROVE disk[blockno'[h]] = data[h] BY Zenon, <1>2
  <2>1. h \in Buf /\ busy[h]
    <3>1. idequeue # <<>> BY Zenon DEF QueueInv
    <3> QED BY Zenon, <3>1, HeadInUse
  <2>2. blockno'[h] = blockno[h] BY Zenon, <1>1, <1>2, <2>1
  <2> QED BY Zenon, <2>2 DEF DataInv
<1> QED BY Zenon, <1>3, <1>5, <1>6, <1>7 DEF DataInv

\* log_write() and bwrite() give the block new contents, in its one buffer.
LEMMA WriteData ==
  ASSUME Inv, DataInv, NEW p \in Proc, NEW x \in Val, pc[p] = "hold",
         data' = [data EXCEPT ![bp[p]] = x],
         dirty' = [dirty EXCEPT ![bp[p]] = TRUE],
         latest' = [latest EXCEPT ![blockno[bp[p]]] = x],
         UNCHANGED <<blockno, valid, idequeue, disk, irq>>
  PROVE  DataInv'
<1> USE DEF Inv
<1> DEFINE b == bp[p]
<1>1. b \in Buf /\ valid[b] /\ blockno[b] \in Block BY Zenon DEF UseInv, FlagInv, Holds
<1>2. /\ \A a \in Buf : data'[a] = IF a = b THEN x ELSE data[a]
      /\ \A a \in Buf : dirty'[a] = IF a = b THEN TRUE ELSE dirty[a]
      /\ \A k \in Block : latest'[k] = IF k = blockno[b] THEN x ELSE latest[k]
  BY Zenon, <1>1 DEF TypeOK
<1>3. \A a \in Buf : a # b /\ blockno[a] \in Block => blockno[a] # blockno[b]
  BY Zenon, <1>1, BcacheAssumption DEF UseInv
<1>4. \A a \in Buf : valid[a] => blockno[a] \in Block BY ZenonT(60) DEF FlagInv
<1>5. irq => Head(idequeue) \in Buf /\ Head(idequeue) # b
  <2> SUFFICES ASSUME irq PROVE Head(idequeue) \in Buf /\ Head(idequeue) # b BY Zenon
  <2>1. idequeue # <<>> BY Zenon DEF QueueInv
  <2>2. PICK q \in Proc : /\ pc[q] = "iderw_asleep" /\ bp[q] = Head(idequeue)
                          /\ Head(idequeue) \in Buf
    BY Zenon, <2>1, HeadInUse
  <2> QED BY SMTT(30), <2>2 DEF UseInv, Holds
<1> HIDE DEF b
<1>6. \A a \in Buf : valid'[a] => data'[a] = latest'[blockno'[a]]
  <2> SUFFICES ASSUME NEW a \in Buf, valid[a] PROVE data'[a] = latest'[blockno[a]] BY Zenon
  <2>1. CASE a = b BY ZenonT(60), <1>1, <1>2, <2>1
  <2>2. CASE a # b
    <3>1. blockno[a] \in Block /\ blockno[a] # blockno[b] BY Zenon, <1>3, <1>4, <2>2
    <3> QED BY SMTT(30), <1>2, <2>2, <3>1 DEF DataInv
  <2> QED BY Zenon, <2>1, <2>2
<1>7. \A a \in Buf : blockno'[a] \in Block /\ ~dirty'[a] => disk'[blockno'[a]] = latest'[blockno'[a]]
  <2> SUFFICES ASSUME NEW a \in Buf, blockno[a] \in Block, ~dirty'[a]
               PROVE  disk[blockno[a]] = latest'[blockno[a]]
    BY Zenon
  <2>1. a # b /\ ~dirty[a] BY ZenonT(60), <1>2
  <2> QED BY Zenon, <1>2, <1>3, <2>1 DEF DataInv
<1>8. \A k \in Block : (\A a \in Buf : blockno'[a] # k) => disk'[k] = latest'[k]
  BY SMTT(30), <1>1, <1>2 DEF DataInv
<1>9. irq' /\ dirty'[Head(idequeue')] =>
        disk'[blockno'[Head(idequeue')]] = data'[Head(idequeue')]
  BY Zenon, <1>2, <1>5 DEF DataInv
<1> QED BY Zenon, <1>6, <1>7, <1>8, <1>9 DEF DataInv

\* The controller stores the data of the head of the queue, if that is dirty.
LEMMA DiskData == ASSUME Inv, DataInv, disk_done PROVE DataInv'
<1> USE DEF Inv
<1> DEFINE b == Head(idequeue)
<1>1. /\ ide # None
      /\ disk' = IF ide.write THEN [disk EXCEPT ![ide.blk] = ide.data] ELSE disk
      /\ UNCHANGED <<blockno, valid, dirty, data, idequeue, latest>>
  BY Zenon DEF disk_done, cache
<1>2. /\ idequeue # <<>> /\ ide = [write |-> dirty[b], blk |-> blockno[b], data |-> data[b]]
  BY Zenon, <1>1 DEF QueueInv
<1>3. b \in Buf BY SMTT(30), <1>2 DEF TypeOK
<1> HIDE DEF b
<1>4. ide.write = dirty[b] /\ ide.blk = blockno[b] /\ ide.data = data[b] BY Zenon, <1>2
<1>5. CASE ~dirty[b]
  <2>1. disk' = disk BY ZenonT(60), <1>1, <1>4, <1>5
  <2> QED BY Zenon, <1>1, <1>5, <2>1 DEF DataInv, b
<1>6. CASE dirty[b]
  <2>1. blockno[b] \in Block BY Zenon, <1>3, <1>6 DEF FlagInv
  <2>2. \A k \in Block : disk'[k] = IF k = blockno[b] THEN data[b] ELSE disk[k]
    BY Zenon, <1>1, <1>4, <1>6 DEF TypeOK
  <2>3. \A a \in Buf : a # b /\ blockno[a] \in Block => blockno[a] # blockno[b]
    BY Zenon, <1>3, <2>1, BcacheAssumption DEF UseInv
  <2>4. \A a \in Buf : blockno[a] \in Block /\ ~dirty[a] => disk'[blockno[a]] = latest[blockno[a]]
    BY Zenon, <1>6, <2>2, <2>3 DEF DataInv
  <2>5. \A k \in Block : (\A a \in Buf : blockno[a] # k) => disk'[k] = latest[k]
    BY Zenon, <1>3, <2>2 DEF DataInv
  <2>6. disk'[blockno[b]] = data[b] BY Zenon, <2>1, <2>2
  <2>7. irq' /\ dirty'[Head(idequeue')] =>
          disk'[blockno'[Head(idequeue')]] = data'[Head(idequeue')]
    BY Zenon, <1>1, <2>6 DEF b
  <2>8. \A a \in Buf : valid[a] => data[a] = latest[blockno[a]] BY Zenon DEF DataInv
  <2> QED BY SMTT(30), <1>1, <2>4, <2>5, <2>7, <2>8 DEF DataInv
<1> QED BY Zenon, <1>5, <1>6

\* ideintr() takes the data of a read from the disk, or ends a write.
LEMMA IntrData == ASSUME Inv, DataInv, ideintr(TRUE) PROVE DataInv'
<1> USE DEF Inv
<1> DEFINE b == Head(idequeue)
<1>1. /\ irq /\ irq' = FALSE /\ b \in Buf /\ blockno[b] \in Block
      /\ \A a \in Buf : valid'[a] = IF a = b THEN TRUE ELSE valid[a]
      /\ \A a \in Buf : dirty'[a] = IF a = b THEN FALSE ELSE dirty[a]
      /\ \A a \in Buf : a # b => data'[a] = data[a]
      /\ data'[b] = IF ~dirty[b] THEN disk[blockno[b]] ELSE data[b]
      /\ UNCHANGED <<blockno, disk, latest>>
  BY ZenonT(60), IdeintrEffect
<1>2. data'[b] = latest[blockno[b]] /\ disk[blockno[b]] = latest[blockno[b]]
  <2>1. CASE dirty[b] BY Zenon, <1>1, <2>1 DEF DataInv, FlagInv
  <2>2. CASE ~dirty[b] BY Zenon, <1>1, <2>2 DEF DataInv
  <2> QED BY Zenon, <2>1, <2>2
<1> HIDE DEF b
<1>3. \A a \in Buf : valid'[a] => data'[a] = latest'[blockno'[a]] BY ZenonT(60), <1>1, <1>2 DEF DataInv
<1>4. \A a \in Buf : blockno'[a] \in Block /\ ~dirty'[a] => disk'[blockno'[a]] = latest'[blockno'[a]]
  BY Zenon, <1>1, <1>2 DEF DataInv
<1>5. \A k \in Block : (\A a \in Buf : blockno'[a] # k) => disk'[k] = latest'[k]
  BY Zenon, <1>1 DEF DataInv
<1> QED BY Zenon, <1>1, <1>3, <1>4, <1>5 DEF DataInv

\* Every step keeps the data of the buffers right, with a disk that does not fail.
LEMMA NextData == NoErrors /\ Inv /\ DataInv /\ [Next]_vars => DataInv'
<1> SUFFICES ASSUME NoErrors, Inv, DataInv, [Next]_vars PROVE DataInv' BY Zenon
<1>1. CASE UNCHANGED vars BY Zenon, <1>1, SameData DEF vars, cache, hardware
<1>2. CASE disk_done BY Zenon, <1>2, DiskData
<1>3. ASSUME NEW ok \in Outcomes, ideintr(ok) PROVE DataInv'
  <2>1. ok = TRUE BY Zenon DEF NoErrors
  <2> QED BY Zenon, <1>3, <2>1, IntrData
<1>4. ASSUME NEW p \in Proc, bget(p) PROVE DataInv'
  <2>1. /\ pc[p] = "bget" /\ UNCHANGED <<lru, idequeue, disk, ide, irq, want, latest>>
        /\ \/ UNCHANGED <<blockno, busy, valid, dirty, data>>
           \/ \E b \in Buf, v \in BOOLEAN : Take(p, b, v)
    BY Zenon, <1>4, BgetCases
  <2>2. CASE UNCHANGED <<blockno, busy, valid, dirty, data>> BY Zenon, <2>1, <2>2, SameData
  <2>3. ASSUME NEW b \in Buf, NEW v \in BOOLEAN, Take(p, b, v) PROVE DataInv'
    <3>1. want[p] \in Block BY Zenon, <2>1 DEF Inv, UseInv
    <3> QED BY Zenon, <2>1, <2>3, <3>1, TakeData
  <2> QED BY Zenon, <2>1, <2>2, <2>3
<1>5. ASSUME NEW p \in Proc, iderw(p) PROVE DataInv'
  <2>1. /\ UNCHANGED <<blockno, valid, dirty, data, disk, latest, irq>>
        /\ idequeue' = idequeue \/ idequeue' = Append(idequeue, bp[p])
    BY Zenon, <1>5 DEF iderw, cache
  <2>2. bp[p] \in Buf BY Zenon, <1>5 DEF iderw, Inv, UseInv, Holds
  <2>3. irq => idequeue # <<>> /\ idequeue \in Seq(Buf) BY Zenon DEF Inv, QueueInv, TypeOK
  <2>4. irq => Head(idequeue') = Head(idequeue) BY SMTT(30), <2>1, <2>2, <2>3
  <2> QED BY Zenon, <2>1, <2>4, SameData
<1>6. ASSUME NEW p \in Proc, iderw_wait(p) \/ brelse(p) \/ \E k \in Block : bread(p, k) PROVE DataInv'
  BY Zenon, <1>6, SameData DEF iderw_wait, brelse, bread, cache, hardware
<1>7. ASSUME NEW p \in Proc, NEW x \in Val, log_write(p, x) \/ bwrite(p, x) PROVE DataInv'
  BY Zenon, <1>7, WriteData DEF log_write, bwrite, hardware
<1> QED BY ZenonT(60), <1>1, <1>2, <1>3, <1>4, <1>5, <1>6, <1>7 DEF Next, Disk, Step

\* With a disk that makes no errors, what bread() returns is what was last written to the
\* block by log_write() or bwrite(), and a block that is in no buffer is up to date on the
\* disk: bget() recycles no buffer whose contents the disk does not have.
THEOREM ReadsAreLatest == ASSUME NoErrors PROVE Spec => []ReadsLatest
<1>1. Init => DataInv BY Zenon, BcacheAssumption DEF Init, DataInv
<1>2. Inv /\ DataInv => ReadsLatest
  <2> SUFFICES ASSUME Inv, DataInv PROVE ReadsLatest BY Zenon
  <2>1. ASSUME NEW p \in Proc, pc[p] = "hold"
        PROVE  blockno[bp[p]] = want[p] /\ data[bp[p]] = latest[want[p]]
    <3>1. bp[p] \in Buf /\ blockno[bp[p]] = want[p] BY Zenon, <2>1 DEF Inv, UseInv, Holds
    <3>2. valid[bp[p]] BY Zenon, <2>1 DEF Inv, FlagInv
    <3> QED BY ZenonT(60), <3>1, <3>2 DEF DataInv
  <2> QED BY Zenon, <2>1 DEF DataInv, ReadsLatest
<1>3. Inv /\ DataInv /\ [Next]_vars => (Inv /\ DataInv)' BY Zenon, NextInv, NextData
<1> QED BY <1>1, <1>2, <1>3, InitInv, PTL DEF Spec
=============================================================================
