----------------------------- MODULE LogProofs ------------------------------
(***************************************************************************)
(* Proofs about Log, for every value of the constants that satisfies       *)
(* OpsFit: an inductive invariant, in parts for types and control, for the *)
(* space in the log, for the header, the log blocks and their home blocks, *)
(* and for the buffer cache; and what follows from it: the safety theorems,*)
(* that home blocks are written only from a committed log, and that Log    *)
(* implements AtomicDisk: a crash keeps exactly the committed transactions.*)
(***************************************************************************)
EXTENDS Log, TLAPS, FiniteSetTheorems

-----------------------------------------------------------------------------
(* Types, control, and the space in the log.                               *)

InOp == {p \in Proc : pc[p] \in {"op", "log_write"}}
Committing == {"write_log", "write_head", "install", "clear", "committed"}
Slack == MAXOPBLOCKS - OpBlocks

\* The blocks the running operations may still log, one token for each.
Credit == {t \in InOp \X (1 .. OpBlocks) : t[2] > Cardinality(wrote[t[1]])}

\* begin_op()'s reservation covers what is logged and what may still be.
SpaceInv ==
  /\ IsFiniteSet(InOp) /\ outstanding = Cardinality(InOp)
  /\ \A p \in Proc : IsFiniteSet(wrote[p]) /\ Cardinality(wrote[p]) <= OpBlocks
  /\ \A p \in Proc : wrote[p] \subseteq Range(lh) \/ p \notin InOp
  /\ \A p \in Proc : pc[p] = "log_write" =>
       buf[p] \in wrote[p] \/ Cardinality(wrote[p]) < OpBlocks
  /\ InOp # {} => Len(lh) + Cardinality(Credit) + outstanding * Slack <= LOGSIZE
  /\ Len(lh) <= NLOG - 1 /\ Len(head) <= NLOG - 1

\* Who may be where: one committer, and no operation while it commits.
ControlInv ==
  /\ \A p \in Proc : pc[p] # "panic"
  /\ \A p \in Proc : pc[p] \in Committing => committing /\ InOp = {}
  /\ \A p, q \in Proc : pc[p] \in Committing /\ pc[q] \in Committing => p = q
  /\ committing => \E p \in Proc : pc[p] \in Committing
  /\ boot # "run" => ~committing /\ \A p \in Proc : pc[p] = "idle"
  /\ \A p \in Proc : buf[p] # NoBlk <=> pc[p] = "log_write"
  /\ \A p, q \in Proc : buf[p] = buf[q] /\ buf[p] # NoBlk => p = q
  /\ boot = "run" /\ InOp = {} /\ ~committing => lh = <<>>

Distinct(s) == \A i, j \in 1 .. Len(s) : s[i] = s[j] => i = j

\* The two headers, and how far the loops of commit() and recovery have come.
HeaderInv ==
  /\ Distinct(lh) /\ Distinct(head)
  /\ boot = "run" /\ (\A p \in Proc : pc[p] \notin {"install", "clear"}) => head = <<>>
  /\ boot = "read_head" => lh = <<>>
  /\ boot \in {"install", "clear"} => lh = head
  /\ boot = "install" => tail < Len(lh) /\ \A i \in 1 .. tail : disk[lh[i]] = disk[i]
  /\ boot = "clear" => \A i \in 1 .. Len(lh) : disk[lh[i]] = disk[i]
  /\ \A p \in Proc :
       /\ pc[p] = "write_log" => tail < Len(lh) /\ \A i \in 1 .. tail : disk[i] = cache[lh[i]]
       /\ pc[p] = "write_head" => lh # <<>> /\ \A i \in 1 .. Len(lh) : disk[i] = cache[lh[i]]
       /\ pc[p] = "install" => \A i \in tail + 1 .. Len(lh) : disk[i] = cache[lh[i]]
       /\ pc[p] \in {"install", "clear"} => head = lh
       /\ pc[p] = "install" => tail < Len(lh) /\ \A i \in 1 .. tail : disk[lh[i]] = disk[i]
       /\ pc[p] = "clear" => \A i \in 1 .. Len(lh) : disk[lh[i]] = disk[i]
       /\ pc[p] = "committed" => lh = <<>>

\* B_DIRTY pins exactly the logged blocks not yet installed, and every other
\* cached block that is not in use is a copy of the disk.
CacheInv ==
  /\ dirty \subseteq Range(lh)
  /\ boot # "run" => dirty = {}
  /\ boot = "run" /\ (\A p \in Proc : pc[p] \notin {"install", "clear"}) => dirty = Range(lh)
  /\ \A p \in Proc : pc[p] = "install" => dirty = {lh[i] : i \in tail + 1 .. Len(lh)}
  /\ \A p \in Proc : pc[p] = "clear" => dirty = {}
  /\ \A b \in dirty : cache[b] # NoBlk
  /\ \A p \in Proc : buf[p] # NoBlk => cache[buf[p]] # NoBlk
  /\ \A b \in Home : b \notin dirty /\ (\A p \in Proc : buf[p] # b) =>
       cache[b] \in {NoBlk, disk[b]}

Inv == OpsFit /\ TypeOK /\ SpaceInv /\ ControlInv /\ HeaderInv /\ CacheInv

-----------------------------------------------------------------------------
(* Elementary facts.                                                       *)

\* The indices of a sequence.
LEMMA SeqDomain == ASSUME NEW S, NEW s \in Seq(S) PROVE DOMAIN s = 1 .. Len(s)
OBVIOUS

\* The log area and the blocks of the file system are apart.
LEMMA LogBlkNotHome == \A i \in LogBlk : i \notin Home
  BY SMTT(30), ConstantsAssumption DEF LogBlk

\* An operation that runs is counted.
LEMMA OutstandingPos ==
  ASSUME TypeOK, SpaceInv, NEW p \in Proc, p \in InOp
  PROVE  outstanding \in Nat \ {0}
BY Zenon, FS_EmptySet, FS_CardinalityType DEF SpaceInv

\* Iteration tail of install_trans() or write_log() copies between a block of
\* the log area and a block of the file system.
LEMMA TailInRange ==
  ASSUME Inv, boot = "install" \/ \E p \in Proc : pc[p] \in {"install", "write_log"}
  PROVE  /\ tail + 1 \in 1 .. Len(lh) /\ lh[tail + 1] \in Home
         /\ tail + 1 \in LogBlk /\ tail + 1 \notin Home
         /\ Bread(tail + 1) = disk[tail + 1] /\ disk[tail + 1] \in Val
<1> USE DEF Inv
<1>1. tail \in Nat /\ tail < Len(lh) /\ lh \in Seq(Home) BY Zenon DEF TypeOK, HeaderInv
<1>2. tail + 1 \in 1 .. Len(lh) /\ lh[tail + 1] \in Home BY SMTT(30), <1>1
<1>3. tail + 1 \in LogBlk BY SMTT(30), <1>1, ConstantsAssumption DEF SpaceInv, LogBlk
<1>4. tail + 1 \notin Home BY Zenon, <1>3, LogBlkNotHome
<1>5. disk[tail + 1] \in Val BY Zenon, <1>3 DEF TypeOK
<1> QED BY Zenon, <1>2, <1>3, <1>4, <1>5 DEF Bread

\* bread() of a block of the file system returns the contents of a block.
LEMMA BreadType == ASSUME TypeOK, NEW b \in Home PROVE Bread(b) \in Val
BY Zenon DEF TypeOK, Bread

\* bwrite() keeps the types of the disk and the cache.
LEMMA BwriteType ==
  ASSUME TypeOK, NEW a \in LogBlk \cup Home, NEW v \in Val, Bwrite(a, v)
  PROVE  /\ disk' \in [LogBlk \cup Home -> Val]
         /\ cache' \in [Home -> Val \cup {NoBlk}] /\ dirty' \subseteq Home
BY Zenon DEF TypeOK, Bwrite

\* Every step keeps the types.
LEMMA TypeStep == ASSUME Inv, [Next]_vars PROVE TypeOK'
<1> USE DEF Inv
<1>1. CASE read_head BY Zenon, <1>1 DEF read_head, procs, TypeOK
<1>2. CASE recover_install
  <2>1. InstallOne /\ boot' \in {"install", "clear"} /\ tail' \in Nat
    BY SMTT(30), <1>2 DEF recover_install, InstallOne, TypeOK
  <2>2. Bwrite(lh[tail + 1], disk[tail + 1])
    BY Zenon, <2>1, <1>2, TailInRange DEF InstallOne, recover_install
  <2> QED BY Zenon, <1>2, <2>1, <2>2, TailInRange, BwriteType DEF recover_install, TypeOK, procs
<1>3. CASE recover_clear BY SMTT(30), <1>3 DEF recover_clear, procs, TypeOK
<1>4. CASE \E p \in Proc : begin_op(p)
  <2>1. wrote' \in [Proc -> SUBSET Home] BY Zenon, <1>4 DEF begin_op, TypeOK
  <2> QED BY SMTT(30), <1>4, <2>1 DEF begin_op, TypeOK
<1>5. CASE \E p \in Proc, b \in Home, v \in Val : log_write_enter(p, b, v)
  BY SMTT(30), <1>5 DEF log_write_enter, TypeOK
<1>6. CASE \E p \in Proc : log_write(p)
  <2> PICK p \in Proc : log_write(p) BY Zenon, <1>6
  <2>1. buf[p] \in Home BY Zenon DEF log_write, ControlInv, TypeOK
  <2>2. lh' \in Seq(Home) BY SMTT(30), <2>1 DEF log_write, Absorb, TypeOK
  <2> QED BY Zenon, <2>1, <2>2 DEF log_write, TypeOK
<1>7. CASE \E p \in Proc : end_op(p)
  <2> PICK p \in Proc : end_op(p) BY Zenon, <1>7
  <2>1. p \in InOp BY Zenon DEF end_op, InOp
  <2>2. outstanding' \in Nat BY SMTT(30), <2>1, OutstandingPos DEF end_op
  <2>3. pc' \in [Proc -> {"idle", "asleep", "woken", "op", "log_write", "panic",
                  "write_log", "write_head", "install", "clear", "committed"}]
    BY Zenon DEF end_op, Wakeup, TypeOK
  <2> QED BY Zenon, <2>2, <2>3, Zenon DEF end_op, TypeOK
<1>8. CASE \E p \in Proc : write_log(p)
  <2> PICK p \in Proc : write_log(p) BY Zenon, <1>8
  <2>1. pc[p] = "write_log" /\ Bwrite(tail + 1, Bread(lh[tail + 1])) BY Zenon DEF write_log
  <2> QED BY SMTT(30), <2>1, TailInRange, BreadType, BwriteType DEF write_log, TypeOK
<1>9. CASE \E p \in Proc : write_head(p) BY SMTT(30), <1>9 DEF write_head, memory, TypeOK
<1>10. CASE \E p \in Proc : install_trans(p)
  <2> PICK p \in Proc : install_trans(p) BY Zenon, <1>10
  <2>1. Bwrite(lh[tail + 1], disk[tail + 1])
    BY Zenon, TailInRange DEF InstallOne, install_trans
  <2>2. pc[p] = "install" /\ tail' = tail + 1 BY Zenon DEF install_trans, InstallOne
  <2> QED BY SMTT(30), <2>1, <2>2, TailInRange, BwriteType DEF install_trans, TypeOK
<1>11. CASE \E p \in Proc : clear_head(p) BY SMTT(30), <1>11 DEF clear_head, TypeOK
<1>12. CASE \E p \in Proc : end_commit(p) BY Zenon, <1>12, Zenon DEF end_commit, Wakeup, TypeOK
<1>13. CASE \E b \in Home : bread(b) BY ZenonT(60), <1>13 DEF bread, procs, TypeOK
<1>14. CASE \E b \in Home : recycle(b) BY Zenon, <1>14 DEF recycle, procs, TypeOK
<1>15. CASE crash
  <2>1. lh' \in Seq(Home) /\ wrote' \in [Proc -> SUBSET Home] BY SMTT(30), <1>15 DEF crash
  <2> QED BY <1>15, <2>1, Zenon DEF crash, TypeOK
<1>16. CASE UNCHANGED vars BY Zenon, <1>16 DEF vars, TypeOK
<1> QED
  BY Zenon, <1>1, <1>2, <1>3, <1>4, <1>5, <1>6, <1>7, <1>8, <1>9, <1>10, <1>11, <1>12,
     <1>13, <1>14, <1>15, <1>16 DEF Next, Run, Recover, Op, Commit, Cache

\* What log_write() does to the header when it appends a block number.
LEMMA RangeAppend ==
  ASSUME NEW s \in Seq(Home), NEW b \in Home
  PROVE  /\ Range(s) = {s[i] : i \in 1 .. Len(s)}
         /\ Append(s, b) \in Seq(Home) /\ Len(Append(s, b)) = Len(s) + 1
         /\ Range(Append(s, b)) = Range(s) \cup {b}
         /\ \A i \in 1 .. Len(s) : Append(s, b)[i] = s[i]
         /\ Append(s, b)[Len(s) + 1] = b
<1> DEFINE t == Append(s, b)
<1>1. /\ t \in Seq(Home) /\ Len(t) = Len(s) + 1 /\ Len(s) \in Nat
      /\ DOMAIN t = 1 .. Len(s) + 1 /\ DOMAIN s = 1 .. Len(s)
      /\ \A i \in 1 .. Len(s) : t[i] = s[i]
      /\ t[Len(s) + 1] = b
  OBVIOUS
<1>2. 1 .. Len(s) + 1 = (1 .. Len(s)) \cup {Len(s) + 1} BY SMTT(30), <1>1
<1>3. Range(t) = {t[i] : i \in (1 .. Len(s)) \cup {Len(s) + 1}} BY Zenon, <1>1, <1>2 DEF Range
<1>4. Range(s) = {s[i] : i \in 1 .. Len(s)} BY Zenon, <1>1 DEF Range
<1> HIDE DEF t
<1>5. Range(t) = Range(s) \cup {b} BY Zenon, <1>1, <1>3, <1>4
<1> QED BY Zenon, <1>1, <1>4, <1>5 DEF t

-----------------------------------------------------------------------------
(* Control: panics, the committer, the holders of buffers.                 *)

\* A set of tokens, at most OpBlocks for each operation of a finite set.
LEMMA Tokens ==
  ASSUME NEW S, IsFiniteSet(S), NEW T \in SUBSET (S \X (1 .. OpBlocks))
  PROVE  /\ IsFiniteSet(T) /\ Cardinality(T) \in Nat
         /\ Cardinality(S) \in Nat /\ Cardinality(T) <= Cardinality(S) * OpBlocks
<1>1. IsFiniteSet(1 .. OpBlocks) /\ Cardinality(1 .. OpBlocks) = OpBlocks
  BY SMTT(30), FS_Interval, ConstantsAssumption
<1>2. /\ IsFiniteSet(S \X (1 .. OpBlocks))
      /\ Cardinality(S \X (1 .. OpBlocks)) = Cardinality(S) * OpBlocks
  BY <1>1, FS_Product, Zenon
<1>3. IsFiniteSet(T) /\ Cardinality(T) <= Cardinality(S \X (1 .. OpBlocks))
  BY Zenon, <1>2, FS_Subset
<1> QED BY Zenon, <1>2, <1>3, FS_CardinalityType

\* An operation never meets a full log.
LEMMA RoomToWrite ==
  ASSUME Inv, NEW p \in Proc, p \in InOp
  PROVE  Len(lh) < LOGSIZE /\ Len(lh) < NLOG - 1 /\ outstanding >= 1
<1> USE DEF Inv
<1>1. outstanding \in Nat /\ outstanding >= 1 BY SMTT(30), OutstandingPos
<1>2. Slack \in Nat /\ Slack >= 1 BY SMTT(30), ConstantsAssumption DEF OpsFit, Slack
<1>3. outstanding * Slack >= Slack /\ outstanding * Slack \in Nat BY SMTT(30), <1>1, <1>2
<1>4. Cardinality(Credit) \in Nat
  <2>1. Credit \in SUBSET (InOp \X (1 .. OpBlocks)) BY Zenon DEF Credit
  <2> QED BY Zenon, <2>1, Tokens DEF SpaceInv
<1>5. Len(lh) \in Nat BY SMTT(30) DEF TypeOK
<1>6. Len(lh) + Cardinality(Credit) + outstanding * Slack <= LOGSIZE BY Zenon DEF SpaceInv
<1> HIDE DEF Inv
<1>7. LOGSIZE \in Nat /\ NLOG \in Nat BY Zenon, ConstantsAssumption
<1>8. LOGSIZE - Slack < NLOG - 1 BY Zenon DEF Inv, OpsFit, Slack
<1> QED BY SMTT(30), <1>1, <1>2, <1>3, <1>4, <1>5, <1>6, <1>7, <1>8

\* end_op() takes its process out of the counted operations.
LEMMA EndOpCount ==
  ASSUME Inv, NEW p \in Proc, end_op(p)
  PROVE  /\ ~committing /\ p \in InOp /\ InOp' = InOp \ {p} /\ IsFiniteSet(InOp')
         /\ outstanding' = Cardinality(InOp') /\ (outstanding' = 0 <=> InOp' = {})
<1> USE DEF Inv
<1>1. p \in InOp BY Zenon DEF end_op, InOp
<1>2. ~committing BY Zenon, <1>1 DEF ControlInv
<1>3. InOp' = InOp \ {p}
  BY Zenon, <1>2 DEF end_op, InOp, Wakeup, TypeOK
<1>4. IsFiniteSet(InOp') /\ Cardinality(InOp') = outstanding - 1
  BY Zenon, <1>1, <1>3, FS_RemoveElement DEF SpaceInv
<1>5. outstanding' = outstanding - 1 BY Zenon DEF end_op
<1> QED BY Zenon, <1>1, <1>2, <1>3, <1>4, <1>5, FS_EmptySet, Zenon

\* Every step keeps one committer and no operation beside it.
LEMMA ControlStep == ASSUME Inv, [Next]_vars PROVE ControlInv'
<1> USE DEF Inv
<1>1. CASE read_head BY Zenon, <1>1 DEF read_head, procs, TypeOK, ControlInv, InOp
<1>2. CASE recover_install
  BY Zenon, <1>2 DEF recover_install, InstallOne, procs, TypeOK, ControlInv, InOp
<1>3. CASE recover_clear BY Zenon, <1>3 DEF recover_clear, procs, TypeOK, ControlInv, InOp, Committing
<1>4. CASE \E p \in Proc : begin_op(p)
  BY SMTT(30), <1>4 DEF begin_op, MustWait, TypeOK, ControlInv, InOp, Committing
<1>5. CASE \E p \in Proc, b \in Home, v \in Val : log_write_enter(p, b, v)
  <2> PICK p \in Proc, b \in Home, v \in Val : log_write_enter(p, b, v) BY Zenon, <1>5
  <2>1. p \in InOp BY Zenon DEF log_write_enter, InOp
  <2>2. pc' = [pc EXCEPT ![p] = "log_write"]
    <3>1. ~(Len(lh) >= LOGSIZE \/ Len(lh) >= NLOG - 1 \/ outstanding < 1)
      BY SMTT(30), <2>1, RoomToWrite, ConstantsAssumption DEF TypeOK
    <3> QED BY Zenon, <3>1 DEF log_write_enter
  <2>3. InOp' = InOp BY Zenon, <2>2, <2>1 DEF InOp, TypeOK
  <2> QED BY SMTT(30), <2>1, <2>2, <2>3, ConstantsAssumption
       DEF log_write_enter, ControlInv, TypeOK, Committing
<1>6. CASE \E p \in Proc : log_write(p)
  <2> PICK p \in Proc : log_write(p) BY Zenon, <1>6
  <2>1. p \in InOp BY Zenon DEF log_write, InOp
  <2>2. InOp' = InOp BY Zenon DEF log_write, InOp, TypeOK
  <2> QED BY ZenonT(60), <2>1, <2>2, ConstantsAssumption DEF log_write, ControlInv, TypeOK, Committing
<1>7. CASE \E p \in Proc : end_op(p)
  <2> PICK p \in Proc : end_op(p) BY Zenon, <1>7
  <2>1. CASE outstanding' = 0
    <3>1. InOp' = {} /\ committing' /\ ~committing /\ UNCHANGED <<boot, buf, lh>>
      BY <2>1, EndOpCount, Zenon DEF end_op
    <3>2. /\ pc[p] = "op" /\ pc'[p] \in {"write_log", "committed"}
          /\ \A q \in Proc : q # p => pc'[q] = pc[q]
      BY Zenon, <2>1, <3>1, Zenon DEF end_op, TypeOK
    <3> QED BY Zenon, <3>1, <3>2 DEF ControlInv, Committing
  <2>2. CASE outstanding' # 0
    <3>1. InOp' # {} /\ ~committing /\ UNCHANGED <<committing, boot, buf, lh>> /\ pc[p] = "op"
      BY Zenon, <2>2, EndOpCount DEF end_op
    <3>2. \A q \in Proc : pc'[q] = IF q = p THEN "idle"
                                   ELSE IF pc[q] = "asleep" THEN "woken" ELSE pc[q]
      BY Zenon, <2>2, <3>1 DEF end_op, Wakeup, TypeOK
    <3> QED BY ZenonT(60), <3>1, <3>2 DEF ControlInv, Committing
  <2> QED BY ZenonT(60), <2>1, <2>2
<1>8. CASE \E p \in Proc : write_log(p)
  BY SMTT(30), <1>8 DEF write_log, ControlInv, TypeOK, Committing, InOp
<1>9. CASE \E p \in Proc : write_head(p)
  BY SMTT(30), <1>9 DEF write_head, memory, ControlInv, TypeOK, Committing, InOp
<1>10. CASE \E p \in Proc : install_trans(p)
  BY SMTT(30), <1>10 DEF install_trans, ControlInv, TypeOK, Committing, InOp
<1>11. CASE \E p \in Proc : clear_head(p)
  BY SMTT(30), <1>11 DEF clear_head, ControlInv, TypeOK, Committing, InOp
<1>12. CASE \E p \in Proc : end_commit(p)
  BY SMTT(30), <1>12 DEF end_commit, Wakeup, ControlInv, TypeOK, Committing, InOp, HeaderInv
<1>13. CASE \E b \in Home : bread(b) BY SMTT(30), <1>13 DEF bread, procs, TypeOK, ControlInv, InOp
<1>14. CASE \E b \in Home : recycle(b) BY SMTT(30), <1>14 DEF recycle, procs, TypeOK, ControlInv, InOp
<1>15. CASE crash BY Zenon, <1>15 DEF crash, ControlInv, InOp, Committing
<1>16. CASE UNCHANGED vars BY Zenon, <1>16 DEF vars, ControlInv, InOp
<1> QED
  BY ZenonT(60), <1>1, <1>2, <1>3, <1>4, <1>5, <1>6, <1>7, <1>8, <1>9, <1>10, <1>11, <1>12,
     <1>13, <1>14, <1>15, <1>16 DEF Next, Run, Recover, Op, Commit, Cache

-----------------------------------------------------------------------------
(* Log space.                                                              *)

\* A step that neither starts, ends nor writes in an operation.
LEMMA SpaceFrame ==
  ASSUME Inv, InOp' = InOp, UNCHANGED <<wrote, outstanding, buf>>,
         InOp = {} \/ UNCHANGED lh, lh' \in {lh, head, <<>>}, head' \in {head, lh, <<>>},
         \A p \in Proc : pc'[p] = "log_write" => pc[p] = "log_write"
  PROVE  SpaceInv'
<1> USE DEF Inv
<1>1. Len(lh') <= NLOG - 1 /\ Len(head') <= NLOG - 1
  BY SMTT(30), ConstantsAssumption DEF SpaceInv, TypeOK
<1>2. CASE InOp = {} BY <1>1, <1>2, Zenon DEF SpaceInv, InOp
<1>3. CASE InOp # {}
  <2>1. Credit' = Credit BY Zenon DEF Credit
  <2> QED BY Zenon, <1>1, <1>3, <2>1 DEF SpaceInv
<1> QED BY Zenon, <1>2, <1>3

\* begin_op() hands out a reservation only when the log has room for it.
LEMMA SpaceBegin ==
  ASSUME Inv, NEW p \in Proc, begin_op(p), ~MustWait
  PROVE  SpaceInv'
<1> USE DEF Inv
<1>1. p \notin InOp /\ InOp' = InOp \cup {p} BY ZenonT(60) DEF begin_op, InOp, TypeOK
<1>2. IsFiniteSet(InOp') /\ Cardinality(InOp') = outstanding + 1 /\ outstanding \in Nat
  BY Zenon, <1>1, FS_AddElement, FS_CardinalityType DEF SpaceInv
<1>3. outstanding' = outstanding + 1 /\ wrote' = [wrote EXCEPT ![p] = {}]
  BY Zenon DEF begin_op
<1>4. \A q \in Proc : /\ IsFiniteSet(wrote'[q]) /\ Cardinality(wrote'[q]) <= OpBlocks
                      /\ wrote'[q] \subseteq Range(lh') \/ q \notin InOp'
                      /\ pc'[q] = "log_write" => pc[q] = "log_write" /\ q # p
  BY SMTT(30), <1>1, <1>3, FS_EmptySet, ConstantsAssumption DEF SpaceInv, TypeOK, begin_op
<1>5. Credit' \in SUBSET (InOp' \X (1 .. OpBlocks)) BY Zenon DEF Credit
<1>6. Cardinality(Credit') \in Nat /\ Cardinality(Credit') <= (outstanding + 1) * OpBlocks
  BY Zenon, <1>2, <1>5, Tokens
<1>7. Len(lh) + (outstanding + 1) * MAXOPBLOCKS <= LOGSIZE
  BY SMTT(30), ConstantsAssumption, <1>2 DEF MustWait, TypeOK
<1>8. (outstanding + 1) * MAXOPBLOCKS = (outstanding + 1) * OpBlocks + (outstanding + 1) * Slack
  <2> DEFINE o == outstanding + 1
  <2>1. o \in Nat /\ OpBlocks \in Nat /\ Slack \in Nat /\ MAXOPBLOCKS = OpBlocks + Slack
    BY SMTT(30), <1>2, ConstantsAssumption DEF Slack, OpsFit
  <2> HIDE DEF o
  <2>2. o * (OpBlocks + Slack) = o * OpBlocks + o * Slack BY SMTT(30), <2>1
  <2> QED BY Zenon, <2>1, <2>2 DEF o
<1>9. Len(lh') + Cardinality(Credit') + outstanding' * Slack <= LOGSIZE
  <2> DEFINE a == (outstanding + 1) * OpBlocks
             b == (outstanding + 1) * Slack
             c == (outstanding + 1) * MAXOPBLOCKS
  <2>1. a \in Nat /\ b \in Nat /\ c \in Nat
    BY SMTT(30), <1>2, ConstantsAssumption DEF Slack, OpsFit
  <2>2. Len(lh) + c <= LOGSIZE /\ c = a + b /\ Cardinality(Credit') <= a BY Zenon, <1>6, <1>7, <1>8
  <2>3. Len(lh) \in Nat /\ LOGSIZE \in Nat BY SMTT(30), ConstantsAssumption DEF TypeOK
  <2>4. lh' = lh /\ outstanding' * Slack = b BY Zenon, <1>3 DEF begin_op
  <2> HIDE DEF a, b, c
  <2> QED BY SMTT(30), <1>6, <2>1, <2>2, <2>3, <2>4
<1> QED BY Zenon, <1>2, <1>3, <1>4, <1>9 DEF SpaceInv, begin_op, TypeOK

\* log_write() uses up one token of its operation for each slot it fills.
LEMMA SpaceLogWrite ==
  ASSUME Inv, NEW p \in Proc, log_write(p)
  PROVE  SpaceInv'
<1> USE DEF Inv
<1> DEFINE b == buf[p]
           n == Cardinality(wrote[p])
<1>1. p \in InOp /\ InOp' = InOp BY Zenon DEF log_write, InOp, TypeOK
<1>2. /\ wrote' = [wrote EXCEPT ![p] = wrote[p] \cup {b}]
      /\ UNCHANGED <<head, outstanding>>
      /\ \A q \in Proc : q # p => buf'[q] = buf[q] /\ pc'[q] = pc[q]
      /\ pc'[p] = "op"
  BY Zenon DEF log_write, TypeOK
<1>3. b \in Home /\ (b \in wrote[p] \/ n < OpBlocks)
  BY Zenon DEF log_write, SpaceInv, ControlInv, TypeOK
<1>4. n \in Nat /\ IsFiniteSet(wrote'[p])
      /\ Cardinality(wrote'[p]) = (IF b \in wrote[p] THEN n ELSE n + 1)
  BY ZenonT(60), <1>2, FS_AddElement, FS_CardinalityType, Zenon DEF SpaceInv, TypeOK
<1>5. Cardinality(wrote'[p]) <= OpBlocks
  BY SMTT(30), <1>3, <1>4, ConstantsAssumption DEF SpaceInv
<1>6. \A q \in Proc : q # p => wrote'[q] = wrote[q] BY Zenon, <1>2 DEF TypeOK
<1>7. /\ Range(lh') = Range(lh) \cup {b} /\ lh' \in Seq(Home)
      /\ Len(lh') = (IF b \in Range(lh) THEN Len(lh) ELSE Len(lh) + 1)
  <2>1. CASE b \in Range(lh) BY Zenon, <2>1 DEF log_write, Absorb, TypeOK
  <2>2. CASE b \notin Range(lh)
    <3>1. lh' = Append(lh, b) BY ZenonT(60), <2>2 DEF log_write, Absorb
    <3> QED BY Zenon, <1>3, <2>2, <3>1, RangeAppend DEF TypeOK
  <2> QED BY Zenon, <2>1, <2>2
<1>8. Credit' \subseteq Credit
  <2>1. \A q \in Proc : q # p => Cardinality(wrote'[q]) = Cardinality(wrote[q]) BY Zenon, <1>6
  <2>2. Cardinality(wrote'[p]) \in Nat /\ Cardinality(wrote'[p]) >= Cardinality(wrote[p])
    <3> HIDE DEF b
    <3> QED BY SMTT(30), <1>4
  <2>3. ASSUME NEW k \in 1 .. OpBlocks, k > Cardinality(wrote'[p]) PROVE k > Cardinality(wrote[p])
    BY SMTT(30), <1>4, <2>2, <2>3, ConstantsAssumption
  <2>4. InOp \subseteq Proc BY Zenon DEF InOp
  <2>5. ASSUME NEW q \in InOp, NEW k \in 1 .. OpBlocks, k > Cardinality(wrote'[q])
        PROVE  k > Cardinality(wrote[q])
    BY Zenon, <2>1, <2>3, <2>4, <2>5
  <2> QED BY Zenon, <1>1, <2>5 DEF Credit
<1>9. b \notin Range(lh) => Credit' \subseteq Credit \ {<<p, n + 1>>} /\ <<p, n + 1>> \in Credit
  <2> SUFFICES ASSUME b \notin Range(lh)
               PROVE  Credit' \subseteq Credit \ {<<p, n + 1>>} /\ <<p, n + 1>> \in Credit
    BY Zenon
  <2>1. b \notin wrote[p] BY Zenon, <1>1 DEF SpaceInv
  <2>2. n + 1 \in 1 .. OpBlocks /\ Cardinality(wrote'[p]) = n + 1
    BY SMTT(30), <1>3, <1>4, <2>1, ConstantsAssumption
  <2>3. <<p, n + 1>> \in Credit BY SMTT(30), <1>1, <1>4, <2>2 DEF Credit
  <2>4. <<p, n + 1>> \notin Credit' BY SMTT(30), <1>4, <2>2 DEF Credit
  <2> QED BY Zenon, <1>8, <2>3, <2>4
<1>10. IsFiniteSet(Credit) /\ Cardinality(Credit) \in Nat BY Zenon, Tokens DEF Credit, SpaceInv
<1>11. Cardinality(Credit') \in Nat /\ Cardinality(Credit') <= Cardinality(Credit)
  BY Zenon, <1>8, <1>10, FS_Subset, FS_CardinalityType
<1>12. b \notin Range(lh) => Cardinality(Credit') <= Cardinality(Credit) - 1
  <2> SUFFICES ASSUME b \notin Range(lh)
               PROVE  Cardinality(Credit') <= Cardinality(Credit) - 1
    BY Zenon
  <2> DEFINE C == Credit \ {<<p, n + 1>>}
  <2>1. IsFiniteSet(C) /\ Cardinality(C) = Cardinality(Credit) - 1
    BY ZenonT(60), <1>9, <1>10, FS_RemoveElement
  <2>2. Credit' \in SUBSET C BY Zenon, <1>9
  <2> HIDE DEF C
  <2> QED BY Zenon, <2>1, <2>2, FS_Subset
<1>13. Len(lh') + Cardinality(Credit') + outstanding' * Slack <= LOGSIZE
  <2> DEFINE s == outstanding * Slack
  <2>1. s \in Int BY SMTT(30), ConstantsAssumption DEF TypeOK, Slack, SpaceInv
  <2>2. Len(lh) + Cardinality(Credit) + s <= LOGSIZE BY Zenon, <1>1 DEF SpaceInv
  <2>3. outstanding' * Slack = s BY Zenon, <1>2
  <2>4. Len(lh) \in Nat /\ LOGSIZE \in Nat BY SMTT(30), ConstantsAssumption DEF TypeOK
  <2> HIDE DEF s, b, n
  <2> QED BY SMTT(30), <1>7, <1>10, <1>11, <1>12, <2>1, <2>2, <2>3, <2>4
<1>14. Len(lh') <= NLOG - 1 BY SMTT(30), <1>1, <1>7, RoomToWrite, ConstantsAssumption DEF TypeOK
<1>15. \A q \in Proc : wrote'[q] \subseteq Range(lh') \/ q \notin InOp'
  BY Zenon, <1>1, <1>2, <1>6, <1>7 DEF SpaceInv, TypeOK
<1> QED BY ZenonT(60), <1>1, <1>2, <1>4, <1>5, <1>6, <1>13, <1>14, <1>15, Zenon DEF SpaceInv

\* end_op() gives the unused part of its reservation back.
LEMMA SpaceEndOp ==
  ASSUME Inv, NEW p \in Proc, end_op(p)
  PROVE  SpaceInv'
<1> USE DEF Inv
<1>1. /\ InOp' = InOp \ {p} /\ IsFiniteSet(InOp') /\ outstanding' = Cardinality(InOp')
      /\ outstanding' = outstanding - 1 /\ outstanding' \in Nat
  BY Zenon, EndOpCount, FS_CardinalityType, Zenon DEF end_op
<1>2. /\ UNCHANGED <<wrote, lh, head, buf>>
      /\ \A q \in Proc : pc'[q] = "log_write" => pc[q] = "log_write"
  BY Zenon DEF end_op, Wakeup, TypeOK
<1>3. Credit' \in SUBSET Credit BY Zenon, <1>1, <1>2 DEF Credit
<1>4. IsFiniteSet(Credit) /\ Cardinality(Credit) \in Nat BY Zenon, Tokens DEF Credit, SpaceInv
<1>5. Cardinality(Credit') \in Nat /\ Cardinality(Credit') <= Cardinality(Credit)
  BY Zenon, <1>3, <1>4, FS_Subset, FS_CardinalityType
<1>6. Slack \in Nat BY SMTT(30), ConstantsAssumption DEF Slack, OpsFit
<1>7. outstanding * Slack = outstanding' * Slack + Slack /\ outstanding' * Slack \in Nat
  BY SMTT(30), <1>1, <1>6 DEF TypeOK
<1>8. Len(lh) + Cardinality(Credit) + outstanding * Slack <= LOGSIZE
  BY Zenon, EndOpCount DEF SpaceInv
<1>9. Len(lh) \in Nat /\ LOGSIZE \in Nat BY SMTT(30), ConstantsAssumption DEF TypeOK
<1>10. Len(lh') + Cardinality(Credit') + outstanding' * Slack <= LOGSIZE
  BY SMTT(30), <1>2, <1>4, <1>5, <1>6, <1>7, <1>8, <1>9
<1> QED BY Zenon, <1>1, <1>2, <1>10 DEF SpaceInv

\* Every step keeps the accounting of the log space.
LEMMA SpaceStep == ASSUME Inv, [Next]_vars PROVE SpaceInv'
<1> USE DEF Inv
<1>1. CASE read_head BY Zenon, <1>1, SpaceFrame DEF read_head, procs, InOp, ControlInv
<1>2. CASE recover_install BY Zenon, <1>2, SpaceFrame DEF recover_install, procs, InOp
<1>3. CASE recover_clear BY Zenon, <1>3, SpaceFrame DEF recover_clear, procs, InOp, ControlInv
<1>4. CASE \E p \in Proc : begin_op(p)
  <2> PICK p \in Proc : begin_op(p) BY Zenon, <1>4
  <2>1. CASE MustWait
    <3>1. UNCHANGED <<outstanding, wrote, lh, head, buf>> BY Zenon, <2>1 DEF begin_op
    <3>2. pc' = [pc EXCEPT ![p] = "asleep"] /\ pc[p] \in {"idle", "woken"}
      BY Zenon, <2>1 DEF begin_op
    <3>3. InOp' = InOp /\ \A q \in Proc : pc'[q] = "log_write" => pc[q] = "log_write"
      BY Zenon, <3>2 DEF InOp, TypeOK
    <3> QED BY Zenon, <3>1, <3>3, SpaceFrame
  <2> QED BY Zenon, <2>1, SpaceBegin
<1>5. CASE \E p \in Proc, b \in Home, v \in Val : log_write_enter(p, b, v)
  <2> PICK p \in Proc, b \in Home, v \in Val : log_write_enter(p, b, v) BY Zenon, <1>5
  <2>1. InOp' = InOp
    <3>1. p \in InOp BY Zenon DEF log_write_enter, InOp
    <3>2. ~(Len(lh) >= LOGSIZE \/ Len(lh) >= NLOG - 1 \/ outstanding < 1)
      BY SMTT(30), <3>1, RoomToWrite, ConstantsAssumption DEF TypeOK
    <3>3. pc' = [pc EXCEPT ![p] = "log_write"] BY Zenon, <3>2 DEF log_write_enter
    <3> QED BY ZenonT(60), <3>1, <3>3 DEF InOp, TypeOK
  <2>2. UNCHANGED <<outstanding, wrote, lh, head>> BY Zenon DEF log_write_enter
  <2>3. Credit' = Credit BY ZenonT(60), <2>1, <2>2 DEF Credit
  <2>4. \A q \in Proc : pc'[q] = "log_write" =>
          buf'[q] \in wrote'[q] \/ Cardinality(wrote'[q]) < OpBlocks
    BY Zenon, <2>2 DEF log_write_enter, SpaceInv, TypeOK
  <2> QED BY Zenon, <2>1, <2>2, <2>3, <2>4 DEF SpaceInv
<1>6. CASE \E p \in Proc : log_write(p) BY Zenon, <1>6, SpaceLogWrite
<1>7. CASE \E p \in Proc : end_op(p) BY Zenon, <1>7, SpaceEndOp
<1>8. CASE \E p \in Proc : write_log(p)
  BY Zenon, <1>8, SpaceFrame DEF write_log, InOp, TypeOK
<1>9. CASE \E p \in Proc : write_head(p)
  BY Zenon, <1>9, SpaceFrame DEF write_head, memory, InOp, TypeOK
<1>10. CASE \E p \in Proc : install_trans(p)
  BY Zenon, <1>10, SpaceFrame DEF install_trans, InOp, TypeOK
<1>11. CASE \E p \in Proc : clear_head(p)
  <2> PICK p \in Proc : clear_head(p) BY Zenon, <1>11
  <2>1. InOp = {} /\ InOp' = InOp BY Zenon DEF clear_head, InOp, TypeOK, ControlInv, Committing
  <2> QED BY Zenon, <2>1, SpaceFrame DEF clear_head, TypeOK
<1>12. CASE \E p \in Proc : end_commit(p)
  BY Zenon, <1>12, SpaceFrame DEF end_commit, Wakeup, InOp, TypeOK
<1>13. CASE \E b \in Home : bread(b) BY Zenon, <1>13, SpaceFrame DEF bread, procs, InOp
<1>14. CASE \E b \in Home : recycle(b) BY ZenonT(60), <1>14, SpaceFrame DEF recycle, procs, InOp
<1>15. CASE crash
  <2>1. InOp' = {} /\ Credit' = {} BY Zenon, <1>15 DEF crash, InOp, Credit
  <2> QED BY SMTT(30), <1>15, <2>1, FS_EmptySet, ConstantsAssumption DEF crash, SpaceInv
<1>16. CASE UNCHANGED vars BY Zenon, <1>16, SpaceFrame DEF vars, InOp
<1> QED
  BY ZenonT(60), <1>1, <1>2, <1>3, <1>4, <1>5, <1>6, <1>7, <1>8, <1>9, <1>10, <1>11, <1>12,
     <1>13, <1>14, <1>15, <1>16 DEF Next, Run, Recover, Op, Commit, Cache

-----------------------------------------------------------------------------
(* The header, the log blocks and their home blocks.                       *)

\* One iteration of install_trans() copies one log block to its home.
Installs ==
  /\ tail' = tail + 1 /\ tail + 1 \in 1 .. Len(lh) /\ tail \in Nat /\ Len(lh) \in Nat
  /\ \A i \in 1 .. Len(lh) : disk'[i] = disk[i] /\ i \notin Home /\ lh[i] \in Home
  /\ \A b \in Home : b # lh[tail + 1] => disk'[b] = disk[b] /\ cache'[b] = cache[b]
  /\ disk'[lh[tail + 1]] = disk[tail + 1] /\ cache'[lh[tail + 1]] = disk[tail + 1]
  /\ dirty' = dirty \ {lh[tail + 1]}
  /\ \A i \in 1 .. Len(lh) : lh[i] = lh[tail + 1] => i = tail + 1

\* The loops of commit() and of recovery have room for their iteration.
LEMMA InstallFacts ==
  ASSUME Inv, InstallOne, boot = "install" \/ \E p \in Proc : pc[p] = "install",
         UNCHANGED lh
  PROVE  Installs
<1> USE DEF Inv
<1>1. /\ tail + 1 \in 1 .. Len(lh) /\ lh[tail + 1] \in Home
      /\ Bread(tail + 1) = disk[tail + 1]
  BY Zenon, TailInRange
<1>2. Bwrite(lh[tail + 1], disk[tail + 1]) /\ tail' = tail + 1
  BY Zenon, <1>1 DEF InstallOne
<1>3. \A i \in 1 .. Len(lh) : i \in LogBlk /\ i \notin Home /\ lh[i] \in Home
  BY SMTT(30), LogBlkNotHome, ConstantsAssumption DEF LogBlk, SpaceInv, TypeOK
<1>4. \A i \in 1 .. Len(lh) : disk'[i] = disk[i]
  BY Zenon, <1>1, <1>2, <1>3 DEF Bwrite, TypeOK
<1>5. \A i \in 1 .. Len(lh) : lh[i] = lh[tail + 1] => i = tail + 1
  BY Zenon, <1>1 DEF HeaderInv, Distinct
<1>6. /\ \A b \in Home : b # lh[tail + 1] => disk'[b] = disk[b] /\ cache'[b] = cache[b]
      /\ disk'[lh[tail + 1]] = disk[tail + 1] /\ cache'[lh[tail + 1]] = disk[tail + 1]
      /\ dirty' = dirty \ {lh[tail + 1]}
  BY Zenon, <1>1, <1>2 DEF Bwrite, TypeOK
<1>7. tail \in Nat /\ Len(lh) \in Nat BY SMTT(30) DEF TypeOK
<1> QED BY Zenon, <1>1, <1>2, <1>3, <1>4, <1>5, <1>6, <1>7 DEF Installs

\* One iteration of write_log() copies one cached block to the log.
LEMMA WriteLogFacts ==
  ASSUME Inv, NEW p \in Proc, write_log(p)
  PROVE  /\ tail' = tail + 1 /\ tail + 1 \in 1 .. Len(lh) /\ tail \in Nat
         /\ cache' = cache /\ dirty' = dirty
         /\ \A b \in Home : disk'[b] = disk[b]
         /\ \A i \in LogBlk : i # tail + 1 => disk'[i] = disk[i]
         /\ disk'[tail + 1] = cache[lh[tail + 1]]
         /\ \A i \in 1 .. Len(lh) : i \in LogBlk /\ lh[i] \in Home
         /\ boot = "run" /\ dirty = Range(lh) /\ head = <<>>
<1> USE DEF Inv
<1>1. pc[p] = "write_log" BY Zenon DEF write_log
<1>2. /\ tail + 1 \in 1 .. Len(lh) /\ lh[tail + 1] \in Home
      /\ tail + 1 \in LogBlk /\ tail + 1 \notin Home
  BY Zenon, <1>1, TailInRange
<1>3. boot = "run" BY Zenon, <1>1 DEF ControlInv, TypeOK
<1>4. \A q \in Proc : pc[q] \notin {"install", "clear"}
  BY ZenonT(60), <1>1 DEF ControlInv, Committing
<1>5. dirty = Range(lh) /\ head = <<>> BY Zenon, <1>3, <1>4 DEF CacheInv, HeaderInv
<1>6. lh[tail + 1] \in Range(lh) BY SMTT(30), <1>2 DEF Range, TypeOK
<1>7. Bread(lh[tail + 1]) = cache[lh[tail + 1]]
  BY ZenonT(60), <1>2, <1>5, <1>6 DEF Bread, CacheInv
<1>8. Bwrite(tail + 1, cache[lh[tail + 1]]) /\ tail' = tail + 1
  BY Zenon, <1>7 DEF write_log
<1>9. cache' = cache /\ dirty' = dirty BY ZenonT(60), <1>2, <1>8 DEF Bwrite, TypeOK
<1>10. disk' = [disk EXCEPT ![tail + 1] = cache[lh[tail + 1]]] BY Zenon, <1>8 DEF Bwrite
<1>11. \A i \in 1 .. Len(lh) : i \in LogBlk /\ lh[i] \in Home
  BY SMTT(30), ConstantsAssumption DEF LogBlk, SpaceInv, TypeOK
<1> QED BY ZenonT(60), <1>2, <1>3, <1>5, <1>8, <1>9, <1>10, <1>11 DEF TypeOK

\* The logged blocks whose cached copy commit() still needs are pinned.
LEMMA CachedLog ==
  ASSUME Inv, NEW p \in Proc
  PROVE  /\ pc[p] = "write_log" => \A i \in 1 .. tail : lh[i] \in dirty
         /\ pc[p] = "write_head" => \A i \in 1 .. Len(lh) : lh[i] \in dirty
         /\ pc[p] = "install" => \A i \in tail + 1 .. Len(lh) : lh[i] \in dirty
         /\ \A i \in tail + 1 .. Len(lh) : i \in 1 .. Len(lh)
         /\ pc[p] = "write_log" => \A i \in 1 .. tail : i \in 1 .. Len(lh)
<1> USE DEF Inv
<1>1. Range(lh) = {lh[i] : i \in 1 .. Len(lh)} BY SMTT(30) DEF Range, TypeOK
<1>2. tail \in Nat /\ Len(lh) \in Nat BY SMTT(30) DEF TypeOK
<1>3. pc[p] \in {"write_log", "write_head"} => dirty = Range(lh)
  BY Zenon DEF ControlInv, Committing, CacheInv, TypeOK
<1>4. pc[p] = "write_log" => tail < Len(lh) BY ZenonT(60) DEF HeaderInv
<1>5. pc[p] = "install" => dirty = {lh[i] : i \in tail + 1 .. Len(lh)} BY Zenon DEF CacheInv
<1> QED BY SMTT(30), <1>1, <1>2, <1>3, <1>4, <1>5

\* After an iteration of install_trans() one more home block is in place.
LEMMA InstalledSoFar ==
  ASSUME Installs, UNCHANGED lh, \A i \in 1 .. tail : disk[lh[i]] = disk[i]
  PROVE  \A i \in 1 .. tail' : disk'[lh'[i]] = disk'[i]
<1> SUFFICES ASSUME NEW i \in 1 .. tail' PROVE disk'[lh[i]] = disk'[i] BY Zenon
<1>1. i \in 1 .. Len(lh) /\ disk'[i] = disk[i] /\ lh[i] \in Home BY SMTT(30) DEF Installs
<1>2. CASE i = tail + 1 BY Zenon, <1>1, <1>2 DEF Installs
<1>3. CASE i # tail + 1
  <2>1. i \in 1 .. tail /\ lh[i] # lh[tail + 1] BY SMTT(30), <1>1, <1>3 DEF Installs
  <2>2. disk'[lh[i]] = disk[lh[i]] BY ZenonT(30), <1>1, <2>1 DEF Installs
  <2> QED BY Zenon, <1>1, <2>1, <2>2
<1> QED BY Zenon, <1>2, <1>3

\* A step that leaves the disk, the headers and the pinned copies alone.
LEMMA HeaderFrame ==
  ASSUME Inv, UNCHANGED <<disk, head, lh, boot, pc, tail>>,
         \A i \in 1 .. Len(lh) : lh[i] \in dirty => cache'[lh[i]] = cache[lh[i]]
  PROVE  HeaderInv'
<1> USE DEF Inv
<1>1. ASSUME NEW p \in Proc
      PROVE  /\ pc[p] = "write_log" => \A i \in 1 .. tail : disk[i] = cache'[lh[i]]
             /\ pc[p] = "write_head" => \A i \in 1 .. Len(lh) : disk[i] = cache'[lh[i]]
             /\ pc[p] = "install" => \A i \in tail + 1 .. Len(lh) : disk[i] = cache'[lh[i]]
  <2>1. CASE pc[p] = "write_log" BY ZenonT(60), <2>1, CachedLog DEF HeaderInv
  <2>2. CASE pc[p] = "write_head" BY ZenonT(60), <2>2, CachedLog DEF HeaderInv
  <2>3. CASE pc[p] = "install" BY ZenonT(60), <2>3, CachedLog DEF HeaderInv
  <2> QED BY Zenon, <2>1, <2>2, <2>3
<1> QED BY ZenonT(60), <1>1 DEF HeaderInv

\* Every step keeps the headers and the progress of the loops.
LEMMA HeaderStep == ASSUME Inv, [Next]_vars PROVE HeaderInv'
<1> USE DEF Inv
<1>1. CASE read_head
  BY SMTT(30), <1>1 DEF read_head, procs, TypeOK, HeaderInv, ControlInv, Distinct
<1>2. CASE recover_install
  <2>1. InstallOne /\ boot = "install" /\ UNCHANGED <<head, lh, pc>>
    BY ZenonT(60), <1>2 DEF recover_install, procs
  <2>2. \A p \in Proc : pc[p] = "idle" BY Zenon, <2>1 DEF ControlInv
  <2> HIDE DEF Inv
  <2>0. Installs BY Zenon, <2>1, InstallFacts
  <2>3. \A i \in 1 .. tail' : disk'[lh'[i]] = disk'[i]
    <3>1. \A i \in 1 .. tail : disk[lh[i]] = disk[i] BY Zenon, <2>1 DEF Inv, HeaderInv
    <3> QED BY Zenon, <2>0, <2>1, <3>1, InstalledSoFar
  <2>4. boot' = (IF tail' = Len(lh) THEN "clear" ELSE "install")
    BY Zenon, <1>2, <2>0, <2>1 DEF recover_install, Installs
  <2>5. tail' \in 1 .. Len(lh) BY Zenon, <2>0 DEF Installs
  <2> USE DEF Inv
  <2>6. CASE tail' = Len(lh)
    BY ZenonT(60), <2>1, <2>2, <2>3, <2>4, <2>6 DEF HeaderInv
  <2>7. CASE tail' # Len(lh)
    <3>1. tail' < Len(lh') /\ boot' = "install" BY SMTT(30), <2>1, <2>4, <2>5, <2>7 DEF TypeOK
    <3> QED BY ZenonT(60), <2>1, <2>2, <2>3, <3>1 DEF HeaderInv
  <2> QED BY Zenon, <2>6, <2>7
<1>3. CASE recover_clear
  BY SMTT(30), <1>3 DEF recover_clear, procs, TypeOK, HeaderInv, ControlInv, Distinct
<1>4. CASE \E p \in Proc : begin_op(p)
  BY SMTT(30), <1>4 DEF begin_op, TypeOK, HeaderInv
<1>5. CASE \E p \in Proc, b \in Home, v \in Val : log_write_enter(p, b, v)
  <2> PICK p \in Proc, b \in Home, v \in Val : log_write_enter(p, b, v) BY Zenon, <1>5
  <2>1. \A q \in Proc : pc[q] \notin Committing /\ pc'[q] \notin Committing
    BY ZenonT(60) DEF log_write_enter, ControlInv, InOp, Committing, TypeOK
  <2>2. UNCHANGED <<disk, head, lh, boot, tail>> BY ZenonT(60) DEF log_write_enter
  <2> QED BY Zenon, <2>1, <2>2 DEF HeaderInv, Committing
<1>6. CASE \E p \in Proc : log_write(p)
  <2> PICK p \in Proc : log_write(p) BY Zenon, <1>6
  <2>1. \A q \in Proc : pc[q] \notin Committing /\ pc'[q] \notin Committing
    BY Zenon DEF log_write, ControlInv, InOp, Committing, TypeOK
  <2>2. UNCHANGED <<disk, head, boot, tail>> /\ boot = "run"
    BY Zenon DEF log_write, ControlInv
  <2>3. Distinct(lh')
    <3>1. CASE buf[p] \in Range(lh) BY ZenonT(60), <3>1 DEF log_write, Absorb, HeaderInv
    <3>2. CASE buf[p] \notin Range(lh)
      <4>0. buf[p] \in Home BY Zenon DEF log_write, ControlInv, TypeOK
      <4>1. buf[p] \in Home /\ lh' = Append(lh, buf[p])
        BY Zenon, <3>2, <4>0 DEF log_write, Absorb
      <4>2. /\ Len(lh') = Len(lh) + 1 /\ lh'[Len(lh) + 1] = buf[p]
            /\ \A i \in 1 .. Len(lh) : lh'[i] = lh[i] /\ lh[i] # buf[p]
        BY SMTT(30), <3>2, <4>1, RangeAppend DEF TypeOK
      <4> QED BY SMTT(30), <4>2 DEF Distinct, HeaderInv, TypeOK
    <3> QED BY Zenon, <3>1, <3>2
  <2> QED BY ZenonT(60), <2>1, <2>2, <2>3 DEF HeaderInv, Committing
<1>7. CASE \E p \in Proc : end_op(p)
  <2> PICK p \in Proc : end_op(p) BY Zenon, <1>7
  <2>1. \A q \in Proc : pc[q] \notin Committing BY Zenon, EndOpCount DEF ControlInv
  <2>2. UNCHANGED <<disk, head, lh, cache, boot>> /\ boot = "run"
    BY ZenonT(60) DEF end_op, ControlInv
  <2>3. \A q \in Proc : pc'[q] \in Committing =>
          /\ tail' = 0 /\ pc'[q] \in {"write_log", "committed"}
          /\ pc'[q] = "write_log" => Len(lh) > 0
          /\ pc'[q] = "committed" => Len(lh) = 0
    BY SMTT(30), <2>1, EndOpCount DEF end_op, Wakeup, Committing, TypeOK
  <2> QED BY SMTT(30), <2>1, <2>2, <2>3 DEF HeaderInv, Committing, TypeOK
<1>8. CASE \E p \in Proc : write_log(p)
  <2> PICK p \in Proc : write_log(p) BY Zenon, <1>8
  <2>1. UNCHANGED <<head, lh, boot>> /\ boot = "run" /\ pc[p] = "write_log"
    BY DEF write_log, ControlInv
  <2>2. pc' = [pc EXCEPT ![p] = IF tail + 1 = Len(lh) THEN "write_head" ELSE "write_log"]
    BY Zenon, <2>1 DEF write_log
  <2>3. \A q \in Proc : q # p => pc'[q] \notin Committing
    BY Zenon, <2>1, <2>2 DEF ControlInv, Committing, TypeOK
  <2>4. \A i \in 1 .. tail' : disk'[i] = cache'[lh'[i]]
    <3>1. \A i \in 1 .. tail : disk[i] = cache[lh[i]] BY Zenon, <2>1 DEF HeaderInv
    <3>2. \A i \in 1 .. tail : i \in LogBlk /\ i # tail + 1 BY SMTT(30), WriteLogFacts
    <3>3. \A i \in 1 .. tail : disk'[i] = cache'[lh'[i]]
      BY Zenon, <2>1, <3>1, <3>2, WriteLogFacts
    <3>4. \A i \in 1 .. tail' : i \in 1 .. tail \/ i = tail + 1 BY SMTT(30), WriteLogFacts
    <3> QED BY Zenon, <2>1, <3>3, <3>4, WriteLogFacts
  <2>5. tail' \in 1 .. Len(lh) /\ head = <<>> BY Zenon, WriteLogFacts
  <2>6. pc'[p] = (IF tail' = Len(lh) THEN "write_head" ELSE "write_log")
    BY Zenon, <2>2, WriteLogFacts DEF TypeOK
  <2>7. pc'[p] = "write_log" => tail' < Len(lh) BY SMTT(30), <2>5, <2>6 DEF TypeOK
  <2>8. lh # <<>> BY SMTT(30), <2>5
  <2> QED BY ZenonT(60), <2>1, <2>3, <2>4, <2>5, <2>6, <2>7, <2>8 DEF HeaderInv, Committing
<1>9. CASE \E p \in Proc : write_head(p)
  <2> PICK p \in Proc : write_head(p) BY Zenon, <1>9
  <2>1. UNCHANGED <<disk, lh, cache, boot>> /\ boot = "run" /\ pc[p] = "write_head"
        /\ head' = lh /\ tail' = 0 /\ pc' = [pc EXCEPT ![p] = "install"]
    BY Zenon DEF write_head, memory, ControlInv
  <2>2. \A q \in Proc : q # p => pc'[q] \notin Committing
    BY ZenonT(30), <2>1 DEF ControlInv, Committing, TypeOK
  <2> QED BY SMTT(30), <2>1, <2>2 DEF HeaderInv, Committing, TypeOK
<1>10. CASE \E p \in Proc : install_trans(p)
  <2> PICK p \in Proc : install_trans(p) BY Zenon, <1>10
  <2>1. UNCHANGED <<head, lh, boot>> /\ boot = "run" /\ pc[p] = "install" /\ InstallOne
    BY Zenon DEF install_trans, ControlInv
  <2>2. pc' = [pc EXCEPT ![p] = IF tail + 1 = Len(lh) THEN "clear" ELSE "install"]
    BY ZenonT(60), <2>1 DEF install_trans
  <2>3. \A q \in Proc : q # p => pc'[q] \notin Committing
    BY Zenon, <2>1, <2>2 DEF ControlInv, Committing, TypeOK
  <2> HIDE DEF Inv
  <2>0. Installs BY Zenon, <2>1, InstallFacts
  <2>4. \A i \in 1 .. tail' : disk'[lh'[i]] = disk'[i]
    <3>1. \A i \in 1 .. tail : disk[lh[i]] = disk[i] BY Zenon, <2>1 DEF Inv, HeaderInv
    <3> QED BY Zenon, <2>0, <2>1, <3>1, InstalledSoFar
  <2>5. \A i \in tail' + 1 .. Len(lh) : disk'[i] = cache'[lh'[i]]
    <3>1. \A i \in tail + 1 .. Len(lh) : disk[i] = cache[lh[i]] BY ZenonT(60), <2>1 DEF Inv, HeaderInv
    <3>2. \A i \in tail' + 1 .. Len(lh) :
            i \in tail + 1 .. Len(lh) /\ i \in 1 .. Len(lh) /\ lh[i] # lh[tail + 1]
      BY SMTT(30), <2>0 DEF Installs
    <3> QED BY Zenon, <2>0, <2>1, <3>1, <3>2 DEF Installs
  <2>6. tail' \in 1 .. Len(lh) /\ tail' = tail + 1 BY ZenonT(60), <2>0 DEF Installs
  <2> USE DEF Inv
  <2> QED BY SMTT(30), <2>1, <2>2, <2>3, <2>4, <2>5, <2>6 DEF HeaderInv, Committing, TypeOK
<1>11. CASE \E p \in Proc : clear_head(p)
  <2> PICK p \in Proc : clear_head(p) BY Zenon, <1>11
  <2>1. /\ UNCHANGED <<disk, cache, boot>> /\ pc[p] = "clear" /\ boot = "run"
        /\ lh' = <<>> /\ head' = <<>> /\ pc' = [pc EXCEPT ![p] = "committed"]
    BY Zenon DEF clear_head, ControlInv
  <2>2. \A q \in Proc : q # p => pc'[q] \notin Committing
    BY Zenon, <2>1 DEF ControlInv, Committing, TypeOK
  <2> QED BY SMTT(30), <2>1, <2>2 DEF HeaderInv, Committing, TypeOK, Distinct
<1>12. CASE \E p \in Proc : end_commit(p)
  <2> PICK p \in Proc : end_commit(p) BY Zenon, <1>12
  <2>1. \A q \in Proc : pc'[q] \notin Committing
    BY Zenon DEF end_commit, Wakeup, ControlInv, Committing, TypeOK
  <2>2. \A q \in Proc : pc[q] \notin {"install", "clear"}
    BY Zenon DEF end_commit, ControlInv, Committing
  <2> QED BY Zenon, <2>1, <2>2 DEF end_commit, HeaderInv, Committing
<1>13. CASE \E b \in Home : bread(b)
  <2> PICK b \in Home : bread(b) BY Zenon, <1>13
  <2>1. UNCHANGED <<disk, head, lh, boot, pc, tail>> /\ cache[b] = NoBlk
        /\ \A c \in Home : cache'[c] # cache[c] => cache[c] = NoBlk
    BY Zenon DEF bread, procs, TypeOK
  <2>2. \A i \in 1 .. Len(lh) : lh[i] \in dirty => cache'[lh[i]] = cache[lh[i]]
    BY Zenon, <2>1 DEF CacheInv, TypeOK
  <2> QED BY Zenon, <2>1, <2>2, HeaderFrame
<1>14. CASE \E b \in Home : recycle(b)
  <2> PICK b \in Home : recycle(b) BY Zenon, <1>14
  <2>1. UNCHANGED <<disk, head, lh, boot, pc, tail>> /\ b \notin dirty
        /\ \A c \in Home : cache'[c] # cache[c] => c = b
    BY Zenon DEF recycle, Recyclable, procs, TypeOK
  <2>2. \A i \in 1 .. Len(lh) : lh[i] \in dirty => cache'[lh[i]] = cache[lh[i]]
    BY Zenon, <2>1 DEF TypeOK
  <2> QED BY Zenon, <2>1, <2>2, HeaderFrame
<1>15. CASE crash
  <2>1. /\ lh' = <<>> /\ UNCHANGED <<disk, head>> /\ boot' = "read_head"
        /\ \A p \in Proc : pc'[p] = "idle"
    BY Zenon, <1>15 DEF crash
  <2>2. Distinct(lh') BY SMTT(30), <2>1 DEF Distinct
  <2> QED BY Zenon, <2>1, <2>2 DEF HeaderInv
<1>16. CASE UNCHANGED vars BY ZenonT(60), <1>16 DEF vars, HeaderInv
<1> QED
  BY ZenonT(60), <1>1, <1>2, <1>3, <1>4, <1>5, <1>6, <1>7, <1>8, <1>9, <1>10, <1>11, <1>12,
     <1>13, <1>14, <1>15, <1>16 DEF Next, Run, Recover, Op, Commit, Cache

-----------------------------------------------------------------------------
(* The buffer cache.                                                       *)

\* A step of the log that touches neither the cache nor the file system's
\* blocks on the disk.
LEMMA CacheFrame ==
  ASSUME Inv, UNCHANGED <<cache, dirty, buf, lh, boot>>,
         \A b \in Home : disk'[b] = disk[b],
         \A p \in Proc : pc'[p] \in {"install", "clear"} => pc[p] = pc'[p] /\ UNCHANGED tail,
         \A p \in Proc : pc[p] \in {"install", "clear"} => pc[p] = pc'[p]
  PROVE  CacheInv'
<1>1. CacheInv BY Zenon DEF Inv
<1>2. \A p \in Proc : /\ pc'[p] = "install" => pc[p] = "install" /\ tail' = tail
                     /\ pc'[p] = "clear" => pc[p] = "clear"
  BY Zenon
<1>3. (\A p \in Proc : pc'[p] \notin {"install", "clear"}) =>
        \A p \in Proc : pc[p] \notin {"install", "clear"}
  BY Zenon
<1>4. (dirty \subseteq Range(lh))' BY Zenon, <1>1 DEF CacheInv
<1>5. (boot # "run" => dirty = {})' BY Zenon, <1>1 DEF CacheInv
<1>6. (boot = "run" /\ (\A p \in Proc : pc[p] \notin {"install", "clear"}) => dirty = Range(lh))'
  BY Zenon, <1>1, <1>3 DEF CacheInv
<1>7. (\A p \in Proc : pc[p] = "install" => dirty = {lh[i] : i \in tail + 1 .. Len(lh)})'
  <2> SUFFICES ASSUME NEW p \in Proc, pc'[p] = "install"
               PROVE  dirty' = {lh'[i] : i \in tail' + 1 .. Len(lh')}
    BY Zenon
  <2>1. pc[p] = "install" /\ tail' = tail BY Zenon, <1>2
  <2>2. dirty = {lh[i] : i \in tail + 1 .. Len(lh)} BY Zenon, <1>1, <2>1 DEF CacheInv
  <2>3. dirty' = dirty /\ lh' = lh BY Zenon
  <2> QED BY Zenon, <2>1, <2>2, <2>3
<1>8. (\A p \in Proc : pc[p] = "clear" => dirty = {})' BY Zenon, <1>1, <1>2 DEF CacheInv
<1>9. (\A b \in dirty : cache[b] # NoBlk)' BY Zenon, <1>1 DEF CacheInv
<1>10. (\A p \in Proc : buf[p] # NoBlk => cache[buf[p]] # NoBlk)' BY Zenon, <1>1 DEF CacheInv
<1>11. (\A b \in Home : b \notin dirty /\ (\A p \in Proc : buf[p] # b) =>
          cache[b] \in {NoBlk, disk[b]})'
  BY Zenon, <1>1 DEF CacheInv
<1> QED BY Zenon, <1>4, <1>5, <1>6, <1>7, <1>8, <1>9, <1>10, <1>11 DEF CacheInv

\* Every step keeps B_DIRTY on exactly the blocks that need it.
LEMMA CacheStep == ASSUME Inv, [Next]_vars PROVE CacheInv'
<1> USE DEF Inv
<1>0. Range(<<>>) = {} BY SMTT(30) DEF Range
<1>1. CASE read_head
  <2>1. dirty = {} /\ boot' # "run" /\ \A p \in Proc : pc[p] = "idle"
    BY Zenon, <1>1 DEF read_head, CacheInv, ControlInv
  <2> QED BY Zenon, <1>1, <2>1 DEF read_head, procs, CacheInv
<1>2. CASE recover_install
  <2>1. /\ dirty = {} /\ boot = "install" /\ InstallOne /\ UNCHANGED <<lh, pc, buf>>
        /\ \A p \in Proc : pc[p] = "idle" /\ buf[p] = NoBlk
        /\ boot' # "run"
    BY Zenon, <1>2 DEF recover_install, procs, CacheInv, ControlInv
  <2>0. Installs BY Zenon, <2>1, InstallFacts
  <2>2. \A b \in Home : cache'[b] \in {NoBlk, disk'[b]}
    <3>1. \A b \in Home : cache[b] \in {NoBlk, disk[b]}
      BY Zenon, <2>1, ConstantsAssumption DEF CacheInv
    <3> QED BY Zenon, <2>0, <3>1 DEF Installs
  <2>3. dirty' = {} BY Zenon, <2>0, <2>1 DEF Installs
  <2> QED BY Zenon, <2>1, <2>2, <2>3 DEF CacheInv
<1>3. CASE recover_clear
  <2>1. dirty = {} /\ \A p \in Proc : pc[p] = "idle"
    BY Zenon, <1>3 DEF recover_clear, CacheInv, ControlInv
  <2> QED BY Zenon, <1>0, <1>3, <2>1 DEF recover_clear, procs, CacheInv
<1>4. CASE \E p \in Proc : begin_op(p)
  <2> PICK p \in Proc : begin_op(p) BY Zenon, <1>4
  <2>1. /\ UNCHANGED <<cache, dirty, buf, lh, boot, disk, tail>>
        /\ pc[p] \in {"idle", "woken"} /\ pc'[p] \in {"asleep", "op"}
        /\ \A q \in Proc : q # p => pc'[q] = pc[q]
    BY Zenon DEF begin_op, TypeOK
  <2> QED BY Zenon, <2>1, CacheFrame
<1>5. CASE \E p \in Proc, b \in Home, v \in Val : log_write_enter(p, b, v)
  <2> PICK p \in Proc, b \in Home, v \in Val : log_write_enter(p, b, v) BY Zenon, <1>5
  <2>1. /\ UNCHANGED <<disk, dirty, lh, boot, tail>>
        /\ cache' = [cache EXCEPT ![b] = v] /\ buf' = [buf EXCEPT ![p] = b]
        /\ v # NoBlk /\ \A q \in Proc : buf[q] # b
    BY Zenon, ConstantsAssumption DEF log_write_enter
  <2>2. \A q \in Proc : pc'[q] \notin {"install", "clear"} /\ pc[q] \notin {"install", "clear"}
    BY Zenon DEF log_write_enter, ControlInv, InOp, Committing, TypeOK
  <2>3. \A c \in dirty : cache'[c] # NoBlk BY Zenon, <2>1 DEF CacheInv, TypeOK
  <2>4. \A q \in Proc : buf'[q] # NoBlk => cache'[buf'[q]] # NoBlk
    BY Zenon, <2>1 DEF CacheInv, TypeOK
  <2>5. buf[p] = NoBlk BY Zenon DEF log_write_enter, ControlInv
  <2>6. \A c \in Home : c \notin dirty /\ (\A q \in Proc : buf'[q] # c) =>
          cache'[c] \in {NoBlk, disk[c]}
    <3> SUFFICES ASSUME NEW c \in Home, c \notin dirty, \A q \in Proc : buf'[q] # c
                 PROVE  cache'[c] \in {NoBlk, disk[c]}
      BY Zenon
    <3>1. buf'[p] = b BY Zenon, <2>1 DEF TypeOK
    <3>2. c # b /\ cache'[c] = cache[c] BY Zenon, <2>1, <3>1 DEF TypeOK
    <3>3. \A q \in Proc : buf[q] # c
      BY Zenon, <2>1, <2>5, ConstantsAssumption DEF TypeOK
    <3> QED BY Zenon, <3>2, <3>3 DEF CacheInv
  <2> QED BY ZenonT(60), <2>1, <2>2, <2>3, <2>4, <2>6 DEF CacheInv
<1>6. CASE \E p \in Proc : log_write(p)
  <2> PICK p \in Proc : log_write(p) BY Zenon, <1>6
  <2>1. /\ UNCHANGED <<disk, cache, boot, tail>> /\ buf' = [buf EXCEPT ![p] = NoBlk]
        /\ dirty' = dirty \cup {buf[p]} /\ boot = "run"
        /\ buf[p] \in Home /\ cache[buf[p]] # NoBlk
    BY ZenonT(60) DEF log_write, ControlInv, CacheInv, TypeOK
  <2>2. \A q \in Proc : pc'[q] \notin {"install", "clear"} /\ pc[q] \notin {"install", "clear"}
    BY Zenon DEF log_write, ControlInv, InOp, Committing, TypeOK
  <2>3. Range(lh') = Range(lh) \cup {buf[p]}
    <3>1. CASE buf[p] \in Range(lh) BY ZenonT(60), <3>1 DEF log_write, Absorb
    <3>2. CASE buf[p] \notin Range(lh) BY SMTT(30), <3>2, <2>1, RangeAppend DEF log_write, Absorb, TypeOK
    <3> QED BY Zenon, <3>1, <3>2
  <2>4. dirty = Range(lh) BY Zenon, <2>1, <2>2 DEF CacheInv
  <2>5. \A c \in dirty' : cache'[c] # NoBlk BY Zenon, <2>1 DEF CacheInv
  <2>6. \A q \in Proc : buf'[q] # NoBlk => cache'[buf'[q]] # NoBlk
    BY Zenon, <2>1 DEF CacheInv, TypeOK
  <2>7. \A c \in Home : c \notin dirty' /\ (\A q \in Proc : buf'[q] # c) =>
          cache'[c] \in {NoBlk, disk'[c]}
    <3> SUFFICES ASSUME NEW c \in Home, c \notin dirty', \A q \in Proc : buf'[q] # c
                 PROVE  cache'[c] \in {NoBlk, disk'[c]}
      BY Zenon
    <3>1. c \notin dirty /\ \A q \in Proc : buf[q] # c BY Zenon, <2>1 DEF TypeOK
    <3> QED BY Zenon, <2>1, <3>1 DEF CacheInv
  <2> QED BY ZenonT(60), <2>1, <2>2, <2>3, <2>4, <2>5, <2>6, <2>7 DEF CacheInv
<1>7. CASE \E p \in Proc : end_op(p)
  <2> PICK p \in Proc : end_op(p) BY Zenon, <1>7
  <2>1. /\ \A q \in Proc : pc[q] \notin Committing
        /\ UNCHANGED <<disk, cache, dirty, boot, buf, lh>>
    BY Zenon, EndOpCount DEF end_op, ControlInv
  <2>2. \A q \in Proc : pc'[q] \notin {"install", "clear"}
    <3> SUFFICES ASSUME NEW q \in Proc PROVE pc'[q] \notin {"install", "clear"} BY Zenon
    <3>1. pc[q] \notin {"install", "clear"} /\ ~committing BY ZenonT(60), <2>1, EndOpCount DEF Committing
    <3> QED BY Zenon, <3>1 DEF end_op, Wakeup, TypeOK
  <2> QED BY Zenon, <2>1, <2>2, CacheFrame DEF Committing
<1>8. CASE \E p \in Proc : write_log(p)
  <2> PICK p \in Proc : write_log(p) BY Zenon, <1>8
  <2>1. /\ UNCHANGED <<cache, dirty, boot, buf, lh>> /\ \A b \in Home : disk'[b] = disk[b]
    BY WriteLogFacts, ZenonT(60) DEF write_log
  <2>2. \A q \in Proc : pc'[q] \notin {"install", "clear"} /\ pc[q] \notin {"install", "clear"}
    BY Zenon DEF write_log, ControlInv, Committing, TypeOK
  <2> QED BY Zenon, <2>1, <2>2, CacheFrame
<1>9. CASE \E p \in Proc : write_head(p)
  <2> PICK p \in Proc : write_head(p) BY Zenon, <1>9
  <2>1. /\ UNCHANGED <<disk, lh, cache, dirty, buf, boot>> /\ pc[p] = "write_head"
        /\ boot = "run" /\ tail' = 0 /\ pc' = [pc EXCEPT ![p] = "install"]
    BY Zenon DEF write_head, memory, ControlInv
  <2>2. \A q \in Proc : pc[q] \notin {"install", "clear"} /\ pc'[q] # "clear"
    BY Zenon, <2>1 DEF ControlInv, Committing, TypeOK
  <2>3. dirty = Range(lh) BY ZenonT(60), <2>1, <2>2 DEF CacheInv
  <2>4. DOMAIN lh = tail' + 1 .. Len(lh) BY SMTT(30), <2>1 DEF TypeOK
  <2>5. dirty' = {lh'[i] : i \in tail' + 1 .. Len(lh')} BY Zenon, <2>1, <2>3, <2>4 DEF Range
  <2>6. pc'[p] = "install" /\ dirty' = Range(lh') BY ZenonT(30), <2>1, <2>3 DEF TypeOK
  <2> QED BY Zenon, <2>1, <2>2, <2>5, <2>6 DEF CacheInv
<1>10. CASE \E p \in Proc : install_trans(p)
  <2> PICK p \in Proc : install_trans(p) BY Zenon, <1>10
  <2>1. /\ UNCHANGED <<lh, buf, boot>> /\ pc[p] = "install" /\ boot = "run" /\ InstallOne
        /\ pc' = [pc EXCEPT ![p] = IF tail + 1 = Len(lh) THEN "clear" ELSE "install"]
        /\ \A q \in Proc : buf[q] = NoBlk
    BY Zenon DEF install_trans, ControlInv, Committing, InOp
  <2>2. \A q \in Proc : q # p => pc'[q] \notin {"install", "clear"}
    BY Zenon, <2>1 DEF ControlInv, Committing, TypeOK
  <2>0. Installs BY Zenon, <2>1, InstallFacts
  <2>3. dirty' = {lh[i] : i \in tail' + 1 .. Len(lh)}
    <3>1. dirty' = {lh[i] : i \in tail + 1 .. Len(lh)} \ {lh[tail + 1]}
      BY ZenonT(60), <2>0, <2>1 DEF CacheInv, Installs
    <3>2. \A i \in tail + 1 .. Len(lh) : lh[i] # lh[tail + 1] <=> i \in tail' + 1 .. Len(lh)
      BY SMTT(30), <2>0 DEF Installs
    <3>3. \A i \in tail' + 1 .. Len(lh) : i \in tail + 1 .. Len(lh)
      BY SMTT(30), <2>0 DEF Installs
    <3> QED BY Zenon, <3>1, <3>2, <3>3
  <2>4. tail' = Len(lh) => dirty' = {}
    <3>1. tail' = Len(lh) => tail' + 1 .. Len(lh) = {} BY SMTT(30), <2>0 DEF Installs
    <3> QED BY ZenonT(60), <2>3, <3>1
  <2>5. /\ pc'[p] = (IF tail' = Len(lh) THEN "clear" ELSE "install")
        /\ dirty' \subseteq dirty
    BY ZenonT(60), <2>0, <2>1 DEF TypeOK, Installs
  <2>6. \A b \in dirty' : cache'[b] # NoBlk
    <3>1. \A b \in dirty : b \in Home /\ cache[b] # NoBlk BY Zenon DEF CacheInv, TypeOK
    <3> QED BY Zenon, <2>0, <3>1 DEF Installs
  <2>7. \A b \in Home : b \notin dirty' => cache'[b] \in {NoBlk, disk'[b]}
    <3> SUFFICES ASSUME NEW b \in Home, b \notin dirty'
                 PROVE  cache'[b] \in {NoBlk, disk'[b]}
      BY Zenon
    <3>1. CASE b = lh[tail + 1] BY Zenon, <2>0, <3>1 DEF Installs
    <3>2. CASE b # lh[tail + 1]
      <4>1. b \notin dirty /\ cache'[b] = cache[b] /\ disk'[b] = disk[b]
        BY Zenon, <2>0, <3>2 DEF Installs
      <4>2. \A q \in Proc : buf[q] # b BY Zenon, <2>1, ConstantsAssumption
      <4> QED BY Zenon, <4>1, <4>2 DEF CacheInv
    <3> QED BY Zenon, <3>1, <3>2
  <2>8. dirty' \subseteq Range(lh') BY Zenon, <2>1, <2>5 DEF CacheInv
  <2> QED BY SMTT(30), <2>1, <2>2, <2>3, <2>4, <2>5, <2>6, <2>7, <2>8 DEF CacheInv
<1>11. CASE \E p \in Proc : clear_head(p)
  <2> PICK p \in Proc : clear_head(p) BY Zenon, <1>11
  <2>1. /\ UNCHANGED <<disk, cache, dirty, buf, boot>> /\ dirty = {} /\ lh' = <<>>
        /\ pc[p] = "clear" /\ pc' = [pc EXCEPT ![p] = "committed"]
    BY ZenonT(60) DEF clear_head, CacheInv
  <2>2. \A q \in Proc : pc'[q] \notin {"install", "clear"}
    BY Zenon, <2>1 DEF ControlInv, Committing, TypeOK
  <2> QED BY Zenon, <1>0, <2>1, <2>2 DEF CacheInv
<1>12. CASE \E p \in Proc : end_commit(p)
  <2> PICK p \in Proc : end_commit(p) BY Zenon, <1>12
  <2>1. \A q \in Proc : pc'[q] \notin {"install", "clear"} /\ pc[q] \notin {"install", "clear"}
    BY ZenonT(60) DEF end_commit, Wakeup, ControlInv, Committing, TypeOK
  <2> QED BY Zenon, <2>1, CacheFrame DEF end_commit
<1>13. CASE \E b \in Home : bread(b)
  <2> PICK b \in Home : bread(b) BY Zenon, <1>13
  <2>1. /\ UNCHANGED <<disk, dirty, lh, boot, pc, buf, tail>> /\ cache[b] = NoBlk
        /\ cache'[b] = disk[b] /\ \A a \in Home : a # b => cache'[a] = cache[a]
    BY Zenon DEF bread, procs, TypeOK
  <2>2. \A a \in Home : cache[a] # NoBlk => cache'[a] = cache[a] BY Zenon, <2>1
  <2>3. \A a \in dirty : a \in Home /\ cache[a] # NoBlk BY Zenon DEF CacheInv, TypeOK
  <2>4. \A p \in Proc : buf[p] # NoBlk => buf[p] \in Home /\ cache[buf[p]] # NoBlk
    BY ZenonT(30) DEF CacheInv, TypeOK
  <2> QED BY SMTT(30), <2>1, <2>2, <2>3, <2>4 DEF CacheInv
<1>14. CASE \E b \in Home : recycle(b)
  <2> PICK b \in Home : recycle(b) BY Zenon, <1>14
  <2>1. /\ UNCHANGED <<disk, dirty, lh, boot, pc, buf, tail>> /\ cache'[b] = NoBlk
        /\ b \notin dirty /\ (\A p \in Proc : buf[p] # b)
        /\ \A a \in Home : a # b => cache'[a] = cache[a]
    BY Zenon DEF recycle, Recyclable, procs, TypeOK
  <2>3. \A a \in dirty : a \in Home /\ cache[a] # NoBlk BY Zenon DEF CacheInv, TypeOK
  <2>4. \A p \in Proc : buf[p] # NoBlk => buf[p] \in Home /\ cache[buf[p]] # NoBlk
    BY Zenon DEF CacheInv, TypeOK
  <2>5. \A a \in dirty' : cache'[a] # NoBlk BY Zenon, <2>1, <2>3
  <2>6. \A p \in Proc : buf'[p] # NoBlk => cache'[buf'[p]] # NoBlk BY Zenon, <2>1, <2>4
  <2>7. ASSUME NEW a \in Home, a \notin dirty', \A p \in Proc : buf'[p] # a
        PROVE  cache'[a] \in {NoBlk, disk'[a]}
    BY ZenonT(60), <2>1, <2>7 DEF CacheInv
  <2>8. /\ dirty' \subseteq Range(lh')
        /\ boot' # "run" => dirty' = {}
        /\ boot' = "run" /\ (\A p \in Proc : pc'[p] \notin {"install", "clear"}) =>
             dirty' = Range(lh')
        /\ \A p \in Proc : pc'[p] = "install" => dirty' = {lh'[i] : i \in tail' + 1 .. Len(lh')}
        /\ \A p \in Proc : pc'[p] = "clear" => dirty' = {}
    BY SMTT(30), <2>1 DEF CacheInv
  <2> QED BY ZenonT(60), <2>5, <2>6, <2>7, <2>8 DEF CacheInv
<1>15. CASE crash BY ZenonT(60), <1>0, <1>15 DEF crash, CacheInv
<1>16. CASE UNCHANGED vars BY ZenonT(60), <1>16 DEF vars, CacheInv
<1> QED
  BY Zenon, <1>1, <1>2, <1>3, <1>4, <1>5, <1>6, <1>7, <1>8, <1>9, <1>10, <1>11, <1>12,
     <1>13, <1>14, <1>15, <1>16 DEF Next, Run, Recover, Op, Commit, Cache

-----------------------------------------------------------------------------
(* The theorems.                                                           *)

\* The invariant holds when the machine starts on a disk made by mkfs.
LEMMA InitInv == ASSUME OpsFit, Init PROVE Inv
<1>1. TypeOK
  <2>1. head \in Seq(Home) /\ lh \in Seq(Home) /\ wrote \in [Proc -> SUBSET Home]
    BY SMTT(30) DEF Init
  <2> QED BY Zenon, <2>1 DEF Init, TypeOK
<1>2. InOp = {} /\ \A p \in Proc : wrote[p] = {} BY Zenon DEF Init, InOp
<1>3. SpaceInv BY SMTT(30), <1>2, FS_EmptySet, ConstantsAssumption DEF Init, SpaceInv
<1>4. ControlInv BY ZenonT(60), <1>2 DEF Init, ControlInv, Committing
<1>5. HeaderInv BY SMTT(30) DEF Init, HeaderInv, Distinct
<1>6. CacheInv BY Zenon DEF Init, CacheInv
<1> QED BY ZenonT(60), <1>1, <1>3, <1>4, <1>5, <1>6 DEF Inv

\* The invariant is inductive.
LEMMA InvStep == ASSUME Inv, [Next]_vars PROVE Inv'
BY Zenon, TypeStep, SpaceStep, ControlStep, HeaderStep, CacheStep DEF Inv

\* The inductive invariant holds in every state of every behaviour of log.c.
THEOREM Invariance == ASSUME OpsFit PROVE Spec => []Inv
BY InitInv, InvStep, PTL DEF Spec

\* Type correctness of the log.
THEOREM TypeCorrect == ASSUME OpsFit PROVE Spec => []TypeOK
<1>1. Inv => TypeOK BY Zenon DEF Inv
<1> QED BY <1>1, Invariance, PTL

\* begin_op()'s reservation is enough: log_write() and end_op() never panic.
THEOREM PanicFree == ASSUME OpsFit PROVE Spec => []NoPanic
<1>1. Inv => NoPanic BY ZenonT(60) DEF Inv, ControlInv, NoPanic
<1> QED BY <1>1, Invariance, PTL

\* The transaction always fits in the log's blocks.
THEOREM FitsLog == ASSUME OpsFit PROVE Spec => []LogFits
<1>1. Inv => LogFits BY Zenon DEF Inv, SpaceInv, LogFits
<1> QED BY <1>1, Invariance, PTL

\* Recovery overlays the blocks that the header lists, and no other.
LEMMA OverlayAt ==
  ASSUME NEW h \in Seq(Home), NEW d, Distinct(h)
  PROVE  /\ \A i \in 1 .. Len(h) : Overlay(h, d)[h[i]] = d[i]
         /\ \A b \in Home : b \notin Range(h) => Overlay(h, d)[b] = d[b]
         /\ DOMAIN Overlay(h, d) = Home
<1>1. DOMAIN h = 1 .. Len(h) OBVIOUS
<1>2. ASSUME NEW i \in 1 .. Len(h) PROVE Overlay(h, d)[h[i]] = d[i]
  <2> DEFINE j == CHOOSE k \in DOMAIN h : h[k] = h[i]
  <2>1. h[i] \in Home /\ h[i] \in Range(h) BY SMTT(30), <1>1 DEF Range
  <2>2. j \in DOMAIN h /\ h[j] = h[i] BY Zenon, <1>1
  <2>3. j = i BY ZenonT(60), <1>1, <2>2 DEF Distinct
  <2> QED BY Zenon, <2>1, <2>3 DEF Overlay
<1> QED BY Zenon, <1>2 DEF Overlay

\* The same of what a crash now would recover, and of a crash after a step.
LEMMA RecoveredAt ==
  ASSUME head \in Seq(Home), Distinct(head)
  PROVE  /\ \A i \in 1 .. Len(head) : Recovered[head[i]] = disk[i]
         /\ \A b \in Home : b \notin Range(head) => Recovered[b] = disk[b]
         /\ DOMAIN Recovered = Home
BY Zenon, OverlayAt DEF Recovered

\* The same of a crash after the step.
LEMMA RecoveredNext ==
  ASSUME head' \in Seq(Home), Distinct(head')
  PROVE  /\ \A i \in 1 .. Len(head') : Recovered'[head'[i]] = disk'[i]
         /\ \A b \in Home : b \notin Range(head') => Recovered'[b] = disk'[b]
         /\ DOMAIN Recovered' = Home
BY Zenon, OverlayAt DEF Recovered

\* When every block that the header lists is installed, recovery changes nothing.
LEMMA RecoversDisk ==
  ASSUME head \in Seq(Home), Distinct(head), \A i \in 1 .. Len(head) : disk[head[i]] = disk[i]
  PROVE  Recovered = [b \in Home |-> disk[b]]
<1>1. ASSUME NEW b \in Home PROVE Recovered[b] = disk[b]
  <2>1. CASE b \in Range(head)
    <3> PICK i \in 1 .. Len(head) : b = head[i] BY SMTT(30), <2>1 DEF Range
    <3>1. Recovered[head[i]] = disk[i] BY Zenon, RecoveredAt
    <3> QED BY ZenonT(60), <3>1
  <2>2. CASE b \notin Range(head) BY Zenon, <2>2, RecoveredAt
  <2> QED BY Zenon, <2>1, <2>2
<1> QED BY Zenon, <1>1 DEF Recovered, Overlay

\* Without a header on the disk, recovery changes nothing.
LEMMA OverlayEmpty == ASSUME NEW d PROVE Overlay(<<>>, d) = [b \in Home |-> d[b]]
BY SMTT(30) DEF Overlay, Range

\* The same, of the machine's disk.
LEMMA RecoveredEmpty == ASSUME head = <<>> PROVE Recovered = [b \in Home |-> disk[b]]
BY Zenon, OverlayEmpty DEF Recovered

\* When the committing end_op() is done with commit(), all is durable.
LEMMA DurableWhenDone ==
  ASSUME Inv, boot = "run", head = <<>>, lh = <<>>, \A p \in Proc : buf[p] = NoBlk
  PROVE  Recovered = View
<1> USE DEF Inv
<1>1. dirty = {} BY SMTT(30) DEF CacheInv, Range
<1>2. \A b \in Home : Bread(b) = disk[b]
  BY Zenon, <1>1, ConstantsAssumption DEF CacheInv, Bread
<1> QED BY ZenonT(60), <1>2, RecoveredEmpty DEF View

\* An operation acknowledged by the end_op() that commits survives a crash.
THEOREM Durability == ASSUME OpsFit PROVE Spec => []CommitDurable
<1>1. Inv => CommitDurable
  <2> SUFFICES ASSUME Inv, NEW p \in Proc, pc[p] = "committed" PROVE Recovered = View
    BY Zenon DEF CommitDurable
  <2>1. boot = "run" /\ (\A q \in Proc : buf[q] = NoBlk) /\ lh = <<>>
    BY Zenon DEF Inv, ControlInv, Committing, InOp, HeaderInv
  <2>2. \A q \in Proc : pc[q] \notin {"install", "clear"}
    BY Zenon DEF Inv, ControlInv, Committing
  <2>3. head = <<>> BY Zenon, <2>1, <2>2 DEF Inv, HeaderInv
  <2> QED BY Zenon, <2>1, <2>3, DurableWhenDone
<1> QED BY <1>1, Invariance, PTL

-----------------------------------------------------------------------------
(* The refinement.                                                         *)

\* Only install_trans() overwrites a home block, and the header lists it.
LEMMA DiskStep ==
  ASSUME Inv, [Next]_vars, NEW b \in Home, disk'[b] # disk[b]
  PROVE  b \in Range(head)
<1> USE DEF Inv
<1>1. CASE recover_install \/ \E p \in Proc : install_trans(p)
  <2>1. InstallOne /\ UNCHANGED lh /\ (boot = "install" \/ \E p \in Proc : pc[p] = "install")
    BY Zenon, <1>1 DEF recover_install, install_trans
  <2>0. Installs BY Zenon, <2>1, InstallFacts
  <2>2. b = lh[tail + 1] /\ tail + 1 \in 1 .. Len(lh) BY Zenon, <2>0 DEF Installs
  <2>3. lh = head BY Zenon, <2>1 DEF HeaderInv
  <2> QED BY SMTT(30), <2>2, <2>3 DEF Range, TypeOK
<1>2. CASE \E p \in Proc : write_log(p) BY Zenon, <1>2, WriteLogFacts
<1>3. CASE UNCHANGED disk BY Zenon, <1>3
<1> QED
  BY ZenonT(60), <1>1, <1>2, <1>3 DEF Next, Run, Recover, Op, Commit, Cache, read_head, recover_clear,
     begin_op, log_write_enter, log_write, end_op, write_head, clear_head, end_commit,
     bread, recycle, crash, vars

\* The write-ahead rule: no block of the file system is overwritten unless
\* the committed header lists it.
THEOREM LogsAhead == ASSUME OpsFit PROVE Spec => WriteAhead
<1>1. Inv /\ [Next]_vars => [\A b \in Home : disk'[b] # disk[b] => b \in Range(head)]_vars
  BY Zenon, DiskStep
<1> QED BY <1>1, Invariance, PTL DEF Spec, WriteAhead

\* Installing a log block changes neither what recovery finds nor what an
\* operation reads.
LEMMA InstallStutters ==
  ASSUME Inv, InstallOne, UNCHANGED <<head, lh>>,
         boot = "install" \/ \E p \in Proc : pc[p] = "install"
  PROVE  /\ Recovered' = Recovered
         /\ boot = "run" => \A b \in Home : Bread(b)' = Bread(b)
<1> USE DEF Inv
<1>1. head = lh /\ lh \in Seq(Home) /\ head' = head /\ Distinct(head) /\ Distinct(head')
  BY Zenon DEF HeaderInv, TypeOK
<1>0. Installs BY Zenon, InstallFacts
<1>2. ASSUME NEW b \in Home PROVE Recovered'[b] = Recovered[b]
  <2>1. CASE b \in Range(head)
    <3> PICK i \in 1 .. Len(head) : b = head[i] BY SMTT(30), <1>1, <2>1 DEF Range
    <3>1. Recovered[head[i]] = disk[i] BY Zenon, <1>1, RecoveredAt
    <3>2. Recovered'[head'[i]] = disk'[i]
      <4>1. i \in 1 .. Len(head') BY ZenonT(30), <1>1
      <4> QED BY Zenon, <1>1, <4>1, RecoveredNext
    <3> QED BY ZenonT(60), <1>0, <1>1, <3>1, <3>2 DEF Installs
  <2>2. CASE b \notin Range(head)
    <3>1. b # lh[tail + 1]
      <4>1. DOMAIN head = 1 .. Len(head) BY Zenon, <1>1, SeqDomain
      <4>3. tail + 1 \in DOMAIN head BY Zenon, <1>0, <1>1, <4>1 DEF Installs
      <4>2. head[tail + 1] \in Range(head) BY Zenon, <4>3 DEF Range
      <4> QED BY ZenonT(60), <1>1, <2>2, <4>2
    <3>2. disk'[b] = disk[b] BY Zenon, <1>0, <3>1 DEF Installs
    <3> QED BY Zenon, <1>1, <2>2, <3>2 DEF Recovered, Overlay
  <2> QED BY Zenon, <2>1, <2>2
<1>3. Recovered' = Recovered BY Zenon, <1>2 DEF Recovered, Overlay
<1>4. ASSUME boot = "run", NEW b \in Home PROVE Bread(b)' = Bread(b)
  <2>1. CASE b # lh[tail + 1] BY Zenon, <1>0, <2>1 DEF Bread, Installs
  <2>2. CASE b = lh[tail + 1]
    <3>1. \E p \in Proc : pc[p] = "install" BY Zenon, <1>4
    <3>2. tail + 1 \in tail + 1 .. Len(lh) BY SMTT(30), <1>0 DEF Installs
    <3>3. disk[tail + 1] = cache[b] /\ cache[b] # NoBlk
      BY ZenonT(60), <2>2, <3>1, <3>2 DEF HeaderInv, CacheInv
    <3>4. cache'[b] = cache[b] /\ disk'[b] = disk[tail + 1] BY Zenon, <1>0, <2>2, <3>3 DEF Installs
    <3> QED BY Zenon, <3>3, <3>4 DEF Bread
  <2> QED BY Zenon, <2>1, <2>2
<1> QED BY ZenonT(60), <1>3, <1>4

\* The step that puts the header on the disk commits what operations see.
LEMMA WriteHeadCommits ==
  ASSUME Inv, NEW p \in Proc, write_head(p)
  PROVE  Recovered' = View /\ View' = View /\ Active = {} /\ Active' = {}
<1> USE DEF Inv
<1>1. /\ UNCHANGED <<disk, lh, cache, dirty, buf, boot>> /\ pc[p] = "write_head"
      /\ head' = lh /\ pc' = [pc EXCEPT ![p] = "install"]
  BY Zenon DEF write_head, memory
<1>2. /\ boot = "run" /\ InOp = {} /\ \A q \in Proc : buf[q] = NoBlk
  BY Zenon, <1>1 DEF ControlInv, Committing, InOp
<1>3. dirty = Range(lh)
  <2>1. \A q \in Proc : pc[q] \notin {"install", "clear"} BY Zenon, <1>1 DEF ControlInv, Committing
  <2> QED BY Zenon, <1>2, <2>1 DEF CacheInv
<1>4. lh \in Seq(Home) /\ Distinct(lh) BY Zenon DEF TypeOK, HeaderInv
<1>5. /\ \A i \in 1 .. Len(lh) : Recovered'[lh[i]] = disk[i]
      /\ \A b \in Home : b \notin Range(lh) => Recovered'[b] = disk[b]
      /\ DOMAIN Recovered' = Home
  <2>1. head' = lh /\ disk' = disk BY Zenon, <1>1
  <2>2. head' \in Seq(Home) /\ Distinct(head') BY Zenon, <1>4, <2>1
  <2> QED BY Zenon, <2>1, <2>2, RecoveredNext
<1>6. ASSUME NEW b \in Home PROVE Recovered'[b] = Bread(b)
  <2>1. CASE b \in Range(lh)
    <3> PICK i \in 1 .. Len(lh) : b = lh[i] BY SMTT(30), <1>4, <2>1 DEF Range
    <3>1. disk[i] = cache[b] /\ cache[b] # NoBlk
      BY Zenon, <1>1, <1>3, <2>1 DEF HeaderInv, CacheInv
    <3> QED BY Zenon, <1>5, <3>1 DEF Bread
  <2>2. CASE b \notin Range(lh)
    <3>1. cache[b] \in {NoBlk, disk[b]} BY Zenon, <1>2, <1>3, <2>2, ConstantsAssumption DEF CacheInv
    <3>2. Bread(b) = disk[b] BY Zenon, <3>1 DEF Bread
    <3> QED BY Zenon, <1>5, <2>2, <3>2
  <2> QED BY ZenonT(60), <2>1, <2>2
<1>7. Recovered' = [b \in Home |-> Bread(b)] BY ZenonT(60), <1>6 DEF Recovered, Overlay
<1>8. View = [b \in Home |-> Bread(b)] /\ View' = View
  BY Zenon, <1>1, <1>2 DEF View, Bread
<1>9. Active = {} /\ Active' = {}
  BY Zenon, <1>1, <1>2 DEF Active, InOp, ControlInv, TypeOK
<1> QED BY Zenon, <1>7, <1>8, <1>9

\* The machine starts in an initial state of AtomicDisk.
LEMMA RefineInit == ASSUME Init PROVE AD!AInit
<1>1. Recovered = [b \in Home |-> disk[b]] /\ View = Recovered
  BY Zenon, RecoveredEmpty DEF Init, View
<1> QED BY Zenon, <1>1 DEF Init, Active, AD!AInit

\* Every step of log.c is a step of AtomicDisk, or changes nothing it sees.
LEMMA RefineStep ==
  ASSUME Inv, Inv', [Next]_vars
  PROVE  [AD!ANext]_(AD!avars)
<1> USE DEF Inv
<1>0. Active = InOp /\ Active' = InOp' BY ZenonT(60) DEF Active, InOp, ControlInv
<1>1. CASE read_head
  BY Zenon, <1>1 DEF read_head, procs, AD!avars, Recovered, View, Active
<1>2. CASE recover_install
  BY Zenon, <1>2, InstallStutters DEF recover_install, procs, AD!avars, View, Active
<1>3. CASE recover_clear
  <2>1. \A i \in 1 .. Len(head) : disk[head[i]] = disk[i] BY ZenonT(60), <1>3 DEF recover_clear, HeaderInv
  <2>2. head \in Seq(Home) /\ Distinct(head) BY Zenon DEF TypeOK, HeaderInv
  <2>3. Recovered = [b \in Home |-> disk[b]] BY Zenon, <2>1, <2>2, RecoversDisk
  <2>4. Recovered' = [b \in Home |-> disk[b]]
    BY SMTT(30), <1>3 DEF recover_clear, Recovered, Overlay, Range
  <2>5. Recovered' = Recovered BY Zenon, <2>3, <2>4
  <2>6. boot' = "run" /\ head' = <<>> /\ lh' = <<>> /\ UNCHANGED <<pc, buf>> /\ boot # "run"
    BY Zenon, <1>3 DEF recover_clear, procs
  <2>7. \A p \in Proc : buf'[p] = NoBlk BY Zenon, <2>6 DEF ControlInv
  <2>8. View' = Recovered'
    <3>1. dirty' = {} BY ZenonT(60), <1>3, <2>6 DEF recover_clear, CacheInv
    <3>2. \A b \in Home : Bread(b)' = disk'[b]
      BY ZenonT(60), <2>7, <3>1, ConstantsAssumption DEF CacheInv, Bread
    <3> QED BY ZenonT(60), <1>3, <2>4, <2>6, <3>2 DEF View, recover_clear
  <2>9. View = Recovered BY Zenon, <2>6 DEF View
  <2> QED BY ZenonT(60), <2>5, <2>6, <2>8, <2>9 DEF AD!avars, Active
<1>4. CASE \E p \in Proc : begin_op(p)
  <2> PICK p \in Proc : begin_op(p) BY Zenon, <1>4
  <2>1. UNCHANGED <<Recovered, View>>
    BY ZenonT(60) DEF begin_op, Recovered, View, Bread
  <2>2. p \notin Active /\ (Active' = Active \/ Active' = Active \cup {p})
    BY SMTT(30) DEF begin_op, Active, TypeOK
  <2> QED BY Zenon, <2>1, <2>2 DEF AD!ANext, AD!Begin, AD!avars
<1>5. CASE \E p \in Proc, b \in Home, v \in Val : log_write_enter(p, b, v)
  <2> PICK p \in Proc, b \in Home, v \in Val : log_write_enter(p, b, v) BY Zenon, <1>5
  <2>1. /\ UNCHANGED <<disk, head, boot>> /\ cache' = [cache EXCEPT ![b] = v]
        /\ v # NoBlk /\ boot = "run"
    BY Zenon, ConstantsAssumption DEF log_write_enter, ControlInv
  <2>2. p \in Active /\ Active' = Active BY Zenon DEF log_write_enter, Active, TypeOK
  <2>3. Recovered' = Recovered BY Zenon, <2>1 DEF Recovered
  <2>4. View' = [View EXCEPT ![b] = v] BY Zenon, <2>1 DEF View, Bread, TypeOK
  <2>5. AD!Write(p, b, v) BY ZenonT(30), <2>2, <2>3, <2>4 DEF AD!Write
  <2> QED BY Zenon, <2>5 DEF AD!ANext
<1>6. CASE \E p \in Proc : log_write(p)
  BY SMTT(30), <1>6 DEF log_write, AD!avars, Recovered, View, Bread, Active, TypeOK
<1>7. CASE \E p \in Proc : end_op(p)
  <2> PICK p \in Proc : end_op(p) BY Zenon, <1>7
  <2>1. UNCHANGED <<Recovered, View>> BY Zenon DEF end_op, Recovered, View, Bread
  <2>2. p \in Active /\ Active' = Active \ {p} BY Zenon, <1>0, EndOpCount
  <2>3. AD!End(p) BY Zenon, <2>1, <2>2 DEF AD!End
  <2> QED BY Zenon, <2>3 DEF AD!ANext
<1>8. CASE \E p \in Proc : write_log(p)
  <2> PICK p \in Proc : write_log(p) BY Zenon, <1>8
  <2>1. /\ UNCHANGED <<head, cache, boot>> /\ head = <<>> /\ \A b \in Home : disk'[b] = disk[b]
    BY Zenon, WriteLogFacts DEF write_log
  <2>2. UNCHANGED Recovered
    <3>1. Recovered = [b \in Home |-> disk[b]] BY Zenon, <2>1, OverlayEmpty DEF Recovered
    <3>2. Recovered' = [b \in Home |-> disk'[b]] BY Zenon, <2>1, OverlayEmpty DEF Recovered
    <3> QED BY Zenon, <2>1, <3>1, <3>2
  <2>3. UNCHANGED View BY Zenon, <2>1, <2>2 DEF View, Bread
  <2>4. UNCHANGED Active BY Zenon DEF write_log, Active, TypeOK
  <2> QED BY Zenon, <2>2, <2>3, <2>4 DEF AD!avars
<1>9. CASE \E p \in Proc : write_head(p)
  BY Zenon, <1>9, WriteHeadCommits DEF AD!ANext, AD!Commit
<1>10. CASE \E p \in Proc : install_trans(p)
  <2> PICK p \in Proc : install_trans(p) BY Zenon, <1>10
  <2>1. UNCHANGED <<head, lh, boot>> /\ InstallOne /\ pc[p] = "install" /\ boot = "run"
    BY Zenon DEF install_trans, ControlInv
  <2>2. UNCHANGED <<Recovered, View>> BY Zenon, <2>1, InstallStutters DEF View
  <2>3. UNCHANGED Active BY Zenon DEF install_trans, Active, TypeOK
  <2> QED BY Zenon, <2>2, <2>3 DEF AD!avars
<1>11. CASE \E p \in Proc : clear_head(p)
  <2> PICK p \in Proc : clear_head(p) BY Zenon, <1>11
  <2>1. UNCHANGED <<disk, cache, boot>> /\ pc[p] = "clear" /\ head' = <<>>
    BY ZenonT(30) DEF clear_head
  <2>2. \A i \in 1 .. Len(head) : disk[head[i]] = disk[i]
    <3>1. head = lh BY Zenon, <2>1 DEF HeaderInv
    <3>2. \A i \in 1 .. Len(lh) : disk[lh[i]] = disk[i] BY Zenon, <2>1 DEF HeaderInv
    <3> QED BY Zenon, <3>1, <3>2
  <2>3. head \in Seq(Home) /\ Distinct(head) BY Zenon DEF TypeOK, HeaderInv
  <2>4. Recovered = [b \in Home |-> disk[b]] BY ZenonT(60), <2>2, <2>3, RecoversDisk
  <2>5. UNCHANGED Recovered
    <3>1. Recovered' = [b \in Home |-> disk[b]] BY ZenonT(60), <2>1, OverlayEmpty DEF Recovered
    <3> QED BY Zenon, <2>4, <3>1
  <2>6. UNCHANGED View BY Zenon, <2>1, <2>5 DEF View, Bread
  <2>7. UNCHANGED Active BY ZenonT(60) DEF clear_head, Active, TypeOK
  <2> QED BY Zenon, <2>5, <2>6, <2>7 DEF AD!avars
<1>12. CASE \E p \in Proc : end_commit(p)
  BY SMTT(30), <1>12 DEF end_commit, Wakeup, AD!avars, Recovered, View, Bread, Active, TypeOK
<1>13. CASE \E b \in Home : bread(b)
  BY SMTT(30), <1>13, ConstantsAssumption DEF bread, procs, AD!avars, Recovered, View, Bread, Active, TypeOK
<1>14. CASE \E b \in Home : recycle(b)
  <2> PICK b \in Home : recycle(b) BY Zenon, <1>14
  <2>1. cache[b] = disk[b] BY Zenon DEF recycle, Recyclable, CacheInv
  <2> QED BY ZenonT(60), <2>1 DEF recycle, procs, AD!avars, Recovered, View, Bread, Active, TypeOK
<1>15. CASE crash
  <2>1. Recovered' = Recovered /\ View' = Recovered /\ Active' = {}
    BY Zenon, <1>15 DEF crash, Recovered, View, Active
  <2> QED BY Zenon, <2>1 DEF AD!ANext, AD!Crash
<1>16. CASE UNCHANGED vars
  BY Zenon, <1>16 DEF vars, AD!avars, Recovered, View, Bread, Active
<1> QED
  BY ZenonT(60), <1>1, <1>2, <1>3, <1>4, <1>5, <1>6, <1>7, <1>8, <1>9, <1>10, <1>11, <1>12,
     <1>13, <1>14, <1>15, <1>16 DEF Next, Run, Recover, Op, Commit, Cache

\* Crash atomicity: log.c implements AtomicDisk, so that whatever the moment
\* of a crash, recovery finds whole groups of whole operations.
THEOREM CrashAtomicity == ASSUME OpsFit PROVE Spec => CrashAtomic
<1>1. Init => AD!AInit BY Zenon, RefineInit
<1>2. Inv /\ Inv' /\ [Next]_vars => [AD!ANext]_(AD!avars) BY Zenon, RefineStep
<1> QED BY <1>1, <1>2, Invariance, PTL DEF Spec, CrashAtomic, AD!ASpec
=============================================================================
