----------------------------- MODULE AtomicDisk -----------------------------
(***************************************************************************)
(* What the logging layer of log.c promises to the file system above it    *)
(* (log.c:8-14): updates made between begin_op and end_op are visible to   *)
(* every operation at once, they reach the disk only in groups of whole    *)
(* operations, each group in one indivisible step, and a crash loses       *)
(* exactly the groups that were not committed.                             *)
(***************************************************************************)
CONSTANTS Proc,    \* processes that run file-system operations
          Home,    \* the disk blocks the file system stores its data in
          Val      \* what a block can hold

VARIABLES durable, \* the contents a reboot would find
          view,    \* the contents a running operation sees
          active   \* the operations between begin_op and end_op

avars == <<durable, view, active>>

AInit == /\ durable \in [Home -> Val]
         /\ view = durable
         /\ active = {}

Begin(p) == /\ p \notin active
            /\ active' = active \cup {p}
            /\ UNCHANGED <<durable, view>>

Write(p, b, v) == /\ p \in active
                  /\ view' = [view EXCEPT ![b] = v]
                  /\ UNCHANGED <<durable, active>>

End(p) == /\ p \in active
          /\ active' = active \ {p}
          /\ UNCHANGED <<durable, view>>

\* All of the updates made so far, and only when no operation is half done.
Commit == /\ active = {}
          /\ durable' = view
          /\ UNCHANGED <<view, active>>

Crash == /\ view' = durable
         /\ active' = {}
         /\ UNCHANGED durable

ANext == \/ \E p \in Proc : Begin(p) \/ End(p)
         \/ \E p \in Proc, b \in Home, v \in Val : Write(p, b, v)
         \/ Commit
         \/ Crash

ASpec == AInit /\ [][ANext]_avars
=============================================================================
