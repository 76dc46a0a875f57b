------------------------------- MODULE TxDisk -------------------------------
(***************************************************************************)
(* What the logging layer (kernel/log.c) promises to the file system above *)
(* it: a disk of blocks with transactions.  System calls bracket their     *)
(* updates between Begin and End, every read sees the newest update, and   *)
(* updates become durable all together, at a moment when no system call is *)
(* half done.  A crash throws away everything since that moment, and       *)
(* nothing else.                                                           *)
(***************************************************************************)
CONSTANTS Proc, Block, Data

VARIABLES
  durable,   \* contents that survive a crash
  current,   \* contents that a read sees
  active     \* processes between begin_op() and end_op()

txVars == <<durable, current, active>>

Init ==
  /\ durable \in [Block -> Data]
  /\ current = durable
  /\ active = {}

Begin(p) ==
  /\ p \notin active
  /\ active' = active \cup {p}
  /\ UNCHANGED <<durable, current>>

Write(p, b, v) ==
  /\ p \in active
  /\ current' = [current EXCEPT ![b] = v]
  /\ UNCHANGED <<durable, active>>

End(p) ==
  /\ p \in active
  /\ active' = active \ {p}
  /\ UNCHANGED <<durable, current>>

(* Group commit: never while a system call is between Begin and End. *)
Commit ==
  /\ active = {}
  /\ durable' = current
  /\ UNCHANGED <<current, active>>

Crash ==
  /\ current' = durable
  /\ active' = {}
  /\ UNCHANGED durable

Next ==
  \/ \E p \in Proc : Begin(p) \/ End(p)
  \/ \E p \in Proc, b \in Block, v \in Data : Write(p, b, v)
  \/ Commit
  \/ Crash

Spec == Init /\ [][Next]_txVars
=============================================================================
