------------------------------- MODULE LogInv --------------------------------
(***************************************************************************)
(* The inductive invariant of Log, and the proof that the steps of         *)
(* begin_op(), log_write() and end_op() keep it, for every set of          *)
(* processes and blocks, every log size and any number of operations.      *)
(***************************************************************************)
EXTENDS Log, FiniteSetTheorems, TLAPS

(* every leaf: SMT, then Zenon, with time to spare on a slow machine *)
USE SMTT(30), ZenonT(30)

Active == {p \in Proc : pc[p] = "op"}

(* the commit or recovery loop has not handled entry i yet *)
Pinned(i) == stage \notin Recovering \cup {"clear"} /\ (stage = "install" => i > tail)

(* the flags of struct log agree with what processes and commit() are doing *)
CtlInv ==
  /\ committing <=> stage \in Committing
  /\ outstanding = Cardinality(Active)
  /\ committing => outstanding = 0
  /\ stage \in Recovering => \A p \in Proc : pc[p] = "idle"

(* shape of the two headers *)
HeadInv ==
  /\ \A i, j \in 1..Len(lh) : lh[i] = lh[j] => i = j
  /\ \A i, j \in 1..Len(dhead) : dhead[i] = dhead[j] => i = j
  /\ stage \in {"install", "clear", "r_install", "r_clear"} => dhead = lh
  /\ stage \in {"up", "write_log", "write_head", "finish"} => dhead = <<>>
  /\ stage \in {"finish", "read_head"} => lh = <<>>
  /\ IF stage \in {"write_log", "install", "r_install"}
       THEN tail < Len(lh) ELSE tail = 0
  /\ stage = "write_head" => Len(lh) > 0

(* an unpinned buffer is clean, a pinned one holds what a call wrote *)
BufInv ==
  \A b \in Block :
    /\ pin[b] = IF \E i \in 1..Len(lh) : lh[i] = b /\ Pinned(i) THEN 1 ELSE 0
    /\ pin[b] = 0 => cache[b] \in {NoData, home[b]}
    /\ pin[b] # 0 => cache[b] \in Data

(* the log blocks hold the committed transaction, home blocks the rest *)
DiskInv ==
  /\ \A b \in Block : home[b] \in Data \/ \E i \in 1..Len(dhead) : dhead[i] = b
  /\ \A i \in 1..Len(dhead) : dlog[i] \in Data
  /\ \A i \in 1..Len(lh) :
       /\ \/ stage = "write_log" /\ i <= tail
          \/ stage = "write_head"
          \/ stage = "install" /\ i > tail
          => dlog[i] = cache[lh[i]]
       /\ \/ stage \in {"install", "r_install"} /\ i <= tail
          \/ stage \in {"clear", "r_clear"}
          => home[lh[i]] = dlog[i]

IInv == TypeOK /\ CtlInv /\ HeadInv /\ BufInv /\ DiskInv

-----------------------------------------------------------------------------
(* A process that starts or ends a call changes Active by itself only. *)
LEMMA ActiveFinite == ASSUME TypeOK PROVE IsFiniteSet(Active) /\ Cardinality(Active) \in Nat
BY LogAssumption, FS_Subset, FS_CardinalityType DEF Active

LEMMA ActiveAdd ==
  ASSUME TypeOK, NEW p \in Proc, pc[p] # "op", pc' = [pc EXCEPT ![p] = "op"]
  PROVE  Cardinality(Active') = Cardinality(Active) + 1
<1>1. Active' = Active \cup {p} /\ p \notin Active
  BY DEF Active, TypeOK
<1>2. QED
  BY <1>1, ActiveFinite, FS_AddElement

LEMMA ActiveRemove ==
  ASSUME TypeOK, NEW p \in Proc, pc[p] = "op",
         \A q \in Proc : (pc'[q] = "op") <=> (q # p /\ pc[q] = "op")
  PROVE  Cardinality(Active') = Cardinality(Active) - 1
<1>1. Active' = Active \ {p} /\ p \in Active
  BY DEF Active
<1>2. QED
  BY <1>1, ActiveFinite, FS_RemoveElement, Zenon

LEMMA ActiveSame ==
  ASSUME \A q \in Proc : (pc'[q] = "op") <=> (pc[q] = "op")
  PROVE  Active' = Active
BY DEF Active

(* No call is active while a commit or a recovery runs. *)
LEMMA QuietCommit ==
  ASSUME TypeOK, CtlInv, stage # "up"
  PROVE  Active = {}
<1>1. CASE stage \in Recovering
  BY <1>1 DEF CtlInv, Active
<1>2. CASE stage \in Committing
  BY <1>2, ActiveFinite, FS_EmptySet DEF CtlInv
<1>3. QED
  BY <1>1, <1>2 DEF TypeOK

LEMMA InitInv == Init => IInv
<1> SUFFICES ASSUME Init PROVE IInv
  OBVIOUS
<1> USE LogAssumption
<1>1. TypeOK
  <2>1. home \in [Block -> DiskData] /\ dlog \in [1..(NLOG - 1) -> DiskData]
    BY DEF Init, DiskData
  <2>2. cache \in [Block -> DiskData \cup {NoData}] /\ pin \in [Block -> Nat]
    BY DEF Init
  <2>3. lh \in Seq(Block) /\ dhead \in Seq(Block) /\ Len(lh) = 0 /\ Len(dhead) = 0
    BY DEF Init
  <2>4. pc \in [Proc -> {"idle", "begin", "sleep", "op", "commit"}]
        /\ wrote \in [Proc -> SUBSET Block]
    BY DEF Init
  <2>5. stage \in Recovering \cup Committing \cup {"up"}
    BY DEF Init, Recovering
  <2>6. committing \in BOOLEAN /\ panicked \in BOOLEAN
    BY Zenon DEF Init
  <2>7. outstanding \in Nat /\ tail \in Nat /\ nops \in Nat /\ ncrash \in Nat
    BY DEF Init
  <2>8. QED
    BY <2>1, <2>2, <2>3, <2>4, <2>5, <2>6, <2>7 DEF TypeOK
<1>2. Active = {}
  BY DEF Init, Active
<1>3. CtlInv
  BY <1>2, FS_EmptySet DEF Init, CtlInv, Recovering, Committing
<1>4. HeadInv /\ BufInv /\ DiskInv
  BY DEF Init, HeadInv, BufInv, DiskInv, Pinned, Recovering
<1>5. QED
  BY <1>1, <1>3, <1>4 DEF IInv

-----------------------------------------------------------------------------
(* Steps that touch neither disk, buffers nor header keep what is said of them. *)
LEMMA Frame ==
  ASSUME HeadInv, BufInv, DiskInv, UNCHANGED <<disk, bufs, lh, stage, tail>>
  PROVE  HeadInv' /\ BufInv' /\ DiskInv'
BY DEF HeadInv, BufInv, DiskInv, Pinned, disk, bufs

LEMMA StartStep ==
  ASSUME IInv, NEW p \in Proc,
         syscall(p) \/ begin_op_sleep(p) \/ begin_op_enter(p) \/ kill(p)
  PROVE  IInv'
<1> USE DEF IInv
<1>1. UNCHANGED <<disk, bufs, lh, stage, tail, committing, panicked, ncrash>>
  BY DEF syscall, begin_op_sleep, begin_op_enter, kill, logv
<1>2. HeadInv' /\ BufInv' /\ DiskInv'
  BY <1>1, Frame
<1>3. stage \notin Recovering
  BY DEF syscall, begin_op_sleep, begin_op_enter, kill, CtlInv
<1>4. TypeOK'
  <2>1. pc' \in [Proc -> {"idle", "begin", "sleep", "op", "commit"}]
    BY Zenon DEF syscall, begin_op_sleep, begin_op_enter, kill, TypeOK
  <2>2. wrote' \in [Proc -> SUBSET Block]
    BY Zenon DEF syscall, begin_op_sleep, begin_op_enter, kill, TypeOK
  <2>3. outstanding' \in Nat /\ nops' \in Nat
    BY DEF syscall, begin_op_sleep, begin_op_enter, kill, TypeOK, logv
  <2>4. QED
    BY <1>1, <2>1, <2>2, <2>3 DEF TypeOK, disk, bufs
<1>5. CtlInv'
  <2>1. CASE begin_op_enter(p)
    <3>1. Cardinality(Active') = Cardinality(Active) + 1
      BY <2>1, ActiveAdd, Zenon DEF begin_op_enter
    <3>2. ~committing
      BY <2>1 DEF begin_op_enter, MustWait
    <3>3. QED
      BY <2>1, <3>1, <3>2, <1>1, <1>3, ActiveFinite DEF begin_op_enter, CtlInv
  <2>2. CASE ~begin_op_enter(p)
    <3>1. Active' = Active
      <4>1. \A q \in Proc : (pc'[q] = "op") <=> (pc[q] = "op")
        BY <2>2 DEF syscall, begin_op_sleep, kill, TypeOK
      <4>2. QED
        BY <4>1, ActiveSame
    <3>2. QED
      BY <2>2, <3>1, <1>1, <1>3 DEF syscall, begin_op_sleep, kill, CtlInv, logv
  <2>3. QED
    BY <2>1, <2>2
<1>6. QED
  BY <1>2, <1>4, <1>5

LEMMA LogWriteCtl ==
  ASSUME TypeOK, CtlInv, NEW p \in Proc, NEW b \in Block, NEW v \in Data,
         log_write(p, b, v), lh' \in Seq(Block), Len(lh') <= NLOG - 1,
         pin' \in [Block -> Nat]
  PROVE  TypeOK' /\ CtlInv'
<1>1. UNCHANGED <<disk, outstanding, committing, pc, stage, tail, panicked, nops, ncrash>>
  BY DEF log_write
<1>2. cache' \in [Block -> DiskData \cup {NoData}] /\ wrote' \in [Proc -> SUBSET Block]
  BY DEF log_write, TypeOK, DiskData
<1>3. TypeOK'
  BY <1>1, <1>2 DEF TypeOK, disk
<1>4. CtlInv'
  BY <1>1 DEF CtlInv, Active
<1>5. QED
  BY <1>3, <1>4

LEMMA LogWriteStep ==
  ASSUME IInv, NEW p \in Proc, NEW b \in Block, NEW v \in Data, log_write(p, b, v)
  PROVE  IInv'
<1> USE DEF IInv
<1>1. stage = "up" /\ ~committing
  <2>1. p \in Active
    BY DEF Active, log_write, WithinOp
  <2>2. QED
    BY <2>1, QuietCommit DEF CtlInv, Committing
<1>2. CASE b \in LogBlocks
  <2>1. UNCHANGED <<disk, pin, lh, stage, tail>> /\ cache' = [cache EXCEPT ![b] = v]
    BY <1>2 DEF log_write, log_append
  <2>2. PICK i \in 1..Len(lh) : lh[i] = b
    BY <1>2 DEF LogBlocks
  <2>3. pin[b] = 1
    BY <2>2, <1>1 DEF BufInv, Pinned, Recovering
  <2>4. BufInv'
    BY <2>1, <2>3 DEF BufInv, Pinned, disk, TypeOK
  <2>5. HeadInv' /\ DiskInv'
    BY <2>1, <1>1 DEF HeadInv, DiskInv, disk
  <2>6. lh' \in Seq(Block) /\ Len(lh') <= NLOG - 1 /\ pin' \in [Block -> Nat]
    BY <2>1 DEF TypeOK
  <2>7. QED
    BY <2>4, <2>5, <2>6, LogWriteCtl
<1>3. CASE b \notin LogBlocks
  <2>1. /\ UNCHANGED <<disk, stage, tail>>
        /\ cache' = [cache EXCEPT ![b] = v]
        /\ pin' = [pin EXCEPT ![b] = @ + 1]
        /\ lh' = Append(lh, b)
    BY <1>3 DEF log_write, log_append, bpin
  <2>2. /\ Len(lh') = Len(lh) + 1 /\ lh' \in Seq(Block)
        /\ lh'[Len(lh) + 1] = b
        /\ \A i \in 1..Len(lh) : lh'[i] = lh[i]
        /\ Len(lh') <= NLOG - 1 /\ Len(lh) \in Nat
    BY <2>1, LogAssumption DEF TypeOK, log_write, LogFull
  <2>3. \A i \in 1..Len(lh) : lh[i] # b
    BY <1>3 DEF LogBlocks
  <2>4. pin[b] = 0
    BY <2>3 DEF BufInv
  <2>5. BufInv'
    <3> SUFFICES ASSUME NEW c \in Block
                 PROVE  /\ pin'[c] = IF \E i \in 1..Len(lh') : lh'[i] = c /\ Pinned(i)' THEN 1 ELSE 0
                        /\ pin'[c] = 0 => cache'[c] \in {NoData, home'[c]}
                        /\ pin'[c] # 0 => cache'[c] \in Data
      BY DEF BufInv
    <3>1. \A i : Pinned(i) /\ Pinned(i)'
      BY <1>1, <2>1 DEF Pinned, Recovering
    <3>2. CASE c = b
      <4>1. pin'[c] = 1 /\ cache'[c] \in Data
        BY <3>2, <2>1, <2>4 DEF TypeOK
      <4>2. QED
        BY <4>1, <3>1, <3>2, <2>2
    <3>3. CASE c # b
      <4>1. pin'[c] = pin[c] /\ cache'[c] = cache[c] /\ home'[c] = home[c]
        BY <3>3, <2>1 DEF TypeOK, disk
      <4>2. (\E i \in 1..Len(lh') : lh'[i] = c) <=> (\E i \in 1..Len(lh) : lh[i] = c)
        BY <3>3, <2>2
      <4>3. QED
        BY <4>1, <4>2, <3>1 DEF BufInv
    <3>4. QED
      BY <3>2, <3>3
  <2>6. HeadInv'
    <3>1. \A i, j \in 1..Len(lh') : lh'[i] = lh'[j] => i = j
      BY <2>2, <2>3 DEF HeadInv
    <3>2. QED
      BY <3>1, <1>1, <2>1 DEF HeadInv, disk
  <2>7. DiskInv'
    BY <1>1, <2>1 DEF DiskInv, disk
  <2>8. pin' \in [Block -> Nat]
    BY <2>1 DEF TypeOK
  <2>9. QED
    BY <2>2, <2>5, <2>6, <2>7, <2>8, LogWriteCtl
<1>4. QED
  BY <1>2, <1>3

LEMMA PanicStep ==
  ASSUME IInv, NEW p \in Proc, NEW b \in Block, log_write_panic(p, b)
  PROVE  IInv'
<1> USE DEF IInv
<1>1. UNCHANGED <<disk, bufs, logv, pc, wrote, stage, tail, nops, ncrash>> /\ panicked' = TRUE
  BY DEF log_write_panic
<1>2. TypeOK'
  BY <1>1 DEF TypeOK, disk, bufs, logv
<1>3. CtlInv'
  BY <1>1 DEF CtlInv, Active, logv
<1>4. QED
  BY <1>1, <1>2, <1>3, Frame DEF logv

(* wakeup() moves sleepers, so it changes nobody's membership in Active. *)
LEMMA WakeupType ==
  ASSUME NEW f \in [Proc -> {"idle", "begin", "sleep", "op", "commit"}]
  PROVE  /\ wakeup(f) \in [Proc -> {"idle", "begin", "sleep", "op", "commit"}]
         /\ \A q \in Proc : (wakeup(f)[q] = "op") <=> (f[q] = "op")
BY DEF wakeup

(* a process that leaves a call and wakes the others stops being active, alone *)
LEMMA LeaveWakes ==
  ASSUME TypeOK, NEW p \in Proc, pc' = wakeup([pc EXCEPT ![p] = "idle"])
  PROVE  /\ pc' \in [Proc -> {"idle", "begin", "sleep", "op", "commit"}]
         /\ \A q \in Proc : (pc'[q] = "op") <=> (q # p /\ pc[q] = "op")
<1> DEFINE f == [pc EXCEPT ![p] = "idle"]
<1>1. f \in [Proc -> {"idle", "begin", "sleep", "op", "commit"}]
  BY DEF TypeOK
<1>2. \A q \in Proc : (f[q] = "op") <=> (q # p /\ pc[q] = "op")
  BY DEF TypeOK
<1>3. pc' = wakeup(f)
  OBVIOUS
<1> HIDE DEF f
<1>4. /\ wakeup(f) \in [Proc -> {"idle", "begin", "sleep", "op", "commit"}]
      /\ \A q \in Proc : (wakeup(f)[q] = "op") <=> (f[q] = "op")
  BY <1>1, WakeupType
<1>5. QED
  BY <1>2, <1>3, <1>4, Zenon

LEMMA FinishKeepsOps ==
  ASSUME TypeOK, NEW p \in Proc, end_op_finish(p)
  PROVE  \A q \in Proc : (pc'[q] = "op") <=> (pc[q] = "op")
<1>1. pc[p] = "commit" /\ pc' = wakeup([pc EXCEPT ![p] = "idle"])
  BY DEF end_op_finish
<1>2. \A q \in Proc : (pc'[q] = "op") <=> (q # p /\ pc[q] = "op")
  BY <1>1, LeaveWakes, Zenon
<1>3. QED
  BY <1>1, <1>2, Zenon

LEMMA EndLeaveStep ==
  ASSUME IInv, NEW p \in Proc, end_op_leave(p)
  PROVE  IInv'
<1> USE DEF IInv
<1>1. /\ UNCHANGED <<disk, bufs, lh, committing, wrote, stage, tail, nops, ncrash>>
      /\ outstanding' = outstanding - 1 /\ outstanding > 1
      /\ pc[p] = "op" /\ pc' = wakeup([pc EXCEPT ![p] = "idle"])
      /\ panicked' = committing
  BY DEF end_op_leave
<1>2. /\ pc' \in [Proc -> {"idle", "begin", "sleep", "op", "commit"}]
      /\ \A q \in Proc : (pc'[q] = "op") <=> (q # p /\ pc[q] = "op")
  BY <1>1, LeaveWakes, Zenon
<1>3. stage = "up" /\ ~committing
  <2>1. p \in Active
    BY <1>1 DEF Active
  <2>2. QED
    BY <2>1, QuietCommit DEF CtlInv, Committing
<1>4. TypeOK'
  <2>1. outstanding' \in Nat
    BY <1>1 DEF TypeOK
  <2>2. QED
    BY <1>1, <1>2, <2>1, Zenon DEF TypeOK, disk, bufs
<1>5. CtlInv'
  <2>1. Cardinality(Active') = Cardinality(Active) - 1
    BY <1>1, <1>2, ActiveRemove, Zenon
  <2>2. QED
    BY <2>1, <1>1, <1>3 DEF CtlInv, Recovering, Committing
<1>6. QED
  BY <1>1, <1>4, <1>5, Frame

LEMMA EndLastStep ==
  ASSUME IInv, NEW p \in Proc, end_op_last(p)
  PROVE  IInv'
<1> USE DEF IInv
<1>1. /\ UNCHANGED <<disk, bufs, lh, wrote, nops, ncrash>>
      /\ outstanding' = 0 /\ outstanding = 1
      /\ pc[p] = "op" /\ pc' = [pc EXCEPT ![p] = "commit"]
      /\ committing' = TRUE /\ panicked' = committing
      /\ stage' = CommitStart /\ tail' = 0
  BY DEF end_op_last
<1>2. stage = "up" /\ ~committing
  <2>1. p \in Active
    BY <1>1 DEF Active
  <2>2. QED
    BY <2>1, QuietCommit DEF CtlInv, Committing
<1>3. /\ stage' \in {"write_log", "finish"}
      /\ stage' = "finish" => Len(lh) = 0 /\ lh = <<>>
      /\ stage' = "write_log" => 0 < Len(lh)
  BY <1>1 DEF CommitStart, TypeOK
<1>4. TypeOK'
  <2>1. pc' \in [Proc -> {"idle", "begin", "sleep", "op", "commit"}]
    BY <1>1 DEF TypeOK
  <2>2. QED
    BY <1>1, <1>3, <2>1 DEF TypeOK, disk, bufs, Committing
<1>5. CtlInv'
  <2>1. \A q \in Proc : (pc'[q] = "op") <=> (q # p /\ pc[q] = "op")
    BY <1>1 DEF TypeOK
  <2>2. Cardinality(Active') = Cardinality(Active) - 1
    BY <1>1, <2>1, ActiveRemove
  <2>3. QED
    BY <2>2, <1>1, <1>3 DEF CtlInv, Recovering, Committing
<1>6. HeadInv'
  BY <1>1, <1>2, <1>3 DEF HeadInv, disk
<1>7. BufInv' /\ DiskInv'
  BY <1>1, <1>2, <1>3 DEF BufInv, DiskInv, Pinned, Recovering, disk, bufs
<1>8. QED
  BY <1>4, <1>5, <1>6, <1>7

LEMMA EndFinishStep ==
  ASSUME IInv, NEW p \in Proc, end_op_finish(p)
  PROVE  IInv'
<1> USE DEF IInv
<1>1. /\ UNCHANGED <<disk, bufs, lh, outstanding, wrote, tail, panicked, nops, ncrash>>
      /\ stage = "finish" /\ stage' = "up" /\ committing' = FALSE
      /\ pc[p] = "commit" /\ pc' = wakeup([pc EXCEPT ![p] = "idle"])
  BY DEF end_op_finish
<1>2. /\ pc' \in [Proc -> {"idle", "begin", "sleep", "op", "commit"}]
      /\ \A q \in Proc : (pc'[q] = "op") <=> (pc[q] = "op")
  BY <1>1, LeaveWakes, FinishKeepsOps, Zenon
<1>3. TypeOK'
  BY <1>1, <1>2, Zenon DEF TypeOK, disk, bufs
<1>4. CtlInv'
  BY <1>1, <1>2, ActiveSame, Zenon DEF CtlInv, Recovering, Committing
<1>5. HeadInv'
  BY <1>1 DEF HeadInv, disk
<1>6. BufInv' /\ DiskInv'
  BY <1>1 DEF BufInv, DiskInv, HeadInv, Pinned, Recovering, disk, bufs
<1>7. QED
  BY <1>3, <1>4, <1>5, <1>6
=============================================================================
