----------------------------- MODULE LogProofs ------------------------------
(***************************************************************************)
(* The steps of commit(), recovery, the buffer cache and a crash keep the  *)
(* invariant of LogInv; with it, the theorems about Log, for every set of  *)
(* processes and blocks, every log size and any number of operations and   *)
(* crashes.                                                                *)
(***************************************************************************)
EXTENDS LogInv

(* every leaf: SMT, then Zenon, with time to spare on a slow machine *)
USE SMTT(30), ZenonT(30)

-----------------------------------------------------------------------------
(* The steps of commit() and of recovery.  None of them moves a process. *)
LEMMA CtlFrame ==
  ASSUME CtlInv, UNCHANGED <<outstanding, committing, pc>>,
         (stage' \in Committing) <=> (stage \in Committing),
         stage' \in Recovering => stage \in Recovering
  PROVE  CtlInv'
BY DEF CtlInv, Active

(* What one iteration of a loop does to stage and tail *)
LEMMA AdvanceFacts ==
  ASSUME TypeOK, tail < Len(lh), NEW this, NEW after, this # after, Advance(this, after)
  PROVE  /\ tail \in Nat /\ Len(lh) \in Nat /\ tail' \in Nat
         /\ stage' \in {this, after}
         /\ stage' = this => tail' = tail + 1 /\ tail' < Len(lh)
         /\ stage' = after => tail' = 0 /\ tail + 1 = Len(lh)
BY DEF Advance, TypeOK

LEMMA WriteLogStep ==
  ASSUME IInv, write_log
  PROVE  IInv'
<1> USE DEF IInv
<1> DEFINE b == lh[tail + 1]
<1>1. /\ UNCHANGED <<home, dhead, pin, logv, pc, wrote, panicked, nops, ncrash>>
      /\ stage = "write_log" /\ tail < Len(lh) /\ dhead = <<>>
      /\ Advance("write_log", "write_head")
      /\ dlog' = [dlog EXCEPT ![tail + 1] = bread(b)]
      /\ cache' = [cache EXCEPT ![b] = bread(b)]
  BY DEF write_log, HeadInv
<1>2. /\ tail \in Nat /\ Len(lh) \in Nat /\ tail' \in Nat
      /\ stage' \in {"write_log", "write_head"}
      /\ stage' = "write_log" => tail' = tail + 1 /\ tail' < Len(lh)
      /\ stage' = "write_head" => tail' = 0 /\ tail + 1 = Len(lh)
  BY <1>1, AdvanceFacts
<1>3. b \in Block /\ tail + 1 \in 1..Len(lh) /\ 1..Len(lh) \subseteq 1..(NLOG - 1)
  BY <1>1, <1>2, LogAssumption DEF TypeOK
<1>4. pin[b] # 0
  BY <1>1, <1>3 DEF BufInv, Pinned, Recovering
<1>5. cache[b] \in Data /\ cache[b] # NoData
  BY <1>3, <1>4, LogAssumption DEF BufInv
<1>6. bread(b) = cache[b] /\ cache' = cache
  BY <1>1, <1>3, <1>5 DEF bread, TypeOK
<1>7. dlog' \in [1..(NLOG - 1) -> DiskData]
  BY <1>1, <1>5, <1>6, Zenon DEF TypeOK, DiskData
<1>8. TypeOK'
  BY <1>1, <1>2, <1>6, <1>7 DEF TypeOK, Committing, logv
<1>9. CtlInv'
  BY <1>1, <1>2, CtlFrame DEF Committing, Recovering, logv
<1>10. HeadInv'
  BY <1>1, <1>2 DEF HeadInv, logv
<1>11. BufInv'
  BY <1>1, <1>2, <1>6 DEF BufInv, Pinned, Recovering, logv
<1>12. DiskInv'
  <2>1. \A i \in 1..Len(lh) : i <= tail + 1 => dlog'[i] = cache[lh[i]]
    <3> SUFFICES ASSUME NEW i \in 1..Len(lh), i <= tail + 1
                 PROVE  dlog'[i] = cache[lh[i]]
      OBVIOUS
    <3>1. CASE i = tail + 1
      BY <3>1, <1>1, <1>3, <1>6 DEF TypeOK
    <3>2. CASE i # tail + 1
      BY <3>2, <1>1, <1>2, <1>3 DEF TypeOK, DiskInv
    <3>3. QED
      BY <3>1, <3>2
  <2>2. QED
    BY <2>1, <1>1, <1>2, <1>6 DEF DiskInv, logv
<1>13. QED
  BY <1>8, <1>9, <1>10, <1>11, <1>12

LEMMA WriteHeadStep ==
  ASSUME IInv, write_head
  PROVE  IInv'
<1> USE DEF IInv
<1>1. /\ UNCHANGED <<home, dlog, bufs, logv, pc, wrote, tail, panicked, nops, ncrash>>
      /\ stage = "write_head" /\ stage' = "install" /\ dhead' = lh /\ dhead = <<>>
  BY DEF write_head, HeadInv
<1>2. TypeOK'
  BY <1>1 DEF TypeOK, bufs, logv, Committing
<1>3. CtlInv'
  BY <1>1, CtlFrame DEF Committing, Recovering, logv
<1>4. HeadInv'
  BY <1>1 DEF HeadInv, logv
<1>5. BufInv'
  BY <1>1 DEF BufInv, Pinned, Recovering, logv, bufs, HeadInv, TypeOK
<1>6. DiskInv'
  <2>1. tail = 0 /\ Len(lh) \in Nat
    BY <1>1 DEF HeadInv, TypeOK
  <2>2. \A i \in 1..Len(lh) : lh[i] \in Block
    BY DEF TypeOK
  <2>3. \A i \in 1..Len(lh) : dlog[i] = cache[lh[i]]
    BY <1>1 DEF DiskInv
  <2>4. \A i \in 1..Len(lh) : dlog[i] \in Data
    <3> SUFFICES ASSUME NEW i \in 1..Len(lh) PROVE dlog[i] \in Data
      OBVIOUS
    <3>1. pin[lh[i]] # 0
      BY <1>1, <2>2 DEF BufInv, Pinned, Recovering
    <3>2. QED
      BY <2>2, <2>3, <3>1 DEF BufInv
  <2>5. \A c \in Block : home[c] \in Data
    BY <1>1 DEF DiskInv
  <2>6. QED
    BY <1>1, <2>1, <2>3, <2>4, <2>5 DEF DiskInv, logv, bufs
<1>7. QED
  BY <1>2, <1>3, <1>4, <1>5, <1>6

(* One block installed, in commit() or in recovery *)
LEMMA InstallStep ==
  ASSUME IInv, commit_install \/ recover_install
  PROVE  IInv'
<1> USE DEF IInv
<1> DEFINE b == lh[tail + 1]
           this == stage
           after == IF stage = "install" THEN "clear" ELSE "r_clear"
<1>1. /\ UNCHANGED <<dlog, dhead, logv, pc, wrote, panicked, nops, ncrash>>
      /\ stage \in {"install", "r_install"} /\ tail < Len(lh) /\ dhead = lh
      /\ Advance(this, after)
      /\ cache' = [cache EXCEPT ![b] = dlog[tail + 1]]
      /\ home' = [home EXCEPT ![b] = dlog[tail + 1]]
      /\ pin' = IF stage = "install" THEN [pin EXCEPT ![b] = @ - 1] ELSE pin
  BY DEF commit_install, recover_install, install_trans, bunpin, HeadInv
<1>2. /\ tail \in Nat /\ Len(lh) \in Nat /\ tail' \in Nat
      /\ stage' \in {this, after}
      /\ stage' = this => tail' = tail + 1 /\ tail' < Len(lh)
      /\ stage' = after => tail' = 0 /\ tail + 1 = Len(lh)
  BY <1>1, AdvanceFacts
<1>3. b \in Block /\ tail + 1 \in 1..Len(lh) /\ 1..Len(lh) \subseteq 1..(NLOG - 1)
  BY <1>1, <1>2, LogAssumption DEF TypeOK
<1>4. dlog[tail + 1] \in Data
  BY <1>1, <1>3 DEF DiskInv
<1>5. \A i \in 1..Len(lh) : lh[i] \in Block /\ (lh[i] = b => i = tail + 1)
  BY <1>3 DEF HeadInv, TypeOK
<1>6. /\ stage = "install" => pin[b] = 1 /\ pin'[b] = 0
      /\ stage = "r_install" => pin[b] = 0 /\ pin'[b] = 0
      /\ pin' \in [Block -> Nat]
      /\ \A c \in Block : c # b => pin'[c] = pin[c]
  <2>1. CASE stage = "install"
    <3>1. Pinned(tail + 1)
      BY <2>1, <1>2 DEF Pinned, Recovering
    <3>2. pin[b] = 1
      BY <3>1, <1>3 DEF BufInv
    <3>3. QED
      BY <2>1, <3>2, <1>1, <1>3 DEF TypeOK
  <2>2. CASE stage = "r_install"
    BY <2>2, <1>1, <1>3 DEF BufInv, Pinned, Recovering, TypeOK
  <2>3. QED
    BY <1>1, <2>1, <2>2
<1>7. /\ home' \in [Block -> DiskData]
      /\ cache' \in [Block -> DiskData \cup {NoData}]
      /\ home'[b] = dlog[tail + 1] /\ cache'[b] = dlog[tail + 1]
      /\ \A c \in Block : c # b => home'[c] = home[c] /\ cache'[c] = cache[c]
  BY <1>1, <1>3, <1>4 DEF TypeOK, DiskData
<1>8. TypeOK'
  BY <1>1, <1>2, <1>6, <1>7 DEF TypeOK, Committing, Recovering, logv
<1>9. CtlInv'
  BY <1>1, <1>2, CtlFrame DEF Committing, Recovering, logv
<1>10. HeadInv'
  BY <1>1, <1>2 DEF HeadInv, logv
<1>11. BufInv'
  <2> SUFFICES ASSUME NEW c \in Block
               PROVE  /\ pin'[c] = IF \E i \in 1..Len(lh') : lh'[i] = c /\ Pinned(i)' THEN 1 ELSE 0
                      /\ pin'[c] = 0 => cache'[c] \in {NoData, home'[c]}
                      /\ pin'[c] # 0 => cache'[c] \in Data
    BY DEF BufInv
  <2>0. lh' = lh
    BY <1>1 DEF logv
  <2>1. \A i \in 1..Len(lh) : Pinned(i)' <=> (Pinned(i) /\ i # tail + 1)
    BY <1>1, <1>2 DEF Pinned, Recovering
  <2>2. CASE c = b
    BY <2>0, <2>1, <2>2, <1>1, <1>5, <1>6, <1>7
  <2>3. CASE c # b
    <3>1. pin'[c] = pin[c] /\ cache'[c] = cache[c] /\ home'[c] = home[c]
      BY <2>3, <1>6, <1>7
    <3>2. (\E i \in 1..Len(lh) : lh[i] = c /\ Pinned(i)') <=> (\E i \in 1..Len(lh) : lh[i] = c /\ Pinned(i))
      BY <2>1, <2>3, <1>5
    <3>3. QED
      BY <2>0, <3>1, <3>2 DEF BufInv
  <2>4. QED
    BY <2>2, <2>3
<1>12. DiskInv'
  <2>0. lh' = lh /\ dlog' = dlog /\ dhead' = lh
    BY <1>1 DEF logv
  <2>1. \A c \in Block : home'[c] \in Data \/ \E i \in 1..Len(lh) : lh[i] = c
    BY <1>1, <1>4, <1>7 DEF DiskInv
  <2>2. \A i \in 1..Len(lh) : i <= tail + 1 => home'[lh[i]] = dlog[i]
    <3> SUFFICES ASSUME NEW i \in 1..Len(lh), i <= tail + 1 PROVE home'[lh[i]] = dlog[i]
      OBVIOUS
    <3>1. CASE i = tail + 1
      BY <3>1, <1>7
    <3>2. CASE i # tail + 1
      BY <3>2, <1>1, <1>2, <1>5, <1>7 DEF DiskInv
    <3>3. QED
      BY <3>1, <3>2
  <2>3. \A i \in 1..Len(lh) : stage = "install" /\ i > tail + 1 => dlog[i] = cache'[lh[i]]
    BY <1>2, <1>5, <1>7 DEF DiskInv
  <2>4. \A i \in 1..Len(lh) : dlog[i] \in Data
    BY <1>1 DEF DiskInv
  <2>5. QED
    BY <2>0, <2>1, <2>2, <2>3, <2>4, <1>1, <1>2 DEF DiskInv
<1>13. QED
  BY <1>8, <1>9, <1>10, <1>11, <1>12

LEMMA ClearStep ==
  ASSUME IInv, commit_clear \/ recover_clear
  PROVE  IInv'
<1> USE DEF IInv
<1>1. /\ UNCHANGED <<home, dlog, bufs, outstanding, committing, pc, wrote, tail,
                     panicked, nops, ncrash>>
      /\ lh' = <<>> /\ dhead' = <<>> /\ dhead = lh
      /\ stage \in {"clear", "r_clear"}
      /\ stage' = IF stage = "clear" THEN "finish" ELSE "up"
  BY DEF commit_clear, recover_clear, ClearHead, HeadInv
<1>2. lh' \in Seq(Block) /\ dhead' \in Seq(Block) /\ Len(lh') = 0 /\ Len(dhead') = 0
  BY <1>1
<1>3. TypeOK'
  BY <1>1, <1>2, LogAssumption DEF TypeOK, bufs, Committing
<1>4. CtlInv'
  BY <1>1, CtlFrame DEF Committing, Recovering
<1>5. HeadInv'
  BY <1>1, <1>2 DEF HeadInv
<1>6. BufInv'
  BY <1>1, <1>2 DEF BufInv, Pinned, Recovering, bufs
<1>7. DiskInv'
  <2>1. \A i \in 1..Len(lh) : home[lh[i]] \in Data
    BY <1>1 DEF DiskInv
  <2>2. \A c \in Block : home[c] \in Data
    BY <2>1, <1>1 DEF DiskInv
  <2>3. QED
    BY <2>2, <1>1, <1>2 DEF DiskInv
<1>8. QED
  BY <1>3, <1>4, <1>5, <1>6, <1>7

LEMMA ReadHeadStep ==
  ASSUME IInv, read_head
  PROVE  IInv'
<1> USE DEF IInv
<1>1. /\ UNCHANGED <<disk, bufs, outstanding, committing, pc, wrote, tail,
                     panicked, nops, ncrash>>
      /\ stage = "read_head" /\ lh' = dhead /\ lh = <<>> /\ tail = 0
      /\ stage' = IF Len(dhead) > 0 THEN "r_install" ELSE "r_clear"
  BY DEF read_head, HeadInv
<1>2. TypeOK'
  BY <1>1 DEF TypeOK, bufs, disk, Recovering
<1>3. CtlInv'
  BY <1>1, CtlFrame DEF Committing, Recovering
<1>4. HeadInv'
  BY <1>1 DEF HeadInv, disk
<1>5. BufInv'
  BY <1>1 DEF BufInv, Pinned, Recovering, bufs, disk
<1>6. DiskInv'
  <2>1. Len(dhead) \in Nat
    BY DEF TypeOK
  <2>2. QED
    BY <1>1, <2>1 DEF DiskInv, disk
<1>7. QED
  BY <1>2, <1>3, <1>4, <1>5, <1>6

LEMMA CacheStep ==
  ASSUME IInv, NEW b \in Block, fill(b) \/ recycle(b)
  PROVE  IInv'
<1> USE DEF IInv
<1>1. /\ UNCHANGED <<disk, pin, logv, pc, wrote, stage, tail, panicked, nops, ncrash>>
      /\ cache' \in [Block -> DiskData \cup {NoData}]
      /\ \A c \in Block : c # b => cache'[c] = cache[c]
      /\ cache'[b] \in {NoData, home[b]}
  <2>1. CASE fill(b)
    BY <2>1 DEF fill, TypeOK
  <2>2. CASE recycle(b)
    BY <2>2 DEF recycle, TypeOK
  <2>3. QED
    BY <2>1, <2>2
<1>2. pin[b] = 0
  <2>1. CASE fill(b)
    BY <2>1, LogAssumption DEF fill, BufInv, TypeOK
  <2>2. QED
    BY <2>1 DEF recycle
<1>3. TypeOK'
  BY <1>1 DEF TypeOK, disk, logv
<1>4. CtlInv'
  BY <1>1, CtlFrame DEF logv
<1>5. HeadInv'
  BY <1>1 DEF HeadInv, disk, logv
<1>6. BufInv'
  BY <1>1, <1>2 DEF BufInv, Pinned, disk, logv
<1>7. DiskInv'
  <2>1. \A i \in 1..Len(lh) : stage \in {"write_log", "write_head"} \/ (stage = "install" /\ i > tail)
                              => lh[i] \in Block /\ pin[lh[i]] # 0
    <3> SUFFICES ASSUME NEW i \in 1..Len(lh),
                        stage \in {"write_log", "write_head"} \/ (stage = "install" /\ i > tail)
                 PROVE  lh[i] \in Block /\ pin[lh[i]] # 0
      OBVIOUS
    <3>1. lh[i] \in Block
      BY DEF TypeOK
    <3>2. Pinned(i)
      BY DEF Pinned, Recovering
    <3>3. QED
      BY <3>1, <3>2 DEF BufInv
  <2>2. UNCHANGED <<home, dlog, dhead, lh, stage, tail>>
    BY <1>1 DEF disk, logv
  <2>3. \A i \in 1..Len(lh) : \/ stage = "write_log" /\ i <= tail
                              \/ stage = "write_head"
                              \/ stage = "install" /\ i > tail
                              => cache'[lh[i]] = cache[lh[i]]
    BY <1>1, <1>2, <2>1
  <2>4. QED
    BY <2>2, <2>3 DEF DiskInv
<1>8. QED
  BY <1>3, <1>4, <1>5, <1>6, <1>7

LEMMA CrashStep ==
  ASSUME IInv, crash
  PROVE  IInv'
<1> USE DEF IInv
<1>1. /\ ncrash' = ncrash + 1 /\ UNCHANGED <<dhead, nops>>
      /\ dlog' \in TornLog /\ home' \in TornHome
      /\ cache' = [b \in Block |-> NoData] /\ pin' = [b \in Block |-> 0]
      /\ lh' = <<>> /\ outstanding' = 0 /\ committing' = FALSE
      /\ pc' = [p \in Proc |-> "idle"] /\ wrote' = [p \in Proc |-> {}]
      /\ stage' = "read_head" /\ tail' = 0 /\ panicked' = FALSE
  BY DEF crash
<1>2. /\ dlog' \in [1..(NLOG - 1) -> DiskData]
      /\ \A i \in 1..Len(dhead) : dlog'[i] = dlog[i]
  <2>1. CASE stage = "write_log"
    BY <2>1, <1>1 DEF TornLog, HeadInv, TypeOK, DiskData
  <2>2. CASE stage # "write_log"
    BY <2>2, <1>1 DEF TornLog, TypeOK
  <2>3. QED
    BY <2>1, <2>2
<1>3. /\ home' \in [Block -> DiskData]
      /\ \A c \in Block : home'[c] = home[c] \/ \E i \in 1..Len(dhead) : dhead[i] = c
  <2>1. CASE stage \in {"install", "r_install"}
    <3>1. lh[tail + 1] \in Block /\ tail + 1 \in 1..Len(dhead) /\ dhead = lh
      BY <2>1 DEF HeadInv, TypeOK
    <3>2. QED
      BY <2>1, <3>1, <1>1, Zenon DEF TornHome, TypeOK, DiskData
  <2>2. CASE stage \notin {"install", "r_install"}
    BY <2>2, <1>1 DEF TornHome, TypeOK
  <2>3. QED
    BY <2>1, <2>2
<1>4. lh' \in Seq(Block) /\ Len(lh') = 0
  BY <1>1
<1>5. TypeOK'
  <2>1. cache' \in [Block -> DiskData \cup {NoData}] /\ pin' \in [Block -> Nat]
    BY <1>1
  <2>2. pc' \in [Proc -> {"idle", "begin", "sleep", "op", "commit"}] /\ wrote' \in [Proc -> SUBSET Block]
    BY <1>1
  <2>3. dhead' \in Seq(Block) /\ Len(dhead') <= NLOG - 1 /\ nops' \in Nat /\ ncrash' \in Nat
    BY <1>1 DEF TypeOK
  <2>4. outstanding' \in Nat /\ committing' \in BOOLEAN /\ panicked' \in BOOLEAN /\ tail' \in Nat
    BY <1>1, Zenon
  <2>5. stage' \in Recovering /\ Len(lh') <= NLOG - 1
    BY <1>1, <1>4, LogAssumption DEF Recovering
  <2>6. QED
    BY <1>2, <1>3, <1>4, <2>1, <2>2, <2>3, <2>4, <2>5 DEF TypeOK
<1>6. CtlInv'
  <2>1. Active' = {}
    BY <1>1 DEF Active
  <2>2. QED
    BY <1>1, <2>1, FS_EmptySet DEF CtlInv, Recovering, Committing
<1>7. HeadInv'
  BY <1>1, <1>4 DEF HeadInv
<1>8. BufInv'
  BY <1>1, <1>4 DEF BufInv
<1>9. DiskInv'
  BY <1>1, <1>2, <1>3, <1>4 DEF DiskInv
<1>10. QED
  BY <1>5, <1>6, <1>7, <1>8, <1>9

(* IInv is inductive: every operation keeps it, and so does a crash. *)
LEMMA NextInv == IInv /\ [Next]_vars => IInv'
<1> SUFFICES ASSUME IInv, [Next]_vars PROVE IInv'
  OBVIOUS
<1>1. ASSUME NEW p \in Proc, ProcStep(p) PROVE IInv'
  BY <1>1, StartStep, LogWriteStep, PanicStep, EndLeaveStep, EndLastStep, EndFinishStep
     DEF ProcStep
<1>2. CASE LogStep
  BY <1>2, WriteLogStep, WriteHeadStep, InstallStep, ClearStep, ReadHeadStep DEF LogStep
<1>3. CASE \E b \in Block : fill(b) \/ recycle(b)
  BY <1>3, CacheStep
<1>4. CASE crash
  BY <1>4, CrashStep
<1>5. CASE UNCHANGED vars
  BY <1>5 DEF vars, disk, bufs, logv, IInv, TypeOK, CtlInv, HeadInv, BufInv, DiskInv, Pinned, Active
<1>6. QED
  BY <1>1, <1>2, <1>3, <1>4, <1>5 DEF Next

THEOREM Inductive == Spec => []IInv
BY InitInv, NextInv, PTL DEF Spec

(* Type correctness; in particular the in-memory header never outgrows the  *)
(* on-disk log area, so write_log() never writes past it.                   *)
THEOREM TypeCorrect == Spec => []TypeOK
<1>1. IInv => TypeOK
  BY DEF IInv
<1>2. QED
  BY <1>1, Inductive, PTL

(* When no transaction is committed but not installed, a crash would leave   *)
(* exactly the home blocks.                                                  *)
LEMMA RecoveredIsHome ==
  ASSUME TypeOK, dhead = <<>>
  PROVE  Recovered = home
BY DEF Recovered, Overlay, TypeOK

(* EndOpDurable: when commit() is over, the disk holds what reads see.       *)
THEOREM CommitMakesDurable == Spec => []EndOpDurable
<1>1. IInv => EndOpDurable
  <2> SUFFICES ASSUME IInv, stage = "finish" PROVE Recovered = View
    BY DEF EndOpDurable
  <2>1. lh = <<>> /\ dhead = <<>> /\ Recovered = home
    BY RecoveredIsHome DEF IInv, HeadInv
  <2>2. \A b \in Block : bread(b) = home[b]
    BY <2>1 DEF IInv, BufInv, bread
  <2>3. QED
    BY <2>1, <2>2 DEF View, IInv, TypeOK
<1>2. QED
  BY <1>1, Inductive, PTL

(* PinsMatchLog: one pin per entry that commit() has still to install.       *)
THEOREM PinsBalanced == Spec => []PinsMatchLog
<1>1. IInv => PinsMatchLog
  <2> SUFFICES ASSUME IInv, NEW b \in Block
               PROVE  pin[b] = Cardinality({i \in 1..Len(lh) :
                          /\ lh[i] = b
                          /\ stage \notin Recovering \cup {"clear"}
                          /\ stage = "install" => i > tail})
    BY Zenon DEF PinsMatchLog
  <2> DEFINE S == {i \in 1..Len(lh) : lh[i] = b /\ Pinned(i)}
  <2>1. S = {i \in 1..Len(lh) : /\ lh[i] = b
                                /\ stage \notin Recovering \cup {"clear"}
                                /\ stage = "install" => i > tail}
    BY DEF Pinned
  <2>2. CASE S = {}
    <3>1. pin[b] = 0
      BY <2>2 DEF IInv, BufInv
    <3>2. QED
      BY <2>1, <2>2, <3>1, FS_EmptySet, Zenon
  <2>3. CASE S # {}
    <3>1. PICK i \in S : TRUE
      BY <2>3
    <3>2. S = {i}
      BY <3>1 DEF IInv, HeadInv
    <3>3. pin[b] = 1
      BY <3>1 DEF IInv, BufInv
    <3>4. Cardinality(S) = 1
      BY <3>2, FS_Singleton, Zenon
    <3>5. QED
      BY <2>1, <3>3, <3>4, Zenon
  <2>4. QED
    BY <2>2, <2>3
<1>2. QED
  BY <1>1, Inductive, PTL
=============================================================================
