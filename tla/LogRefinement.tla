--------------------------- MODULE LogRefinement ----------------------------
(***************************************************************************)
(* Log implements TxDisk, for every value of the constants.                *)
(***************************************************************************)
EXTENDS LogProofs

(* every leaf: SMT, then Zenon, with time to spare on a slow machine *)
USE SMTT(30), ZenonT(30)


(* A block that the header lists recovers to its log block, any other one   *)
(* to its home block.                                                       *)
LEMMA OverlayAt ==
  ASSUME NEW h, NEW d, NEW hd \in Seq(Block),
         \A i, j \in 1..Len(hd) : hd[i] = hd[j] => i = j
  PROVE  /\ \A i \in 1..Len(hd) : Overlay(h, d, hd)[hd[i]] = d[i]
         /\ \A b \in Block : (\A i \in 1..Len(hd) : hd[i] # b) => Overlay(h, d, hd)[b] = h[b]
<1>1. ASSUME NEW i \in 1..Len(hd) PROVE Overlay(h, d, hd)[hd[i]] = d[i]
  <2>1. hd[i] \in Block
    OBVIOUS
  <2>2. (CHOOSE j \in 1..Len(hd) : hd[j] = hd[i]) = i
    OBVIOUS
  <2>3. QED
    BY <2>1, <2>2 DEF Overlay
<1>2. QED
  BY <1>1 DEF Overlay

(* Two overlays of the same header are equal when they agree on the log     *)
(* blocks it lists and on the other home blocks.                            *)
LEMMA OverlaySame ==
  ASSUME NEW h, NEW d, NEW g, NEW e, NEW hd \in Seq(Block),
         \A i, j \in 1..Len(hd) : hd[i] = hd[j] => i = j,
         \A i \in 1..Len(hd) : e[i] = d[i],
         \A b \in Block : g[b] = h[b] \/ \E i \in 1..Len(hd) : hd[i] = b
  PROVE  Overlay(g, e, hd) = Overlay(h, d, hd)
<1>1. \A b \in Block : Overlay(g, e, hd)[b] = Overlay(h, d, hd)[b]
  <2> SUFFICES ASSUME NEW b \in Block PROVE Overlay(g, e, hd)[b] = Overlay(h, d, hd)[b]
    OBVIOUS
  <2>1. CASE \E i \in 1..Len(hd) : hd[i] = b
    BY <2>1, OverlayAt
  <2>2. CASE \A i \in 1..Len(hd) : hd[i] # b
    BY <2>2, OverlayAt
  <2>3. QED
    BY <2>1, <2>2
<1>2. QED
  BY <1>1 DEF Overlay

(* The view of reads, split over the blocks that are in the log or not *)
LEMMA CleanView ==
  ASSUME IInv, NEW b \in Block, \A i \in 1..Len(lh) : lh[i] # b
  PROVE  View[b] = home[b]
BY DEF IInv, BufInv, View, bread

LEMMA InitRefines == Init => Tx!Init
<1> SUFFICES ASSUME Init PROVE Tx!Init
  OBVIOUS
<1>1. Recovered = home
  BY InitInv, RecoveredIsHome DEF IInv, Init
<1>2. QED
  BY <1>1 DEF Init, Tx!Init, Recovering

(* Equal disks and buffers give equal views. *)
LEMMA SameDisk ==
  ASSUME UNCHANGED <<home, dlog, dhead>>
  PROVE  Recovered' = Recovered
BY DEF Recovered, Overlay

LEMMA SameView ==
  ASSUME UNCHANGED <<home, cache>>
  PROVE  View' = View
BY DEF View, bread

LEMMA ProcRefines ==
  ASSUME IInv, NEW p \in Proc, ProcStep(p)
  PROVE  [Tx!Next]_(Tx!txVars)
<1> USE DEF IInv
<1>1. ASSUME UNCHANGED <<disk, cache, stage>>, \A q \in Proc : (pc'[q] = "op") <=> (pc[q] = "op")
      PROVE  UNCHANGED Tx!txVars
  BY <1>1, SameDisk, SameView, ActiveSame DEF Tx!txVars, disk, Active
<1>2. CASE syscall(p) \/ begin_op_sleep(p) \/ kill(p)
  <2>1. \A q \in Proc : (pc'[q] = "op") <=> (pc[q] = "op")
    BY <1>2 DEF syscall, begin_op_sleep, kill, TypeOK
  <2>2. QED
    BY <1>1, <1>2, <2>1 DEF syscall, begin_op_sleep, kill, bufs
<1>3. CASE begin_op_enter(p)
  <2>1. UNCHANGED <<disk, cache, stage>> /\ p \notin Active /\ Active' = Active \cup {p}
    BY <1>3 DEF begin_op_enter, TypeOK, Active, bufs
  <2>2. Tx!Begin(p)
    BY <2>1, SameDisk, SameView DEF Tx!Begin, Active, disk
  <2>3. QED
    BY <2>2 DEF Tx!Next
<1>4. ASSUME NEW b \in Block, NEW v \in Data, log_write(p, b, v)
      PROVE  [Tx!Next]_(Tx!txVars)
  <2>1. UNCHANGED <<disk, stage, pc>> /\ cache' = [cache EXCEPT ![b] = v] /\ p \in Active
    BY <1>4 DEF log_write, WithinOp, Active
  <2>2. stage = "up"
    BY <2>1, QuietCommit
  <2>3. View' = [View EXCEPT ![b] = v]
    BY <2>1, LogAssumption, Zenon DEF View, bread, TypeOK, disk
  <2>4. Tx!Write(p, b, v)
    BY <2>1, <2>2, <2>3, SameDisk DEF Tx!Write, Active, disk, Recovering
  <2>5. QED
    BY <2>4 DEF Tx!Next
<1>5. ASSUME NEW b \in Block, log_write_panic(p, b)
      PROVE  [Tx!Next]_(Tx!txVars)
  BY <1>1, <1>5 DEF log_write_panic, bufs
<1>6. CASE end_op_leave(p) \/ end_op_last(p)
  <2>1. UNCHANGED <<disk, cache>> /\ p \in Active
    BY <1>6 DEF end_op_leave, end_op_last, Active, bufs
  <2>2. stage = "up"
    BY <2>1, QuietCommit
  <2>3. stage' \notin Recovering
    BY <1>6, <2>2 DEF end_op_leave, end_op_last, CommitStart, Recovering
  <2>4. \A q \in Proc : (pc'[q] = "op") <=> (q # p /\ pc[q] = "op")
    <3>1. CASE end_op_leave(p)
      <4>1. pc' = wakeup([pc EXCEPT ![p] = "idle"])
        BY <3>1 DEF end_op_leave
      <4>2. QED
        BY <4>1, LeaveWakes, Zenon
    <3>2. CASE end_op_last(p)
      BY <3>2 DEF end_op_last, TypeOK
    <3>3. QED
      BY <1>6, <3>1, <3>2
  <2>5. Active' = Active \ {p}
    BY <2>4 DEF Active
  <2>6. Tx!End(p)
    BY <2>1, <2>2, <2>3, <2>5, SameDisk, SameView DEF Tx!End, Active, disk, Recovering
  <2>7. QED
    BY <2>6 DEF Tx!Next
<1>7. CASE end_op_finish(p)
  <2>1. UNCHANGED <<disk, cache>> /\ stage \notin Recovering /\ stage' \notin Recovering
    BY <1>7 DEF end_op_finish, bufs, Recovering
  <2>2. \A q \in Proc : (pc'[q] = "op") <=> (pc[q] = "op")
    <3>1. pc[p] = "commit" /\ pc' = wakeup([pc EXCEPT ![p] = "idle"])
      BY <1>7 DEF end_op_finish
    <3>2. QED
      BY <3>1, LeaveWakes, Zenon
  <2>3. QED
    BY <2>1, <2>2, SameDisk, SameView, ActiveSame DEF Tx!txVars, disk, Active
<1>8. QED
  BY <1>2, <1>3, <1>4, <1>5, <1>6, <1>7 DEF ProcStep

(* The write of the header is the commit: what recovery would produce jumps *)
(* to what reads see.                                                       *)
LEMMA WriteHeadRefines ==
  ASSUME IInv, IInv', write_head
  PROVE  Tx!Commit
<1>1. /\ UNCHANGED <<home, dlog, bufs, pc, lh>> /\ dhead' = lh
      /\ stage = "write_head" /\ stage' = "install"
  BY DEF write_head, logv
<1>2. Recovered' = View
  <2>1. \A i \in 1..Len(lh) : lh[i] \in Block
    BY DEF IInv, TypeOK
  <2>2. \A i \in 1..Len(lh) : Recovered'[lh[i]] = dlog[i]
    <3>1. lh \in Seq(Block) /\ \A i, j \in 1..Len(lh) : lh[i] = lh[j] => i = j
      BY DEF IInv, TypeOK, HeadInv
    <3>2. Recovered' = Overlay(home, dlog, lh)
      BY <1>1 DEF Recovered
    <3>3. QED
      BY <3>1, <3>2, OverlayAt
  <2>3. \A i \in 1..Len(lh) : View[lh[i]] = dlog[i]
    <3> SUFFICES ASSUME NEW i \in 1..Len(lh) PROVE View[lh[i]] = dlog[i]
      OBVIOUS
    <3>1. pin[lh[i]] # 0
      BY <2>1, <1>1 DEF IInv, BufInv, Pinned, Recovering
    <3>2. cache[lh[i]] # NoData
      BY <2>1, <3>1, LogAssumption DEF IInv, BufInv
    <3>3. QED
      BY <2>1, <3>2, <1>1 DEF View, bread, IInv, DiskInv
  <2>4. ASSUME NEW b \in Block, \A i \in 1..Len(lh) : lh[i] # b
        PROVE  Recovered'[b] = View[b]
    <3>1. Recovered'[b] = home'[b]
      BY <2>4, <1>1 DEF Recovered, Overlay
    <3>2. QED
      BY <2>4, <3>1, <1>1, CleanView
  <2>5. \A b \in Block : Recovered'[b] = View[b]
    BY <2>2, <2>3, <2>4
  <2>6. QED
    BY <2>5 DEF Recovered, Overlay, View
<1>3. Active = {} /\ Active' = Active
  BY <1>1, QuietCommit DEF IInv, Active
<1>4. View' = View
  BY <1>1, SameView DEF bufs
<1>5. QED
  BY <1>1, <1>2, <1>3, <1>4 DEF Tx!Commit, Active, Recovering

(* Installing a block moves committed data to its home: neither recovery    *)
(* nor a read can tell the difference.                                      *)
LEMMA InstallRefines ==
  ASSUME IInv, commit_install \/ recover_install
  PROVE  UNCHANGED Tx!txVars
<1> USE DEF IInv
<1> DEFINE b == lh[tail + 1]
<1>1. /\ UNCHANGED <<dlog, dhead, pc>> /\ dhead = lh /\ tail < Len(lh)
      /\ cache' = [cache EXCEPT ![b] = dlog[tail + 1]]
      /\ home' = [home EXCEPT ![b] = dlog[tail + 1]]
      /\ stage \in {"install", "r_install"}
      /\ stage = "install" => stage' \in {"install", "clear"}
      /\ stage = "r_install" => stage' \in {"r_install", "r_clear"}
  BY DEF commit_install, recover_install, install_trans, Advance, HeadInv
<1>2. b \in Block /\ tail + 1 \in 1..Len(lh) /\ dlog[tail + 1] \in Data
  BY <1>1 DEF TypeOK, DiskInv
<1>3. Recovered' = Recovered
  <2>1. \A c \in Block : home'[c] = home[c] \/ \E i \in 1..Len(dhead) : dhead[i] = c
    BY <1>1, <1>2 DEF TypeOK
  <2>2. dhead \in Seq(Block) /\ \A i, j \in 1..Len(dhead) : dhead[i] = dhead[j] => i = j
    BY DEF TypeOK, HeadInv
  <2>3. \A i \in 1..Len(dhead) : dlog'[i] = dlog[i]
    BY <1>1
  <2>4. Overlay(home', dlog', dhead) = Overlay(home, dlog, dhead)
    BY <2>1, <2>2, <2>3, OverlaySame
  <2>5. QED
    BY <1>1, <2>4 DEF Recovered
<1>4. CASE stage = "install"
  <2>0. tail \in Nat
    BY DEF TypeOK
  <2>1. dlog[tail + 1] = cache[b]
    BY <1>2, <1>4, <2>0 DEF DiskInv
  <2>2. cache[b] # NoData
    BY <1>2, <2>1, LogAssumption
  <2>3. \A c \in Block : View'[c] = View[c]
    <3> SUFFICES ASSUME NEW c \in Block PROVE View'[c] = View[c]
      OBVIOUS
    <3>1. CASE c = b
      BY <3>1, <1>1, <1>2, <2>1, <2>2 DEF View, bread, TypeOK
    <3>2. CASE c # b
      BY <3>2, <1>1 DEF View, bread, TypeOK
    <3>3. QED
      BY <3>1, <3>2
  <2>4. View' = View
    BY <2>3 DEF View
  <2>5. QED
    BY <1>1, <1>3, <1>4, <2>4 DEF Tx!txVars, Recovering
<1>5. CASE stage = "r_install"
  BY <1>1, <1>3, <1>5 DEF Tx!txVars, Recovering
<1>6. QED
  BY <1>1, <1>4, <1>5

(* Erasing the header after every block is installed changes nothing either. *)
LEMMA ClearRefines ==
  ASSUME IInv, IInv', commit_clear \/ recover_clear
  PROVE  UNCHANGED Tx!txVars
<1> USE DEF IInv
<1>1. /\ UNCHANGED <<home, dlog, bufs, pc>> /\ lh' = <<>> /\ dhead' = <<>> /\ dhead = lh
      /\ stage \in {"clear", "r_clear"}
      /\ stage' = IF stage = "clear" THEN "finish" ELSE "up"
  BY DEF commit_clear, recover_clear, ClearHead, HeadInv
<1>2. Recovered' = home
  BY <1>1 DEF Recovered, Overlay, TypeOK
<1>3. Recovered = home
  <2>1. dhead \in Seq(Block) /\ \A i, j \in 1..Len(dhead) : dhead[i] = dhead[j] => i = j
    BY DEF TypeOK, HeadInv
  <2>2. \A i \in 1..Len(dhead) : home[dhead[i]] = dlog[i]
    BY <1>1 DEF DiskInv
  <2>3. \A c \in Block : Overlay(home, dlog, dhead)[c] = home[c]
    BY <2>1, <2>2, OverlayAt
  <2>4. QED
    <3>1. home = [c \in Block |-> home[c]]
      BY DEF TypeOK
    <3>2. QED
      BY <2>3, <3>1, Zenon DEF Recovered, Overlay
<1>4. View' = View
  BY <1>1, SameView DEF bufs
<1>5. View = home
  <2>1. \A c \in Block : pin[c] = 0
    BY <1>1 DEF BufInv, Pinned, Recovering
  <2>2. \A c \in Block : bread(c) = home[c]
    BY <2>1 DEF BufInv, bread
  <2>3. QED
    BY <2>2 DEF View, TypeOK
<1>6. QED
  BY <1>1, <1>2, <1>3, <1>4, <1>5 DEF Tx!txVars, Recovering

(* A crash keeps what recovery would produce, torn blocks or not. *)
LEMMA CrashRefines ==
  ASSUME IInv, crash
  PROVE  Tx!Crash
<1> USE DEF IInv
<1>1. /\ dhead' = dhead /\ stage' = "read_head" /\ pc' = [p \in Proc |-> "idle"]
      /\ dlog' \in TornLog /\ home' \in TornHome
  BY DEF crash
<1>2. \A i \in 1..Len(dhead) : dlog'[i] = dlog[i]
  BY <1>1 DEF TornLog, HeadInv
<1>3. \A c \in Block : home'[c] = home[c] \/ \E i \in 1..Len(dhead) : dhead[i] = c
  <2>1. CASE stage \in {"install", "r_install"}
    <3>1. lh[tail + 1] \in Block /\ tail + 1 \in 1..Len(dhead) /\ dhead = lh
      BY <2>1 DEF HeadInv, TypeOK
    <3>2. QED
      BY <2>1, <3>1, <1>1 DEF TornHome, TypeOK
  <2>2. CASE stage \notin {"install", "r_install"}
    BY <2>2, <1>1 DEF TornHome
  <2>3. QED
    BY <2>1, <2>2
<1>4. dhead \in Seq(Block) /\ \A i, j \in 1..Len(dhead) : dhead[i] = dhead[j] => i = j
  BY DEF TypeOK, HeadInv
<1>5. Overlay(home', dlog', dhead) = Overlay(home, dlog, dhead)
  BY <1>2, <1>3, <1>4, OverlaySame
<1>6. Recovered' = Recovered
  BY <1>1, <1>5 DEF Recovered
<1>7. {p \in Proc : pc'[p] = "op"} = {}
  BY <1>1
<1>8. QED
  BY <1>1, <1>6, <1>7 DEF Tx!Crash, Recovering

LEMMA StepRefines == IInv /\ IInv' /\ [Next]_vars => [Tx!Next]_(Tx!txVars)
<1> SUFFICES ASSUME IInv, IInv', [Next]_vars PROVE [Tx!Next]_(Tx!txVars)
  OBVIOUS
<1>1. ASSUME NEW p \in Proc, ProcStep(p) PROVE [Tx!Next]_(Tx!txVars)
  BY <1>1, ProcRefines
<1>2. CASE write_log
  <2>1. UNCHANGED <<home, dhead, pc>> /\ dhead = <<>> /\ stage = "write_log" /\ tail < Len(lh)
        /\ stage' \in {"write_log", "write_head"}
        /\ cache' = [cache EXCEPT ![lh[tail + 1]] = bread(lh[tail + 1])]
    BY <1>2 DEF write_log, Advance, IInv, HeadInv
  <2>2. Recovered' = home /\ Recovered = home
    BY <2>1 DEF Recovered, Overlay, IInv, TypeOK
  <2>3. lh[tail + 1] \in Block
    BY <2>1 DEF IInv, TypeOK
  <2>4. View' = View
    <3>1. cache \in [Block -> DiskData \cup {NoData}]
      BY DEF IInv, TypeOK
    <3>2. \A c \in Block : bread(c)' = bread(c)
      BY <2>1, <2>3, <3>1 DEF bread
    <3>3. QED
      BY <3>2 DEF View
  <2>5. QED
    BY <2>1, <2>2, <2>4 DEF Tx!txVars, Recovering
<1>3. CASE write_head
  BY <1>3, WriteHeadRefines DEF Tx!Next
<1>4. CASE commit_install \/ recover_install
  BY <1>4, InstallRefines
<1>5. CASE commit_clear \/ recover_clear
  BY <1>5, ClearRefines
<1>6. CASE read_head
  <2>1. UNCHANGED <<disk, pc>> /\ stage \in Recovering /\ stage' \in Recovering
    BY <1>6 DEF read_head, Recovering
  <2>2. QED
    BY <2>1, SameDisk DEF Tx!txVars, disk
<1>7. ASSUME NEW b \in Block, fill(b) \/ recycle(b) PROVE UNCHANGED Tx!txVars
  <2>1. UNCHANGED <<disk, pc, stage>>
    BY <1>7 DEF fill, recycle
  <2>2. cache'[b] \in {NoData, home[b]} /\ cache[b] \in {NoData, home[b]}
        /\ \A c \in Block : c # b => cache'[c] = cache[c]
    BY <1>7 DEF fill, recycle, IInv, TypeOK, BufInv
  <2>3. \A c \in Block : View'[c] = View[c]
    BY <2>1, <2>2 DEF View, bread, disk
  <2>4. View' = View
    BY <2>3 DEF View
  <2>5. QED
    BY <2>1, <2>4, SameDisk DEF Tx!txVars, disk
<1>8. CASE crash
  BY <1>8, CrashRefines DEF Tx!Next
<1>9. CASE UNCHANGED vars
  BY <1>9, SameDisk, SameView DEF vars, disk, bufs, Tx!txVars
<1>10. QED
  BY <1>1, <1>2, <1>3, <1>4, <1>5, <1>6, <1>7, <1>8, <1>9 DEF Next, LogStep

(* Crash atomicity of log.c, for every value of the constants: Log, with its *)
(* buffers, commits, crashes, torn writes and recoveries, implements the     *)
(* transactional disk.                                                       *)
THEOREM LogImplementsTxDisk == Spec => CrashAtomic
<1>1. Spec => Tx!Init
  BY InitRefines, PTL DEF Spec
<1>2. Spec => [][Tx!Next]_(Tx!txVars)
  BY Inductive, StepRefines, PTL DEF Spec
<1>3. QED
  BY <1>1, <1>2, PTL DEF CrashAtomic, Tx!Spec
=============================================================================
