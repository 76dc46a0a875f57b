----------------------------- MODULE LogSpace -------------------------------
(***************************************************************************)
(* The reservation.  begin_op() reserves MAXOPBLOCKS entries for a call;   *)
(* Reserve holds one token for each entry that an active call may still    *)
(* use.  Counting tokens instead of adding up makes every step the removal *)
(* or the addition of elements.                                            *)
(***************************************************************************)
EXTENDS LogProofs

(* every leaf: SMT, then Zenon, with time to spare on a slow machine *)
USE SMTT(30), ZenonT(30)

Reserve == {t \in Active \X (1..MAXOPBLOCKS) : t[2] > Cardinality(wrote[t[1]])}

SpaceInv ==
  /\ \A p \in Active : wrote[p] \subseteq LogBlocks /\ Cardinality(wrote[p]) <= OpBlocks
  /\ Active = {} /\ stage = "up" => lh = <<>>
  /\ Active # {} => Len(lh) + Cardinality(Reserve) <= LOGSIZE
  /\ \A p \in Proc : Active = {p} =>
        \/ Len(lh) <= Cardinality(wrote[p])
        \/ Len(lh) + Cardinality(Reserve) <= LOGSIZE - 1
  /\ ~panicked

(* A call logs fewer blocks than begin_op() reserves for it. *)
ReservationFits ==
  /\ OpBlocks < MAXOPBLOCKS
  /\ MAXOPBLOCKS < LOGSIZE
  /\ LOGSIZE <= NLOG

LEMMA ReserveFinite ==
  ASSUME TypeOK
  PROVE  /\ IsFiniteSet(Reserve) /\ Cardinality(Reserve) \in Nat
         /\ Cardinality(Reserve) <= Cardinality(Active) * MAXOPBLOCKS
<1>1. /\ IsFiniteSet(Active) /\ IsFiniteSet(1..MAXOPBLOCKS)
      /\ Cardinality(1..MAXOPBLOCKS) = MAXOPBLOCKS
  <2>1. IsFiniteSet(Active)
    BY ActiveFinite
  <2>2. MAXOPBLOCKS \in Nat
    BY LogAssumption
  <2>3. QED
    BY <2>1, <2>2, FS_Interval
<1>2. /\ IsFiniteSet(Active \X (1..MAXOPBLOCKS))
      /\ Cardinality(Active \X (1..MAXOPBLOCKS)) = Cardinality(Active) * MAXOPBLOCKS
  BY <1>1, FS_Product, Zenon
<1>3. Reserve \subseteq Active \X (1..MAXOPBLOCKS)
  BY DEF Reserve
<1>4. QED
  BY <1>2, <1>3, FS_Subset, FS_CardinalityType

LEMMA WroteFinite ==
  ASSUME TypeOK, NEW p \in Proc
  PROVE  IsFiniteSet(wrote[p]) /\ Cardinality(wrote[p]) \in Nat
<1>1. wrote[p] \subseteq Block
  BY DEF TypeOK
<1>2. QED
  BY <1>1, LogAssumption, FS_Subset, FS_CardinalityType

(* Every active call keeps a token that it will never use. *)
LEMMA SpareToken ==
  ASSUME TypeOK, SpaceInv, ReservationFits, NEW p \in Active
  PROVE  <<p, MAXOPBLOCKS>> \in Reserve
<1>1. p \in Proc
  BY DEF Active
<1>2. Cardinality(wrote[p]) \in Nat
  BY <1>1, WroteFinite
<1>3. QED
  BY <1>2, LogAssumption DEF SpaceInv, ReservationFits, Reserve

(* So the log always has room for one more entry, absorbed or not. *)
LEMMA RoomLeft ==
  ASSUME IInv, SpaceInv, ReservationFits, NEW p \in Active
  PROVE  ~LogFull /\ outstanding >= 1
<1> USE DEF IInv
<1>1. p \in Proc /\ Active # {} /\ Cardinality(wrote[p]) \in Nat /\ Len(lh) \in Nat
      /\ Cardinality(Reserve) \in Nat /\ IsFiniteSet(Reserve)
  BY WroteFinite, ReserveFinite DEF Active, TypeOK
<1>2. outstanding >= 1
  <2>1. Cardinality(Active) # 0
    BY <1>1, ActiveFinite, FS_EmptySet
  <2>2. QED
    BY <2>1, ActiveFinite DEF CtlInv
<1>3. Len(lh) <= LOGSIZE - 2
  <2>1. CASE Active = {p}
    <3>1. Cardinality(Reserve) # 0
      BY <1>1, SpareToken, FS_EmptySet, Zenon
    <3>2. Len(lh) <= OpBlocks \/ Len(lh) + Cardinality(Reserve) <= LOGSIZE - 1
      BY <2>1, <1>1, LogAssumption DEF SpaceInv
    <3>3. QED
      BY <3>1, <3>2, <1>1, LogAssumption DEF ReservationFits
  <2>2. CASE Active # {p}
    <3>1. PICK q \in Active : q # p
      BY <2>2
    <3> DEFINE s == <<p, MAXOPBLOCKS>>
               t == <<q, MAXOPBLOCKS>>
    <3>2. {s, t} \subseteq Reserve /\ s # t
      BY <3>1, SpareToken
    <3>3. Cardinality({s, t}) = 2
      <4> HIDE DEF s, t
      <4>1. {s, t} = {s} \cup {t} /\ t \notin {s}
        BY <3>2
      <4>2. IsFiniteSet({s}) /\ Cardinality({s}) = 1
        BY FS_Singleton, Zenon
      <4>3. Cardinality({s} \cup {t}) = 1 + 1
        BY <4>1, <4>2, FS_AddElement
      <4>4. QED
        BY <4>1, <4>3
    <3>4. Cardinality(Reserve) >= 2
      BY <3>2, <3>3, <1>1, FS_Subset
    <3>5. QED
      BY <3>4, <1>1, LogAssumption DEF SpaceInv
  <2>3. QED
    BY <2>1, <2>2
<1>4. QED
  BY <1>1, <1>2, <1>3, LogAssumption DEF LogFull, ReservationFits

(* Nothing is reserved or logged by a step that keeps these variables. *)
LEMMA SpaceFrame ==
  ASSUME SpaceInv, UNCHANGED <<lh, wrote, panicked>>, Active' = Active,
         stage' = "up" => stage = "up" \/ lh = <<>>
  PROVE  SpaceInv'
<1>1. Reserve' = Reserve /\ LogBlocks' = LogBlocks
  BY DEF Reserve, LogBlocks
<1>2. QED
  BY <1>1 DEF SpaceInv

LEMMA SpaceEnter ==
  ASSUME IInv, IInv', SpaceInv, ReservationFits, NEW p \in Proc, begin_op_enter(p)
  PROVE  SpaceInv'
<1> USE DEF IInv
<1>1. /\ UNCHANGED <<lh, panicked, stage>> /\ Active' = Active \cup {p} /\ p \notin Active
      /\ wrote' = [wrote EXCEPT ![p] = {}]
      /\ Len(lh) + (outstanding + 1) * MAXOPBLOCKS <= LOGSIZE
  BY LogAssumption DEF begin_op_enter, MustWait, Active, TypeOK
<1>2. outstanding' = outstanding + 1 /\ outstanding' = Cardinality(Active')
  BY DEF begin_op_enter, CtlInv
<1>3. Cardinality(Reserve') <= Cardinality(Active') * MAXOPBLOCKS /\ Cardinality(Reserve') \in Nat
  <2>1. IsFiniteSet(Active') /\ Cardinality(Active') \in Nat
    <3>1. Active' \subseteq Proc
      BY DEF Active
    <3>2. QED
      BY <3>1, LogAssumption, FS_Subset, FS_CardinalityType
  <2>2. IsFiniteSet(1..MAXOPBLOCKS) /\ Cardinality(1..MAXOPBLOCKS) = MAXOPBLOCKS
    BY FS_Interval, LogAssumption
  <2>3. /\ IsFiniteSet(Active' \X (1..MAXOPBLOCKS))
        /\ Cardinality(Active' \X (1..MAXOPBLOCKS)) = Cardinality(Active') * MAXOPBLOCKS
    BY <2>1, <2>2, FS_Product, Zenon
  <2>4. Reserve' \subseteq Active' \X (1..MAXOPBLOCKS)
    BY DEF Reserve
  <2>5. QED
    BY <2>3, <2>4, FS_Subset, FS_CardinalityType
<1>4. Len(lh) \in Nat /\ Len(lh) + Cardinality(Reserve') <= LOGSIZE
  <2>1. Len(lh) \in Nat
    BY DEF TypeOK
  <2>2. Cardinality(Reserve') <= (outstanding + 1) * MAXOPBLOCKS
    BY <1>2, <1>3
  <2>3. (outstanding + 1) * MAXOPBLOCKS \in Nat
    BY LogAssumption DEF TypeOK
  <2>4. QED
    BY <2>1, <2>2, <2>3, <1>1, <1>3, LogAssumption
<1>5. \A q \in Active' : wrote'[q] \subseteq LogBlocks' /\ Cardinality(wrote'[q]) <= OpBlocks
  <2>1. LogBlocks' = LogBlocks
    BY <1>1 DEF LogBlocks
  <2>2. wrote'[p] = {} /\ \A q \in Proc : q # p => wrote'[q] = wrote[q]
    BY <1>1 DEF TypeOK
  <2>3. \A q \in Active : wrote'[q] \subseteq LogBlocks' /\ Cardinality(wrote'[q]) <= OpBlocks
    BY <1>1, <2>1, <2>2 DEF SpaceInv, Active
  <2>4. wrote'[p] \subseteq LogBlocks' /\ Cardinality(wrote'[p]) <= OpBlocks
    BY <2>2, FS_EmptySet, LogAssumption
  <2>5. QED
    BY <1>1, <2>3, <2>4
<1>6. \A q \in Proc : Active' = {q} => Len(lh) <= Cardinality(wrote'[q])
  <2> SUFFICES ASSUME NEW q \in Proc, Active' = {q} PROVE Len(lh) <= Cardinality(wrote'[q])
    OBVIOUS
  <2>1. q = p /\ Active = {}
    BY <1>1
  <2>2. stage = "up"
    BY DEF begin_op_enter, MustWait, CtlInv, TypeOK
  <2>3. Len(lh) = 0
    BY <2>1, <2>2 DEF SpaceInv
  <2>4. Cardinality(wrote'[q]) = 0
    BY <1>1, <2>1, FS_EmptySet DEF TypeOK
  <2>5. QED
    BY <2>3, <2>4
<1>7. Active' # {}
  BY <1>1
<1>8. QED
  BY <1>1, <1>4, <1>5, <1>6, <1>7 DEF SpaceInv

LEMMA SpaceWrite ==
  ASSUME IInv, SpaceInv, ReservationFits,
         NEW p \in Proc, NEW b \in Block, NEW v \in Data, log_write(p, b, v)
  PROVE  SpaceInv'
<1> USE DEF IInv
<1> DEFINE k == Cardinality(wrote[p])
<1>1. /\ UNCHANGED <<pc, panicked, stage>> /\ Active' = Active /\ p \in Active
      /\ wrote' = [wrote EXCEPT ![p] = @ \cup {b}]
      /\ Cardinality(wrote[p] \cup {b}) <= OpBlocks
      /\ log_append(b)
  BY DEF log_write, WithinOp, Active
<1>2. /\ IsFiniteSet(wrote[p]) /\ k \in Nat /\ k <= OpBlocks /\ wrote[p] \subseteq LogBlocks
      /\ IsFiniteSet(Reserve) /\ Cardinality(Reserve) \in Nat /\ Len(lh) \in Nat
  BY <1>1, WroteFinite, ReserveFinite DEF SpaceInv, TypeOK
<1>3. wrote'[p] = wrote[p] \cup {b} /\ \A q \in Proc : q # p => wrote'[q] = wrote[q]
  BY <1>1 DEF TypeOK
<1>4. CASE b \in wrote[p]
  <2>1. lh' = lh
    BY <1>1, <1>2, <1>4 DEF log_append
  <2>2. wrote' = wrote
    BY <1>1, <1>4 DEF TypeOK
  <2>3. QED
    BY <1>1, <2>1, <2>2, SpaceFrame
<1>5. CASE b \notin wrote[p]
  <2>1. Cardinality(wrote'[p]) = k + 1 /\ k + 1 <= OpBlocks
    BY <1>1, <1>2, <1>3, <1>5, FS_AddElement, Zenon
  <2>2. Reserve' = Reserve \ {<<p, k + 1>>} /\ <<p, k + 1>> \in Reserve
    <3>1. k + 1 \in 1..MAXOPBLOCKS
      BY <1>2, <2>1, LogAssumption DEF ReservationFits
    <3>2. <<p, k + 1>> \in Reserve
      BY <3>1, <1>1, <1>2 DEF Reserve
    <3>3. \A q \in Active, i \in 1..MAXOPBLOCKS :
             (<<q, i>> \in Reserve') <=> (<<q, i>> \in Reserve /\ <<q, i>> # <<p, k + 1>>)
      <4> SUFFICES ASSUME NEW q \in Active, NEW i \in 1..MAXOPBLOCKS
                   PROVE  (<<q, i>> \in Reserve') <=> (<<q, i>> \in Reserve /\ <<q, i>> # <<p, k + 1>>)
        OBVIOUS
      <4>1. /\ (<<q, i>> \in Reserve) <=> (i > Cardinality(wrote[q]))
            /\ (<<q, i>> \in Reserve') <=> (i > Cardinality(wrote'[q]))
        BY <1>1 DEF Reserve
      <4>2. i \in Nat /\ q \in Proc
        BY LogAssumption DEF Active
      <4>3. CASE q = p
        <5>1. (i > k + 1) <=> (i > k /\ i # k + 1)
          BY <4>2, <1>2
        <5>2. QED
          BY <4>1, <4>3, <5>1, <2>1
      <4>4. CASE q # p
        BY <4>1, <4>2, <4>4, <1>3
      <4>5. QED
        BY <4>3, <4>4
    <3>4. Reserve \subseteq Active \X (1..MAXOPBLOCKS) /\ Reserve' \subseteq Active \X (1..MAXOPBLOCKS)
      BY <1>1 DEF Reserve
    <3>5. QED
      BY <3>2, <3>3, <3>4
  <2>3. Cardinality(Reserve') = Cardinality(Reserve) - 1
    <3> DEFINE t == <<p, k + 1>>
    <3>1. Reserve' = Reserve \ {t} /\ t \in Reserve
      BY <2>2
    <3> HIDE DEF t
    <3>2. Cardinality(Reserve \ {t}) = Cardinality(Reserve) - 1
      BY <1>2, <3>1, FS_RemoveElement, Zenon
    <3>3. QED
      BY <3>1, <3>2
  <2>4. /\ Len(lh') \in Nat /\ Len(lh') <= Len(lh) + 1
        /\ LogBlocks \subseteq LogBlocks' /\ b \in LogBlocks'
    <3>1. CASE b \in LogBlocks
      BY <1>1, <1>2, <3>1 DEF log_append, LogBlocks
    <3>2. CASE b \notin LogBlocks
      <4>1. lh' = Append(lh, b) /\ lh \in Seq(Block)
        BY <1>1, <3>2 DEF log_append, TypeOK
      <4>2. Len(lh') = Len(lh) + 1 /\ lh'[Len(lh) + 1] = b
            /\ \A i \in 1..Len(lh) : lh'[i] = lh[i]
        BY <4>1
      <4>3. QED
        BY <4>2, <1>2 DEF LogBlocks
    <3>3. QED
      BY <3>1, <3>2
  <2>5. \A q \in Active' : wrote'[q] \subseteq LogBlocks' /\ Cardinality(wrote'[q]) <= OpBlocks
    BY <1>1, <1>3, <2>1, <2>4 DEF SpaceInv, Active
  <2>6. Active # {} /\ Len(lh') + Cardinality(Reserve') <= LOGSIZE
    BY <1>1, <1>2, <2>3, <2>4, LogAssumption DEF SpaceInv
  <2>7. \A q \in Proc : Active' = {q} =>
          \/ Len(lh') <= Cardinality(wrote'[q])
          \/ Len(lh') + Cardinality(Reserve') <= LOGSIZE - 1
    <3> SUFFICES ASSUME NEW q \in Proc, Active' = {q}
                 PROVE  \/ Len(lh') <= Cardinality(wrote'[q])
                        \/ Len(lh') + Cardinality(Reserve') <= LOGSIZE - 1
      OBVIOUS
    <3>1. q = p /\ Active = {p}
      BY <1>1
    <3>2. Len(lh) <= k \/ Len(lh) + Cardinality(Reserve) <= LOGSIZE - 1
      BY <3>1 DEF SpaceInv
    <3>3. QED
      BY <3>1, <3>2, <1>2, <2>1, <2>3, <2>4, LogAssumption
  <2>8. QED
    BY <1>1, <2>5, <2>6, <2>7, Zenon DEF SpaceInv
<1>6. QED
  BY <1>4, <1>5

LEMMA SpaceLeave ==
  ASSUME IInv, SpaceInv, ReservationFits, NEW p \in Proc, end_op_leave(p)
  PROVE  SpaceInv'
<1> USE DEF IInv
<1>1. /\ UNCHANGED <<lh, wrote, stage, committing>> /\ panicked' = committing /\ p \in Active
      /\ outstanding' = outstanding - 1 /\ outstanding > 1
  BY DEF end_op_leave, Active
<1>2. ~committing /\ stage = "up"
  BY <1>1, QuietCommit DEF CtlInv, Committing
<1>3. Active' = Active \ {p}
  <2>1. pc' = wakeup([pc EXCEPT ![p] = "idle"])
    BY DEF end_op_leave
  <2>2. \A q \in Proc : (pc'[q] = "op") <=> (q # p /\ pc[q] = "op")
    BY <2>1, LeaveWakes, Zenon
  <2>3. QED
    BY <2>2 DEF Active
<1>4. Active' # {}
  <2>1. Cardinality(Active \ {p}) = Cardinality(Active) - 1
    BY <1>1, ActiveFinite, FS_RemoveElement
  <2>2. outstanding = Cardinality(Active) /\ outstanding \in Nat
    BY <1>2 DEF CtlInv, TypeOK
  <2>3. Cardinality(Active \ {p}) # 0
    BY <1>1, <2>1, <2>2
  <2>4. QED
    BY <1>3, <2>3, FS_EmptySet
<1>5. Cardinality(Reserve') \in Nat /\ Cardinality(Reserve') <= Cardinality(Reserve) - 1
  <2>1. Reserve' \subseteq Reserve \ {<<p, MAXOPBLOCKS>>}
    BY <1>1, <1>3 DEF Reserve
  <2>2. /\ IsFiniteSet(Reserve \ {<<p, MAXOPBLOCKS>>})
        /\ Cardinality(Reserve \ {<<p, MAXOPBLOCKS>>}) = Cardinality(Reserve) - 1
    BY <1>1, SpareToken, ReserveFinite, FS_RemoveElement, Zenon
  <2>3. QED
    BY <2>1, <2>2, FS_Subset, FS_CardinalityType
<1>6. /\ Len(lh) + Cardinality(Reserve') <= LOGSIZE - 1
      /\ Len(lh) + Cardinality(Reserve') <= LOGSIZE
  <2>1. Len(lh) \in Nat /\ LOGSIZE \in Nat
    BY LogAssumption DEF TypeOK
  <2>2. Cardinality(Reserve) \in Nat
    BY ReserveFinite
  <2>3. Len(lh) + Cardinality(Reserve) <= LOGSIZE
    BY <1>1 DEF SpaceInv
  <2>4. QED
    BY <1>5, <2>1, <2>2, <2>3
<1>7. \A q \in Active' : wrote'[q] \subseteq LogBlocks' /\ Cardinality(wrote'[q]) <= OpBlocks
  BY <1>1, <1>3 DEF SpaceInv, LogBlocks
<1>8. QED
  BY <1>1, <1>2, <1>4, <1>6, <1>7 DEF SpaceInv

(* Once every call has ended nothing is reserved. *)
LEMMA SpaceQuiet ==
  ASSUME Active' = {}, ~panicked', stage' = "up" => lh' = <<>>
  PROVE  SpaceInv'
BY DEF SpaceInv

LEMMA SpaceNext ==
  ASSUME IInv, IInv', SpaceInv, ReservationFits, [Next]_vars
  PROVE  SpaceInv'
<1> USE DEF IInv
<1>1. ASSUME NEW p \in Proc, ProcStep(p) PROVE SpaceInv'
  <2>1. CASE syscall(p) \/ begin_op_sleep(p) \/ kill(p)
    <3>1. \A q \in Proc : (pc'[q] = "op") <=> (pc[q] = "op")
      BY <2>1 DEF syscall, begin_op_sleep, kill, TypeOK
    <3>2. QED
      BY <2>1, <3>1, ActiveSame, SpaceFrame DEF syscall, begin_op_sleep, kill, logv
  <2>2. CASE begin_op_enter(p)
    BY <2>2, SpaceEnter
  <2>3. ASSUME NEW b \in Block, NEW v \in Data, log_write(p, b, v) PROVE SpaceInv'
    BY <2>3, SpaceWrite
  <2>4. ASSUME NEW b \in Block, log_write_panic(p, b) PROVE FALSE
    <3>1. p \in Active /\ (LogFull \/ outstanding < 1)
      BY <2>4 DEF log_write_panic, WithinOp, Active
    <3>2. QED
      BY <3>1, RoomLeft DEF TypeOK
  <2>5. CASE end_op_leave(p)
    BY <2>5, SpaceLeave
  <2>6. CASE end_op_last(p)
    <3>1. p \in Active
      BY <2>6 DEF end_op_last, Active
    <3>2. ~committing
      BY <3>1, QuietCommit DEF CtlInv, Committing
    <3>3. stage' # "up" /\ ~panicked'
      BY <2>6, <3>2 DEF end_op_last, CommitStart
    <3>4. Active' = {}
      <4>1. outstanding' = 0 /\ outstanding' = Cardinality(Active') /\ Active' \subseteq Proc
        BY <2>6 DEF end_op_last, CtlInv, Active
      <4>2. IsFiniteSet(Active')
        BY <4>1, LogAssumption, FS_Subset
      <4>3. QED
        BY <4>1, <4>2, FS_EmptySet
    <3>5. QED
      BY <3>3, <3>4, SpaceQuiet
  <2>7. CASE end_op_finish(p)
    <3>1. Active = {} /\ lh = <<>>
      BY <2>7, QuietCommit DEF end_op_finish, HeadInv
    <3>2. \A q \in Proc : (pc'[q] = "op") <=> (pc[q] = "op")
      BY <2>7, FinishKeepsOps
    <3>3. lh' = lh /\ ~panicked'
      BY <2>7 DEF end_op_finish, LockFree
    <3>4. Active' = {}
      BY <3>1, <3>2 DEF Active
    <3>5. QED
      BY <3>1, <3>3, <3>4, SpaceQuiet
  <2>8. QED
    BY <1>1, <2>1, <2>2, <2>3, <2>4, <2>5, <2>6, <2>7 DEF ProcStep
<1>2. CASE LogStep
  <2>1. Active = {}
    <3>1. stage # "up"
      <4>1. write_log => stage = "write_log"
        BY DEF write_log
      <4>2. write_head => stage = "write_head"
        BY DEF write_head
      <4>3. commit_install => stage = "install"
        BY DEF commit_install
      <4>4. commit_clear => stage = "clear"
        BY DEF commit_clear
      <4>5. read_head => stage = "read_head"
        BY DEF read_head
      <4>6. recover_install => stage = "r_install"
        BY DEF recover_install
      <4>7. recover_clear => stage = "r_clear"
        BY DEF recover_clear
      <4>8. QED
        BY <1>2, <4>1, <4>2, <4>3, <4>4, <4>5, <4>6, <4>7 DEF LogStep
    <3>2. QED
      BY <3>1, QuietCommit
  <2>2. pc' = pc /\ panicked' = panicked /\ (stage' = "up" => lh' = <<>>)
    BY <1>2 DEF LogStep, write_log, write_head, commit_install, commit_clear, read_head,
                recover_install, recover_clear, install_trans, Advance, ClearHead
  <2>3. QED
    BY <2>1, <2>2, SpaceQuiet DEF Active, SpaceInv
<1>3. ASSUME NEW b \in Block, fill(b) \/ recycle(b) PROVE SpaceInv'
  BY <1>3, SpaceFrame DEF fill, recycle, logv, Active
<1>4. CASE crash
  <2>1. Active' = {}
    BY <1>4 DEF crash, Active
  <2>2. QED
    BY <1>4, <2>1, SpaceQuiet DEF crash
<1>5. CASE UNCHANGED vars
  BY <1>5, SpaceFrame DEF vars, logv, Active
<1>6. QED
  BY <1>1, <1>2, <1>3, <1>4, <1>5 DEF Next

(* NoPanic: as long as every call logs fewer than MAXOPBLOCKS distinct       *)
(* blocks, the test of begin_op() rules out every panic of log.c, although   *)
(* the log area holds one block less than begin_op() thinks.                 *)
THEOREM ReservationSuffices ==
  ASSUME ReservationFits
  PROVE  Spec => []NoPanic
<1>1. Init => SpaceInv
  BY DEF Init, SpaceInv, Active
<1>2. IInv /\ IInv' /\ SpaceInv /\ [Next]_vars => SpaceInv'
  BY SpaceNext
<1>3. SpaceInv => NoPanic
  BY DEF SpaceInv, NoPanic
<1>4. QED
  BY <1>1, <1>2, <1>3, Inductive, PTL DEF Spec
=============================================================================
