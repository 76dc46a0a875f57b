-------------------------------- MODULE Log ---------------------------------
(***************************************************************************)
(* The write-ahead redo log of kernel/log.c, on top of the buffer cache    *)
(* (whose reference counts keep logged blocks in memory) and of a disk     *)
(* that may lose power at any point, in the middle of a block write too.   *)
(*                                                                         *)
(* A step is what log.c does under log.lock, or one synchronous bwrite().  *)
(* The lock itself is not a variable: sleep() and release() are the only   *)
(* ways to leave a critical section, and each action ends at one of them.  *)
(***************************************************************************)
EXTENDS Integers, Sequences, FiniteSets

CONSTANTS
  Proc,          \* processes that make file-system calls
  Block,         \* block numbers outside the log area
  Data,          \* block contents that a file-system call writes
  NoData,        \* "this block has no buffer"
  Junk,          \* contents no call wrote: a fresh log block or a torn write
  LOGSIZE,       \* param.h: entries of logheader.block[]
  MAXOPBLOCKS,   \* param.h: blocks begin_op() reserves for one call
  NLOG,          \* superblock.nlog: blocks of the log area, header included
  OpBlocks,      \* distinct blocks that a call really logs, at most
  MaxOps,        \* bound: file-system calls in a behaviour
  MaxCrashes     \* bound: crashes in a behaviour

ASSUME LogAssumption ==
  /\ LOGSIZE \in Nat /\ MAXOPBLOCKS \in Nat /\ NLOG \in Nat /\ OpBlocks \in Nat
  /\ NLOG >= 1
  /\ OpBlocks <= MAXOPBLOCKS
  /\ MaxOps \in Nat /\ MaxCrashes \in Nat
  /\ IsFiniteSet(Proc) /\ IsFiniteSet(Block)
  /\ NoData \notin Data /\ Junk \notin Data /\ NoData # Junk

VARIABLES
  home, dlog, dhead,              \* disk: home blocks, log blocks, log header
  cache, pin,                     \* buffer contents and log references
  lh, outstanding, committing,    \* struct log
  pc, wrote,                      \* per process: where it is, what it logged
  stage, tail,                    \* the one running commit() or recovery
  panicked,                       \* a CPU stopped in panic(), holding log.lock
  nops, ncrash                    \* bounded counters

disk == <<home, dlog, dhead>>
bufs == <<cache, pin>>
logv == <<lh, outstanding, committing>>
vars == <<disk, bufs, logv, pc, wrote, stage, tail, panicked, nops, ncrash>>

Recovering == {"read_head", "r_install", "r_clear"}
Committing == {"write_log", "write_head", "install", "clear", "finish"}

LogBlocks == {lh[i] : i \in 1..Len(lh)}

-----------------------------------------------------------------------------
(* The parts of other files that log.c calls. *)

bread(b) == IF cache[b] = NoData THEN home[b] ELSE cache[b]

\* mutant: the log does not pin the block
bpin_none(b) == UNCHANGED pin

bpin(b) == pin' = [pin EXCEPT ![b] = @ + 1]

\* mutant: the log does not give the pin back
bunpin_none(b) == UNCHANGED pin

bunpin(b) == pin' = [pin EXCEPT ![b] = @ - 1]

\* mutant: the wakeup is forgotten
wakeup_none(f) == f

(* pc with every process that sleeps on &log made runnable again *)
wakeup(f) == [q \in Proc |-> IF f[q] = "sleep" THEN "begin" ELSE f[q]]

-----------------------------------------------------------------------------
Init ==
  /\ home \in [Block -> Data]
  /\ dlog = [i \in 1..(NLOG - 1) |-> Junk]
  /\ dhead = <<>>
  /\ cache = [b \in Block |-> NoData]
  /\ pin = [b \in Block |-> 0]
  /\ lh = <<>> /\ outstanding = 0 /\ committing = FALSE
  /\ pc = [p \in Proc |-> "idle"]
  /\ wrote = [p \in Proc |-> {}]
  /\ stage = "read_head" /\ tail = 0
  /\ panicked = FALSE
  /\ nops = 0 /\ ncrash = 0

(* A file-system call reaches begin_op(). *)
syscall(p) ==
  /\ pc[p] = "idle" /\ stage \notin Recovering /\ nops < MaxOps
  /\ pc' = [pc EXCEPT ![p] = "begin"]
  /\ nops' = nops + 1
  /\ UNCHANGED <<disk, bufs, logv, wrote, stage, tail, panicked, ncrash>>

(* A panic under log.lock leaves it held for ever; otherwise it is free     *)
(* between two steps.                                                       *)
LockFree == ~panicked

\* mutant: the call that asks is not counted in the reservation
MustWait_OffByOne == committing \/ Len(lh) + outstanding * MAXOPBLOCKS > LOGSIZE

(* begin_op's two reasons to wait *)
MustWait == committing \/ Len(lh) + (outstanding + 1) * MAXOPBLOCKS > LOGSIZE

begin_op_sleep(p) ==
  /\ pc[p] = "begin" /\ LockFree /\ MustWait
  /\ pc' = [pc EXCEPT ![p] = "sleep"]
  /\ UNCHANGED <<disk, bufs, logv, wrote, stage, tail, panicked, nops, ncrash>>

begin_op_enter(p) ==
  /\ pc[p] = "begin" /\ LockFree /\ ~MustWait
  /\ outstanding' = outstanding + 1
  /\ pc' = [pc EXCEPT ![p] = "op"]
  /\ wrote' = [wrote EXCEPT ![p] = {}]
  /\ UNCHANGED <<disk, bufs, lh, committing, stage, tail, panicked, nops, ncrash>>

(* kill() makes a sleeping process runnable although nobody woke &log. *)
kill(p) ==
  /\ pc[p] = "sleep"
  /\ pc' = [pc EXCEPT ![p] = "begin"]
  /\ UNCHANGED <<disk, bufs, logv, wrote, stage, tail, panicked, nops, ncrash>>

(* log_write's first test comes before absorption is tried *)
LogFull == Len(lh) >= LOGSIZE \/ Len(lh) >= NLOG - 1

WithinOp(p, b) ==
  pc[p] = "op" /\ LockFree /\ Cardinality(wrote[p] \cup {b}) <= OpBlocks

(* the header entry and the pin of a block that is not in the log yet *)
log_append(b) ==
  IF b \in LogBlocks
    THEN UNCHANGED <<lh, pin>>
    ELSE bpin(b) /\ lh' = Append(lh, b)

(* A call modifies the locked buffer of b, then calls log_write(). *)
log_write(p, b, v) ==
  /\ WithinOp(p, b) /\ ~LogFull /\ outstanding >= 1
  /\ log_append(b)
  /\ cache' = [cache EXCEPT ![b] = v]
  /\ wrote' = [wrote EXCEPT ![p] = @ \cup {b}]
  /\ UNCHANGED <<disk, outstanding, committing, pc, stage, tail, panicked,
                 nops, ncrash>>

log_write_panic(p, b) ==
  /\ WithinOp(p, b) /\ (LogFull \/ outstanding < 1)
  /\ panicked' = TRUE
  /\ UNCHANGED <<disk, bufs, logv, pc, wrote, stage, tail, nops, ncrash>>

(* end_op() of a call that is not the last: its reservation is given up. *)
end_op_leave(p) ==
  /\ pc[p] = "op" /\ LockFree /\ outstanding > 1
  /\ outstanding' = outstanding - 1
  /\ panicked' = committing
  /\ pc' = wakeup([pc EXCEPT ![p] = "idle"])
  /\ UNCHANGED <<disk, bufs, lh, committing, wrote, stage, tail, nops, ncrash>>

\* mutant: commit() tests lh.n > 1
CommitStart_OffByOne == IF Len(lh) > 1 THEN "write_log" ELSE "finish"

(* commit() does nothing for an empty transaction *)
CommitStart == IF Len(lh) > 0 THEN "write_log" ELSE "finish"

(* end_op() of the last call: it runs commit(). *)
end_op_last(p) ==
  /\ pc[p] = "op" /\ LockFree /\ outstanding = 1
  /\ outstanding' = 0
  /\ panicked' = committing
  /\ committing' = TRUE
  /\ pc' = [pc EXCEPT ![p] = "commit"]
  /\ stage' = CommitStart
  /\ tail' = 0
  /\ UNCHANGED <<disk, bufs, lh, wrote, nops, ncrash>>

(* One iteration of a loop over the header's entries. *)
Advance(this, after) ==
  /\ stage' = IF tail + 1 = Len(lh) THEN after ELSE this
  /\ tail' = IF tail + 1 = Len(lh) THEN 0 ELSE tail + 1

write_log ==
  /\ stage = "write_log"
  /\ LET b == lh[tail + 1]
     IN  /\ dlog' = [dlog EXCEPT ![tail + 1] = bread(b)]
         /\ cache' = [cache EXCEPT ![b] = bread(b)]
  /\ Advance("write_log", "write_head")
  /\ UNCHANGED <<home, dhead, pin, logv, pc, wrote, panicked, nops, ncrash>>

(* The commit point. *)
write_head ==
  /\ stage = "write_head"
  /\ dhead' = lh
  /\ stage' = "install"
  /\ UNCHANGED <<home, dlog, bufs, logv, pc, wrote, tail, panicked, nops, ncrash>>

\* mutant: recovery unpins as commit() does
install_trans_unpin(recovering) ==
  LET b == lh[tail + 1] IN
  /\ cache' = [cache EXCEPT ![b] = dlog[tail + 1]]
  /\ home' = [home EXCEPT ![b] = dlog[tail + 1]]
  /\ bunpin(b)
  /\ UNCHANGED <<dlog, dhead, logv, pc, wrote, panicked, nops, ncrash>>

(* One block copied from the log to its home, in commit() or in recovery. *)
install_trans(recovering) ==
  LET b == lh[tail + 1] IN
  /\ cache' = [cache EXCEPT ![b] = dlog[tail + 1]]
  /\ home' = [home EXCEPT ![b] = dlog[tail + 1]]
  /\ IF recovering THEN UNCHANGED pin ELSE bunpin(b)
  /\ UNCHANGED <<dlog, dhead, logv, pc, wrote, panicked, nops, ncrash>>

commit_install ==
  /\ stage = "install"
  /\ install_trans(FALSE)
  /\ Advance("install", "clear")

(* lh.n = 0 and the write_head() that erases the transaction *)
ClearHead(after) ==
  /\ lh' = <<>> /\ dhead' = <<>>
  /\ stage' = after
  /\ UNCHANGED <<home, dlog, bufs, outstanding, committing, pc, wrote, tail,
                 panicked, nops, ncrash>>

commit_clear == stage = "clear" /\ ClearHead("finish")

(* The end of end_op() after commit() *)
end_op_finish(p) ==
  /\ pc[p] = "commit" /\ LockFree /\ stage = "finish"
  /\ committing' = FALSE
  /\ stage' = "up"
  /\ pc' = wakeup([pc EXCEPT ![p] = "idle"])
  /\ UNCHANGED <<disk, bufs, lh, outstanding, wrote, tail, panicked, nops, ncrash>>

\* mutant: the on-disk header is erased before the blocks are installed
read_head_erase ==
  /\ stage = "read_head"
  /\ lh' = dhead /\ dhead' = <<>>
  /\ stage' = IF Len(dhead) > 0 THEN "r_install" ELSE "r_clear"
  /\ UNCHANGED <<home, dlog, bufs, outstanding, committing, pc, wrote, tail, panicked,
                 nops, ncrash>>

(* initlog() at boot: recover_from_log() *)
read_head ==
  /\ stage = "read_head"
  /\ lh' = dhead
  /\ stage' = IF Len(dhead) > 0 THEN "r_install" ELSE "r_clear"
  /\ UNCHANGED <<disk, bufs, outstanding, committing, pc, wrote, tail, panicked,
                 nops, ncrash>>

recover_install ==
  /\ stage = "r_install"
  /\ install_trans(TRUE)
  /\ Advance("r_install", "r_clear")

recover_clear == stage = "r_clear" /\ ClearHead("up")

(* A read outside the log fills the cache; bget() recycles an unused buffer. *)
fill(b) ==
  /\ stage \notin Recovering /\ cache[b] = NoData
  /\ cache' = [cache EXCEPT ![b] = home[b]]
  /\ UNCHANGED <<disk, pin, logv, pc, wrote, stage, tail, panicked, nops, ncrash>>

recycle(b) ==
  /\ cache[b] # NoData /\ pin[b] = 0
  /\ cache' = [cache EXCEPT ![b] = NoData]
  /\ UNCHANGED <<disk, pin, logv, pc, wrote, stage, tail, panicked, nops, ncrash>>

(* Power is lost: memory is gone, and the data block that was being written *)
(* may be torn.  The header is 124 bytes, one sector, and is never torn.    *)
TornLog ==
  IF stage = "write_log" THEN {dlog, [dlog EXCEPT ![tail + 1] = Junk]} ELSE {dlog}

TornHome ==
  IF stage \in {"install", "r_install"}
    THEN {home, [home EXCEPT ![lh[tail + 1]] = Junk]} ELSE {home}

crash ==
  /\ ncrash < MaxCrashes
  /\ ncrash' = ncrash + 1
  /\ dlog' \in TornLog /\ home' \in TornHome
  /\ cache' = [b \in Block |-> NoData]
  /\ pin' = [b \in Block |-> 0]
  /\ lh' = <<>> /\ outstanding' = 0 /\ committing' = FALSE
  /\ pc' = [p \in Proc |-> "idle"]
  /\ wrote' = [p \in Proc |-> {}]
  /\ stage' = "read_head" /\ tail' = 0
  /\ panicked' = FALSE
  /\ UNCHANGED <<dhead, nops>>

ProcStep(p) ==
  \/ syscall(p) \/ begin_op_sleep(p) \/ begin_op_enter(p) \/ kill(p)
  \/ \E b \in Block, v \in Data : log_write(p, b, v)
  \/ \E b \in Block : log_write_panic(p, b)
  \/ end_op_leave(p) \/ end_op_last(p) \/ end_op_finish(p)

LogStep ==
  \/ write_log \/ write_head \/ commit_install \/ commit_clear
  \/ read_head \/ recover_install \/ recover_clear

Next ==
  \/ \E p \in Proc : ProcStep(p)
  \/ LogStep
  \/ \E b \in Block : fill(b) \/ recycle(b)
  \/ crash

Spec == Init /\ [][Next]_vars

(* A runnable process runs (scheduler() is round-robin and log.lock is held  *)
(* for bounded time), a call reaches its end_op(), and disk writes complete. *)
Moves(p) ==
  \/ begin_op_sleep(p) \/ begin_op_enter(p)
  \/ end_op_leave(p) \/ end_op_last(p) \/ end_op_finish(p)

Fairness == WF_vars(LogStep) /\ \A p \in Proc : WF_vars(Moves(p))

FairSpec == Spec /\ Fairness

-----------------------------------------------------------------------------
DiskData == Data \cup {Junk}

(* Types; the log never outgrows the blocks of its on-disk area. *)
TypeOK ==
  /\ home \in [Block -> DiskData]
  /\ dlog \in [1..(NLOG - 1) -> DiskData]
  /\ dhead \in Seq(Block) /\ Len(dhead) <= NLOG - 1
  /\ cache \in [Block -> DiskData \cup {NoData}]
  /\ pin \in [Block -> Nat]
  /\ lh \in Seq(Block) /\ Len(lh) <= NLOG - 1
  /\ outstanding \in Nat /\ committing \in BOOLEAN
  /\ pc \in [Proc -> {"idle", "begin", "sleep", "op", "commit"}]
  /\ wrote \in [Proc -> SUBSET Block]
  /\ stage \in Recovering \cup Committing \cup {"up"}
  /\ tail \in Nat
  /\ panicked \in BOOLEAN
  /\ nops \in Nat /\ ncrash \in Nat

(* Blocks h, overlaid with the blocks d that header hd lists *)
Overlay(h, d, hd) ==
  [b \in Block |->
     IF \E i \in 1..Len(hd) : hd[i] = b
       THEN d[CHOOSE i \in 1..Len(hd) : hd[i] = b]
       ELSE h[b]]

(* What recover_from_log() would leave on the disk after a crash now *)
Recovered == Overlay(home, dlog, dhead)

(* What a bread() of each block returns *)
View == [b \in Block |-> bread(b)]

Tx == INSTANCE TxDisk WITH
        durable <- Recovered,
        current <- IF stage \in Recovering THEN Recovered ELSE View,
        active  <- {p \in Proc : pc[p] = "op"}

(* Crash atomicity: log.c, its buffers and its recovery implement the        *)
(* transactional disk.  A commit happens in one disk write, only when no     *)
(* call is between begin_op() and end_op(); a crash at any point, in the     *)
(* middle of a block write or of another recovery, loses what was not        *)
(* committed and nothing else; install, recycling and re-reading of buffers  *)
(* never change what a read returns.                                         *)
CrashAtomic == Tx!Spec

(* When the call that ran commit() leaves end_op(), everything that any      *)
(* call has logged so far is durable.                                        *)
EndOpDurable == stage = "finish" => Recovered = View

(* The reservation of begin_op() is enough: neither log_write() ("too big a  *)
(* transaction", "log_write outside of trans") nor end_op()                  *)
(* ("log.committing") ever panics.                                           *)
NoPanic == ~panicked

(* Pins and log entries correspond one to one, so commit() gives back every  *)
(* buffer that log_write() pinned and only those; recovery pins nothing.     *)
PinsMatchLog ==
  \A b \in Block :
    pin[b] = Cardinality({i \in 1..Len(lh) :
               /\ lh[i] = b
               /\ stage \notin Recovering \cup {"clear"}
               /\ stage = "install" => i > tail})

(* A process that waits in begin_op() for a commit or for log space gets in  *)
(* once the others stop making calls (MaxOps bounds them): end_op() wakes    *)
(* everyone, and nothing orders the woken, so that an endless stream of      *)
(* other calls could overtake it.                                            *)
BeginOpAdmitted ==
  \A p \in Proc : pc[p] \in {"begin", "sleep"} ~> pc[p] \notin {"begin", "sleep"}

(* After the last of several power failures, the later ones in the middle of *)
(* a recovery that is installing blocks, recover_from_log() ends, and then   *)
(* every home block that a commit or a recovery was writing when power       *)
(* failed has been repaired and the on-disk header is empty.                 *)
RecoveryEnds ==
  stage = "read_head" ~> stage = "up" /\ dhead = <<>> /\ \A b \in Block : home[b] # Junk
=============================================================================
