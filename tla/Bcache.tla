------------------------------- MODULE Bcache -------------------------------
(***************************************************************************)
(* The buffer cache of kernel/bio.c with the sleep-locks of sleeplock.c.   *)
(*                                                                         *)
(* A step is one critical section of bcache.lock or of a buffer's          *)
(* sleep-lock, or one transfer by virtio_disk_rw().  The client is the     *)
(* log: a modified buffer is pinned until its contents are on the disk.    *)
(***************************************************************************)
EXTENDS Integers, Sequences, FiniteSets, Functions

CONSTANTS
  Proc,
  Killable,    \* processes that may be killed
  Buf,         \* the NBUF buffers
  Block,
  NoBlock,     \* blockno of a buffer never used (dev 0)
  Nobody,
  MaxPins,     \* bound: blocks the log pins at a time
  MaxWrites    \* bound: modifications in a behaviour

ASSUME BcacheAssumption ==
  /\ IsFiniteSet(Buf) /\ IsFiniteSet(Proc) /\ Killable \subseteq Proc
  /\ NoBlock \notin Block /\ Nobody \notin Proc \cup Buf
  /\ MaxPins \in Nat /\ MaxWrites \in Nat

VARIABLES
  blockno, valid, refcnt, data, lru,   \* bcache
  locked,                              \* sleep-lock of each buffer: its owner
  disk,                                \* contents of the disk
  pinned,                              \* buffers that the log has pinned
  pc, want, b,                         \* per process: bread(want), into b
  panicked,
  latest, nwrites                      \* history: newest contents of each block

bcache == <<blockno, valid, refcnt, lru>>
vars == <<bcache, data, locked, disk, pinned, pc, want, b, panicked, latest, nwrites>>

Init ==
  /\ blockno = [x \in Buf |-> NoBlock]
  /\ valid = [x \in Buf |-> FALSE]
  /\ refcnt = [x \in Buf |-> 0]
  /\ data = [x \in Buf |-> 0]
  /\ lru = CHOOSE s \in [1..Cardinality(Buf) -> Buf] : IsInjective(s)
  /\ locked = [x \in Buf |-> Nobody]
  /\ disk = [k \in Block |-> 0]
  /\ pinned = {}
  /\ pc = [p \in Proc |-> "idle"]
  /\ want = [p \in Proc |-> NoBlock]
  /\ b = [p \in Proc |-> Nobody]
  /\ panicked = FALSE
  /\ latest = [k \in Block |-> 0] /\ nwrites = 0

Goto(p, l) == pc' = [pc EXCEPT ![p] = l]

bread(p, k) ==
  /\ pc[p] = "idle" /\ ~panicked
  /\ want' = [want EXCEPT ![p] = k]
  /\ Goto(p, "bget")
  /\ UNCHANGED <<bcache, data, locked, disk, pinned, b, panicked, latest, nwrites>>

Cached(k) == {x \in Buf : blockno[x] = k}
Unused == {x \in Buf : refcnt[x] = 0}

bget_hit(p, x) ==
  /\ pc[p] = "bget" /\ ~panicked /\ x \in Cached(want[p])
  /\ refcnt' = [refcnt EXCEPT ![x] = @ + 1]
  /\ b' = [b EXCEPT ![p] = x]
  /\ Goto(p, "acquiresleep")
  /\ UNCHANGED <<blockno, valid, lru, data, locked, disk, pinned, want, panicked, latest, nwrites>>

\* mutant: the least recently used buffer whether it is in use or not
LeastRecent_Any(x) == lru[Len(lru)] = x

(* x is the first unused buffer from the end of the list *)
LeastRecent(x) ==
  \E i \in 1..Len(lru) :
    lru[i] = x /\ x \in Unused /\ \A j \in (i + 1)..Len(lru) : lru[j] \notin Unused

\* mutant: the block may be cached already
bget_recycle_twice(p, x) ==
  /\ pc[p] = "bget" /\ ~panicked /\ LeastRecent(x)
  /\ blockno' = [blockno EXCEPT ![x] = want[p]]
  /\ valid' = [valid EXCEPT ![x] = FALSE]
  /\ refcnt' = [refcnt EXCEPT ![x] = 1]
  /\ b' = [b EXCEPT ![p] = x]
  /\ Goto(p, "acquiresleep")
  /\ UNCHANGED <<lru, data, locked, disk, pinned, want, panicked, latest, nwrites>>

bget_recycle(p, x) ==
  /\ pc[p] = "bget" /\ ~panicked /\ Cached(want[p]) = {} /\ LeastRecent(x)
  /\ blockno' = [blockno EXCEPT ![x] = want[p]]
  /\ valid' = [valid EXCEPT ![x] = FALSE]
  /\ refcnt' = [refcnt EXCEPT ![x] = 1]
  /\ b' = [b EXCEPT ![p] = x]
  /\ Goto(p, "acquiresleep")
  /\ UNCHANGED <<lru, data, locked, disk, pinned, want, panicked, latest, nwrites>>

bget_panic(p) ==
  /\ pc[p] = "bget" /\ ~panicked /\ Cached(want[p]) = {} /\ Unused = {}
  /\ panicked' = TRUE
  /\ UNCHANGED <<bcache, data, locked, disk, pinned, pc, want, b, latest, nwrites>>

-----------------------------------------------------------------------------
(* sleeplock.c *)
acquiresleep(p) ==
  /\ pc[p] = "acquiresleep" /\ locked[b[p]] = Nobody
  /\ locked' = [locked EXCEPT ![b[p]] = p]
  /\ Goto(p, "read")
  /\ UNCHANGED <<bcache, data, disk, pinned, want, b, panicked, latest, nwrites>>

acquiresleep_wait(p) ==
  /\ pc[p] = "acquiresleep" /\ locked[b[p]] # Nobody
  /\ Goto(p, "asleep")
  /\ UNCHANGED <<bcache, data, locked, disk, pinned, want, b, panicked, latest, nwrites>>

(* kill() makes a sleeping process runnable although the lock is still held. *)
kill(p) ==
  /\ p \in Killable /\ pc[p] = "asleep"
  /\ Goto(p, "acquiresleep")
  /\ UNCHANGED <<bcache, data, locked, disk, pinned, want, b, panicked, latest, nwrites>>

\* mutant: the sleepers are not woken
releasesleep_silent(p) ==
  /\ locked' = [locked EXCEPT ![b[p]] = Nobody]
  /\ Goto(p, "brelse")

releasesleep(p) ==
  /\ locked' = [locked EXCEPT ![b[p]] = Nobody]
  /\ pc' = [q \in Proc |-> IF q = p THEN "brelse"
                           ELSE IF pc[q] = "asleep" /\ b[q] = b[p] THEN "acquiresleep"
                           ELSE pc[q]]

-----------------------------------------------------------------------------
(* The rest of bread(): the contents are read unless the buffer has them. *)
bread_disk(p) ==
  /\ pc[p] = "read" /\ ~valid[b[p]]
  /\ data' = [data EXCEPT ![b[p]] = disk[blockno[b[p]]]]
  /\ valid' = [valid EXCEPT ![b[p]] = TRUE]
  /\ Goto(p, "held")
  /\ UNCHANGED <<blockno, refcnt, lru, locked, disk, pinned, want, b, panicked, latest, nwrites>>

bread_cached(p) ==
  /\ pc[p] = "read" /\ valid[b[p]]
  /\ Goto(p, "held")
  /\ UNCHANGED <<bcache, data, locked, disk, pinned, want, b, panicked, latest, nwrites>>

\* mutant: every log_write() pins
bpin_always(x) ==
  /\ refcnt' = [refcnt EXCEPT ![x] = @ + 1]
  /\ pinned' = pinned \cup {x}

(* log_write() pins a buffer that is new in the log *)
bpin(x) ==
  /\ refcnt' = IF x \in pinned THEN refcnt ELSE [refcnt EXCEPT ![x] = @ + 1]
  /\ pinned' = pinned \cup {x}

(* The owner changes the contents and calls log_write(). *)
modify(p) ==
  /\ pc[p] = "held" /\ nwrites < MaxWrites
  /\ b[p] \in pinned \/ Cardinality(pinned) < MaxPins
  /\ data' = [data EXCEPT ![b[p]] = nwrites + 1]
  /\ latest' = [latest EXCEPT ![want[p]] = nwrites + 1]
  /\ nwrites' = nwrites + 1
  /\ bpin(b[p])
  /\ UNCHANGED <<blockno, valid, lru, locked, disk, pc, want, b, panicked>>

\* mutant: unpinned without having been written
bwrite_none(p) == UNCHANGED disk

bwrite(p) == disk' = [disk EXCEPT ![blockno[b[p]]] = data[b[p]]]

(* install_trans(): the contents reach the disk and the pin goes. *)
install(p) ==
  /\ pc[p] = "held" /\ b[p] \in pinned
  /\ bwrite(p)
  /\ refcnt' = [refcnt EXCEPT ![b[p]] = @ - 1]
  /\ pinned' = pinned \ {b[p]}
  /\ UNCHANGED <<blockno, valid, lru, data, locked, pc, want, b, panicked, latest, nwrites>>

brelse(p) ==
  /\ pc[p] = "held"
  /\ releasesleep(p)
  /\ UNCHANGED <<bcache, data, disk, pinned, want, b, panicked, latest, nwrites>>

\* mutant: the buffer is linked in at the front but not unlinked
brelse_unref_link(p) ==
  LET x == b[p] IN
  /\ pc[p] = "brelse"
  /\ refcnt' = [refcnt EXCEPT ![x] = @ - 1]
  /\ lru' = IF refcnt[x] = 1 THEN <<x>> \o lru ELSE lru
  /\ Goto(p, "idle")
  /\ want' = [want EXCEPT ![p] = NoBlock] /\ b' = [b EXCEPT ![p] = Nobody]
  /\ UNCHANGED <<blockno, valid, data, locked, disk, pinned, panicked, latest, nwrites>>

(* The second half of brelse(), under bcache.lock *)
brelse_unref(p) ==
  LET x == b[p] IN
  /\ pc[p] = "brelse"
  /\ refcnt' = [refcnt EXCEPT ![x] = @ - 1]
  /\ lru' = IF refcnt[x] = 1
              THEN <<x>> \o SelectSeq(lru, LAMBDA y : y # x) ELSE lru
  /\ Goto(p, "idle")
  /\ want' = [want EXCEPT ![p] = NoBlock] /\ b' = [b EXCEPT ![p] = Nobody]
  /\ UNCHANGED <<blockno, valid, data, locked, disk, pinned, panicked, latest, nwrites>>

Step(p) ==
  \/ \E x \in Buf : bget_hit(p, x) \/ bget_recycle(p, x)
  \/ bget_panic(p)
  \/ acquiresleep(p) \/ acquiresleep_wait(p)
  \/ bread_disk(p) \/ bread_cached(p) \/ brelse(p) \/ brelse_unref(p)

Next ==
  \E p \in Proc : \/ \E k \in Block : bread(p, k)
                  \/ Step(p) \/ modify(p) \/ install(p) \/ kill(p)

Spec == Init /\ [][Next]_vars

(* Threads run, the disk answers, an owner releases its buffer; a sleep-lock *)
(* that becomes free again and again is obtained in the end.                 *)
Fairness == \A p \in Proc : WF_vars(Step(p)) /\ SF_vars(acquiresleep(p))

FairSpec == Spec /\ Fairness

-----------------------------------------------------------------------------
Owning == {"read", "held"}
Using == Owning \cup {"acquiresleep", "asleep", "brelse"}

TypeOK ==
  /\ blockno \in [Buf -> Block \cup {NoBlock}] /\ valid \in [Buf -> BOOLEAN]
  /\ refcnt \in [Buf -> Nat] /\ data \in [Buf -> 0..MaxWrites]
  /\ lru \in [1..Cardinality(Buf) -> Buf] /\ IsInjective(lru)
  /\ locked \in [Buf -> Proc \cup {Nobody}]
  /\ disk \in [Block -> 0..MaxWrites] /\ pinned \subseteq Buf
  /\ pc \in [Proc -> Using \cup {"idle", "bget"}]
  /\ want \in [Proc -> Block \cup {NoBlock}] /\ b \in [Proc -> Buf \cup {Nobody}]
  /\ panicked \in BOOLEAN
  /\ latest \in [Block -> 0..MaxWrites] /\ nwrites \in 0..MaxWrites

(* A block has at most one buffer, however bget() calls race.                *)
OneBufferPerBlock ==
  \A x, y \in Buf : blockno[x] = blockno[y] /\ blockno[x] # NoBlock => x = y

(* From bget() to brelse() the buffer that a process waits for or owns       *)
(* stays the buffer of its block, and owners exclude each other.             *)
BufferIsMine ==
  \A p \in Proc :
    /\ pc[p] \in Using => blockno[b[p]] = want[p]
    /\ pc[p] \in Owning <=> \E x \in Buf : locked[x] = p

(* refcnt counts the processes between bget() and brelse() and the log's pin *)
RefcntExact ==
  \A x \in Buf :
    refcnt[x] = Cardinality({p \in Proc : pc[p] \in Using /\ b[p] = x})
                + (IF x \in pinned THEN 1 ELSE 0)

(* What a bread() of a block finds, in its buffer or on the disk, is the     *)
(* newest contents: recycling never loses a modification.                    *)
Coherent ==
  \A k \in Block :
    /\ \A x \in Cached(k) : valid[x] => data[x] = latest[k]
    /\ (\A x \in Cached(k) : ~valid[x]) => disk[k] = latest[k]

(* Every bread() gets its buffer, unless bget() has panicked for want of one *)
BreadReturns == \A p \in Proc : pc[p] = "bget" ~> pc[p] = "held" \/ panicked
=============================================================================
