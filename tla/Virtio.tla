------------------------------- MODULE Virtio -------------------------------
(***************************************************************************)
(* The disk driver of kernel/virtio_disk.c and the device it talks to.     *)
(*                                                                         *)
(* The device does not take vdisk_lock: it moves at any time and finishes  *)
(* requests in any order.  A process has at most one request, for the      *)
(* buffer it has locked, so a buffer is named by its process.  A ring      *)
(* entry keeps its value until it is overwritten; the model forgets it     *)
(* (Stale) once its reader has moved past it, so that reading it twice     *)
(* would show.                                                             *)
(***************************************************************************)
EXTENDS Integers, FiniteSets

CONSTANTS
  Proc,      \* processes, and the buffers they transfer
  Killable,  \* processes that may be killed
  Faulty,    \* processes whose transfers may fail
  Nobody,
  Intr,      \* the interrupt handler, as an owner of vdisk_lock
  NUM,       \* number of descriptors
  UINT16     \* number of values of the ring indices

ASSUME VirtioAssumption ==
  /\ NUM \in Nat /\ NUM >= 3 /\ Killable \cup Faulty \subseteq Proc
  /\ UINT16 \in Nat \ {0} /\ UINT16 % NUM = 0
  /\ Nobody \notin Proc /\ Intr \notin Proc \cup {Nobody}

Desc == 0..(NUM - 1)
Stale == NUM

VARIABLES
  free, chain,          \* free descriptors; the descriptors of a chain, by its head
  info,                 \* info[id].b
  status,               \* info[id].status is 0
  avail, avail_idx,     \* ring of requests, written by the driver
  used, used_ring_idx,  \* ring of completions, written by the device
  used_idx,             \* how far the driver has looked at it
  busy,                 \* b->disk
  vdisk_lock, pc, head, \* per process: where it is, idx[0]
  seen, inflight,       \* the device: how far it has looked, requests it works on
  irq,                  \* the device's interrupt line
  panicked,             \* virtio_disk_intr() stopped in panic(), holding vdisk_lock
  moved                 \* history: the data of the last request has been transferred

driver == <<free, chain, info, used_idx, busy, head>>
device == <<seen, inflight>>
vars == <<driver, device, status, avail, avail_idx, used, used_ring_idx,
          vdisk_lock, pc, irq, panicked, moved>>

Init ==
  /\ free = Desc
  /\ chain = [d \in Desc |-> {}]
  /\ info = [d \in Desc |-> Nobody]
  /\ status = [d \in Desc |-> TRUE]
  /\ avail = [i \in Desc |-> Stale] /\ avail_idx = 0
  /\ used = [i \in Desc |-> Stale] /\ used_ring_idx = 0
  /\ used_idx = 0
  /\ busy = [p \in Proc |-> FALSE]
  /\ vdisk_lock = Nobody
  /\ pc = [p \in Proc |-> "idle"]
  /\ head = [p \in Proc |-> 0]
  /\ seen = 0 /\ inflight = {}
  /\ irq = FALSE /\ panicked = FALSE
  /\ moved = [p \in Proc |-> TRUE]

Goto(p, l) == pc' = [pc EXCEPT ![p] = l]

virtio_disk_rw(p) ==
  /\ pc[p] = "idle" /\ vdisk_lock = Nobody
  /\ vdisk_lock' = p
  /\ Goto(p, "alloc")
  /\ moved' = [moved EXCEPT ![p] = FALSE]
  /\ UNCHANGED <<driver, device, status, avail, avail_idx, used, used_ring_idx, irq, panicked>>

(* sleep(&disk.free[0]) returns with the lock, and the loop tries again. *)
rw_retry(p) ==
  /\ pc[p] = "retry" /\ vdisk_lock = Nobody
  /\ vdisk_lock' = p
  /\ Goto(p, "alloc")
  /\ UNCHANGED <<driver, device, status, avail, avail_idx, used, used_ring_idx, irq, panicked, moved>>

(* the three lowest free descriptors, when there are three *)
alloc3_desc == {d \in free : Cardinality({e \in free : e < d}) < 3}

(* pc with the sleepers on free[0] runnable, p at l *)
WakeAllocators(p, l) ==
  [q \in Proc |-> IF q = p THEN l ELSE IF pc[q] = "asleep_free" THEN "retry" ELSE pc[q]]

\* mutant: the free-running index is used as a place in the ring
rw_format_nomod(p) ==
  LET c == alloc3_desc
      d == CHOOSE x \in c : \A e \in c : x <= e
  IN /\ pc[p] = "alloc" /\ Cardinality(c) = 3
     /\ free' = free \ c
     /\ chain' = [chain EXCEPT ![d] = c]
     /\ status' = [status EXCEPT ![d] = FALSE]
     /\ info' = [info EXCEPT ![d] = p]
     /\ avail' = [avail EXCEPT ![avail_idx] = d]
     /\ head' = [head EXCEPT ![p] = d]
     /\ busy' = [busy EXCEPT ![p] = TRUE]
     /\ Goto(p, "publish")
     /\ UNCHANGED <<device, avail_idx, used, used_ring_idx, used_idx, vdisk_lock, irq, panicked, moved>>

(* Three descriptors are taken and formatted, and the head of the chain is   *)
(* stored in the ring.                                                       *)
rw_format(p) ==
  LET c == alloc3_desc
      d == CHOOSE x \in c : \A e \in c : x <= e
  IN /\ pc[p] = "alloc" /\ Cardinality(c) = 3
     /\ free' = free \ c
     /\ chain' = [chain EXCEPT ![d] = c]
     /\ status' = [status EXCEPT ![d] = FALSE]
     /\ info' = [info EXCEPT ![d] = p]
     /\ avail' = [avail EXCEPT ![avail_idx % NUM] = d]
     /\ head' = [head EXCEPT ![p] = d]
     /\ busy' = [busy EXCEPT ![p] = TRUE]
     /\ Goto(p, "publish")
     /\ UNCHANGED <<device, avail_idx, used, used_ring_idx, used_idx, vdisk_lock, irq, panicked, moved>>

\* mutant: the descriptors of an allocation that fails half way are kept
alloc_undo_none(c) == free' = free \ c

(* the descriptors c are marked used one by one, and given back *)
alloc_undo(c) == free' = (free \ c) \cup c

(* Too few descriptors: the ones already taken are given back, which wakes   *)
(* the other sleepers, and the process sleeps.                               *)
rw_alloc_sleep(p) ==
  LET c == alloc3_desc IN
  /\ pc[p] = "alloc" /\ Cardinality(c) < 3
  /\ alloc_undo(c)
  /\ pc' = IF c = {} THEN [pc EXCEPT ![p] = "asleep_free"]
                     ELSE WakeAllocators(p, "asleep_free")
  /\ vdisk_lock' = Nobody
  /\ UNCHANGED <<chain, info, used_idx, busy, head, device, status, avail, avail_idx, used,
                 used_ring_idx, irq, panicked, moved>>

(* The index goes up after a fence, so the device finds the entry written.   *)
rw_publish(p) ==
  /\ pc[p] = "publish"
  /\ avail_idx' = (avail_idx + 1) % UINT16
  /\ Goto(p, "wait")
  /\ UNCHANGED <<driver, device, status, avail, used, used_ring_idx, vdisk_lock, irq, panicked, moved>>

rw_sleep(p) ==
  /\ pc[p] = "wait" /\ busy[p]
  /\ vdisk_lock' = Nobody
  /\ Goto(p, "asleep_buf")
  /\ UNCHANGED <<driver, device, status, avail, avail_idx, used, used_ring_idx, irq, panicked, moved>>

(* kill() makes a sleeping process runnable although nobody woke its channel *)
kill(p) ==
  /\ p \in Killable /\ pc[p] \in {"asleep_free", "asleep_buf"}
  /\ Goto(p, IF pc[p] = "asleep_free" THEN "retry" ELSE "woken")
  /\ UNCHANGED <<driver, device, status, avail, avail_idx, used, used_ring_idx, vdisk_lock, irq, panicked, moved>>

rw_wake(p) ==
  /\ pc[p] = "woken" /\ vdisk_lock = Nobody
  /\ vdisk_lock' = p
  /\ Goto(p, "wait")
  /\ UNCHANGED <<driver, device, status, avail, avail_idx, used, used_ring_idx, irq, panicked, moved>>

free_chain(d) == free' = free \cup chain[d] /\ chain' = [chain EXCEPT ![d] = {}]

\* mutant: processes that wait for descriptors are not woken
rw_done_silent(p) ==
  /\ pc[p] = "wait" /\ ~busy[p]
  /\ info' = [info EXCEPT ![head[p]] = Nobody]
  /\ free_chain(head[p])
  /\ Goto(p, "idle")
  /\ vdisk_lock' = Nobody
  /\ UNCHANGED <<used_idx, busy, head, device, status, avail, avail_idx, used, used_ring_idx,
                 irq, panicked, moved>>

\* mutant: b->disk is not tested again after the sleep
rw_done_once(p) ==
  /\ pc[p] = "wait"
  /\ info' = [info EXCEPT ![head[p]] = Nobody]
  /\ free_chain(head[p])
  /\ pc' = WakeAllocators(p, "idle")
  /\ vdisk_lock' = Nobody
  /\ UNCHANGED <<used_idx, busy, head, device, status, avail, avail_idx, used, used_ring_idx,
                 irq, panicked, moved>>

rw_done(p) ==
  /\ pc[p] = "wait" /\ ~busy[p]
  /\ info' = [info EXCEPT ![head[p]] = Nobody]
  /\ free_chain(head[p])
  /\ pc' = WakeAllocators(p, "idle")
  /\ vdisk_lock' = Nobody
  /\ UNCHANGED <<used_idx, busy, head, device, status, avail, avail_idx, used, used_ring_idx,
                 irq, panicked, moved>>

-----------------------------------------------------------------------------
(* virtio_disk_intr() *)

intr_enter ==
  /\ irq /\ vdisk_lock = Nobody
  /\ vdisk_lock' = Intr
  /\ irq' = FALSE
  /\ UNCHANGED <<driver, device, status, avail, avail_idx, used, used_ring_idx, pc, panicked, moved>>

(* the request that the next completion names *)
Completed == used[used_idx % NUM]

(* One round of the loop *)
intr_complete ==
  /\ vdisk_lock = Intr /\ ~panicked /\ used_idx # used_ring_idx /\ status[Completed]
  /\ LET p == info[Completed] IN
       /\ busy' = [busy EXCEPT ![p] = FALSE]
       /\ pc' = IF pc[p] = "asleep_buf" THEN [pc EXCEPT ![p] = "woken"] ELSE pc
  /\ used_idx' = (used_idx + 1) % UINT16
  /\ used' = [used EXCEPT ![used_idx % NUM] = Stale]
  /\ UNCHANGED <<free, chain, info, head, device, status, avail, avail_idx, used_ring_idx,
                 vdisk_lock, irq, panicked, moved>>

(* panic("virtio_disk_intr status"): vdisk_lock is never released *)
intr_panic ==
  /\ vdisk_lock = Intr /\ ~panicked /\ used_idx # used_ring_idx /\ ~status[Completed]
  /\ panicked' = TRUE
  /\ UNCHANGED <<driver, device, status, avail, avail_idx, used, used_ring_idx, vdisk_lock, pc,
                 irq, moved>>

\* mutant: one completion per interrupt
intr_leave_early ==
  /\ vdisk_lock = Intr /\ ~panicked
  /\ vdisk_lock' = Nobody
  /\ UNCHANGED <<driver, device, status, avail, avail_idx, used, used_ring_idx, pc, irq, panicked, moved>>

intr_leave ==
  /\ vdisk_lock = Intr /\ ~panicked /\ used_idx = used_ring_idx
  /\ vdisk_lock' = Nobody
  /\ UNCHANGED <<driver, device, status, avail, avail_idx, used, used_ring_idx, pc, irq, panicked, moved>>

-----------------------------------------------------------------------------
(* The device *)
dev_take ==
  /\ seen # avail_idx
  /\ inflight' = inflight \cup {avail[seen % NUM]}
  /\ avail' = [avail EXCEPT ![seen % NUM] = Stale]
  /\ seen' = (seen + 1) % UINT16
  /\ UNCHANGED <<driver, status, avail_idx, used, used_ring_idx, vdisk_lock, pc, irq, panicked, moved>>

(* A request is finished, with status 0 if all went well. *)
dev_finish(d, ok) ==
  /\ d \in inflight /\ (ok \/ info[d] \in Faulty)
  /\ inflight' = inflight \ {d}
  /\ status' = [status EXCEPT ![d] = ok]
  /\ moved' = IF ok /\ info[d] # Nobody THEN [moved EXCEPT ![info[d]] = TRUE] ELSE moved
  /\ used' = [used EXCEPT ![used_ring_idx % NUM] = d]
  /\ used_ring_idx' = (used_ring_idx + 1) % UINT16
  /\ irq' = TRUE
  /\ UNCHANGED <<driver, seen, avail, avail_idx, vdisk_lock, pc, panicked>>

-----------------------------------------------------------------------------
Process(p) ==
  \/ rw_retry(p) \/ rw_format(p) \/ rw_alloc_sleep(p) \/ rw_publish(p)
  \/ rw_sleep(p) \/ rw_wake(p) \/ rw_done(p)

virtio_disk_intr == intr_enter \/ intr_complete \/ intr_panic \/ intr_leave

Device == dev_take \/ \E d \in Desc, ok \in BOOLEAN : dev_finish(d, ok)

Next == virtio_disk_intr \/ Device \/ \E p \in Proc : virtio_disk_rw(p) \/ Process(p) \/ kill(p)

Spec == Init /\ [][Next]_vars

(* the device finishes the request for p's buffer *)
Serves(p) == \E d \in Desc, ok \in BOOLEAN : info[d] = p /\ dev_finish(d, ok)

(* The device serves its queue, the interrupt is delivered, and threads and  *)
(* the handler obtain vdisk_lock in the end.                                 *)
Fairness ==
  /\ WF_vars(dev_take) /\ SF_vars(virtio_disk_intr)
  /\ \A p \in Proc : WF_vars(Serves(p)) /\ SF_vars(Process(p))

FairSpec == Spec /\ Fairness

-----------------------------------------------------------------------------
Distance(from, to) == (to - from + UINT16) % UINT16
Window(ring, from, to) == {ring[(from + k) % NUM] : k \in 0..(Distance(from, to) - 1)}

(* Every descriptor is free or in the chain of exactly one request: none is  *)
(* shared by two requests and none is lost.                                  *)
DescriptorsAccounted ==
  LET live == {d \in Desc : info[d] # Nobody} IN
  /\ \A d, e \in live : d # e => chain[d] \cap chain[e] = {}
  /\ free = Desc \ UNION {chain[d] : d \in live}

(* A request that has been published is, until the driver sees it complete,  *)
(* at exactly one place: the avail ring, the device or the used ring.  So no *)
(* request is overwritten, served twice or completed for another buffer,     *)
(* also when the indices wrap and go beyond the length of the rings.         *)
RequestsAccounted ==
  LET waiting == {p \in Proc : busy[p] /\ pc[p] # "publish"}
      queued == Window(avail, seen, avail_idx)
      finished == Window(used, used_idx, used_ring_idx)
  IN /\ queued \cup inflight \cup finished = {head[p] : p \in waiting}
     /\ Distance(seen, avail_idx) + Cardinality(inflight) + Distance(used_idx, used_ring_idx)
          = Cardinality(waiting)
     /\ \A p \in waiting : info[head[p]] = p

(* virtio_disk_rw() does not return before the device has moved the data: it *)
(* neither overtakes the transfer nor takes one that failed for a success.   *)
TransferBeforeReturn == \A p \in Proc : pc[p] = "idle" => ~busy[p] /\ moved[p]

(* A request that was handed to the device returns, unless a failed transfer *)
(* stops the kernel: no process stays for ever between avail->idx += 1 and   *)
(* the return of virtio_disk_rw().                                           *)
RequestReturns ==
  \A p \in Proc : []<>(pc[p] \notin {"publish", "wait", "asleep_buf", "woken"} \/ panicked)

(* A process that waits for descriptors gets them once the others have       *)
(* stopped making requests.  (Others that never stop may overtake it.)       *)
LastWaiterServed ==
  \A p \in Proc :
    <>[](\A q \in Proc \ {p} : pc[q] = "idle") => []<>(pc[p] = "idle" \/ panicked)
=============================================================================
