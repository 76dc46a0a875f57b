-------------------------------- MODULE Proc --------------------------------
(***************************************************************************)
(* The process table of kernel/proc.c: fork(), exit(), wait(), kill(),     *)
(* sleep(), wakeup(), yield() and the per-CPU scheduler().                 *)
(*                                                                         *)
(* A step is what one kernel thread does between two points where another  *)
(* CPU can interfere: it takes a spin lock when the lock is free, and a    *)
(* lock that is held across steps (wait_lock, a process's own p->lock      *)
(* while it switches out) is a variable.  Locks that are taken and given   *)
(* back inside one step are guards only.  Files, memory and exit codes are *)
(* left out: they do not feed back into the process table.                 *)
(***************************************************************************)
EXTENDS Integers, FiniteSets

CONSTANTS
  NPROC,      \* param.h: size of the process table
  CPU,        \* processors
  KillPids,   \* arguments of kill()
  MaxPid      \* bound: pids handed out

ASSUME ProcAssumption ==
  /\ NPROC \in Nat \ {0} /\ MaxPid \in Nat /\ KillPids \subseteq Nat
  /\ CPU # {}

Slot == 1..NPROC     \* index in proc[]; 0 is the null pointer
InitProc == 1

VARIABLES
  state, parent, pid, chan, killed,   \* struct proc
  plock, wait_lock,                   \* p->lock held?; who holds wait_lock
  on,                                 \* per CPU: c->proc, or 0 in scheduler()
  pc, back, idx, np,                  \* per kernel thread: position and locals
  nextpid,
  asked                               \* history: pids that kill() was called with

table == <<state, parent, pid, chan, killed>>
locks == <<plock, wait_lock>>
vars == <<table, locks, on, pc, back, idx, np, nextpid, asked>>

Running(p) == \E c \in CPU : on[c] = p

At(p, l) == pc[p] = l /\ Running(p)

Goto(p, l) == pc' = [pc EXCEPT ![p] = l]

HasKids(p) == \E q \in Slot : parent[q] = p

(* Just after userinit(): initproc is about to be scheduled for the first time. *)
Init ==
  /\ state = [q \in Slot |-> IF q = InitProc THEN "RUNNABLE" ELSE "UNUSED"]
  /\ parent = [q \in Slot |-> 0]
  /\ pid = [q \in Slot |-> IF q = InitProc THEN 1 ELSE 0]
  /\ chan = [q \in Slot |-> 0]
  /\ killed = [q \in Slot |-> FALSE]
  /\ plock = [q \in Slot |-> FALSE] /\ wait_lock = 0
  /\ on = [c \in CPU |-> 0]
  /\ pc = [q \in Slot |-> "ret"]
  /\ back = [q \in Slot |-> "user"]
  /\ idx = [q \in Slot |-> 1] /\ np = [q \in Slot |-> 0]
  /\ nextpid = 2 /\ asked = {}

-----------------------------------------------------------------------------
(* Giving up and getting a CPU *)

(* Places where a thread holds no lock, so the timer may preempt it *)
Preemptible == {"user", "fork_parent", "fork_run", "exit", "wait"}

\* mutant: p->lock is not taken
yield_unlocked(p) ==
  /\ pc[p] \in Preemptible /\ Running(p)
  /\ state' = [state EXCEPT ![p] = "RUNNABLE"]
  /\ back' = [back EXCEPT ![p] = pc[p]]
  /\ Goto(p, "swtch")
  /\ UNCHANGED <<parent, pid, chan, killed, locks, on, idx, np, nextpid, asked>>

yield(p) ==
  /\ pc[p] \in Preemptible /\ Running(p) /\ ~plock[p]
  /\ plock' = [plock EXCEPT ![p] = TRUE]
  /\ state' = [state EXCEPT ![p] = "RUNNABLE"]
  /\ back' = [back EXCEPT ![p] = pc[p]]
  /\ Goto(p, "swtch")
  /\ UNCHANGED <<parent, pid, chan, killed, wait_lock, on, idx, np, nextpid, asked>>

(* sched() in p, then the rest of c's scheduler() loop body *)
sched(c, p) ==
  /\ on[c] = p /\ pc[p] = "swtch"
  /\ on' = [on EXCEPT ![c] = 0]
  /\ plock' = [plock EXCEPT ![p] = FALSE]
  /\ Goto(p, "ret")
  /\ UNCHANGED <<table, wait_lock, back, idx, np, nextpid, asked>>

(* scheduler() on c finds p runnable and switches to it, p->lock held. *)
scheduler(c, p) ==
  /\ on[c] = 0 /\ ~plock[p] /\ state[p] = "RUNNABLE"
  /\ state' = [state EXCEPT ![p] = "RUNNING"]
  /\ on' = [on EXCEPT ![c] = p]
  /\ plock' = [plock EXCEPT ![p] = TRUE]
  /\ UNCHANGED <<parent, pid, chan, killed, wait_lock, pc, back, idx, np, nextpid, asked>>

\* mutant: sleep() asks for wait_lock before it releases p->lock
resume_relock(p) ==
  /\ At(p, "ret") /\ (back[p] = "wait" => wait_lock = 0)
  /\ plock' = [plock EXCEPT ![p] = FALSE]
  /\ chan' = [chan EXCEPT ![p] = 0]
  /\ Goto(p, back[p])
  /\ UNCHANGED <<state, parent, pid, killed, wait_lock, on, back, idx, np, nextpid, asked>>

(* The other side of swtch(): the end of yield(), of sleep() or forkret(). *)
resume(p) ==
  /\ At(p, "ret")
  /\ plock' = [plock EXCEPT ![p] = FALSE]
  /\ chan' = [chan EXCEPT ![p] = 0]
  /\ Goto(p, back[p])
  /\ UNCHANGED <<state, parent, pid, killed, wait_lock, on, back, idx, np, nextpid, asked>>

-----------------------------------------------------------------------------
(* fork(): allocproc() and everything up to release(&np->lock) *)
fork(p, q) ==
  /\ At(p, "user") /\ ~killed[p] /\ nextpid <= MaxPid
  /\ state[q] = "UNUSED" /\ ~plock[q]
  /\ state' = [state EXCEPT ![q] = "USED"]
  /\ pid' = [pid EXCEPT ![q] = nextpid]
  /\ nextpid' = nextpid + 1
  /\ np' = [np EXCEPT ![p] = q]
  /\ pc' = [pc EXCEPT ![p] = "fork_parent", ![q] = "ret"]
  /\ back' = [back EXCEPT ![q] = "user"]
  /\ UNCHANGED <<parent, chan, killed, locks, on, idx, asked>>

(* Memory runs out: freeproc() puts the slot back, the pid is used up. *)
fork_fail(p, q) ==
  /\ At(p, "user") /\ ~killed[p] /\ nextpid <= MaxPid /\ p # InitProc
  /\ state[q] = "UNUSED" /\ ~plock[q]
  /\ killed' = [killed EXCEPT ![q] = FALSE]
  /\ nextpid' = nextpid + 1
  /\ UNCHANGED <<state, parent, pid, chan, locks, on, pc, back, idx, np, asked>>

fork_parent(p) ==
  /\ At(p, "fork_parent") /\ wait_lock = 0
  /\ parent' = [parent EXCEPT ![np[p]] = p]
  /\ Goto(p, "fork_run")
  /\ UNCHANGED <<state, pid, chan, killed, locks, on, back, idx, np, nextpid, asked>>

fork_run(p) ==
  /\ At(p, "fork_run") /\ ~plock[np[p]]
  /\ state' = [state EXCEPT ![np[p]] = "RUNNABLE"]
  /\ np' = [np EXCEPT ![p] = 0]
  /\ Goto(p, "user")
  /\ UNCHANGED <<parent, pid, chan, killed, locks, on, back, idx, nextpid, asked>>

-----------------------------------------------------------------------------
(* exit(): the program calls it, or usertrap() finds the process killed.     *)
(* Files and the current directory are closed before wait_lock is asked for. *)
exit(p) ==
  /\ At(p, "user") /\ p # InitProc
  /\ Goto(p, "exit")
  /\ UNCHANGED <<table, locks, on, back, idx, np, nextpid, asked>>

\* mutant: the children are not given to init
reparent_none(p) == UNCHANGED parent

(* Nobody else changes a parent while wait_lock is held, so the loop of      *)
(* reparent() is one assignment and its wakeup(initproc) calls one scan.     *)
reparent(p) ==
  parent' = [q \in Slot |-> IF parent[q] = p THEN InitProc ELSE parent[q]]

exit_reparent(p) ==
  /\ At(p, "exit") /\ wait_lock = 0
  /\ wait_lock' = p
  /\ reparent(p)
  /\ idx' = [idx EXCEPT ![p] = 1]
  /\ Goto(p, IF HasKids(p) THEN "wake_init" ELSE "wake_parent")
  /\ UNCHANGED <<state, pid, chan, killed, plock, on, back, np, nextpid, asked>>

(* One iteration of wakeup(ch) by p, at slot q *)
wakeup(p, q, ch) ==
  state' = IF q # p /\ state[q] = "SLEEPING" /\ chan[q] = ch
             THEN [state EXCEPT ![q] = "RUNNABLE"] ELSE state

WakeScan(p, this, ch, next) ==
  LET q == idx[p] IN
  /\ At(p, this) /\ (q = p \/ ~plock[q])
  /\ wakeup(p, q, ch)
  /\ idx' = [idx EXCEPT ![p] = IF q = NPROC THEN 1 ELSE q + 1]
  /\ Goto(p, IF q = NPROC THEN next ELSE this)
  /\ UNCHANGED <<parent, pid, chan, killed, locks, on, back, np, nextpid, asked>>

exit_wake_init(p) == WakeScan(p, "wake_init", InitProc, "wake_parent")
exit_wake_parent(p) == WakeScan(p, "wake_parent", parent[p], "exit_zombie")

exit_zombie(p) ==
  /\ At(p, "exit_zombie") /\ ~plock[p]
  /\ plock' = [plock EXCEPT ![p] = TRUE]
  /\ state' = [state EXCEPT ![p] = "ZOMBIE"]
  /\ Goto(p, "exit_release")
  /\ UNCHANGED <<parent, pid, chan, killed, wait_lock, on, back, idx, np, nextpid, asked>>

\* mutant: exit() goes to the scheduler with wait_lock
exit_release_none(p) ==
  /\ At(p, "exit_release")
  /\ Goto(p, "swtch")
  /\ UNCHANGED <<table, locks, on, back, idx, np, nextpid, asked>>

exit_release(p) ==
  /\ At(p, "exit_release")
  /\ wait_lock' = 0
  /\ Goto(p, "swtch")
  /\ UNCHANGED <<table, plock, on, back, idx, np, nextpid, asked>>

-----------------------------------------------------------------------------
(* wait().  init (user/init.c) calls it only while it has a child. *)
wait(p) ==
  /\ At(p, "user") /\ ~killed[p] /\ (p = InitProc => HasKids(p))
  /\ Goto(p, "wait")
  /\ UNCHANGED <<table, locks, on, back, idx, np, nextpid, asked>>

wait_acquire(p) ==
  /\ At(p, "wait") /\ wait_lock = 0
  /\ wait_lock' = p
  /\ idx' = [idx EXCEPT ![p] = 1]
  /\ Goto(p, "wait_scan")
  /\ UNCHANGED <<table, plock, on, back, np, nextpid, asked>>

(* The child at the scan's position, whose p->lock wait() can get *)
ScanChild(p, q) == At(p, "wait_scan") /\ q = idx[p] /\ q \in Slot /\ parent[q] = p /\ ~plock[q]

\* mutant: the loop runs to pp <= &proc[NPROC]
wait_next_past(p) ==
  /\ At(p, "wait_scan") /\ idx[p] \in 1..(NPROC + 1)
  /\ \/ idx[p] \notin Slot
     \/ idx[p] \in Slot /\ parent[idx[p]] # p
     \/ \E q \in Slot : ScanChild(p, q) /\ state[q] # "ZOMBIE"
  /\ idx' = [idx EXCEPT ![p] = @ + 1]
  /\ UNCHANGED <<table, locks, on, pc, back, np, nextpid, asked>>

wait_next(p) ==
  /\ At(p, "wait_scan") /\ idx[p] \in Slot
  /\ \/ parent[idx[p]] # p
     \/ \E q \in Slot : ScanChild(p, q) /\ state[q] # "ZOMBIE"
  /\ idx' = [idx EXCEPT ![p] = @ + 1]
  /\ UNCHANGED <<table, locks, on, pc, back, np, nextpid, asked>>

\* mutant: killed is not cleared
freeproc_killed(q) ==
  /\ state' = [state EXCEPT ![q] = "UNUSED"]
  /\ pid' = [pid EXCEPT ![q] = 0]
  /\ parent' = [parent EXCEPT ![q] = 0]
  /\ chan' = [chan EXCEPT ![q] = 0]
  /\ UNCHANGED killed

freeproc(q) ==
  /\ state' = [state EXCEPT ![q] = "UNUSED"]
  /\ pid' = [pid EXCEPT ![q] = 0]
  /\ parent' = [parent EXCEPT ![q] = 0]
  /\ chan' = [chan EXCEPT ![q] = 0]
  /\ killed' = [killed EXCEPT ![q] = FALSE]

LeaveWait(p) ==
  /\ wait_lock' = 0
  /\ idx' = [idx EXCEPT ![p] = 1]
  /\ Goto(p, "user")

\* mutant: the child's lock is not taken
wait_reap_unlocked(p, q) ==
  /\ At(p, "wait_scan") /\ q = idx[p] /\ parent[q] = p /\ state[q] = "ZOMBIE"
  /\ freeproc(q)
  /\ LeaveWait(p)
  /\ UNCHANGED <<plock, on, back, np, nextpid, asked>>

\* mutant: freeproc() is forgotten
wait_reap_keep(p, q) ==
  /\ ScanChild(p, q) /\ state[q] = "ZOMBIE"
  /\ LeaveWait(p)
  /\ UNCHANGED <<table, plock, on, back, np, nextpid, asked>>

wait_reap(p, q) ==
  /\ ScanChild(p, q) /\ state[q] = "ZOMBIE"
  /\ freeproc(q)
  /\ LeaveWait(p)
  /\ UNCHANGED <<plock, on, back, np, nextpid, asked>>

(* copyout() of the status fails; init passes no address. *)
wait_fault(p, q) ==
  /\ ScanChild(p, q) /\ state[q] = "ZOMBIE" /\ p # InitProc
  /\ LeaveWait(p)
  /\ UNCHANGED <<table, plock, on, back, np, nextpid, asked>>

wait_none(p) ==
  /\ At(p, "wait_scan") /\ idx[p] \notin Slot /\ ~plock[p]
  /\ ~HasKids(p) \/ killed[p]
  /\ LeaveWait(p)
  /\ UNCHANGED <<table, plock, on, back, np, nextpid, asked>>

wait_sleep(p) ==
  /\ At(p, "wait_scan") /\ idx[p] \notin Slot /\ ~plock[p]
  /\ HasKids(p) /\ ~killed[p]
  /\ Goto(p, "sleep")
  /\ UNCHANGED <<table, locks, on, back, idx, np, nextpid, asked>>

\* mutant: wait_lock is released before p->lock is taken
sleep_early(p) ==
  /\ At(p, "sleep")
  /\ IF wait_lock = p
       THEN wait_lock' = 0 /\ UNCHANGED <<plock, pc>>
       ELSE /\ ~plock[p] /\ plock' = [plock EXCEPT ![p] = TRUE]
            /\ Goto(p, "sleep_set") /\ UNCHANGED wait_lock
  /\ UNCHANGED <<table, on, back, idx, np, nextpid, asked>>

(* sleep(p, &wait_lock): p->lock is taken before wait_lock is released *)
sleep(p) ==
  /\ At(p, "sleep") /\ ~plock[p]
  /\ plock' = [plock EXCEPT ![p] = TRUE]
  /\ wait_lock' = 0
  /\ Goto(p, "sleep_set")
  /\ UNCHANGED <<table, on, back, idx, np, nextpid, asked>>

sleep_set(p) ==
  /\ At(p, "sleep_set")
  /\ chan' = [chan EXCEPT ![p] = p]
  /\ state' = [state EXCEPT ![p] = "SLEEPING"]
  /\ back' = [back EXCEPT ![p] = "wait"]
  /\ idx' = [idx EXCEPT ![p] = 1]
  /\ Goto(p, "swtch")
  /\ UNCHANGED <<parent, pid, killed, locks, on, np, nextpid, asked>>

(* kill(n) by p finds pid n in slot q. *)
kill(p, n, q) ==
  /\ At(p, "user") /\ ~killed[p]
  /\ pid[q] = n /\ ~plock[q]
  /\ killed' = [killed EXCEPT ![q] = TRUE]
  /\ state' = IF state[q] = "SLEEPING" THEN [state EXCEPT ![q] = "RUNNABLE"] ELSE state
  /\ asked' = asked \cup {n}
  /\ UNCHANGED <<parent, pid, chan, locks, on, pc, back, idx, np, nextpid>>

-----------------------------------------------------------------------------
(* What a thread does in the kernel once it has called something *)
Kernel(p) ==
  \/ fork_parent(p) \/ fork_run(p)
  \/ exit_reparent(p) \/ exit_wake_init(p) \/ exit_wake_parent(p)
  \/ exit_zombie(p) \/ exit_release(p)
  \/ wait_acquire(p) \/ wait_next(p) \/ wait_none(p) \/ wait_sleep(p)
  \/ \E q \in Slot : wait_reap(p, q) \/ wait_fault(p, q)
  \/ sleep(p) \/ sleep_set(p)

(* What its program chooses to call *)
User(p) ==
  \/ \E q \in Slot : fork(p, q) \/ fork_fail(p, q)
  \/ exit(p) \/ wait(p)
  \/ \E n \in KillPids, q \in Slot : kill(p, n, q)

Next ==
  \/ \E p \in Slot : Kernel(p) \/ User(p) \/ yield(p) \/ resume(p)
  \/ \E c \in CPU, p \in Slot : scheduler(c, p) \/ sched(c, p)

Spec == Init /\ [][Next]_vars

(* A thread is preempted, leaves its CPU or returns to what it was doing. *)
Switches(p) == yield(p) \/ resume(p) \/ \E c \in CPU : sched(c, p)

(* scheduler() scans the whole table in turn, a spin lock that is released   *)
(* again and again is obtained in the end, the timer preempts; a program     *)
(* ends sooner or later, and init goes on waiting for its children.          *)
Fairness ==
  \A p \in Slot :
    /\ SF_vars(Kernel(p)) /\ SF_vars(\E c \in CPU : scheduler(c, p)) /\ WF_vars(Switches(p))
    /\ SF_vars(exit(p)) /\ (p = InitProc => SF_vars(wait(p)))

FairSpec == Spec /\ Fairness

-----------------------------------------------------------------------------
Labels == Preemptible \cup
  {"wake_init", "wake_parent", "exit_zombie", "exit_release", "wait_scan",
   "sleep", "sleep_set", "swtch", "ret"}

TypeOK ==
  /\ state \in [Slot -> {"UNUSED", "USED", "SLEEPING", "RUNNABLE", "RUNNING", "ZOMBIE"}]
  /\ parent \in [Slot -> 0..NPROC] /\ chan \in [Slot -> 0..NPROC]
  /\ pid \in [Slot -> Nat] /\ nextpid \in Nat
  /\ killed \in [Slot -> BOOLEAN]
  /\ plock \in [Slot -> BOOLEAN] /\ wait_lock \in 0..NPROC
  /\ on \in [CPU -> 0..NPROC]
  /\ pc \in [Slot -> Labels] /\ back \in [Slot -> Preemptible]
  /\ idx \in [Slot -> 1..(NPROC + 1)] /\ np \in [Slot -> 0..NPROC]
  /\ asked \subseteq KillPids

(* Two CPUs never run one process, and whoever gets p->lock finds the        *)
(* process's state consistent: it is RUNNING exactly when a CPU executes on  *)
(* its kernel stack.                                                         *)
OneCpu ==
  \A p \in Slot :
    /\ \A c, d \in CPU : on[c] = p /\ on[d] = p => c = d
    /\ ~plock[p] => (state[p] = "RUNNING" <=> Running(p))

(* wait() frees a child only when no CPU is still on the child's stack, in   *)
(* exit() or in swtch().                                                     *)
ReapedIsGone ==
  [][\A q \in Slot : state[q] = "ZOMBIE" /\ state'[q] = "UNUSED" => ~Running(q)]_vars

(* No lost wakeup: a parent never sleeps in wait() while it has a zombie of  *)
(* its own; nor one it inherited, unless reparent() in the dying parent has  *)
(* yet to come to its slot in wakeup(initproc).                              *)
NoLostWakeup ==
  \A p, q \in Slot :
    state[p] = "SLEEPING" /\ chan[p] = p /\ parent[q] = p /\ state[q] = "ZOMBIE"
      => \E x \in Slot : wait_lock = x /\ pc[x] = "wake_init" /\ idx[x] <= p

(* Somebody can reap every process: unless exit() is at work under           *)
(* wait_lock, the parent of a process that can run or has run is a process   *)
(* that has not exited.                                                      *)
ParentAlive ==
  wait_lock = 0 =>
    \A q \in Slot \ {InitProc} :
      state[q] \notin {"UNUSED", "USED"} =>
        parent[q] # 0 /\ state[parent[q]] \in {"SLEEPING", "RUNNABLE", "RUNNING"}

(* sched() never panics for want of p->lock, for another lock held (noff),   *)
(* or because the process is still RUNNING.  (Its fourth test, intr_get(),   *)
(* is about the interrupt bit, which the model does not have.)               *)
SchedNoPanic ==
  \A p \in Slot : pc[p] = "swtch" =>
    plock[p] /\ wait_lock # p /\ state[p] # "RUNNING"

(* No circle of locks (proc.c: "must be acquired before any p->lock"): who   *)
(* holds a p->lock across a switch, in sleep() or in exit() needs no other   *)
(* lock to go on; who holds wait_lock stays on its CPU and can go on, or     *)
(* waits for the p->lock of the one slot that its scan has come to.          *)
NoLockCircle ==
  \A p \in Slot :
    /\ plock[p] => ENABLED (Kernel(p) \/ Switches(p))
    /\ wait_lock = p =>
         Running(p) /\ (ENABLED Kernel(p) \/ (idx[p] \in Slot /\ plock[idx[p]]))

(* kill() marks the process with the given pid and no other one. *)
KillHitsItsTarget ==
  \A q \in Slot : killed[q] /\ state[q] # "UNUSED" => pid[q] \in asked

(* Every process that exits is reaped, by its parent or by init. *)
ZombieReaped ==
  \A q \in Slot : state[q] = "ZOMBIE" ~> state[q] # "ZOMBIE"

=============================================================================
