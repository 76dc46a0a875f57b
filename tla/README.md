# xv6: specifications, model checking and proofs

TLA+ models of the xv6 kernel in `src/kernel` (a RISC-V teaching kernel, built here
with `LAB=util`), the TLC models that check small instances of them, and TLAPS proofs
about the write-ahead log. Every module is translated from the C source; `PROJECT.json`
maps each definition to the lines it stands for.

    tlc -workers 2 -config MCLog.cfg MCLog      # one model-checking run
    tlapm LogInv.tla                            # the log's invariant: the steps of a call
    tlapm LogProofs.tla                         # commit, recovery, crash; the theorems
    tlapm LogSpace.tla                          # its space reservation
    tlapm LogRefinement.tla                     # log.c implements TxDisk

## The system and its parts

xv6 is a monolithic kernel for a multiprocessor. Several CPUs run `scheduler()` over one
table of processes; a process enters the kernel by a trap, runs on its own kernel stack
and gives the CPU up in `sched()`. Data shared by CPUs is protected by spin locks, data
held across a wait by sleep-locks. A thread waits in `sleep(chan, lk)` and is woken by
`wakeup(chan)` or, without what it waited for having happened, by `kill()`.

Storage is a stack of layers:

| layer | source | state | operations |
|---|---|---|---|
| disk driver | `virtio_disk.c` | descriptors, avail and used rings | `virtio_disk_rw`, `virtio_disk_intr` |
| buffer cache | `bio.c`, `sleeplock.c` | buffers in LRU order, reference counts, locks | `bread`, `bwrite`, `brelse`, `bpin`, `bunpin` |
| log | `log.c` | header in memory and on disk, log blocks, `outstanding`, `committing` | `begin_op`, `log_write`, `end_op`, `commit`, recovery |
| inodes | `fs.c` | inode table, dinodes, bitmap | `ialloc`, `iget`, `ilock`, `iput`, `readi`, `writei`, `balloc`, `bmap`, `itrunc` |
| directories and calls | `fs.c`, `sysfile.c` | directory entries | `namex`, `create`, `link`, `unlink`, `open`, `mkdir` |
| open files | `file.c`, `pipe.c` | file table, pipes | `filedup`, `fileclose`, `fileread`, `filewrite`, `pipewrite`, `piperead`, `pipeclose` |

Beside it are processes (`proc.c`: `fork`, `exit`, `wait`, `kill`, `sleep`, `wakeup`,
`yield`, `sched`, `scheduler`), memory (`kalloc.c`, `vm.c`, `exec.c`), traps and time
(`trap.c`, `sysproc.c`), the console (`console.c`, `uart.c`), start-up code, and the user
programs, of which `pingpong`, `primes`, `find` and `xargs` belong to the lab. The
component list in `PROJECT.json` covers all of `src/`.

What is hard to get right here, and hard to reach with the repository's tests
(`usertests`, `grind`):

- power failing between any two disk writes, in the middle of one, or during recovery;
- several system calls sharing one commit;
- wakeups that come before the sleep, and sleepers woken for nothing;
- a lock handed from one thread to another across `swtch()`;
- a table slot, buffer, descriptor or inode reused while somebody still refers to it;
- counters that wrap (pipe and ring indices) and space at its limit (log, buffers);
- a directory removed between a path walk and the lock of what the walk found;
- error paths that must give back every lock, reference and count they took.

The hazard list in `PROJECT.json` names the line of each and the properties aimed at it.

## Modules

| module | models | actions are |
|---|---|---|
| `TxDisk` | what the log promises: a disk with transactions | begin, write, end, commit, crash |
| `Log` | `log.c`, its use of the buffer cache, a disk that can lose power | a critical section of `log.lock`, or one block write |
| `LogInv`, `LogProofs`, `LogSpace`, `LogRefinement` | the inductive invariant of `Log` and the theorems about it | |
| `Bcache` | `bio.c` and `sleeplock.c` | a critical section of `bcache.lock` or of a sleep-lock, or one transfer |
| `Virtio` | `virtio_disk.c` and, marked external, the device | the code between two points where `vdisk_lock` is given up or the device can look; a step of the device |
| `Fs` | the inode table, directories and the calls on them | what a process does under `itable.lock`, or while it holds an inode lock and waits for nothing |
| `Pipe` | one pipe and the processes at its ends | one pass of a loop, one acquire, one sleep |
| `Proc` | the process table, `wait_lock`, `p->lock`, the schedulers | the code between two points where another CPU can interfere |
| `Vm` | `kalloc.c`, the user page tables of `vm.c`, the memory side of `fork`, `exec`, `sbrk`, `freeproc` | one `kalloc()`, or a run of `kfree()` |
| `MCLog`, `MCProc`, `MCFs` | symmetry sets and paths for TLC | |

### Log

`home`, `dlog` and `dhead` are the disk; `lh`, `outstanding` and `committing` are
`struct log`; `cache` and `pin` are the buffers as far as the log depends on them (`fill`
and `recycle` are other processes reading blocks and `bget()` reusing buffers that are not
pinned). `syscall`, `begin_op_*`, `log_write`, `end_op_*` are the steps of a file-system
call; `stage` and `tail` are the position in `commit()` (`write_log`, `write_head`,
`commit_install`, `commit_clear`) or in `recover_from_log()`. `crash` may happen anywhere:
memory is lost and the block that is being written keeps its old contents or becomes
`Junk`. The header is 124 bytes, inside one sector, and is written as a whole. `panicked`
is a CPU that stopped in `panic()` holding `log.lock`.

`TxDisk` is the abstract specification. The mapping: `durable` is what recovery would
produce from the disk of this moment (`Recovered`); `current` is what `bread()` returns
(`View`), or `Recovered` while the kernel is recovering; `active` is the set of processes
between `begin_op()` and `end_op()`. `CrashAtomic` says that every step of the code is a
step of `TxDisk` under this mapping, or changes nothing in it.

### Bcache

Buffers have `blockno`, `valid`, `refcnt`, `data` and a place in the `lru` list; a
process goes through `bget` (hit, recycle or panic), `acquiresleep`, the read, `held`, and
the two halves of `brelse()`. The client is the log: `modify` is a change followed by
`log_write()`'s pin, `install` is `bwrite()` and `bunpin()`. `kill` wakes a sleeper.

### Virtio

`virtio_disk_rw` is the call up to the lock; `rw_format`, `rw_alloc_sleep`, `rw_retry`,
`rw_publish`, `rw_sleep`, `rw_wake` and `rw_done` split the rest where the device or another
process can act; `intr_enter`, `intr_complete`, `intr_panic` and `intr_leave` split
`virtio_disk_intr()` around its loop, because the device may finish another request after
each pass. `dev_take` and `dev_finish` are the device, which takes entries in order and
finishes them in any order. A transfer for a process in `Faulty` may fail: the device then
leaves a status other than 0, and the handler panics with `vdisk_lock` held. `Init` is the
state that `virtio_disk_init()` leaves; its handshake with the device's registers is not
modelled. The indices are counted modulo `UINT16`. A ring entry that has
been consumed is overwritten by `Stale` in the model, so that reading it again would be
noticed. An attempt to allocate that gets fewer than three descriptors gives them back
(`alloc_undo`) through `free_desc()`, which wakes the other waiters: two waiters may wake each other in
turn while no descriptor is free, and nothing orders them. So the code does not promise
that each waiter is served, only that the last one left is.

### Fs

An inode has `type`, `nlink` and (as a directory) `ent` on disk, and `ref`, `valid`,
`lock` in the table. Because `iupdate()` follows every change under the inode's lock, the
in-memory and on-disk fields are one variable. `sys_call` and `sys_link` start a call,
`namex_*` walk one name per step (the directory is locked, searched, unlocked, and only
then is the next inode used), and `create_*`, `open_*`, `unlink_*`, `link_*` follow
`sysfile.c` with each of its error exits. `iput` is a subroutine: `put` is its argument
and `ret` where it returns to; its freeing path is four steps because `itable.lock` is
released in between. `ialloc_next` is one step of `ialloc()`'s scan of the dinodes (`inum`),
which holds no lock from one to the next: an inode freed behind the scan is missed, and
`ialloc_full` is the scan that ran out. `link_exists` is `dirlink()` finding the name taken:
it puts the reference of its lookup back while `link()` still holds the directory's lock.
`durable` is the disk that recovery brings back: it follows `disk`
when a call ends and no other is active, which is what `TxDisk` promises; `crash` returns
to it. "." and ".." are left out as names, so are current directories, devices and file
contents; the inode table has room for all inodes; a file has one descriptor.

### Pipe

`pi->lock` is a variable because `kill()` does not take it: a process can be killed in
the middle of a transfer. Bytes are numbered as they enter, so that the contents of the
ring say which bytes they are. Failing `copyin()` and `copyout()`, the early returns and
both orders of closing are modelled. The history variable `silent` marks the time between a
killed writer's return with bytes in the ring and the next `wakeup(&pi->nread)`. A call has a length of at least one.

### Proc

Per slot: `state`, `parent`, `pid`, `chan`, `killed` and the flag `plock`; per CPU: `on`
(`c->proc`); per kernel thread: its position `pc`, where it continues after `swtch()`
(`back`), the loop index `idx`, and `np`. `sched` and `scheduler` are the two halves of
the switch, with `p->lock` held across it. The scans of `wakeup()` and `wait()` take one
slot per step, since they lock one slot at a time. `reparent()` is one step: no other code
changes `parent` while `wait_lock` is held. `asked` records the arguments of `kill()`.
`allocproc()` and `kill()` stop at the first slot that fits; the model takes any. Two slots
that fit differ only in their number, so every state is one of the code's up to a renaming of
slots, and a slot freed behind the scan does let the code take a later one. `sched()`'s four tests
are `SchedNoPanic`, except the one of the interrupt flag (`proc.c:502`), as interrupts
are not a variable. Programs are arbitrary, except that `init` follows `user/init.c`: it does not exit and
waits only while it has a child.

### Vm

A page table is the set of its present places, on three levels with `N` entries each;
`pc`, `op` and `loc` are a process's position and the locals of the call it makes.
`uvmalloc()` and `uvmcopy()` have the same loop (`loop_page`, `walk`, `mappages`) and the
same undo (`loop_fail`), and differ in where they start and return to. `exec` builds its
image in a table of its own until `exec_commit`; every early exit goes through `exec_bad`
with the size reached so far, as in the code. Pages are counted, not named: a place that is
present holds a page of its own. A page lost and another freed twice in one step would
cancel out; each alone shows. Processes interact through the free list only, so two are
enough for one to take the pages that the other's next `kalloc()` wants. Kernel stacks, the
kernel's page table and the pages of pipes are outside.

## Runs

| run | config | checks | distinct states |
|---|---|---|---|
| `log_crash` | `MCLog.cfg` | `TypeOK`, `EndOpDurable`, `PinsMatchLog`, refinement `CrashAtomic`; torn writes, two crashes | 184,688 |
| `log_live` | `MCLogLive.cfg` | `NoPanic`, `BeginOpAdmitted`, `RecoveryEnds`, with calls that log less than they reserve; two crashes | 193,314 |
| `log_full` | `MCLogFull.cfg` | violates `NoPanic`: see Findings | |
| `proc_smp` | `MCProc.cfg` | `OneCpu`, `NoLostWakeup`, `ParentAlive`, `SchedNoPanic`, `NoLockCircle`, `KillHitsItsTarget`, `ReapedIsGone`; two CPUs | 561,237 |
| `proc_live` | `MCProcLive.cfg` | `ZombieReaped` on one CPU | 13,592 |
| `proc_kill0` | `MCProcKill.cfg` | violates `KillHitsItsTarget`: see Findings | |
| `bcache` | `Bcache.cfg` | `OneBufferPerBlock`, `BufferIsMine`, `RefcntExact`, `Coherent`, `BreadReturns` | 66,043 |
| `virtio` | `Virtio.cfg` | `DescriptorsAccounted`, `RequestsAccounted`, `TransferBeforeReturn`, `RequestReturns`, `LastWaiterServed`; failing transfers | 138,138 |
| `fs` | `MCFs.cfg` | `RefExact`, `LinksCounted`, `NoUseAfterFree`, `IputNeverBlocks`, `NoDeadlock`; one crash | 473,818 |
| `fs_links` | `MCFsLinks.cfg` | violates `LinksExact`: see Findings | |
| `vm` | `Vm.cfg` | `PagesConserved`, `ImageComplete`, `VmNoPanic`; memories of 9 to 20 pages | 570,572 |
| `pipe` | `Pipe.cfg` | `Fifo`, `NobodySleepsInVain`, `FreedUnreachable`, `CallsReturn` | 49,866 |

Each property of a passing run has a mutant in `PROJECT.json`: a change of one definition,
of the kind a programmer would make by mistake, for which TLC reports that property.

### Bounds

- Log: three or four blocks in a log of three data blocks and two processes are enough
  for a transaction shared by two calls, for absorption (a block logged twice), for a call
  that waits for space and for one that waits for a commit. Two crashes give a crash during
  the recovery from a crash; in `log_live` the second may come while recovery is installing,
  with a torn block that the next one must repair. The number of calls is bounded, so a
  waiter in `begin_op()` is overtaken only a few times: `BeginOpAdmitted` says it is admitted
  once the others stop, and not that it is admitted in a crowd that never does. The theorems have no bounds.
- Proc: three slots are `init`, a parent and a child; with pids up to 4 a slot is used
  twice. In `exit()`, `wakeup(initproc)` in `reparent()` and `wakeup(p->parent)` reach the
  same sleeper when the parent is `init`; `NoLostWakeup` excuses a sleeping `init` only until
  the first of them has passed it, so a missing `wakeup(initproc)` shows with three slots.
  Liveness is checked on one CPU (with two and three slots the check did not finish in 25
  minutes); what two CPUs can do to each other is left to the invariants of `proc_smp`, among
  them `NoLockCircle`.
- Bcache: three blocks for two buffers force recycling, one pin makes a buffer
  unrecyclable, a second write meets a block that is already pinned.
- Virtio: seven descriptors serve two requests and leave one over, so that the third
  process's allocation fails half way; the indices count modulo 14, twice the length of the
  rings, so they go beyond a ring and wrap. One process's transfers may fail.
- Fs: three inodes are the root and two that are exhausted quickly; paths `a`, `b` and
  `a/b` give files in the root and in a directory that can be removed. Three calls are
  enough for a `mkdir` and two calls racing in the directory; one open file keeps an
  unlinked inode alive.
- Pipe: a ring of two bytes and counters modulo four wrap within five bytes; calls of up
  to three bytes are longer than the ring.
- Vm: pages of two bytes and sizes up to four give sizes on and off a page boundary;
  eight leaves per table force new page-table pages as a process grows. With 9 pages
  `fork` fails in the child's page table, with 12 while it copies, with 16 `exec` can fail
  in its stack, and with 20 one process commits an `exec` while the other's calls fail.

`CHECK_DEADLOCK FALSE` is set where the system may stop: when the bounded number of calls
has been made (`Log` without fairness, `Fs`), when a panic has stopped the kernel
(`Bcache`, `Virtio`), when both ends of the pipe are closed (`Pipe`). `Fs` states its own
`NoDeadlock`.

### Fairness

- A thread that can run does: `scheduler()` goes through the whole table in turn and the
  timer preempts, so weak fairness of a process's next step, and strong fairness where the
  step needs a spin lock that others take in between. A spin lock has no queue, so this is
  an assumption on the hardware: a lock that is free again and again is obtained.
- The same for a sleep-lock that becomes free again and again (`Bcache`), since a woken
  process competes for it anew.
- The disk finishes each write and each request, well or with an error.
- Programs: a call reaches its `end_op()`; an owner releases its buffer; in `proc_live` a
  program exits sooner or later and `init` waits again; in `pipe` a process closes its end
  when it is done, as `exit()` does.

Nothing is assumed about `kill()`, crashes, or which calls are made.

## What is proved

The theorems of `LogProofs`, `LogSpace` and `LogRefinement` hold for any finite sets of
processes and blocks, any contents, sizes and numbers of calls and crashes, under `LogAssumption` (sizes are natural
numbers, the log area has a header block, a call logs at most what it reserves, and the
markers for "no buffer" and "junk" are not contents).

| theorem | statement |
|---|---|
| `TypeCorrect` | `Spec => []TypeOK`; the headers never outgrow the log area |
| `CommitMakesDurable` | `Spec => []EndOpDurable` |
| `PinsBalanced` | `Spec => []PinsMatchLog` |
| `ReservationSuffices` | `Spec => []NoPanic`, if calls log fewer than `MAXOPBLOCKS` blocks and `MAXOPBLOCKS < LOGSIZE <= NLOG` |
| `LogImplementsTxDisk` | `Spec => CrashAtomic`: log and recovery implement `TxDisk` |

The inductive invariant is `IInv`, five conjuncts that need each other:

- `TypeOK`;
- `CtlInv`: `committing` is set exactly during a commit, `outstanding` counts the calls
  in progress, and the two exclude each other. So nothing is logged while the log is being
  written;
- `HeadInv`: a header never lists a block twice; the on-disk header is empty before the
  commit point and equal to `lh` after it. So the commit is one write;
- `BufInv`: a buffer that is not pinned is clean, and a pinned one has contents a call
  wrote; a block is pinned exactly while it is in the log and not installed. So recycling
  loses nothing;
- `DiskInv`: log blocks that were written equal the buffers, home blocks that were
  installed equal the log blocks, and a home block is `Junk` only while the header lists
  it. So a torn install is repaired by the next recovery.

`NextInv` has one lemma per action; those of `begin_op`, `log_write` and `end_op` are in
`LogInv`, the others in `LogProofs`. `ReservationSuffices` (`LogSpace`) adds `SpaceInv`: the entries of
the log plus the blocks that active calls may still log fit into the area. A call that
ends before the commit gives its reservation up but leaves its entries, so the argument
counts tokens: each active call holds those of its reserved blocks it has not logged. For
the refinement, `write_head` is `TxDisk`'s commit, `log_write` its write, `crash` its
crash, and every other step leaves `durable` and `current` alone; `StepRefines` puts the
cases together.

Only model-checked: everything in the other modules, and all liveness properties, which
are outside what the prover can do, as are statements that need induction over data.

## Findings

- `log_full`: `begin_op()` reserves out of `LOGSIZE` blocks, but `mkfs` makes the log
  area `LOGSIZE` blocks long *including* its header, and `log_write()` panics at
  `log.size - 1`. Calls that keep to `MAXOPBLOCKS` can fill the area and panic.
- `proc_kill0`: every unused slot has pid 0, so `kill(0)` succeeds and marks a free slot;
  `allocproc()` does not clear the flag, and the next process in that slot is killed.
- `fs_links`: `create()` (and `link()`) lock the directory after the path walk has unlocked
  it and do not test whether it was removed meanwhile. The new entry goes into a directory
  that is about to be freed, and its inode keeps a link count of one with no name.

In `pipe.c`, a writer that is killed returns without waking readers (`pipe.c:84`), although
bytes it has written may be in the ring; a reader then sleeps until the next write or
close. `NobodySleepsInVain` makes this exception and no wider one: it ends with the next
`wakeup(&pi->nread)`. An inode that was unlinked while open is
not freed after a crash; the code has no such step and no property asks for it.
`LinksCounted` is about concurrent calls (`link()` raises the count long before it adds the
entry); that a crash keeps calls whole is `CrashAtomic`.

## Not modelled, and why

Memory fences and instruction reordering (steps are sequentially consistent); the Sv39
bit layout, register-level start-up and trap entry; `printf` formatting and string
functions; the shell's parser and the other sequential user programs; `mkfs`, of which
only the length of the log area matters; the test programs. The interplay of layers is by
promise: `Fs` relies on `TxDisk`, `Log` on an abstraction of the buffer cache that `Bcache`
models in full, `Bcache` on a disk that answers, which `Virtio` models.

## Plan

1. `ProcProofs`: an inductive invariant for `Proc` (who holds which lock at which
   position; parents are alive; a zombie's parent is not asleep unless a wakeup is on its
   way) and from it `OneCpu`, `NoLostWakeup`, `ParentAlive`, `SchedNoPanic`, for every
   number of slots and CPUs.
2. `Files`: the file table with `filedup`, `fileclose`, `fork` and `dup`, and the blocks of
   an inode (`balloc`, `bmap`, `itrunc`, `readi`, `writei`, `filewrite`'s pieces).
3. `Console`: the input ring with its editing interrupt, and the transmit ring of `uart.c`.
4. `Timer`: `ticks`, `sys_sleep` and their wrap-around.
5. `Primes`: the sieve and `pingpong` over pipes: termination and the descriptors each
   process must close; `umalloc` and the argument splitting of `xargs` as pure functions.
6. Proofs for `Pipe` (`Fifo`, by counters that determine the ring), `Bcache`
   (`RefcntExact`, `Coherent`), `Fs` (`RefExact`) and `Vm` (`ImageComplete`, `VmNoPanic`).
7. `copyin`, `copyout` and permissions on top of `Vm`; `exec`'s inode and log operations
   with `Fs`.
