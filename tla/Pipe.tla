-------------------------------- MODULE Pipe --------------------------------
(***************************************************************************)
(* One pipe of kernel/pipe.c with the processes that hold its two ends.    *)
(*                                                                         *)
(* pi->lock is a variable because kill() does not take it: a process can   *)
(* be killed while it is in the middle of a transfer.  Bytes are numbered  *)
(* in the order in which they enter the pipe.                              *)
(***************************************************************************)
EXTENDS Integers, FiniteSets

CONSTANTS
  Writer, Reader,   \* processes that hold the write end, the read end
  Nobody,
  PIPESIZE,
  UINT,             \* number of values of the counters nread and nwrite
  MaxLen,           \* bound: length of one read() or write()
  MaxBytes,         \* bound: bytes written in a behaviour
  Killable          \* processes that may be killed

ASSUME PipeAssumption ==
  /\ PIPESIZE \in Nat \ {0} /\ UINT \in Nat /\ UINT > PIPESIZE /\ UINT % PIPESIZE = 0
  /\ MaxLen \in Nat /\ MaxBytes \in Nat
  /\ Writer \cap Reader = {} /\ Nobody \notin Writer \cup Reader
  /\ Killable \subseteq Writer \cup Reader

Proc == Writer \cup Reader

VARIABLES
  data, nread, nwrite, readopen, writeopen, lock,   \* struct pipe
  freed,                                            \* kfree(pi) has been called
  holds,                                            \* processes whose file is open
  killed, pc, left,                                 \* per process; left is n - i
  sent, taken,                                      \* history: bytes in, bytes out
  silent                                            \* history: a killed writer left bytes
                                                    \* since the last wakeup(&pi->nread)

ring == <<data, nread, nwrite>>
ends == <<readopen, writeopen, freed, holds>>
vars == <<ring, ends, lock, killed, pc, left, sent, taken, silent>>

Init ==
  /\ data = [k \in 0..(PIPESIZE - 1) |-> 0]
  /\ nread = 0 /\ nwrite = 0
  /\ readopen = TRUE /\ writeopen = TRUE
  /\ lock = Nobody /\ freed = FALSE
  /\ holds = Proc
  /\ killed = [p \in Proc |-> FALSE]
  /\ pc = [p \in Proc |-> "idle"]
  /\ left = [p \in Proc |-> 0]
  /\ sent = 0 /\ taken = 0 /\ silent = FALSE

Goto(p, l) == pc' = [pc EXCEPT ![p] = l]

\* mutant: the sum does not wrap
Full_NoWrap == nwrite = nread + PIPESIZE

Full == nwrite = (nread + PIPESIZE) % UINT
Empty == nread = nwrite

(* pc with everyone who sleeps on the channel runnable, p at l *)
Woken(from, to, p, l) ==
  [q \in Proc |-> IF q = p THEN l ELSE IF pc[q] = from THEN to ELSE pc[q]]

wakeup_nread(p, l) == pc' = Woken("r_asleep", "r_acquire", p, l) /\ silent' = FALSE
wakeup_nwrite(p, l) == pc' = Woken("w_asleep", "w_acquire", p, l)

-----------------------------------------------------------------------------
(* pipewrite() *)
sys_write(p) ==
  /\ p \in holds \cap Writer /\ pc[p] = "idle" /\ ~killed[p]
  /\ \E len \in 1..MaxLen : sent + len <= MaxBytes /\ left' = [left EXCEPT ![p] = len]
  /\ Goto(p, "w_acquire")
  /\ UNCHANGED <<ring, ends, lock, killed, sent, taken, silent>>

w_acquire(p) ==
  /\ pc[p] = "w_acquire" /\ lock = Nobody
  /\ lock' = p
  /\ Goto(p, "w_loop")
  /\ UNCHANGED <<ring, ends, killed, left, sent, taken, silent>>

(* top of the loop, when the tests on readopen and killed pass *)
Writing(p) == pc[p] = "w_loop" /\ left[p] > 0 /\ readopen /\ ~killed[p]

\* mutant: the lock is not released on the error path
w_error_locked(p) ==
  /\ pc[p] = "w_loop" /\ left[p] > 0 /\ (~readopen \/ killed[p])
  /\ Goto(p, "idle")
  /\ left' = [left EXCEPT ![p] = 0]
  /\ silent' = (silent \/ (killed[p] /\ ~Empty))
  /\ UNCHANGED <<ring, ends, lock, killed, sent, taken>>

w_error(p) ==
  /\ pc[p] = "w_loop" /\ left[p] > 0 /\ (~readopen \/ killed[p])
  /\ lock' = Nobody
  /\ Goto(p, "idle")
  /\ left' = [left EXCEPT ![p] = 0]
  /\ silent' = (silent \/ (killed[p] /\ ~Empty))
  /\ UNCHANGED <<ring, ends, killed, sent, taken>>

\* mutant: readers are not woken before the writer sleeps
w_full_silent(p) ==
  /\ Writing(p) /\ Full
  /\ Goto(p, "w_sleep")
  /\ UNCHANGED <<ring, ends, lock, killed, left, sent, taken, silent>>

w_full(p) ==
  /\ Writing(p) /\ Full
  /\ wakeup_nread(p, "w_sleep")
  /\ UNCHANGED <<ring, ends, lock, killed, left, sent, taken>>

w_sleep(p) ==
  /\ pc[p] = "w_sleep"
  /\ lock' = Nobody
  /\ Goto(p, "w_asleep")
  /\ UNCHANGED <<ring, ends, killed, left, sent, taken, silent>>

w_byte(p) ==
  /\ Writing(p) /\ ~Full /\ sent < MaxBytes
  /\ data' = [data EXCEPT ![nwrite % PIPESIZE] = sent + 1]
  /\ nwrite' = (nwrite + 1) % UINT
  /\ sent' = sent + 1
  /\ left' = [left EXCEPT ![p] = @ - 1]
  /\ UNCHANGED <<nread, ends, lock, killed, pc, taken, silent>>

(* All is written, or copyin() fails. *)
w_end(p) ==
  /\ pc[p] = "w_loop" /\ (left[p] = 0 \/ (Writing(p) /\ ~Full))
  /\ wakeup_nread(p, "idle")
  /\ lock' = Nobody
  /\ left' = [left EXCEPT ![p] = 0]
  /\ UNCHANGED <<ring, ends, killed, sent, taken>>

-----------------------------------------------------------------------------
(* piperead() *)
sys_read(p) ==
  /\ p \in holds \cap Reader /\ pc[p] = "idle" /\ ~killed[p]
  /\ \E len \in 1..MaxLen : left' = [left EXCEPT ![p] = len]
  /\ Goto(p, "r_acquire")
  /\ UNCHANGED <<ring, ends, lock, killed, sent, taken, silent>>

r_acquire(p) ==
  /\ pc[p] = "r_acquire" /\ lock = Nobody
  /\ lock' = p
  /\ Goto(p, IF Empty /\ writeopen THEN "r_wait" ELSE "r_copy")
  /\ UNCHANGED <<ring, ends, killed, left, sent, taken, silent>>

r_killed(p) ==
  /\ pc[p] = "r_wait" /\ killed[p]
  /\ lock' = Nobody
  /\ Goto(p, "idle")
  /\ left' = [left EXCEPT ![p] = 0]
  /\ UNCHANGED <<ring, ends, killed, sent, taken, silent>>

r_alive(p) ==
  /\ pc[p] = "r_wait" /\ ~killed[p]
  /\ Goto(p, "r_sleep")
  /\ UNCHANGED <<ring, ends, lock, killed, left, sent, taken, silent>>

r_sleep(p) ==
  /\ pc[p] = "r_sleep"
  /\ lock' = Nobody
  /\ Goto(p, "r_asleep")
  /\ UNCHANGED <<ring, ends, killed, left, sent, taken, silent>>

(* A byte leaves the ring before copyout() is tried. *)
r_byte(p) ==
  /\ pc[p] = "r_copy" /\ left[p] > 0 /\ ~Empty
  /\ nread' = (nread + 1) % UINT
  /\ taken' = taken + 1
  /\ left' = [left EXCEPT ![p] = @ - 1]
  /\ UNCHANGED pc \/ Goto(p, "r_fault")
  /\ UNCHANGED <<data, nwrite, ends, lock, killed, sent, silent>>

r_end(p) ==
  /\ \/ pc[p] = "r_copy" /\ (left[p] = 0 \/ Empty)
     \/ pc[p] = "r_fault"
  /\ wakeup_nwrite(p, "idle")
  /\ lock' = Nobody
  /\ left' = [left EXCEPT ![p] = 0]
  /\ UNCHANGED <<ring, ends, killed, sent, taken, silent>>

-----------------------------------------------------------------------------
(* fileclose() by a process; the last one of an end calls pipeclose(). *)
Last(p, side) == holds \cap side = {p}

close_ref(p) ==
  /\ pc[p] = "idle" /\ p \in holds /\ ~Last(p, Writer) /\ ~Last(p, Reader)
  /\ holds' = holds \ {p}
  /\ UNCHANGED <<ring, readopen, writeopen, freed, lock, killed, pc, left, sent, taken, silent>>

pipeclose_write(p) ==
  /\ pc[p] = "idle" /\ Last(p, Writer) /\ lock = Nobody
  /\ holds' = holds \ {p}
  /\ writeopen' = FALSE
  /\ wakeup_nread(p, "idle")
  /\ freed' = ~readopen
  /\ UNCHANGED <<ring, readopen, lock, killed, left, sent, taken>>

\* mutant: the page is freed whatever the other end
pipeclose_read_free(p) ==
  /\ pc[p] = "idle" /\ Last(p, Reader) /\ lock = Nobody
  /\ holds' = holds \ {p}
  /\ readopen' = FALSE
  /\ wakeup_nwrite(p, "idle")
  /\ freed' = TRUE
  /\ UNCHANGED <<ring, writeopen, lock, killed, left, sent, taken, silent>>

pipeclose_read(p) ==
  /\ pc[p] = "idle" /\ Last(p, Reader) /\ lock = Nobody
  /\ holds' = holds \ {p}
  /\ readopen' = FALSE
  /\ wakeup_nwrite(p, "idle")
  /\ freed' = ~writeopen
  /\ UNCHANGED <<ring, writeopen, lock, killed, left, sent, taken, silent>>

kill(p) ==
  /\ p \in Killable /\ ~killed[p]
  /\ killed' = [killed EXCEPT ![p] = TRUE]
  /\ Goto(p, CASE pc[p] = "w_asleep" -> "w_acquire"
               [] pc[p] = "r_asleep" -> "r_acquire"
               [] OTHER -> pc[p])
  /\ UNCHANGED <<ring, ends, lock, left, sent, taken, silent>>

Transfer(p) ==
  \/ w_acquire(p) \/ w_error(p) \/ w_full(p) \/ w_sleep(p) \/ w_byte(p) \/ w_end(p)
  \/ r_acquire(p) \/ r_killed(p) \/ r_alive(p) \/ r_sleep(p) \/ r_byte(p) \/ r_end(p)

Close(p) == close_ref(p) \/ pipeclose_write(p) \/ pipeclose_read(p)

Next == \E p \in Proc : sys_write(p) \/ sys_read(p) \/ Transfer(p) \/ Close(p) \/ kill(p)

Spec == Init /\ [][Next]_vars

(* Threads run, the lock is obtained in the end, and every writer, and every *)
(* reader that makes no more calls, closes its end sooner or later (exit()   *)
(* does).                                                                    *)
Fairness ==
  /\ \A p \in Proc : SF_vars(Transfer(p)) /\ WF_vars(Close(p))
  /\ \A p \in Writer : SF_vars(Close(p))

FairSpec == Spec /\ Fairness

-----------------------------------------------------------------------------
(* First in, first out, across wrap-arounds of the counters: the ring holds  *)
(* exactly the bytes written and not yet read, in order; so no byte is       *)
(* overwritten, skipped or read twice, whoever reads and writes.             *)
Fifo ==
  /\ sent - taken \in 0..PIPESIZE
  /\ \A k \in 1..(sent - taken) : data[((nread + k - 1) % UINT) % PIPESIZE] = taken + k

(* While the lock is free nobody sleeps in vain: a sleeping reader faces an  *)
(* empty pipe that may still be written, a sleeping writer a full one that   *)
(* may still be read.  The one exception: a writer that is killed in the     *)
(* middle of a write returns without a wakeup, and bytes that are in the     *)
(* ring then wait until the next write or close wakes the readers.           *)
NobodySleepsInVain ==
  \A p \in Proc :
    /\ pc[p] = "r_asleep" /\ lock = Nobody => writeopen /\ (Empty \/ silent)
    /\ pc[p] = "w_asleep" /\ lock = Nobody => Full /\ readopen

(* The page of the pipe is freed when nobody can reach the pipe any more.    *)
FreedUnreachable == freed => holds = {} /\ \A p \in Proc : pc[p] = "idle"

(* A read or a write returns once the other end is closed, if not before.    *)
CallsReturn == \A p \in Proc : pc[p] # "idle" ~> pc[p] = "idle"
=============================================================================
