--------------------------------- MODULE Vm ---------------------------------
(***************************************************************************)
(* Physical pages and who holds them: kernel/kalloc.c, the user page       *)
(* tables of kernel/vm.c, and their users fork(), exec(), sbrk() and       *)
(* freeproc().                                                             *)
(*                                                                         *)
(* A step makes one kalloc(); a run of kfree() calls is one step, because  *)
(* it cannot fail.  Pages are counted, not named: every place of a page    *)
(* table that is present holds one page of its own.  Sv39's three levels   *)
(* are kept, with N entries a table instead of 512; contents and           *)
(* permissions are left out.                                               *)
(***************************************************************************)
EXTENDS Integers, FiniteSets, FiniteSetsExt

CONSTANTS
  NPROC,
  Memory,     \* how many pages kinit() may find between end and PHYSTOP
  N,          \* entries of a page-table page
  PGSIZE,
  USERSTACK,
  ULONG,      \* number of values of a uint64
  MaxSz,      \* bound: end of a program segment, or size that sbrk() grows to
  MaxArgs     \* bound: arguments of exec()

(* user memory stays below TRAPFRAME, as PHYSTOP is far below MAXVA *)
ASSUME VmAssumption ==
  /\ NPROC \in Nat \ {0} /\ Memory \subseteq Nat /\ \A m \in Memory : m >= 7
  /\ N \in Nat /\ N >= 2 /\ PGSIZE \in Nat \ {0} /\ USERSTACK \in Nat /\ MaxArgs \in Nat
  /\ MaxSz \in Nat /\ MaxSz <= (N^3 - 3 - USERSTACK) * PGSIZE
  /\ ULONG \in Nat /\ ULONG > N^3 * PGSIZE

Slot == 1..NPROC

(* place of a page table on the way to va: level 3 is the root, 0 the page itself *)
PX(l, va) == <<l, va \div N^l>>
Root == <<3, 0>>
TRAMPOLINE == N^3 - 1
TRAPFRAME == N^3 - 2
Special == {<<0, TRAMPOLINE>>, <<0, TRAPFRAME>>}

PGROUNDUP(s) == ((s + PGSIZE - 1) \div PGSIZE) * PGSIZE
Pages(s) == PGROUNDUP(s) \div PGSIZE

(* p->pagetable of a process, and the one that exec() builds for it *)
Handle == Slot \X {"proc", "exec"}

VARIABLES
  free,                    \* length of kmem.freelist
  used, trapframe, sz,     \* struct proc; trapframe: it has one
  table,                   \* the present places of each page table
  pc, op,                  \* per process: position, and the call it makes
  loc,                     \* per process: locals of fork(), exec(), uvmalloc(), uvmcopy()
  panicked, phystop

vars == <<free, used, trapframe, sz, table, pc, op, loc, panicked, phystop>>

(* mem: a page in hand; sz: of the image exec() builds; args: argv[] of sys_exec() *)
NoLoc == [np |-> 0, a |-> 0, oldsz |-> 0, newsz |-> 0, mem |-> 0, sz |-> 0, args |-> 0]

(* after userinit(): the first process has one page *)
Init ==
  /\ phystop \in Memory /\ free = phystop - 7
  /\ used = [q \in Slot |-> q = 1] /\ trapframe = [q \in Slot |-> q = 1]
  /\ sz = [q \in Slot |-> IF q = 1 THEN PGSIZE ELSE 0]
  /\ table = [k \in Handle |->
                IF k = <<1, "proc">>
                  THEN {Root, PX(2, TRAMPOLINE), PX(1, TRAMPOLINE), PX(2, 0), PX(1, 0), PX(0, 0)}
                       \cup Special
                  ELSE {}]
  /\ pc = [q \in Slot |-> IF q = 1 THEN "user" ELSE "none"]
  /\ op = [q \in Slot |-> "none"] /\ loc = [q \in Slot |-> NoLoc]
  /\ panicked = FALSE

Goto(p, l) == pc' = [pc EXCEPT ![p] = l]

(* A call returns, its locals are dead. *)
Return(p) ==
  /\ Goto(p, "user") /\ op' = [op EXCEPT ![p] = "none"] /\ loc' = [loc EXCEPT ![p] = NoLoc]

kalloc == free > 0 /\ free' = free - 1
kfree(n) == free' = free + n

(* the table that p's call works on *)
pagetable(p) ==
  IF op[p] = "fork" THEN <<loc[p].np, "proc">>
  ELSE IF op[p] = "sbrk" THEN <<p, "proc">> ELSE <<p, "exec">>

(* where a call goes when an allocation fails *)
Undo(p) ==
  CASE op[p] = "fork" -> "fork_undo" [] op[p] = "sbrk" -> "sbrk_fail" [] OTHER -> "exec_bad"

(* pages that a table holds: the trampoline and the trapframe are not its own *)
Held(t) == Cardinality(t \ Special)

(* exactly what a process of size s has mapped *)
Exact(t, s) == {x \in t : x[1] = 0} = Special \cup {<<0, v>> : v \in 0..(Pages(s) - 1)}

-----------------------------------------------------------------------------
(* walk() with alloc, and mappages() of one page *)
Mapping == {"map_trampoline", "map_trapframe", "map"}
Va(p) ==
  CASE pc[p] = "map_trampoline" -> TRAMPOLINE
    [] pc[p] = "map_trapframe" -> TRAPFRAME
    [] OTHER -> loc[p].a \div PGSIZE
Missing(p) == {l \in 1..2 : PX(l, Va(p)) \notin table[pagetable(p)]}

walk(p) ==
  /\ pc[p] \in Mapping /\ Missing(p) # {} /\ kalloc
  /\ table' = [table EXCEPT ![pagetable(p)] = @ \cup {PX(Max(Missing(p)), Va(p))}]
  /\ UNCHANGED <<used, trapframe, sz, pc, op, loc, panicked>>

mappages(p) ==
  LET x == <<0, Va(p)>> IN
  /\ pc[p] \in Mapping /\ Missing(p) = {}
  /\ panicked' = (panicked \/ x \in table[pagetable(p)])
  /\ table' = [table EXCEPT ![pagetable(p)] = @ \cup {x}]
  /\ Goto(p, CASE pc[p] = "map_trampoline" -> "map_trapframe"
               [] pc[p] = "map_trapframe" /\ op[p] = "exec" -> "exec"
               [] OTHER -> "loop")
  /\ loc' = IF pc[p] = "map" THEN [loc EXCEPT ![p].a = @ + PGSIZE, ![p].mem = 0] ELSE loc
  /\ UNCHANGED <<free, used, trapframe, sz, op>>

(* uvmunmap() with do_free of the pages from newsz up to oldsz, of table k *)
Unmapped(oldsz, newsz) == {<<0, v>> : v \in Pages(newsz)..(Pages(oldsz) - 1)}
uvmunmap(k, gone, more) ==
  /\ panicked' = (panicked \/ ~(gone \subseteq table[k]))
  /\ kfree(Cardinality(gone) + more)
  /\ table' = [table EXCEPT ![k] = @ \ gone]

-----------------------------------------------------------------------------
(* proc_pagetable() *)
uvmcreate(p) ==
  /\ pc[p] = "uvmcreate" /\ kalloc
  /\ table' = [table EXCEPT ![pagetable(p)] = {Root}]
  /\ Goto(p, "map_trampoline")
  /\ UNCHANGED <<used, trapframe, sz, op, loc, panicked>>

uvmcreate_fail(p) ==
  /\ pc[p] = "uvmcreate" /\ free = 0
  /\ Goto(p, Undo(p))
  /\ UNCHANGED <<free, used, trapframe, sz, table, op, loc, panicked>>

(* uvmfree(pagetable, 0), after the trampoline has been unmapped *)
pagetable_fail(p) ==
  /\ pc[p] \in {"map_trampoline", "map_trapframe"} /\ Missing(p) # {} /\ free = 0
  /\ kfree(Held(table[pagetable(p)]))
  /\ table' = [table EXCEPT ![pagetable(p)] = {}]
  /\ Goto(p, Undo(p))
  /\ UNCHANGED <<used, trapframe, sz, op, loc, panicked>>

(* freewalk() panics at a page that uvmunmap() has left, uvmunmap() at a hole *)
proc_freepagetable_panic(k, s) == table[k] # {} /\ ~Exact(table[k], s)

-----------------------------------------------------------------------------
(* The loop of uvmalloc(), one page from oldsz to newsz in each iteration;   *)
(* uvmcopy() has the same loop and the same undo, from 0 to the parent's sz. *)
uvmalloc(l, from, to) ==
  [l EXCEPT !.oldsz = PGROUNDUP(from), !.a = PGROUNDUP(from), !.newsz = IF to < from THEN from ELSE to]

(* uvmcopy() panics if the parent's page is not there *)
loop_page(p) ==
  /\ pc[p] = "loop" /\ loc[p].a < loc[p].newsz /\ kalloc
  /\ panicked' = (panicked \/ (op[p] = "fork" /\ <<0, loc[p].a \div PGSIZE>> \notin table[<<p, "proc">>]))
  /\ loc' = [loc EXCEPT ![p].mem = 1]
  /\ Goto(p, "map")
  /\ UNCHANGED <<used, trapframe, sz, table, op>>

\* mutant: the page in hand is not given back
loop_fail_leak(p) ==
  /\ \/ pc[p] = "loop" /\ loc[p].a < loc[p].newsz
     \/ pc[p] = "map" /\ Missing(p) # {}
  /\ free = 0
  /\ uvmunmap(pagetable(p), Unmapped(loc[p].a, loc[p].oldsz), 0)
  /\ loc' = [loc EXCEPT ![p].mem = 0]
  /\ Goto(p, Undo(p))
  /\ UNCHANGED <<used, trapframe, sz, op>>

(* kalloc() or mappages() fails: unmap down to the old size *)
loop_fail(p) ==
  /\ \/ pc[p] = "loop" /\ loc[p].a < loc[p].newsz
     \/ pc[p] = "map" /\ Missing(p) # {}
  /\ free = 0
  /\ uvmunmap(pagetable(p), Unmapped(loc[p].a, loc[p].oldsz), loc[p].mem)
  /\ loc' = [loc EXCEPT ![p].mem = 0]
  /\ Goto(p, Undo(p))
  /\ UNCHANGED <<used, trapframe, sz, op>>

Looped(p) == pc[p] = "loop" /\ loc[p].a >= loc[p].newsz

-----------------------------------------------------------------------------
(* sbrk(): growproc() *)
sbrk_grow(p, n) ==
  /\ pc[p] = "user" /\ sz[p] + n <= MaxSz
  /\ op' = [op EXCEPT ![p] = "sbrk"]
  /\ loc' = [loc EXCEPT ![p] = uvmalloc(@, sz[p], sz[p] + n)]
  /\ Goto(p, "loop")
  /\ UNCHANGED <<free, used, trapframe, sz, table, panicked>>

sbrk_done(p) ==
  /\ Looped(p) /\ op[p] = "sbrk"
  /\ sz' = [sz EXCEPT ![p] = loc[p].newsz]
  /\ Return(p)
  /\ UNCHANGED <<free, used, trapframe, table, panicked>>

\* mutant: uvmalloc()'s 0 is stored as the size
sbrk_fail_stored(p) ==
  /\ pc[p] = "sbrk_fail"
  /\ sz' = [sz EXCEPT ![p] = 0]
  /\ Return(p)
  /\ UNCHANGED <<free, used, trapframe, table, panicked>>

sbrk_fail(p) ==
  /\ pc[p] = "sbrk_fail"
  /\ Return(p)
  /\ UNCHANGED <<free, used, trapframe, sz, table, panicked>>

(* uvmdealloc(): a size below zero wraps around and changes nothing *)
sbrk_shrink(p, n) ==
  LET newsz == (sz[p] - n) % ULONG IN
  /\ pc[p] = "user"
  /\ uvmunmap(<<p, "proc">>, IF newsz >= sz[p] THEN {} ELSE Unmapped(sz[p], newsz), 0)
  /\ sz' = [sz EXCEPT ![p] = IF newsz >= @ THEN @ ELSE newsz]
  /\ UNCHANGED <<used, trapframe, pc, op, loc>>

-----------------------------------------------------------------------------
(* fork(): allocproc(), then uvmcopy() *)
fork(p, q) ==
  /\ pc[p] = "user" /\ ~used[q]
  /\ used' = [used EXCEPT ![q] = TRUE]
  /\ op' = [op EXCEPT ![p] = "fork"]
  /\ loc' = [loc EXCEPT ![p] = [uvmalloc(@, 0, sz[p]) EXCEPT !.np = q]]
  /\ Goto(p, "trapframe")
  /\ UNCHANGED <<free, trapframe, sz, table, panicked>>

alloc_trapframe(p) ==
  /\ pc[p] = "trapframe" /\ kalloc
  /\ trapframe' = [trapframe EXCEPT ![loc[p].np] = TRUE]
  /\ Goto(p, "uvmcreate")
  /\ UNCHANGED <<used, sz, table, op, loc, panicked>>

alloc_trapframe_fail(p) ==
  /\ pc[p] = "trapframe" /\ free = 0
  /\ Goto(p, "fork_undo")
  /\ UNCHANGED <<free, used, trapframe, sz, table, op, loc, panicked>>

fork_done(p) ==
  LET np == loc[p].np IN
  /\ Looped(p) /\ op[p] = "fork"
  /\ sz' = [sz EXCEPT ![np] = sz[p]]
  /\ pc' = [pc EXCEPT ![p] = "user", ![np] = "user"]
  /\ op' = [op EXCEPT ![p] = "none"] /\ loc' = [loc EXCEPT ![p] = NoLoc]
  /\ UNCHANGED <<free, used, trapframe, table, panicked>>

(* freeproc(), of a child that fork() gives up or of one that has exited *)
freeproc(q) ==
  /\ kfree(Held(table[<<q, "proc">>]) + (IF trapframe[q] THEN 1 ELSE 0))
  /\ trapframe' = [trapframe EXCEPT ![q] = FALSE]
  /\ panicked' = (panicked \/ proc_freepagetable_panic(<<q, "proc">>, sz[q]))
  /\ table' = [table EXCEPT ![<<q, "proc">>] = {}]
  /\ sz' = [sz EXCEPT ![q] = 0]
  /\ used' = [used EXCEPT ![q] = FALSE]

fork_undo(p) ==
  /\ pc[p] = "fork_undo"
  /\ freeproc(loc[p].np)
  /\ Return(p)

(* init never exits; everyone else is reaped by a parent *)
wait(q) ==
  /\ q # 1 /\ pc[q] = "user"
  /\ freeproc(q)
  /\ Goto(q, "none")
  /\ UNCHANGED <<op, loc>>

-----------------------------------------------------------------------------
(* sys_exec() copies the arguments into pages, exec() builds a new image. *)
sys_exec(p) ==
  /\ pc[p] = "user"
  /\ op' = [op EXCEPT ![p] = "exec"]
  /\ Goto(p, "args")
  /\ UNCHANGED <<free, used, trapframe, sz, table, loc, panicked>>

exec_arg(p) ==
  /\ pc[p] = "args" /\ loc[p].args < MaxArgs /\ kalloc
  /\ loc' = [loc EXCEPT ![p].args = @ + 1]
  /\ UNCHANGED <<used, trapframe, sz, table, pc, op, panicked>>

(* The program is there, or no page, a bad argument or a bad file ends the call. *)
exec_start(p) ==
  /\ pc[p] = "args"
  /\ Goto(p, "uvmcreate") \/ Goto(p, "exec_bad")
  /\ UNCHANGED <<free, used, trapframe, sz, table, op, loc, panicked>>

(* a segment that ends at s *)
exec_segment(p, s) ==
  /\ pc[p] = "exec"
  /\ loc' = [loc EXCEPT ![p] = uvmalloc(@, @.sz, s)]
  /\ Goto(p, "loop")
  /\ UNCHANGED <<free, used, trapframe, sz, table, op, panicked>>

(* uvmalloc() returns the size, 0 being its error; then loadseg() fills pages in *)
exec_loaded(p) ==
  LET top == loc[p].newsz IN
  /\ Looped(p) /\ op[p] = "exec"
  /\ panicked' = (panicked \/ ~(Unmapped(top, 0) \subseteq table[<<p, "exec">>]))
  /\ loc' = [loc EXCEPT ![p].sz = top]
  /\ Goto(p, IF top = 0 THEN "exec_bad" ELSE "exec")
  /\ UNCHANGED <<free, used, trapframe, sz, table, op>>

(* the stack, with its guard page below *)
exec_stack(p) ==
  LET top == PGROUNDUP(loc[p].sz) IN
  /\ pc[p] = "exec"
  /\ loc' = [loc EXCEPT ![p] = [uvmalloc(@, top, top + (USERSTACK + 1) * PGSIZE) EXCEPT !.sz = top]]
  /\ op' = [op EXCEPT ![p] = "stack"]
  /\ Goto(p, "loop")
  /\ UNCHANGED <<free, used, trapframe, sz, table, panicked>>

exec_stacked(p) ==
  /\ Looped(p) /\ op[p] = "stack"
  /\ loc' = [loc EXCEPT ![p].sz = loc[p].newsz]
  /\ Goto(p, "commit")
  /\ UNCHANGED <<free, used, trapframe, sz, table, op, panicked>>

(* readi(), a check of the program header, loadseg() or copyout() fails *)
exec_error(p) ==
  /\ pc[p] \in {"exec", "commit"}
  /\ Goto(p, "exec_bad")
  /\ UNCHANGED <<free, used, trapframe, sz, table, op, loc, panicked>>

\* mutant: the old image is freed with the size of the new one
exec_commit_newsz(p) ==
  LET old == <<p, "proc">>
      new == <<p, "exec">>
  IN /\ pc[p] = "commit"
     /\ kfree(Held(table[old]) + loc[p].args)
     /\ panicked' = (panicked \/ proc_freepagetable_panic(old, loc[p].sz))
     /\ table' = [table EXCEPT ![old] = table[new], ![new] = {}]
     /\ sz' = [sz EXCEPT ![p] = loc[p].sz]
     /\ Return(p)
     /\ UNCHANGED <<used, trapframe>>

exec_commit(p) ==
  LET old == <<p, "proc">>
      new == <<p, "exec">>
  IN /\ pc[p] = "commit"
     /\ kfree(Held(table[old]) + loc[p].args)
     /\ panicked' = (panicked \/ proc_freepagetable_panic(old, sz[p]))
     /\ table' = [table EXCEPT ![old] = table[new], ![new] = {}]
     /\ sz' = [sz EXCEPT ![p] = loc[p].sz]
     /\ Return(p)
     /\ UNCHANGED <<used, trapframe>>

exec_bad(p) ==
  /\ pc[p] = "exec_bad"
  /\ kfree(Held(table[<<p, "exec">>]) + loc[p].args)
  /\ panicked' = (panicked \/ proc_freepagetable_panic(<<p, "exec">>, loc[p].sz))
  /\ table' = [table EXCEPT ![<<p, "exec">>] = {}]
  /\ Return(p)
  /\ UNCHANGED <<used, trapframe, sz>>

Next ==
  /\ \E p \in Slot :
       \/ walk(p) \/ mappages(p) \/ uvmcreate(p) \/ uvmcreate_fail(p) \/ pagetable_fail(p)
       \/ loop_page(p) \/ loop_fail(p)
       \/ \E n \in 1..MaxSz : sbrk_grow(p, n)
       \/ \E n \in 1..(MaxSz + 1) : sbrk_shrink(p, n)
       \/ sbrk_done(p) \/ sbrk_fail(p)
       \/ \E q \in Slot : fork(p, q)
       \/ alloc_trapframe(p) \/ alloc_trapframe_fail(p) \/ fork_done(p) \/ fork_undo(p) \/ wait(p)
       \/ sys_exec(p) \/ exec_arg(p) \/ exec_start(p) \/ \E s \in 0..MaxSz : exec_segment(p, s)
       \/ exec_loaded(p) \/ exec_stack(p) \/ exec_stacked(p) \/ exec_error(p)
       \/ exec_commit(p) \/ exec_bad(p)
  /\ UNCHANGED phystop

Spec == Init /\ [][Next]_vars

-----------------------------------------------------------------------------
(* Pages are conserved: the free list, the trapframes, the page tables and   *)
(* the calls in progress together hold every page once.  So no fork(),       *)
(* exec(), sbrk() or exit(), failed at whatever allocation, loses a page or  *)
(* frees one twice; usertests counts the free pages before and after its     *)
(* tests ("lost some free pages", usertests.c:3085).                         *)
PagesConserved ==
  /\ free \in Nat
  /\ free + MapThenSumSet(LAMBDA q : (IF trapframe[q] THEN 1 ELSE 0) + loc[q].mem + loc[q].args, Slot)
          + MapThenSumSet(LAMBDA k : Held(table[k]), Handle) = phystop

(* A process in user space has exactly the pages below its size mapped, and  *)
(* trampoline and trapframe where trampoline.S looks for them, each of which *)
(* walk() finds through present page-table pages; an exec() or sbrk() that   *)
(* failed has left it so, and no half-built image is left over.              *)
ImageComplete ==
  \A q \in Slot : pc[q] = "user" =>
    /\ used[q] /\ trapframe[q]
    /\ Exact(table[<<q, "proc">>], sz[q]) /\ table[<<q, "exec">>] = {}
    /\ \A x \in table[<<q, "proc">>] \ {Root} : <<x[1] + 1, x[2] \div N>> \in table[<<q, "proc">>]

(* No undo of a failed allocation and no exit reaches "mappages: remap",     *)
(* "uvmunmap: not mapped", "uvmcopy: page not present", "loadseg: address    *)
(* should exist" or "freewalk: leaf".                                        *)
VmNoPanic == ~panicked
=============================================================================
