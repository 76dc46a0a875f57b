--------------------------------- MODULE Fs ---------------------------------
(***************************************************************************)
(* Inodes, directories and the system calls that change the directory      *)
(* tree: kernel/fs.c and kernel/sysfile.c.                                 *)
(*                                                                         *)
(* A step is what a process does under itable.lock, or while it holds the  *)
(* sleep-lock of an inode and waits for nothing.  An in-memory inode and   *)
(* its dinode are one, because iupdate() follows every change; valid and   *)
(* ref tell what the table knows.  The table has room for every inode.     *)
(* File contents, devices and current directories are left out.  The log   *)
(* is its promise: updates become durable together when no call is active. *)
(***************************************************************************)
EXTENDS Integers, Sequences, FiniteSets

CONSTANTS
  Proc, Nobody,
  NINODES,      \* inodes on the disk
  Name,
  Path,         \* path names: sequences of names, from the root
  MaxOps,       \* bound: system calls in a behaviour
  MaxOpen,      \* NFILE: open files
  MaxCrashes    \* bound: crashes in a behaviour

ASSUME FsAssumption ==
  /\ NINODES \in Nat \ {0} /\ Path \subseteq Seq(Name) \ {<<>>} /\ Nobody \notin Proc
  /\ MaxOps \in Nat /\ MaxOpen \in Nat /\ MaxCrashes \in Nat

Inum == 1..NINODES
ROOTINO == 1

VARIABLES
  type, nlink, ent,      \* on disk: kind of inode, link count, directory entries
  ref, valid, lock,      \* struct inode in itable
  open,                  \* inodes of open files, one entry per file
  pc, op, path, new,     \* per process: position, system call, its path names
  dp, ip,                \* per process: the inodes it works on
  inum,                  \* per process: the inode that ialloc() looks at
  put, ret,              \* per process: iput(put), and where it returns to
  durable,               \* the disk after recovery
  nops, ncrash           \* bounded counters

disk == <<type, nlink, ent>>
itable == <<ref, valid, lock>>
call == <<op, path, new, dp, ip, inum>>
vars == <<disk, itable, open, pc, call, put, ret, durable, nops, ncrash>>

Empty == [n \in Name |-> 0]

Init ==
  /\ type = [i \in Inum |-> IF i = ROOTINO THEN "dir" ELSE "free"]
  /\ nlink = [i \in Inum |-> IF i = ROOTINO THEN 1 ELSE 0]
  /\ ent = [i \in Inum |-> Empty]
  /\ durable = disk
  /\ ref = [i \in Inum |-> 0]
  /\ valid = [i \in Inum |-> FALSE]
  /\ lock = [i \in Inum |-> Nobody]
  /\ open = [f \in 1..MaxOpen |-> 0]
  /\ pc = [p \in Proc |-> "idle"]
  /\ op = [p \in Proc |-> "none"]
  /\ path = [p \in Proc |-> <<>>] /\ new = [p \in Proc |-> <<>>]
  /\ dp = [p \in Proc |-> 0] /\ ip = [p \in Proc |-> 0] /\ inum = [p \in Proc |-> 0]
  /\ put = [p \in Proc |-> 0] /\ ret = [p \in Proc |-> "none"]
  /\ nops = 0 /\ ncrash = 0

Goto(p, l) == pc' = [pc EXCEPT ![p] = l]

(* call iput(i), then continue at l *)
Put(p, i, l) ==
  /\ Goto(p, "iput")
  /\ put' = [put EXCEPT ![p] = i] /\ ret' = [ret EXCEPT ![p] = l]

(* A directory is a function from names to inode numbers, 0 if there is none. *)
dirlookup(d, n) == ent[d][n]
dirlink(e, d, n, i) == [e EXCEPT ![d][n] = i]
itrunc(e, i) == [e EXCEPT ![i] = Empty]
skipelem(pa) == Tail(pa)

-----------------------------------------------------------------------------
(* iget(): a new table entry has valid = 0 *)
iget(r, v, i) == /\ ref' = [r EXCEPT ![i] = @ + 1]
                 /\ valid' = IF r[i] = 0 THEN [v EXCEPT ![i] = FALSE] ELSE v

(* ilock() that gets the lock; the inode is read if necessary *)
Ilocked(v, i) == [v EXCEPT ![i] = TRUE]

(* iput(): the reference goes; if it is the last one of an inode without     *)
(* links, the inode is freed first.                                          *)
LastUse(i) == ref[i] = 1 /\ valid[i] /\ nlink[i] = 0

iput_dec(p) ==
  /\ pc[p] = "iput" /\ ~LastUse(put[p])
  /\ ref' = [ref EXCEPT ![put[p]] = @ - 1]
  /\ Goto(p, ret[p])
  /\ put' = [put EXCEPT ![p] = 0] /\ ret' = [ret EXCEPT ![p] = "none"]
  /\ UNCHANGED <<disk, valid, lock, open, call, durable, nops, ncrash>>

iput_lock(p) ==
  /\ pc[p] = "iput" /\ LastUse(put[p]) /\ lock[put[p]] = Nobody
  /\ lock' = [lock EXCEPT ![put[p]] = p]
  /\ Goto(p, "iput_free")
  /\ UNCHANGED <<disk, ref, valid, open, call, put, ret, durable, nops, ncrash>>

(* itrunc(), type = 0, iupdate(): from here on ialloc() may find the inode *)
iput_free(p) ==
  /\ pc[p] = "iput_free"
  /\ type' = [type EXCEPT ![put[p]] = "free"]
  /\ ent' = itrunc(ent, put[p])
  /\ Goto(p, "iput_unlock")
  /\ UNCHANGED <<nlink, itable, open, call, put, ret, durable, nops, ncrash>>

iput_unlock(p) ==
  /\ pc[p] = "iput_unlock"
  /\ valid' = [valid EXCEPT ![put[p]] = FALSE]
  /\ lock' = [lock EXCEPT ![put[p]] = Nobody]
  /\ Goto(p, "iput_last")
  /\ UNCHANGED <<disk, ref, open, call, put, ret, durable, nops, ncrash>>

iput_last(p) ==
  /\ pc[p] = "iput_last"
  /\ ref' = [ref EXCEPT ![put[p]] = @ - 1]
  /\ Goto(p, ret[p])
  /\ put' = [put EXCEPT ![p] = 0] /\ ret' = [ret EXCEPT ![p] = "none"]
  /\ UNCHANGED <<disk, valid, lock, open, call, durable, nops, ncrash>>

-----------------------------------------------------------------------------
(* A system call starts: open() with or without O_CREATE, mkdir(), unlink(). *)
sys_call(p, o, pa) ==
  /\ pc[p] = "idle" /\ nops < MaxOps
  /\ nops' = nops + 1
  /\ op' = [op EXCEPT ![p] = o] /\ path' = [path EXCEPT ![p] = pa]
  /\ dp' = [dp EXCEPT ![p] = ROOTINO]
  /\ iget(ref, valid, ROOTINO)
  /\ Goto(p, "namex")
  /\ UNCHANGED <<disk, lock, open, new, ip, put, ret, inum, durable, ncrash>>

sys_link(p, old, to) ==
  /\ pc[p] = "idle" /\ nops < MaxOps
  /\ nops' = nops + 1
  /\ op' = [op EXCEPT ![p] = "link"]
  /\ path' = [path EXCEPT ![p] = old] /\ new' = [new EXCEPT ![p] = to]
  /\ dp' = [dp EXCEPT ![p] = ROOTINO]
  /\ iget(ref, valid, ROOTINO)
  /\ Goto(p, "namex")
  /\ UNCHANGED <<disk, lock, open, ip, put, ret, inum, durable, ncrash>>

(* fileclose() of the last reference to an open file *)
fileclose(p, f) ==
  /\ pc[p] = "idle" /\ open[f] # 0
  /\ open' = [open EXCEPT ![f] = 0]
  /\ op' = [op EXCEPT ![p] = "close"]
  /\ Put(p, open[f], "end")
  /\ UNCHANGED <<disk, itable, path, new, dp, ip, inum, durable, nops, ncrash>>

(* end_op(): the call that leaves no other active commits. *)
end_op(p) ==
  /\ pc[p] = "end"
  /\ Goto(p, "idle")
  /\ op' = [op EXCEPT ![p] = "none"]
  /\ path' = [path EXCEPT ![p] = <<>>] /\ new' = [new EXCEPT ![p] = <<>>]
  /\ durable' = IF \A q \in Proc \ {p} : pc[q] = "idle" THEN disk ELSE durable
  /\ UNCHANGED <<disk, itable, open, dp, ip, put, ret, inum, nops, ncrash>>

-----------------------------------------------------------------------------
(* namex(): dp is the inode the walk has reached, path what is left of the   *)
(* name.  One step locks dp, looks the next name up and unlocks dp; then dp  *)
(* is put, while the inode that was found is kept by its reference.          *)
name(p) == Head(path[p])

(* nameiparent(): stop at the last name.  link() walks twice. *)
WantsParent(p) == op[p] \in {"create", "mkdir", "unlink"} \/ (op[p] = "link" /\ ip[p] # 0)

Failed(p) == IF op[p] = "link" /\ ip[p] # 0 THEN "link_bad" ELSE "end"

namex_parent(p) ==
  /\ pc[p] = "namex" /\ lock[dp[p]] = Nobody
  /\ type[dp[p]] = "dir" /\ WantsParent(p) /\ Len(path[p]) = 1
  /\ valid' = Ilocked(valid, dp[p])
  /\ Goto(p, IF op[p] \in {"create", "mkdir"} THEN "create" ELSE op[p])
  /\ UNCHANGED <<disk, ref, lock, open, call, put, ret, durable, nops, ncrash>>

\* mutant: the reference to the last directory is kept
namex_fail_keep(p) ==
  /\ pc[p] = "namex" /\ lock[dp[p]] = Nobody
  /\ \/ type[dp[p]] # "dir"
     \/ ~(WantsParent(p) /\ Len(path[p]) = 1) /\ dirlookup(dp[p], name(p)) = 0
  /\ valid' = Ilocked(valid, dp[p])
  /\ Goto(p, Failed(p))
  /\ dp' = [dp EXCEPT ![p] = 0]
  /\ UNCHANGED <<disk, ref, lock, open, op, path, new, ip, put, ret, inum, durable, nops, ncrash>>

namex_fail(p) ==
  /\ pc[p] = "namex" /\ lock[dp[p]] = Nobody
  /\ \/ type[dp[p]] # "dir"
     \/ ~(WantsParent(p) /\ Len(path[p]) = 1) /\ dirlookup(dp[p], name(p)) = 0
  /\ valid' = Ilocked(valid, dp[p])
  /\ Put(p, dp[p], Failed(p))
  /\ dp' = [dp EXCEPT ![p] = 0]
  /\ UNCHANGED <<disk, ref, lock, open, op, path, new, ip, inum, durable, nops, ncrash>>

(* The directory is unlocked before the next inode is locked. *)
namex_next(p) ==
  LET next == dirlookup(dp[p], name(p))
      found == Len(path[p]) = 1
  IN /\ pc[p] = "namex" /\ lock[dp[p]] = Nobody
     /\ type[dp[p]] = "dir" /\ ~(WantsParent(p) /\ found) /\ next # 0
     /\ iget(ref, Ilocked(valid, dp[p]), next)
     /\ path' = [path EXCEPT ![p] = skipelem(@)]
     /\ Put(p, dp[p], IF found THEN op[p] ELSE "namex")
     /\ dp' = [dp EXCEPT ![p] = IF found THEN 0 ELSE next]
     /\ ip' = [ip EXCEPT ![p] = IF found THEN next ELSE @]
     /\ UNCHANGED <<disk, lock, open, op, new, inum, durable, nops, ncrash>>

-----------------------------------------------------------------------------
(* create(), for open(O_CREATE) and mkdir() *)
Kind(p) == IF op[p] = "mkdir" THEN "dir" ELSE "file"

create_exists(p) ==
  LET i == dirlookup(dp[p], name(p)) IN
  /\ pc[p] = "create" /\ lock[dp[p]] = Nobody /\ i # 0
  /\ iget(ref, Ilocked(valid, dp[p]), i)
  /\ ip' = [ip EXCEPT ![p] = i] /\ dp' = [dp EXCEPT ![p] = 0]
  /\ Put(p, dp[p], "create_found")
  /\ UNCHANGED <<disk, lock, open, op, path, new, inum, durable, nops, ncrash>>

create_found(p) ==
  /\ pc[p] = "create_found" /\ lock[ip[p]] = Nobody
  /\ valid' = Ilocked(valid, ip[p])
  /\ IF Kind(p) = "file" /\ type[ip[p]] = "file"
       THEN /\ lock' = [lock EXCEPT ![ip[p]] = p]
            /\ Goto(p, "open_file")
            /\ UNCHANGED <<ip, put, ret>>
       ELSE /\ Put(p, ip[p], "end")
            /\ ip' = [ip EXCEPT ![p] = 0]
            /\ UNCHANGED lock
  /\ UNCHANGED <<disk, ref, open, op, path, new, dp, inum, durable, nops, ncrash>>

create_lock(p) ==
  /\ pc[p] = "create" /\ lock[dp[p]] = Nobody /\ dirlookup(dp[p], name(p)) = 0
  /\ lock' = [lock EXCEPT ![dp[p]] = p]
  /\ valid' = Ilocked(valid, dp[p])
  /\ inum' = [inum EXCEPT ![p] = 1]
  /\ Goto(p, "ialloc")
  /\ UNCHANGED <<disk, ref, open, op, path, new, dp, ip, put, ret, durable, nops, ncrash>>

(* ialloc() looks at one inode after the other, holding the block of one.    *)
ialloc_next(p) ==
  /\ pc[p] = "ialloc" /\ inum[p] \in Inum /\ type[inum[p]] # "free"
  /\ inum' = [inum EXCEPT ![p] = @ + 1]
  /\ UNCHANGED <<disk, itable, open, pc, op, path, new, dp, ip, put, ret, durable, nops, ncrash>>

ialloc(p) ==
  LET i == inum[p] IN
  /\ pc[p] = "ialloc" /\ i \in Inum /\ type[i] = "free"
  /\ type' = [type EXCEPT ![i] = Kind(p)]
  /\ nlink' = [nlink EXCEPT ![i] = 0]
  /\ ent' = [ent EXCEPT ![i] = Empty]
  /\ iget(ref, valid, i)
  /\ ip' = [ip EXCEPT ![p] = i] /\ inum' = [inum EXCEPT ![p] = 0]
  /\ Goto(p, "create_fill")
  /\ UNCHANGED <<lock, open, op, path, new, dp, put, ret, durable, nops, ncrash>>

(* "ialloc: no inodes", although one may have become free behind the scan *)
ialloc_full(p) ==
  /\ pc[p] = "ialloc" /\ inum[p] \notin Inum
  /\ lock' = [lock EXCEPT ![dp[p]] = Nobody]
  /\ Put(p, dp[p], "end")
  /\ dp' = [dp EXCEPT ![p] = 0] /\ inum' = [inum EXCEPT ![p] = 0]
  /\ UNCHANGED <<disk, ref, valid, open, op, path, new, ip, durable, nops, ncrash>>

(* The new inode is locked and filled in, and gets its entry in dp. *)
create_fill(p) ==
  /\ pc[p] = "create_fill" /\ lock[ip[p]] = Nobody
  /\ valid' = Ilocked(valid, ip[p])
  /\ lock' = [lock EXCEPT ![ip[p]] = p, ![dp[p]] = Nobody]
  /\ nlink' = [nlink EXCEPT ![ip[p]] = 1, ![dp[p]] = IF Kind(p) = "dir" THEN @ + 1 ELSE @]
  /\ ent' = dirlink(ent, dp[p], name(p), ip[p])
  /\ Put(p, dp[p], IF Kind(p) = "dir" THEN "mkdir_done" ELSE "open_file")
  /\ dp' = [dp EXCEPT ![p] = 0]
  /\ UNCHANGED <<type, ref, open, op, path, new, ip, inum, durable, nops, ncrash>>

\* mutant: iput() before iunlock()
create_fail_locked(p) ==
  /\ pc[p] = "create_fill" /\ lock[ip[p]] = Nobody
  /\ valid' = Ilocked(valid, ip[p])
  /\ lock' = [lock EXCEPT ![ip[p]] = p]
  /\ nlink' = [nlink EXCEPT ![ip[p]] = 0]
  /\ Put(p, ip[p], "create_undo")
  /\ ip' = [ip EXCEPT ![p] = 0]
  /\ UNCHANGED <<type, ent, ref, open, op, path, new, dp, inum, durable, nops, ncrash>>

(* A dirlink() fails for want of disk blocks: the inode is given up. *)
create_fail(p) ==
  /\ pc[p] = "create_fill" /\ lock[ip[p]] = Nobody
  /\ valid' = Ilocked(valid, ip[p])
  /\ nlink' = [nlink EXCEPT ![ip[p]] = 0]
  /\ Put(p, ip[p], "create_undo")
  /\ ip' = [ip EXCEPT ![p] = 0]
  /\ UNCHANGED <<type, ent, ref, lock, open, op, path, new, dp, inum, durable, nops, ncrash>>

(* iunlockput(dp) at the end of a call that failed; also of unlink() *)
PutDir(p) ==
  /\ lock' = [lock EXCEPT ![dp[p]] = Nobody]
  /\ Put(p, dp[p], "end")
  /\ dp' = [dp EXCEPT ![p] = 0]
  /\ UNCHANGED <<disk, ref, valid, open, op, path, new, ip, inum, durable, nops, ncrash>>

create_undo(p) == pc[p] = "create_undo" /\ PutDir(p)

(* iunlockput(ip) *)
PutInode(p) ==
  /\ lock' = [lock EXCEPT ![ip[p]] = Nobody]
  /\ Put(p, ip[p], "end")
  /\ ip' = [ip EXCEPT ![p] = 0]
  /\ UNCHANGED <<disk, ref, valid, open, op, path, new, dp, inum, durable, nops, ncrash>>

mkdir_done(p) == pc[p] = "mkdir_done" /\ PutInode(p)

(* open() without O_CREATE; a directory may be opened for reading only *)
open_lock(p) ==
  /\ pc[p] = "open" /\ lock[ip[p]] = Nobody
  /\ lock' = [lock EXCEPT ![ip[p]] = p]
  /\ valid' = Ilocked(valid, ip[p])
  /\ Goto(p, "open_file")
  /\ UNCHANGED <<disk, ref, open, call, put, ret, durable, nops, ncrash>>

(* filealloc() and fdalloc(): the file takes over the reference *)
open_file(p, f) ==
  /\ pc[p] = "open_file" /\ open[f] = 0
  /\ open' = [open EXCEPT ![f] = ip[p]]
  /\ lock' = [lock EXCEPT ![ip[p]] = Nobody]
  /\ ip' = [ip EXCEPT ![p] = 0]
  /\ Goto(p, "end")
  /\ UNCHANGED <<disk, ref, valid, op, path, new, dp, put, ret, inum, durable, nops, ncrash>>

(* no file, no descriptor, or a directory opened for writing *)
open_fail(p) == pc[p] = "open_file" /\ PutInode(p)

-----------------------------------------------------------------------------
(* unlink() locks the directory and then the inode. *)

\* mutant: the directory is not unlocked
unlink_none_locked(p) ==
  /\ pc[p] = "unlink" /\ lock[dp[p]] = Nobody /\ dirlookup(dp[p], name(p)) = 0
  /\ lock' = [lock EXCEPT ![dp[p]] = p]
  /\ valid' = Ilocked(valid, dp[p])
  /\ Put(p, dp[p], "end")
  /\ dp' = [dp EXCEPT ![p] = 0]
  /\ UNCHANGED <<disk, ref, open, op, path, new, ip, inum, durable, nops, ncrash>>

unlink_none(p) ==
  /\ pc[p] = "unlink" /\ lock[dp[p]] = Nobody /\ dirlookup(dp[p], name(p)) = 0
  /\ valid' = Ilocked(valid, dp[p])
  /\ Put(p, dp[p], "end")
  /\ dp' = [dp EXCEPT ![p] = 0]
  /\ UNCHANGED <<disk, ref, lock, open, op, path, new, ip, inum, durable, nops, ncrash>>

unlink_lock(p) ==
  LET i == dirlookup(dp[p], name(p)) IN
  /\ pc[p] = "unlink" /\ lock[dp[p]] = Nobody /\ i # 0
  /\ lock' = [lock EXCEPT ![dp[p]] = p]
  /\ iget(ref, Ilocked(valid, dp[p]), i)
  /\ ip' = [ip EXCEPT ![p] = i]
  /\ Goto(p, "unlink_ilock")
  /\ UNCHANGED <<disk, open, op, path, new, dp, put, ret, inum, durable, nops, ncrash>>

isdirempty(i) == ent[i] = Empty

unlink_full(p) ==
  /\ pc[p] = "unlink_ilock" /\ lock[ip[p]] = Nobody
  /\ type[ip[p]] = "dir" /\ ~isdirempty(ip[p])
  /\ valid' = Ilocked(valid, ip[p])
  /\ Put(p, ip[p], "unlink_bad")
  /\ ip' = [ip EXCEPT ![p] = 0]
  /\ UNCHANGED <<disk, ref, lock, open, op, path, new, dp, inum, durable, nops, ncrash>>

unlink_bad(p) == pc[p] = "unlink_bad" /\ PutDir(p)

\* mutant: dp loses a link whatever the entry names
unlink_entry_any(p) ==
  /\ pc[p] = "unlink_ilock" /\ lock[ip[p]] = Nobody
  /\ type[ip[p]] # "dir" \/ isdirempty(ip[p])
  /\ valid' = Ilocked(valid, ip[p])
  /\ ent' = [ent EXCEPT ![dp[p]][name(p)] = 0]
  /\ nlink' = [nlink EXCEPT ![dp[p]] = @ - 1]
  /\ lock' = [lock EXCEPT ![ip[p]] = p, ![dp[p]] = Nobody]
  /\ Put(p, dp[p], "unlink_drop")
  /\ dp' = [dp EXCEPT ![p] = 0]
  /\ UNCHANGED <<type, ref, open, op, path, new, ip, inum, durable, nops, ncrash>>

(* The entry goes, and with a directory its "..": dp is put before ip. *)
unlink_entry(p) ==
  /\ pc[p] = "unlink_ilock" /\ lock[ip[p]] = Nobody
  /\ type[ip[p]] # "dir" \/ isdirempty(ip[p])
  /\ valid' = Ilocked(valid, ip[p])
  /\ ent' = [ent EXCEPT ![dp[p]][name(p)] = 0]
  /\ nlink' = [nlink EXCEPT ![dp[p]] = IF type[ip[p]] = "dir" THEN @ - 1 ELSE @]
  /\ lock' = [lock EXCEPT ![ip[p]] = p, ![dp[p]] = Nobody]
  /\ Put(p, dp[p], "unlink_drop")
  /\ dp' = [dp EXCEPT ![p] = 0]
  /\ UNCHANGED <<type, ref, open, op, path, new, ip, inum, durable, nops, ncrash>>

\* mutant: a directory's "." is counted too
unlink_drop_dot(p) ==
  /\ pc[p] = "unlink_drop"
  /\ nlink' = [nlink EXCEPT ![ip[p]] = IF type[ip[p]] = "dir" THEN @ - 2 ELSE @ - 1]
  /\ lock' = [lock EXCEPT ![ip[p]] = Nobody]
  /\ Put(p, ip[p], "end")
  /\ ip' = [ip EXCEPT ![p] = 0]
  /\ UNCHANGED <<type, ent, ref, valid, open, op, path, new, dp, inum, durable, nops, ncrash>>

unlink_drop(p) ==
  /\ pc[p] = "unlink_drop"
  /\ nlink' = [nlink EXCEPT ![ip[p]] = @ - 1]
  /\ lock' = [lock EXCEPT ![ip[p]] = Nobody]
  /\ Put(p, ip[p], "end")
  /\ ip' = [ip EXCEPT ![p] = 0]
  /\ UNCHANGED <<type, ent, ref, valid, open, op, path, new, dp, inum, durable, nops, ncrash>>

-----------------------------------------------------------------------------
(* link(): the count goes up before the entry exists. *)
link_dir(p) ==
  /\ pc[p] = "link" /\ dp[p] = 0 /\ lock[ip[p]] = Nobody /\ type[ip[p]] = "dir"
  /\ valid' = Ilocked(valid, ip[p])
  /\ Put(p, ip[p], "end")
  /\ ip' = [ip EXCEPT ![p] = 0]
  /\ UNCHANGED <<disk, ref, lock, open, op, path, new, dp, inum, durable, nops, ncrash>>

\* mutant: the count does not go up
link_count_none(p) ==
  /\ pc[p] = "link" /\ dp[p] = 0 /\ lock[ip[p]] = Nobody /\ type[ip[p]] # "dir"
  /\ iget(ref, Ilocked(valid, ip[p]), ROOTINO)
  /\ dp' = [dp EXCEPT ![p] = ROOTINO]
  /\ path' = [path EXCEPT ![p] = new[p]] /\ new' = [new EXCEPT ![p] = <<>>]
  /\ Goto(p, "namex")
  /\ UNCHANGED <<disk, lock, open, op, ip, put, ret, inum, durable, nops, ncrash>>

link_count(p) ==
  /\ pc[p] = "link" /\ dp[p] = 0 /\ lock[ip[p]] = Nobody /\ type[ip[p]] # "dir"
  /\ nlink' = [nlink EXCEPT ![ip[p]] = @ + 1]
  /\ iget(ref, Ilocked(valid, ip[p]), ROOTINO)
  /\ dp' = [dp EXCEPT ![p] = ROOTINO]
  /\ path' = [path EXCEPT ![p] = new[p]] /\ new' = [new EXCEPT ![p] = <<>>]
  /\ Goto(p, "namex")
  /\ UNCHANGED <<type, ent, lock, open, op, ip, put, ret, inum, durable, nops, ncrash>>

link_entry(p) ==
  /\ pc[p] = "link" /\ dp[p] # 0 /\ lock[dp[p]] = Nobody /\ dirlookup(dp[p], name(p)) = 0
  /\ valid' = Ilocked(valid, dp[p])
  /\ ent' = dirlink(ent, dp[p], name(p), ip[p])
  /\ Put(p, dp[p], "link_done")
  /\ dp' = [dp EXCEPT ![p] = 0]
  /\ UNCHANGED <<type, nlink, ref, lock, open, op, path, new, ip, inum, durable, nops, ncrash>>

(* dirlink() finds the name: dirlookup()'s reference to its inode is put     *)
(* while dp is locked.                                                       *)
link_exists(p) ==
  LET i == dirlookup(dp[p], name(p)) IN
  /\ pc[p] = "link" /\ dp[p] # 0 /\ lock[dp[p]] = Nobody /\ i # 0
  /\ lock' = [lock EXCEPT ![dp[p]] = p]
  /\ iget(ref, Ilocked(valid, dp[p]), i)
  /\ Put(p, i, "link_fail")
  /\ UNCHANGED <<disk, open, call, durable, nops, ncrash>>

(* dirlink() has failed on the name, or fails because the disk is full. *)
link_fail(p) ==
  /\ \/ pc[p] = "link_fail"
     \/ pc[p] = "link" /\ dp[p] # 0 /\ lock[dp[p]] = Nobody /\ dirlookup(dp[p], name(p)) = 0
  /\ valid' = Ilocked(valid, dp[p])
  /\ lock' = [lock EXCEPT ![dp[p]] = Nobody]
  /\ Put(p, dp[p], "link_bad")
  /\ dp' = [dp EXCEPT ![p] = 0]
  /\ UNCHANGED <<disk, ref, open, op, path, new, ip, inum, durable, nops, ncrash>>

link_done(p) ==
  /\ pc[p] = "link_done"
  /\ Put(p, ip[p], "end")
  /\ ip' = [ip EXCEPT ![p] = 0]
  /\ UNCHANGED <<disk, itable, open, op, path, new, dp, inum, durable, nops, ncrash>>

link_bad(p) ==
  /\ pc[p] = "link_bad" /\ lock[ip[p]] = Nobody
  /\ valid' = Ilocked(valid, ip[p])
  /\ nlink' = [nlink EXCEPT ![ip[p]] = @ - 1]
  /\ Put(p, ip[p], "end")
  /\ ip' = [ip EXCEPT ![p] = 0]
  /\ UNCHANGED <<type, ent, ref, lock, open, op, path, new, dp, inum, durable, nops, ncrash>>

-----------------------------------------------------------------------------
(* Power fails; recovery brings the durable disk back. *)
crash ==
  /\ ncrash < MaxCrashes
  /\ type' = durable[1] /\ nlink' = durable[2] /\ ent' = durable[3]
  /\ ref' = [i \in Inum |-> 0]
  /\ valid' = [i \in Inum |-> FALSE]
  /\ lock' = [i \in Inum |-> Nobody]
  /\ open' = [f \in 1..MaxOpen |-> 0]
  /\ pc' = [p \in Proc |-> "idle"]
  /\ op' = [p \in Proc |-> "none"]
  /\ path' = [p \in Proc |-> <<>>] /\ new' = [p \in Proc |-> <<>>]
  /\ dp' = [p \in Proc |-> 0] /\ ip' = [p \in Proc |-> 0] /\ inum' = [p \in Proc |-> 0]
  /\ put' = [p \in Proc |-> 0] /\ ret' = [p \in Proc |-> "none"]
  /\ ncrash' = ncrash + 1
  /\ UNCHANGED <<durable, nops>>

iput(p) == iput_dec(p) \/ iput_lock(p) \/ iput_free(p) \/ iput_unlock(p) \/ iput_last(p)

namex(p) == namex_parent(p) \/ namex_fail(p) \/ namex_next(p)

create(p) ==
  \/ create_exists(p) \/ create_found(p) \/ create_lock(p)
  \/ ialloc_next(p) \/ ialloc(p) \/ ialloc_full(p)
  \/ create_fill(p) \/ create_fail(p) \/ create_undo(p) \/ mkdir_done(p)

sys_open(p) == open_lock(p) \/ open_fail(p) \/ \E f \in 1..MaxOpen : open_file(p, f)

sys_unlink(p) ==
  \/ unlink_none(p) \/ unlink_lock(p) \/ unlink_full(p) \/ unlink_bad(p)
  \/ unlink_entry(p) \/ unlink_drop(p)

link(p) ==
  \/ link_dir(p) \/ link_count(p) \/ link_entry(p) \/ link_exists(p) \/ link_fail(p)
  \/ link_done(p) \/ link_bad(p)

Step(p) == iput(p) \/ namex(p) \/ create(p) \/ sys_open(p) \/ sys_unlink(p) \/ link(p) \/ end_op(p)

Next ==
  \/ \E p \in Proc :
       \/ \E o \in {"open", "create", "mkdir", "unlink"}, pa \in Path : sys_call(p, o, pa)
       \/ \E old \in Path, to \in Path : sys_link(p, old, to)
       \/ \E f \in 1..MaxOpen : fileclose(p, f)
       \/ Step(p)
  \/ crash

Spec == Init /\ [][Next]_vars

-----------------------------------------------------------------------------
Labels ==
  {"idle", "iput", "iput_free", "iput_unlock", "iput_last", "namex", "create", "create_found",
   "ialloc", "create_fill", "create_undo", "mkdir_done", "open", "open_file", "unlink",
   "unlink_ilock", "unlink_bad", "unlink_drop", "link", "link_fail", "link_done", "link_bad", "end"}

TypeOK ==
  /\ type \in [Inum -> {"free", "file", "dir"}] /\ nlink \in [Inum -> Nat]
  /\ ent \in [Inum -> [Name -> 0..NINODES]]
  /\ ref \in [Inum -> Nat] /\ valid \in [Inum -> BOOLEAN] /\ lock \in [Inum -> Proc \cup {Nobody}]
  /\ open \in [1..MaxOpen -> 0..NINODES]
  /\ pc \in [Proc -> Labels] /\ ret \in [Proc -> Labels \cup {"none"}]
  /\ inum \in [Proc -> 0..(NINODES + 1)]
  /\ dp \in [Proc -> 0..NINODES] /\ ip \in [Proc -> 0..NINODES] /\ put \in [Proc -> 0..NINODES]

(* ip->ref counts the pointers to the inode: open files and the inodes that  *)
(* calls in progress work on.                                                *)
RefExact ==
  \A i \in Inum :
    ref[i] = Cardinality({f \in 1..MaxOpen : open[f] = i})
             + Cardinality({p \in Proc : dp[p] = i}) + Cardinality({p \in Proc : ip[p] = i})
             + Cardinality({p \in Proc : put[p] = i})

(* directory entries that name i, in the tree d = <<type, nlink, ent>> *)
Entries(d, i) == {x \in Inum \X Name : d[1][x[1]] = "dir" /\ d[3][x[1]][x[2]] = i}
Subdirs(d, i) == {n \in Name : d[3][i][n] # 0 /\ d[1][d[3][i][n]] = "dir"}

(* The link count is never too low: every entry of every directory names an  *)
(* allocated inode and is counted, while link() raises a count and adds the  *)
(* entry later, or takes it back, and unlink() removes names in between.     *)
LinksCounted ==
  \A i \in Inum : Entries(disk, i) # {} =>
    type[i] # "free" /\ nlink[i] >= Cardinality(Entries(disk, i))

(* An inode that an open file or a call in progress refers to is not freed   *)
(* and not given to another file ("ilock: no type" cannot happen), even when *)
(* its last link has gone; the inode being freed by iput() is the exception. *)
NoUseAfterFree ==
  /\ \A f \in 1..MaxOpen : open[f] # 0 => type[open[f]] # "free"
  /\ \A p \in Proc : \A i \in {dp[p], ip[p]} \ {0} : type[i] # "free"
  /\ \A p \in Proc : pc[p] = "unlink_ilock" => nlink[ip[p]] >= 1

(* "ip->ref == 1 means no other process can have ip locked, so this          *)
(* acquiresleep() won't block" (iput).                                       *)
IputNeverBlocks == \A p \in Proc : pc[p] = "iput" /\ LastUse(put[p]) => lock[put[p]] = Nobody

(* "the number of links referring to it (the file)": when no call is active  *)
(* and no file is open, every allocated inode has as many links as directory *)
(* entries that name it, plus one per subdirectory's ".."; so none is left   *)
(* that no path leads to and iput() will never free.                         *)
LinksExact ==
  (\A p \in Proc : pc[p] = "idle") /\ (\A f \in 1..MaxOpen : open[f] = 0) =>
    \A i \in Inum \ {ROOTINO} : type[i] # "free" =>
      nlink[i] = Cardinality(Entries(disk, i)) + (IF type[i] = "dir" THEN Cardinality(Subdirs(disk, i)) ELSE 0)

(* No deadlock: while calls are active, one of them can go on, although      *)
(* create() and unlink() wait for one inode while they hold another.         *)
NoDeadlock == (\E p \in Proc : pc[p] # "idle") => \E q \in Proc : ENABLED Step(q)
=============================================================================
