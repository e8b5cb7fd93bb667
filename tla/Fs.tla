--------------------------------- MODULE Fs ---------------------------------
(* Inodes, directories and path names (fs.c) and the system calls on them   *)
(* (sysfile.c).  A step is what a process does under one hold of icache.lock *)
(* or between two acquisitions of a sleep lock.  Transactions are taken from  *)
(* Log: the disk after a crash is the one of the last end_op() that left no   *)
(* call outstanding.                                                          *)
EXTENDS Integers, Sequences, FiniteSets

CONSTANTS Procs, Names,
          GivenFile,  \* the name of the file mkfs puts into the root
          NINODES,    \* sb.ninodes
          NBLOCKS,    \* data blocks
          NINODE,     \* entries of icache
          Calls,      \* the system calls programs make
          MaxCalls, MaxCrashes  \* bounds: calls started, crashes

\* What a call is given.
Targets == [abs : BOOLEAN, path : Seq(Names \cup {".", ".."})]
CallNames == {"open", "mkdir", "mknod", "unlink", "link", "chdir"}
Thens == {"open_ip", "create_dp", "unlink_dp", "link_ip", "chdir_ip"}

ASSUME FsAssumption ==
  /\ IsFiniteSet(Procs) /\ IsFiniteSet(Names)
  /\ NINODES \in Nat /\ NINODES >= 3 /\ NBLOCKS \in Nat /\ NBLOCKS >= 2
  /\ \A t \in Calls :
       /\ t.call \in CallNames /\ t.then \in Thens
       /\ [abs |-> t.abs, path |-> t.path] \in Targets /\ t.path2 \in Targets
       /\ t.parent \in BOOLEAN /\ t.name = "." /\ t.type \in {"file", "dir", "dev"}

ROOTINO == 1
Inums == 1..NINODES - 1
Blocks == 1..NBLOCKS
NoProc == "none"
Dots == {".", ".."}

\* A directory's block: the inode number of each name, 0 if it has no entry.
Zeroed == [n \in Names \cup Dots |-> 0]
FreeInode == [type |-> "free", nlink |-> 0, blk |-> 0]

VARIABLES disk, durable,  \* what the calls see; what survives a crash
          ic,             \* icache, by inode number
          s,              \* the call each process is in, with its locals
          cwd, file,      \* p->cwd; the inode of the process's open file, or 0
          panicked, calls, crashes

vars == <<disk, durable, ic, s, cwd, file, panicked, calls, crashes>>

Uncached == [ref |-> 0, valid |-> FALSE, lock |-> NoProc,
             type |-> "free", nlink |-> 0, blk |-> 0]
Idle == [pc |-> "user", call |-> "none", path |-> <<>>, parent |-> FALSE,
         then |-> "end", name |-> ".", path2 |-> <<>>, type |-> "file",
         ip |-> 0, dp |-> 0, put |-> <<>>, back |-> "end"]

\* The image mkfs writes: a root directory, and one file that it was given.
mkfs == [ino  |-> [i \in Inums |->
                     CASE i = ROOTINO -> [type |-> "dir", nlink |-> 1, blk |-> 1]
                       [] i = 2       -> [type |-> "file", nlink |-> 1, blk |-> 2]
                       [] OTHER       -> FreeInode],
         data |-> [b \in 0..NBLOCKS |->
                     IF b # 1 THEN Zeroed
                     ELSE [n \in Names \cup Dots |-> CASE n \in Dots -> ROOTINO
                                                       [] n = GivenFile -> 2
                                                       [] OTHER -> 0]],
         used |-> {1, 2},
         lost |-> [i \in Inums |-> 0]]  \* history: names freed with their directory

\* userinit() opens "/" as the first process's p->cwd; fork() passes it on.
Running ==
  /\ ic = [i \in Inums |-> IF i = ROOTINO
             THEN [Uncached EXCEPT !.ref = Cardinality(Procs)] ELSE Uncached]
  /\ s = [p \in Procs |-> Idle]
  /\ cwd = [p \in Procs |-> ROOTINO]
  /\ file = [p \in Procs |-> 0]

Init == /\ disk = mkfs /\ durable = mkfs /\ Running
        /\ panicked = "no" /\ calls = 0 /\ crashes = 0

-----------------------------------------------------------------------------
(* Blocks and inodes                                                       *)

\* balloc(): the first free block, zeroed; 0 when the disk is full (a panic).
FreeBlock(d) == IF Blocks \subseteq d.used THEN 0
                ELSE CHOOSE b \in Blocks \ d.used :
                       \A c \in Blocks \ d.used : b <= c
balloc(d, b) == [d EXCEPT !.used = @ \cup {b}, !.data[b] = Zeroed]

\* iupdate(): the cached inode c goes to disk.
iupdate(d, i, c) ==
  [d EXCEPT !.ino[i] = [type |-> c.type, nlink |-> c.nlink, blk |-> c.blk]]

\* ilock(): the entry as it is once it has been read from disk.
ilock(p, i) ==
  IF ic[i].valid THEN [ic[i] EXCEPT !.lock = p]
  ELSE [ref |-> ic[i].ref, valid |-> TRUE, lock |-> p, type |-> disk.ino[i].type,
        nlink |-> disk.ino[i].nlink, blk |-> disk.ino[i].blk]
CanLock(i) == ic[i].lock = NoProc
iunlock(c) == [c EXCEPT !.lock = NoProc]

\* iget() in the cache ics: one reference more, or a recycled entry.
iget(ics, i) == [ics EXCEPT ![i].ref = @ + 1,
                            ![i].valid = @ /\ ics[i].ref > 0]
IcacheFull(i) ==
  ic[i].ref = 0 /\ Cardinality({j \in Inums : ic[j].ref > 0}) = NINODE

dirlookup(d, c, n) == d.data[c.blk][n]
\* dirlink(): the entry (n, i) of directory c, once the name is known to be free.
dirlink(d, c, n, i) == [d EXCEPT !.data[c.blk][n] = i]
isdirempty(d, c) == \A n \in Names : d.data[c.blk][n] = 0

-----------------------------------------------------------------------------
(* Control.  A process first puts the inodes of s[p].put, in that order.    *)

\* Where iput() is once it has found the last reference to an unlinked inode.
Freeing == {"itrunc", "ifree", "iput"}

At(p, l) == panicked = "no" /\ s[p].pc = l /\ s[p].put = <<>>
Goto(p, l) == s' = [s EXCEPT ![p].pc = l]
Panic(why) == panicked' = why /\ UNCHANGED <<disk, ic, s>>
Same == UNCHANGED <<durable, cwd, file, calls, crashes>>
Quiet == panicked' = panicked /\ Same
\* A failing call drops the references it holds and ends.
Fail(p, l, inums) == s' = [s EXCEPT ![p].pc = l, ![p].put = inums]

\* The calls: the path each looks up first, whether up to the parent only, and
\* what it does with the inode it gets.
SysCall(call, t, parent, then, type, new) ==
  [call |-> call, abs |-> t.abs, path |-> t.path, parent |-> parent, then |-> then,
   name |-> ".", type |-> type, path2 |-> new]
sys_open(t) == SysCall("open", t, FALSE, "open_ip", "file", t)
sys_create(t) == SysCall("open", t, TRUE, "create_dp", "file", t)
sys_mkdir(t) == SysCall("mkdir", t, TRUE, "create_dp", "dir", t)
sys_mknod(t) == SysCall("mknod", t, TRUE, "create_dp", "dev", t)
sys_unlink(t) == SysCall("unlink", t, TRUE, "unlink_dp", "file", t)
sys_link(t, new) == SysCall("link", t, FALSE, "link_ip", "file", new)
sys_chdir(t) == SysCall("chdir", t, FALSE, "chdir_ip", "file", t)

\* begin_op(), and the start of namei() or nameiparent().
StartPath(p, t, ics) ==
  LET i == IF t.abs THEN ROOTINO ELSE cwd[p] IN
  /\ ic' = iget(ics, i)
  /\ s' = [s EXCEPT ![p] = [@ EXCEPT !.pc = "namex", !.path = t.path,
             !.parent = t.parent, !.then = t.then, !.ip = i, !.name = t.name,
             !.call = t.call, !.path2 = t.path2, !.type = t.type]]

Call(p, t) ==
  /\ At(p, "user") /\ calls < MaxCalls
  /\ t.call = "open" => file[p] = 0
  /\ calls' = calls + 1
  /\ StartPath(p, t, ic)
  /\ UNCHANGED <<disk, durable, cwd, file, panicked, crashes>>

\* What namex() does when it gives up: link() has a link count to take back.
NoPath(p) == IF s[p].dp # 0 THEN "link_bad" ELSE "end"

\* namex(): the path is used up.
NamexEnd(p) ==
  /\ At(p, "namex") /\ s[p].path = <<>>
  /\ IF s[p].parent THEN Fail(p, NoPath(p), <<s[p].ip>>) ELSE Goto(p, s[p].then)
  /\ UNCHANGED <<disk, ic>> /\ Quiet

\* namex(): one element, under the lock of the directory it is looked up in.
NamexStep(p) ==
  LET i == s[p].ip  c == iunlock(ilock(p, i))  n == Head(s[p].path)
      next == dirlookup(disk, c, n)  last == s[p].parent /\ Len(s[p].path) = 1 IN
  /\ At(p, "namex") /\ s[p].path # <<>> /\ CanLock(i)
  /\ \/ /\ c.type = "free" /\ Panic("ilock: no type") /\ Same
     \/ /\ c.type \in {"file", "dev"} \/ (c.type = "dir" /\ ~last /\ next = 0)
        /\ ic' = [ic EXCEPT ![i] = c]
        /\ Fail(p, NoPath(p), <<i>>) /\ UNCHANGED disk /\ Quiet
     \/ /\ c.type = "dir" /\ last
        /\ ic' = [ic EXCEPT ![i] = c]
        /\ s' = [s EXCEPT ![p].pc = s[p].then, ![p].name = n, ![p].path = <<>>]
        /\ UNCHANGED disk /\ Quiet
     \/ /\ c.type = "dir" /\ ~last /\ next # 0 /\ IcacheFull(next)
        /\ Panic("iget: no inodes") /\ Same
     \/ /\ c.type = "dir" /\ ~last /\ next # 0 /\ ~IcacheFull(next)
        /\ ic' = iget([ic EXCEPT ![i] = c], next)
        /\ s' = [s EXCEPT ![p].ip = next, ![p].put = <<i>>, ![p].path = Tail(@)]
        /\ UNCHANGED disk /\ Quiet

\* iput(): drop the reference, unless it is the last one to an unlinked inode.
LastTest(i, r) == ic[i].ref = r /\ ic[i].valid /\ ic[i].nlink = 0
\* Mutant: the reference being put is not counted.
LastOffMutant(i) == LastTest(i, 0)
Last(i) == LastTest(i, 1)
Iput(p) ==
  LET i == Head(s[p].put) IN
  /\ panicked = "no" /\ s[p].put # <<>> /\ s[p].pc \notin Freeing /\ ~Last(i)
  /\ ic' = [ic EXCEPT ![i].ref = @ - 1]
  /\ s' = [s EXCEPT ![p].put = Tail(@)]
  /\ UNCHANGED disk /\ Quiet

\* iput() of the last reference takes the lock and leaves icache.lock ...
IputLast(p) ==
  LET i == Head(s[p].put) IN
  /\ panicked = "no" /\ s[p].put # <<>> /\ s[p].pc \notin Freeing /\ Last(i)
  /\ CanLock(i)
  /\ ic' = [ic EXCEPT ![i].lock = p]
  /\ s' = [s EXCEPT ![p].pc = "itrunc", ![p].back = s[p].pc]
  /\ UNCHANGED disk /\ Quiet

\* ... itrunc() and iupdate() with type 0: ialloc() may now give the inode away ...
Itrunc(p) ==
  LET i == Head(s[p].put) IN
  /\ panicked = "no" /\ s[p].pc = "itrunc"
  /\ disk' = [disk EXCEPT !.used = @ \ {ic[i].blk}, !.ino[i] = FreeInode,
       !.lost = [j \in Inums |-> IF ic[i].type # "dir" THEN @[j] ELSE @[j] +
                  Cardinality({n \in Names : disk.data[ic[i].blk][n] = j})]]
  /\ ic' = [ic EXCEPT ![i].blk = 0, ![i].type = "free"]
  /\ Goto(p, "ifree") /\ Quiet

\* ... ip->valid = 0 and releasesleep() ...
IfreeUnlock(p, ok) ==
  LET i == Head(s[p].put) IN
  /\ panicked = "no" /\ s[p].pc = "ifree"
  /\ ic' = [ic EXCEPT ![i].valid = ok, ![i].lock = NoProc]
  /\ Goto(p, "iput") /\ UNCHANGED disk /\ Quiet
\* Mutant: ip->valid stays 1.
IfreeValidMutant(p) == IfreeUnlock(p, TRUE)
Ifree(p) == IfreeUnlock(p, FALSE)

\* ... and, under icache.lock again, the reference is dropped: the inode may be
\* another file by now, which others hold, use and unlink.
IputRef(p) ==
  LET i == Head(s[p].put) IN
  /\ panicked = "no" /\ s[p].pc = "iput"
  /\ ic' = [ic EXCEPT ![i].ref = @ - 1]
  /\ s' = [s EXCEPT ![p].pc = s[p].back, ![p].put = Tail(@)]
  /\ UNCHANGED disk /\ Quiet

\* end_op(): the last call under way commits what all of them wrote.
Outstanding(p) == \E q \in Procs \ {p} : s[q].pc # "user"
EndOpWith(p, commit) ==
  /\ At(p, "end")
  /\ durable' = IF commit THEN disk ELSE durable
  /\ s' = [s EXCEPT ![p] = Idle]
  /\ UNCHANGED <<disk, ic, cwd, file, panicked, calls, crashes>>
\* Mutant: every end_op() commits.
EndOpEagerMutant(p) == EndOpWith(p, TRUE)
EndOp(p) == EndOpWith(p, ~Outstanding(p))

-----------------------------------------------------------------------------
(* link()                                                                  *)

\* The old name: its inode gets its link before the new name is looked up.
LinkOld(p) ==
  LET i == s[p].ip  c == iunlock(ilock(p, i))
      up == [c EXCEPT !.nlink = @ + 1] IN
  /\ At(p, "link_ip") /\ CanLock(i)
  /\ \/ /\ c.type = "free" /\ Panic("ilock: no type") /\ Same
     \/ /\ c.type = "dir" /\ ic' = [ic EXCEPT ![i] = c]
        /\ Fail(p, "end", <<i>>) /\ UNCHANGED disk /\ Quiet
     \/ /\ c.type \in {"file", "dev"}
        /\ disk' = iupdate(disk, i, up)
        /\ LET r == IF s[p].path2.abs THEN ROOTINO ELSE cwd[p] IN
           /\ ic' = iget([ic EXCEPT ![i] = up], r)
           /\ s' = [s EXCEPT ![p].pc = "namex", ![p].path = s[p].path2.path,
                ![p].parent = TRUE, ![p].then = "link_dp", ![p].ip = r, ![p].dp = i]
        /\ Quiet

\* dirlink(), as long as there is no such name; s[p].dp is the inode to link.
LinkNew(p) ==
  LET d == s[p].ip  c == iunlock(ilock(p, d)) IN
  /\ At(p, "link_dp") /\ CanLock(d)
  /\ ic' = [ic EXCEPT ![d] = c]
  /\ IF dirlookup(disk, c, s[p].name) # 0
       THEN Fail(p, "link_bad", <<d>>) /\ UNCHANGED disk
       ELSE /\ disk' = dirlink(disk, c, s[p].name, s[p].dp)
            /\ Fail(p, "end", <<d, s[p].dp>>)
  /\ Quiet

LinkBad(p) ==
  LET i == s[p].dp  c == iunlock(ilock(p, i))  down == [c EXCEPT !.nlink = @ - 1] IN
  /\ At(p, "link_bad") /\ CanLock(i)
  /\ disk' = iupdate(disk, i, down)
  /\ ic' = [ic EXCEPT ![i] = down]
  /\ Fail(p, "end", <<i>>) /\ Quiet

-----------------------------------------------------------------------------
(* unlink()                                                                *)

\* The parent stays locked while the inode is looked up and locked.
UnlinkDir(p) ==
  LET d == s[p].ip  c == ilock(p, d)  i == dirlookup(disk, c, s[p].name) IN
  /\ At(p, "unlink_dp") /\ CanLock(d)
  /\ \/ /\ s[p].name \in Dots \/ i = 0
        /\ ic' = [ic EXCEPT ![d] = iunlock(c)]
        /\ Fail(p, "end", <<d>>) /\ UNCHANGED disk /\ Quiet
     \/ /\ s[p].name \notin Dots /\ i # 0 /\ IcacheFull(i)
        /\ Panic("iget: no inodes") /\ Same
     \/ /\ s[p].name \notin Dots /\ i # 0 /\ ~IcacheFull(i)
        /\ ic' = iget([ic EXCEPT ![d] = c], i)
        /\ s' = [s EXCEPT ![p].pc = "unlink_ip", ![p].ip = i, ![p].dp = d]
        /\ UNCHANGED disk /\ Quiet

\* The entry is cleared, and the parent released, before the inode's own count
\* goes down; a directory's ".." counted as a link of its parent.
UnlinkInode(p) ==
  LET i == s[p].ip  d == s[p].dp  c == ilock(p, i)
      nonempty == ~isdirempty(disk, c)
      dc == [ic[d] EXCEPT !.lock = NoProc,
                          !.nlink = IF c.type = "dir" THEN @ - 1 ELSE @] IN
  /\ At(p, "unlink_ip") /\ CanLock(i)
  /\ \/ /\ c.type = "free" /\ Panic("ilock: no type") /\ Same
     \/ /\ c.type # "free" /\ c.nlink < 1 /\ Panic("unlink: nlink < 1") /\ Same
     \/ /\ c.nlink >= 1 /\ c.type = "dir" /\ nonempty
        /\ ic' = [ic EXCEPT ![i] = iunlock(c), ![d].lock = NoProc]
        /\ s' = [s EXCEPT ![p].pc = "end", ![p].put = <<i, d>>, ![p].dp = 0]
        /\ UNCHANGED disk /\ Quiet
     \/ /\ c.nlink >= 1 /\ ~(c.type = "dir" /\ nonempty)
        /\ disk' = iupdate([disk EXCEPT !.data[ic[d].blk][s[p].name] = 0], d, dc)
        /\ ic' = [ic EXCEPT ![i] = c, ![d] = dc]
        /\ s' = [s EXCEPT ![p].pc = "unlink_fin", ![p].put = <<d>>, ![p].dp = 0]
        /\ Quiet

UnlinkCount(p, c) ==
  LET i == s[p].ip IN
  /\ At(p, "unlink_fin")
  /\ disk' = iupdate(disk, i, c)
  /\ ic' = [ic EXCEPT ![i] = c]
  /\ Fail(p, "end", <<i>>) /\ Quiet
\* Mutant: the inode is put without being unlocked.
UnlinkLockedMutant(p) == UnlinkCount(p, [ic[s[p].ip] EXCEPT !.nlink = @ - 1])
UnlinkFin(p) == UnlinkCount(p, [iunlock(ic[s[p].ip]) EXCEPT !.nlink = @ - 1])

-----------------------------------------------------------------------------
(* create(), for open(), mkdir() and mknod()                               *)

FreeInums == {i \in Inums : disk.ino[i].type = "free"}

\* The name exists: its parent is put before its inode is locked.  Otherwise
\* ialloc() takes the first free inode; the parent stays locked.
CreateDir(p, found, put) ==
  LET d == s[p].ip  c == ilock(p, d)  i == dirlookup(disk, c, s[p].name) IN
  /\ At(p, "create_dp") /\ CanLock(d)
  /\ \/ /\ i # 0 /\ ~IcacheFull(i)
        /\ ic' = iget([ic EXCEPT ![d] = found], i)
        /\ s' = [s EXCEPT ![p].pc = "create_found", ![p].ip = i, ![p].put = put]
        /\ UNCHANGED disk /\ Quiet
     \/ /\ i = 0 /\ FreeInums = {} /\ Panic("ialloc: no inodes") /\ Same
     \/ /\ i = 0 /\ FreeInums # {}
        /\ LET n == CHOOSE j \in FreeInums : \A k \in FreeInums : j <= k IN
           /\ ~IcacheFull(n)
           /\ disk' = [disk EXCEPT !.ino[n] = [FreeInode EXCEPT !.type = s[p].type]]
           /\ ic' = iget([ic EXCEPT ![d] = c], n)
           /\ s' = [s EXCEPT ![p].pc = "create_ip", ![p].ip = n, ![p].dp = d]
        /\ Quiet
     \/ /\ \E j \in IF i # 0 THEN {i} ELSE FreeInums : IcacheFull(j)
        /\ Panic("iget: no inodes") /\ Same
\* Mutants: the parent of a name that exists is not put; is not unlocked.
CreateLeakMutant(p) == CreateDir(p, iunlock(ilock(p, s[p].ip)), <<>>)
CreateLockedMutant(p) == CreateDir(p, ilock(p, s[p].ip), <<s[p].ip>>)
CreateParent(p) == CreateDir(p, iunlock(ilock(p, s[p].ip)), <<s[p].ip>>)

CreateFound(p) ==
  LET i == s[p].ip  c == ilock(p, i) IN
  /\ At(p, "create_found") /\ CanLock(i)
  /\ \/ /\ c.type = "free" /\ Panic("ilock: no type") /\ Same
     \/ /\ c.type \in {"file", "dev"} /\ s[p].type = "file"
        /\ ic' = [ic EXCEPT ![i] = c]
        /\ Goto(p, "opened") /\ UNCHANGED disk /\ Quiet
     \/ /\ c.type = "dir" \/ (c.type # "free" /\ s[p].type # "file")
        /\ ic' = [ic EXCEPT ![i] = iunlock(c)]
        /\ Fail(p, "end", <<i>>) /\ UNCHANGED disk /\ Quiet

\* The new inode gets its link, a directory its "." and ".." and its parent a
\* link, and then the name appears in the parent.
CreateInode(p) ==
  LET i == s[p].ip  d == s[p].dp  b == FreeBlock(disk)  isdir == s[p].type = "dir"
      c == [ilock(p, i) EXCEPT !.nlink = 1, !.blk = IF isdir THEN b ELSE 0]
      dc == [ic[d] EXCEPT !.lock = NoProc, !.nlink = IF isdir THEN @ + 1 ELSE @]
      dots == [balloc(disk, b) EXCEPT !.data[b]["."] = i, !.data[b][".."] = d]
      new == iupdate(iupdate(IF isdir THEN dots ELSE disk, i, c), d, dc) IN
  /\ At(p, "create_ip") /\ CanLock(i)
  /\ IF isdir /\ b = 0
       THEN Panic("balloc: out of blocks") /\ Same
       ELSE /\ disk' = dirlink(new, dc, s[p].name, i)
            /\ ic' = [ic EXCEPT ![i] = c, ![d] = dc]
            /\ s' = [s EXCEPT ![p].pc = "opened", ![p].put = <<d>>, ![p].dp = 0]
            /\ Quiet

\* mkdir() and mknod() are done with the inode; open() keeps the reference,
\* unless there is no file or descriptor for it.
Opened(p) ==
  LET i == s[p].ip IN
  /\ At(p, "opened")
  /\ ic' = [ic EXCEPT ![i].lock = NoProc]
  /\ \/ Fail(p, "end", <<i>>) /\ UNCHANGED file
     \/ /\ s[p].call = "open" /\ Goto(p, "end")
        /\ file' = [file EXCEPT ![p] = i]
  /\ UNCHANGED <<disk, durable, cwd, panicked, calls, crashes>>

\* open() without O_CREATE: a directory only for reading.
OpenInode(p) ==
  LET i == s[p].ip  c == ilock(p, i) IN
  /\ At(p, "open_ip") /\ CanLock(i)
  /\ \/ /\ c.type = "free" /\ Panic("ilock: no type") /\ Same
     \/ /\ c.type = "dir" /\ ic' = [ic EXCEPT ![i] = iunlock(c)]
        /\ Fail(p, "end", <<i>>) /\ UNCHANGED disk /\ Quiet
     \/ /\ c.type # "free" /\ ic' = [ic EXCEPT ![i] = c]
        /\ Goto(p, "opened") /\ UNCHANGED disk /\ Quiet

-----------------------------------------------------------------------------
(* chdir(), write(), close()                                               *)

Chdir(p) ==
  LET i == s[p].ip  c == iunlock(ilock(p, i)) IN
  /\ At(p, "chdir_ip") /\ CanLock(i)
  /\ \/ /\ c.type = "free" /\ Panic("ilock: no type") /\ Same
     \/ /\ c.type \in {"file", "dev"} /\ ic' = [ic EXCEPT ![i] = c]
        /\ Fail(p, "end", <<i>>) /\ UNCHANGED disk /\ Quiet
     \/ /\ c.type = "dir" /\ ic' = [ic EXCEPT ![i] = c]
        /\ Fail(p, "end", <<cwd[p]>>)
        /\ cwd' = [cwd EXCEPT ![p] = i]
        /\ UNCHANGED <<disk, durable, file, panicked, calls, crashes>>

\* filewrite(): the first byte of a file takes a block.
Write(p) ==
  LET i == file[p]  c == iunlock(ilock(p, i))  b == FreeBlock(disk)
      w == [c EXCEPT !.blk = b] IN
  /\ At(p, "user") /\ i # 0 /\ calls < MaxCalls /\ CanLock(i) /\ c.type = "file"
  /\ IF c.blk = 0 /\ b = 0 THEN Panic("balloc: out of blocks")
     ELSE /\ disk' = IF c.blk = 0 THEN iupdate(balloc(disk, b), i, w) ELSE disk
          /\ ic' = [ic EXCEPT ![i] = IF c.blk = 0 THEN w ELSE c]
          /\ Goto(p, "end") /\ UNCHANGED panicked
  /\ calls' = calls + 1 /\ UNCHANGED <<durable, cwd, file, crashes>>

\* fileclose() of the last descriptor: iput() in a transaction of its own.
Close(p) ==
  /\ At(p, "user") /\ file[p] # 0
  /\ Fail(p, "end", <<file[p]>>)
  /\ file' = [file EXCEPT ![p] = 0]
  /\ UNCHANGED <<disk, durable, ic, cwd, panicked, calls, crashes>>

\* Power fails; initlog() has installed the last committed transaction.
Crash ==
  /\ panicked = "no" /\ crashes < MaxCrashes
  /\ crashes' = crashes + 1
  /\ disk' = durable
  /\ ic' = [i \in Inums |-> IF i = ROOTINO
              THEN [Uncached EXCEPT !.ref = Cardinality(Procs)] ELSE Uncached]
  /\ s' = [p \in Procs |-> Idle]
  /\ cwd' = [p \in Procs |-> ROOTINO] /\ file' = [p \in Procs |-> 0]
  /\ UNCHANGED <<durable, panicked, calls>>

Step(p) ==
  \/ NamexEnd(p) \/ NamexStep(p) \/ Iput(p) \/ IputLast(p) \/ Itrunc(p) \/ Ifree(p)
  \/ IputRef(p) \/ EndOp(p) \/ LinkOld(p) \/ LinkNew(p) \/ LinkBad(p)
  \/ UnlinkDir(p) \/ UnlinkInode(p) \/ UnlinkFin(p)
  \/ CreateParent(p) \/ CreateFound(p) \/ CreateInode(p) \/ Opened(p)
  \/ OpenInode(p) \/ Chdir(p) \/ Write(p) \/ Close(p)

Next == Crash \/ \E p \in Procs : Step(p) \/ \E t \in Calls : Call(p, t)

Spec == Init /\ [][Next]_vars

-----------------------------------------------------------------------------
(* Properties                                                              *)

Types == {"free", "file", "dir", "dev"}
Disks == [ino  : [Inums -> [type : Types, nlink : Int, blk : 0..NBLOCKS]],
          data : [0..NBLOCKS -> [Names \cup Dots -> 0..NINODES - 1]],
          used : SUBSET Blocks, lost : [Inums -> Nat]]
Pcs == {"user", "end", "namex", "open_ip", "create_dp", "create_found", "create_ip", "opened",
        "unlink_dp", "unlink_ip", "unlink_fin", "link_ip", "link_dp", "link_bad", "chdir_ip"}

Entries == [ref : Nat, valid : BOOLEAN, lock : Procs \cup {NoProc},
            type : Types, nlink : Int, blk : 0..NBLOCKS]
CallStates == [pc : Pcs \cup Freeing, back : Pcs, call : CallNames \cup {"none"},
               path : Seq(Names \cup Dots), parent : BOOLEAN,
               then : Thens \cup {"link_dp", "end"}, name : Names \cup Dots,
               path2 : Targets \cup {<<>>}, type : {"file", "dir", "dev"},
               ip : Inums \cup {0}, dp : Inums \cup {0}, put : Seq(Inums)]

\* The disk, the inode cache and the locals of the calls have their types: no
\* ip->ref is negative, and no call has more than two inodes to put.
TypeOK ==
  /\ disk \in Disks /\ durable \in Disks /\ ic \in [Inums -> Entries]
  /\ cwd \in [Procs -> Inums] /\ file \in [Procs -> Inums \cup {0}]
  /\ s \in [Procs -> CallStates] /\ \A p \in Procs : Len(s[p].put) <= 2

Target(d, e) == d.data[d.ino[e[1]].blk][e[2]]
Pairs(d) == {e \in Inums \X Names : d.ino[e[1]].type = "dir" /\ Target(d, e) # 0}

\* What a crash leaves is a file system: an entry names an allocated inode; the
\* link count of an inode is the number of its names and, for a directory, of
\* the ".." entries below it, except that a name made in a directory after its
\* removal goes with it uncounted; a block marked used in the bitmap has exactly
\* one owner, and no other block has one.
Consistent(d) ==
  /\ \A e \in Pairs(d) : d.ino[Target(d, e)].type # "free"
  /\ \A i \in Inums \ {ROOTINO} :
       d.ino[i].nlink = d.lost[i] + Cardinality({e \in Pairs(d) : Target(d, e) = i})
         + Cardinality({e \in Pairs(d) : e[1] = i /\ d.ino[Target(d, e)].type = "dir"})
  /\ \A b \in Blocks :
       Cardinality({i \in Inums : d.ino[i].blk = b}) = IF b \in d.used THEN 1 ELSE 0
CrashConsistent == Consistent(durable)

\* What a call goes on with once it has put the inodes of its list, and whether
\* its locals ip and dp are then references.
Doing(c) == IF c.pc \in Freeing THEN c.back ELSE c.pc
HoldsIp(c) == Doing(c) \notin {"user", "end", "link_bad"}
HoldsDp(c) == Doing(c) \notin {"user", "end"}
InPut(i) == {r \in Procs \X (1..2) : r[2] <= Len(s[r[1]].put) /\ s[r[1]].put[r[2]] = i}

\* ip->ref is the number of pointers to the inode: current directories, open
\* files, the inodes a call works on and those it has yet to put.
RefsCounted ==
  \A i \in Inums :
    ic[i].ref = Cardinality({p \in Procs : cwd[p] = i})
                + Cardinality({p \in Procs : file[p] = i})
                + Cardinality({p \in Procs : HoldsIp(s[p]) /\ s[p].ip = i})
                + Cardinality({p \in Procs : HoldsDp(s[p]) /\ s[p].dp = i})
                + Cardinality(InPut(i))

\* iput(): "ip->ref == 1 means no other process can have ip locked, so this
\* acquiresleep() won't block": a process about to free an inode can lock it.
LastPutUnlocked ==
  \A p \in Procs :
    s[p].put # <<>> /\ s[p].pc \notin Freeing /\ Last(Head(s[p].put))
      => CanLock(Head(s[p].put))

\* "iput() frees if the reference and link counts have fallen to zero" (fs.c): no
\* step leaves an allocated inode that nobody refers to and no directory names, but
\* the last step of an iput() that freed the inode before ialloc() gave it away.
Unreachable(i) == disk.ino[i].type # "free" /\ disk.ino[i].nlink = 0 /\ ic[i].ref = 0
FreedUnlessReborn ==
  [][\A i \in Inums : ~Unreachable(i) /\ Unreachable(i)' /\ crashes' = crashes
       => \E p \in Procs : s[p].pc = "iput" /\ Head(s[p].put) = i]_vars

\* The panics of iget(), ilock(), unlink(), ialloc() and balloc() are out of
\* reach of programs that stay within the tables and name no "..".
NoPanic == panicked = "no"

\* Whatever the calls under way, one of them can go on: create() and unlink()
\* lock a directory before an inode in it, and no cycle of such waits exists,
\* even where the two are the same inode or a directory was removed meanwhile.
WaitsFor(p) ==
  CASE s[p].put # <<>> \/ s[p].pc \in {"user", "end", "opened", "unlink_fin"} -> 0
    [] s[p].pc = "link_bad" -> s[p].dp
    [] s[p].pc = "namex" /\ s[p].path = <<>> -> 0
    [] OTHER -> s[p].ip
NoDeadlock ==
  LET busy == {p \in Procs : s[p].pc # "user"} IN
  busy # {} => \E p \in busy : WaitsFor(p) = 0 \/ CanLock(WaitsFor(p))

\* ilock() asserts that the inode it reads is allocated.
NoTypePanic == panicked # "ilock: no type"
=============================================================================
