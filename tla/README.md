# TLA+ models of the mushroom_os kernel

mushroom_os is xv6 for RISC-V (2019) with its author's user programs. These
modules model the kernel's own logic: they are translated from the C code, not
from the xv6 book. `PROJECT.json` maps every definition to the lines it stands for.

## The system and its parts

| Part | State | Operations | Interacts with |
|---|---|---|---|
| process table (`proc.c`) | `proc[NPROC]`: state, parent, chan, killed, pid, one spinlock each; `nextpid` | fork, exit, reparent, wait, kill, sleep, wakeup, wakeup1, yield | everything that sleeps; traps (killed); VM and files on fork/exit |
| CPUs, spinlocks (`spinlock.c`, `scheduler`, `sched`) | `cpus[]`: proc, noff, intena; lock owner | acquire, release, push_off, pop_off, swtch | interrupts, every lock |
| log (`log.c`) | memory: lh, outstanding, committing; disk: header, log blocks | begin_op, log_write, end_op, commit, recover_from_log | buffer cache (pins), every file system call |
| buffer cache (`bio.c`, `sleeplock.c`) | NBUF buffers: block, refcnt, valid, sleep lock; LRU list | bget, bread, bwrite, brelse, bpin, bunpin | log, inodes, disk driver |
| inodes, directories, files (`fs.c`, `file.c`, `sysfile.c`) | inode cache (ref, valid, nlink), bitmap, file table | iget, ilock, iput, itrunc, create, link, unlink, filedup, fileclose | log, buffer cache |
| pipes (`pipe.c`) | ring of PIPESIZE bytes, nread, nwrite, two open flags | read, write, close | sleep/wakeup, kill, file table |
| memory (`vm.c`, `kalloc.c`, `exec.c`) | free list, page tables, p->sz | kalloc, kfree, uvmalloc, uvmcopy, uvmunmap, uvmfree | fork, exec, exit, pipes |
| disk driver (`virtio_disk.c`) | 8 descriptors, avail and used rings, b->disk | virtio_disk_rw, virtio_disk_intr | buffer cache, interrupts |
| console (`console.c`, `uart.c`) | 128-character ring with r, w, e | consoleread, consolewrite, consoleintr | interrupts, kill |
| traps (`trap.c`) | per-trap | usertrap, kerneltrap, devintr | killed, yield, drivers |
| buddy allocator (`buddy.c`, `list.c`) | a free list, alloc and split bits per size | bd_init, bd_malloc, bd_free | linked, not initialised by the kernel |
| shells (`sh.c`, `nsh.c`) | the line, the tree, descriptors | parsecmd, runcmd | fork, pipe, dup, close, exec |
| user programs | | init, sh, nsh, primes, find, xargs, ... | system calls |

What is hard in this code: processes that exit, wait and fork at the same time
while reading each other's `parent` without its lock; locks held across other
locks; pointers used after the lock that protected them was released; crashes in
the middle of a commit or of a recovery; sleep and wakeup; a kill that races
with going to sleep; counters that wrap; reservations against a fixed-size log;
failures half-way through fork and exec. `PROJECT.json` lists these hazards
with the line where each bites and the property that watches it.

What makes each part correct:
process table: every exit is noticed by the right parent, no slot is freed or
dispatched while in use, the tree stays a tree, the locks cannot deadlock, a kill
takes effect. Log: a crash shows all or nothing of a system call, a finished
commit is durable, the log never overflows, nobody waits for ever. Buffer cache:
one buffer per block, one user at a time, no recycling of what is in use.
Scheduling: one CPU per kernel stack, no lost wakeup, interrupt state restored.
Pipes: a FIFO that loses nothing and wakes whoever can go on. Memory: no page has
two uses or is freed twice, on error paths too, none is lost (which the code does not
keep, see Findings), and a copy touches exactly the bytes it is asked for. Inodes: names, link counts and bitmap agree on disk, references are
counted, a file reads back what was written. Disk driver: no descriptor has two
owners, every request returns. Console: an edited line is read once and in order.
Buddy allocator: the heap is divided without gap or overlap. Shells: the tree of the
grammar, and no stray end of a pipe.

## Modules

| Module | Role |
|---|---|
| `Proc` | the process life cycle of `proc.c`, one action per lock section |
| `ProcTree` | what fork, exit and wait promise: an atomic process tree |
| `ProcProofs` | the inductive invariant of `Proc`, its safety theorems, and `Proc` implements `ProcTree` |
| `MCProc` | `Proc` for TLC |
| `Log` | the write-ahead log of `log.c` with crashes |
| `AtomicDisk` | what the log promises: crash to a moment between system calls |
| `LogProofs` | the log never overflows, and `Log` implements `AtomicDisk` |
| `MCLog` | `Log` for TLC |
| `Pipe` | one pipe of `pipe.c`, the holders of its ends, and kill() |
| `ByteStream` | what a pipe promises: a first-in first-out queue of at most PIPESIZE bytes |
| `PipeProofs` | the inductive invariant of `Pipe`, its safety theorems, and `Pipe` implements `ByteStream` |
| `MCPipe` | `Pipe` for TLC |
| `File` | the file table, descriptors, pipe(), open(), dup(), close(), fork(), exit() |
| `FileProofs` | the inductive invariant of `File`: every reference counted, every pipe end and inode owned |
| `Bcache` | the buffer cache of `bio.c` with its LRU list and the sleep locks of `sleeplock.c` |
| `BcacheProofs` | the inductive invariant of `Bcache` and its safety theorems |
| `MCBcache` | `Bcache` for TLC |
| `Fs` | inodes, directories, path look-up and the system calls on them, with crashes |
| `FsProofs` | the inductive invariant of `Fs`: `ip->ref` counts the pointers, a last reference is unlocked |
| `MCFs` | `Fs` for TLC: the calls that programs make |
| `FileData` | block maps, readi, writei, itrunc, filewrite's transactions, mkfs's files |
| `Shell` | the parsers of `sh.c` and `nsh.c`, a reference grammar, and runcmd's descriptors |
| `MCLogDataShell` | `Log`, `FileData` and `Shell` for TLC |
| `Vm` | page allocator and page tables under fork, exec, sbrk, exit; copies to and from user memory |
| `MCVm` | `Vm` for TLC: programs and sizes |
| `Virtio` | the disk driver, its interrupt handler and the device |
| `Buddy` | the buddy allocator |
| `MCMemDisk` | `Vm`, `Virtio` and `Buddy` for TLC |
| `Sched` | CPUs: spinlocks, interrupts, scheduler, sched, yield, sleep and wakeup |
| `Console` | the console's input: interrupt handler and readers |
| `LineBuffer` | what the console promises: an edited line that is read once |
| `IntrProofs` | the parts with interrupt handlers: locks and CPUs of `Sched` agree, `Console` implements `LineBuffer`, who owns each descriptor of `Virtio` |
| `MCLogCpuFile` | `Log`, `Sched` and `File` for TLC |
| `MCFsConsole` | `Fs` and `Console` for TLC |
| `ArithFacts` | lemmas about `%`, induction over numbers and counting, for the proof modules |

### Proc

A slot of `proc[]` is a number, slot 0 is init. `state`, `parent`, `chan`,
`killed`, `pid`, `nextpid` are the C fields; `lock` is the holder of each
`p->lock`; `pc` says where the kernel thread of a slot stands, and `orig`,
`idx`, `havekids`, `target` are the locals of exit, the scans, wait and kill.
`victims` is a history variable.

A section that takes a single `p->lock` is one action (fork of a found slot, one
step of a scan, kill of a found victim). wait, exit and reparent hold a lock and
take another, and read `parent` without a lock: there every acquire and every
such read is its own action, so a parent can exit, be reaped and have its slot
reused between two steps of its child's exit. scheduler() acquires `p->lock` and
hands it to the process through swtch, so `Dispatch` gives the lock to the
process; `Sched` is the return to the scheduler thread, which releases it.

Left out: CPUs and preemption (a preempted process is only delayed: kill and
wakeup1 treat RUNNING and RUNNABLE alike), exit status, file descriptors, memory.
init does not exit: exit() panics there and the machine stops, so kill(1) and a
fault of init are out (`KillPidsAssumption`).

### Log

One device. `disk` and `head` survive a crash, the rest does not. Block numbers
follow mkfs: the header, the log's data blocks up to `nlog`, then the home
blocks, so a transaction that outgrew the log would be written over them. A
block's content is the number of the system call that wrote it last. Every
write of a block is two actions with `Torn` between them; the header's fields are
within one 512-byte sector (124 bytes) and change at once. `cache` is the
content of each block in memory, `pins` the log's share of `refcnt`; `Recycle`
is bget() taking a buffer whose refcnt is 0. `Crash` may happen anywhere,
recovery included; `boot` is the thread that runs initlog().

`CrashAtomic` is the refinement of `AtomicDisk`: what recovery would produce from
the disk as it stands (`Recovered`) only changes at the header write, and then to
exactly what memory holds while no system call is active. `FullBoots` bounds the boots
in which `Recycle` happens; `log_pins` shows what it does in a later one.

### Pipe

The fields of struct pipe are variables of the same names; `nread` and `nwrite` count
modulo `WRAP` (2^32 in the kernel) and index the ring modulo `PIPESIZE`. `ends` says
which ends each process has open, so that the last fileclose() of an end calls
pipeclose(). `pi->lock` is a variable and its critical sections are split: one step
per byte, and one between the test of `p->killed` and sleep(), because kill() takes
`p->lock` only and can come in between. `asleep` is the channel of a sleeping
process; `wakeup(chan)` clears it for everyone on the channel. `Faults` makes
copyin() and copyout() fail at any byte. `ExitClose` is what exit() does for a killed
process that is back in user space.

`IsByteStream` maps the ring to the sequence of bytes from `nread` to `nwrite` and shows
that every step appends one byte, takes the first one, or leaves the queue alone.

### File

`ref` and `obj` are the fields of ftable's entries, `obj` keeping the type and what goes
with it, `pageused` the pages that are pipes and `open` their two flags. A step is a
section of `ftable.lock`, or of `pi->lock` in pipeclose(), so the calls of two
processes interleave wherever the code lets go of a lock. `closing` is what a call
has left to close on its way out; `ff` is the copy fileclose() makes before it
releases the lock and gives the object back. exit() closes its descriptors one by one, so that
other calls come between them. filealloc() does not reset the type:
`obj` of an unused entry keeps its value, as in the code. Inodes are one counter of
references held (`iref`).

### Bcache

The list is kept as its `next` and `prev` pointers and moved by the assignments of
brelse() in their order. A step is a section of `bcache.lock` or of a sleep lock's
spin lock; disk transfers take two steps. A process has one buffer at a time, changes
it the way log_write() does (pin) or installs it (write, then unpin). `latest` is a
history variable: the content a block should have.

### Fs

`disk` is what the calls see (inodes, directory blocks, bitmap), `durable` what a
crash leaves: `EndOp` of a process that leaves no call outstanding copies the one to
the other, which is what `Log` shows end_op() to do. `ic` is icache by inode number, a
full cache being a guard on the number of entries in use. `s[p]` is the call a process
is in: `pc`, the rest of the path, the inodes it holds, and `put`, the inodes it
still has to iput() before it goes on. A step is a hold of icache.lock, or what a call does
between two acquisitions of sleep locks. iput() of a last reference is four steps: taking the
lock, itrunc() and iupdate(), `ip->valid = 0` with releasesleep(), and `ip->ref--` under icache.lock.
ialloc() may give the inode away from the second on, and after the third the new owner can
lock, use, unlink and put it while the old reference still counts. A directory
is one block, a function from names to inode numbers. `RefsCounted` adds up the five places a
reference can be in: p->cwd, the open file, a call's `ip` and `dp`, and its list `put`. `disk.lost` is history: the names
that went with a directory that was freed while not empty.

### FileData

Two inodes with their `addrs`, the blocks as arrays of cells, the bitmap, and in `fs.log`
the blocks the current transaction has dirtied. `bytes` is the reference: each file as a
plain sequence. filewrite() is one action per transaction, so two writers interleave
between their pieces; copyin() may fail inside any piece. The bytes of a piece that was
copied half-way are in a buffer that was not logged: they are seen as long as the buffer is
cached and gone when it is recycled, so `kept` chooses either. Two open files share an inode
with offsets of their own.

### Shell

A state is a line; `Type` extends it by a character of an alphabet, so the run visits every line. A
token is its positions. The parser's functions return the tree, the position and
whether panic() was called. `RefLine` defines the grammar independently, by splitting
the token list at the first top-level `;`, `&` or `|`. `runcmd` is the set of
processes a tree starts, with their descriptors; `Streams` says what they should be.
nsh's parseredir() is an `if` where sh has a loop: behind a word it reads one redirection, and
a second one in a row, or one at the front of a command, becomes two words. `NshReads` says so token
by token, and `NshParses` compares nsh's tree with the grammar applied to that; it does not compare
lines that sh refuses, glued words or lists, for which nsh has no grammar.

### Vm

`mem` has the free pages and what the kernel panicked with, a process its trap frame, page
table (`node`: interior pages, `leaf`: mapped pages, `user`: the ones with PTE_U) and size.
The tables of Sv39 are cut to the interior pages that appear at these sizes: two for the
trampoline and trap frame, one shared by all user pages, one per `L0` user pages.
fork, exec, sbrk and exit are single actions because a process changes only its own
table and kalloc() is atomic; they share the free pages, which is why another holder (`held`, pipes)
takes pages away between calls. Every kalloc() may be the one that fails; `mem.oom` says whether one
of the last call did, and is reset by every call. A process of size 0 can only exit (it faults).

### Virtio

`vfree`, `desc`, `info`, `avail`, `used` and `used_idx` are the fields of `disk[n]`; `dev` is
the device: it fetches from the available ring and finishes in any order. Each buffer's
caller is a process. The interrupt handler runs one used entry per step, with the lock.
`KillWake` is kill(), which wakes a sleeper early.

### Buddy

Addresses are offsets into the heap, so an allocation's position is exact; bit vectors
are sets of bit numbers. bd_init() is computed as the code does, its own tables at
the front of the heap included; a heap that is no power of two has an unusable end.

### Sched

`frames[t]` is the stack of a thread (process or per-CPU scheduler): a trap pushes a
frame, so an interrupt strikes between any two steps with interrupts on, and a
process that yields in the handler resumes there, perhaps on another CPU. `cpu` has
`noff`, `intena` and the interrupt flag, `saved` the local `intena` of sched(). Processes call
sys_sleep(), whose channel is `&ticks`; clockintr() on CPU 0 wakes them. sys_sleep()'s test of
`p->killed` is left out.

### Console and LineBuffer

`cr`, `cw`, `ce` are the indices of `cons`, modulo `CWRAP`; an interrupt is one step, which
needs `cons.lock` free. A reader's loop is one character per step; kill() may come
between its test of `p->killed` and sleep(). `IsLineBuffer` maps the ring to two
sequences, the finished input and the line being typed.

### Combined MC modules

Where models share no state and are each small, one run checks several: `part` is chosen
in the initial state and only that model moves. This loses nothing, since no action of
one reads a variable of another. (`Log` and `Sched` do not share a scheduler here, nor `Log` and
`FileData` a disk: each module has its own abstraction of the other.) Names are prefixed where
they would clash: `FlNext`, `fpc` and `FileProcs` of `File`, `FSBLOCKS` and `OPBLOCKS` of `FileData`, `BlkSizes` of `Buddy`.
`PagesConserved` of `Vm` joins an invariant and an action property, `ShRuns` of `Shell` the parser and the descriptors.

## Runs

| Run | Bounds | Shows |
|---|---|---|
| `proc_safety` | 3 slots, pids to 4 (slots reused), kill(2), failures on | `CheckedParentStable`, `NoMissedExit`, `StackQuiescent`, `NoDeadlock`, `TreeSpec`, and `KilledEventuallyExits` under `FairSpec` |
| `proc_reuse` | 4 slots, pids to 5 | violation: deadlock after the slot of `original_parent` is reused |
| `log_cpu_file` | Log: 2 processes, 3 home blocks, 3 calls of 2 blocks, 2 crashes, buffers recycled until the first; Sched: 2 CPUs, 2 processes; File: 2 processes, 4 files, 2 descriptors, 1 page, faults | `CrashAtomic` (the refinement, and that a quiet log is durable), `IntrsMatchLocks`, `IdleMeansNoWork`, `TableSound`; 1.6 million states |
| `log_data_shell` | Log: 2 processes, 4 calls, 4 blocks, LOGSIZE = nlog = 4, reservation 2, 1 written; FileData: blocks of 2, 2 direct and 7 indirect, 20 blocks, 2 writers, 2 calls, writes of 15 bytes, files of 7 bytes from mkfs; Shell: lines of up to 5 of 9 characters, and of up to 7 of `a`, blank, `<` and `>` | `LogFits`; `Admitted` under `Fairness`; `ContentIntact`, `BlocksOwned`, `TxFits`; `ShRuns`, `NshParses`; 0.4 million states |
| `log_pins` | recycling after a recovery | violation: a logged block whose refcnt is 0 |
| `pipe_safety` | 2 processes with any ends, 2 byte values, PIPESIZE 2, WRAP 4, calls of 0 and 3 bytes, faults, one victim | `NoLostWakeup`, `PageInUse`, `EofMeansNoWriter`, `IsByteStream`; `PeerGoneReturns` under `FairSpec` |
| `bcache_safety` | 3 processes, 3 buffers, 4 blocks, 2 contents, 1 pin | `CacheSound` (identity, exclusive use, counts, list), `Coherent`, `SleeperHasHolder`; 1.1 million states |
| `fs_console` | Fs: 2 processes, 2 names, paths of two elements, 5 inodes, 6 blocks, 4 calls, 1 crash; Console: 3 characters, 2 readers, indices modulo 6 | `CrashConsistent`, `RefsCounted`, `LastPutUnlocked`, `FreedUnlessReborn`, `NoPanic`, `NoDeadlock`; `NoSleepBesideLine`, `IsLineBuffer`; 0.7 million states |
| `fs_dotdot` | 1 process, 6 calls | violation: ilock() of a freed inode |
| `mem_disk` | Vm: 2 processes, 20 pages, 5 user pages, 4 calls; Virtio: 8 descriptors, 3 requests, indices modulo 16; Buddy: heaps of 320 to 728 bytes, 3 blocks | `PagesConserved`, `MappedToSize`, `PanicsOnlyWhenOut`, `CopyExact`, `DescOwned`, `HeapPartitioned`; `RwReturns` under `VdFair` |
| `vm_leak` | 1 process, 20 pages of which up to 14 are taken, one program of two segments | violation: pages that nothing refers to after a failed exec() |
| `vm_fork_panic` | the same with 2 slots | violation: fork() panics when the child's first page cannot be had |

Why the bounds are enough. The races of exit and wait are between a process, its
parent, its child and init; three slots hold every pair of them plus init, the
fourth pid reuses a slot. The deadlock of `proc_reuse` needs four processes and one
reuse; with three slots and one reuse there is none. For the log, two processes give
concurrent system calls in one transaction, a process that calls again while the
other is still in its call has to wait for room, and two crashes give a crash during
recovery from the first. In the pipe, calls of three bytes on a ring of two make a
writer fill the ring and sleep in mid-call, and the counters wrap at every second
round. The file table (4) is smaller than the descriptors plus a pipe in the making,
the descriptor tables (2) are full after one pipe(), and one page makes the second
pipe's allocation fail. Three processes on three buffers, one of them perhaps pinned,
leave none to recycle, and two can wait for the same one.
In `Fs`, two processes and four calls reach a file that one unlinks while the other
has it open or is linking it, a directory removed under a process inside it, and two
calls that lock the same pair of inodes. Three requests want nine of the driver's eight descriptors,
so one caller always has to wait (never two: four requests take too long for TLC). Twenty pages are exhausted by a fork of a
grown process, so every kalloc() of fork, exec and sbrk is the failing one somewhere. A write of
15 bytes starts in a direct block, allocates the indirect one (in a file that was truncated) and ends in it inside a
block, over three transactions; a second one runs into the largest file, one behind a read of 3 bytes fills it exactly and is unaligned in
every piece, and 20 blocks let both files reach that size. The files that mkfs
filled have 7 bytes, which reach into the indirect block and end inside a block. Five characters hold two operators with their commands, and a block in parentheses; seven hold
a word with two redirections, or a redirection in front of words. Two processes and four calls also
reach the inode that is given away and unlinked while its old iput() is not finished. For `vm_leak` and
`vm_fork_panic` any number of pages may be left when the call starts. Two CPUs suffice for
a process that sleeps on one and is woken by and resumed on the other. The theorems below lift the
safety results of `Proc`, `Pipe`, `Log`, `Bcache`, `Sched`, `Console`, `Virtio` and `File`, and the
reference counts of `Fs`, from these instances to every size.

Deadlock checking is off for `Proc`, since the system really may stop (init may sleep
beside a zombie child); `NoDeadlock` states what must not happen there. It is off for
`Pipe` as well: a reader whose writer never writes waits. In `fs_console`,
`log_data_shell`, `mem_disk` and the two runs of `Vm` programs stop after a bounded number of calls, and a
panic ends the machine; `NoDeadlock` of `Fs` covers the waits among its calls. In
`log_cpu_file`, for `Log` with crashes too, and in `bcache_safety` it is on.

Fairness. `Proc`: a kernel thread that can run does, the scheduler's loop visits
every RUNNABLE process, and a spinning acquire() whose lock is free again and again
succeeds in the end (strong fairness of each thread's next kernel step; the
amoswap of the code gives no formal guarantee, but the critical sections are
short). A timer interrupt brings a process in user space to usertrap() (weak
fairness of `TrapKilled`). User programs owe nothing. `Log`: disk requests
complete, a system call returns, and a waiter that finds room again and again
takes it. `Pipe`: a process inside read(), write() or pipeclose() goes on when it can (it
is runnable and `pi->lock` is free again and again), and a killed process in user space
gets to exit(); whether a program calls read(), write() or close() is up to it. `Virtio`
(`VdFair`): the device takes what is in the available ring and finishes it, its interrupt is
served, and a woken caller runs; a caller that finds three free descriptors again and
again gets them (strong fairness: wakeup() makes all waiters runnable and the scheduler visits
each, but another caller may be faster any given time). Nothing is assumed of
new calls.

## Findings

The five violations are disagreements between comments or tests and code; `PROJECT.json`
quotes both sides. exit()'s comment that racing with an exiting parent is
harmless is wrong: once the parent's slot is reused for a grandchild, two processes
deadlock (`proc_reuse`). Recovery unpins buffers it never pinned, after which a logged update
can be lost (`log_pins`; `CrashAtomic` fails too in that configuration). A removed
directory's ".." outlives the directory it names, and following it panics (`fs_dotdot`).
proc_freepagetable() does nothing for size 0, and exec() passes it the 0 of a uvmalloc() that failed:
every user page loaded until then is lost with the page table (`vm_leak`). The page-table pages alone are lost
when the first program header is invalid, when fork() fails after the child's first page, and when a process of size 0
exits. A call of a process with memory that succeeds loses nothing, which is the second part of `PagesConserved`. uvmcopy() that fails on its first page
calls uvmunmap() with size 0, which panics, where usertests expects fork() to fail (`vm_fork_panic`);
`PanicsOnlyWhenOut` says that a panic over memory happens only in a call that itself ran out of pages.

Two findings are stated by properties that pass because they spell out the exception. iput() drops its reference in a
second hold of icache.lock, after the inode was freed and unlocked. If ialloc() has given the inode to another process,
and that one unlinks and puts it in between, it finds ref = 2 and frees nothing, and the late `ref--` does not test again: an
allocated inode without link or reference, never freed. `FreedUnlessReborn` shows that this is the only step that leaves one;
`RefsCounted`, `LastPutUnlocked` and `NoPanic` hold through the window. And nsh reads one redirection where its test expects two
(`NshParses`): "grep x < README > out" passes `>` and `out` to grep as words and writes no file, the test "both redirections"
that the comment at the end of nsh.c lists as failing.

Four more can be seen by giving the modules other constants. They state less certain
expectations, so they are no runs:
- `ZombieChildReaped` of `Proc` (3 slots, pids to 3): a process given to init after it
  read `original_parent` wakes the wrong process, and init sleeps on beside a zombie
  child until the next exit;
- `KilledWasKilled` of `Proc` (KillPids = {0}): kill(0) marks a free slot, and the next process
  there starts out killed;
- `DataReachesReader` of `Pipe` (3 processes, PIPESIZE 1; `NoLostWakeup` excuses states with a killed process): a pipewrite() killed when
  the ring is full returns without the wakeup its other exits make, and a reader
  sleeps on beside the data while a third process keeps the write end open;
- `LogFits` of `Log` with OpBlocks = MAXOPBLOCKS and nlog = LOGSIZE: mkfs counts the header
  in LOGSIZE, begin_op() does not, and full reservations reach panic("too big a transaction").

Seen while modelling, and in the models as the code has it: bd_init() panics for heaps whose two ends fall into one pair of buddies (320 bytes; `HeapPartitioned` says nothing of that heap);
readi() and writei() return n although a copy failed; proc_pagetable() ignores mappages()
failing; of intr_off() and `c->intena = 0` in scheduler() either alone would do; mkfs adds a
block to the root's size when it is a multiple of the block size. Outside the
models: plicinithart() does not enable the second disk's interrupt, and nsh's runcmd()
returns in a child whose exec() failed, which then reads commands like its parent.

## Proofs

`ProcProofs` proves, for every NPROC >= 1, MaxPid, KillPids without 1, with and
without failures: `TypeOK`, `CheckedParentStable`, `NoMissedExit`,
`OrphansHaveInit`, `SchedHoldsOnlyOwnLock`, `StackQuiescent`,
`WaitFailsOnlyChildless`, and that `Proc` implements `ProcTree`.

None of these is inductive alone. `IInv` adds: `LockInv`, which reads the holder of
every lock off the pcs (so a lock has one holder, and a process that scans with its
own lock held excludes a child at `ExitZombie`, which must hold it); `PcInv`, the
state and channel at each pc; `InitInv`; `ParentInv`; `OrigInv`
(`original_parent` is the parent unless the process was given to init, which is why
only init can miss an exit); `ReparentInv` and `ScanInv`, what a scan has
established about the slots it passed. Each action has a lemma; the steps that hold
no lock share one (`UnlockedStep`). The refinement uses `IInv` to show that
`ReparentChild` gives away one's own child, that `ExitZombie` has no child left and
that `WaitReap` frees one's own zombie.

`NoDeadlock` of `Proc` does not hold: `proc_reuse` refutes it. `DeadlockNeedsReuse` proves that the
reuse shown there is the only way: in every state in which no process inside exit() has locked an
`original_parent` slot that was allocated again after the process itself was created, no set of
processes waits for locks that only its members hold. `AgeInv` gives the order: pids are unique and
grow, so a child's pid is greater than its parent's. A process that holds a lock and waits for another
is in exit() or in wait(), and the lock it wants is its own or its child's, held by a younger
process (`WaitsForYounger`); in a circle the youngest holder would have to wait for a younger one.

`PipeProofs` proves, for every set of processes, every PIPESIZE >= 1 and every WRAP that
is a multiple of it and larger (2^32 and 512 are): `TypeOK`, `NoLostWakeup`,
`PageInUse`, `EofMeansNoWriter`, and that `Pipe` implements `ByteStream`.

Its invariant joins: `LockInv`, who holds `pi->lock` at each pc; `AsleepInv`, that a
sleeper is inside the call that sleeps on its channel; `EndsInv`, that a process inside
read() or write() holds that end; `OpenInv`, that a flag of the pipe is set exactly
while some process holds the end or is about to close it; `CloserInv`, which makes that closer unique, so that the page is freed once;
`TestInv`, what the test of the loop established for a process that is about to sleep
and still has the lock (this is what `NoLostWakeup` needs, and what kill() does not
respect; the clause about bytes in the pipe is excused in every state with a killed process); and `CountInv`, that `nwrite - nread` modulo WRAP is at most PIPESIZE. The
refinement rests on lemmas about `%`: a slot of the ring is written only when it is
not among the bytes still unread, and the queue read off the ring after a write or a
read is the old one with a byte appended or the first removed (`RingPut`,
`RingTake`). That WRAP is a multiple of PIPESIZE is used there: otherwise the index
would jump when a counter wraps.

`OrphansHaveInit`, `SchedHoldsOnlyOwnLock`, `WaitFailsOnlyChildless` and the `TypeOK` of `Proc` and `Pipe` are proved and have no run of
their own: they are parts of what `TreeSpec`, `StackQuiescent`, `NoMissedExit` and `IsByteStream` rest on.

`LogProofs` proves, for every number of processes, home blocks, calls and crashes, that the log never
overflows (`LogFits`) and that `Log` implements `AtomicDisk` (`CrashAtomic`). Both are stated under
`Roomy`: a call writes fewer blocks than it reserves, LOGSIZE holds two reservations, and the log is
LOGSIZE blocks. The kernel has LOGSIZE = 3 * MAXOPBLOCKS and nlog = LOGSIZE; calls that use their
whole reservation can overflow (see Findings), so the first part of `Roomy` is needed.
`CrashAtomic` also needs `FullBoots` <= 1, that is, no buffer recycled after a crash: recovery gets the
pins wrong (`log_pins`), and the refinement fails otherwise. The invariant has two layers. `CtlInv`:
recovery runs alone, then calls or one committer (`PhaseInv`), `outstanding` counts the calls
(`CountInv`), where a thread stands in its loop (`PlaceInv`), when the header is empty or equal to
the one in memory (`HeadInv`), and that the logged blocks plus what the calls inside may still add stay two
below LOGSIZE (`Fits`; absorption makes the sum, and neither part of it, the right measure).
`DataInv`: before the header write the home blocks on disk are those in memory except the logged ones
(`BeforeCommit`); `WriteLogInv` says which part of the log is written; after the header write the
log holds what memory holds and the installed blocks agree (`InstallInv`); recovery starts from the disk (`RebootInv`);
logged blocks are pinned until installed (`PinInv`). A crash at any step then finds in
`Recovered` either the old or the new state of the disk.

`BcacheProofs` proves `CacheSound`, `Coherent` and `SleeperHasHolder` for every NBUF, every set of
blocks and every finite set of processes. Its invariant reads users and holders off the pcs (`HoldInv`,
`LockInv`, `SleepInv`), says that a valid buffer has the latest content (`DataInv`) and that the disk is
behind only for pinned blocks (`DiskInv`), so that recycling a buffer without pins loses nothing, and numbers
the LRU list by a bijection (`RingInv`), from which the effect of unlinking a buffer and linking it at the
front of the list follows.

`IntrProofs` has a part for each component with an interrupt handler.

For `Sched` it proves the types, `IntrsMatchLocks` and `IdleMeansNoWork` for every number of CPUs and processes.
Everything about a CPU is read off the top frame of the thread it runs: `StackInv` (the shapes of a
stack), `CurInv` (a process runs on one CPU), `CpuInv` (locks held or spun for, `noff`, interrupt
flag and `intena`), `RestInv` (a thread that is not running waits at a swtch() with the locks that the thread which
resumes it hands over), and `OwedInv` (the scan of some scheduler has yet to come to every
RUNNABLE process, which is why an idle machine has none).

For `Console` it proves `NoSleepBesideLine` and that `Console` implements `LineBuffer` for every INPUT_BUF,
every wrap of the indices that is a multiple of it and larger, and every set of readers. `IndexInv` orders `r`, `w`,
`e` on the circle, at most INPUT_BUF apart; `LockInv` and `WaitInv` say that a sleeper found
`r = w` under the lock and nobody finished a line since; `GotInv` and `LineInv` say that neither a
read under way nor the line being typed contains a newline, which is what lets ^U stop at `w`.

For `Virtio` it proves `DescOwned` for every NUM, every width of the ring indices that NUM divides and
every finite set of buffers. `ChainInv` and `OwnerInv` divide the descriptors between the chains of three and the
free list, `PlaceInv` puts the head of every chain in progress in one of available ring, device
and used ring, `RingInv` says which cells of a ring are occupied, `MovedInv` that a transfer was made before it is
reported. The driver compares indices modulo NUM, which cannot tell a full ring from an empty one:
each chain has a descriptor that is no head, so heads are fewer than NUM (`RingRoom`) and
no ring is ever full. That alloc3_desc() takes the three least free descriptors is `ThreeLeast`.

`FileProofs` proves the types and `TableSound` for every finite set of processes and every NFILE, NOFILE
and NPAGE. `TableSound` is a set of sums over all processes, and a step changes the
summands of one of them: `OneMoves` and `TwoMove` (in `ArithFacts`) say how a cardinality changes when one or
two members come or go, and from them each action is reduced to what its own process holds before and
after. The sums alone are not inductive. `LocalsInv` says which locals a call has at its pc; `SetupInv`, that a
file being set up has the one reference of that call and stands for nothing until the end of the pipe or the inode is
put into it; `DupInv`, that dup() has its file in two descriptors before it counts it; `ForkInv`, that the table fork()
fills belongs to nobody yet; `FreeInv` and `FdsInv`, that a free entry stands for nothing and a descriptor for
something. With them `f->ref = 1` in fileclose() means that no other reference is left, so that what the file stands for
is given back exactly once.

`FsProofs` proves the types, `RefsCounted` and `LastPutUnlocked` for every finite set of processes and of names,
every number of inodes, blocks and cache entries and every set of well-formed calls (`FsAssumption`: each has one of the
six kinds and paths made of names, "." and ".."), so also for the paths with ".." that
make the kernel panic. The invariant reads a call's
references off how far it is (`CallOK`: when `ip` and `dp` are in use, also while inodes are being put and one of
them is being freed), says that no process opens a second file meanwhile (`FileInv`), and that a lock is held by a
process whose call has the inode locked at that point (`LockInv`). `StepInv` reduces `RefsCounted` to one process:
`ip->ref` must change by the difference of what that process points to. Each action then has a lemma; the steps in which a call
fails, goes on with the same inodes, or moves to others share one each (`FailStep`, `KeepStep`, `MoveStep`). `LastPutUnlocked` follows: whoever holds the lock points
to the inode with `ip`, `dp` or the inode it is freeing, and together with the one about to be put that makes two references.

`ArithFacts` has the arithmetic of `%` with a divisor that is a parameter, two forms of
induction as facts about sets (`SetInduction`, `LeastMember`), which need no operator parameter, and the counting lemmas.
The constants' assumptions are named in the modules that declare them: finite sets of processes or buffers, sizes of
at least 1, wraps that are multiples of the ring they index, and names (`boot`, "no lock") that
are no process. The kernel's constants satisfy all of them.

Only model-checked: liveness of every module, which is outside the prover; `CrashConsistent`, `FreedUnlessReborn`, `NoPanic` and `NoDeadlock` of `Fs`;
and `Shell`, `FileData`, `Vm` and `Buddy`, whose recursive operators the prover does not
accept and whose loops would need induction over data. `NoPanic` and `NoDeadlock` of `Fs` hold for the calls of the run and not for every set of calls (`fs_dotdot`),
and rest, like `CrashConsistent`, on the shape of the whole directory tree. `NoDeadlock` of `Proc` is model-checked on the instance of `proc_safety` and proved under the condition above.

## Plan

The order of work was: `Proc` and its proofs, `Log`, `Pipe` and its proofs, `Bcache`, `File`, then
the modules over them (`Fs`, `FileData`), memory (`Vm`), the drivers (`Virtio`, `Console`), `Sched`,
the algorithms (`Buddy`, `Shell`), and the proofs of `Log`, `Bcache`, `Sched`, `Console`, `Virtio`, `File` and `Fs`.
What is worth doing next:

1. `CrashConsistent` of `Fs`: an invariant that says what each call under way still owes the disk (a link
   count not yet taken back, a block not yet freed), proved with the counting lemmas that `RefsCounted` uses.
2. `NoDeadlock` of `Fs` for calls without "..": directories are locked before their children, which makes a
   well-founded order as long as the directories form a tree.

## Not modelled

Boot code, assembly, printf, string functions, the ELF format, uart and interrupt
controller registers: straight-line code or data without a property to state.
Console output has no state of its own. The table look-up of system calls and the
fetching of plain arguments change nothing; their checks are guards of the calls.
ramdisk.c is not linked. filestat() and stati() only copy. The counters of sys_ntas() are statistics.
nulterminate() of the shells writes string ends where the models keep positions.
nsh's runcmd() is left out. User programs are sequential and mostly I/O, and the
user tests are tests; several of them (mmaptest, symlinktest, alarmtest) are for
system calls this kernel does not have.
