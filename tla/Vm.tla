--------------------------------- MODULE Vm ---------------------------------
(* Physical pages (kalloc.c), user page tables (vm.c) and the calls that     *)
(* build and free them: fork(), exit() with wait(), sbrk() and exec().  A     *)
(* process changes only its own table, and kalloc() is the one thing calls    *)
(* share, so a call is one step; the pages that other parts of the kernel     *)
(* take and give back decide at which of its kalloc()s it runs out.           *)
EXTENDS Integers, Sequences, FiniteSets

CONSTANTS Slots,       \* entries of the process table; slot 1 runs first
          NPHYS,       \* pages of physical memory
          PGSIZE,      \* bytes of a page
          L0,          \* entries of a lowest-level page-table page
          UPAGES,      \* user pages below the trap frame
          UINT32,      \* 2^32 of the code
          Deltas,      \* arguments of sbrk()
          Programs,    \* executable files: sequences of segments
          MaxHeld,     \* bound: pages held by pipes
          MaxVmCalls   \* bound: system calls

Phys == 1..NPHYS
PGROUNDUP(sz) == ((sz + PGSIZE - 1) \div PGSIZE) * PGSIZE
NPages(sz) == PGROUNDUP(sz) \div PGSIZE

VARIABLES mem,    \* kmem: free pages; the panic; did the last call find none free?
          vproc,  \* tf, pagetable and sz of each process; tf = 0 if unused
          held,   \* pages held outside processes (pipes)
          vcalls

vmVars == <<mem, vproc, held, vcalls>>

\* Interior pages: root, the two above the trampoline, the two levels of the
\* user part.  hi: is the trampoline mapped, the trap frame; user: pages with PTE_U.
\* The k-th lowest-level page of the user part is k.
Root == -4
Hi1 == -3
Hi0 == -2
Lo1 == -1
NoTable == [node |-> <<>>, leaf |-> <<>>, user |-> {}, hi |-> {}]
NoProcess == [tf |-> 0, pt |-> NoTable, sz |-> 0]
PagesOf(f) == {f[x] : x \in DOMAIN f}
Put(f, x, v) == [y \in DOMAIN f \cup {x} |-> IF y = x THEN v ELSE f[y]]
Cut(f, S) == [y \in DOMAIN f \ S |-> f[y]]

-----------------------------------------------------------------------------
(* kalloc(), kfree()                                                       *)

\* Any free page will do; none: the caller sees 0.
kalloc(m) ==
  IF m.free = {} THEN [m |-> [m EXCEPT !.oom = TRUE], pa |-> 0]
  ELSE LET p == CHOOSE x \in m.free : \A y \in m.free : x <= y IN
       [m |-> [m EXCEPT !.free = @ \ {p}], pa |-> p]
kfree(m, S) == [m EXCEPT !.free = @ \cup S,
                         !.panic = IF S \cap m.free # {} THEN "freed twice" ELSE @]
Panics(m, why) == [m EXCEPT !.panic = why]
Ok(m) == m.panic = "no"

-----------------------------------------------------------------------------
(* Page tables.  t is [m, pt, ok]: memory, table, and whether it went well.  *)

\* walk(alloc = 1) down to the lowest level: two interior pages, each of which
\* stays in the table when the next one cannot be had.
Linked(t, tag, a) ==
  IF a.pa = 0 THEN [t EXCEPT !.m = a.m, !.ok = FALSE]
  ELSE [t EXCEPT !.m = a.m, !.pt.node = Put(@, tag, a.pa)]
Interior(t, tag) ==
  IF ~t.ok \/ tag \in DOMAIN t.pt.node THEN t ELSE Linked(t, tag, kalloc(t.m))
walk(t, v) == Interior(Interior(t, Lo1), v \div L0)
walkhi(t) == Interior(Interior(t, Hi1), Hi0)

\* mappages() of one user page.
SetPte(t, v, pa, u) ==
  IF ~t.ok THEN t
  ELSE IF v \in DOMAIN t.pt.leaf THEN [t EXCEPT !.m = Panics(@, "remap")]
  ELSE [t EXCEPT !.pt.leaf = Put(@, v, pa), !.pt.user = IF u THEN @ \cup {v} ELSE @]
mappages(t, v, pa, u) == SetPte(walk(t, v), v, pa, u)

\* uvmunmap() of the pages from v up to last: each has to be mapped.  A size of
\* 0 makes last wrap around, and the walk runs into the first unmapped page.
uvmunmap(t, v, last) ==
  LET S == v..last IN
  IF last < v \/ ~(S \subseteq DOMAIN t.pt.leaf)
    THEN [t EXCEPT !.m = Panics(@, "uvmunmap")]
    ELSE [t EXCEPT !.m = kfree(@, {t.pt.leaf[x] : x \in S}),
                   !.pt.leaf = Cut(@, S), !.pt.user = @ \ S]

\* uvmcreate() and proc_pagetable(), which goes on when a mapping fails.
Trapframe(t, t2) ==
  [t2 EXCEPT !.ok = TRUE, !.pt.hi = (IF t.ok THEN {"trampoline"} ELSE {})
                                    \cup (IF t2.ok THEN {"trapframe"} ELSE {})]
Trampoline(t) == Trapframe(t, walkhi([t EXCEPT !.ok = TRUE]))
uvmcreate(a) ==
  IF a.pa = 0
    THEN [m |-> Panics(a.m, "uvmcreate: out of memory"), pt |-> NoTable, ok |-> TRUE]
    ELSE Trampoline(walkhi([m |-> a.m, ok |-> TRUE,
                            pt |-> [NoTable EXCEPT !.node = Put(<<>>, Root, a.pa)]]))
proc_pagetable(m) == uvmcreate(kalloc(m))

\* Mutant: the page that newsz ends in is freed too.
uvmdeallocMutant(t, oldsz, newsz) ==
  IF newsz >= oldsz THEN t ELSE uvmunmap(t, newsz \div PGSIZE, (oldsz - 1) \div PGSIZE)
\* uvmdealloc(): bytes oldsz to newsz; the pages above newsz are freed.
uvmdealloc(t, oldsz, newsz) ==
  IF newsz >= oldsz \/ PGROUNDUP(newsz) >= PGROUNDUP(oldsz) THEN t
  ELSE uvmunmap(t, NPages(newsz), (oldsz - 1) \div PGSIZE)

\* uvmalloc(): ok says whether the new size was reached; pages are given back
\* when it was not, interior pages are kept.
Undo(t, v, first) == [uvmdealloc(t, v * PGSIZE, first * PGSIZE) EXCEPT !.ok = FALSE]
RECURSIVE Grow(_, _, _, _)
Grown(t, pa, v, first, last) ==
  IF t.ok THEN Grow(t, v + 1, first, last)
  ELSE Undo(IF pa = 0 THEN t ELSE [t EXCEPT !.m = kfree(@, {pa})], v, first)
NewPage(t, a, v, u) ==
  IF a.pa = 0 THEN [t EXCEPT !.m = a.m, !.ok = FALSE]
  ELSE mappages([t EXCEPT !.m = a.m], v, a.pa, u)
GrowBy(t, a, v, first, last) == Grown(NewPage(t, a, v, TRUE), a.pa, v, first, last)
Grow(t, v, first, last) ==
  IF v > last THEN t ELSE GrowBy(t, kalloc(t.m), v, first, last)
uvmalloc(t, oldsz, newsz) ==
  IF newsz < oldsz THEN t ELSE Grow(t, NPages(oldsz), NPages(oldsz), NPages(newsz) - 1)

\* uvmcopy(): flags go with the pages; on failure what was copied is unmapped.
RECURSIVE Copy(_, _, _, _)
Copied(t, pa, old, v, n) ==
  IF t.ok THEN Copy(t, old, v + 1, n)
  ELSE [uvmunmap(IF pa = 0 THEN t ELSE [t EXCEPT !.m = kfree(@, {pa})], 0, v - 1)
          EXCEPT !.ok = FALSE]
CopyPage(t, a, old, v, n) == Copied(NewPage(t, a, v, v \in old.user), a.pa, old, v, n)
Copy(t, old, v, n) == IF v = n THEN t ELSE CopyPage(t, kalloc(t.m), old, v, n)

\* proc_freepagetable(): the trampoline and the trap frame are unmapped first,
\* then uvmfree() with freewalk(); a table of size 0 is left as it is, and its
\* pages are nobody's from then on.
freewalk(t) ==
  IF Ok(t.m) /\ t.pt.leaf # <<>> THEN Panics(t.m, "freewalk: leaf")
  ELSE IF Ok(t.m) THEN kfree(t.m, PagesOf(t.pt.node)) ELSE t.m
FreeTable(m, pt, sz, drop) ==
  IF pt.hi # {"trampoline", "trapframe"} THEN Panics(m, "trampoline not mapped")
  ELSE IF drop THEN m
  ELSE freewalk(uvmunmap([m |-> m, pt |-> pt, ok |-> TRUE], 0, NPages(sz) - 1))
\* Mutant: the table is dropped whatever the size.
FreeDropMutant(m, pt, sz) == FreeTable(m, pt, sz, TRUE)
proc_freepagetable(m, pt, sz) == FreeTable(m, pt, sz, sz = 0)

freeproc(m, p) == IF p.tf = 0 THEN m ELSE proc_freepagetable(kfree(m, {p.tf}), p.pt, p.sz)

-----------------------------------------------------------------------------
(* exec()                                                                  *)

\* One segment: uvmalloc() up to its end, then loadseg(); sz is 0 after a
\* uvmalloc() that failed.  x is [m, pt, ok, sz].
Loaded(t, sz, ph) ==
  [m |-> t.m, pt |-> t.pt, sz |-> sz,
   ok |-> sz # 0 /\ ph.vaddr % PGSIZE = 0 /\ ph.readable]
Allocated(t, x, end, ph) ==
  Loaded(t, IF ~t.ok THEN 0 ELSE IF end < x.sz THEN x.sz ELSE end, ph)
Segment(x, ph) ==
  IF ~x.ok \/ ph.memsz < ph.filesz THEN [x EXCEPT !.ok = FALSE]
  ELSE Allocated(uvmalloc([m |-> x.m, pt |-> x.pt, ok |-> TRUE], x.sz, ph.vaddr + ph.memsz),
                 x, ph.vaddr + ph.memsz, ph)
RECURSIVE Load(_, _)
Load(x, segs) == IF segs = <<>> THEN x ELSE Load(Segment(x, Head(segs)), Tail(segs))

\* Two pages for the stack; uvmclear() makes the lower one the guard page.
Guarded(t, sz0, argsFit) ==
  [m |-> t.m, sz |-> IF t.ok THEN sz0 + 2 * PGSIZE ELSE 0, ok |-> t.ok /\ argsFit,
   pt |-> IF t.ok THEN [t.pt EXCEPT !.user = @ \ {NPages(sz0)}] ELSE t.pt]
StackAt(x, sz0, argsFit) ==
  Guarded(uvmalloc([m |-> x.m, pt |-> x.pt, ok |-> TRUE], sz0, sz0 + 2 * PGSIZE), sz0, argsFit)
Stack(x, argsFit) == IF ~x.ok THEN x ELSE StackAt(x, PGROUNDUP(x.sz), argsFit)

\* The new image replaces the old one, or is freed again.
Commit(x, p) ==
  IF ~Ok(x.m) THEN [m |-> x.m, p |-> p]
  ELSE IF ~x.ok THEN [m |-> proc_freepagetable(x.m, x.pt, x.sz), p |-> p]
  ELSE [m |-> proc_freepagetable(x.m, p.pt, p.sz), p |-> [p EXCEPT !.pt = x.pt, !.sz = x.sz]]
Image(t, segs) == Load([m |-> t.m, pt |-> t.pt, ok |-> TRUE, sz |-> 0], segs)
ExecImage(m, p, segs, argsFit) == Commit(Stack(Image(proc_pagetable(m), segs), argsFit), p)

-----------------------------------------------------------------------------
(* Calls                                                                   *)

Live(i) == mem.panic = "no" /\ vproc[i].tf # 0
\* A process without memory faults on its next instruction: it can only exit.
Runs(i) == Live(i) /\ vproc[i].sz > 0
\* Memory as a call finds it.
Now == [mem EXCEPT !.oom = FALSE]

\* kinit(), and userinit() with its one page of code.
FirstPage(t, a) == mappages([t EXCEPT !.m = a.m], 0, a.pa, TRUE)
FirstTable(t) == FirstPage(t, kalloc(t.m))
VmStart(t) ==
  /\ \E n \in 0..MaxHeld : held = (NPHYS - n + 1)..NPHYS
  /\ mem = [t.m EXCEPT !.free = @ \ held]
  /\ vproc = [i \in Slots |-> IF i = 1 THEN [tf |-> 1, pt |-> t.pt, sz |-> PGSIZE]
                              ELSE NoProcess]
  /\ vcalls = 0
VmInit == VmStart(FirstTable(proc_pagetable(
            [free |-> Phys \ {1}, oom |-> FALSE, panic |-> "no"])))

\* allocproc() and uvmcopy(); when that fails freeproc() sees a size of 0.
Forked(c, tf, i, j) ==
  IF Ok(c.m) /\ c.ok
    THEN /\ mem' = c.m
         /\ vproc' = [vproc EXCEPT ![j] = [tf |-> tf, pt |-> c.pt, sz |-> vproc[i].sz]]
    ELSE /\ mem' = IF Ok(c.m) THEN freeproc(c.m, [tf |-> tf, pt |-> c.pt, sz |-> 0]) ELSE c.m
         /\ UNCHANGED vproc
ForkCopy(t, i) == IF Ok(t.m) THEN Copy(t, vproc[i].pt, 0, NPages(vproc[i].sz)) ELSE t
ForkWith(a, i, j) ==
  IF a.pa = 0 THEN mem' = a.m /\ UNCHANGED vproc
  ELSE Forked(ForkCopy(proc_pagetable(a.m), i), a.pa, i, j)
Fork(i, j) == /\ Runs(i) /\ vproc[j].tf = 0
              /\ ForkWith(kalloc(Now), i, j) /\ UNCHANGED held

\* exit(), and wait() of the parent, which frees the process.
ExitWait(i) ==
  /\ Live(i) /\ i # 1
  /\ mem' = freeproc(Now, vproc[i])
  /\ vproc' = [vproc EXCEPT ![i] = NoProcess]
  /\ UNCHANGED held

\* growproc(): the new size is computed modulo 2^32.
Resized(i, t, sz) ==
  /\ mem' = t.m
  /\ vproc' = [vproc EXCEPT ![i].pt = t.pt, ![i].sz = sz]
\* Mutant: p->sz is set although uvmalloc() failed.
GrowToMutant(i, t, new) == Resized(i, t, new)
GrowTo(i, t, new) == Resized(i, t, IF t.ok THEN new ELSE vproc[i].sz)
Sbrk(i, n) ==
  LET old == vproc[i].sz  new == (old + n) % UINT32
      t == [m |-> Now, pt |-> vproc[i].pt, ok |-> TRUE] IN
  /\ Runs(i)
  /\ IF n > 0 THEN new <= UPAGES * PGSIZE /\ GrowTo(i, uvmalloc(t, old, new), new)
     ELSE Resized(i, uvmdealloc(t, old, new), IF new < old THEN new ELSE old)
  /\ UNCHANGED held

\* sys_exec(): a page per argument, freed when exec() returns.
ExecDone(i, r, arg) ==
  /\ mem' = IF Ok(r.m) THEN kfree(r.m, {arg}) ELSE r.m
  /\ vproc' = [vproc EXCEPT ![i] = r.p]
ExecWith(i, a, segs, argsFit) ==
  IF a.pa = 0 THEN mem' = Panics(a.m, "sys_exec kalloc") /\ UNCHANGED vproc
  ELSE ExecDone(i, ExecImage(a.m, vproc[i], segs, argsFit), a.pa)
Exec(i, segs, argsFit) ==
  Runs(i) /\ ExecWith(i, kalloc(Now), segs, argsFit) /\ UNCHANGED held

\* The last pipes are closed.
GiveBack == /\ mem.panic = "no" /\ held # {}
            /\ mem' = kfree(Now, held) /\ held' = {} /\ UNCHANGED vproc

VmCall ==
  \/ \E i, j \in Slots : Fork(i, j)
  \/ \E i \in Slots : \/ ExitWait(i) \/ \E n \in Deltas : Sbrk(i, n)
                      \/ \E g \in Programs, fit \in BOOLEAN : Exec(i, g, fit)
  \/ GiveBack
VmNext == vcalls < MaxVmCalls /\ vcalls' = vcalls + 1 /\ VmCall

VmSpec == VmInit /\ [][VmNext]_vmVars

-----------------------------------------------------------------------------
(* copyin() and copyout()                                                  *)

walkaddr(pt, v) == IF v \in DOMAIN pt.leaf /\ v \in pt.user THEN pt.leaf[v] ELSE 0

\* The physical bytes that copyin() or copyout() of len bytes at va touch, in
\* order; -1 at the end where it gives up.
RECURSIVE CopyLoop(_, _, _)
CopyLoop(pt, va, len) ==
  LET v == va \div PGSIZE  o == va % PGSIZE
      n == IF PGSIZE - o > len THEN len ELSE PGSIZE - o IN
  IF len = 0 THEN <<>>
  ELSE IF walkaddr(pt, v) = 0 THEN <<-1>>
  ELSE [k \in 1..n |-> walkaddr(pt, v) * PGSIZE + o + k - 1]
       \o CopyLoop(pt, (v + 1) * PGSIZE, len - n)
\* Mutant: the second page is entered at the offset of the first.
CopyOffMutant(pt, va, len) ==
  LET n == IF PGSIZE - (va % PGSIZE) > len THEN len ELSE PGSIZE - (va % PGSIZE) IN
  CopyLoop(pt, va, n) \o CopyLoop(pt, va + PGSIZE, len - n)
copyuser(pt, va, len) == CopyLoop(pt, va, len)

\* copyinstr(): does it find the end of a string that is nul bytes from va?
RECURSIVE copyinstr(_, _, _, _)
copyinstr(pt, va, max, nul) ==
  LET v == va \div PGSIZE
      left == PGSIZE - (va % PGSIZE)
      n == IF left > max THEN max ELSE left IN
  max > 0 /\ walkaddr(pt, v) # 0
    /\ (nul < n \/ copyinstr(pt, (v + 1) * PGSIZE, max - n, nul - n))

\* fetchaddr(): a word of two bytes within the process.
fetchaddr(p, addr) == addr < p.sz /\ addr + 2 <= p.sz
                      /\ \A k \in DOMAIN copyuser(p.pt, addr, 2) : copyuser(p.pt, addr, 2)[k] # -1

-----------------------------------------------------------------------------
(* Properties                                                              *)

Owned(p) == IF p.tf = 0 THEN {} ELSE {p.tf} \cup PagesOf(p.pt.node) \cup PagesOf(p.pt.leaf)
Uses(p) == IF p.tf = 0 THEN 0
           ELSE 1 + Cardinality(DOMAIN p.pt.node) + Cardinality(DOMAIN p.pt.leaf)
OwnedByAll == UNION {Owned(vproc[i]) : i \in Slots}
Nobodys == Phys \ (mem.free \cup held \cup OwnedByAll)

\* No physical page has two uses, whichever kalloc() of fork(), exec() or sbrk()
\* failed before: it is free, or held by a pipe, or the trap frame, a page-table
\* page or a user page of one process, at one address.
PagesUsedOnce ==
  mem.panic = "no" =>
    /\ \A i \in Slots : Cardinality(Owned(vproc[i])) = Uses(vproc[i])
    /\ \A i, j \in Slots : i # j => Owned(vproc[i]) \cap Owned(vproc[j]) = {}
    /\ OwnedByAll \cap (mem.free \cup held) = {} /\ mem.free \cap held = {}

\* "Free a process's page table, and free the physical memory it refers to"
\* (proc_freepagetable()): no page of memory is nobody's.
NothingLost == mem.panic = "no" => Nobodys = {}

\* Where NothingLost does hold: a fork(), exec() or exit() that succeeds, and any
\* sbrk(), of a process that has memory loses no page, whatever was lost or
\* failed before.  Tables of size 0 are the ones that get lost.
SuccessLosesNothing ==
  [][\A i \in Slots : (vproc[i].sz > 0 \/ vproc[i].tf = 0) /\ vproc'[i] # vproc[i]
       => mem'.panic # "no" \/ Nobodys' = Nobodys]_vmVars

\* kalloc() and kfree() are matched over any sequence of calls: no page gets a
\* second use, and none loses its only one in a call that succeeds.
PagesConserved == []PagesUsedOnce /\ SuccessLosesNothing

\* The pages of a process are those below its size and no others, through every
\* growing, shrinking and failure: its table can always be copied and freed.
MappedToSize ==
  mem.panic = "no" =>
    \A i \in Slots : vproc[i].tf # 0 =>
      DOMAIN vproc[i].pt.leaf = 0..NPages(vproc[i].sz) - 1

\* The kernel panics over memory only in a call that itself found no free page,
\* and never over a page freed twice, an address mapped twice or a page left in
\* a table that is freed, whatever failed before.
PanicsOnlyWhenOut ==
  mem.panic # "no" => mem.oom /\ mem.panic \notin {"freed twice", "remap", "freewalk: leaf"}

\* uvmcopy() "returns 0 on success, -1 on failure", and forktest of usertests is
\* there to "test that fork fails gracefully" when memory runs out: a fork() that
\* finds no page for the child's memory does not panic.  (uvmcreate() says itself
\* that it panics.)
ForkFailsGracefully ==
  [][(\E i, j \in Slots : Fork(i, j)) => mem'.panic \in {"no", "uvmcreate: out of memory"}]_vmVars

\* copyin() and copyout() succeed exactly if every byte is in a page the program
\* may use, and touch those bytes of memory, one after the other; copyinstr()
\* succeeds if the string and its end are such bytes, within max; fetchaddr()
\* lets nothing above the size through.
CopyExact ==
  \A i \in Slots, va \in 0..UPAGES * PGSIZE, len \in 1..2 * PGSIZE :
    LET p == vproc[i]
        good(a) == a \div PGSIZE \in p.pt.user
        run == {n \in 0..len : \A k \in 0..n - 1 : good(va + k)}
        n == CHOOSE x \in run : \A y \in run : y <= x
        pa(a) == p.pt.leaf[a \div PGSIZE] * PGSIZE + (a % PGSIZE) IN
    mem.panic = "no" /\ p.tf # 0 =>
      /\ copyuser(p.pt, va, len) =
           [k \in 1..n |-> pa(va + k - 1)] \o (IF n = len THEN <<>> ELSE <<-1>>)
      /\ \A nul \in 0..len : copyinstr(p.pt, va, len, nul) <=> nul < len /\ nul < n
      /\ fetchaddr(p, va) => va + 1 < p.sz /\ good(va) /\ good(va + 1)
=============================================================================
