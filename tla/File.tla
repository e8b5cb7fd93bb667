-------------------------------- MODULE File --------------------------------
(* The file table of file.c and the file descriptors of the processes:     *)
(* pipe(), open(), dup(), close(), fork() and exit(), with every way they  *)
(* can fail half-way.  A step is a section of ftable.lock, or of pi->lock  *)
(* in pipeclose().                                                         *)
EXTENDS Integers, Sequences, FiniteSets

CONSTANTS FileProcs, initproc,
          NFILE,       \* entries of ftable
          NOFILE,      \* descriptors of a process
          NPAGE,       \* pages kalloc() can give to pipes
          Faults,      \* copyout() may fail
          MaxInodeRefs \* bound: references to inodes held at a time

ASSUME FileAssumption ==
  /\ IsFiniteSet(FileProcs) /\ initproc \in FileProcs
  /\ NFILE \in Nat /\ NOFILE \in Nat /\ NPAGE \in Nat /\ MaxInodeRefs \in Nat
  /\ Faults \in BOOLEAN

Files == 0..NFILE - 1
Fds == 0..NOFILE - 1
Pages == 0..NPAGE - 1
None == -1

\* What a struct file refers to; "end" is "w" if it is writable.
NoObject == [type |-> "none", page |-> None, end |-> "r"]
Inode == [type |-> "inode", page |-> None, end |-> "r"]
PipeEnd(g, e) == [type |-> "pipe", page |-> g, end |-> e]
Objects == {NoObject, Inode} \cup {PipeEnd(g, e) : g \in Pages, e \in {"r", "w"}}

VARIABLES ref, obj,     \* ftable: f->ref, and f->type with what goes with it
          ofile,        \* p->ofile
          pageused,     \* pages in use as pipes
          open,         \* their readopen and writeopen
          iref,         \* references to inodes held by open files and open()
          fpc,
          rf, wf,       \* the files a system call is setting up
          closing,      \* files a system call has yet to give to fileclose()
          ff,           \* the copy fileclose() keeps of the last reference
          child, fidx   \* locals of fork()

flocals == <<rf, wf, closing, ff, child, fidx>>
flVars == <<ref, obj, ofile, pageused, open, iref, fpc, flocals>>

At(p, l) == fpc[p] = l
FlGoto(p, l) == fpc' = [fpc EXCEPT ![p] = l]

FlInit ==
  /\ ref = [f \in Files |-> 0]
  /\ obj = [f \in Files |-> NoObject]
  /\ ofile = [p \in FileProcs |-> [fd \in Fds |-> None]]
  /\ pageused = {}
  /\ open = [g \in Pages |-> {}]
  /\ iref = 0
  /\ fpc = [p \in FileProcs |-> IF p = initproc THEN "user" ELSE "unused"]
  /\ rf = [p \in FileProcs |-> None]
  /\ wf = [p \in FileProcs |-> None]
  /\ closing = [p \in FileProcs |-> <<>>]
  /\ ff = [p \in FileProcs |-> NoObject]
  /\ child = [p \in FileProcs |-> p]
  /\ fidx = [p \in FileProcs |-> 0]

\* filealloc() takes the first entry with ref 0; f->type is left as it is.
Unused(f) == ref[f] = 0 /\ \A g \in Files : g < f => ref[g] # 0
NoneUnused == \A f \in Files : ref[f] # 0

\* fdalloc() takes the first free descriptor.
FreeFd(p, fd) ==
  ofile[p][fd] = None /\ \A h \in Fds : h < fd => ofile[p][h] # None

\* The error paths of pipe(), and close(): fileclose() of each file of s.
StartClose(p, s) ==
  /\ closing' = [closing EXCEPT ![p] = s]
  /\ rf' = [rf EXCEPT ![p] = None]
  /\ wf' = [wf EXCEPT ![p] = None]
  /\ FlGoto(p, "close")

-----------------------------------------------------------------------------
(* pipe()                                                                  *)

PipeCall(p) ==
  /\ At(p, "user")
  /\ IF NoneUnused
       THEN UNCHANGED <<ref, rf, fpc>>
       ELSE /\ \E f \in Files : /\ Unused(f)
                                /\ ref' = [ref EXCEPT ![f] = 1]
                                /\ rf' = [rf EXCEPT ![p] = f]
            /\ FlGoto(p, "pipe_w")
  /\ UNCHANGED <<obj, ofile, pageused, open, iref, wf, closing, ff, child, fidx>>

PipeWriteFile(p) ==
  /\ At(p, "pipe_w")
  /\ \E f \in Files : /\ Unused(f)
                      /\ ref' = [ref EXCEPT ![f] = 1]
                      /\ wf' = [wf EXCEPT ![p] = f]
  /\ FlGoto(p, "pipe_page")
  /\ UNCHANGED <<obj, ofile, pageused, open, iref, rf, closing, ff, child, fidx>>

PipeNoWriteFile(p) ==
  /\ At(p, "pipe_w")
  /\ NoneUnused
  /\ StartClose(p, <<rf[p]>>)
  /\ UNCHANGED <<ref, obj, ofile, pageused, open, iref, ff, child, fidx>>

PipePage(p) ==
  /\ At(p, "pipe_page")
  /\ \E g \in Pages \ pageused :
       /\ pageused' = pageused \cup {g}
       /\ open' = [open EXCEPT ![g] = {"r", "w"}]
       /\ obj' = [obj EXCEPT ![rf[p]] = PipeEnd(g, "r"),
                             ![wf[p]] = PipeEnd(g, "w")]
  /\ FlGoto(p, "pipe_fds")
  /\ UNCHANGED <<ref, ofile, iref, flocals>>

PipeNoPage(p) ==
  /\ At(p, "pipe_page")
  /\ pageused = Pages
  /\ StartClose(p, <<rf[p], wf[p]>>)
  /\ UNCHANGED <<ref, obj, ofile, pageused, open, iref, ff, child, fidx>>

PipeFds(p) ==
  /\ At(p, "pipe_fds")
  /\ \E fd0, fd1 \in Fds :
       /\ fd0 < fd1 /\ FreeFd(p, fd0)
       /\ ofile[p][fd1] = None
       /\ \A h \in Fds : fd0 < h /\ h < fd1 => ofile[p][h] # None
       /\ ofile' = [ofile EXCEPT ![p][fd0] = rf[p], ![p][fd1] = wf[p]]
  /\ rf' = [rf EXCEPT ![p] = None]
  /\ wf' = [wf EXCEPT ![p] = None]
  /\ FlGoto(p, "user")
  /\ UNCHANGED <<ref, obj, pageused, open, iref, closing, ff, child, fidx>>

\* Too few free descriptors, or copyout() of the two numbers fails: what was
\* put into p->ofile is taken out again.
PipeFdsFail(p) ==
  /\ At(p, "pipe_fds")
  /\ Faults \/ Cardinality({fd \in Fds : ofile[p][fd] = None}) < 2
  /\ StartClose(p, <<rf[p], wf[p]>>)
  /\ UNCHANGED <<ref, obj, ofile, pageused, open, iref, ff, child, fidx>>

-----------------------------------------------------------------------------
(* open(): namei() or create() has found an inode and holds a reference.   *)

OpenCall(p) ==
  /\ At(p, "user")
  /\ iref < MaxInodeRefs
  /\ iref' = iref + 1
  /\ FlGoto(p, "open_file")
  /\ UNCHANGED <<ref, obj, ofile, pageused, open, flocals>>

OpenFile(p) ==
  /\ At(p, "open_file")
  /\ \E f \in Files : /\ Unused(f)
                      /\ ref' = [ref EXCEPT ![f] = 1]
                      /\ rf' = [rf EXCEPT ![p] = f]
  /\ FlGoto(p, "open_fd")
  /\ UNCHANGED <<obj, ofile, pageused, open, iref, wf, closing, ff, child, fidx>>

OpenNoFile(p) ==
  /\ At(p, "open_file")
  /\ NoneUnused
  /\ iref' = iref - 1
  /\ FlGoto(p, "user")
  /\ UNCHANGED <<ref, obj, ofile, pageused, open, flocals>>

OpenFd(p) ==
  /\ At(p, "open_fd")
  /\ \E fd \in Fds : /\ FreeFd(p, fd)
                     /\ ofile' = [ofile EXCEPT ![p][fd] = rf[p]]
  /\ obj' = [obj EXCEPT ![rf[p]] = Inode]
  /\ rf' = [rf EXCEPT ![p] = None]
  /\ FlGoto(p, "user")
  /\ UNCHANGED <<ref, pageused, open, iref, wf, closing, ff, child, fidx>>

\* fileclose(f), whose type is still FD_NONE, and iunlockput(ip).
OpenNoFd(p) ==
  /\ At(p, "open_fd")
  /\ \A fd \in Fds : ofile[p][fd] # None
  /\ iref' = iref - 1
  /\ StartClose(p, <<rf[p]>>)
  /\ UNCHANGED <<ref, obj, ofile, pageused, open, ff, child, fidx>>

-----------------------------------------------------------------------------
(* dup(), fork()                                                           *)

\* fdalloc() comes before filedup(): for a moment there is one descriptor more
\* than f->ref counts.
DupCall(p) ==
  /\ At(p, "user")
  /\ \E fd, new \in Fds :
       /\ ofile[p][fd] # None /\ FreeFd(p, new)
       /\ ofile' = [ofile EXCEPT ![p][new] = ofile[p][fd]]
       /\ rf' = [rf EXCEPT ![p] = ofile[p][fd]]
  /\ FlGoto(p, "dup")
  /\ UNCHANGED <<ref, obj, pageused, open, iref, wf, closing, ff, child, fidx>>

FileDup(p) ==
  /\ At(p, "dup")
  /\ ref' = [ref EXCEPT ![rf[p]] = @ + 1]
  /\ rf' = [rf EXCEPT ![p] = None]
  /\ FlGoto(p, "user")
  /\ UNCHANGED <<obj, ofile, pageused, open, iref, wf, closing, ff, child, fidx>>

ForkCall(p, q) ==
  /\ At(p, "user") /\ At(q, "unused")
  /\ fpc' = [fpc EXCEPT ![p] = "fork", ![q] = "embryo"]
  /\ child' = [child EXCEPT ![p] = q]
  /\ fidx' = [fidx EXCEPT ![p] = 0]
  /\ UNCHANGED <<ref, obj, ofile, pageused, open, iref, rf, wf, closing, ff>>

ForkDup(p) ==
  /\ At(p, "fork") /\ fidx[p] < NOFILE
  /\ LET f == ofile[p][fidx[p]] IN
       /\ ofile' = [ofile EXCEPT ![child[p]][fidx[p]] = f]
       /\ ref' = IF f = None THEN ref ELSE [ref EXCEPT ![f] = @ + 1]
  /\ fidx' = [fidx EXCEPT ![p] = @ + 1]
  /\ UNCHANGED <<obj, pageused, open, iref, fpc, rf, wf, closing, ff, child>>

ForkDone(p) ==
  /\ At(p, "fork") /\ fidx[p] = NOFILE
  /\ fpc' = [fpc EXCEPT ![p] = "user", ![child[p]] = "user"]
  /\ child' = [child EXCEPT ![p] = p]
  /\ fidx' = [fidx EXCEPT ![p] = 0]
  /\ UNCHANGED <<ref, obj, ofile, pageused, open, iref, rf, wf, closing, ff>>

-----------------------------------------------------------------------------
(* close(), exit(), fileclose()                                            *)

CloseCall(p) ==
  /\ At(p, "user")
  /\ \E fd \in Fds :
       /\ ofile[p][fd] # None
       /\ ofile' = [ofile EXCEPT ![p][fd] = None]
       /\ StartClose(p, <<ofile[p][fd]>>)
  /\ UNCHANGED <<ref, obj, pageused, open, iref, ff, child, fidx>>

ExitCall(p) ==
  /\ p # initproc
  /\ At(p, "user")
  /\ FlGoto(p, "exit")
  /\ UNCHANGED <<ref, obj, ofile, pageused, open, iref, flocals>>

\* exit() closes every descriptor, lowest first.  p->ofile is p's own, so it makes
\* no difference that the code clears the descriptor after its fileclose().
ExitFd(p) ==
  /\ At(p, "exit") /\ closing[p] = <<>>
  /\ \E fd \in Fds :
       /\ ofile[p][fd] # None /\ \A h \in Fds : h < fd => ofile[p][h] = None
       /\ closing' = [closing EXCEPT ![p] = <<ofile[p][fd]>>]
       /\ ofile' = [ofile EXCEPT ![p][fd] = None]
  /\ UNCHANGED <<ref, obj, pageused, open, iref, fpc, rf, wf, ff, child, fidx>>

Closing(p) == fpc[p] \in {"close", "exit"} /\ closing[p] # <<>>

FileCloseShared(p) ==
  /\ Closing(p)
  /\ ref[Head(closing[p])] > 1
  /\ ref' = [ref EXCEPT ![Head(closing[p])] = @ - 1]
  /\ closing' = [closing EXCEPT ![p] = Tail(@)]
  /\ UNCHANGED <<obj, ofile, pageused, open, iref, fpc, rf, wf, ff, child, fidx>>

\* Mutant: f->type is not reset, and the next filealloc() leaves it as it is.
FileCloseLastMutant(p) ==
  /\ Closing(p)
  /\ ref[Head(closing[p])] = 1
  /\ ref' = [ref EXCEPT ![Head(closing[p])] = 0]
  /\ ff' = [ff EXCEPT ![p] = obj[Head(closing[p])]]
  /\ closing' = [closing EXCEPT ![p] = Tail(@)]
  /\ FlGoto(p, IF At(p, "exit") THEN "exit_last" ELSE "close_last")
  /\ UNCHANGED <<obj, ofile, pageused, open, iref, rf, wf, child, fidx>>

FileCloseLast(p) ==
  /\ Closing(p)
  /\ ref[Head(closing[p])] = 1
  /\ ref' = [ref EXCEPT ![Head(closing[p])] = 0]
  /\ obj' = [obj EXCEPT ![Head(closing[p])] = NoObject]
  /\ ff' = [ff EXCEPT ![p] = obj[Head(closing[p])]]
  /\ closing' = [closing EXCEPT ![p] = Tail(@)]
  /\ FlGoto(p, IF At(p, "exit") THEN "exit_last" ELSE "close_last")
  /\ UNCHANGED <<ofile, pageused, open, iref, rf, wf, child, fidx>>

\* The rest of fileclose(), without ftable.lock: pipeclose() or iput().
Dispose(p) ==
  LET o == ff[p] IN
  /\ fpc[p] \in {"close_last", "exit_last"}
  /\ IF o.type = "pipe"
       THEN /\ open' = [open EXCEPT ![o.page] = @ \ {o.end}]
            /\ pageused' = IF open[o.page] \subseteq {o.end}
                             THEN pageused \ {o.page} ELSE pageused
       ELSE UNCHANGED <<open, pageused>>
  /\ iref' = IF o.type = "inode" THEN iref - 1 ELSE iref
  /\ ff' = [ff EXCEPT ![p] = NoObject]
  /\ FlGoto(p, IF At(p, "exit_last") THEN "exit" ELSE "close")
  /\ UNCHANGED <<ref, obj, ofile, rf, wf, closing, child, fidx>>

CloseDone(p) ==
  /\ fpc[p] \in {"close", "exit"} /\ closing[p] = <<>>
  /\ At(p, "exit") => \A fd \in Fds : ofile[p][fd] = None
  /\ FlGoto(p, IF At(p, "exit") THEN "unused" ELSE "user")
  /\ UNCHANGED <<ref, obj, ofile, pageused, open, iref, flocals>>

FlNext ==
  \E p \in FileProcs :
    \/ PipeCall(p) \/ PipeWriteFile(p) \/ PipeNoWriteFile(p)
    \/ PipePage(p) \/ PipeNoPage(p) \/ PipeFds(p) \/ PipeFdsFail(p)
    \/ OpenCall(p) \/ OpenFile(p) \/ OpenNoFile(p) \/ OpenFd(p) \/ OpenNoFd(p)
    \/ DupCall(p) \/ FileDup(p)
    \/ ForkDup(p) \/ ForkDone(p) \/ \E q \in FileProcs : ForkCall(p, q)
    \/ CloseCall(p) \/ ExitCall(p) \/ ExitFd(p)
    \/ FileCloseShared(p) \/ FileCloseLast(p) \/ Dispose(p) \/ CloseDone(p)

FlSpec == FlInit /\ [][FlNext]_flVars

-----------------------------------------------------------------------------
(* Properties                                                              *)

Pcs == {"unused", "embryo", "user", "pipe_w", "pipe_page", "pipe_fds", "open_file",
        "open_fd", "dup", "fork", "close", "exit", "close_last", "exit_last"}

\* The file table, the descriptors and the locals of the calls have their types;
\* no reference count is negative, and no call has more than two files to close.
FlTypeOK ==
  /\ fpc \in [FileProcs -> Pcs]
  /\ ref \in [Files -> Nat]
  /\ obj \in [Files -> Objects]
  /\ ofile \in [FileProcs -> [Fds -> Files \cup {None}]]
  /\ pageused \subseteq Pages /\ open \in [Pages -> SUBSET {"r", "w"}]
  /\ iref \in 0..MaxInodeRefs
  /\ rf \in [FileProcs -> Files \cup {None}]
  /\ wf \in [FileProcs -> Files \cup {None}]
  /\ closing \in [FileProcs -> Seq(Files)] /\ \A p \in FileProcs : Len(closing[p]) <= 2
  /\ ff \in [FileProcs -> Objects]
  /\ child \in [FileProcs -> FileProcs] /\ fidx \in [FileProcs -> 0..NOFILE]

Count(S) == Cardinality(S)

\* The descriptors that refer to f, and the places in a list of files to close.
InOfile(f) == {r \in FileProcs \X Fds : ofile[r[1]][r[2]] = f}
InClosing(f) == {r \in FileProcs \X (1..2) : r[2] <= Len(closing[r[1]])
                                             /\ closing[r[1]][r[2]] = f}

\* f->ref is the number of references to f: descriptors, files being set up,
\* files about to be closed; dup() is one behind until its filedup().  So no
\* entry of ftable is lost by a call that fails, none is free while it is used,
\* and the panics of filedup() and fileclose() are out of reach.
RefsCounted ==
  \A f \in Files :
    ref[f] + Count({p \in FileProcs : At(p, "dup") /\ rf[p] = f}) =
      Count(InOfile(f)) + Count(InClosing(f))
      + Count({p \in FileProcs : ~At(p, "dup") /\ rf[p] = f})
      + Count({p \in FileProcs : wf[p] = f})

\* The number of files, and of last references on their way out, that stand for
\* the object o.
Standing(o) == Count({f \in Files : ref[f] > 0 /\ obj[f] = o})
               + Count({p \in FileProcs : ff[p] = o})

\* An end of a pipe is open exactly while one file stands for it, and the page is
\* in use exactly while an end is open: pipeclose() is called once per end.
PipeEndsOwned ==
  \A g \in Pages :
    /\ \A e \in {"r", "w"} :
         Standing(PipeEnd(g, e)) = IF e \in open[g] THEN 1 ELSE 0
    /\ g \in pageused <=> open[g] # {}

\* Every reference to an inode belongs to an open file, to one being closed or to
\* an open() under way: none is leaked or put twice.
InodeRefsOwned ==
  iref = Standing(Inode)
         + Count({p \in FileProcs : fpc[p] \in {"open_file", "open_fd"}})

\* A descriptor a program can use refers to a file that read() and write() know:
\* panic("fileread") and panic("filewrite") are out of reach.
FdsUsable ==
  \A p \in FileProcs, fd \in Fds :
    At(p, "user") /\ ofile[p][fd] # None =>
      ref[ofile[p][fd]] > 0 /\ obj[ofile[p][fd]].type # "none"

\* The file table, the pipes and the inode references agree whatever call failed
\* half way: pipe(), open(), dup(), fork(), close() and exit() give back exactly
\* what they took, once.
TableSound == RefsCounted /\ PipeEndsOwned /\ InodeRefsOwned /\ FdsUsable
=============================================================================
