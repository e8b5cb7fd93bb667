----------------------------- MODULE FileProofs -----------------------------
(* Invariance proofs for File, for every number of processes, files,         *)
(* descriptors and pages.                                                    *)
(*                                                                           *)
(* The argument: a step changes what one process refers to, so the sum of    *)
(* all references to a file changes as that process's own (NetStep).  A      *)
(* file a call is setting up has one reference and stands for nothing yet    *)
(* (SetupInv), a free entry stands for nothing (FreeInv), and dup() has its  *)
(* file in two descriptors (DupInv), so that f->ref = 1 in fileclose() means *)
(* that no descriptor is left.                                               *)
EXTENDS File, ArithFacts, FiniteSetTheorems, SequenceTheorems, TLAPS

\* What a system call has in hand, by its pc.
Setup == {"pipe_w", "pipe_page", "pipe_fds", "open_fd"}
LocalsInv ==
  \A p \in FileProcs :
    /\ fpc[p] \in Setup \cup {"dup"} <=> rf[p] # None
    /\ fpc[p] \in {"pipe_page", "pipe_fds"} <=> wf[p] # None
    /\ closing[p] # <<>> => fpc[p] \in {"close", "exit", "close_last", "exit_last"}
    /\ ff[p] # NoObject => fpc[p] \in {"close_last", "exit_last"}

\* A file that is being set up is referred to by nobody else, and by one local.
SetupInv ==
  \A p \in FileProcs :
    /\ fpc[p] \in Setup => ref[rf[p]] = 1
    /\ wf[p] # None => ref[wf[p]] = 1 /\ wf[p] # rf[p]
    /\ fpc[p] \in {"pipe_w", "pipe_page", "open_fd"} => obj[rf[p]] = NoObject
    /\ fpc[p] = "pipe_page" => obj[wf[p]] = NoObject
    /\ fpc[p] = "pipe_fds" => obj[rf[p]] # NoObject /\ obj[wf[p]] # NoObject

\* dup() is about to count a file that two descriptors of the process refer to.
DupInv ==
  \A p \in FileProcs : At(p, "dup") =>
    \E a, b \in Fds : a # b /\ ofile[p][a] = rf[p] /\ ofile[p][b] = rf[p]

\* A process has descriptors only while it lives; fork() fills the table of a
\* process that nobody else knows, from below.
ForkInv ==
  /\ \A p \in FileProcs : fpc[p] = "unused" => \A fd \in Fds : ofile[p][fd] = None
  /\ \A p \in FileProcs : fpc[p] = "fork" =>
       /\ fpc[child[p]] = "embryo"
       /\ \A fd \in Fds : fd >= fidx[p] => ofile[child[p]][fd] = None
  /\ \A p, q \in FileProcs : fpc[p] = "fork" /\ fpc[q] = "fork" /\ child[p] = child[q] => p = q

\* An entry that is free stands for nothing; a descriptor refers to something.
FreeInv == \A f \in Files : ref[f] = 0 => obj[f] = NoObject
FdsInv == \A p \in FileProcs, fd \in Fds : ofile[p][fd] # None => obj[ofile[p][fd]] # NoObject

IInv == /\ FlTypeOK /\ LocalsInv /\ SetupInv /\ DupInv /\ ForkInv /\ FreeInv /\ FdsInv
        /\ RefsCounted /\ PipeEndsOwned /\ InodeRefsOwned

-----------------------------------------------------------------------------
(* Counting references.                                                      *)

\* The calls that have yet to count f, that set it up, that hold it as wf.
Dups(f) == {p \in FileProcs : At(p, "dup") /\ rf[p] = f}
Setups(f) == {p \in FileProcs : ~At(p, "dup") /\ rf[p] = f}
Writes(f) == {p \in FileProcs : wf[p] = f}

\* The references to f in the locals of all calls, and in those of p.
Loc(f) == Count(InClosing(f)) + Count(Setups(f)) + Count(Writes(f)) - Count(Dups(f))
Hold(p, f) ==
  One(~At(p, "dup") /\ rf[p] = f) - One(At(p, "dup") /\ rf[p] = f) + One(wf[p] = f)
  + One(1 <= Len(closing[p]) /\ closing[p][1] = f)
  + One(2 <= Len(closing[p]) /\ closing[p][2] = f)

\* The sets that are counted are finite.
LEMMA FiniteParts ==
  /\ IsFiniteSet(FileProcs) /\ IsFiniteSet(Files) /\ IsFiniteSet(Fds)
  /\ IsFiniteSet(FileProcs \X Fds) /\ IsFiniteSet(FileProcs \X (1..2))
<1>1. IsFiniteSet(FileProcs) /\ IsFiniteSet(Files) /\ IsFiniteSet(Fds) /\ IsFiniteSet(1..2)
  <2>1. 0 \in Int /\ 1 \in Int /\ 2 \in Int /\ NFILE - 1 \in Int /\ NOFILE - 1 \in Int
    BY FileAssumption
  <2> QED BY <2>1, FileAssumption, FS_Interval DEF Files, Fds
<1> QED BY <1>1, FS_Product

LEMMA CountsAreNat ==
  ASSUME NEW f
  PROVE  /\ Count(InOfile(f)) \in Nat /\ Count(InClosing(f)) \in Nat
         /\ Count(Setups(f)) \in Nat /\ Count(Writes(f)) \in Nat /\ Count(Dups(f)) \in Nat
         /\ IsFiniteSet(InOfile(f)) /\ IsFiniteSet(InClosing(f))
         /\ IsFiniteSet(Setups(f)) /\ IsFiniteSet(Writes(f)) /\ IsFiniteSet(Dups(f))
<1>1. /\ InOfile(f) \subseteq FileProcs \X Fds /\ InClosing(f) \subseteq FileProcs \X (1..2)
      /\ Setups(f) \subseteq FileProcs /\ Writes(f) \subseteq FileProcs /\ Dups(f) \subseteq FileProcs
  BY DEF InOfile, InClosing, Setups, Writes, Dups
<1> QED BY <1>1, FiniteParts, CountType DEF Count

LEMMA CountsAreNatNext ==
  ASSUME NEW f
  PROVE  /\ Count(InOfile(f))' \in Nat /\ Count(InClosing(f))' \in Nat
         /\ Count(Setups(f))' \in Nat /\ Count(Writes(f))' \in Nat /\ Count(Dups(f))' \in Nat
<1>1. /\ InOfile(f)' \subseteq FileProcs \X Fds /\ InClosing(f)' \subseteq FileProcs \X (1..2)
      /\ Setups(f)' \subseteq FileProcs /\ Writes(f)' \subseteq FileProcs /\ Dups(f)' \subseteq FileProcs
  BY DEF InOfile, InClosing, Setups, Writes, Dups
<1> QED BY <1>1, FiniteParts, CountType DEF Count

\* One descriptor changes.
LEMMA OfileMoves ==
  ASSUME NEW p \in FileProcs, NEW fd \in Fds, NEW f,
         \A q \in FileProcs, b \in Fds : q # p \/ b # fd => ofile'[q][b] = ofile[q][b]
  PROVE  Count(InOfile(f))' = Count(InOfile(f)) + One(ofile'[p][fd] = f) - One(ofile[p][fd] = f)
<1> DEFINE A == InOfile(f)
           C == InOfile(f)'
           x == <<p, fd>>
<1>1. A \subseteq FileProcs \X Fds /\ C \subseteq FileProcs \X Fds
  BY DEF InOfile
<1>2. \A y \in FileProcs \X Fds : y # x => (y \in A <=> y \in C)
  BY DEF InOfile
<1>3. (x \in A <=> ofile[p][fd] = f) /\ (x \in C <=> ofile'[p][fd] = f)
  BY DEF InOfile
<1> HIDE DEF A, C, x
<1>4. Cardinality(C) = Cardinality(A) + One(x \in C) - One(x \in A)
  BY <1>1, <1>2, FiniteParts, OneMoves
<1> QED BY <1>3, <1>4 DEF A, C, Count, One

\* Two descriptors of a process change.
LEMMA OfileMoveTwo ==
  ASSUME NEW p \in FileProcs, NEW fd \in Fds, NEW h \in Fds, fd # h, NEW f,
         \A q \in FileProcs, b \in Fds : q # p \/ (b # fd /\ b # h) => ofile'[q][b] = ofile[q][b]
  PROVE  Count(InOfile(f))' = Count(InOfile(f)) + One(ofile'[p][fd] = f) - One(ofile[p][fd] = f)
                                                + One(ofile'[p][h] = f) - One(ofile[p][h] = f)
<1> DEFINE A == InOfile(f)
           C == InOfile(f)'
           x == <<p, fd>>
           y == <<p, h>>
<1>1. A \subseteq FileProcs \X Fds /\ C \subseteq FileProcs \X Fds /\ x # y
  BY DEF InOfile
<1>2. \A z \in FileProcs \X Fds : z # x /\ z # y => (z \in A <=> z \in C)
  BY DEF InOfile
<1>3. /\ x \in A <=> ofile[p][fd] = f
      /\ y \in A <=> ofile[p][h] = f
      /\ x \in C <=> ofile'[p][fd] = f
      /\ y \in C <=> ofile'[p][h] = f
  BY DEF InOfile
<1> DEFINE T == FileProcs \X Fds
<1> HIDE DEF A, C, x, y, T
<1>4. Cardinality(C) = Cardinality(A) + One(x \in C) - One(x \in A)
                                      + One(y \in C) - One(y \in A)
  <2>1. /\ IsFiniteSet(T) /\ A \subseteq T /\ C \subseteq T
        /\ A \ {x, y} = C \ {x, y}
    BY <1>1, <1>2, FiniteParts DEF T
  <2> QED BY <1>1, <2>1, TwoMove DEF One
<1> QED BY <1>3, <1>4 DEF A, C, Count, One

\* The locals of one process change.
OnlyLocalsOf(p) ==
  \A q \in FileProcs \ {p} : /\ rf'[q] = rf[q] /\ wf'[q] = wf[q] /\ closing'[q] = closing[q]
                             /\ fpc'[q] = "dup" <=> fpc[q] = "dup"

LEMMA LocalsMove ==
  ASSUME FlTypeOK, FlTypeOK', NEW p \in FileProcs, OnlyLocalsOf(p), NEW f
  PROVE  Loc(f)' = Loc(f) + Hold(p, f)' - Hold(p, f)
<1>1. Count(Setups(f))' = Count(Setups(f)) + One(~At(p, "dup")' /\ rf'[p] = f)
                                           - One(~At(p, "dup") /\ rf[p] = f)
  <2> DEFINE A == Setups(f)
             C == Setups(f)'
  <2>1. /\ A \subseteq FileProcs /\ C \subseteq FileProcs
        /\ \A q \in FileProcs : q # p => (q \in A <=> q \in C)
        /\ p \in A <=> (~At(p, "dup") /\ rf[p] = f)
        /\ p \in C <=> (~At(p, "dup")' /\ rf'[p] = f)
    BY DEF Setups, OnlyLocalsOf, At
  <2> HIDE DEF A, C
  <2>2. Cardinality(C) = Cardinality(A) + One(p \in C) - One(p \in A)
    BY <2>1, FiniteParts, OneMoves
  <2> QED BY <2>1, <2>2 DEF A, C, Count, One
<1>2. Count(Dups(f))' = Count(Dups(f)) + One(At(p, "dup")' /\ rf'[p] = f)
                                       - One(At(p, "dup") /\ rf[p] = f)
  <2> DEFINE A == Dups(f)
             C == Dups(f)'
  <2>1. /\ A \subseteq FileProcs /\ C \subseteq FileProcs
        /\ \A q \in FileProcs : q # p => (q \in A <=> q \in C)
        /\ p \in A <=> (At(p, "dup") /\ rf[p] = f)
        /\ p \in C <=> (At(p, "dup")' /\ rf'[p] = f)
    BY DEF Dups, OnlyLocalsOf, At
  <2> HIDE DEF A, C
  <2>2. Cardinality(C) = Cardinality(A) + One(p \in C) - One(p \in A)
    BY <2>1, FiniteParts, OneMoves
  <2> QED BY <2>1, <2>2 DEF A, C, Count, One
<1>3. Count(Writes(f))' = Count(Writes(f)) + One(wf'[p] = f) - One(wf[p] = f)
  <2> DEFINE A == Writes(f)
             C == Writes(f)'
  <2>1. /\ A \subseteq FileProcs /\ C \subseteq FileProcs
        /\ \A q \in FileProcs : q # p => (q \in A <=> q \in C)
        /\ p \in A <=> wf[p] = f
        /\ p \in C <=> wf'[p] = f
    BY DEF Writes, OnlyLocalsOf
  <2> HIDE DEF A, C
  <2>2. Cardinality(C) = Cardinality(A) + One(p \in C) - One(p \in A)
    BY <2>1, FiniteParts, OneMoves
  <2> QED BY <2>1, <2>2 DEF A, C, Count, One
<1>4. Count(InClosing(f))' = Count(InClosing(f))
        + One(1 <= Len(closing'[p]) /\ closing'[p][1] = f)
        - One(1 <= Len(closing[p]) /\ closing[p][1] = f)
        + One(2 <= Len(closing'[p]) /\ closing'[p][2] = f)
        - One(2 <= Len(closing[p]) /\ closing[p][2] = f)
  <2> DEFINE A == InClosing(f)
             C == InClosing(f)'
             x == <<p, 1>>
             y == <<p, 2>>
  <2>1. A \subseteq FileProcs \X (1..2) /\ C \subseteq FileProcs \X (1..2) /\ x # y
    BY DEF InClosing
  <2>2. \A z \in FileProcs \X (1..2) : z # x /\ z # y => (z \in A <=> z \in C)
    BY DEF InClosing, OnlyLocalsOf
  <2>3. /\ x \in A <=> (1 <= Len(closing[p]) /\ closing[p][1] = f)
        /\ y \in A <=> (2 <= Len(closing[p]) /\ closing[p][2] = f)
        /\ x \in C <=> (1 <= Len(closing'[p]) /\ closing'[p][1] = f)
        /\ y \in C <=> (2 <= Len(closing'[p]) /\ closing'[p][2] = f)
    BY DEF InClosing
  <2> DEFINE T == FileProcs \X (1..2)
  <2> HIDE DEF A, C, x, y, T
  <2>4. Cardinality(C) = Cardinality(A) + One(x \in C) - One(x \in A)
                                        + One(y \in C) - One(y \in A)
    <3>1. /\ IsFiniteSet(T) /\ A \subseteq T /\ C \subseteq T
          /\ A \ {x, y} = C \ {x, y}
      BY <2>1, <2>2, FiniteParts DEF T
    <3> QED BY <2>1, <3>1, TwoMove DEF One
  <2> QED BY <2>3, <2>4 DEF A, C, Count, One
<1>5. /\ Count(InClosing(f)) \in Nat /\ Count(Setups(f)) \in Nat
      /\ Count(Writes(f)) \in Nat /\ Count(Dups(f)) \in Nat
  BY CountsAreNat
<1> DEFINE s0 == One(~At(p, "dup") /\ rf[p] = f)
           s1 == One(~At(p, "dup")' /\ rf'[p] = f)
           d0 == One(At(p, "dup") /\ rf[p] = f)
           d1 == One(At(p, "dup")' /\ rf'[p] = f)
           w0 == One(wf[p] = f)
           w1 == One(wf'[p] = f)
           a0 == One(1 <= Len(closing[p]) /\ closing[p][1] = f)
           a1 == One(1 <= Len(closing'[p]) /\ closing'[p][1] = f)
           b0 == One(2 <= Len(closing[p]) /\ closing[p][2] = f)
           b1 == One(2 <= Len(closing'[p]) /\ closing'[p][2] = f)
<1>6. s0 \in Int /\ s1 \in Int /\ d0 \in Int /\ d1 \in Int /\ w0 \in Int /\ w1 \in Int
      /\ a0 \in Int /\ a1 \in Int /\ b0 \in Int /\ b1 \in Int
  BY DEF One
<1>7. Hold(p, f) = s0 - d0 + w0 + a0 + b0 /\ Hold(p, f)' = s1 - d1 + w1 + a1 + b1
  BY DEF Hold
<1> HIDE DEF s0, s1, d0, d1, w0, w1, a0, a1, b0, b1
<1>8. Count(Setups(f))' = Count(Setups(f)) + s1 - s0
  BY <1>1 DEF s0, s1
<1>9. Count(Dups(f))' = Count(Dups(f)) + d1 - d0
  BY <1>2 DEF d0, d1
<1>10. Count(Writes(f))' = Count(Writes(f)) + w1 - w0
  BY <1>3 DEF w0, w1
<1>11. Count(InClosing(f))' = Count(InClosing(f)) + a1 - a0 + b1 - b0
  BY <1>4 DEF a0, a1, b0, b1
<1> QED BY <1>5, <1>6, <1>7, <1>8, <1>9, <1>10, <1>11 DEF Loc

\* f->ref, with the references split.
LEMMA RefsSplit ==
  FlTypeOK => (RefsCounted <=> \A f \in Files : ref[f] = Count(InOfile(f)) + Loc(f))
<1> SUFFICES ASSUME FlTypeOK, NEW f \in Files
             PROVE  (ref[f] + Count(Dups(f)) = Count(InOfile(f)) + Count(InClosing(f))
                       + Count(Setups(f)) + Count(Writes(f)))
                    <=> ref[f] = Count(InOfile(f)) + Loc(f)
  BY DEF RefsCounted, Dups, Setups, Writes
<1>1. /\ Count(InOfile(f)) \in Nat /\ Count(InClosing(f)) \in Nat
      /\ Count(Setups(f)) \in Nat /\ Count(Writes(f)) \in Nat /\ Count(Dups(f)) \in Nat
  BY CountsAreNat
<1>2. ref[f] \in Nat
  BY DEF FlTypeOK
<1> QED BY <1>1, <1>2 DEF Loc

LEMMA RefsSplitNext ==
  FlTypeOK' => (RefsCounted' <=> \A f \in Files : ref'[f] = Count(InOfile(f))' + Loc(f)')
<1> SUFFICES ASSUME FlTypeOK', NEW f \in Files
             PROVE  (ref[f] + Count(Dups(f)) = Count(InOfile(f)) + Count(InClosing(f))
                       + Count(Setups(f)) + Count(Writes(f)))'
                    <=> ref'[f] = Count(InOfile(f))' + Loc(f)'
  BY DEF RefsCounted, Dups, Setups, Writes
<1>1. /\ Count(InOfile(f))' \in Nat /\ Count(InClosing(f))' \in Nat
      /\ Count(Setups(f))' \in Nat /\ Count(Writes(f))' \in Nat /\ Count(Dups(f))' \in Nat
  BY CountsAreNatNext
<1>2. ref'[f] \in Nat
  BY DEF FlTypeOK
<1> QED BY <1>1, <1>2 DEF Loc

\* A step of p keeps the count if f->ref changes as what p holds and as the
\* descriptors do.
LEMMA NetStep ==
  ASSUME FlTypeOK, FlTypeOK', RefsCounted, NEW p \in FileProcs, OnlyLocalsOf(p),
         \A f \in Files : ref'[f] = ref[f] + (Count(InOfile(f))' - Count(InOfile(f)))
                                           + (Hold(p, f)' - Hold(p, f))
  PROVE  RefsCounted'
<1> SUFFICES ASSUME NEW f \in Files PROVE ref'[f] = Count(InOfile(f))' + Loc(f)'
  BY RefsSplitNext
<1>1. ref[f] = Count(InOfile(f)) + Loc(f)
  BY RefsSplit
<1>2. Loc(f)' = Loc(f) + Hold(p, f)' - Hold(p, f)
  BY LocalsMove
<1>3. Loc(f) \in Int /\ Count(InOfile(f)) \in Int /\ Count(InOfile(f))' \in Int
  BY CountsAreNat, CountsAreNatNext DEF Loc
<1>4. Hold(p, f) \in Int /\ Hold(p, f)' \in Int
  BY DEF Hold, One
<1>5. ref'[f] = ref[f] + (Count(InOfile(f))' - Count(InOfile(f))) + (Hold(p, f)' - Hold(p, f))
  OBVIOUS
<1> QED BY <1>1, <1>2, <1>3, <1>4, <1>5

-----------------------------------------------------------------------------
(* What f->ref says about who refers to f.                                   *)

\* Every dup() under way has one descriptor more than f->ref counts, and another
\* that it does count.
LEMMA DupSlack ==
  ASSUME FlTypeOK, DupInv, NEW f \in Files
  PROVE  /\ Count(Dups(f)) <= Count(InOfile(f))
         /\ InOfile(f) # {} => Count(Dups(f)) < Count(InOfile(f))
<1> DEFINE nw == [p \in Dups(f) |-> CHOOSE b \in Fds : ofile[p][b] = f]
           M == {r \in InOfile(f) : r[1] \in Dups(f) /\ r[2] = nw[r[1]]}
           h == [p \in Dups(f) |-> <<p, nw[p]>>]
<1>1. \A p \in Dups(f) : /\ p \in FileProcs /\ nw[p] \in Fds /\ ofile[p][nw[p]] = f
                         /\ \E a \in Fds : a # nw[p] /\ ofile[p][a] = f
  <2> SUFFICES ASSUME NEW p \in Dups(f)
               PROVE  /\ p \in FileProcs /\ nw[p] \in Fds /\ ofile[p][nw[p]] = f
                      /\ \E a \in Fds : a # nw[p] /\ ofile[p][a] = f
    OBVIOUS
  <2>1. p \in FileProcs /\ \E a, b \in Fds : a # b /\ ofile[p][a] = f /\ ofile[p][b] = f
    BY DEF Dups, DupInv
  <2>2. nw[p] = CHOOSE b \in Fds : ofile[p][b] = f
    OBVIOUS
  <2> QED BY <2>1, <2>2
<1>2. \A p \in Dups(f) : h[p] = <<p, nw[p]>>
  OBVIOUS
<1>3. M \subseteq InOfile(f)
  OBVIOUS
<1>4. \A r \in FileProcs \X Fds : r \in M <=> r[1] \in Dups(f) /\ r[2] = nw[r[1]] /\ r \in InOfile(f)
  BY DEF InOfile
<1>5. \A p \in FileProcs, fd \in Fds : <<p, fd>> \in InOfile(f) <=> ofile[p][fd] = f
  BY DEF InOfile
<1>6. h \in [Dups(f) -> M]
  <2>1. \A p \in Dups(f) : h[p] \in M
    BY <1>1, <1>2, <1>4, <1>5
  <2> QED BY <2>1
<1> HIDE DEF nw, M, h
<1>7. h \in Injection(Dups(f), M)
  BY <1>2, <1>6 DEF Injection, IsInjective
<1>8. IsFiniteSet(M) /\ IsFiniteSet(InOfile(f)) /\ IsFiniteSet(Dups(f))
  BY <1>3, CountsAreNat, FS_Subset
<1>9. Cardinality(Dups(f)) <= Cardinality(M)
  BY <1>7, <1>8, FS_Injection
<1>10. Cardinality(InOfile(f) \ M) = Cardinality(InOfile(f)) - Cardinality(M)
       /\ IsFiniteSet(InOfile(f) \ M)
  <2>1. InOfile(f) \cap M = M
    BY <1>3
  <2> QED BY <1>8, <2>1, FS_Difference
<1>11. InOfile(f) # {} => InOfile(f) \ M # {}
  <2> SUFFICES ASSUME NEW r \in InOfile(f), r \in M PROVE InOfile(f) \ M # {}
    OBVIOUS
  <2>1. r \in FileProcs \X Fds
    BY DEF InOfile
  <2>2. r[1] \in Dups(f)
    BY <1>4, <2>1
  <2>3. PICK a \in Fds : a # nw[r[1]] /\ ofile[r[1]][a] = f
    BY <1>1, <2>2
  <2>4. r[1] \in FileProcs /\ <<r[1], a>> \in InOfile(f)
    BY <1>5, <2>1, <2>3
  <2>5. <<r[1], a>> \notin M
    BY <1>4, <2>3, <2>4
  <2> QED BY <2>4, <2>5
<1>12. /\ Cardinality(InOfile(f) \ M) \in Nat /\ Cardinality(M) \in Nat
       /\ Cardinality(InOfile(f)) \in Nat /\ Cardinality(Dups(f)) \in Nat
       /\ InOfile(f) # {} => Cardinality(InOfile(f) \ M) # 0
  BY <1>8, <1>10, <1>11, FS_CardinalityType, FS_EmptySet
<1> QED BY <1>9, <1>10, <1>12 DEF Count

\* f->ref bounds every kind of reference.
LEMMA RefBounds ==
  ASSUME FlTypeOK, DupInv, RefsCounted, NEW f \in Files
  PROVE  \E x \in Nat :
           /\ ref[f] = x + Count(InClosing(f)) + Count(Setups(f)) + Count(Writes(f))
           /\ x = 0 => InOfile(f) = {} /\ Dups(f) = {}
<1>1. /\ Count(InOfile(f)) \in Nat /\ Count(InClosing(f)) \in Nat
      /\ Count(Setups(f)) \in Nat /\ Count(Writes(f)) \in Nat /\ Count(Dups(f)) \in Nat
      /\ IsFiniteSet(InOfile(f)) /\ IsFiniteSet(Dups(f))
  BY CountsAreNat
<1>2. ref[f] = Count(InOfile(f)) + Loc(f)
  BY RefsSplit
<1>3. /\ Count(Dups(f)) <= Count(InOfile(f))
      /\ InOfile(f) # {} => Count(Dups(f)) < Count(InOfile(f))
  BY DupSlack
<1>4. /\ Count(Dups(f)) = 0 <=> Dups(f) = {}
      /\ Count(InOfile(f)) = 0 <=> InOfile(f) = {}
  BY <1>1, FS_EmptySet DEF Count
<1> DEFINE x == Count(InOfile(f)) - Count(Dups(f))
<1>5. x \in Nat /\ ref[f] = x + Count(InClosing(f)) + Count(Setups(f)) + Count(Writes(f))
  BY <1>1, <1>2, <1>3 DEF Loc
<1>6. x = 0 => InOfile(f) = {} /\ Dups(f) = {}
  BY <1>1, <1>3, <1>4
<1> QED BY <1>5, <1>6

\* Nobody refers to a free entry.
LEMMA FreeUnreferenced ==
  ASSUME FlTypeOK, DupInv, RefsCounted, NEW f \in Files, ref[f] = 0
  PROVE  \A p \in FileProcs : /\ rf[p] # f /\ wf[p] # f
                              /\ \A fd \in Fds : ofile[p][fd] # f
                              /\ closing[p] # <<>> => closing[p][1] # f
<1>1. /\ Count(InClosing(f)) \in Nat /\ Count(Setups(f)) \in Nat /\ Count(Writes(f)) \in Nat
      /\ IsFiniteSet(InClosing(f)) /\ IsFiniteSet(Setups(f)) /\ IsFiniteSet(Writes(f))
  BY CountsAreNat
<1>2. PICK x \in Nat :
        /\ ref[f] = x + Count(InClosing(f)) + Count(Setups(f)) + Count(Writes(f))
        /\ x = 0 => InOfile(f) = {} /\ Dups(f) = {}
  BY RefBounds
<1>3. /\ InOfile(f) = {} /\ Dups(f) = {}
      /\ Count(InClosing(f)) = 0 /\ Count(Setups(f)) = 0 /\ Count(Writes(f)) = 0
  BY <1>1, <1>2
<1>4. InClosing(f) = {} /\ Setups(f) = {} /\ Writes(f) = {}
  BY <1>1, <1>3, FS_EmptySet DEF Count
<1> SUFFICES ASSUME NEW p \in FileProcs
             PROVE  /\ rf[p] # f /\ wf[p] # f /\ \A fd \in Fds : ofile[p][fd] # f
                    /\ closing[p] # <<>> => closing[p][1] # f
  OBVIOUS
<1>5. rf[p] # f
  BY <1>3, <1>4 DEF Dups, Setups
<1>6. wf[p] # f
  BY <1>4 DEF Writes
<1>7. \A fd \in Fds : ofile[p][fd] # f
  <2> SUFFICES ASSUME NEW fd \in Fds, ofile[p][fd] = f PROVE FALSE
    OBVIOUS
  <2>1. <<p, fd>> \in InOfile(f)
    BY DEF InOfile
  <2> QED BY <1>3, <2>1
<1>8. closing[p] # <<>> => closing[p][1] # f
  <2> SUFFICES ASSUME closing[p] # <<>>, closing[p][1] = f PROVE FALSE
    OBVIOUS
  <2>1. Len(closing[p]) >= 1
    BY EmptySeq DEF FlTypeOK
  <2>2. <<p, 1>> \in InClosing(f)
    BY <2>1 DEF InClosing
  <2> QED BY <1>4, <2>2
<1> QED BY <1>5, <1>6, <1>7, <1>8

\* The one reference is a local's: no descriptor refers to f, and no other local
\* of that kind.
LEMMA OneRef ==
  ASSUME FlTypeOK, DupInv, RefsCounted, NEW f \in Files, ref[f] = 1,
         NEW p \in FileProcs
  PROVE  /\ fpc[p] # "dup" /\ rf[p] = f =>
              /\ \A q \in FileProcs : wf[q] # f /\ (rf[q] = f => q = p)
              /\ \A q \in FileProcs, fd \in Fds : ofile[q][fd] # f
              /\ \A q \in FileProcs : closing[q] # <<>> => closing[q][1] # f
         /\ wf[p] = f =>
              /\ \A q \in FileProcs : rf[q] # f /\ (wf[q] = f => q = p)
              /\ \A q \in FileProcs, fd \in Fds : ofile[q][fd] # f
              /\ \A q \in FileProcs : closing[q] # <<>> => closing[q][1] # f
         /\ closing[p] # <<>> /\ closing[p][1] = f =>
              /\ \A q \in FileProcs : rf[q] # f /\ wf[q] # f
              /\ \A q \in FileProcs, fd \in Fds : ofile[q][fd] # f
<1>1. /\ Count(InClosing(f)) \in Nat /\ Count(Setups(f)) \in Nat /\ Count(Writes(f)) \in Nat
      /\ IsFiniteSet(InClosing(f)) /\ IsFiniteSet(Setups(f)) /\ IsFiniteSet(Writes(f))
  BY CountsAreNat
<1>2. PICK x \in Nat :
        /\ ref[f] = x + Count(InClosing(f)) + Count(Setups(f)) + Count(Writes(f))
        /\ x = 0 => InOfile(f) = {} /\ Dups(f) = {}
  BY RefBounds
<1>3. /\ Count(InClosing(f)) = 0 <=> InClosing(f) = {}
      /\ Count(Setups(f)) = 0 <=> Setups(f) = {}
      /\ Count(Writes(f)) = 0 <=> Writes(f) = {}
  BY <1>1, FS_EmptySet DEF Count
<1>4. \A q \in FileProcs : /\ q \in Setups(f) <=> fpc[q] # "dup" /\ rf[q] = f
                           /\ q \in Dups(f) <=> fpc[q] = "dup" /\ rf[q] = f
                           /\ q \in Writes(f) <=> wf[q] = f
                           /\ closing[q] # <<>> /\ closing[q][1] = f => <<q, 1>> \in InClosing(f)
  <2>1. \A q \in FileProcs : closing[q] # <<>> => Len(closing[q]) >= 1
    BY EmptySeq DEF FlTypeOK
  <2> QED BY <2>1 DEF Setups, Dups, Writes, InClosing, At
<1>5. \A q \in FileProcs, fd \in Fds : ofile[q][fd] = f => <<q, fd>> \in InOfile(f)
  BY DEF InOfile
<1>6. ASSUME fpc[p] # "dup" /\ rf[p] = f
      PROVE  /\ \A q \in FileProcs : wf[q] # f /\ (rf[q] = f => q = p)
             /\ \A q \in FileProcs, fd \in Fds : ofile[q][fd] # f
             /\ \A q \in FileProcs : closing[q] # <<>> => closing[q][1] # f
  <2>1. p \in Setups(f) /\ Count(Setups(f)) >= 1 /\ (Count(Setups(f)) = 1 => \A q \in Setups(f) : q = p)
    BY <1>1, <1>4, <1>6, CountOne DEF Count
  <2>2. x = 0 /\ Count(InClosing(f)) = 0 /\ Count(Writes(f)) = 0 /\ Count(Setups(f)) = 1
    BY <1>1, <1>2, <2>1
  <2> QED BY <1>2, <1>3, <1>4, <1>5, <2>1, <2>2
<1>7. ASSUME wf[p] = f
      PROVE  /\ \A q \in FileProcs : rf[q] # f /\ (wf[q] = f => q = p)
             /\ \A q \in FileProcs, fd \in Fds : ofile[q][fd] # f
             /\ \A q \in FileProcs : closing[q] # <<>> => closing[q][1] # f
  <2>1. p \in Writes(f) /\ Count(Writes(f)) >= 1 /\ (Count(Writes(f)) = 1 => \A q \in Writes(f) : q = p)
    BY <1>1, <1>4, <1>7, CountOne DEF Count
  <2>2. x = 0 /\ Count(InClosing(f)) = 0 /\ Count(Setups(f)) = 0 /\ Count(Writes(f)) = 1
    BY <1>1, <1>2, <2>1
  <2> QED BY <1>2, <1>3, <1>4, <1>5, <2>1, <2>2
<1>8. ASSUME closing[p] # <<>> /\ closing[p][1] = f
      PROVE  /\ \A q \in FileProcs : rf[q] # f /\ wf[q] # f
             /\ \A q \in FileProcs, fd \in Fds : ofile[q][fd] # f
  <2>1. <<p, 1>> \in InClosing(f) /\ Count(InClosing(f)) # 0
    BY <1>3, <1>4, <1>8
  <2>2. x = 0 /\ Count(Setups(f)) = 0 /\ Count(Writes(f)) = 0
    BY <1>1, <1>2, <2>1
  <2> QED BY <1>2, <1>3, <1>4, <1>5, <2>2
<1> QED BY <1>6, <1>7, <1>8

\* A file that something refers to is not free.
LEMMA ReferredPositive ==
  ASSUME FlTypeOK, DupInv, RefsCounted, NEW f \in Files, NEW p \in FileProcs,
         \/ \E fd \in Fds : ofile[p][fd] = f
         \/ rf[p] = f
         \/ wf[p] = f
         \/ closing[p] # <<>> /\ closing[p][1] = f
  PROVE  ref[f] > 0
<1>1. ref[f] \in Nat
  BY DEF FlTypeOK
<1> QED BY <1>1, FreeUnreferenced

-----------------------------------------------------------------------------
(* What the files stand for.                                                 *)

LEMMA ObjectFacts ==
  /\ NoObject \in Objects /\ Inode \in Objects /\ NoObject # Inode
  /\ \A g \in Pages, e \in {"r", "w"} :
       PipeEnd(g, e) \in Objects /\ PipeEnd(g, e) # NoObject /\ PipeEnd(g, e) # Inode
  /\ \A g, h \in Pages, e, d \in {"r", "w"} : PipeEnd(g, e) = PipeEnd(h, d) => g = h /\ e = d
  /\ \A o \in Objects : /\ o.type = "none" <=> o = NoObject
                        /\ o.type = "inode" <=> o = Inode
                        /\ o.type = "pipe" => /\ o.page \in Pages /\ o.end \in {"r", "w"}
                                              /\ o = PipeEnd(o.page, o.end)
                        /\ o.type \in {"none", "inode", "pipe"}
<1>1. NoObject \in Objects /\ Inode \in Objects /\ NoObject # Inode
  BY DEF NoObject, Inode, Objects
<1>2. \A g \in Pages, e \in {"r", "w"} :
        PipeEnd(g, e) \in Objects /\ PipeEnd(g, e) # NoObject /\ PipeEnd(g, e) # Inode
  <2> SUFFICES ASSUME NEW g \in Pages, NEW e \in {"r", "w"}
               PROVE  PipeEnd(g, e) \in Objects /\ PipeEnd(g, e) # NoObject /\ PipeEnd(g, e) # Inode
    OBVIOUS
  <2>1. PipeEnd(g, e) \in Objects
    BY DEF Objects
  <2>2. PipeEnd(g, e).type = "pipe" /\ NoObject.type = "none" /\ Inode.type = "inode"
    BY DEF PipeEnd, NoObject, Inode
  <2> QED BY <2>1, <2>2
<1>3. \A g, h \in Pages, e, d \in {"r", "w"} : PipeEnd(g, e) = PipeEnd(h, d) => g = h /\ e = d
  <2> SUFFICES ASSUME NEW g \in Pages, NEW h \in Pages, NEW e \in {"r", "w"}, NEW d \in {"r", "w"},
                      PipeEnd(g, e) = PipeEnd(h, d)
               PROVE  g = h /\ e = d
    OBVIOUS
  <2>1. PipeEnd(g, e).page = g /\ PipeEnd(g, e).end = e /\ PipeEnd(h, d).page = h /\ PipeEnd(h, d).end = d
    BY DEF PipeEnd
  <2> QED BY <2>1
<1>4. ASSUME NEW o \in Objects
      PROVE  /\ o.type = "none" <=> o = NoObject
             /\ o.type = "inode" <=> o = Inode
             /\ o.type = "pipe" => /\ o.page \in Pages /\ o.end \in {"r", "w"}
                                   /\ o = PipeEnd(o.page, o.end)
             /\ o.type \in {"none", "inode", "pipe"}
  <2>1. NoObject.type = "none" /\ Inode.type = "inode"
    BY DEF NoObject, Inode
  <2>2. CASE o = NoObject \/ o = Inode
    BY <2>1, <2>2
  <2>3. CASE \E g \in Pages, e \in {"r", "w"} : o = PipeEnd(g, e)
    <3>1. PICK g \in Pages, e \in {"r", "w"} : o = PipeEnd(g, e)
      BY <2>3
    <3>2. o.type = "pipe" /\ o.page = g /\ o.end = e
      BY <3>1 DEF PipeEnd
    <3> QED BY <2>1, <3>1, <3>2
  <2> QED BY <2>2, <2>3 DEF Objects
<1> QED BY <1>1, <1>2, <1>3, <1>4

\* The number that stands for an object changes as one file and one call do.
LEMMA StandingMoves ==
  ASSUME NEW o, NEW f \in Files, NEW p \in FileProcs,
         \A g \in Files : g # f => (ref'[g] > 0 /\ obj'[g] = o <=> ref[g] > 0 /\ obj[g] = o),
         \A q \in FileProcs : q # p => (ff'[q] = o <=> ff[q] = o)
  PROVE  /\ Standing(o) \in Nat /\ Standing(o)' \in Nat
         /\ Standing(o)' = Standing(o)
              + One(ref'[f] > 0 /\ obj'[f] = o) - One(ref[f] > 0 /\ obj[f] = o)
              + One(ff'[p] = o) - One(ff[p] = o)
<1> DEFINE A == {g \in Files : ref[g] > 0 /\ obj[g] = o}
           C == {g \in Files : ref'[g] > 0 /\ obj'[g] = o}
           D == {q \in FileProcs : ff[q] = o}
           E == {q \in FileProcs : ff'[q] = o}
<1>1. /\ A \subseteq Files /\ C \subseteq Files /\ D \subseteq FileProcs /\ E \subseteq FileProcs
      /\ \A y \in Files : y # f => (y \in A <=> y \in C)
      /\ \A y \in FileProcs : y # p => (y \in D <=> y \in E)
  OBVIOUS
<1>2. /\ f \in A <=> (ref[f] > 0 /\ obj[f] = o)
      /\ f \in C <=> (ref'[f] > 0 /\ obj'[f] = o)
      /\ p \in D <=> ff[p] = o
      /\ p \in E <=> ff'[p] = o
  OBVIOUS
<1>3. Standing(o) = Cardinality(A) + Cardinality(D) /\ Standing(o)' = Cardinality(C) + Cardinality(E)
  BY DEF Standing, Count
<1> HIDE DEF A, C, D, E
<1>4. /\ Cardinality(A) \in Nat /\ Cardinality(C) \in Nat
      /\ Cardinality(C) = Cardinality(A) + One(f \in C) - One(f \in A)
  BY <1>1, FiniteParts, OneMoves
<1>5. /\ Cardinality(D) \in Nat /\ Cardinality(E) \in Nat
      /\ Cardinality(E) = Cardinality(D) + One(p \in E) - One(p \in D)
  BY <1>1, FiniteParts, OneMoves
<1> QED BY <1>2, <1>3, <1>4, <1>5 DEF One

\* The files stand for what they stood for.
StandSame ==
  /\ \A f \in Files, o \in Objects \ {NoObject} :
       ref'[f] > 0 /\ obj'[f] = o <=> ref[f] > 0 /\ obj[f] = o
  /\ ff' = ff

LEMMA StandingSame ==
  ASSUME StandSame, NEW o \in Objects \ {NoObject}
  PROVE  Standing(o)' = Standing(o)
<1>1. {f \in Files : ref'[f] > 0 /\ obj'[f] = o} = {f \in Files : ref[f] > 0 /\ obj[f] = o}
  BY DEF StandSame
<1>2. {p \in FileProcs : ff'[p] = o} = {p \in FileProcs : ff[p] = o}
  BY DEF StandSame
<1> QED BY <1>1, <1>2 DEF Standing

\* Pipes and their pages are left alone.
LEMMA PipesKept ==
  ASSUME PipeEndsOwned, open' = open, pageused' = pageused,
         \A g \in Pages, e \in {"r", "w"} : Standing(PipeEnd(g, e))' = Standing(PipeEnd(g, e))
  PROVE  PipeEndsOwned'
BY DEF PipeEndsOwned

\* The calls of open() that hold a reference of their own.
Opens == {p \in FileProcs : fpc[p] \in {"open_file", "open_fd"}}

LEMMA QuietStep ==
  ASSUME PipeEndsOwned, InodeRefsOwned, StandSame, open' = open, pageused' = pageused, iref' = iref,
         \A p \in FileProcs : fpc'[p] \in {"open_file", "open_fd"} <=> fpc[p] \in {"open_file", "open_fd"}
  PROVE  PipeEndsOwned' /\ InodeRefsOwned'
<1>1. \A o \in Objects \ {NoObject} : Standing(o)' = Standing(o)
  BY StandingSame
<1>2. PipeEndsOwned'
  BY <1>1, ObjectFacts, PipesKept
<1>3. Opens' = Opens
  BY DEF Opens
<1>4. InodeRefsOwned'
  BY <1>1, <1>3, ObjectFacts DEF InodeRefsOwned, Opens
<1> QED BY <1>2, <1>4

\* One open() takes a reference of its own, or gives it up.
LEMMA OpensMove ==
  ASSUME NEW p \in FileProcs,
         \A q \in FileProcs : q # p => (fpc'[q] \in {"open_file", "open_fd"} <=> fpc[q] \in {"open_file", "open_fd"})
  PROVE  /\ Count(Opens) \in Nat /\ Count(Opens)' \in Nat
         /\ Count(Opens)' = Count(Opens) + One(fpc'[p] \in {"open_file", "open_fd"})
                                         - One(fpc[p] \in {"open_file", "open_fd"})
<1> DEFINE A == Opens
           C == Opens'
<1>1. /\ A \subseteq FileProcs /\ C \subseteq FileProcs
      /\ \A q \in FileProcs : q # p => (q \in A <=> q \in C)
      /\ p \in A <=> fpc[p] \in {"open_file", "open_fd"}
      /\ p \in C <=> fpc'[p] \in {"open_file", "open_fd"}
  BY DEF Opens
<1> HIDE DEF A, C
<1>2. /\ Cardinality(A) \in Nat /\ Cardinality(C) \in Nat
      /\ Cardinality(C) = Cardinality(A) + One(p \in C) - One(p \in A)
  BY <1>1, FiniteParts, OneMoves
<1> QED BY <1>1, <1>2 DEF A, C, Count, One

\* The number standing for an object is a number, and counts each that does.
LEMMA StandingCounts ==
  ASSUME NEW o
  PROVE  /\ Standing(o) \in Nat
         /\ \A p \in FileProcs : ff[p] = o => Standing(o) >= 1
         /\ \A f \in Files : ref[f] > 0 /\ obj[f] = o => Standing(o) >= 1
<1> DEFINE A == {g \in Files : ref[g] > 0 /\ obj[g] = o}
           D == {q \in FileProcs : ff[q] = o}
<1>1. A \subseteq Files /\ D \subseteq FileProcs
  OBVIOUS
<1>2. IsFiniteSet(A) /\ IsFiniteSet(D) /\ Cardinality(A) \in Nat /\ Cardinality(D) \in Nat
  BY <1>1, FiniteParts, CountType
<1>3. (A # {} => Cardinality(A) # 0) /\ (D # {} => Cardinality(D) # 0)
  BY <1>2, FS_EmptySet
<1>4. Standing(o) = Cardinality(A) + Cardinality(D)
  BY DEF Standing, Count
<1>5. (\A p \in FileProcs : ff[p] = o => D # {}) /\ (\A f \in Files : ref[f] > 0 /\ obj[f] = o => A # {})
  OBVIOUS
<1> HIDE DEF A, D
<1> QED BY <1>2, <1>3, <1>4, <1>5

-----------------------------------------------------------------------------
(* The steps.                                                                *)

LEMMA FileFacts ==
  /\ None \notin Files /\ None \notin Fds
  /\ Files \subseteq Nat /\ Fds \subseteq Nat
BY FileAssumption DEF None, Files, Fds

LEMMA StutterInv ==
  ASSUME IInv, UNCHANGED flVars PROVE IInv'
<1> USE DEF flVars, flocals
<1>1. FlTypeOK' /\ LocalsInv' /\ SetupInv' /\ DupInv' /\ ForkInv' /\ FreeInv' /\ FdsInv'
  BY DEF IInv, FlTypeOK, LocalsInv, SetupInv, DupInv, ForkInv, FreeInv, FdsInv, At
<1>2. RefsCounted'
  BY DEF IInv, RefsCounted, InOfile, InClosing, At
<1>3. PipeEndsOwned' /\ InodeRefsOwned'
  BY DEF IInv, PipeEndsOwned, InodeRefsOwned, Standing
<1> QED BY <1>1, <1>2, <1>3 DEF IInv

\* filealloc() gives f to a local of p.
LEMMA AllocStands ==
  ASSUME IInv, NEW f \in Files, ref[f] = 0, ref' = [ref EXCEPT ![f] = 1], obj' = obj, ff' = ff
  PROVE  StandSame /\ \A g \in Files : ref'[g] = ref[g] + One(f = g)
BY DEF IInv, FlTypeOK, FreeInv, StandSame, One

\* pipe() gets its first file.
LEMMA PipeCallStep ==
  ASSUME IInv, NEW p \in FileProcs, PipeCall(p) PROVE IInv'
<1>1. CASE NoneUnused
  BY <1>1, StutterInv DEF PipeCall, flVars, flocals
<1>2. CASE ~NoneUnused
  <2>1. PICK f \in Files : ref[f] = 0 /\ ref' = [ref EXCEPT ![f] = 1] /\ rf' = [rf EXCEPT ![p] = f]
    BY <1>2 DEF PipeCall, Unused
  <2>2. /\ fpc[p] = "user" /\ fpc' = [fpc EXCEPT ![p] = "pipe_w"]
        /\ UNCHANGED <<obj, ofile, pageused, open, iref, wf, closing, ff, child, fidx>>
    BY <1>2 DEF PipeCall, At, FlGoto
  <2>3. rf[p] = None /\ wf[p] = None /\ closing[p] = <<>> /\ ff[p] = NoObject
    BY <2>2 DEF IInv, LocalsInv, Setup
  <2>4. \A q \in FileProcs : rf[q] # f /\ wf[q] # f /\ \A fd \in Fds : ofile[q][fd] # f
    BY <2>1, FreeUnreferenced DEF IInv
  <2>5. FlTypeOK'
    BY <2>1, <2>2 DEF IInv, FlTypeOK, Pcs
  <2>6. LocalsInv'
    BY <2>1, <2>2, FileFacts DEF IInv, FlTypeOK, LocalsInv, Setup
  <2>7. SetupInv'
    BY <2>1, <2>2, <2>3, <2>4, FileFacts DEF IInv, FlTypeOK, SetupInv, Setup, FreeInv, LocalsInv
  <2>8. DupInv'
    BY <2>1, <2>2 DEF IInv, FlTypeOK, DupInv, At
  <2>9. ForkInv'
    BY <2>1, <2>2 DEF IInv, FlTypeOK, ForkInv
  <2>10. FreeInv' /\ FdsInv'
    BY <2>1, <2>2 DEF IInv, FlTypeOK, FreeInv, FdsInv
  <2>11. StandSame /\ \A g \in Files : ref'[g] = ref[g] + One(f = g)
    BY <2>1, <2>2, AllocStands
  <2>12. RefsCounted'
    <3>1. OnlyLocalsOf(p)
      BY <2>1, <2>2 DEF OnlyLocalsOf, IInv, FlTypeOK
    <3>2. \A g \in Files : Hold(p, g)' - Hold(p, g) = One(f = g)
      BY <2>1, <2>2, <2>3, FileFacts DEF Hold, One, At, IInv, FlTypeOK
    <3>3. \A g \in Files : Count(InOfile(g))' = Count(InOfile(g)) /\ Count(InOfile(g)) \in Nat
      BY <2>2, CountsAreNat DEF InOfile
    <3>4. \A g \in Files : ref[g] \in Nat /\ One(f = g) \in Int
      BY DEF IInv, FlTypeOK, One
    <3> QED BY <2>5, <2>11, <3>1, <3>2, <3>3, <3>4, NetStep DEF IInv
  <2>13. PipeEndsOwned' /\ InodeRefsOwned'
    BY <2>2, <2>11, QuietStep DEF IInv, FlTypeOK
  <2> QED BY <2>5, <2>6, <2>7, <2>8, <2>9, <2>10, <2>12, <2>13 DEF IInv
<1> QED BY <1>1, <1>2

\* The same, when no descriptor changes.
LEMMA NetStepLocal ==
  ASSUME FlTypeOK, FlTypeOK', RefsCounted, NEW p \in FileProcs, OnlyLocalsOf(p), ofile' = ofile,
         \A f \in Files : ref'[f] - ref[f] = Hold(p, f)' - Hold(p, f)
  PROVE  RefsCounted'
<1>1. \A f \in Files : Count(InOfile(f))' = Count(InOfile(f)) /\ Count(InOfile(f)) \in Nat
  BY CountsAreNat DEF InOfile
<1>2. \A f \in Files : ref[f] \in Int /\ ref'[f] \in Int
  BY DEF FlTypeOK
<1>3. \A f \in Files : Hold(p, f) \in Int /\ Hold(p, f)' \in Int
  BY DEF Hold, One
<1> QED BY <1>1, <1>2, <1>3, NetStep

\* pipe() gets its second file.
LEMMA PipeWriteFileStep ==
  ASSUME IInv, NEW p \in FileProcs, PipeWriteFile(p) PROVE IInv'
<1>1. PICK f \in Files : ref[f] = 0 /\ ref' = [ref EXCEPT ![f] = 1] /\ wf' = [wf EXCEPT ![p] = f]
  BY DEF PipeWriteFile, Unused
<1>2. /\ fpc[p] = "pipe_w" /\ fpc' = [fpc EXCEPT ![p] = "pipe_page"]
      /\ UNCHANGED <<obj, ofile, pageused, open, iref, rf, closing, ff, child, fidx>>
  BY DEF PipeWriteFile, At, FlGoto
<1>3. rf[p] # None /\ wf[p] = None /\ closing[p] = <<>> /\ ff[p] = NoObject
  BY <1>2 DEF IInv, LocalsInv, Setup
<1>4. \A q \in FileProcs : rf[q] # f /\ wf[q] # f /\ \A fd \in Fds : ofile[q][fd] # f
  BY <1>1, FreeUnreferenced DEF IInv
<1>5. StandSame /\ \A g \in Files : ref'[g] = ref[g] + One(f = g)
  BY <1>1, <1>2, AllocStands
<1>6. FlTypeOK'
  BY <1>1, <1>2, <1>3, <1>4, <1>5 DEF IInv, FlTypeOK, Pcs
<1>7. LocalsInv'
  BY <1>1, <1>2, <1>3, <1>4, <1>5, FileFacts DEF IInv, FlTypeOK, LocalsInv, Setup
<1>8. SetupInv'
  BY <1>1, <1>2, <1>3, <1>4, <1>5, FileFacts DEF IInv, FlTypeOK, SetupInv, Setup, FreeInv, LocalsInv
<1>9. DupInv'
  BY <1>1, <1>2, <1>3, <1>4, <1>5 DEF IInv, FlTypeOK, DupInv, At
<1>10. ForkInv'
  BY <1>1, <1>2, <1>3, <1>4, <1>5 DEF IInv, FlTypeOK, ForkInv
<1>11. FreeInv' /\ FdsInv'
  BY <1>1, <1>2, <1>3, <1>4, <1>5 DEF IInv, FlTypeOK, FreeInv, FdsInv
<1>12. RefsCounted'
  <2>1. OnlyLocalsOf(p)
    BY <1>1, <1>2, <1>3, <1>4, <1>5 DEF OnlyLocalsOf, IInv, FlTypeOK
  <2>2. \A g \in Files : Hold(p, g)' - Hold(p, g) = One(f = g)
    BY <1>1, <1>2, <1>3, <1>4, <1>5, FileFacts DEF Hold, One, At, IInv, FlTypeOK
  <2>3. \A g \in Files : ref[g] \in Int /\ One(f = g) \in Int
    BY DEF IInv, FlTypeOK, One
  <2> QED BY <1>1, <1>2, <1>3, <1>4, <1>5, <1>6, <2>1, <2>2, <2>3, NetStepLocal DEF IInv
<1>13. PipeEndsOwned' /\ InodeRefsOwned'
  BY <1>1, <1>2, <1>3, <1>4, <1>5, QuietStep DEF IInv, FlTypeOK
<1> QED BY <1>6, <1>7, <1>8, <1>9, <1>10, <1>11, <1>12, <1>13 DEF IInv

\* open() gets a file.
LEMMA OpenFileStep ==
  ASSUME IInv, NEW p \in FileProcs, OpenFile(p) PROVE IInv'
<1>1. PICK f \in Files : ref[f] = 0 /\ ref' = [ref EXCEPT ![f] = 1] /\ rf' = [rf EXCEPT ![p] = f]
  BY DEF OpenFile, Unused
<1>2. /\ fpc[p] = "open_file" /\ fpc' = [fpc EXCEPT ![p] = "open_fd"]
      /\ UNCHANGED <<obj, ofile, pageused, open, iref, wf, closing, ff, child, fidx>>
  BY DEF OpenFile, At, FlGoto
<1>3. rf[p] = None /\ wf[p] = None /\ closing[p] = <<>> /\ ff[p] = NoObject
  BY <1>2 DEF IInv, LocalsInv, Setup
<1>4. \A q \in FileProcs : rf[q] # f /\ wf[q] # f /\ \A fd \in Fds : ofile[q][fd] # f
  BY <1>1, FreeUnreferenced DEF IInv
<1>5. StandSame /\ \A g \in Files : ref'[g] = ref[g] + One(f = g)
  BY <1>1, <1>2, AllocStands
<1>6. FlTypeOK'
  BY <1>1, <1>2, <1>3, <1>4, <1>5 DEF IInv, FlTypeOK, Pcs
<1>7. LocalsInv'
  BY <1>1, <1>2, <1>3, <1>4, <1>5, FileFacts DEF IInv, FlTypeOK, LocalsInv, Setup
<1>8. SetupInv'
  BY <1>1, <1>2, <1>3, <1>4, <1>5, FileFacts DEF IInv, FlTypeOK, SetupInv, Setup, FreeInv, LocalsInv
<1>9. DupInv'
  BY <1>1, <1>2, <1>3, <1>4, <1>5 DEF IInv, FlTypeOK, DupInv, At
<1>10. ForkInv'
  BY <1>1, <1>2, <1>3, <1>4, <1>5 DEF IInv, FlTypeOK, ForkInv
<1>11. FreeInv' /\ FdsInv'
  BY <1>1, <1>2, <1>3, <1>4, <1>5 DEF IInv, FlTypeOK, FreeInv, FdsInv
<1>12. RefsCounted'
  <2>1. OnlyLocalsOf(p)
    BY <1>1, <1>2, <1>3, <1>4, <1>5 DEF OnlyLocalsOf, IInv, FlTypeOK
  <2>2. \A g \in Files : Hold(p, g)' - Hold(p, g) = One(f = g)
    BY <1>1, <1>2, <1>3, <1>4, <1>5, FileFacts DEF Hold, One, At, IInv, FlTypeOK
  <2>3. \A g \in Files : ref[g] \in Int /\ One(f = g) \in Int
    BY DEF IInv, FlTypeOK, One
  <2> QED BY <1>1, <1>2, <1>3, <1>4, <1>5, <1>6, <2>1, <2>2, <2>3, NetStepLocal DEF IInv
<1>13. PipeEndsOwned' /\ InodeRefsOwned'
  BY <1>1, <1>2, <1>3, <1>4, <1>5, QuietStep DEF IInv, FlTypeOK
<1> QED BY <1>6, <1>7, <1>8, <1>9, <1>10, <1>11, <1>12, <1>13 DEF IInv

\* pipe() gets no second file, and closes the first.
LEMMA PipeNoWriteFileStep ==
  ASSUME IInv, NEW p \in FileProcs, PipeNoWriteFile(p) PROVE IInv'
<1>1. /\ fpc[p] = "pipe_w" /\ fpc' = [fpc EXCEPT ![p] = "close"]
      /\ rf' = [rf EXCEPT ![p] = None] /\ wf' = [wf EXCEPT ![p] = None]
      /\ closing' = [closing EXCEPT ![p] = <<rf[p]>>]
      /\ UNCHANGED <<ref, obj, ofile, pageused, open, iref, ff, child, fidx>>
  BY DEF PipeNoWriteFile, StartClose, At, FlGoto
<1>2. rf[p] \in Files /\ wf[p] = None /\ closing[p] = <<>> /\ ff[p] = NoObject
  BY <1>1 DEF IInv, LocalsInv, Setup, FlTypeOK
<1>3. <<rf[p]>> \in Seq(Files) /\ Len(<<rf[p]>>) = 1 /\ <<rf[p]>>[1] = rf[p]
  BY <1>2
<1>4. FlTypeOK'
  BY <1>1, <1>2, <1>3 DEF IInv, FlTypeOK, Pcs
<1>5. LocalsInv'
  BY <1>1, <1>2, <1>3, FileFacts DEF IInv, FlTypeOK, LocalsInv, Setup
<1>6. SetupInv'
  BY <1>1, <1>2, <1>3, FileFacts DEF IInv, FlTypeOK, SetupInv, Setup, FreeInv, LocalsInv
<1>7. DupInv'
  BY <1>1, <1>2, <1>3 DEF IInv, FlTypeOK, DupInv, At
<1>8. ForkInv'
  BY <1>1, <1>2, <1>3 DEF IInv, FlTypeOK, ForkInv
<1>9. FreeInv' /\ FdsInv'
  BY <1>1, <1>2, <1>3 DEF IInv, FlTypeOK, FreeInv, FdsInv
<1>10. RefsCounted'
  <2>1. OnlyLocalsOf(p)
    BY <1>1, <1>2, <1>3 DEF OnlyLocalsOf, IInv, FlTypeOK
  <2>2. \A g \in Files : ref'[g] - ref[g] = Hold(p, g)' - Hold(p, g)
    BY <1>1, <1>2, <1>3, FileFacts DEF Hold, One, At, IInv, FlTypeOK
  <2> QED BY <1>1, <1>2, <1>3, <1>4, <2>1, <2>2, NetStepLocal DEF IInv
<1>11. PipeEndsOwned' /\ InodeRefsOwned'
  <2>1. StandSame
    BY <1>1, <1>2, <1>3 DEF StandSame
  <2> QED BY <1>1, <1>2, <1>3, <2>1, QuietStep DEF IInv, FlTypeOK
<1> QED BY <1>4, <1>5, <1>6, <1>7, <1>8, <1>9, <1>10, <1>11 DEF IInv

\* pipe() gets no page, and closes both files.
LEMMA PipeNoPageStep ==
  ASSUME IInv, NEW p \in FileProcs, PipeNoPage(p) PROVE IInv'
<1>1. /\ fpc[p] = "pipe_page" /\ fpc' = [fpc EXCEPT ![p] = "close"]
      /\ rf' = [rf EXCEPT ![p] = None] /\ wf' = [wf EXCEPT ![p] = None]
      /\ closing' = [closing EXCEPT ![p] = <<rf[p], wf[p]>>]
      /\ UNCHANGED <<ref, obj, ofile, pageused, open, iref, ff, child, fidx>>
  BY DEF PipeNoPage, StartClose, At, FlGoto
<1>2. rf[p] \in Files /\ wf[p] \in Files /\ closing[p] = <<>> /\ ff[p] = NoObject
  BY <1>1 DEF IInv, LocalsInv, Setup, FlTypeOK
<1>3. <<rf[p], wf[p]>> \in Seq(Files) /\ Len(<<rf[p], wf[p]>>) = 2 /\ <<rf[p], wf[p]>>[1] = rf[p] /\ <<rf[p], wf[p]>>[2] = wf[p]
  BY <1>2
<1>4. FlTypeOK'
  BY <1>1, <1>2, <1>3 DEF IInv, FlTypeOK, Pcs
<1>5. LocalsInv'
  BY <1>1, <1>2, <1>3, FileFacts DEF IInv, FlTypeOK, LocalsInv, Setup
<1>6. SetupInv'
  BY <1>1, <1>2, <1>3, FileFacts DEF IInv, FlTypeOK, SetupInv, Setup, FreeInv, LocalsInv
<1>7. DupInv'
  BY <1>1, <1>2, <1>3 DEF IInv, FlTypeOK, DupInv, At
<1>8. ForkInv'
  BY <1>1, <1>2, <1>3 DEF IInv, FlTypeOK, ForkInv
<1>9. FreeInv' /\ FdsInv'
  BY <1>1, <1>2, <1>3 DEF IInv, FlTypeOK, FreeInv, FdsInv
<1>10. RefsCounted'
  <2>1. OnlyLocalsOf(p)
    BY <1>1, <1>2, <1>3 DEF OnlyLocalsOf, IInv, FlTypeOK
  <2>2. \A g \in Files : ref'[g] - ref[g] = Hold(p, g)' - Hold(p, g)
    BY <1>1, <1>2, <1>3, FileFacts DEF Hold, One, At, IInv, FlTypeOK
  <2> QED BY <1>1, <1>2, <1>3, <1>4, <2>1, <2>2, NetStepLocal DEF IInv
<1>11. PipeEndsOwned' /\ InodeRefsOwned'
  <2>1. StandSame
    BY <1>1, <1>2, <1>3 DEF StandSame
  <2> QED BY <1>1, <1>2, <1>3, <2>1, QuietStep DEF IInv, FlTypeOK
<1> QED BY <1>4, <1>5, <1>6, <1>7, <1>8, <1>9, <1>10, <1>11 DEF IInv

\* pipe() has no descriptors, and closes both files.
LEMMA PipeFdsFailStep ==
  ASSUME IInv, NEW p \in FileProcs, PipeFdsFail(p) PROVE IInv'
<1>1. /\ fpc[p] = "pipe_fds" /\ fpc' = [fpc EXCEPT ![p] = "close"]
      /\ rf' = [rf EXCEPT ![p] = None] /\ wf' = [wf EXCEPT ![p] = None]
      /\ closing' = [closing EXCEPT ![p] = <<rf[p], wf[p]>>]
      /\ UNCHANGED <<ref, obj, ofile, pageused, open, iref, ff, child, fidx>>
  BY DEF PipeFdsFail, StartClose, At, FlGoto
<1>2. rf[p] \in Files /\ wf[p] \in Files /\ closing[p] = <<>> /\ ff[p] = NoObject
  BY <1>1 DEF IInv, LocalsInv, Setup, FlTypeOK
<1>3. <<rf[p], wf[p]>> \in Seq(Files) /\ Len(<<rf[p], wf[p]>>) = 2 /\ <<rf[p], wf[p]>>[1] = rf[p] /\ <<rf[p], wf[p]>>[2] = wf[p]
  BY <1>2
<1>4. FlTypeOK'
  BY <1>1, <1>2, <1>3 DEF IInv, FlTypeOK, Pcs
<1>5. LocalsInv'
  BY <1>1, <1>2, <1>3, FileFacts DEF IInv, FlTypeOK, LocalsInv, Setup
<1>6. SetupInv'
  BY <1>1, <1>2, <1>3, FileFacts DEF IInv, FlTypeOK, SetupInv, Setup, FreeInv, LocalsInv
<1>7. DupInv'
  BY <1>1, <1>2, <1>3 DEF IInv, FlTypeOK, DupInv, At
<1>8. ForkInv'
  BY <1>1, <1>2, <1>3 DEF IInv, FlTypeOK, ForkInv
<1>9. FreeInv' /\ FdsInv'
  BY <1>1, <1>2, <1>3 DEF IInv, FlTypeOK, FreeInv, FdsInv
<1>10. RefsCounted'
  <2>1. OnlyLocalsOf(p)
    BY <1>1, <1>2, <1>3 DEF OnlyLocalsOf, IInv, FlTypeOK
  <2>2. \A g \in Files : ref'[g] - ref[g] = Hold(p, g)' - Hold(p, g)
    BY <1>1, <1>2, <1>3, FileFacts DEF Hold, One, At, IInv, FlTypeOK
  <2> QED BY <1>1, <1>2, <1>3, <1>4, <2>1, <2>2, NetStepLocal DEF IInv
<1>11. PipeEndsOwned' /\ InodeRefsOwned'
  <2>1. StandSame
    BY <1>1, <1>2, <1>3 DEF StandSame
  <2> QED BY <1>1, <1>2, <1>3, <2>1, QuietStep DEF IInv, FlTypeOK
<1> QED BY <1>4, <1>5, <1>6, <1>7, <1>8, <1>9, <1>10, <1>11 DEF IInv

\* pipe() gets a page: its two files now stand for the ends of the pipe.
LEMMA PipePageStep ==
  ASSUME IInv, NEW p \in FileProcs, PipePage(p) PROVE IInv'
<1>1. PICK n \in Pages \ pageused :
        /\ pageused' = pageused \cup {n} /\ open' = [open EXCEPT ![n] = {"r", "w"}]
        /\ obj' = [obj EXCEPT ![rf[p]] = PipeEnd(n, "r"), ![wf[p]] = PipeEnd(n, "w")]
  BY DEF PipePage
<1>2. /\ fpc[p] = "pipe_page" /\ fpc' = [fpc EXCEPT ![p] = "pipe_fds"]
      /\ UNCHANGED <<ref, ofile, iref, rf, wf, closing, ff, child, fidx>>
  BY DEF PipePage, At, FlGoto, flocals
<1>3. /\ rf[p] \in Files /\ wf[p] \in Files /\ rf[p] # wf[p] /\ closing[p] = <<>>
      /\ ref[rf[p]] = 1 /\ ref[wf[p]] = 1 /\ obj[rf[p]] = NoObject /\ obj[wf[p]] = NoObject
  BY <1>2 DEF IInv, LocalsInv, Setup, FlTypeOK, SetupInv
<1>4. \A q \in FileProcs : q # p => rf[q] # rf[p] /\ wf[q] # rf[p] /\ rf[q] # wf[p] /\ wf[q] # wf[p]
  BY <1>2, <1>3, OneRef DEF IInv
<1>5. /\ PipeEnd(n, "r") \in Objects /\ PipeEnd(n, "w") \in Objects
      /\ PipeEnd(n, "r") # NoObject /\ PipeEnd(n, "w") # NoObject
  BY <1>1, ObjectFacts
<1>6. FlTypeOK'
  BY <1>1, <1>2, <1>3, <1>4, <1>5 DEF IInv, FlTypeOK, Pcs
<1>7. LocalsInv'
  BY <1>1, <1>2, <1>3, <1>4, <1>5, FileFacts DEF IInv, FlTypeOK, LocalsInv, Setup
<1>8. SetupInv'
  BY <1>1, <1>2, <1>3, <1>4, <1>5, FileFacts DEF IInv, FlTypeOK, SetupInv, Setup, FreeInv, LocalsInv
<1>9. DupInv'
  BY <1>1, <1>2, <1>3, <1>4, <1>5 DEF IInv, FlTypeOK, DupInv, At
<1>10. ForkInv'
  BY <1>1, <1>2, <1>3, <1>4, <1>5 DEF IInv, FlTypeOK, ForkInv
<1>11. FreeInv' /\ FdsInv'
  BY <1>1, <1>2, <1>3, <1>4, <1>5 DEF IInv, FlTypeOK, FreeInv, FdsInv
<1>12. RefsCounted'
  <2>1. OnlyLocalsOf(p)
    BY <1>1, <1>2, <1>3, <1>4, <1>5 DEF OnlyLocalsOf, IInv, FlTypeOK
  <2>2. \A g \in Files : ref'[g] - ref[g] = Hold(p, g)' - Hold(p, g)
    BY <1>1, <1>2, <1>3, <1>4, <1>5, FileFacts DEF Hold, One, At, IInv, FlTypeOK
  <2> QED BY <1>1, <1>2, <1>3, <1>4, <1>5, <1>6, <2>1, <2>2, NetStepLocal DEF IInv
<1>13. PipeEndsOwned' /\ InodeRefsOwned'
  <2>1. \A o \in Objects \ {NoObject}, f \in Files :
          /\ f # rf[p] /\ f # wf[p] => (ref'[f] > 0 /\ obj'[f] = o <=> ref[f] > 0 /\ obj[f] = o)
          /\ o # PipeEnd(n, "r") /\ f = rf[p] => (ref'[f] > 0 /\ obj'[f] = o <=> ref[f] > 0 /\ obj[f] = o)
          /\ o # PipeEnd(n, "w") /\ f = wf[p] => (ref'[f] > 0 /\ obj'[f] = o <=> ref[f] > 0 /\ obj[f] = o)
    BY <1>1, <1>2, <1>3, <1>4, <1>5 DEF IInv, FlTypeOK
  <2>2. PipeEnd(n, "r") # PipeEnd(n, "w") /\ open[n] = {}
    BY <1>1, ObjectFacts DEF IInv, PipeEndsOwned
  <2>3. Standing(PipeEnd(n, "r")) = 0 /\ Standing(PipeEnd(n, "w")) = 0
    BY <1>1, <2>2 DEF IInv, PipeEndsOwned
  <2>4. Standing(PipeEnd(n, "r"))' = 1
    <3> DEFINE o == PipeEnd(n, "r")
    <3>1. /\ ref'[rf[p]] > 0 /\ obj'[rf[p]] = o /\ obj[rf[p]] # o
      BY <1>1, <1>2, <1>3, <1>4, <1>5, <2>2 DEF IInv, FlTypeOK
    <3>2. \A f \in Files : f # rf[p] => (ref'[f] > 0 /\ obj'[f] = o <=> ref[f] > 0 /\ obj[f] = o)
      BY <1>5, <2>1, <2>2
    <3>3. Standing(o) = 0
      BY <2>3
    <3> HIDE DEF o
    <3>4. \A q \in FileProcs : q # p => (ff'[q] = o <=> ff[q] = o)
      BY <1>2
    <3>5. Standing(o)' = Standing(o)
            + One(ref'[rf[p]] > 0 /\ obj'[rf[p]] = o) - One(ref[rf[p]] > 0 /\ obj[rf[p]] = o)
            + One(ff'[p] = o) - One(ff[p] = o)
      <4> DEFINE g == rf[p]
      <4>1. /\ g \in Files
            /\ \A f \in Files : f # g => (ref'[f] > 0 /\ obj'[f] = o <=> ref[f] > 0 /\ obj[f] = o)
        BY <1>3, <3>2
      <4> HIDE DEF g
      <4>2. Standing(o)' = Standing(o)
              + One(ref'[g] > 0 /\ obj'[g] = o) - One(ref[g] > 0 /\ obj[g] = o)
              + One(ff'[p] = o) - One(ff[p] = o)
        BY <3>4, <4>1, StandingMoves
      <4> QED BY <4>2 DEF g
    <3> QED BY <1>2, <3>1, <3>3, <3>5 DEF One, o
  <2>5. Standing(PipeEnd(n, "w"))' = 1
    <3> DEFINE o == PipeEnd(n, "w")
    <3>1. /\ ref'[wf[p]] > 0 /\ obj'[wf[p]] = o /\ obj[wf[p]] # o
      BY <1>1, <1>2, <1>3, <1>4, <1>5, <2>2 DEF IInv, FlTypeOK
    <3>2. \A f \in Files : f # wf[p] => (ref'[f] > 0 /\ obj'[f] = o <=> ref[f] > 0 /\ obj[f] = o)
      BY <1>5, <2>1, <2>2
    <3>3. Standing(o) = 0
      BY <2>3
    <3> HIDE DEF o
    <3>4. \A q \in FileProcs : q # p => (ff'[q] = o <=> ff[q] = o)
      BY <1>2
    <3>5. Standing(o)' = Standing(o)
            + One(ref'[wf[p]] > 0 /\ obj'[wf[p]] = o) - One(ref[wf[p]] > 0 /\ obj[wf[p]] = o)
            + One(ff'[p] = o) - One(ff[p] = o)
      <4> DEFINE g == wf[p]
      <4>1. /\ g \in Files
            /\ \A f \in Files : f # g => (ref'[f] > 0 /\ obj'[f] = o <=> ref[f] > 0 /\ obj[f] = o)
        BY <1>3, <3>2
      <4> HIDE DEF g
      <4>2. Standing(o)' = Standing(o)
              + One(ref'[g] > 0 /\ obj'[g] = o) - One(ref[g] > 0 /\ obj[g] = o)
              + One(ff'[p] = o) - One(ff[p] = o)
        BY <3>4, <4>1, StandingMoves
      <4> QED BY <4>2 DEF g
    <3> QED BY <1>2, <3>1, <3>3, <3>5 DEF One, o
  <2>6. \A o \in Objects \ {NoObject} : o # PipeEnd(n, "r") /\ o # PipeEnd(n, "w") =>
          Standing(o)' = Standing(o)
    <3> SUFFICES ASSUME NEW o \in Objects \ {NoObject}, o # PipeEnd(n, "r"), o # PipeEnd(n, "w")
                 PROVE  Standing(o)' = Standing(o)
      OBVIOUS
    <3>1. {f \in Files : ref'[f] > 0 /\ obj'[f] = o} = {f \in Files : ref[f] > 0 /\ obj[f] = o}
      BY <2>1
    <3> QED BY <1>2, <3>1 DEF Standing
  <2>7. PipeEndsOwned'
    <3>1. ASSUME NEW h \in Pages, h # n
          PROVE  /\ \A e \in {"r", "w"} :
                      Standing(PipeEnd(h, e))' = IF e \in open'[h] THEN 1 ELSE 0
                 /\ h \in pageused' <=> open'[h] # {}
      <4>1. \A e \in {"r", "w"} : /\ PipeEnd(h, e) \in Objects \ {NoObject}
                                  /\ PipeEnd(h, e) # PipeEnd(n, "r") /\ PipeEnd(h, e) # PipeEnd(n, "w")
        BY <1>1, <3>1, ObjectFacts
      <4>2. open'[h] = open[h] /\ (h \in pageused' <=> h \in pageused)
        BY <1>1, <3>1 DEF IInv, FlTypeOK
      <4> QED BY <2>6, <4>1, <4>2 DEF IInv, PipeEndsOwned
    <3>2. /\ \A e \in {"r", "w"} : Standing(PipeEnd(n, e))' = IF e \in open'[n] THEN 1 ELSE 0
          /\ n \in pageused' <=> open'[n] # {}
      <4>1. open'[n] = {"r", "w"} /\ n \in pageused'
        BY <1>1 DEF IInv, FlTypeOK
      <4> QED BY <2>4, <2>5, <4>1
    <3> QED BY <3>1, <3>2 DEF PipeEndsOwned
  <2>8. InodeRefsOwned'
    <3>1. Inode \in Objects \ {NoObject} /\ Inode # PipeEnd(n, "r") /\ Inode # PipeEnd(n, "w")
      BY <1>1, ObjectFacts
    <3>2. Opens' = Opens
      BY <1>2 DEF Opens, IInv, FlTypeOK
    <3> QED BY <1>2, <2>6, <3>1, <3>2 DEF IInv, InodeRefsOwned, Opens
  <2> QED BY <2>7, <2>8
<1> QED BY <1>6, <1>7, <1>8, <1>9, <1>10, <1>11, <1>12, <1>13 DEF IInv

\* pipe() puts its two files into descriptors.
LEMMA PipeFdsStep ==
  ASSUME IInv, NEW p \in FileProcs, PipeFds(p) PROVE IInv'
<1>1. PICK a \in Fds, b \in Fds :
        /\ a # b /\ ofile[p][a] = None /\ ofile[p][b] = None
        /\ ofile' = [ofile EXCEPT ![p][a] = rf[p], ![p][b] = wf[p]]
  BY FileFacts DEF PipeFds, FreeFd
<1>2. /\ fpc[p] = "pipe_fds" /\ fpc' = [fpc EXCEPT ![p] = "user"]
      /\ rf' = [rf EXCEPT ![p] = None] /\ wf' = [wf EXCEPT ![p] = None]
      /\ UNCHANGED <<ref, obj, pageused, open, iref, closing, ff, child, fidx>>
  BY DEF PipeFds, At, FlGoto
<1>3. /\ rf[p] \in Files /\ wf[p] \in Files /\ rf[p] # wf[p] /\ closing[p] = <<>>
      /\ obj[rf[p]] # NoObject /\ obj[wf[p]] # NoObject
  BY <1>2 DEF IInv, LocalsInv, Setup, FlTypeOK, SetupInv
<1>4. \A q \in FileProcs, fd \in Fds : ofile'[q][fd] =
        IF q = p /\ fd = a THEN rf[p] ELSE IF q = p /\ fd = b THEN wf[p] ELSE ofile[q][fd]
  BY <1>1 DEF IInv, FlTypeOK
<1>5. FlTypeOK'
  BY <1>1, <1>2, <1>3, <1>4 DEF IInv, FlTypeOK, Pcs
<1>6. LocalsInv'
  BY <1>1, <1>2, <1>3, <1>4, FileFacts DEF IInv, FlTypeOK, LocalsInv, Setup
<1>7. SetupInv'
  BY <1>1, <1>2, <1>3, <1>4, FileFacts DEF IInv, FlTypeOK, SetupInv, Setup, FreeInv, LocalsInv
<1>8. DupInv'
  BY <1>1, <1>2, <1>3, <1>4 DEF IInv, FlTypeOK, DupInv, At
<1>9. ForkInv'
  BY <1>1, <1>2, <1>3, <1>4 DEF IInv, FlTypeOK, ForkInv
<1>10. FreeInv' /\ FdsInv'
  BY <1>1, <1>2, <1>3, <1>4 DEF IInv, FlTypeOK, FreeInv, FdsInv
<1>11. RefsCounted'
  <2>1. OnlyLocalsOf(p)
    BY <1>2 DEF OnlyLocalsOf, IInv, FlTypeOK
  <2>2. ASSUME NEW g \in Files
        PROVE  ref'[g] = ref[g] + (Count(InOfile(g))' - Count(InOfile(g))) + (Hold(p, g)' - Hold(p, g))
    <3>1. Count(InOfile(g))' = Count(InOfile(g)) + One(ofile'[p][a] = g) - One(ofile[p][a] = g)
                                                 + One(ofile'[p][b] = g) - One(ofile[p][b] = g)
      <4>1. \A q \in FileProcs, h \in Fds : q # p \/ (h # a /\ h # b) => ofile'[q][h] = ofile[q][h]
        BY <1>4
      <4>2. a # b /\ a \in Fds /\ b \in Fds /\ p \in FileProcs
        BY <1>1
      <4> QED BY <4>1, <4>2, OfileMoveTwo, SMTT(30) DEF One
    <3>2. One(ofile[p][a] = g) = 0 /\ One(ofile[p][b] = g) = 0
      BY <1>1, FileFacts DEF One
    <3>3. Hold(p, g)' - Hold(p, g) = 0 - One(rf[p] = g) - One(wf[p] = g)
      BY <1>2, <1>3, FileFacts DEF Hold, One, At, IInv, FlTypeOK
    <3>4. ref[g] \in Int /\ Count(InOfile(g)) \in Int /\ One(rf[p] = g) \in Int /\ One(wf[p] = g) \in Int
      BY CountsAreNat DEF IInv, FlTypeOK, One
    <3>5. ofile'[p][a] = rf[p] /\ ofile'[p][b] = wf[p] /\ ref' = ref
      BY <1>1, <1>2, <1>4
    <3> QED BY <3>1, <3>2, <3>3, <3>4, <3>5
  <2> QED BY <1>5, <2>1, <2>2, NetStep DEF IInv
<1>12. PipeEndsOwned' /\ InodeRefsOwned'
  <2>1. StandSame
    BY <1>1, <1>2, <1>3, <1>4 DEF StandSame
  <2> QED BY <1>1, <1>2, <1>3, <1>4, <2>1, QuietStep DEF IInv, FlTypeOK
<1> QED BY <1>5, <1>6, <1>7, <1>8, <1>9, <1>10, <1>11, <1>12 DEF IInv

\* open() has a reference to an inode.
LEMMA OpenCallStep ==
  ASSUME IInv, NEW p \in FileProcs, OpenCall(p) PROVE IInv'
<1>1. /\ fpc[p] = "user" /\ fpc' = [fpc EXCEPT ![p] = "open_file"] /\ iref < MaxInodeRefs /\ iref' = iref + 1
      /\ UNCHANGED <<ref, obj, ofile, pageused, open, rf, wf, closing, ff, child, fidx>>
  BY DEF OpenCall, At, FlGoto, flocals
<1>2. FlTypeOK'
  BY <1>1, FileAssumption DEF IInv, FlTypeOK, Pcs
<1>3. LocalsInv'
  BY <1>1, FileFacts DEF IInv, FlTypeOK, LocalsInv, Setup
<1>4. SetupInv'
  BY <1>1, FileFacts DEF IInv, FlTypeOK, SetupInv, Setup, FreeInv, LocalsInv
<1>5. DupInv'
  BY <1>1 DEF IInv, FlTypeOK, DupInv, At
<1>6. ForkInv'
  BY <1>1 DEF IInv, FlTypeOK, ForkInv
<1>7. FreeInv' /\ FdsInv'
  BY <1>1 DEF IInv, FlTypeOK, FreeInv, FdsInv
<1>8. RefsCounted'
  <2>1. OnlyLocalsOf(p)
    BY <1>1 DEF OnlyLocalsOf, IInv, FlTypeOK
  <2>2. \A g \in Files : ref'[g] - ref[g] = Hold(p, g)' - Hold(p, g)
    BY <1>1, FileFacts DEF Hold, One, At, IInv, FlTypeOK
  <2> QED BY <1>1, <1>2, <2>1, <2>2, NetStepLocal DEF IInv
<1>9. PipeEndsOwned' /\ InodeRefsOwned'
  <2>1. StandSame
    BY <1>1 DEF StandSame
  <2>2. \A o \in Objects \ {NoObject} : Standing(o)' = Standing(o)
    BY <2>1, StandingSame
  <2>3. Count(Opens) \in Nat /\ Count(Opens)' = Count(Opens) + 1
    <3>1. \A q \in FileProcs : q # p => (fpc'[q] \in {"open_file", "open_fd"} <=> fpc[q] \in {"open_file", "open_fd"})
      BY <1>1 DEF IInv, FlTypeOK
    <3>2. fpc'[p] \in {"open_file", "open_fd"} /\ fpc[p] \notin {"open_file", "open_fd"}
      BY <1>1 DEF IInv, FlTypeOK
    <3> QED BY <3>1, <3>2, OpensMove DEF One
  <2>4. Standing(Inode) \in Nat
    BY StandingCounts
  <2>5. InodeRefsOwned'
    BY <1>1, <2>2, <2>3, <2>4, ObjectFacts DEF IInv, InodeRefsOwned, Opens
  <2> QED BY <1>1, <2>2, <2>5, ObjectFacts, PipesKept DEF IInv
<1> QED BY <1>2, <1>3, <1>4, <1>5, <1>6, <1>7, <1>8, <1>9 DEF IInv

\* open() gets no file, and puts its inode.
LEMMA OpenNoFileStep ==
  ASSUME IInv, NEW p \in FileProcs, OpenNoFile(p) PROVE IInv'
<1>1. /\ fpc[p] = "open_file" /\ fpc' = [fpc EXCEPT ![p] = "user"] /\ iref' = iref - 1
      /\ UNCHANGED <<ref, obj, ofile, pageused, open, rf, wf, closing, ff, child, fidx>>
  BY DEF OpenNoFile, At, FlGoto, flocals
<1>2. Count(Opens) \in Nat /\ Count(Opens)' \in Nat /\ Count(Opens)' = Count(Opens) - 1
  BY <1>1, OpensMove DEF IInv, FlTypeOK, One
<1>3. Standing(Inode) \in Nat /\ iref = Standing(Inode) + Count(Opens)
  BY StandingCounts DEF IInv, InodeRefsOwned, Opens
<1>4. iref' \in 0..MaxInodeRefs
  <2>1. iref \in 0..MaxInodeRefs /\ iref' = iref - 1
    BY <1>1 DEF IInv, FlTypeOK
  <2> QED BY <1>2, <1>3, <2>1, FileAssumption
<1>5. FlTypeOK'
  BY <1>1, <1>2, <1>3, <1>4, FileAssumption DEF IInv, FlTypeOK, Pcs
<1>6. LocalsInv'
  BY <1>1, <1>2, <1>3, <1>4, FileFacts DEF IInv, FlTypeOK, LocalsInv, Setup
<1>7. SetupInv'
  BY <1>1, <1>2, <1>3, <1>4, FileFacts DEF IInv, FlTypeOK, SetupInv, Setup, FreeInv, LocalsInv
<1>8. DupInv'
  BY <1>1, <1>2, <1>3, <1>4 DEF IInv, FlTypeOK, DupInv, At
<1>9. ForkInv'
  BY <1>1, <1>2, <1>3, <1>4 DEF IInv, FlTypeOK, ForkInv
<1>10. FreeInv' /\ FdsInv'
  BY <1>1, <1>2, <1>3, <1>4 DEF IInv, FlTypeOK, FreeInv, FdsInv
<1>11. RefsCounted'
  <2>1. OnlyLocalsOf(p)
    BY <1>1, <1>2, <1>3, <1>4 DEF OnlyLocalsOf, IInv, FlTypeOK
  <2>2. \A g \in Files : ref'[g] - ref[g] = Hold(p, g)' - Hold(p, g)
    BY <1>1, <1>2, <1>3, <1>4, FileFacts DEF Hold, One, At, IInv, FlTypeOK
  <2> QED BY <1>1, <1>2, <1>3, <1>4, <1>5, <2>1, <2>2, NetStepLocal DEF IInv
<1>12. PipeEndsOwned' /\ InodeRefsOwned'
  <2>1. StandSame
    BY <1>1, <1>2, <1>3, <1>4 DEF StandSame
  <2>2. \A o \in Objects \ {NoObject} : Standing(o)' = Standing(o)
    BY <2>1, StandingSame
  <2>3. InodeRefsOwned'
    BY <1>1, <1>2, <1>3, <1>4, <2>2, ObjectFacts DEF InodeRefsOwned, Opens
  <2> QED BY <1>1, <1>2, <1>3, <1>4, <2>2, <2>3, ObjectFacts, PipesKept DEF IInv
<1> QED BY <1>5, <1>6, <1>7, <1>8, <1>9, <1>10, <1>11, <1>12 DEF IInv

\* open() gets no descriptor: it closes its file, which stands for nothing, and puts its inode.
LEMMA OpenNoFdStep ==
  ASSUME IInv, NEW p \in FileProcs, OpenNoFd(p) PROVE IInv'
<1>1. /\ fpc[p] = "open_fd" /\ fpc' = [fpc EXCEPT ![p] = "close"] /\ iref' = iref - 1
      /\ rf' = [rf EXCEPT ![p] = None] /\ wf' = [wf EXCEPT ![p] = None]
      /\ closing' = [closing EXCEPT ![p] = <<rf[p]>>]
      /\ UNCHANGED <<ref, obj, ofile, pageused, open, ff, child, fidx>>
  BY DEF OpenNoFd, StartClose, At, FlGoto
<1>2. rf[p] \in Files /\ wf[p] = None /\ closing[p] = <<>> /\ ff[p] = NoObject
  BY <1>1 DEF IInv, LocalsInv, Setup, FlTypeOK
<1>3. <<rf[p]>> \in Seq(Files) /\ Len(<<rf[p]>>) = 1 /\ <<rf[p]>>[1] = rf[p]
  BY <1>2
<1>4. Count(Opens) \in Nat /\ Count(Opens)' \in Nat /\ Count(Opens)' = Count(Opens) - 1
  BY <1>1, OpensMove DEF IInv, FlTypeOK, One
<1>5. Standing(Inode) \in Nat /\ iref = Standing(Inode) + Count(Opens)
  BY StandingCounts DEF IInv, InodeRefsOwned, Opens
<1>6. iref' \in 0..MaxInodeRefs
  <2>1. iref \in 0..MaxInodeRefs /\ iref' = iref - 1
    BY <1>1 DEF IInv, FlTypeOK
  <2> QED BY <1>4, <1>5, <2>1, FileAssumption
<1>7. FlTypeOK'
  BY <1>1, <1>2, <1>3, <1>6, SMTT(30) DEF IInv, FlTypeOK, Pcs
<1>8. LocalsInv'
  BY <1>1, <1>2, <1>3, <1>4, <1>5, <1>6, FileFacts DEF IInv, FlTypeOK, LocalsInv, Setup
<1>9. SetupInv'
  BY <1>1, <1>2, <1>3, <1>4, <1>5, <1>6, FileFacts DEF IInv, FlTypeOK, SetupInv, Setup, FreeInv, LocalsInv
<1>10. DupInv'
  BY <1>1, <1>2, <1>3, <1>4, <1>5, <1>6 DEF IInv, FlTypeOK, DupInv, At
<1>11. ForkInv'
  BY <1>1, <1>2, <1>3, <1>4, <1>5, <1>6 DEF IInv, FlTypeOK, ForkInv
<1>12. FreeInv' /\ FdsInv'
  BY <1>1, <1>2, <1>3, <1>4, <1>5, <1>6 DEF IInv, FlTypeOK, FreeInv, FdsInv
<1>13. RefsCounted'
  <2>1. OnlyLocalsOf(p)
    BY <1>1, <1>2, <1>3, <1>4, <1>5, <1>6 DEF OnlyLocalsOf, IInv, FlTypeOK
  <2>2. \A g \in Files : ref'[g] - ref[g] = Hold(p, g)' - Hold(p, g)
    BY <1>1, <1>2, <1>3, <1>4, <1>5, <1>6, FileFacts DEF Hold, One, At, IInv, FlTypeOK
  <2> QED BY <1>1, <1>2, <1>3, <1>4, <1>5, <1>6, <1>7, <2>1, <2>2, NetStepLocal DEF IInv
<1>14. PipeEndsOwned' /\ InodeRefsOwned'
  <2>1. StandSame
    BY <1>1, <1>2, <1>3, <1>4, <1>5, <1>6 DEF StandSame
  <2>2. \A o \in Objects \ {NoObject} : Standing(o)' = Standing(o)
    BY <2>1, StandingSame
  <2>3. InodeRefsOwned'
    BY <1>1, <1>2, <1>3, <1>4, <1>5, <1>6, <2>2, ObjectFacts DEF InodeRefsOwned, Opens
  <2> QED BY <1>1, <1>2, <1>3, <1>4, <1>5, <1>6, <2>2, <2>3, ObjectFacts, PipesKept DEF IInv
<1> QED BY <1>7, <1>8, <1>9, <1>10, <1>11, <1>12, <1>13, <1>14 DEF IInv

\* open() puts its file into a descriptor; the file takes over the reference to the inode.
LEMMA OpenFdStep ==
  ASSUME IInv, NEW p \in FileProcs, OpenFd(p) PROVE IInv'
<1>1. PICK a \in Fds : ofile[p][a] = None /\ ofile' = [ofile EXCEPT ![p][a] = rf[p]]
  BY DEF OpenFd, FreeFd
<1>2. /\ fpc[p] = "open_fd" /\ fpc' = [fpc EXCEPT ![p] = "user"]
      /\ rf' = [rf EXCEPT ![p] = None] /\ obj' = [obj EXCEPT ![rf[p]] = Inode]
      /\ UNCHANGED <<ref, pageused, open, iref, wf, closing, ff, child, fidx>>
  BY DEF OpenFd, At, FlGoto
<1>3. /\ rf[p] \in Files /\ wf[p] = None /\ closing[p] = <<>> /\ ref[rf[p]] = 1 /\ obj[rf[p]] = NoObject
  BY <1>2 DEF IInv, LocalsInv, Setup, FlTypeOK, SetupInv
<1>4. \A q \in FileProcs, fd \in Fds : ofile'[q][fd] = IF q = p /\ fd = a THEN rf[p] ELSE ofile[q][fd]
  BY <1>1 DEF IInv, FlTypeOK
<1>5. \A q \in FileProcs : (q # p => rf[q] # rf[p]) /\ wf[q] # rf[p]
  BY <1>2, <1>3, OneRef DEF IInv
<1>6. Inode \in Objects /\ Inode # NoObject
  BY ObjectFacts
<1>7. FlTypeOK'
  BY <1>1, <1>2, <1>3, <1>4, <1>5, <1>6 DEF IInv, FlTypeOK, Pcs
<1>8. LocalsInv'
  BY <1>1, <1>2, <1>3, <1>4, <1>5, <1>6, FileFacts DEF IInv, FlTypeOK, LocalsInv, Setup
<1>9. SetupInv'
  BY <1>1, <1>2, <1>3, <1>4, <1>5, <1>6, FileFacts DEF IInv, FlTypeOK, SetupInv, Setup, FreeInv, LocalsInv
<1>10. DupInv'
  BY <1>1, <1>2, <1>3, <1>4, <1>5, <1>6 DEF IInv, FlTypeOK, DupInv, At
<1>11. ForkInv'
  BY <1>1, <1>2, <1>3, <1>4, <1>5, <1>6 DEF IInv, FlTypeOK, ForkInv
<1>12. FreeInv' /\ FdsInv'
  BY <1>1, <1>2, <1>3, <1>4, <1>5, <1>6 DEF IInv, FlTypeOK, FreeInv, FdsInv
<1>13. RefsCounted'
  <2>1. OnlyLocalsOf(p)
    BY <1>2 DEF OnlyLocalsOf, IInv, FlTypeOK
  <2>2. ASSUME NEW g \in Files
        PROVE  ref'[g] = ref[g] + (Count(InOfile(g))' - Count(InOfile(g))) + (Hold(p, g)' - Hold(p, g))
    <3>1. Count(InOfile(g))' = Count(InOfile(g)) + One(ofile'[p][a] = g) - One(ofile[p][a] = g)
      <4>1. \A q \in FileProcs, h \in Fds : q # p \/ h # a => ofile'[q][h] = ofile[q][h]
        BY <1>4
      <4> QED BY <4>1, OfileMoves DEF One
    <3>2. One(ofile[p][a] = g) = 0
      BY <1>1, FileFacts DEF One
    <3>3. Hold(p, g)' - Hold(p, g) = 0 - One(rf[p] = g)
      BY <1>2, <1>3, FileFacts DEF Hold, One, At, IInv, FlTypeOK
    <3>4. ref[g] \in Int /\ Count(InOfile(g)) \in Int /\ One(rf[p] = g) \in Int
      BY CountsAreNat DEF IInv, FlTypeOK, One
    <3> QED BY <1>1, <1>2, <1>4, <3>1, <3>2, <3>3, <3>4 DEF One
  <2> QED BY <1>7, <2>1, <2>2, NetStep DEF IInv
<1>14. PipeEndsOwned' /\ InodeRefsOwned'
  <2>1. \A o \in Objects \ {NoObject}, f \in Files : f # rf[p] \/ o # Inode =>
          (ref'[f] > 0 /\ obj'[f] = o <=> ref[f] > 0 /\ obj[f] = o)
    BY <1>1, <1>2, <1>3, <1>4, <1>5, <1>6 DEF IInv, FlTypeOK
  <2>2. \A o \in Objects \ {NoObject} : o # Inode => Standing(o)' = Standing(o)
    <3> SUFFICES ASSUME NEW o \in Objects \ {NoObject}, o # Inode
                 PROVE  Standing(o)' = Standing(o)
      OBVIOUS
    <3>1. {f \in Files : ref'[f] > 0 /\ obj'[f] = o} = {f \in Files : ref[f] > 0 /\ obj[f] = o}
      BY <2>1
    <3> QED BY <1>2, <3>1 DEF Standing
  <2>3. PipeEndsOwned'
    BY <1>2, <2>2, ObjectFacts, PipesKept DEF IInv
  <2>4. Standing(Inode) \in Nat /\ Standing(Inode)' = Standing(Inode) + 1
    <3>1. ref'[rf[p]] > 0 /\ obj'[rf[p]] = Inode /\ obj[rf[p]] # Inode
      BY <1>1, <1>2, <1>3, <1>4, <1>5, <1>6 DEF IInv, FlTypeOK
    <3>2. \A f \in Files : f # rf[p] => (ref'[f] > 0 /\ obj'[f] = Inode <=> ref[f] > 0 /\ obj[f] = Inode)
      BY <1>6, <2>1
    <3>3. \A q \in FileProcs : q # p => (ff'[q] = Inode <=> ff[q] = Inode)
      BY <1>2
    <3> QED BY <1>2, <1>3, <3>1, <3>2, <3>3, StandingMoves DEF One
  <2>5. Count(Opens) \in Nat /\ Count(Opens)' = Count(Opens) - 1
    BY <1>2, OpensMove DEF IInv, FlTypeOK, One
  <2>6. InodeRefsOwned'
    BY <1>2, <2>4, <2>5 DEF IInv, InodeRefsOwned, Opens
  <2> QED BY <2>3, <2>6
<1> QED BY <1>7, <1>8, <1>9, <1>10, <1>11, <1>12, <1>13, <1>14 DEF IInv

\* dup() has its descriptor, and f->ref is one behind.
LEMMA DupCallStep ==
  ASSUME IInv, NEW p \in FileProcs, DupCall(p) PROVE IInv'
<1>1. PICK fd \in Fds, a \in Fds :
        /\ ofile[p][fd] # None /\ ofile[p][a] = None
        /\ ofile' = [ofile EXCEPT ![p][a] = ofile[p][fd]] /\ rf' = [rf EXCEPT ![p] = ofile[p][fd]]
  BY DEF DupCall, FreeFd
<1>2. /\ fpc[p] = "user" /\ fpc' = [fpc EXCEPT ![p] = "dup"]
      /\ UNCHANGED <<ref, obj, pageused, open, iref, wf, closing, ff, child, fidx>>
  BY DEF DupCall, At, FlGoto
<1>3. rf[p] = None /\ wf[p] = None /\ closing[p] = <<>>
  BY <1>2 DEF IInv, LocalsInv, Setup
<1>4. PICK f \in Files : f = ofile[p][fd]
  BY <1>1 DEF IInv, FlTypeOK
<1>5. \A q \in FileProcs, h \in Fds : ofile'[q][h] = IF q = p /\ h = a THEN f ELSE ofile[q][h]
  BY <1>1, <1>4 DEF IInv, FlTypeOK
<1>6. FlTypeOK'
  BY <1>1, <1>2, <1>3, <1>4, <1>5 DEF IInv, FlTypeOK, Pcs
<1>7. LocalsInv'
  BY <1>1, <1>2, <1>3, <1>4, <1>5, FileFacts DEF IInv, FlTypeOK, LocalsInv, Setup
<1>8. SetupInv'
  BY <1>1, <1>2, <1>3, <1>4, <1>5, FileFacts DEF IInv, FlTypeOK, SetupInv, Setup, FreeInv, LocalsInv
<1>9. DupInv'
  <2>1. a # fd /\ ofile'[p][a] = f /\ ofile'[p][fd] = f /\ rf'[p] = f
    BY <1>1, <1>2, <1>3, <1>4, <1>5 DEF IInv, FlTypeOK
  <2>2. ASSUME NEW q \in FileProcs, q # p, fpc'[q] = "dup"
        PROVE  \E b, c \in Fds : b # c /\ ofile'[q][b] = rf'[q] /\ ofile'[q][c] = rf'[q]
    <3>1. PICK b \in Fds, c \in Fds : b # c /\ ofile[q][b] = rf[q] /\ ofile[q][c] = rf[q]
      BY <1>2, <2>2 DEF IInv, FlTypeOK, DupInv, At
    <3> QED BY <1>1, <1>2, <1>3, <1>4, <1>5, <2>2, <3>1 DEF IInv, FlTypeOK
  <2> QED BY <2>1, <2>2 DEF DupInv, At
<1>10. ForkInv'
  BY <1>1, <1>2, <1>3, <1>4, <1>5 DEF IInv, FlTypeOK, ForkInv
<1>11. FreeInv' /\ FdsInv'
  BY <1>1, <1>2, <1>3, <1>4, <1>5 DEF IInv, FlTypeOK, FreeInv, FdsInv
<1>12. RefsCounted'
  <2>1. OnlyLocalsOf(p)
    BY <1>1, <1>2, <1>3, <1>4, <1>5 DEF OnlyLocalsOf, IInv, FlTypeOK
  <2>2. ASSUME NEW g \in Files
        PROVE  ref'[g] = ref[g] + (Count(InOfile(g))' - Count(InOfile(g))) + (Hold(p, g)' - Hold(p, g))
    <3>1. Count(InOfile(g))' = Count(InOfile(g)) + One(ofile'[p][a] = g) - One(ofile[p][a] = g)
      <4>1. p \in FileProcs /\ a \in Fds /\ \A r \in FileProcs, h \in Fds : r # p \/ h # a => ofile'[r][h] = ofile[r][h]
        BY <1>1, <1>2, <1>3, <1>4, <1>5
      <4> QED BY <4>1, OfileMoves DEF One
    <3>2. One(ofile'[p][a] = g) - One(ofile[p][a] = g) = One(f = g)
      BY <1>1, <1>2, <1>3, <1>4, <1>5, FileFacts DEF One
    <3>3. Hold(p, g)' - Hold(p, g) = 0 - One(f = g)
      BY <1>1, <1>2, <1>3, <1>4, <1>5, FileFacts DEF Hold, One, At, IInv, FlTypeOK
    <3>4. /\ ref[g] \in Int /\ Count(InOfile(g)) \in Int /\ One(f = g) \in Int
          /\ One(ofile'[p][a] = g) \in Int /\ One(ofile[p][a] = g) \in Int
      BY CountsAreNat DEF IInv, FlTypeOK, One
    <3>5. ref'[g] = ref[g]
      BY <1>1, <1>2, <1>3, <1>4, <1>5 DEF IInv, FlTypeOK, One
    <3> QED BY <3>1, <3>2, <3>3, <3>4, <3>5
  <2> QED BY <1>6, <2>1, <2>2, NetStep DEF IInv
<1>13. PipeEndsOwned' /\ InodeRefsOwned'
  <2>1. StandSame
    BY <1>1, <1>2, <1>3, <1>4, <1>5 DEF StandSame
  <2> QED BY <1>1, <1>2, <1>3, <1>4, <1>5, <2>1, QuietStep DEF IInv, FlTypeOK
<1> QED BY <1>6, <1>7, <1>8, <1>9, <1>10, <1>11, <1>12, <1>13 DEF IInv

\* filedup() of dup().
LEMMA FileDupStep ==
  ASSUME IInv, NEW p \in FileProcs, FileDup(p) PROVE IInv'
<1>1. /\ fpc[p] = "dup" /\ fpc' = [fpc EXCEPT ![p] = "user"]
      /\ ref' = [ref EXCEPT ![rf[p]] = @ + 1] /\ rf' = [rf EXCEPT ![p] = None]
      /\ UNCHANGED <<obj, ofile, pageused, open, iref, wf, closing, ff, child, fidx>>
  BY DEF FileDup, At, FlGoto
<1>2. PICK f \in Files : f = rf[p]
  BY <1>1 DEF IInv, LocalsInv, FlTypeOK
<1>3. wf[p] = None /\ closing[p] = <<>>
  BY <1>1 DEF IInv, LocalsInv, Setup
<1>4. ref[f] \in Nat /\ ref[f] > 0
  BY <1>2, ReferredPositive DEF IInv, FlTypeOK
<1>5. PICK a \in Fds : ofile[p][a] = f
  BY <1>1, <1>2 DEF IInv, DupInv, At
<1>6. \A q \in FileProcs : (fpc[q] # "dup" /\ rf[q] = f => ref[f] # 1) /\ (wf[q] = f => ref[f] # 1)
  BY <1>5, OneRef DEF IInv
<1>7. FlTypeOK'
  BY <1>1, <1>2, <1>3, <1>4, <1>5, <1>6 DEF IInv, FlTypeOK, Pcs
<1>8. LocalsInv'
  BY <1>1, <1>2, <1>3, <1>4, <1>5, <1>6, FileFacts DEF IInv, FlTypeOK, LocalsInv, Setup
<1>9. SetupInv'
  BY <1>1, <1>2, <1>3, <1>4, <1>5, <1>6, FileFacts DEF IInv, FlTypeOK, SetupInv, Setup, FreeInv, LocalsInv
<1>10. DupInv'
  <2>1. ASSUME NEW q \in FileProcs, fpc'[q] = "dup"
        PROVE  q # p /\ fpc[q] = "dup" /\ rf'[q] = rf[q]
    BY <1>1, <2>1 DEF IInv, FlTypeOK
  <2> QED BY <1>1, <2>1 DEF IInv, DupInv, At
<1>11. ForkInv'
  BY <1>1, <1>2, <1>3, <1>4, <1>5, <1>6 DEF IInv, FlTypeOK, ForkInv
<1>12. FreeInv' /\ FdsInv'
  BY <1>1, <1>2, <1>3, <1>4, <1>5, <1>6 DEF IInv, FlTypeOK, FreeInv, FdsInv
<1>13. RefsCounted'
  <2>1. OnlyLocalsOf(p)
    BY <1>1, <1>2, <1>3, <1>4, <1>5, <1>6 DEF OnlyLocalsOf, IInv, FlTypeOK
  <2>2. \A g \in Files : ref'[g] - ref[g] = Hold(p, g)' - Hold(p, g)
    BY <1>1, <1>2, <1>3, <1>4, <1>5, <1>6, FileFacts DEF Hold, One, At, IInv, FlTypeOK
  <2> QED BY <1>1, <1>2, <1>3, <1>4, <1>5, <1>6, <1>7, <2>1, <2>2, NetStepLocal DEF IInv
<1>14. PipeEndsOwned' /\ InodeRefsOwned'
  <2>1. StandSame
    BY <1>1, <1>2, <1>3, <1>4, <1>5, <1>6 DEF StandSame, IInv, FlTypeOK
  <2> QED BY <1>1, <1>2, <1>3, <1>4, <1>5, <1>6, <2>1, QuietStep DEF IInv, FlTypeOK
<1> QED BY <1>7, <1>8, <1>9, <1>10, <1>11, <1>12, <1>13, <1>14 DEF IInv

\* fork() has a process that nobody else knows.
LEMMA ForkCallStep ==
  ASSUME IInv, NEW p \in FileProcs, NEW q \in FileProcs, ForkCall(p, q) PROVE IInv'
<1>1. /\ fpc[p] = "user" /\ fpc[q] = "unused" /\ p # q
      /\ fpc' = [fpc EXCEPT ![p] = "fork", ![q] = "embryo"]
      /\ child' = [child EXCEPT ![p] = q] /\ fidx' = [fidx EXCEPT ![p] = 0]
      /\ UNCHANGED <<ref, obj, ofile, pageused, open, iref, rf, wf, closing, ff>>
  BY DEF ForkCall, At
<1>2. /\ fpc'[p] = "fork" /\ fpc'[q] = "embryo" /\ \A r \in FileProcs : r # p /\ r # q => fpc'[r] = fpc[r]
  BY <1>1 DEF IInv, FlTypeOK
<1>3. FlTypeOK'
  <2>1. fpc' \in [FileProcs -> Pcs]
    BY <1>1, <1>2 DEF IInv, FlTypeOK, Pcs
  <2>2. child' \in [FileProcs -> FileProcs] /\ fidx' \in [FileProcs -> 0..NOFILE]
    BY <1>1, <1>2, FileAssumption DEF IInv, FlTypeOK
  <2> QED BY <1>1, <1>2, <2>1, <2>2 DEF IInv, FlTypeOK
<1>4. LocalsInv'
  BY <1>1, <1>2, FileFacts DEF IInv, FlTypeOK, LocalsInv, Setup
<1>5. SetupInv'
  BY <1>1, <1>2, FileFacts DEF IInv, FlTypeOK, SetupInv, Setup, FreeInv, LocalsInv
<1>6. DupInv'
  <2>1. ASSUME NEW r \in FileProcs, fpc'[r] = "dup" PROVE fpc[r] = "dup"
    BY <1>1, <1>2, <2>1
  <2> QED BY <1>1, <1>2, <2>1 DEF IInv, DupInv, At
<1>7. ForkInv'
  <2>1. \A r \in FileProcs : fpc'[r] = "unused" => fpc[r] = "unused"
    BY <1>1, <1>2
  <2>2. \A r \in FileProcs : fpc'[r] = "fork" => r = p \/ (fpc[r] = "fork" /\ r # p)
    BY <1>1, <1>2
  <2>3. child'[p] = q /\ fidx'[p] = 0 /\ \A r \in FileProcs : r # p => child'[r] = child[r] /\ fidx'[r] = fidx[r]
    BY <1>1, <1>2 DEF IInv, FlTypeOK
  <2>4. \A r \in FileProcs : fpc[r] = "fork" => child[r] \in FileProcs /\ fpc[child[r]] = "embryo" /\ child[r] # q /\ child[r] # p
    BY <1>1, <1>2 DEF IInv, ForkInv, FlTypeOK
  <2>5. ASSUME NEW r \in FileProcs, fpc'[r] = "fork"
        PROVE  fpc'[child'[r]] = "embryo" /\ \A fd \in Fds : fd >= fidx'[r] => ofile'[child'[r]][fd] = None
    <3>1. CASE r = p
      BY <1>1, <1>2, <2>3, <3>1 DEF IInv, ForkInv
    <3>2. CASE r # p
      <4>1. fpc[r] = "fork" /\ child'[r] = child[r] /\ fidx'[r] = fidx[r] /\ child[r] \in FileProcs
            /\ fpc'[child[r]] = fpc[child[r]]
        BY <1>2, <2>2, <2>3, <2>4, <2>5, <3>2
      <4> QED BY <1>1, <4>1 DEF IInv, ForkInv
    <3> QED BY <3>1, <3>2
  <2>6. ASSUME NEW r \in FileProcs, NEW t \in FileProcs, fpc'[r] = "fork", fpc'[t] = "fork", child'[r] = child'[t]
        PROVE  r = t
    BY <2>2, <2>3, <2>4, <2>6 DEF IInv, ForkInv
  <2> QED BY <1>1, <1>2, <2>1, <2>5, <2>6 DEF IInv, ForkInv
<1>8. FreeInv' /\ FdsInv'
  BY <1>1, <1>2 DEF IInv, FlTypeOK, FreeInv, FdsInv
<1>9. RefsCounted'
  <2>1. OnlyLocalsOf(p)
    BY <1>1, <1>2 DEF OnlyLocalsOf, IInv, FlTypeOK
  <2>2. \A g \in Files : ref'[g] - ref[g] = Hold(p, g)' - Hold(p, g)
    BY <1>1, <1>2, FileFacts DEF Hold, One, At, IInv, FlTypeOK
  <2> QED BY <1>1, <1>2, <1>3, <2>1, <2>2, NetStepLocal DEF IInv
<1>10. PipeEndsOwned' /\ InodeRefsOwned'
  <2>1. StandSame
    BY <1>1, <1>2 DEF StandSame
  <2> QED BY <1>1, <1>2, <2>1, QuietStep DEF IInv, FlTypeOK
<1> QED BY <1>3, <1>4, <1>5, <1>6, <1>7, <1>8, <1>9, <1>10 DEF IInv

\* fork() copies a descriptor, with filedup().
LEMMA ForkDupStep ==
  ASSUME IInv, NEW p \in FileProcs, ForkDup(p) PROVE IInv'
<1>1. /\ fpc[p] = "fork" /\ fidx[p] < NOFILE
      /\ ofile' = [ofile EXCEPT ![child[p]][fidx[p]] = ofile[p][fidx[p]]]
      /\ ref' = IF ofile[p][fidx[p]] = None THEN ref ELSE [ref EXCEPT ![ofile[p][fidx[p]]] = @ + 1]
      /\ fidx' = [fidx EXCEPT ![p] = @ + 1]
      /\ UNCHANGED <<obj, pageused, open, iref, fpc, rf, wf, closing, ff, child>>
  BY DEF ForkDup, At
<1>2. PICK a \in Fds : a = fidx[p]
  BY <1>1, FileAssumption DEF IInv, FlTypeOK, Fds
<1>3. PICK c \in FileProcs : c = child[p]
  BY <1>1 DEF IInv, FlTypeOK
<1>4. PICK f \in Files \cup {None} : f = ofile[p][a]
  BY DEF IInv, FlTypeOK
<1>5. fpc[c] = "embryo" /\ c # p /\ ofile[c][a] = None
  BY <1>1, <1>2, <1>3, FileFacts DEF IInv, ForkInv, FlTypeOK
<1>6. \A q \in FileProcs, h \in Fds : ofile'[q][h] = IF q = c /\ h = a THEN f ELSE ofile[q][h]
  BY <1>1, <1>2, <1>3, <1>4 DEF IInv, FlTypeOK
<1>7. \A g \in Files : ref'[g] = ref[g] + One(f = g)
  BY <1>1, <1>2, <1>4, FileFacts DEF IInv, FlTypeOK, One
<1>8. f \in Files => ref[f] \in Nat /\ ref[f] > 0
  BY <1>4, ReferredPositive DEF IInv, FlTypeOK
<1>9. \A q \in FileProcs : f \in Files => (fpc[q] # "dup" /\ rf[q] = f => ref[f] # 1) /\ (wf[q] = f => ref[f] # 1)
  BY <1>4, OneRef DEF IInv
<1>10. FlTypeOK'
  <2>1. ref' \in [Files -> Nat]
    <3>1. \A g \in Files : ref'[g] \in Nat
      <4>1. \A g \in Files : ref[g] \in Nat /\ One(f = g) \in Nat
        BY DEF IInv, FlTypeOK, One
      <4> QED BY <1>7, <4>1
    <3>2. ref' = [g \in Files |-> ref'[g]]
      BY <1>1 DEF IInv, FlTypeOK
    <3> QED BY <3>1, <3>2
  <2>2. fidx' \in [FileProcs -> 0..NOFILE]
    BY <1>1, FileAssumption DEF IInv, FlTypeOK
  <2>3. ofile' \in [FileProcs -> [Fds -> Files \cup {None}]]
    BY <1>1, <1>2, <1>3, <1>4 DEF IInv, FlTypeOK
  <2> QED BY <1>1, <2>1, <2>2, <2>3 DEF IInv, FlTypeOK
<1>11. LocalsInv'
  BY <1>1, <1>2, <1>3, <1>4, <1>5, <1>6, <1>7, <1>8, <1>9, FileFacts DEF IInv, FlTypeOK, LocalsInv, Setup
<1>12. SetupInv'
  BY <1>1, <1>2, <1>3, <1>4, <1>5, <1>6, <1>7, <1>8, <1>9, FileFacts DEF IInv, FlTypeOK, SetupInv, Setup, LocalsInv, One
<1>13. DupInv'
  <2>1. ASSUME NEW q \in FileProcs, fpc'[q] = "dup"
        PROVE  \E b, d \in Fds : b # d /\ ofile'[q][b] = rf'[q] /\ ofile'[q][d] = rf'[q]
    <3>1. PICK b \in Fds, d \in Fds : b # d /\ ofile[q][b] = rf[q] /\ ofile[q][d] = rf[q]
      BY <1>1, <2>1 DEF IInv, DupInv, At
    <3>2. q # c
      BY <1>1, <1>5, <2>1
    <3> QED BY <1>1, <1>6, <3>1, <3>2
  <2> QED BY <2>1 DEF DupInv, At
<1>14. ForkInv'
  <2>1. ASSUME NEW q \in FileProcs, fpc'[q] = "unused" PROVE \A fd \in Fds : ofile'[q][fd] = None
    BY <1>1, <1>2, <1>3, <1>4, <1>5, <1>6, <1>7, <1>8, <1>9, <2>1 DEF IInv, ForkInv
  <2>2. ASSUME NEW q \in FileProcs, fpc'[q] = "fork"
        PROVE  fpc'[child'[q]] = "embryo" /\ \A fd \in Fds : fd >= fidx'[q] => ofile'[child'[q]][fd] = None
    <3>1. fpc[q] = "fork" /\ fpc[child[q]] = "embryo" /\ child[q] \in FileProcs
          /\ \A fd \in Fds : fd >= fidx[q] => ofile[child[q]][fd] = None
      BY <1>1, <2>2 DEF IInv, ForkInv, FlTypeOK
    <3>2. CASE q = p
      <4>1. fidx'[p] = a + 1
        BY <1>1, <1>2 DEF IInv, FlTypeOK
      <4> QED BY <1>1, <1>2, <1>3, <1>4, <1>5, <1>6, <1>7, <1>8, <1>9, <3>1, <3>2, <4>1, FileFacts
    <3>3. CASE q # p
      <4>1. child[q] # c /\ fidx'[q] = fidx[q]
        BY <1>1, <1>3, <3>1, <3>3 DEF IInv, ForkInv, FlTypeOK
      <4> QED BY <1>1, <1>2, <1>3, <1>4, <1>5, <1>6, <1>7, <1>8, <1>9, <3>1, <4>1
    <3> QED BY <3>2, <3>3
  <2> QED BY <1>1, <2>1, <2>2 DEF IInv, ForkInv
<1>15. FreeInv' /\ FdsInv'
  BY <1>1, <1>2, <1>3, <1>4, <1>5, <1>6, <1>7, <1>8, <1>9, FileFacts, SMTT(30) DEF IInv, FlTypeOK, FreeInv, FdsInv, One
<1>16. RefsCounted'
  <2>1. OnlyLocalsOf(p)
    BY <1>1, <1>2, <1>3, <1>4, <1>5, <1>6, <1>7, <1>8, <1>9 DEF OnlyLocalsOf, IInv, FlTypeOK
  <2>2. ASSUME NEW g \in Files
        PROVE  ref'[g] = ref[g] + (Count(InOfile(g))' - Count(InOfile(g))) + (Hold(p, g)' - Hold(p, g))
    <3>1. Count(InOfile(g))' = Count(InOfile(g)) + One(ofile'[c][a] = g) - One(ofile[c][a] = g)
      <4>1. c \in FileProcs /\ a \in Fds /\ \A r \in FileProcs, h \in Fds : r # c \/ h # a => ofile'[r][h] = ofile[r][h]
        BY <1>1, <1>2, <1>3, <1>4, <1>5, <1>6, <1>7, <1>8, <1>9
      <4> QED BY <4>1, OfileMoves DEF One
    <3>2. One(ofile'[c][a] = g) - One(ofile[c][a] = g) = One(f = g)
      BY <1>1, <1>2, <1>3, <1>4, <1>5, <1>6, <1>7, <1>8, <1>9, FileFacts DEF One
    <3>3. Hold(p, g)' - Hold(p, g) = 0
      BY <1>1 DEF Hold, One, At
    <3>4. /\ ref[g] \in Int /\ Count(InOfile(g)) \in Int /\ One(f = g) \in Int
          /\ One(ofile'[c][a] = g) \in Int /\ One(ofile[c][a] = g) \in Int
      BY CountsAreNat DEF IInv, FlTypeOK, One
    <3>5. ref'[g] = ref[g] + One(f = g)
      BY <1>1, <1>2, <1>3, <1>4, <1>5, <1>6, <1>7, <1>8, <1>9 DEF IInv, FlTypeOK, One
    <3> QED BY <3>1, <3>2, <3>3, <3>4, <3>5
  <2> QED BY <1>10, <2>1, <2>2, NetStep DEF IInv
<1>17. PipeEndsOwned' /\ InodeRefsOwned'
  <2>1. StandSame
    BY <1>1, <1>2, <1>3, <1>4, <1>5, <1>6, <1>7, <1>8, <1>9 DEF StandSame, IInv, FlTypeOK, One
  <2> QED BY <1>1, <1>2, <1>3, <1>4, <1>5, <1>6, <1>7, <1>8, <1>9, <2>1, QuietStep DEF IInv, FlTypeOK
<1> QED BY <1>10, <1>11, <1>12, <1>13, <1>14, <1>15, <1>16, <1>17 DEF IInv

\* fork() ends: the child runs.
LEMMA ForkDoneStep ==
  ASSUME IInv, NEW p \in FileProcs, ForkDone(p) PROVE IInv'
<1>1. PICK c \in FileProcs : c = child[p]
  BY DEF IInv, FlTypeOK
<1>2. /\ fpc[p] = "fork" /\ fpc[c] = "embryo" /\ c # p
      /\ fpc' = [fpc EXCEPT ![p] = "user", ![c] = "user"]
      /\ child' = [child EXCEPT ![p] = p] /\ fidx' = [fidx EXCEPT ![p] = 0]
      /\ UNCHANGED <<ref, obj, ofile, pageused, open, iref, rf, wf, closing, ff>>
  BY <1>1 DEF ForkDone, At, IInv, ForkInv
<1>3. /\ fpc'[p] = "user" /\ fpc'[c] = "user" /\ \A r \in FileProcs : r # p /\ r # c => fpc'[r] = fpc[r]
  BY <1>2 DEF IInv, FlTypeOK
<1>4. FlTypeOK'
  <2>1. fpc' \in [FileProcs -> Pcs]
    BY <1>1, <1>2, <1>3 DEF IInv, FlTypeOK, Pcs
  <2>2. child' \in [FileProcs -> FileProcs] /\ fidx' \in [FileProcs -> 0..NOFILE]
    BY <1>1, <1>2, <1>3, FileAssumption DEF IInv, FlTypeOK
  <2> QED BY <1>1, <1>2, <1>3, <2>1, <2>2 DEF IInv, FlTypeOK
<1>5. LocalsInv'
  BY <1>1, <1>2, <1>3, FileFacts DEF IInv, FlTypeOK, LocalsInv, Setup
<1>6. SetupInv'
  BY <1>1, <1>2, <1>3, FileFacts DEF IInv, FlTypeOK, SetupInv, Setup, FreeInv, LocalsInv
<1>7. DupInv'
  <2>1. ASSUME NEW r \in FileProcs, fpc'[r] = "dup" PROVE fpc[r] = "dup"
    BY <1>1, <1>2, <1>3, <2>1
  <2> QED BY <1>1, <1>2, <1>3, <2>1 DEF IInv, DupInv, At
<1>8. ForkInv'
  <2>1. \A r \in FileProcs : fpc'[r] = "unused" => fpc[r] = "unused"
    BY <1>1, <1>2, <1>3
  <2>2. \A r \in FileProcs : fpc'[r] = "fork" => fpc[r] = "fork" /\ r # p
    BY <1>1, <1>2, <1>3
  <2>3. \A r \in FileProcs : r # p => child'[r] = child[r] /\ fidx'[r] = fidx[r]
    BY <1>1, <1>2, <1>3 DEF IInv, FlTypeOK
  <2>4. \A r \in FileProcs : fpc[r] = "fork" /\ r # p => child[r] \in FileProcs /\ fpc[child[r]] = "embryo" /\ child[r] # c /\ child[r] # p
    BY <1>1, <1>2, <1>3 DEF IInv, ForkInv, FlTypeOK
  <2>5. ASSUME NEW r \in FileProcs, fpc'[r] = "fork"
        PROVE  fpc'[child'[r]] = "embryo" /\ \A fd \in Fds : fd >= fidx'[r] => ofile'[child'[r]][fd] = None
    <3>1. fpc[r] = "fork" /\ r # p /\ child'[r] = child[r] /\ fidx'[r] = fidx[r] /\ child[r] \in FileProcs
          /\ fpc'[child[r]] = fpc[child[r]]
      BY <1>3, <2>2, <2>3, <2>4, <2>5
    <3> QED BY <1>2, <3>1 DEF IInv, ForkInv
  <2>6. ASSUME NEW r \in FileProcs, NEW t \in FileProcs, fpc'[r] = "fork", fpc'[t] = "fork", child'[r] = child'[t]
        PROVE  r = t
    BY <2>2, <2>3, <2>6 DEF IInv, ForkInv
  <2> QED BY <1>1, <1>2, <1>3, <2>1, <2>5, <2>6 DEF IInv, ForkInv
<1>9. FreeInv' /\ FdsInv'
  BY <1>1, <1>2, <1>3 DEF IInv, FlTypeOK, FreeInv, FdsInv
<1>10. RefsCounted'
  <2>1. OnlyLocalsOf(p)
    BY <1>1, <1>2, <1>3 DEF OnlyLocalsOf, IInv, FlTypeOK
  <2>2. \A g \in Files : ref'[g] - ref[g] = Hold(p, g)' - Hold(p, g)
    BY <1>1, <1>2, <1>3, FileFacts DEF Hold, One, At, IInv, FlTypeOK
  <2> QED BY <1>1, <1>2, <1>3, <1>4, <2>1, <2>2, NetStepLocal DEF IInv
<1>11. PipeEndsOwned' /\ InodeRefsOwned'
  <2>1. StandSame
    BY <1>1, <1>2, <1>3 DEF StandSame
  <2> QED BY <1>1, <1>2, <1>3, <2>1, QuietStep DEF IInv, FlTypeOK
<1> QED BY <1>4, <1>5, <1>6, <1>7, <1>8, <1>9, <1>10, <1>11 DEF IInv

\* close() takes the file out of its descriptor.
LEMMA CloseCallStep ==
  ASSUME IInv, NEW p \in FileProcs, CloseCall(p) PROVE IInv'
<1>1. PICK a \in Fds : /\ ofile[p][a] # None /\ ofile' = [ofile EXCEPT ![p][a] = None]
                       /\ closing' = [closing EXCEPT ![p] = <<ofile[p][a]>>]
  BY DEF CloseCall, StartClose
<1>2. /\ fpc[p] = "user" /\ fpc' = [fpc EXCEPT ![p] = "close"]
      /\ rf' = [rf EXCEPT ![p] = None] /\ wf' = [wf EXCEPT ![p] = None]
      /\ UNCHANGED <<ref, obj, pageused, open, iref, ff, child, fidx>>
  BY DEF CloseCall, StartClose, At, FlGoto
<1>3. rf[p] = None /\ wf[p] = None /\ closing[p] = <<>> /\ ff[p] = NoObject
  BY <1>2 DEF IInv, LocalsInv, Setup
<1>4. PICK f \in Files : f = ofile[p][a]
  BY <1>1 DEF IInv, FlTypeOK
<1>5. <<f>> \in Seq(Files) /\ Len(<<f>>) = 1 /\ <<f>>[1] = f
  BY <1>4
<1>6. \A q \in FileProcs, h \in Fds : ofile'[q][h] = IF q = p /\ h = a THEN None ELSE ofile[q][h]
  BY <1>1, <1>4 DEF IInv, FlTypeOK
<1>7. FlTypeOK'
  BY <1>1, <1>2, <1>3, <1>4, <1>5, <1>6 DEF IInv, FlTypeOK, Pcs
<1>8. LocalsInv'
  BY <1>1, <1>2, <1>3, <1>4, <1>5, <1>6, FileFacts DEF IInv, FlTypeOK, LocalsInv, Setup
<1>9. SetupInv'
  BY <1>1, <1>2, <1>3, <1>4, <1>5, <1>6, FileFacts DEF IInv, FlTypeOK, SetupInv, Setup, FreeInv, LocalsInv
<1>10. DupInv'
  <2>1. ASSUME NEW q \in FileProcs, fpc'[q] = "dup"
        PROVE  \E b, c \in Fds : b # c /\ ofile'[q][b] = rf'[q] /\ ofile'[q][c] = rf'[q]
    <3>1. q # p /\ fpc[q] = "dup" /\ rf'[q] = rf[q]
      BY <1>1, <1>2, <1>3, <1>4, <1>5, <1>6, <2>1 DEF IInv, FlTypeOK
    <3>2. PICK b \in Fds, c \in Fds : b # c /\ ofile[q][b] = rf[q] /\ ofile[q][c] = rf[q]
      BY <3>1 DEF IInv, DupInv, At
    <3> QED BY <1>1, <1>2, <1>3, <1>4, <1>5, <1>6, <3>1, <3>2
  <2> QED BY <2>1 DEF DupInv, At
<1>11. ForkInv'
  <2>1. \A q \in FileProcs : /\ fpc'[q] = "unused" => fpc[q] = "unused" /\ q # p
                             /\ fpc'[q] = "fork" => fpc[q] = "fork" /\ child[q] \in FileProcs
                             /\ fpc[q] = "embryo" => fpc'[q] = "embryo"
    BY <1>1, <1>2, <1>3, <1>4, <1>5, <1>6 DEF IInv, FlTypeOK
  <2>2. \A q \in FileProcs, h \in Fds : ofile[q][h] = None => ofile'[q][h] = None
    BY <1>1, <1>2, <1>3, <1>4, <1>5, <1>6
  <2> QED BY <1>1, <1>2, <1>3, <1>4, <1>5, <1>6, <2>1, <2>2 DEF IInv, ForkInv
<1>12. FreeInv' /\ FdsInv'
  BY <1>1, <1>2, <1>3, <1>4, <1>5, <1>6 DEF IInv, FlTypeOK, FreeInv, FdsInv
<1>13. RefsCounted'
  <2>1. OnlyLocalsOf(p)
    BY <1>1, <1>2, <1>3, <1>4, <1>5, <1>6 DEF OnlyLocalsOf, IInv, FlTypeOK
  <2>2. ASSUME NEW g \in Files
        PROVE  ref'[g] = ref[g] + (Count(InOfile(g))' - Count(InOfile(g))) + (Hold(p, g)' - Hold(p, g))
    <3>1. Count(InOfile(g))' = Count(InOfile(g)) + One(ofile'[p][a] = g) - One(ofile[p][a] = g)
      <4>1. p \in FileProcs /\ a \in Fds /\ \A r \in FileProcs, h \in Fds : r # p \/ h # a => ofile'[r][h] = ofile[r][h]
        BY <1>1, <1>2, <1>3, <1>4, <1>5, <1>6
      <4> QED BY <4>1, OfileMoves DEF One
    <3>2. One(ofile'[p][a] = g) - One(ofile[p][a] = g) = 0 - One(f = g)
      BY <1>1, <1>2, <1>3, <1>4, <1>5, <1>6, FileFacts DEF One
    <3>3. Hold(p, g)' - Hold(p, g) = One(f = g)
      BY <1>1, <1>2, <1>3, <1>4, <1>5, <1>6, FileFacts DEF Hold, One, At, IInv, FlTypeOK
    <3>4. /\ ref[g] \in Int /\ Count(InOfile(g)) \in Int /\ One(f = g) \in Int
          /\ One(ofile'[p][a] = g) \in Int /\ One(ofile[p][a] = g) \in Int
      BY CountsAreNat DEF IInv, FlTypeOK, One
    <3>5. ref'[g] = ref[g]
      BY <1>1, <1>2, <1>3, <1>4, <1>5, <1>6 DEF IInv, FlTypeOK, One
    <3> QED BY <3>1, <3>2, <3>3, <3>4, <3>5
  <2> QED BY <1>7, <2>1, <2>2, NetStep DEF IInv
<1>14. PipeEndsOwned' /\ InodeRefsOwned'
  <2>1. StandSame
    BY <1>1, <1>2, <1>3, <1>4, <1>5, <1>6 DEF StandSame
  <2> QED BY <1>1, <1>2, <1>3, <1>4, <1>5, <1>6, <2>1, QuietStep DEF IInv, FlTypeOK
<1> QED BY <1>7, <1>8, <1>9, <1>10, <1>11, <1>12, <1>13, <1>14 DEF IInv

\* exit() begins.
LEMMA ExitCallStep ==
  ASSUME IInv, NEW p \in FileProcs, ExitCall(p) PROVE IInv'
<1>1. /\ fpc[p] = "user" /\ fpc' = [fpc EXCEPT ![p] = "exit"]
      /\ UNCHANGED <<ref, obj, ofile, pageused, open, iref, rf, wf, closing, ff, child, fidx>>
  BY DEF ExitCall, At, FlGoto, flocals
<1>2. FlTypeOK'
  BY <1>1 DEF IInv, FlTypeOK, Pcs
<1>3. LocalsInv'
  BY <1>1, FileFacts DEF IInv, FlTypeOK, LocalsInv, Setup
<1>4. SetupInv'
  BY <1>1, FileFacts DEF IInv, FlTypeOK, SetupInv, Setup, FreeInv, LocalsInv
<1>5. DupInv'
  BY <1>1 DEF IInv, FlTypeOK, DupInv, At
<1>6. ForkInv'
  BY <1>1 DEF IInv, FlTypeOK, ForkInv
<1>7. FreeInv' /\ FdsInv'
  BY <1>1 DEF IInv, FlTypeOK, FreeInv, FdsInv
<1>8. RefsCounted'
  <2>1. OnlyLocalsOf(p)
    BY <1>1 DEF OnlyLocalsOf, IInv, FlTypeOK
  <2>2. \A g \in Files : ref'[g] - ref[g] = Hold(p, g)' - Hold(p, g)
    BY <1>1, FileFacts DEF Hold, One, At, IInv, FlTypeOK
  <2> QED BY <1>1, <1>2, <2>1, <2>2, NetStepLocal DEF IInv
<1>9. PipeEndsOwned' /\ InodeRefsOwned'
  <2>1. StandSame
    BY <1>1 DEF StandSame
  <2> QED BY <1>1, <2>1, QuietStep DEF IInv, FlTypeOK
<1> QED BY <1>2, <1>3, <1>4, <1>5, <1>6, <1>7, <1>8, <1>9 DEF IInv

\* exit() takes the file out of its lowest descriptor.
LEMMA ExitFdStep ==
  ASSUME IInv, NEW p \in FileProcs, ExitFd(p) PROVE IInv'
<1>1. PICK a \in Fds : /\ ofile[p][a] # None /\ ofile' = [ofile EXCEPT ![p][a] = None]
                       /\ closing' = [closing EXCEPT ![p] = <<ofile[p][a]>>]
  BY DEF ExitFd
<1>2. /\ fpc[p] = "exit" /\ closing[p] = <<>>
      /\ UNCHANGED <<ref, obj, pageused, open, iref, fpc, rf, wf, ff, child, fidx>>
  BY DEF ExitFd, At
<1>3. PICK f \in Files : f = ofile[p][a]
  BY <1>1 DEF IInv, FlTypeOK
<1>4. <<f>> \in Seq(Files) /\ Len(<<f>>) = 1 /\ <<f>>[1] = f
  BY <1>3
<1>5. \A q \in FileProcs, h \in Fds : ofile'[q][h] = IF q = p /\ h = a THEN None ELSE ofile[q][h]
  BY <1>1, <1>3 DEF IInv, FlTypeOK
<1>6. FlTypeOK'
  BY <1>1, <1>2, <1>3, <1>4, <1>5 DEF IInv, FlTypeOK, Pcs
<1>7. LocalsInv'
  BY <1>1, <1>2, <1>3, <1>4, <1>5, FileFacts DEF IInv, FlTypeOK, LocalsInv, Setup
<1>8. SetupInv'
  BY <1>1, <1>2, <1>3, <1>4, <1>5, FileFacts DEF IInv, FlTypeOK, SetupInv, Setup, FreeInv, LocalsInv
<1>9. DupInv'
  <2>1. ASSUME NEW q \in FileProcs, fpc'[q] = "dup"
        PROVE  \E b, c \in Fds : b # c /\ ofile'[q][b] = rf'[q] /\ ofile'[q][c] = rf'[q]
    <3>1. q # p /\ fpc[q] = "dup" /\ rf'[q] = rf[q]
      BY <1>1, <1>2, <1>3, <1>4, <1>5, <2>1 DEF IInv, FlTypeOK
    <3>2. PICK b \in Fds, c \in Fds : b # c /\ ofile[q][b] = rf[q] /\ ofile[q][c] = rf[q]
      BY <3>1 DEF IInv, DupInv, At
    <3> QED BY <1>1, <1>2, <1>3, <1>4, <1>5, <3>1, <3>2
  <2> QED BY <2>1 DEF DupInv, At
<1>10. ForkInv'
  <2>1. \A q \in FileProcs : /\ fpc'[q] = "unused" => fpc[q] = "unused" /\ q # p
                             /\ fpc'[q] = "fork" => fpc[q] = "fork" /\ child[q] \in FileProcs
                             /\ fpc[q] = "embryo" => fpc'[q] = "embryo"
    BY <1>1, <1>2, <1>3, <1>4, <1>5 DEF IInv, FlTypeOK
  <2>2. \A q \in FileProcs, h \in Fds : ofile[q][h] = None => ofile'[q][h] = None
    BY <1>1, <1>2, <1>3, <1>4, <1>5
  <2> QED BY <1>1, <1>2, <1>3, <1>4, <1>5, <2>1, <2>2 DEF IInv, ForkInv
<1>11. FreeInv' /\ FdsInv'
  BY <1>1, <1>2, <1>3, <1>4, <1>5 DEF IInv, FlTypeOK, FreeInv, FdsInv
<1>12. RefsCounted'
  <2>1. OnlyLocalsOf(p)
    BY <1>1, <1>2, <1>3, <1>4, <1>5 DEF OnlyLocalsOf, IInv, FlTypeOK
  <2>2. ASSUME NEW g \in Files
        PROVE  ref'[g] = ref[g] + (Count(InOfile(g))' - Count(InOfile(g))) + (Hold(p, g)' - Hold(p, g))
    <3>1. Count(InOfile(g))' = Count(InOfile(g)) + One(ofile'[p][a] = g) - One(ofile[p][a] = g)
      <4>1. p \in FileProcs /\ a \in Fds /\ \A r \in FileProcs, h \in Fds : r # p \/ h # a => ofile'[r][h] = ofile[r][h]
        BY <1>1, <1>2, <1>3, <1>4, <1>5
      <4> QED BY <4>1, OfileMoves DEF One
    <3>2. One(ofile'[p][a] = g) - One(ofile[p][a] = g) = 0 - One(f = g)
      BY <1>1, <1>2, <1>3, <1>4, <1>5, FileFacts DEF One
    <3>3. Hold(p, g)' - Hold(p, g) = One(f = g)
      BY <1>1, <1>2, <1>3, <1>4, <1>5, FileFacts DEF Hold, One, At, IInv, FlTypeOK
    <3>4. /\ ref[g] \in Int /\ Count(InOfile(g)) \in Int /\ One(f = g) \in Int
          /\ One(ofile'[p][a] = g) \in Int /\ One(ofile[p][a] = g) \in Int
      BY CountsAreNat DEF IInv, FlTypeOK, One
    <3>5. ref'[g] = ref[g]
      BY <1>1, <1>2, <1>3, <1>4, <1>5 DEF IInv, FlTypeOK, One
    <3> QED BY <3>1, <3>2, <3>3, <3>4, <3>5
  <2> QED BY <1>6, <2>1, <2>2, NetStep DEF IInv
<1>13. PipeEndsOwned' /\ InodeRefsOwned'
  <2>1. StandSame
    BY <1>1, <1>2, <1>3, <1>4, <1>5 DEF StandSame
  <2> QED BY <1>1, <1>2, <1>3, <1>4, <1>5, <2>1, QuietStep DEF IInv, FlTypeOK
<1> QED BY <1>6, <1>7, <1>8, <1>9, <1>10, <1>11, <1>12, <1>13 DEF IInv

\* close() or exit() has closed everything.
LEMMA CloseDoneStep ==
  ASSUME IInv, NEW p \in FileProcs, CloseDone(p) PROVE IInv'
<1>1. /\ fpc[p] \in {"close", "exit"} /\ closing[p] = <<>>
      /\ fpc[p] = "exit" => \A fd \in Fds : ofile[p][fd] = None
      /\ fpc' = [fpc EXCEPT ![p] = IF fpc[p] = "exit" THEN "unused" ELSE "user"]
      /\ UNCHANGED <<ref, obj, ofile, pageused, open, iref, rf, wf, closing, ff, child, fidx>>
  BY DEF CloseDone, At, FlGoto, flocals
<1>2. FlTypeOK'
  BY <1>1 DEF IInv, FlTypeOK, Pcs
<1>3. LocalsInv'
  BY <1>1, FileFacts DEF IInv, FlTypeOK, LocalsInv, Setup
<1>4. SetupInv'
  BY <1>1, FileFacts DEF IInv, FlTypeOK, SetupInv, Setup, FreeInv, LocalsInv
<1>5. DupInv'
  BY <1>1 DEF IInv, FlTypeOK, DupInv, At
<1>6. ForkInv'
  <2>1. \A q \in FileProcs : /\ fpc'[q] = "unused" => fpc[q] = "unused" \/ (q = p /\ \A fd \in Fds : ofile[p][fd] = None)
                             /\ fpc'[q] = "fork" => fpc[q] = "fork" /\ child[q] \in FileProcs
                             /\ fpc[q] = "embryo" => fpc'[q] = "embryo"
    BY <1>1 DEF IInv, FlTypeOK
  <2> QED BY <1>1, <2>1 DEF IInv, ForkInv
<1>7. FreeInv' /\ FdsInv'
  BY <1>1 DEF IInv, FlTypeOK, FreeInv, FdsInv
<1>8. RefsCounted'
  <2>1. OnlyLocalsOf(p)
    BY <1>1 DEF OnlyLocalsOf, IInv, FlTypeOK
  <2>2. \A g \in Files : ref'[g] - ref[g] = Hold(p, g)' - Hold(p, g)
    BY <1>1, FileFacts DEF Hold, One, At, IInv, FlTypeOK
  <2> QED BY <1>1, <1>2, <2>1, <2>2, NetStepLocal DEF IInv
<1>9. PipeEndsOwned' /\ InodeRefsOwned'
  <2>1. StandSame
    BY <1>1 DEF StandSame
  <2> QED BY <1>1, <2>1, QuietStep DEF IInv, FlTypeOK
<1> QED BY <1>2, <1>3, <1>4, <1>5, <1>6, <1>7, <1>8, <1>9 DEF IInv

\* fileclose() of a file that others refer to.
LEMMA FileCloseSharedStep ==
  ASSUME IInv, NEW p \in FileProcs, FileCloseShared(p) PROVE IInv'
<1>1. /\ fpc[p] \in {"close", "exit"} /\ closing[p] # <<>> /\ ref[Head(closing[p])] > 1
      /\ ref' = [ref EXCEPT ![Head(closing[p])] = @ - 1]
      /\ closing' = [closing EXCEPT ![p] = Tail(@)]
      /\ UNCHANGED <<obj, ofile, pageused, open, iref, fpc, rf, wf, ff, child, fidx>>
  BY DEF FileCloseShared, Closing
<1>2. PICK f \in Files, s \in Seq(Files) :
        /\ f = closing[p][1] /\ s = Tail(closing[p]) /\ Head(closing[p]) = f /\ Len(s) = Len(closing[p]) - 1
        /\ Len(closing[p]) \in 1..2 /\ (Len(s) = 1 => s[1] = closing[p][2])
  <2>1. closing[p] \in Seq(Files) /\ closing[p] # <<>> /\ Len(closing[p]) <= 2
    BY <1>1 DEF IInv, FlTypeOK
  <2>2. /\ Head(closing[p]) \in Files /\ Tail(closing[p]) \in Seq(Files)
        /\ Len(Tail(closing[p])) = Len(closing[p]) - 1 /\ Len(closing[p]) \in Nat /\ Len(closing[p]) >= 1
    BY <2>1, HeadTailProperties, EmptySeq
  <2>3. Head(closing[p]) = closing[p][1]
    BY <2>1
  <2>4. Len(closing[p]) = 2 => Tail(closing[p])[1] = closing[p][2]
    BY <2>1
  <2>5. /\ closing[p][1] \in Files /\ Len(closing[p]) \in 1..2
        /\ Len(Tail(closing[p])) = 1 => Tail(closing[p])[1] = closing[p][2]
    <3>1. closing[p][1] \in Files
      BY <2>2, <2>3
    <3>2. Len(closing[p]) \in 1..2
      <4> DEFINE n == Len(closing[p])
      <4>1. n <= 2 /\ n >= 1 /\ n \in Nat
        BY <2>1, <2>2
      <4> HIDE DEF n
      <4>2. n \in 1..2
        BY <4>1
      <4> QED BY <4>2 DEF n
    <3>3. Len(Tail(closing[p])) = 1 => Len(closing[p]) = 2
      BY <2>2, <3>2
    <3> QED BY <2>4, <3>1, <3>2, <3>3
  <2> QED BY <2>2, <2>3, <2>5, Zenon
<1>3. /\ ref[f] \in Nat /\ ref[f] > 1 /\ ref' = [ref EXCEPT ![f] = ref[f] - 1]
      /\ closing' = [closing EXCEPT ![p] = s]
  BY <1>1, <1>2 DEF IInv, FlTypeOK
<1>4. FlTypeOK'
  BY <1>1, <1>2, <1>3, SMTT(30) DEF IInv, FlTypeOK, Pcs
<1>5. LocalsInv'
  BY <1>1, <1>2, <1>3, FileFacts DEF IInv, FlTypeOK, LocalsInv, Setup
<1>6. SetupInv'
  BY <1>1, <1>2, <1>3, FileFacts DEF IInv, FlTypeOK, SetupInv, Setup, FreeInv, LocalsInv
<1>7. DupInv'
  BY <1>1, <1>2, <1>3 DEF IInv, FlTypeOK, DupInv, At
<1>8. ForkInv'
  BY <1>1, <1>2, <1>3 DEF IInv, FlTypeOK, ForkInv
<1>9. FreeInv' /\ FdsInv'
  BY <1>1, <1>2, <1>3 DEF IInv, FlTypeOK, FreeInv, FdsInv
<1>10. RefsCounted'
  <2>1. OnlyLocalsOf(p)
    BY <1>1, <1>2, <1>3 DEF OnlyLocalsOf, IInv, FlTypeOK
  <2>2. ASSUME NEW g \in Files PROVE Hold(p, g)' - Hold(p, g) = 0 - One(f = g)
    <3>1. /\ fpc'[p] = "dup" <=> fpc[p] = "dup"
          /\ rf' = rf /\ wf' = wf /\ closing'[p] = s
      BY <1>1, <1>2, <1>3 DEF IInv, FlTypeOK
    <3>2. /\ One(~At(p, "dup") /\ rf[p] = g)' = One(~At(p, "dup") /\ rf[p] = g)
          /\ One(At(p, "dup") /\ rf[p] = g)' = One(At(p, "dup") /\ rf[p] = g)
          /\ One(wf[p] = g)' = One(wf[p] = g)
      BY <3>1 DEF One, At
    <3>3. /\ One(1 <= Len(closing[p]) /\ closing[p][1] = g)' = One(Len(closing[p]) = 2 /\ closing[p][2] = g)
          /\ One(2 <= Len(closing[p]) /\ closing[p][2] = g)' = 0
          /\ One(1 <= Len(closing[p]) /\ closing[p][1] = g) = One(f = g)
          /\ One(2 <= Len(closing[p]) /\ closing[p][2] = g) = One(Len(closing[p]) = 2 /\ closing[p][2] = g)
      BY <1>2, <3>1 DEF One
    <3>4. /\ One(~At(p, "dup") /\ rf[p] = g) \in Int /\ One(At(p, "dup") /\ rf[p] = g) \in Int
          /\ One(wf[p] = g) \in Int /\ One(f = g) \in Int /\ One(Len(closing[p]) = 2 /\ closing[p][2] = g) \in Int
      BY DEF One
    <3> QED BY <3>2, <3>3, <3>4 DEF Hold
  <2>3. \A g \in Files : ref'[g] - ref[g] = 0 - One(f = g)
    BY <1>1, <1>2, <1>3 DEF IInv, FlTypeOK, One
  <2> QED BY <1>1, <1>2, <1>3, <1>4, <2>1, <2>2, <2>3, NetStepLocal DEF IInv
<1>11. PipeEndsOwned' /\ InodeRefsOwned'
  <2>1. StandSame
    BY <1>1, <1>2, <1>3 DEF StandSame, IInv, FlTypeOK
  <2> QED BY <1>1, <1>2, <1>3, <2>1, QuietStep DEF IInv, FlTypeOK
<1> QED BY <1>4, <1>5, <1>6, <1>7, <1>8, <1>9, <1>10, <1>11 DEF IInv

\* fileclose() of the last reference: the entry is free, and ff keeps what it stood for.
LEMMA FileCloseLastStep ==
  ASSUME IInv, NEW p \in FileProcs, FileCloseLast(p) PROVE IInv'
<1>1. /\ fpc[p] \in {"close", "exit"} /\ closing[p] # <<>> /\ ref[Head(closing[p])] = 1
      /\ ref' = [ref EXCEPT ![Head(closing[p])] = 0]
      /\ obj' = [obj EXCEPT ![Head(closing[p])] = NoObject]
      /\ ff' = [ff EXCEPT ![p] = obj[Head(closing[p])]]
      /\ closing' = [closing EXCEPT ![p] = Tail(@)]
      /\ fpc' = [fpc EXCEPT ![p] = IF fpc[p] = "exit" THEN "exit_last" ELSE "close_last"]
      /\ UNCHANGED <<ofile, pageused, open, iref, rf, wf, child, fidx>>
  BY DEF FileCloseLast, Closing, At, FlGoto
<1>2. PICK f \in Files, s \in Seq(Files) :
        /\ f = closing[p][1] /\ s = Tail(closing[p]) /\ Head(closing[p]) = f /\ Len(s) = Len(closing[p]) - 1
        /\ Len(closing[p]) \in 1..2 /\ (Len(s) = 1 => s[1] = closing[p][2])
  <2>1. closing[p] \in Seq(Files) /\ closing[p] # <<>> /\ Len(closing[p]) <= 2
    BY <1>1 DEF IInv, FlTypeOK
  <2>2. /\ Head(closing[p]) \in Files /\ Tail(closing[p]) \in Seq(Files)
        /\ Len(Tail(closing[p])) = Len(closing[p]) - 1 /\ Len(closing[p]) \in Nat /\ Len(closing[p]) >= 1
    BY <2>1, HeadTailProperties, EmptySeq
  <2>3. Head(closing[p]) = closing[p][1]
    BY <2>1
  <2>4. Len(closing[p]) = 2 => Tail(closing[p])[1] = closing[p][2]
    BY <2>1
  <2>5. /\ closing[p][1] \in Files /\ Len(closing[p]) \in 1..2
        /\ Len(Tail(closing[p])) = 1 => Tail(closing[p])[1] = closing[p][2]
    <3>1. closing[p][1] \in Files
      BY <2>2, <2>3
    <3>2. Len(closing[p]) \in 1..2
      <4> DEFINE n == Len(closing[p])
      <4>1. n <= 2 /\ n >= 1 /\ n \in Nat
        BY <2>1, <2>2
      <4> HIDE DEF n
      <4>2. n \in 1..2
        BY <4>1
      <4> QED BY <4>2 DEF n
    <3>3. Len(Tail(closing[p])) = 1 => Len(closing[p]) = 2
      BY <2>2, <3>2
    <3> QED BY <2>4, <3>1, <3>2, <3>3
  <2> QED BY <2>2, <2>3, <2>5, Zenon
<1>3. /\ ref[f] = 1 /\ ref' = [ref EXCEPT ![f] = 0] /\ obj' = [obj EXCEPT ![f] = NoObject]
      /\ ff' = [ff EXCEPT ![p] = obj[f]] /\ closing' = [closing EXCEPT ![p] = s]
      /\ ff[p] = NoObject /\ NoObject \in Objects
  BY <1>1, <1>2, ObjectFacts DEF IInv, FlTypeOK, LocalsInv
<1>4. /\ \A q \in FileProcs : rf[q] # f /\ wf[q] # f
      /\ \A q \in FileProcs, fd \in Fds : ofile[q][fd] # f
  BY <1>1, <1>2, <1>3, OneRef DEF IInv
<1>5. FlTypeOK'
  BY <1>1, <1>2, <1>3, <1>4 DEF IInv, FlTypeOK, Pcs
<1>6. LocalsInv'
  BY <1>1, <1>2, <1>3, <1>4, FileFacts DEF IInv, FlTypeOK, LocalsInv, Setup
<1>7. SetupInv'
  BY <1>1, <1>2, <1>3, <1>4, FileFacts DEF IInv, FlTypeOK, SetupInv, Setup, FreeInv, LocalsInv
<1>8. DupInv'
  BY <1>1, <1>2, <1>3, <1>4 DEF IInv, FlTypeOK, DupInv, At
<1>9. ForkInv'
  BY <1>1, <1>2, <1>3, <1>4 DEF IInv, FlTypeOK, ForkInv
<1>10. FreeInv' /\ FdsInv'
  BY <1>1, <1>2, <1>3, <1>4 DEF IInv, FlTypeOK, FreeInv, FdsInv
<1>11. RefsCounted'
  <2>1. OnlyLocalsOf(p)
    BY <1>1, <1>2, <1>3, <1>4 DEF OnlyLocalsOf, IInv, FlTypeOK
  <2>2. ASSUME NEW g \in Files PROVE Hold(p, g)' - Hold(p, g) = 0 - One(f = g)
    <3>1. /\ fpc'[p] = "dup" <=> fpc[p] = "dup"
          /\ rf' = rf /\ wf' = wf /\ closing'[p] = s
      BY <1>1, <1>2, <1>3, <1>4 DEF IInv, FlTypeOK
    <3>2. /\ One(~At(p, "dup") /\ rf[p] = g)' = One(~At(p, "dup") /\ rf[p] = g)
          /\ One(At(p, "dup") /\ rf[p] = g)' = One(At(p, "dup") /\ rf[p] = g)
          /\ One(wf[p] = g)' = One(wf[p] = g)
      BY <3>1 DEF One, At
    <3>3. /\ One(1 <= Len(closing[p]) /\ closing[p][1] = g)' = One(Len(closing[p]) = 2 /\ closing[p][2] = g)
          /\ One(2 <= Len(closing[p]) /\ closing[p][2] = g)' = 0
          /\ One(1 <= Len(closing[p]) /\ closing[p][1] = g) = One(f = g)
          /\ One(2 <= Len(closing[p]) /\ closing[p][2] = g) = One(Len(closing[p]) = 2 /\ closing[p][2] = g)
      BY <1>2, <3>1 DEF One
    <3>4. /\ One(~At(p, "dup") /\ rf[p] = g) \in Int /\ One(At(p, "dup") /\ rf[p] = g) \in Int
          /\ One(wf[p] = g) \in Int /\ One(f = g) \in Int /\ One(Len(closing[p]) = 2 /\ closing[p][2] = g) \in Int
      BY DEF One
    <3> QED BY <3>2, <3>3, <3>4 DEF Hold
  <2>3. \A g \in Files : ref'[g] - ref[g] = 0 - One(f = g)
    BY <1>1, <1>2, <1>3, <1>4 DEF IInv, FlTypeOK, One
  <2> QED BY <1>1, <1>2, <1>3, <1>4, <1>5, <2>1, <2>2, <2>3, NetStepLocal DEF IInv
<1>12. PipeEndsOwned' /\ InodeRefsOwned'
  <2>1. ASSUME NEW o \in Objects \ {NoObject} PROVE Standing(o)' = Standing(o)
    <3>1. \A g \in Files : g # f => (ref'[g] > 0 /\ obj'[g] = o <=> ref[g] > 0 /\ obj[g] = o)
      BY <1>3 DEF IInv, FlTypeOK
    <3>2. \A q \in FileProcs : q # p => (ff'[q] = o <=> ff[q] = o)
      BY <1>3 DEF IInv, FlTypeOK
    <3>3. /\ Standing(o) \in Nat
          /\ Standing(o)' = Standing(o)
               + One(ref'[f] > 0 /\ obj'[f] = o) - One(ref[f] > 0 /\ obj[f] = o)
               + One(ff'[p] = o) - One(ff[p] = o)
      BY <3>1, <3>2, StandingMoves DEF One
    <3>4. ~(ref'[f] > 0) /\ ref[f] > 0 /\ ff'[p] = obj[f] /\ ff[p] # o
      BY <1>3, <2>1 DEF IInv, FlTypeOK
    <3> QED BY <3>3, <3>4 DEF One
  <2>2. PipeEndsOwned'
    BY <1>1, <2>1, ObjectFacts, PipesKept DEF IInv
  <2>3. Opens' = Opens
    BY <1>1 DEF Opens, IInv, FlTypeOK
  <2>4. InodeRefsOwned'
    BY <1>1, <2>1, <2>3, ObjectFacts DEF IInv, InodeRefsOwned, Opens
  <2> QED BY <2>2, <2>4
<1> QED BY <1>5, <1>6, <1>7, <1>8, <1>9, <1>10, <1>11, <1>12 DEF IInv

\* The rest of fileclose(): the end of a pipe is closed, or the inode put.
LEMMA DisposeStep ==
  ASSUME IInv, NEW p \in FileProcs, Dispose(p) PROVE IInv'
<1>1. /\ fpc[p] \in {"close_last", "exit_last"}
      /\ IF ff[p].type = "pipe"
           THEN /\ open' = [open EXCEPT ![ff[p].page] = @ \ {ff[p].end}]
                /\ pageused' = IF open[ff[p].page] \subseteq {ff[p].end} THEN pageused \ {ff[p].page} ELSE pageused
           ELSE UNCHANGED <<open, pageused>>
      /\ iref' = IF ff[p].type = "inode" THEN iref - 1 ELSE iref
      /\ ff' = [ff EXCEPT ![p] = NoObject]
      /\ fpc' = [fpc EXCEPT ![p] = IF fpc[p] = "exit_last" THEN "exit" ELSE "close"]
      /\ UNCHANGED <<ref, obj, ofile, rf, wf, closing, child, fidx>>
  BY DEF Dispose, At, FlGoto
<1>2. PICK o \in Objects : o = ff[p]
  BY DEF IInv, FlTypeOK
<1>3. o.type = "pipe" => o.page \in Pages /\ o.end \in {"r", "w"} /\ o = PipeEnd(o.page, o.end)
  BY <1>2, ObjectFacts
<1>4. \A b \in Objects \ {NoObject} : Standing(b) \in Nat /\ Standing(b)' = Standing(b) - One(b = o)
  <2> SUFFICES ASSUME NEW b \in Objects \ {NoObject}
               PROVE  Standing(b) \in Nat /\ Standing(b)' = Standing(b) - One(b = o)
    OBVIOUS
  <2>1. Standing(b) = Count({f \in Files : ref[f] > 0 /\ obj[f] = b}) + Count({q \in FileProcs : ff[q] = b})
        /\ Standing(b)' = Count({f \in Files : ref[f] > 0 /\ obj[f] = b}) + Count({q \in FileProcs : ff'[q] = b})
    BY <1>1 DEF Standing
  <2> DEFINE A == {q \in FileProcs : ff[q] = b}
             C == {q \in FileProcs : ff'[q] = b}
             G == {f \in Files : ref[f] > 0 /\ obj[f] = b}
  <2>2. /\ A \subseteq FileProcs /\ C \subseteq FileProcs /\ G \subseteq Files
        /\ \A q \in FileProcs : q # p => (q \in A <=> q \in C)
        /\ p \in A <=> b = o
        /\ p \notin C
    BY <1>1, <1>2 DEF IInv, FlTypeOK
  <2> HIDE DEF A, C, G
  <2>3. Cardinality(A) \in Nat /\ Cardinality(C) = Cardinality(A) + One(p \in C) - One(p \in A)
    BY <2>2, FiniteParts, OneMoves
  <2>4. Cardinality(G) \in Nat
    BY <2>2, FiniteParts, CountType
  <2> QED BY <2>1, <2>2, <2>3, <2>4 DEF A, C, G, Count, One
<1>5. o # NoObject => Standing(o) >= 1
  BY <1>2, StandingCounts
<1>6. /\ Count(Opens) \in Nat /\ Standing(Inode) \in Nat /\ iref = Standing(Inode) + Count(Opens)
      /\ iref \in 0..MaxInodeRefs
  BY CountType, StandingCounts, FiniteParts DEF IInv, InodeRefsOwned, Opens, FlTypeOK, Count
<1>7. /\ o.type = "inode" => o = Inode
      /\ o.type = "pipe" => o # NoObject /\ o # Inode
      /\ Inode \in Objects \ {NoObject} /\ NoObject \in Objects
      /\ o.type \in {"none", "inode", "pipe"} /\ (o.type = "none" => o = NoObject)
  BY <1>2, <1>3, ObjectFacts
<1>8. FlTypeOK'
  <2>1. iref' \in 0..MaxInodeRefs
    <3>1. CASE o.type = "inode"
      <4>1. Standing(Inode) >= 1 /\ iref' = iref - 1
        BY <1>1, <1>2, <1>5, <1>7, <3>1
      <4> QED BY <1>6, <4>1, FileAssumption
    <3>2. CASE o.type # "inode"
      BY <1>1, <1>2, <1>6, <3>2
    <3> QED BY <3>1, <3>2
  <2>2. pageused' \subseteq Pages /\ open' \in [Pages -> SUBSET {"r", "w"}]
    <3>1. pageused \subseteq Pages /\ open \in [Pages -> SUBSET {"r", "w"}]
      BY DEF IInv, FlTypeOK
    <3>2. CASE ff[p].type = "pipe"
      <4>1. /\ open' = [open EXCEPT ![o.page] = open[o.page] \ {o.end}] /\ o.page \in Pages
            /\ pageused' \subseteq pageused
        BY <1>1, <1>2, <1>3, <3>2
      <4>2. open[o.page] \ {o.end} \in SUBSET {"r", "w"}
        BY <3>1, <4>1
      <4> QED BY <3>1, <4>1, <4>2
    <3>3. CASE ff[p].type # "pipe"
      BY <1>1, <3>1, <3>3
    <3> QED BY <3>2, <3>3
  <2>3. fpc' \in [FileProcs -> Pcs] /\ ff' \in [FileProcs -> Objects]
    BY <1>1, <1>7 DEF IInv, FlTypeOK, Pcs
  <2> QED BY <1>1, <2>1, <2>2, <2>3 DEF IInv, FlTypeOK
<1>9. LocalsInv'
  BY <1>1, <1>2, <1>3, <1>4, <1>5, <1>6, <1>7, FileFacts DEF IInv, FlTypeOK, LocalsInv, Setup
<1>10. SetupInv'
  BY <1>1, <1>2, <1>3, <1>4, <1>5, <1>6, <1>7, FileFacts DEF IInv, FlTypeOK, SetupInv, Setup, FreeInv, LocalsInv
<1>11. DupInv'
  BY <1>1, <1>2, <1>3, <1>4, <1>5, <1>6, <1>7 DEF IInv, FlTypeOK, DupInv, At
<1>12. ForkInv'
  BY <1>1, <1>2, <1>3, <1>4, <1>5, <1>6, <1>7 DEF IInv, FlTypeOK, ForkInv
<1>13. FreeInv' /\ FdsInv'
  BY <1>1, <1>2, <1>3, <1>4, <1>5, <1>6, <1>7 DEF IInv, FlTypeOK, FreeInv, FdsInv
<1>14. RefsCounted'
  <2>1. OnlyLocalsOf(p)
    BY <1>1, <1>2, <1>3, <1>4, <1>5, <1>6, <1>7 DEF OnlyLocalsOf, IInv, FlTypeOK
  <2>2. \A g \in Files : ref'[g] - ref[g] = Hold(p, g)' - Hold(p, g)
    BY <1>1, <1>2, <1>3, <1>4, <1>5, <1>6, <1>7, FileFacts DEF Hold, One, At, IInv, FlTypeOK
  <2> QED BY <1>1, <1>2, <1>3, <1>4, <1>5, <1>6, <1>7, <1>8, <2>1, <2>2, NetStepLocal DEF IInv
<1>15. PipeEndsOwned' /\ InodeRefsOwned'
  <2>1. InodeRefsOwned'
    <3>1. Opens' = Opens
      BY <1>1 DEF Opens, IInv, FlTypeOK
    <3>2. Standing(Inode)' = Standing(Inode) - One(Inode = o)
      BY <1>4, <1>7
    <3>3. iref' = iref - One(Inode = o)
      BY <1>1, <1>2, <1>6, <1>7 DEF One, Inode
    <3>4. iref' = Standing(Inode)' + Count(Opens)
      BY <1>6, <3>2, <3>3 DEF One
    <3>5. Count(Opens)' = Count(Opens)
      BY <3>1 DEF Count
    <3> QED BY <3>4, <3>5 DEF InodeRefsOwned, Opens
  <2>2. CASE o.type = "pipe"
    <3>1. PICK n \in Pages, e \in {"r", "w"} : o = PipeEnd(n, e) /\ n = o.page /\ e = o.end
      BY <1>3, <2>2
    <3>2. /\ open' = [open EXCEPT ![n] = @ \ {e}]
          /\ pageused' = IF open[n] \subseteq {e} THEN pageused \ {n} ELSE pageused
      BY <1>1, <1>2, <2>2, <3>1
    <3>3. e \in open[n] /\ Standing(o) = 1
      BY <1>5, <1>7, <2>2, <3>1 DEF IInv, PipeEndsOwned
    <3>4. ASSUME NEW h \in Pages, NEW d \in {"r", "w"}
          PROVE  Standing(PipeEnd(h, d))' = IF d \in open'[h] THEN 1 ELSE 0
      <4>1. PipeEnd(h, d) \in Objects \ {NoObject} /\ (PipeEnd(h, d) = o <=> h = n /\ d = e)
        BY <3>1, ObjectFacts
      <4>2. /\ Standing(PipeEnd(h, d)) = IF d \in open[h] THEN 1 ELSE 0
            /\ Standing(PipeEnd(h, d))' = Standing(PipeEnd(h, d)) - One(h = n /\ d = e)
        BY <1>4, <4>1 DEF IInv, PipeEndsOwned, One
      <4>3. d \in open'[h] <=> d \in open[h] /\ ~(h = n /\ d = e)
        BY <3>2 DEF IInv, FlTypeOK
      <4> QED BY <3>3, <4>2, <4>3 DEF One
    <3>5. ASSUME NEW h \in Pages PROVE h \in pageused' <=> open'[h] # {}
      <4>1. h \in pageused <=> open[h] # {}
        BY DEF IInv, PipeEndsOwned
      <4>2. open'[h] = IF h = n THEN open[n] \ {e} ELSE open[h]
        BY <3>2 DEF IInv, FlTypeOK
      <4> QED BY <3>2, <3>3, <4>1, <4>2
    <3> QED BY <2>1, <3>4, <3>5 DEF PipeEndsOwned
  <2>3. CASE o.type # "pipe"
    <3>1. open' = open /\ pageused' = pageused
      BY <1>1, <1>2, <2>3
    <3>2. \A n \in Pages, e \in {"r", "w"} : Standing(PipeEnd(n, e))' = Standing(PipeEnd(n, e))
      <4> SUFFICES ASSUME NEW n \in Pages, NEW e \in {"r", "w"}
                   PROVE  Standing(PipeEnd(n, e))' = Standing(PipeEnd(n, e))
        OBVIOUS
      <4>1. PipeEnd(n, e) \in Objects \ {NoObject} /\ PipeEnd(n, e).type = "pipe"
        BY ObjectFacts DEF PipeEnd
      <4>2. /\ Standing(PipeEnd(n, e)) \in Nat
            /\ Standing(PipeEnd(n, e))' = Standing(PipeEnd(n, e)) - One(PipeEnd(n, e) = o)
        BY <1>4, <4>1
      <4> QED BY <2>3, <4>1, <4>2 DEF One
    <3> QED BY <2>1, <3>1, <3>2, PipesKept DEF IInv
  <2> QED BY <2>2, <2>3
<1> QED BY <1>8, <1>9, <1>10, <1>11, <1>12, <1>13, <1>14, <1>15 DEF IInv

\* The invariant holds at the start.
LEMMA FileInit == FlInit => IInv
<1> SUFFICES ASSUME FlInit PROVE IInv
  OBVIOUS
<1>1. FlTypeOK
  BY FileAssumption, ObjectFacts DEF FlInit, FlTypeOK, Pcs
<1>2. LocalsInv /\ SetupInv /\ DupInv /\ FreeInv /\ FdsInv
  BY DEF FlInit, LocalsInv, SetupInv, Setup, DupInv, FreeInv, FdsInv, At
<1>3. ForkInv
  BY DEF FlInit, ForkInv
<1>4. RefsCounted
  <2> SUFFICES ASSUME NEW f \in Files
               PROVE  ref[f] + Count(Dups(f)) = Count(InOfile(f)) + Count(InClosing(f))
                        + Count(Setups(f)) + Count(Writes(f))
    BY DEF RefsCounted, Dups, Setups, Writes
  <2>1. Dups(f) = {} /\ InOfile(f) = {} /\ Setups(f) = {} /\ Writes(f) = {}
    BY FileFacts DEF FlInit, Dups, InOfile, Setups, Writes, At
  <2>2. InClosing(f) = {}
    BY DEF FlInit, InClosing
  <2>3. ref[f] = 0
    BY DEF FlInit
  <2> QED BY <2>1, <2>2, <2>3, FS_EmptySet DEF Count
<1>5. \A o \in Objects \ {NoObject} : Standing(o) = 0
  <2> SUFFICES ASSUME NEW o \in Objects \ {NoObject} PROVE Standing(o) = 0
    OBVIOUS
  <2>1. {f \in Files : ref[f] > 0 /\ obj[f] = o} = {} /\ {p \in FileProcs : ff[p] = o} = {}
    BY DEF FlInit
  <2> QED BY <2>1, FS_EmptySet DEF Standing, Count
<1>6. PipeEndsOwned
  BY <1>5, ObjectFacts DEF FlInit, PipeEndsOwned
<1>7. InodeRefsOwned
  <2>1. {p \in FileProcs : fpc[p] \in {"open_file", "open_fd"}} = {}
    BY DEF FlInit
  <2>2. Standing(Inode) = 0 /\ iref = 0
    BY <1>5, ObjectFacts DEF FlInit
  <2> QED BY <2>1, <2>2, FS_EmptySet DEF InodeRefsOwned, Count
<1> QED BY <1>1, <1>2, <1>3, <1>4, <1>6, <1>7 DEF IInv

LEMMA FileNext == IInv /\ [FlNext]_flVars => IInv'
<1> SUFFICES ASSUME IInv, [FlNext]_flVars PROVE IInv'
  OBVIOUS
<1>1. CASE UNCHANGED flVars
  BY <1>1, StutterInv
<1>2. CASE FlNext
  <2>1. PICK p \in FileProcs :
          \/ PipeCall(p) \/ PipeWriteFile(p) \/ PipeNoWriteFile(p)
          \/ PipePage(p) \/ PipeNoPage(p) \/ PipeFds(p) \/ PipeFdsFail(p)
          \/ OpenCall(p) \/ OpenFile(p) \/ OpenNoFile(p) \/ OpenFd(p) \/ OpenNoFd(p)
          \/ DupCall(p) \/ FileDup(p)
          \/ ForkDup(p) \/ ForkDone(p) \/ \E q \in FileProcs : ForkCall(p, q)
          \/ CloseCall(p) \/ ExitCall(p) \/ ExitFd(p)
          \/ FileCloseShared(p) \/ FileCloseLast(p) \/ Dispose(p) \/ CloseDone(p)
    BY <1>2 DEF FlNext
  <2> QED BY <2>1, PipeCallStep, PipeWriteFileStep, PipeNoWriteFileStep, PipePageStep,
             PipeNoPageStep, PipeFdsStep, PipeFdsFailStep, OpenCallStep, OpenFileStep,
             OpenNoFileStep, OpenFdStep, OpenNoFdStep, DupCallStep, FileDupStep, ForkDupStep,
             ForkDoneStep, ForkCallStep, CloseCallStep, ExitCallStep, ExitFdStep,
             FileCloseSharedStep, FileCloseLastStep, DisposeStep, CloseDoneStep
<1> QED BY <1>1, <1>2

\* What a call of file.c has in hand is what its pc says, and f->ref, the pipes and
\* the inode references agree with it, in every state.
THEOREM FileInvariant == FlSpec => []IInv
BY FileInit, FileNext, PTL DEF FlSpec

\* The file table, the descriptors and the locals of the calls always have their
\* types: no f->ref goes below 0, no inode is put too often.
THEOREM FileTypeCorrect == FlSpec => []FlTypeOK
<1>1. IInv => FlTypeOK
  BY DEF IInv
<1> QED BY <1>1, FileInvariant, PTL

\* Whatever calls fail half way, f->ref counts the references to f, every end of
\* a pipe has one file that stands for it, every reference to an inode has an
\* owner, and every descriptor of a program is usable.
THEOREM TableIsSound == FlSpec => []TableSound
<1>1. IInv => TableSound
  <2> SUFFICES ASSUME IInv PROVE FdsUsable
    BY DEF IInv, TableSound
  <2> SUFFICES ASSUME NEW p \in FileProcs, NEW fd \in Fds, ofile[p][fd] # None
               PROVE  ref[ofile[p][fd]] > 0 /\ obj[ofile[p][fd]].type # "none"
    BY DEF FdsUsable
  <2>1. ofile[p][fd] \in Files
    BY DEF IInv, FlTypeOK
  <2>2. ref[ofile[p][fd]] > 0
    BY <2>1, ReferredPositive DEF IInv
  <2>3. obj[ofile[p][fd]] \in Objects /\ obj[ofile[p][fd]] # NoObject
    BY <2>1 DEF IInv, FlTypeOK, FdsInv
  <2> QED BY <2>2, <2>3, ObjectFacts
<1> QED BY <1>1, FileInvariant, PTL
=============================================================================
