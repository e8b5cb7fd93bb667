------------------------------ MODULE LogProofs ------------------------------
(* Invariance and refinement proofs for Log, for every number of processes,    *)
(* home blocks, system calls and crashes.                                      *)
(*                                                                             *)
(* The argument has two layers.  Control (CtlInv): one thread at a time works  *)
(* on the log, and only while no system call is inside; the blocks in the      *)
(* header and the blocks that admitted calls may still add stay two below      *)
(* LOGSIZE (Fits).  Contents (DataInv): until the header is written the homes  *)
(* of logged blocks are untouched on disk; from then on the log holds, block   *)
(* by block, what the cache holds, and what is already installed agrees.       *)
EXTENDS Log, ArithFacts, SequenceTheorems, TLAPS

\* What the sizes of param.h and mkfs satisfy: LOGSIZE is three times MAXOPBLOCKS
\* and nlog is LOGSIZE.  A call stays below its reservation.
Roomy == /\ OpBlocks < MAXOPBLOCKS /\ 2 * MAXOPBLOCKS <= LOGSIZE
         /\ LOGSIZE <= nlog

-----------------------------------------------------------------------------
(* Control                                                                    *)

CallPcs == {"op", "append"}
InstallPcs == {"install", "install_io"}
CommitPcs == InstallPcs \cup {"write_log", "write_log_io", "committed"}
Active == {p \in Procs : pc[p] \in CallPcs}

\* Who runs when: recovery before everything else, then calls, or one committer.
PhaseInv ==
  /\ pc[boot] \in {"down", "read_head"} \cup InstallPcs
  /\ pc[boot] # "down" => \A p \in Procs : pc[p] = "down"
  /\ pc[boot] = "down" => \A p \in Procs : pc[p] \notin {"down", "read_head"}
  /\ \A p, q \in Procs : pc[p] \in CommitPcs /\ pc[q] \in CommitPcs => p = q
  /\ \A p \in Procs : pc[p] \in CommitPcs => committing
  /\ \A p \in Procs : pc[p] \in CallPcs => ~committing

\* log.outstanding counts the calls between begin_op() and end_op().
CountInv == IsFiniteSet(Active) /\ outstanding = Cardinality(Active)

\* The block a thread works on, and how far it has come.
PlaceInv ==
  \A p \in LogThreads :
    /\ pc[p] = "append" => blk[p] \in written[p]
    /\ pc[p] = "write_log_io" => blk[p] = tail[p] + 1 /\ tail[p] < Len(lh)
    /\ pc[p] = "install_io" => tail[p] < Len(lh) /\ blk[p] = lh[tail[p] + 1]
    /\ pc[p] \notin {"append", "write_log_io", "install_io"} => blk[p] = NoBlock
    /\ pc[p] \in {"write_log", "install"} => tail[p] <= Len(lh)
    /\ pc[p] \notin CommitPcs \/ pc[p] = "committed" => tail[p] = 0
    /\ pc[p] \notin CallPcs => written[p] = {}

Distinct(s) == \A i, j \in 1..Len(s) : s[i] = s[j] => i = j

\* The header in memory and on disk.
HeadInv ==
  /\ Distinct(lh) /\ Distinct(head)
  /\ \A p \in LogThreads : pc[p] \in InstallPcs => head = lh
  /\ pc[boot] = "down" /\ (\A p \in Procs : pc[p] \notin InstallPcs) => head = <<>>
  /\ pc[boot] = "read_head" => lh = <<>>
  /\ pc[boot] = "down" /\ ~committing /\ (\A p \in Procs : pc[p] \notin CallPcs) => lh = <<>>
  /\ \A p \in Procs : pc[p] = "committed" => lh = <<>>
  /\ crashes = 0 /\ pc[boot] # "down" => head = <<>>

\* A block that a call under way may still add to the log.
Tokens == {t \in Active \X (1..OpBlocks) : t[2] > Cardinality(written[t[1]] \cap Logged)}

\* The log has room for all of them, with two blocks to spare.
Fits ==
  /\ \A p \in Procs : Cardinality(written[p]) <= OpBlocks
  /\ Len(lh) + Cardinality(Tokens) <= LOGSIZE - 2
  /\ Len(head) <= LOGSIZE - 2

CtlInv == TypeOK /\ PhaseInv /\ CountInv /\ PlaceInv /\ HeadInv /\ Fits /\ ~panicked

-----------------------------------------------------------------------------
(* Contents                                                                   *)

Same(a) == cache[a] = disk[a]

\* No transaction is on disk: the homes of blocks not in the log are as in memory.
BeforeCommit ==
  pc[boot] = "down" /\ (\A p \in Procs : pc[p] \notin InstallPcs) =>
    \A b \in Home : \/ Same(b) \/ b \in Logged
                    \/ \E p \in Procs : pc[p] = "append" /\ blk[p] = b

\* What write_log() has copied.
WriteLogInv ==
  \A p \in Procs :
    /\ pc[p] \in {"write_log", "write_log_io"} =>
         \A i \in 1..tail[p] : Same(i) /\ disk[i] = cache[lh[i]]
    /\ pc[p] = "write_log_io" => cache[tail[p] + 1] = cache[lh[tail[p] + 1]]

\* A transaction is on disk: the log has it, and its installed blocks agree.
InstallInv ==
  \A p \in LogThreads : pc[p] \in InstallPcs =>
    /\ \A i \in 1..Len(lh) : Same(i)
    /\ \A i \in 1..tail[p] : Same(lh[i]) /\ disk[lh[i]] = disk[i]
    /\ \A b \in Home : b \notin Logged => Same(b)
    /\ p # boot => \A i \in 1..Len(lh) : cache[lh[i]] = disk[i]
    /\ pc[p] = "install_io" => cache[lh[tail[p] + 1]] = disk[tail[p] + 1]

\* Nothing is in memory yet.
RebootInv == pc[boot] = "read_head" => \A a \in Addrs : Same(a)

\* Until the first crash, what is logged and not installed is pinned.
PinInv ==
  crashes = 0 =>
    /\ \A a \in Addrs : pins[a] >= 0
    /\ \A i \in 1..Len(lh) :
         (\A p \in LogThreads : pc[p] \in InstallPcs => i > tail[p]) => pins[lh[i]] >= 1

DataInv == BeforeCommit /\ WriteLogInv /\ InstallInv /\ RebootInv /\ PinInv

-----------------------------------------------------------------------------
(* Sizes and places                                                           *)

\* The sizes are numbers, and boot is not a process.
LEMMA SizeFacts ==
  /\ NHome \in Nat /\ LOGSIZE \in Nat /\ MAXOPBLOCKS \in Nat /\ MAXOPBLOCKS > 0
  /\ OpBlocks \in Nat /\ nlog \in Nat /\ nlog > 0 /\ MaxOps \in Nat
  /\ MaxCrashes \in Nat /\ FullBoots \in Nat
  /\ boot \notin Procs /\ boot \in LogThreads /\ Procs \subseteq LogThreads
  /\ \A p \in LogThreads : p # boot => p \in Procs
BY SizesAssumption DEF boot, LogThreads

USE DEF volatile, locals, bounds, Goto

\* What calls under way may still add is finite.
LEMMA TokensFinite ==
  ASSUME IsFiniteSet(Active)
  PROVE  /\ IsFiniteSet(Tokens) /\ Cardinality(Tokens) \in Nat
         /\ Cardinality(Tokens) <= Cardinality(Active) * OpBlocks
         /\ Active = {} => Cardinality(Tokens) = 0
<1>1. IsFiniteSet(1..OpBlocks) /\ Cardinality(1..OpBlocks) = OpBlocks
  BY SizeFacts, FS_Interval
<1>2. /\ IsFiniteSet(Active \X (1..OpBlocks))
      /\ Cardinality(Active \X (1..OpBlocks)) = Cardinality(Active) * OpBlocks
  BY <1>1, FS_Product
<1>3. Tokens \in SUBSET (Active \X (1..OpBlocks)) BY DEF Tokens
<1>4. Active = {} => Tokens = {} BY DEF Tokens
<1> QED BY <1>2, <1>3, <1>4, FS_Subset, FS_CardinalityType, FS_EmptySet

\* The log's blocks are apart from the homes.
LEMMA Layout ==
  ASSUME Roomy, CtlInv
  PROVE  /\ Len(lh) \in Nat /\ Len(lh) < nlog
         /\ \A i \in 1..Len(lh) : /\ i \in Addrs /\ i \notin Home /\ i # NoBlock
                                  /\ lh[i] \in Home /\ lh[i] \in Addrs
         /\ Home \subseteq Addrs /\ NoBlock \notin Addrs
<1>1. lh \in Seq(Home) BY DEF CtlInv, TypeOK
<1>2. Len(lh) \in Nat /\ \A i \in 1..Len(lh) : lh[i] \in Home BY <1>1
<1>3. Cardinality(Tokens) \in Nat BY TokensFinite DEF CtlInv, CountInv
<1>4. Len(lh) < nlog BY <1>2, <1>3, SizeFacts DEF CtlInv, Fits, Roomy
<1>5. Home \subseteq Addrs /\ NoBlock \notin Addrs BY SizeFacts DEF Home, Addrs, NoBlock
<1>6. \A i \in 1..Len(lh) : i \in Addrs /\ i \notin Home /\ i # NoBlock
  BY <1>2, <1>4, SizeFacts DEF Home, Addrs, NoBlock
<1> QED BY <1>2, <1>4, <1>5, <1>6

\* begin_op() is called.
LEMMA BeginCallPlace ==
  ASSUME Roomy, CtlInv, NEW p \in Procs, BeginCall(p)
  PROVE  TypeOK' /\ PhaseInv' /\ PlaceInv' /\ HeadInv'
<1> USE SizeFacts DEF CtlInv, BeginCall
<1>1. TypeOK' BY Layout, SMTT(30) DEF TypeOK, PCs, Values
<1>2. PhaseInv' BY DEF TypeOK, PhaseInv, CallPcs, CommitPcs, InstallPcs
<1>3. PlaceInv' BY DEF TypeOK, PhaseInv, PlaceInv, CallPcs, CommitPcs, InstallPcs
<1>4. HeadInv' BY DEF TypeOK, PhaseInv, HeadInv, CallPcs, CommitPcs, InstallPcs
<1> QED BY <1>1, <1>2, <1>3, <1>4

\* begin_op() has to wait.
LEMMA BeginSleepPlace ==
  ASSUME Roomy, CtlInv, NEW p \in Procs, BeginSleep(p)
  PROVE  TypeOK' /\ PhaseInv' /\ PlaceInv' /\ HeadInv'
<1> USE SizeFacts DEF CtlInv, BeginSleep
<1>1. TypeOK' BY Layout DEF TypeOK, PCs, Values
<1>2. PhaseInv' BY DEF TypeOK, PhaseInv, CallPcs, CommitPcs, InstallPcs
<1>3. PlaceInv' BY DEF TypeOK, PhaseInv, PlaceInv, CallPcs, CommitPcs, InstallPcs
<1>4. HeadInv' BY DEF TypeOK, PhaseInv, HeadInv, CallPcs, CommitPcs, InstallPcs
<1> QED BY <1>1, <1>2, <1>3, <1>4

\* begin_op() admits the call.
LEMMA BeginOpPlace ==
  ASSUME Roomy, CtlInv, NEW p \in Procs, BeginOp(p)
  PROVE  TypeOK' /\ PhaseInv' /\ PlaceInv' /\ HeadInv'
<1> USE SizeFacts DEF CtlInv, BeginOp, MustWait
<1>1. TypeOK' BY Layout DEF TypeOK, PCs, Values
<1>2. PhaseInv' BY DEF TypeOK, PhaseInv, CallPcs, CommitPcs, InstallPcs
<1>3. PlaceInv' BY DEF TypeOK, PhaseInv, PlaceInv, CallPcs, CommitPcs, InstallPcs
<1>4. HeadInv' BY DEF TypeOK, PhaseInv, HeadInv, CallPcs, CommitPcs, InstallPcs
<1> QED BY <1>1, <1>2, <1>3, <1>4

\* A call changes a block and comes to log_write().
LEMMA ModifyPlace ==
  ASSUME Roomy, CtlInv, NEW p \in Procs, Modify(p)
  PROVE  TypeOK' /\ PhaseInv' /\ PlaceInv' /\ HeadInv'
<1> USE SizeFacts DEF CtlInv, Modify
<1>1. TypeOK' BY Layout, SMTT(30) DEF TypeOK, PCs, Values
<1>2. PhaseInv' BY DEF TypeOK, PhaseInv, CallPcs, CommitPcs, InstallPcs
<1>3. PlaceInv' BY DEF TypeOK, PhaseInv, PlaceInv, CallPcs, CommitPcs, InstallPcs
<1>4. HeadInv' BY DEF TypeOK, PhaseInv, HeadInv, CallPcs, CommitPcs, InstallPcs
<1> QED BY <1>1, <1>2, <1>3, <1>4

\* log_write() adds the block to the header.
LEMMA LogWritePlace ==
  ASSUME Roomy, CtlInv, NEW p \in Procs, LogWrite(p)
  PROVE  TypeOK' /\ PhaseInv' /\ PlaceInv' /\ HeadInv'
<1> USE SizeFacts DEF CtlInv, LogWrite
<1>0. blk[p] \in Home /\ blk[p] \in Addrs /\ lh \in Seq(Home)
  BY Layout DEF TypeOK, PlaceInv
<1>1. TypeOK'
  <2>1. Append(lh, blk[p]) \in Seq(Home) BY <1>0
  <2>2. lh' \in Seq(Home) BY <1>0, <2>1
  <2>3. pins' \in [Addrs -> Int] BY <1>0 DEF TypeOK
  <2>4. blk' \in [LogThreads -> Addrs \cup {NoBlock}] BY DEF TypeOK
  <2> QED BY <2>2, <2>3, <2>4 DEF TypeOK, PCs
<1>2. PhaseInv' BY DEF TypeOK, PhaseInv, CallPcs, CommitPcs, InstallPcs
<1>3. PlaceInv' BY DEF TypeOK, PhaseInv, PlaceInv, CallPcs, CommitPcs, InstallPcs
<1>4. HeadInv'
  <2>1. \A q \in LogThreads : pc'[q] = (IF q = p THEN "op" ELSE pc[q])
    BY DEF TypeOK
  <2>2. pc[boot] = "down" /\ \A q \in LogThreads : pc[q] \notin CommitPcs
    BY DEF PhaseInv, CallPcs, CommitPcs, InstallPcs
  <2>3. Distinct(lh')
    <3>1. CASE blk[p] \in Logged BY <3>1 DEF HeadInv
    <3>2. CASE blk[p] \notin Logged
      <4>1. /\ lh' = Append(lh, blk[p]) /\ Len(lh) \in Nat /\ Len(lh') = Len(lh) + 1
            /\ \A i \in 1..Len(lh) : lh'[i] = lh[i]
            /\ lh'[Len(lh) + 1] = blk[p]
        BY <1>0, <3>2, AppendProperties, SMTT(30)
      <4>2. \A i \in 1..Len(lh) : lh[i] # blk[p] BY <3>2 DEF Logged
      <4> SUFFICES ASSUME NEW i \in 1..Len(lh'), NEW j \in 1..Len(lh'), lh'[i] = lh'[j]
                   PROVE  i = j
        BY DEF Distinct
      <4>3. \A k \in 1..Len(lh') : k \in 1..Len(lh) \/ k = Len(lh) + 1 BY <4>1
      <4> QED BY <4>1, <4>2, <4>3 DEF HeadInv, Distinct
    <3> QED BY <3>1, <3>2
  <2>4. head' = head OBVIOUS
  <2> QED BY <2>1, <2>2, <2>3, <2>4 DEF HeadInv, CallPcs, CommitPcs, InstallPcs
<1> QED BY <1>1, <1>2, <1>3, <1>4

\* outstanding is 1 exactly when the caller is the only one inside.
LEMMA LastOut ==
  ASSUME CtlInv, NEW p \in Procs, pc[p] \in CallPcs
  PROVE  /\ p \in Active /\ outstanding \in Nat /\ outstanding >= 1
         /\ outstanding = 1 <=> \A q \in Procs : pc[q] \in CallPcs => q = p
<1>1. p \in Active /\ IsFiniteSet(Active) /\ outstanding = Cardinality(Active)
  BY DEF Active, CtlInv, CountInv
<1>2. outstanding \in Nat /\ outstanding # 0 BY <1>1, FS_CardinalityType, FS_EmptySet
<1>3. outstanding = 1 <=> \E x : Active = {x} BY <1>1, FS_Singleton
<1>4. (\E x : Active = {x}) <=> \A q \in Active : q = p BY <1>1
<1> QED BY <1>1, <1>2, <1>3, <1>4 DEF Active

\* end_op().
LEMMA EndOpPlace ==
  ASSUME Roomy, CtlInv, NEW p \in Procs, EndOp(p)
  PROVE  TypeOK' /\ PhaseInv' /\ PlaceInv' /\ HeadInv'
<1> USE SizeFacts DEF CtlInv, EndOp, wakeup
<1>1. /\ outstanding \in Nat /\ outstanding >= 1 /\ ~committing /\ pc[boot] = "down"
      /\ outstanding = 1 <=> \A q \in Procs : pc[q] \in CallPcs => q = p
  BY LastOut DEF CallPcs, PhaseInv
<1>2. PlaceInv' BY <1>1 DEF TypeOK, PhaseInv, PlaceInv, CallPcs, CommitPcs, InstallPcs
<1>3. CASE outstanding = 1
  <2>1. /\ committing' = TRUE
        /\ pc' = [pc EXCEPT ![p] = IF lh = <<>> THEN "committed" ELSE "write_log"]
    BY <1>3
  <2>2. \A q \in Procs : pc[q] \in CallPcs => q = p BY <1>1, <1>3
  <2>3. TypeOK' BY <1>3, <2>1 DEF TypeOK, PCs, Values
  <2>4. PhaseInv' BY <1>1, <2>1, <2>2 DEF TypeOK, PhaseInv, CallPcs, CommitPcs, InstallPcs
  <2>5. HeadInv'
    BY <1>1, <2>1, <2>2 DEF TypeOK, PhaseInv, HeadInv, CallPcs, CommitPcs, InstallPcs
  <2> QED BY <1>2, <2>3, <2>4, <2>5
<1>4. CASE outstanding # 1
  <2>1. /\ committing' = committing
        /\ pc' = [q \in LogThreads |-> IF q = p THEN "idle"
                                       ELSE IF pc[q] = "asleep" THEN "begin" ELSE pc[q]]
    BY <1>4
  <2>2. PICK r \in Procs : pc[r] \in CallPcs /\ r # p BY <1>1, <1>4
  <2>3. TypeOK' BY <1>1, <2>1 DEF TypeOK, PCs, Values
  <2>4. PhaseInv' BY <1>1, <2>1 DEF TypeOK, PhaseInv, CallPcs, CommitPcs, InstallPcs
  <2>5. pc'[r] \in CallPcs BY <2>1, <2>2 DEF CallPcs
  <2>6. HeadInv' BY <1>1, <2>1, <2>5 DEF TypeOK, HeadInv, CallPcs, InstallPcs
  <2> QED BY <1>2, <2>3, <2>4, <2>6
<1> QED BY <1>3, <1>4

\* write_log() starts a block.
LEMMA WriteLogPlace ==
  ASSUME Roomy, CtlInv, NEW p \in LogThreads, WriteLog(p)
  PROVE  TypeOK' /\ PhaseInv' /\ PlaceInv' /\ HeadInv'
<1> USE SizeFacts DEF CtlInv, WriteLog, StartWrite
<1>1. TypeOK' BY Layout, SMTT(30) DEF TypeOK, PCs, Values
<1>2. PhaseInv' BY DEF TypeOK, PhaseInv, CallPcs, CommitPcs, InstallPcs
<1>3. PlaceInv' BY DEF TypeOK, PhaseInv, PlaceInv, CallPcs, CommitPcs, InstallPcs
<1>4. HeadInv' BY DEF TypeOK, PhaseInv, HeadInv, CallPcs, CommitPcs, InstallPcs
<1> QED BY <1>1, <1>2, <1>3, <1>4

\* write_log() finishes a block.
LEMMA WriteLogDonePlace ==
  ASSUME Roomy, CtlInv, NEW p \in LogThreads, WriteLogDone(p)
  PROVE  TypeOK' /\ PhaseInv' /\ PlaceInv' /\ HeadInv'
<1> USE SizeFacts DEF CtlInv, WriteLogDone, FinishWrite
<1>1. TypeOK'
  <2>1. tail[p] \in Nat /\ tail[p] + 1 \in 1..Len(lh) /\ blk[p] = tail[p] + 1
    BY Layout DEF TypeOK, PlaceInv
  <2>2. blk[p] \in Addrs BY <2>1, Layout
  <2> QED BY <2>1, <2>2 DEF TypeOK, PCs
<1>2. PhaseInv' BY DEF TypeOK, PhaseInv, CallPcs, CommitPcs, InstallPcs
<1>3. PlaceInv' BY DEF TypeOK, PhaseInv, PlaceInv, CallPcs, CommitPcs, InstallPcs
<1>4. HeadInv' BY DEF TypeOK, PhaseInv, HeadInv, CallPcs, CommitPcs, InstallPcs
<1> QED BY <1>1, <1>2, <1>3, <1>4

\* write_head(): the commit.
LEMMA WriteHeadPlace ==
  ASSUME Roomy, CtlInv, NEW p \in LogThreads, WriteHead(p)
  PROVE  TypeOK' /\ PhaseInv' /\ PlaceInv' /\ HeadInv'
<1> USE SizeFacts DEF CtlInv, WriteHead
<1>1. TypeOK' BY Layout DEF TypeOK, PCs, Values
<1>2. PhaseInv' BY DEF TypeOK, PhaseInv, CallPcs, CommitPcs, InstallPcs
<1>3. PlaceInv' BY DEF TypeOK, PhaseInv, PlaceInv, CallPcs, CommitPcs, InstallPcs
<1>4. HeadInv' BY DEF TypeOK, PhaseInv, HeadInv, CallPcs, CommitPcs, InstallPcs
<1> QED BY <1>1, <1>2, <1>3, <1>4

\* install_trans() starts a block.
LEMMA InstallPlace ==
  ASSUME Roomy, CtlInv, NEW p \in LogThreads, Install(p)
  PROVE  TypeOK' /\ PhaseInv' /\ PlaceInv' /\ HeadInv'
<1> USE SizeFacts DEF CtlInv, Install, StartWrite
<1>1. TypeOK'
  <2>1. tail[p] \in Nat /\ tail[p] + 1 \in 1..Len(lh) BY Layout DEF TypeOK
  <2>2. tail[p] + 1 \in Addrs /\ lh[tail[p] + 1] \in Addrs BY <2>1, Layout
  <2> QED BY <2>2 DEF TypeOK, PCs, Torn
<1>2. PhaseInv' BY DEF TypeOK, PhaseInv, CallPcs, CommitPcs, InstallPcs
<1>3. PlaceInv' BY DEF TypeOK, PhaseInv, PlaceInv, CallPcs, CommitPcs, InstallPcs
<1>4. HeadInv' BY DEF TypeOK, PhaseInv, HeadInv, CallPcs, CommitPcs, InstallPcs
<1> QED BY <1>1, <1>2, <1>3, <1>4

\* install_trans() finishes a block.
LEMMA InstallDonePlace ==
  ASSUME Roomy, CtlInv, NEW p \in LogThreads, InstallDone(p)
  PROVE  TypeOK' /\ PhaseInv' /\ PlaceInv' /\ HeadInv'
<1> USE SizeFacts DEF CtlInv, InstallDone, FinishWrite
<1>1. TypeOK'
  <2>1. tail[p] \in Nat /\ tail[p] + 1 \in 1..Len(lh) /\ blk[p] = lh[tail[p] + 1]
    BY Layout DEF TypeOK, PlaceInv
  <2>2. blk[p] \in Addrs BY <2>1, Layout
  <2> QED BY <2>1, <2>2, SMTT(30) DEF TypeOK, PCs
<1>2. PhaseInv' BY DEF TypeOK, PhaseInv, CallPcs, CommitPcs, InstallPcs
<1>3. PlaceInv' BY DEF TypeOK, PhaseInv, PlaceInv, CallPcs, CommitPcs, InstallPcs
<1>4. HeadInv' BY DEF TypeOK, PhaseInv, HeadInv, CallPcs, CommitPcs, InstallPcs
<1> QED BY <1>1, <1>2, <1>3, <1>4

\* The header is erased.
LEMMA ClearHeadPlace ==
  ASSUME Roomy, CtlInv, NEW p \in LogThreads, ClearHead(p)
  PROVE  TypeOK' /\ PhaseInv' /\ PlaceInv' /\ HeadInv'
<1> USE SizeFacts DEF CtlInv, ClearHead
<1>1. TypeOK' BY Layout DEF TypeOK, PCs, Values
<1>2. PhaseInv' BY DEF TypeOK, PhaseInv, CallPcs, CommitPcs, InstallPcs
<1>3. PlaceInv' BY DEF TypeOK, PhaseInv, PlaceInv, CallPcs, CommitPcs, InstallPcs
<1>4. HeadInv'
  <2>1. Distinct(<<>>) BY DEF Distinct
  <2>2. CASE p = boot BY <2>1, <2>2 DEF TypeOK, HeadInv, InstallPcs
  <2>3. CASE p # boot
    <3>1. pc[boot] = "down" /\ \A q \in LogThreads : pc[q] \in InstallPcs => q = p
      BY <2>3 DEF PhaseInv, CommitPcs, InstallPcs
    <3> QED BY <2>1, <2>3, <3>1 DEF TypeOK, HeadInv, CallPcs, InstallPcs
  <2> QED BY <2>2, <2>3
<1> QED BY <1>1, <1>2, <1>3, <1>4

\* commit() is over.
LEMMA CommittedPlace ==
  ASSUME Roomy, CtlInv, NEW p \in LogThreads, Committed(p)
  PROVE  TypeOK' /\ PhaseInv' /\ PlaceInv' /\ HeadInv'
<1> USE SizeFacts DEF CtlInv, Committed, wakeup
<1>1. TypeOK' BY Layout DEF TypeOK, PCs, Values
<1>2. PhaseInv' BY DEF TypeOK, PhaseInv, CallPcs, CommitPcs, InstallPcs
<1>3. PlaceInv' BY DEF TypeOK, PhaseInv, PlaceInv, CallPcs, CommitPcs, InstallPcs
<1>4. HeadInv' BY DEF TypeOK, PhaseInv, HeadInv, CallPcs, CommitPcs, InstallPcs
<1> QED BY <1>1, <1>2, <1>3, <1>4

\* recover_from_log() reads the header.
LEMMA ReadHeadPlace ==
  ASSUME Roomy, CtlInv, ReadHead
  PROVE  TypeOK' /\ PhaseInv' /\ PlaceInv' /\ HeadInv'
<1> USE SizeFacts DEF CtlInv, ReadHead
<1>1. TypeOK' BY DEF TypeOK, PCs
<1>2. PhaseInv' BY DEF TypeOK, PhaseInv, CallPcs, CommitPcs, InstallPcs
<1>3. PlaceInv' BY DEF TypeOK, PhaseInv, PlaceInv, CallPcs, CommitPcs, InstallPcs
<1>4. HeadInv' BY DEF TypeOK, PhaseInv, HeadInv, CallPcs, CommitPcs, InstallPcs
<1> QED BY <1>1, <1>2, <1>3, <1>4

\* A crash.
LEMMA CrashPlace ==
  ASSUME Roomy, CtlInv, Crash
  PROVE  TypeOK' /\ PhaseInv' /\ PlaceInv' /\ HeadInv'
<1> USE SizeFacts DEF CtlInv, Crash
<1>0. <<>> \in Seq(Home) /\ Len(<<>>) = 0 /\ 0 \in Values BY DEF Values
<1>1. TypeOK'
  <2>1. pc' \in [LogThreads -> PCs] BY DEF PCs
  <2>2. blk' \in [LogThreads -> Addrs \cup {NoBlock}] /\ tail' \in [LogThreads -> Nat]
        /\ written' \in [LogThreads -> SUBSET Home] /\ op' \in [LogThreads -> Values]
        /\ pins' \in [Addrs -> Int]
    BY <1>0
  <2>3. crashes' \in 0..MaxCrashes BY DEF TypeOK
  <2> QED BY <1>0, <2>1, <2>2, <2>3 DEF TypeOK
<1>2. PhaseInv' BY DEF PhaseInv, CallPcs, CommitPcs, InstallPcs
<1>3. PlaceInv' BY <1>0 DEF PlaceInv, CallPcs, CommitPcs, InstallPcs
<1>4. HeadInv'
  <2>1. Distinct(<<>>) BY <1>0 DEF Distinct
  <2> QED BY <2>1 DEF TypeOK, HeadInv, CallPcs, InstallPcs
<1> QED BY <1>1, <1>2, <1>3, <1>4

\* A buffer is recycled.
LEMMA RecyclePlace ==
  ASSUME CtlInv, NEW a \in Addrs, Recycle(a)
  PROVE  TypeOK' /\ PhaseInv' /\ PlaceInv' /\ HeadInv'
<1> USE DEF CtlInv, Recycle
<1>1. TypeOK' BY DEF TypeOK
<1>2. PhaseInv' /\ PlaceInv' /\ HeadInv' BY DEF PhaseInv, PlaceInv, HeadInv
<1> QED BY <1>1, <1>2

-----------------------------------------------------------------------------
(* Room in the log                                                            *)

\* A step that changes neither the header in memory nor the calls under way.
LEMMA RoomSame ==
  ASSUME CtlInv, UNCHANGED <<lh, written, outstanding>>, head' \in {head, lh},
         \A q \in Procs : pc'[q] \in CallPcs <=> pc[q] \in CallPcs
  PROVE  CountInv' /\ Fits'
<1>1. Active' = Active BY DEF Active
<1>2. Tokens' = Tokens BY <1>1 DEF Tokens, Logged
<1>3. Cardinality(Tokens) \in Nat BY TokensFinite DEF CtlInv, CountInv
<1>4. Len(lh) \in Nat BY DEF CtlInv, TypeOK
<1> QED BY <1>1, <1>2, <1>3, <1>4, SizeFacts DEF CtlInv, CountInv, Fits

\* A step after which no call is under way.
LEMMA RoomAlone ==
  ASSUME CtlInv, Roomy, outstanding' = 0, lh' \in {<<>>, head}, head' \in {<<>>, head},
         \A q \in Procs : pc'[q] \notin CallPcs,
         \A q \in Procs : written'[q] = {}
  PROVE  CountInv' /\ Fits'
<1>1. Active' = {} BY DEF Active
<1>2. IsFiniteSet(Active') /\ Cardinality(Active') = 0 BY <1>1, FS_EmptySet
<1>3. Tokens' = {} BY <1>1 DEF Tokens
<1>4. Cardinality(Tokens') = 0 BY <1>3, FS_EmptySet
<1>5. \A q \in Procs : Cardinality(written'[q]) = 0 BY FS_EmptySet
<1>6. Len(<<>>) = 0 /\ Len(head) \in Nat /\ 0 <= LOGSIZE - 2
  BY SizeFacts DEF CtlInv, TypeOK, Roomy
<1> QED BY <1>2, <1>4, <1>5, <1>6, SizeFacts DEF CtlInv, CountInv, Fits

\* A set of home blocks is finite.
LEMMA HomeFinite ==
  ASSUME NEW S \in SUBSET Home
  PROVE  IsFiniteSet(S) /\ Cardinality(S) \in Nat
<1>1. IsFiniteSet(Home) BY SizeFacts, FS_Interval DEF Home
<1> QED BY <1>1, FS_Subset, FS_CardinalityType

\* Fewer blocks may still be added when fewer calls are under way or more of their
\* blocks are in the log.
LEMMA TokensShrink ==
  ASSUME CtlInv, TypeOK', \A q \in Procs : pc'[q] \in CallPcs => pc[q] \in CallPcs,
         \A q \in Procs : pc'[q] \in CallPcs =>
             written[q] \cap Logged \subseteq written'[q] \cap Logged'
  PROVE  Tokens' \subseteq Tokens
<1> SUFFICES ASSUME NEW t \in Tokens' PROVE t \in Tokens OBVIOUS
<1>1. t \in Active' \X (1..OpBlocks) /\ t[2] > Cardinality(written'[t[1]] \cap Logged')
  BY DEF Tokens
<1>2. PICK q \in Active', k \in 1..OpBlocks : t = <<q, k>> BY <1>1
<1>3. q \in Procs /\ pc'[q] \in CallPcs /\ q \in Active BY <1>2 DEF Active
<1>4. k > Cardinality(written'[q] \cap Logged') BY <1>1, <1>2
<1> DEFINE S == written[q] \cap Logged
           T == written'[q] \cap Logged'
<1>5. S \subseteq T /\ T \subseteq Home BY <1>3, SizeFacts DEF TypeOK
<1> HIDE DEF S, T
<1>6. IsFiniteSet(T) /\ Cardinality(T) \in Nat /\ Cardinality(S) \in Nat BY <1>5, HomeFinite
<1>7. Cardinality(S) <= Cardinality(T) BY <1>5, <1>6, FS_Subset
<1>8. k > Cardinality(S) BY <1>4, <1>6, <1>7 DEF T
<1> QED BY <1>2, <1>3, <1>8 DEF Tokens, S

\* begin_op() reserves MAXOPBLOCKS, of which a call uses fewer.
LEMMA BeginOpRoom ==
  ASSUME Roomy, CtlInv, NEW p \in Procs, BeginOp(p)
  PROVE  CountInv' /\ Fits'
<1> DEFINE n == Cardinality(Active)
<1>1. IsFiniteSet(Active) /\ n \in Nat /\ outstanding = n
  BY FS_CardinalityType DEF CtlInv, CountInv
<1>2. p \notin Active /\ Active' = Active \cup {p}
  BY SizeFacts DEF BeginOp, Active, CtlInv, TypeOK, CallPcs
<1>3. IsFiniteSet(Active') /\ Cardinality(Active') = n + 1 BY <1>1, <1>2, FS_AddElement
<1>4. Len(lh) + (n + 1) * MAXOPBLOCKS <= LOGSIZE /\ Len(lh) \in Nat
  <2>1. Len(lh) \in Nat BY DEF CtlInv, TypeOK
  <2>2. ~(Len(lh) + (n + 1) * MAXOPBLOCKS > LOGSIZE) BY <1>1 DEF BeginOp, MustWait
  <2>3. (n + 1) * MAXOPBLOCKS \in Nat BY <1>1, SizeFacts
  <2> QED BY <2>1, <2>2, <2>3, SizeFacts
<1>5. n = 0 => Len(lh) = 0
  <2>1. SUFFICES ASSUME n = 0 PROVE lh = <<>> OBVIOUS
  <2>2. Active = {} BY <1>1, <2>1, FS_EmptySet
  <2>3. ~committing /\ pc[boot] = "down"
    BY DEF BeginOp, MustWait, CtlInv, PhaseInv
  <2> QED BY <2>2, <2>3 DEF CtlInv, HeadInv, Active
<1>6. /\ Cardinality(Tokens') \in Nat
      /\ Cardinality(Tokens') <= (n + 1) * OpBlocks
  <2>1. IsFiniteSet(1..OpBlocks) /\ Cardinality(1..OpBlocks) = OpBlocks
    BY SizeFacts, FS_Interval
  <2>2. /\ IsFiniteSet(Active' \X (1..OpBlocks))
        /\ Cardinality(Active' \X (1..OpBlocks)) = (n + 1) * OpBlocks
    BY <1>3, <2>1, FS_Product, ZenonT(40)
  <2>3. Tokens' \in SUBSET (Active' \X (1..OpBlocks)) BY DEF Tokens
  <2> QED BY <2>2, <2>3, FS_Subset, FS_CardinalityType
<1> HIDE DEF n
<1>7. (n + 1) * OpBlocks \in Nat /\ Len(lh) + (n + 1) * OpBlocks <= LOGSIZE - 2
  <2>1. (n + 1) * OpBlocks \in Nat BY <1>1, SizeFacts
  <2>2. CASE n = 0
    <3>1. (n + 1) * OpBlocks = OpBlocks BY <2>2, SizeFacts
    <3> QED BY <1>5, <2>2, <3>1, SizeFacts DEF Roomy
  <2>3. CASE n # 0
    <3>1. (n + 1) * (OpBlocks + 1) = (n + 1) * OpBlocks + (n + 1) BY <1>1, SizeFacts
    <3>2. (n + 1) * (OpBlocks + 1) <= (n + 1) * MAXOPBLOCKS
      <4>1. \A a, b, c \in Nat : a <= b => c * a <= c * b OBVIOUS
      <4>2. OpBlocks + 1 \in Nat /\ n + 1 \in Nat /\ OpBlocks + 1 <= MAXOPBLOCKS
        BY <1>1, SizeFacts DEF Roomy
      <4> QED BY <4>1, <4>2, SizeFacts
    <3>3. (n + 1) * MAXOPBLOCKS \in Nat BY <1>1, SizeFacts
    <3> QED BY <1>1, <1>4, <2>1, <2>3, <3>1, <3>2, <3>3, SizeFacts
  <2> QED BY <2>1, <2>2, <2>3
<1>8. Len(lh) + Cardinality(Tokens') <= LOGSIZE - 2
  BY <1>4, <1>6, <1>7, SizeFacts
<1>9. lh' = lh /\ head' = head /\ written' = written /\ outstanding' = outstanding + 1
  BY DEF BeginOp
<1> QED BY <1>1, <1>3, <1>8, <1>9 DEF CtlInv, CountInv, Fits

\* What log_write() does to the header.
LEMMA LogWriteAppends ==
  ASSUME CtlInv, NEW p \in Procs, LogWrite(p)
  PROVE  /\ blk[p] \in written[p] /\ written[p] \subseteq Home /\ Len(lh) \in Nat
         /\ Logged' = Logged \cup {blk[p]}
         /\ \A i \in 1..Len(lh) : lh'[i] = lh[i]
         /\ blk[p] \in Logged => lh' = lh
         /\ blk[p] \notin Logged => Len(lh') = Len(lh) + 1 /\ lh'[Len(lh) + 1] = blk[p]
<1>1. lh \in Seq(Home) /\ blk[p] \in written[p] /\ written[p] \subseteq Home
  BY SizeFacts DEF CtlInv, TypeOK, PlaceInv, LogWrite
<1>2. CASE blk[p] \in Logged
  <2>1. lh' = lh BY <1>2 DEF LogWrite
  <2> QED BY <1>1, <1>2, <2>1 DEF Logged
<1>3. CASE blk[p] \notin Logged
  <2>1. lh' = Append(lh, blk[p]) /\ blk[p] \in Home BY <1>1, <1>3 DEF LogWrite
  <2>2. /\ Len(lh') = Len(lh) + 1 /\ Len(lh) \in Nat
        /\ \A i \in 1..Len(lh) : lh'[i] = lh[i]
        /\ lh'[Len(lh) + 1] = blk[p]
    BY <1>1, <2>1, AppendProperties
  <2>3. \A i : i \in 1..Len(lh') <=> i \in 1..Len(lh) \/ i = Len(lh) + 1 BY <2>2
  <2>4. Logged' = Logged \cup {blk[p]} BY <2>2, <2>3 DEF Logged
  <2> QED BY <1>1, <1>3, <2>2, <2>4
<1> QED BY <1>2, <1>3

\* log_write() of a block that was not in the header spends one of p's blocks.
LEMMA LogWriteRoom ==
  ASSUME Roomy, CtlInv, TypeOK', NEW p \in Procs, LogWrite(p)
  PROVE  CountInv' /\ Fits'
<1>1. /\ pc[p] = "append" /\ pc' = [pc EXCEPT ![p] = "op"]
      /\ UNCHANGED <<head, written, outstanding>>
  BY DEF LogWrite
<1>2. \A q \in Procs : pc'[q] \in CallPcs <=> pc[q] \in CallPcs
  BY <1>1, SizeFacts DEF CtlInv, TypeOK, CallPcs
<1>3. Active' = Active BY <1>2 DEF Active
<1>4. CASE blk[p] \in Logged
  <2>1. lh' = lh BY <1>4 DEF LogWrite
  <2> QED BY <1>1, <1>2, <2>1, RoomSame
<1>5. CASE blk[p] \notin Logged
  <2> DEFINE S == written[p] \cap Logged
             k == Cardinality(S) + 1
             t == <<p, k>>
  <2>1. blk[p] \in written[p] /\ written[p] \subseteq Home BY LogWriteAppends
  <2>2. /\ Len(lh') = Len(lh) + 1 /\ Len(lh) \in Nat /\ Logged' = Logged \cup {blk[p]}
    BY <1>5, LogWriteAppends
  <2>3. /\ IsFiniteSet(S) /\ Cardinality(S) \in Nat
        /\ IsFiniteSet(written[p]) /\ Cardinality(written[p]) \in Nat
        /\ Cardinality(written[p]) <= OpBlocks
    BY <2>1, HomeFinite DEF CtlInv, Fits
  <2>4. written'[p] \cap Logged' = S \cup {blk[p]} /\ blk[p] \notin S
    BY <1>1, <1>5, <2>1, <2>2
  <2>5. Cardinality(written'[p] \cap Logged') = k BY <2>3, <2>4, FS_AddElement
  <2>6. k \in 1..OpBlocks
    <3>1. S \cup {blk[p]} \in SUBSET written[p] BY <2>1
    <3>2. Cardinality(S \cup {blk[p]}) <= Cardinality(written[p])
      BY <2>3, <3>1, FS_Subset
    <3> QED BY <2>3, <2>4, <2>5, <3>2, SizeFacts
  <2> HIDE DEF S, k
  <2>7. p \in Active BY <1>1 DEF Active, CallPcs
  <2>8. t \in Tokens /\ t \notin Tokens'
    <3>1. t[1] = p /\ t[2] = k OBVIOUS
    <3>2. k > Cardinality(S) /\ ~(k > k) BY <2>3, <2>6 DEF k
    <3>3. t \in Active \X (1..OpBlocks) BY <2>6, <2>7
    <3> HIDE DEF t
    <3>4. t \in Tokens BY <3>1, <3>2, <3>3 DEF Tokens, S
    <3>5. t \notin Tokens' BY <2>5, <3>1, <3>2 DEF Tokens
    <3> QED BY <3>4, <3>5
  <2> HIDE DEF t
  <2>9. Tokens' \subseteq Tokens
    <3>1. \A q \in Procs : written[q] \cap Logged \subseteq written'[q] \cap Logged'
      BY <1>1, <2>2
    <3> QED BY <1>2, <3>1, TokensShrink
  <2>10. IsFiniteSet(Tokens) /\ Cardinality(Tokens) \in Nat
    BY TokensFinite DEF CtlInv, CountInv
  <2>11. /\ Cardinality(Tokens') <= Cardinality(Tokens) - 1 /\ Cardinality(Tokens') \in Nat
    <3>1. Tokens' \in SUBSET (Tokens \ {t}) BY <2>8, <2>9
    <3>2. /\ IsFiniteSet(Tokens \ {t})
          /\ Cardinality(Tokens \ {t}) = Cardinality(Tokens) - 1
      BY <2>8, <2>10, FS_RemoveElement
    <3> QED BY <3>1, <3>2, FS_Subset, FS_CardinalityType
  <2>12. Len(lh') + Cardinality(Tokens') <= LOGSIZE - 2
    BY <2>2, <2>10, <2>11, SizeFacts DEF CtlInv, Fits
  <2> QED BY <1>1, <1>3, <2>12 DEF CtlInv, CountInv, Fits
<1> QED BY <1>4, <1>5

\* A call that changes a block keeps below its reservation; the checks of
\* log_write() pass.
LEMMA ModifyRoom ==
  ASSUME Roomy, CtlInv, TypeOK', NEW p \in Procs, Modify(p)
  PROVE  CountInv' /\ Fits' /\ ~panicked'
<1>1. /\ pc[p] = "op" /\ pc' = [pc EXCEPT ![p] = "append"]
      /\ UNCHANGED <<head, lh, outstanding>> /\ panicked' = (TooBig \/ outstanding < 1)
  BY DEF Modify
<1>2. PICK b \in Home : /\ Cardinality(written[p] \cup {b}) <= OpBlocks
                        /\ written' = [written EXCEPT ![p] = @ \cup {b}]
  BY DEF Modify
<1>3. \A q \in Procs : pc'[q] \in CallPcs <=> pc[q] \in CallPcs
  BY <1>1, SizeFacts DEF CtlInv, TypeOK, CallPcs
<1>4. Active' = Active BY <1>3 DEF Active
<1>5. \A q \in Procs : written[q] \subseteq written'[q]
  BY <1>2, SizeFacts DEF CtlInv, TypeOK
<1>6. Tokens' \subseteq Tokens
  <2>1. Logged' = Logged BY <1>1 DEF Logged
  <2> QED BY <1>3, <1>5, <2>1, TokensShrink
<1>7. /\ IsFiniteSet(Tokens) /\ Cardinality(Tokens) \in Nat /\ Len(lh) \in Nat
      /\ Cardinality(Tokens') <= Cardinality(Tokens) /\ Cardinality(Tokens') \in Nat
  BY <1>6, TokensFinite, FS_Subset, FS_CardinalityType DEF CtlInv, CountInv, TypeOK
<1>8. Fits'
  <2>1. \A q \in Procs : Cardinality(written'[q]) <= OpBlocks
    BY <1>2, SizeFacts DEF CtlInv, TypeOK, Fits
  <2> QED BY <1>1, <1>7, <2>1, SizeFacts DEF CtlInv, Fits
<1>9. ~panicked'
  <2>1. Len(lh) <= LOGSIZE - 2 BY <1>7, SizeFacts DEF CtlInv, Fits
  <2>2. outstanding \in Nat /\ outstanding >= 1 BY <1>1, LastOut DEF CallPcs
  <2>3. ~(TooBig \/ outstanding < 1) BY <1>7, <2>1, <2>2, SizeFacts DEF TooBig, Roomy
  <2> QED BY <1>1, <2>3, Zenon
<1> QED BY <1>1, <1>4, <1>8, <1>9 DEF CtlInv, CountInv

\* end_op() gives its reservation back.
LEMMA EndOpRoom ==
  ASSUME Roomy, CtlInv, TypeOK', NEW p \in Procs, EndOp(p)
  PROVE  CountInv' /\ Fits' /\ ~panicked'
<1>1. /\ pc[p] = "op" /\ outstanding' = outstanding - 1 /\ panicked' = committing
      /\ UNCHANGED <<head, lh>> /\ written' = [written EXCEPT ![p] = {}]
  BY DEF EndOp
<1>2. \A q \in Procs : pc'[q] \in CallPcs <=> pc[q] \in CallPcs /\ q # p
  <2>1. CASE outstanding = 1 BY <1>1, <2>1, SizeFacts DEF EndOp, CtlInv, TypeOK, CallPcs
  <2>2. CASE outstanding # 1
    BY <1>1, <2>2, SizeFacts DEF EndOp, wakeup, CtlInv, TypeOK, CallPcs
  <2> QED BY <2>1, <2>2
<1>3. Active' = Active \ {p} /\ p \in Active BY <1>1, <1>2 DEF Active, CallPcs
<1>4. CountInv'
  <2>1. IsFiniteSet(Active) /\ outstanding = Cardinality(Active) BY DEF CtlInv, CountInv
  <2> QED BY <1>1, <1>3, <2>1, FS_RemoveElement DEF CountInv
<1>5. Tokens' \subseteq Tokens
  <2>1. Logged' = Logged BY <1>1 DEF Logged
  <2>2. \A q \in Procs : q # p => written'[q] = written[q]
    BY <1>1, SizeFacts DEF CtlInv, TypeOK
  <2> QED BY <1>2, <2>1, <2>2, TokensShrink
<1>6. /\ IsFiniteSet(Tokens) /\ Cardinality(Tokens) \in Nat /\ Len(lh) \in Nat
      /\ Cardinality(Tokens') <= Cardinality(Tokens) /\ Cardinality(Tokens') \in Nat
  BY <1>5, TokensFinite, FS_Subset, FS_CardinalityType DEF CtlInv, CountInv, TypeOK
<1>7. \A q \in Procs : Cardinality(written'[q]) <= OpBlocks
  BY <1>1, SizeFacts, FS_EmptySet DEF CtlInv, TypeOK, Fits
<1>8. ~panicked' BY <1>1 DEF CtlInv, PhaseInv, CallPcs
<1> QED BY <1>1, <1>4, <1>6, <1>7, <1>8, SizeFacts DEF CtlInv, Fits

\* Every step keeps the control part of the invariant.
LEMMA CtlStep ==
  ASSUME Roomy, CtlInv, [Next]_vars
  PROVE  CtlInv'
<1> USE SizeFacts
<1> DEFINE Quiet == \A q \in Procs : pc'[q] \in CallPcs <=> pc[q] \in CallPcs
<1>1. CASE UNCHANGED vars
  BY <1>1 DEF vars, CtlInv, TypeOK, PhaseInv, CountInv, PlaceInv, HeadInv, Fits,
              Active, Tokens, Logged
<1>2. ASSUME NEW p \in Procs, BeginCall(p) PROVE CtlInv'
  <2>1. Quiet BY <1>2 DEF BeginCall, CtlInv, TypeOK, CallPcs
  <2> QED BY <1>2, <2>1, BeginCallPlace, RoomSame DEF BeginCall, CtlInv
<1>3. ASSUME NEW p \in Procs, BeginSleep(p) PROVE CtlInv'
  <2>1. Quiet BY <1>3 DEF BeginSleep, CtlInv, TypeOK, CallPcs
  <2> QED BY <1>3, <2>1, BeginSleepPlace, RoomSame DEF BeginSleep, CtlInv
<1>4. ASSUME NEW p \in Procs, BeginOp(p) PROVE CtlInv'
  BY <1>4, BeginOpPlace, BeginOpRoom DEF BeginOp, CtlInv
<1>5. ASSUME NEW p \in Procs, Modify(p) PROVE CtlInv'
  BY <1>5, ModifyPlace, ModifyRoom DEF CtlInv
<1>6. ASSUME NEW p \in Procs, LogWrite(p) PROVE CtlInv'
  <2>1. ~panicked' BY <1>6 DEF LogWrite, CtlInv
  <2>2. TypeOK' /\ PhaseInv' /\ PlaceInv' /\ HeadInv' BY <1>6, LogWritePlace
  <2> QED BY <1>6, <2>1, <2>2, LogWriteRoom DEF CtlInv
<1>7. ASSUME NEW p \in Procs, EndOp(p) PROVE CtlInv'
  BY <1>7, EndOpPlace, EndOpRoom DEF CtlInv
<1>8. ASSUME NEW p \in LogThreads, WriteLog(p) PROVE CtlInv'
  <2>1. Quiet BY <1>8 DEF WriteLog, CtlInv, TypeOK, CallPcs
  <2> QED BY <1>8, <2>1, WriteLogPlace, RoomSame DEF WriteLog, CtlInv
<1>9. ASSUME NEW p \in LogThreads, WriteLogDone(p) PROVE CtlInv'
  <2>1. Quiet BY <1>9 DEF WriteLogDone, CtlInv, TypeOK, CallPcs
  <2> QED BY <1>9, <2>1, WriteLogDonePlace, RoomSame DEF WriteLogDone, CtlInv
<1>10. ASSUME NEW p \in LogThreads, WriteHead(p) PROVE CtlInv'
  <2>1. Quiet BY <1>10 DEF WriteHead, CtlInv, TypeOK, CallPcs
  <2> QED BY <1>10, <2>1, WriteHeadPlace, RoomSame DEF WriteHead, CtlInv
<1>11. ASSUME NEW p \in LogThreads, Install(p) PROVE CtlInv'
  <2>1. Quiet BY <1>11 DEF Install, CtlInv, TypeOK, CallPcs
  <2> QED BY <1>11, <2>1, InstallPlace, RoomSame DEF Install, CtlInv
<1>12. ASSUME NEW p \in LogThreads, InstallDone(p) PROVE CtlInv'
  <2>1. Quiet BY <1>12 DEF InstallDone, CtlInv, TypeOK, CallPcs
  <2> QED BY <1>12, <2>1, InstallDonePlace, RoomSame DEF InstallDone, CtlInv
<1>13. ASSUME NEW p \in LogThreads, ClearHead(p) PROVE CtlInv'
  <2>1. \A q \in Procs : pc[q] \notin CallPcs
    BY <1>13 DEF ClearHead, CtlInv, PhaseInv, CallPcs, CommitPcs, InstallPcs
  <2>2. \A q \in Procs : pc'[q] \notin CallPcs
    BY <1>13, <2>1 DEF ClearHead, CtlInv, TypeOK, CallPcs
  <2>3. outstanding = 0
    <3>1. Active = {} BY <2>1 DEF Active
    <3> QED BY <3>1, FS_EmptySet DEF CtlInv, CountInv
  <2>4. \A q \in Procs : written'[q] = {}
    BY <1>13, <2>1 DEF ClearHead, CtlInv, PlaceInv
  <2>5. CountInv' /\ Fits' BY <1>13, <2>2, <2>3, <2>4, RoomAlone DEF ClearHead
  <2> QED BY <1>13, <2>5, ClearHeadPlace DEF ClearHead, CtlInv
<1>14. ASSUME NEW p \in LogThreads, Committed(p) PROVE CtlInv'
  <2>1. Quiet BY <1>14 DEF Committed, wakeup, CtlInv, TypeOK, CallPcs
  <2> QED BY <1>14, <2>1, CommittedPlace, RoomSame DEF Committed, CtlInv
<1>15. CASE ReadHead
  <2>1. \A q \in Procs : pc[q] \notin CallPcs /\ pc'[q] \notin CallPcs /\ written'[q] = {}
    BY <1>15 DEF ReadHead, CtlInv, TypeOK, PhaseInv, PlaceInv, CallPcs
  <2>2. outstanding = 0
    <3>1. Active = {} BY <2>1 DEF Active
    <3> QED BY <3>1, FS_EmptySet DEF CtlInv, CountInv
  <2>3. CountInv' /\ Fits' BY <1>15, <2>1, <2>2, RoomAlone DEF ReadHead
  <2> QED BY <1>15, <2>3, ReadHeadPlace DEF ReadHead, CtlInv
<1>16. CASE Crash
  <2>1. \A q \in Procs : pc'[q] \notin CallPcs /\ written'[q] = {}
    BY <1>16 DEF Crash, CallPcs
  <2>2. CountInv' /\ Fits' BY <1>16, <2>1, RoomAlone DEF Crash
  <2> QED BY <1>16, <2>2, CrashPlace DEF Crash, CtlInv
<1>17. ASSUME NEW a \in Addrs, Recycle(a) PROVE CtlInv'
  BY <1>17, RecyclePlace, RoomSame DEF Recycle, CtlInv
<1> HIDE DEF Quiet
<1> QED BY <1>1, <1>2, <1>3, <1>4, <1>5, <1>6, <1>7, <1>8, <1>9, <1>10, <1>11, <1>12,
           <1>13, <1>14, <1>15, <1>16, <1>17
        DEF Next, OpStep, CommitStep, AllDone

\* A freshly made disk.
LEMMA CtlInit == Roomy /\ Init => CtlInv
<1> SUFFICES ASSUME Roomy, Init PROVE CtlInv OBVIOUS
<1> USE SizeFacts DEF Init, Boot
<1>0. <<>> \in Seq(Home) /\ Len(<<>>) = 0 /\ 0 \in Values BY DEF Values
<1>1. TypeOK
  <2>1. pc \in [LogThreads -> PCs] BY DEF PCs
  <2>2. disk \in [Addrs -> Values \cup {Torn}] BY <1>0
  <2>3. blk \in [LogThreads -> Addrs \cup {NoBlock}] /\ tail \in [LogThreads -> Nat]
        /\ written \in [LogThreads -> SUBSET Home] /\ op \in [LogThreads -> Values]
        /\ pins \in [Addrs -> Int]
    BY <1>0
  <2>4. nops \in 0..MaxOps /\ crashes \in 0..MaxCrashes OBVIOUS
  <2> QED BY <1>0, <2>1, <2>2, <2>3, <2>4 DEF TypeOK
<1>2. PhaseInv BY DEF PhaseInv, CallPcs, CommitPcs, InstallPcs
<1>3. PlaceInv BY <1>0 DEF PlaceInv, CallPcs, CommitPcs, InstallPcs
<1>4. HeadInv BY <1>0 DEF HeadInv, Distinct, CallPcs, InstallPcs
<1>5. CountInv
  <2>1. Active = {} BY DEF Active, CallPcs
  <2> QED BY <2>1, FS_EmptySet DEF CountInv
<1>6. Fits
  <2>1. Tokens = {} BY DEF Tokens, Active, CallPcs
  <2>2. \A q \in Procs : Cardinality(written[q]) = 0 BY FS_EmptySet
  <2> QED BY <1>0, <2>1, <2>2, FS_EmptySet DEF Fits, Roomy
<1> QED BY <1>1, <1>2, <1>3, <1>4, <1>5, <1>6 DEF CtlInv

\* The control part of the invariant holds in every state.
THEOREM LogControl ==
  ASSUME Roomy
  PROVE  Spec => []CtlInv
<1>1. Init => CtlInv BY CtlInit
<1>2. CtlInv /\ [Next]_vars => CtlInv' BY CtlStep
<1> QED BY <1>1, <1>2, PTL DEF Spec

\* The variables of the log keep their types.
THEOREM LogTypeCorrect ==
  ASSUME Roomy
  PROVE  Spec => []TypeOK
<1>1. CtlInv => TypeOK BY DEF CtlInv
<1> QED BY <1>1, LogControl, PTL

\* With the reservations of begin_op(), however many calls share a transaction and
\* wherever crashes fall, log_write() never finds the log full, end_op() never finds
\* a commit under way, and the header never lists more blocks than the log has.
THEOREM LogAlwaysFits ==
  ASSUME Roomy
  PROVE  Spec => []LogFits
<1>1. CtlInv => LogFits BY Layout DEF CtlInv, LogFits
<1> QED BY <1>1, LogControl, PTL

-----------------------------------------------------------------------------
(* What is on disk                                                            *)

USE DEF Same

\* begin_op() is called.
LEMMA BeginCallData ==
  ASSUME Roomy, CtlInv, DataInv, NEW p \in Procs, BeginCall(p)
  PROVE  DataInv'
<1> USE SizeFacts DEF BeginCall, CallPcs, CommitPcs, InstallPcs
<1>0. Logged' = Logged BY DEF Logged
<1>1. BeforeCommit' BY <1>0, Layout DEF CtlInv, TypeOK, PhaseInv, PlaceInv, DataInv, BeforeCommit
<1>2. WriteLogInv' BY Layout DEF CtlInv, TypeOK, PhaseInv, PlaceInv, DataInv, WriteLogInv
<1>3. InstallInv' BY <1>0, Layout DEF CtlInv, TypeOK, PhaseInv, PlaceInv, DataInv, InstallInv
<1>4. RebootInv' BY DEF CtlInv, TypeOK, PhaseInv, DataInv, RebootInv
<1>5. PinInv' BY Layout DEF CtlInv, TypeOK, PhaseInv, PlaceInv, DataInv, PinInv
<1> QED BY <1>1, <1>2, <1>3, <1>4, <1>5 DEF DataInv

\* begin_op() has to wait.
LEMMA BeginSleepData ==
  ASSUME Roomy, CtlInv, DataInv, NEW p \in Procs, BeginSleep(p)
  PROVE  DataInv'
<1> USE SizeFacts DEF BeginSleep, CallPcs, CommitPcs, InstallPcs
<1>0. Logged' = Logged BY DEF Logged
<1>1. BeforeCommit' BY <1>0, Layout DEF CtlInv, TypeOK, PhaseInv, PlaceInv, DataInv, BeforeCommit
<1>2. WriteLogInv' BY Layout DEF CtlInv, TypeOK, PhaseInv, PlaceInv, DataInv, WriteLogInv
<1>3. InstallInv' BY <1>0, Layout DEF CtlInv, TypeOK, PhaseInv, PlaceInv, DataInv, InstallInv
<1>4. RebootInv' BY DEF CtlInv, TypeOK, PhaseInv, DataInv, RebootInv
<1>5. PinInv' BY Layout DEF CtlInv, TypeOK, PhaseInv, PlaceInv, DataInv, PinInv
<1> QED BY <1>1, <1>2, <1>3, <1>4, <1>5 DEF DataInv

\* begin_op() admits the call.
LEMMA BeginOpData ==
  ASSUME Roomy, CtlInv, DataInv, NEW p \in Procs, BeginOp(p)
  PROVE  DataInv'
<1> USE SizeFacts DEF BeginOp, MustWait, CallPcs, CommitPcs, InstallPcs
<1>0. Logged' = Logged BY DEF Logged
<1>1. BeforeCommit' BY <1>0, Layout DEF CtlInv, TypeOK, PhaseInv, PlaceInv, DataInv, BeforeCommit
<1>2. WriteLogInv' BY Layout DEF CtlInv, TypeOK, PhaseInv, PlaceInv, DataInv, WriteLogInv
<1>3. InstallInv' BY <1>0, Layout DEF CtlInv, TypeOK, PhaseInv, PlaceInv, DataInv, InstallInv
<1>4. RebootInv' BY DEF CtlInv, TypeOK, PhaseInv, DataInv, RebootInv
<1>5. PinInv' BY Layout DEF CtlInv, TypeOK, PhaseInv, PlaceInv, DataInv, PinInv
<1> QED BY <1>1, <1>2, <1>3, <1>4, <1>5 DEF DataInv

\* A call changes a block, which it is about to log.
LEMMA ModifyData ==
  ASSUME Roomy, CtlInv, DataInv, NEW p \in Procs, Modify(p)
  PROVE  DataInv'
<1> USE SizeFacts DEF Modify, CallPcs, CommitPcs, InstallPcs
<1>0. Logged' = Logged BY DEF Logged
<1>1. BeforeCommit' BY <1>0, Layout DEF CtlInv, TypeOK, PhaseInv, PlaceInv, DataInv, BeforeCommit
<1>2. WriteLogInv' BY Layout DEF CtlInv, TypeOK, PhaseInv, PlaceInv, DataInv, WriteLogInv
<1>3. InstallInv' BY <1>0, Layout DEF CtlInv, TypeOK, PhaseInv, PlaceInv, DataInv, InstallInv
<1>4. RebootInv' BY DEF CtlInv, TypeOK, PhaseInv, DataInv, RebootInv
<1>5. PinInv' BY Layout DEF CtlInv, TypeOK, PhaseInv, PlaceInv, DataInv, PinInv
<1> QED BY <1>1, <1>2, <1>3, <1>4, <1>5 DEF DataInv

\* log_write(): the block is in the header now, and pinned.
LEMMA LogWriteData ==
  ASSUME Roomy, CtlInv, DataInv, NEW p \in Procs, LogWrite(p)
  PROVE  DataInv'
<1> USE SizeFacts DEF LogWrite, CallPcs, CommitPcs, InstallPcs
<1>0. Logged' = Logged \cup {blk[p]} BY LogWriteAppends
<1>1. BeforeCommit' BY <1>0, Layout DEF CtlInv, TypeOK, PhaseInv, PlaceInv, DataInv, BeforeCommit
<1>2. WriteLogInv' BY Layout DEF CtlInv, TypeOK, PhaseInv, PlaceInv, DataInv, WriteLogInv
<1>3. InstallInv' BY <1>0, Layout DEF CtlInv, TypeOK, PhaseInv, PlaceInv, DataInv, InstallInv
<1>4. RebootInv' BY DEF CtlInv, TypeOK, PhaseInv, DataInv, RebootInv
<1>5. PinInv'
  <2> SUFFICES ASSUME crashes = 0 PROVE PinInv' BY DEF PinInv
  <2>1. /\ \A a \in Addrs : pins[a] >= 0 /\ pins[a] \in Int
        /\ \A i \in 1..Len(lh) : pins[lh[i]] >= 1
    <3>1. \A q \in LogThreads : pc[q] \notin InstallPcs
      BY DEF CtlInv, PhaseInv
    <3> QED BY <3>1 DEF CtlInv, TypeOK, DataInv, PinInv
  <2>2. CASE blk[p] \in Logged
    <3>1. lh' = lh /\ pins' = pins BY <2>2
    <3> QED BY <2>1, <3>1 DEF PinInv
  <2>3. CASE blk[p] \notin Logged
    <3>1. /\ Len(lh) \in Nat /\ Len(lh') = Len(lh) + 1 /\ lh'[Len(lh) + 1] = blk[p]
          /\ \A i \in 1..Len(lh) : lh'[i] = lh[i]
          /\ blk[p] \in Home
      BY <2>3, LogWriteAppends
    <3>2. pins' = [pins EXCEPT ![blk[p]] = @ + 1] /\ blk[p] \in Addrs BY <2>3, <3>1, Layout
    <3>3. /\ pins'[blk[p]] >= 1 /\ \A a \in Addrs : pins'[a] >= pins[a]
      BY <2>1, <3>2 DEF CtlInv, TypeOK
    <3>4. \A a \in Addrs : pins'[a] \in Int /\ pins'[a] >= 0
      BY <2>1, <3>2 DEF CtlInv, TypeOK
    <3>5. ASSUME NEW i \in 1..Len(lh') PROVE pins'[lh'[i]] >= 1
      <4>1. CASE i \in 1..Len(lh)
        <5>1. lh'[i] = lh[i] /\ lh[i] \in Addrs /\ pins[lh[i]] >= 1 BY <2>1, <3>1, <4>1, Layout
        <5> QED BY <2>1, <3>3, <3>4, <5>1
      <4>2. CASE i = Len(lh) + 1 BY <3>1, <3>3, <4>2
      <4> QED BY <3>1, <4>1, <4>2
    <3> QED BY <3>4, <3>5 DEF PinInv
  <2> QED BY <2>2, <2>3
<1> QED BY <1>1, <1>2, <1>3, <1>4, <1>5 DEF DataInv

\* end_op(): the last one starts to copy the logged blocks.
LEMMA EndOpData ==
  ASSUME Roomy, CtlInv, DataInv, NEW p \in Procs, EndOp(p)
  PROVE  DataInv'
<1> USE SizeFacts DEF EndOp, wakeup, CallPcs, CommitPcs, InstallPcs
<1>0. Logged' = Logged BY DEF Logged
<1>1. BeforeCommit' BY <1>0, Layout DEF CtlInv, TypeOK, PhaseInv, PlaceInv, DataInv, BeforeCommit
<1>2. WriteLogInv' BY Layout DEF CtlInv, TypeOK, PhaseInv, PlaceInv, DataInv, WriteLogInv
<1>3. InstallInv' BY <1>0, Layout DEF CtlInv, TypeOK, PhaseInv, PlaceInv, DataInv, InstallInv
<1>4. RebootInv' BY DEF CtlInv, TypeOK, PhaseInv, DataInv, RebootInv
<1>5. PinInv' BY Layout DEF CtlInv, TypeOK, PhaseInv, PlaceInv, DataInv, PinInv
<1> QED BY <1>1, <1>2, <1>3, <1>4, <1>5 DEF DataInv

\* write_log() starts a block: the log is apart from the homes.
LEMMA WriteLogData ==
  ASSUME Roomy, CtlInv, DataInv, NEW p \in LogThreads, WriteLog(p)
  PROVE  DataInv'
<1> USE SizeFacts DEF WriteLog, StartWrite, CallPcs, CommitPcs, InstallPcs
<1>0. Logged' = Logged BY DEF Logged
<1>1. BeforeCommit' BY <1>0, Layout DEF CtlInv, TypeOK, PhaseInv, PlaceInv, DataInv, BeforeCommit
<1>2. p \in Procs /\ pc[boot] = "down"
      /\ \A q \in Procs : pc[q] \in CommitPcs => q = p
  BY DEF CtlInv, PhaseInv
<1>6. WriteLogInv'
  <2> DEFINE t == tail[p] + 1
  <2>1. t \in 1..Len(lh) /\ tail[p] \in Nat BY Layout DEF CtlInv, TypeOK
  <2>2. t \in Addrs /\ t \notin Home /\ lh[t] \in Home BY <2>1, Layout
  <2>3. /\ cache' = [cache EXCEPT ![t] = cache[lh[t]]]
        /\ disk' = [disk EXCEPT ![t] = Torn]
    OBVIOUS
  <2>4. \A i \in 1..tail[p] : i \in Addrs /\ i # t /\ lh[i] # t
    BY <2>1, <2>2, Layout
  <2>5. \A i \in 1..tail[p] : cache[i] = disk[i] /\ disk[i] = cache[lh[i]]
    BY <1>2 DEF DataInv, WriteLogInv
  <2> HIDE DEF t
  <2>6. cache'[t] = cache'[lh[t]]
    BY <2>2, <2>3, Layout DEF CtlInv, TypeOK
  <2>7. \A i \in 1..tail[p] : cache'[i] = disk'[i] /\ disk'[i] = cache'[lh[i]]
    BY <2>3, <2>4, <2>5 DEF CtlInv, TypeOK
  <2>8. \A q \in Procs : pc'[q] \in {"write_log", "write_log_io"} => q = p
    BY <1>2 DEF CtlInv, TypeOK
  <2>9. lh' = lh /\ tail' = tail OBVIOUS
  <2> QED BY <2>6, <2>7, <2>8, <2>9 DEF WriteLogInv, t
<1>3. InstallInv' BY <1>0, Layout DEF CtlInv, TypeOK, PhaseInv, PlaceInv, DataInv, InstallInv
<1>4. RebootInv' BY DEF CtlInv, TypeOK, PhaseInv, DataInv, RebootInv
<1>5. PinInv' BY Layout DEF CtlInv, TypeOK, PhaseInv, PlaceInv, DataInv, PinInv
<1> QED BY <1>1, <1>6, <1>3, <1>4, <1>5 DEF DataInv

\* write_log() finishes a block: it agrees with the home in memory.
LEMMA WriteLogDoneData ==
  ASSUME Roomy, CtlInv, DataInv, NEW p \in LogThreads, WriteLogDone(p)
  PROVE  DataInv'
<1> USE SizeFacts DEF WriteLogDone, FinishWrite, CallPcs, CommitPcs, InstallPcs
<1>0. Logged' = Logged BY DEF Logged
<1>1. BeforeCommit' BY <1>0, Layout DEF CtlInv, TypeOK, PhaseInv, PlaceInv, DataInv, BeforeCommit
<1>2. WriteLogInv' BY Layout, SMTT(30) DEF CtlInv, TypeOK, PhaseInv, PlaceInv, DataInv, WriteLogInv
<1>3. InstallInv' BY <1>0, Layout DEF CtlInv, TypeOK, PhaseInv, PlaceInv, DataInv, InstallInv
<1>4. RebootInv' BY DEF CtlInv, TypeOK, PhaseInv, DataInv, RebootInv
<1>5. PinInv' BY Layout DEF CtlInv, TypeOK, PhaseInv, PlaceInv, DataInv, PinInv
<1> QED BY <1>1, <1>2, <1>3, <1>4, <1>5 DEF DataInv

\* write_head(): every logged block has its copy.
LEMMA WriteHeadData ==
  ASSUME Roomy, CtlInv, DataInv, NEW p \in LogThreads, WriteHead(p)
  PROVE  DataInv'
<1> USE SizeFacts DEF WriteHead, CallPcs, CommitPcs, InstallPcs
<1>0. Logged' = Logged BY DEF Logged
<1>1. BeforeCommit' BY <1>0, Layout DEF CtlInv, TypeOK, PhaseInv, PlaceInv, DataInv, BeforeCommit
<1>2. WriteLogInv' BY Layout DEF CtlInv, TypeOK, PhaseInv, PlaceInv, DataInv, WriteLogInv
<1>3. InstallInv'
  <2>1. \A q \in LogThreads : pc'[q] \in InstallPcs => q = p
    BY DEF CtlInv, TypeOK, PhaseInv
  <2>2. \A i \in 1..Len(lh) : cache[i] = disk[i] /\ cache[lh[i]] = disk[i]
    BY DEF CtlInv, PhaseInv, DataInv, WriteLogInv
  <2>3. \A b \in Home : b \notin Logged => cache[b] = disk[b]
    BY DEF CtlInv, PhaseInv, DataInv, BeforeCommit
  <2>4. tail'[p] = 0 /\ pc'[p] = "install" /\ lh' = lh BY DEF CtlInv, TypeOK
  <2> QED BY <1>0, <2>1, <2>2, <2>3, <2>4 DEF InstallInv
<1>4. RebootInv' BY DEF CtlInv, TypeOK, PhaseInv, DataInv, RebootInv
<1>5. PinInv' BY Layout DEF CtlInv, TypeOK, PhaseInv, PlaceInv, DataInv, PinInv
<1> QED BY <1>1, <1>2, <1>3, <1>4, <1>5 DEF DataInv

\* install_trans() starts a block: its home is torn, the log has it.
LEMMA InstallData ==
  ASSUME Roomy, CtlInv, DataInv, NEW p \in LogThreads, Install(p)
  PROVE  DataInv'
<1> USE SizeFacts DEF Install, StartWrite, CallPcs, CommitPcs, InstallPcs
<1>0. Logged' = Logged BY DEF Logged
<1>1. BeforeCommit' BY <1>0, Layout DEF CtlInv, TypeOK, PhaseInv, PlaceInv, DataInv, BeforeCommit
<1>2. WriteLogInv' BY Layout DEF CtlInv, TypeOK, PhaseInv, PlaceInv, DataInv, WriteLogInv
<1>3. InstallInv'
  <2>1. \A q \in LogThreads : pc'[q] \in InstallPcs => q = p
    BY DEF CtlInv, TypeOK, PhaseInv
  <2> DEFINE t == tail[p] + 1
  <2>2. t \in 1..Len(lh) /\ tail[p] \in Nat BY Layout DEF CtlInv, TypeOK, PlaceInv
  <2>3. t \in Addrs /\ t \notin Home /\ lh[t] \in Home /\ lh[t] \in Addrs BY <2>2, Layout
  <2>4. /\ \A i \in 1..Len(lh) : cache[i] = disk[i]
        /\ \A i \in 1..tail[p] : cache[lh[i]] = disk[lh[i]] /\ disk[lh[i]] = disk[i]
        /\ \A b \in Home : b \notin Logged => cache[b] = disk[b]
        /\ p # boot => \A i \in 1..Len(lh) : cache[lh[i]] = disk[i]
        /\ pc[p] = "install_io" => cache[lh[t]] = disk[t]
    BY DEF DataInv, InstallInv
  <2>5. \A i \in 1..Len(lh) : lh[i] = lh[t] => i = t
    BY <2>2 DEF CtlInv, HeadInv, Distinct
  <2>6. \A i \in 1..Len(lh) : i \in Addrs /\ lh[i] \in Addrs /\ i # lh[t]
    BY <2>3, Layout
  <2>7. lh[t] \in Logged BY <2>2 DEF Logged
  <2>8. \A i \in 1..tail[p] : i \in 1..Len(lh) /\ i # t BY <2>2, Layout
  <2>9. /\ cache' = [cache EXCEPT ![lh[t]] = cache[t]]
        /\ disk' = [disk EXCEPT ![lh[t]] = Torn]
        /\ lh' = lh /\ tail' = tail
    OBVIOUS
  <2> HIDE DEF t
  <2>10. /\ \A i \in 1..Len(lh) : cache'[i] = disk'[i] /\ disk'[i] = disk[i]
         /\ \A i \in 1..Len(lh) : i # t => cache'[lh[i]] = cache[lh[i]]
         /\ \A i \in 1..Len(lh) : i # t => disk'[lh[i]] = disk[lh[i]]
         /\ cache'[lh[t]] = disk[t]
         /\ \A b \in Home : b # lh[t] => cache'[b] = cache[b] /\ disk'[b] = disk[b]
    <3>1. \A a \in Addrs : /\ cache'[a] = (IF a = lh[t] THEN cache[t] ELSE cache[a])
                           /\ disk'[a] = (IF a = lh[t] THEN Torn ELSE disk[a])
      BY <2>9 DEF CtlInv, TypeOK
    <3>2. Home \subseteq Addrs BY Layout
    <3> QED BY <2>2, <2>3, <2>4, <2>5, <2>6, <3>1, <3>2, SMTT(30)
  <2>11. \A i \in 1..tail[p] : cache'[lh[i]] = disk'[lh[i]] /\ disk'[lh[i]] = disk'[i]
    BY <2>4, <2>8, <2>10
  <2>12. \A b \in Home : b \notin Logged => cache'[b] = disk'[b] BY <2>4, <2>7, <2>10
  <2>13. p # boot => \A i \in 1..Len(lh) : cache'[lh[i]] = disk'[i] BY <2>4, <2>10
  <2>14. cache'[lh[tail[p] + 1]] = disk'[tail[p] + 1] BY <2>2, <2>10 DEF t
  <2> QED BY <1>0, <2>1, <2>9, <2>10, <2>11, <2>12, <2>13, <2>14 DEF InstallInv
<1>4. RebootInv' BY DEF CtlInv, TypeOK, PhaseInv, DataInv, RebootInv
<1>5. PinInv' BY Layout DEF CtlInv, TypeOK, PhaseInv, PlaceInv, DataInv, PinInv
<1> QED BY <1>1, <1>2, <1>3, <1>4, <1>5 DEF DataInv

\* install_trans() finishes a block.
LEMMA InstallDoneData ==
  ASSUME Roomy, CtlInv, DataInv, NEW p \in LogThreads, InstallDone(p)
  PROVE  DataInv'
<1> USE SizeFacts DEF InstallDone, FinishWrite, CallPcs, CommitPcs, InstallPcs
<1>0. Logged' = Logged BY DEF Logged
<1>1. BeforeCommit' BY <1>0, Layout DEF CtlInv, TypeOK, PhaseInv, PlaceInv, DataInv, BeforeCommit
<1>2. WriteLogInv' BY Layout DEF CtlInv, TypeOK, PhaseInv, PlaceInv, DataInv, WriteLogInv
<1>3. InstallInv'
  <2>1. \A q \in LogThreads : pc'[q] \in InstallPcs => q = p
    BY DEF CtlInv, TypeOK, PhaseInv
  <2> DEFINE t == tail[p] + 1
  <2>2. t \in 1..Len(lh) /\ tail[p] \in Nat BY Layout DEF CtlInv, TypeOK, PlaceInv
  <2>3. t \in Addrs /\ t \notin Home /\ lh[t] \in Home /\ lh[t] \in Addrs BY <2>2, Layout
  <2>4. /\ \A i \in 1..Len(lh) : cache[i] = disk[i]
        /\ \A i \in 1..tail[p] : cache[lh[i]] = disk[lh[i]] /\ disk[lh[i]] = disk[i]
        /\ \A b \in Home : b \notin Logged => cache[b] = disk[b]
        /\ p # boot => \A i \in 1..Len(lh) : cache[lh[i]] = disk[i]
        /\ pc[p] = "install_io" => cache[lh[t]] = disk[t]
    BY DEF DataInv, InstallInv
  <2>5. \A i \in 1..Len(lh) : lh[i] = lh[t] => i = t
    BY <2>2 DEF CtlInv, HeadInv, Distinct
  <2>6. \A i \in 1..Len(lh) : i \in Addrs /\ lh[i] \in Addrs /\ i # lh[t]
    BY <2>3, Layout
  <2>7. lh[t] \in Logged BY <2>2 DEF Logged
  <2>8. \A i \in 1..tail[p] : i \in 1..Len(lh) /\ i # t BY <2>2, Layout
  <2>9. /\ disk' = [disk EXCEPT ![lh[t]] = cache[lh[t]]]
        /\ cache' = cache /\ lh' = lh /\ tail' = [tail EXCEPT ![p] = t]
    BY DEF CtlInv, PlaceInv
  <2> HIDE DEF t
  <2>10. /\ \A i \in 1..Len(lh) : disk'[i] = disk[i]
         /\ \A i \in 1..Len(lh) : i # t => disk'[lh[i]] = disk[lh[i]]
         /\ disk'[lh[t]] = disk[t] /\ cache[lh[t]] = disk[t]
         /\ \A b \in Home : b # lh[t] => disk'[b] = disk[b]
    <3>1. \A a \in Addrs : disk'[a] = IF a = lh[t] THEN cache[lh[t]] ELSE disk[a]
      BY <2>9 DEF CtlInv, TypeOK
    <3>2. Home \subseteq Addrs BY Layout
    <3> QED BY <2>2, <2>3, <2>4, <2>5, <2>6, <3>1, <3>2
  <2>11. tail'[p] = t /\ \A i \in 1..t : i \in 1..tail[p] \/ i = t
    BY <2>2, <2>9 DEF CtlInv, TypeOK, t
  <2>12. pc'[p] = "install" BY DEF CtlInv, TypeOK
  <2>13. \A i \in 1..t : cache[lh[i]] = disk'[lh[i]] /\ disk'[lh[i]] = disk'[i]
    BY <2>2, <2>4, <2>8, <2>10, <2>11
  <2>14. \A b \in Home : b \notin Logged => cache[b] = disk'[b] BY <2>4, <2>7, <2>10
  <2> QED BY <1>0, <2>1, <2>4, <2>9, <2>10, <2>11, <2>12, <2>13, <2>14 DEF InstallInv
<1>4. RebootInv' BY DEF CtlInv, TypeOK, PhaseInv, DataInv, RebootInv
<1>5. PinInv'
  <2> SUFFICES ASSUME crashes = 0 PROVE PinInv' BY DEF PinInv
  <2> DEFINE t == tail[p] + 1
  <2>1. t \in 1..Len(lh) /\ tail[p] \in Nat BY Layout DEF CtlInv, TypeOK, PlaceInv
  <2>2. p # boot
    <3>1. p = boot => lh = <<>> BY DEF CtlInv, HeadInv
    <3> QED BY <2>1, <3>1
  <2>3. \A q \in LogThreads : pc[q] \in InstallPcs <=> q = p BY <2>2 DEF CtlInv, PhaseInv
  <2>4. /\ \A a \in Addrs : pins[a] >= 0 /\ pins[a] \in Int
        /\ \A i \in 1..Len(lh) : i > tail[p] => pins[lh[i]] >= 1
    BY <2>3 DEF CtlInv, TypeOK, DataInv, PinInv
  <2>5. lh[t] \in Addrs /\ pins[lh[t]] >= 1 BY <2>1, <2>4, Layout
  <2>6. /\ pins' = [pins EXCEPT ![lh[t]] = @ - 1]
        /\ lh' = lh /\ tail' = [tail EXCEPT ![p] = t] /\ crashes' = crashes
        /\ pc'[p] = "install"
    BY DEF CtlInv, PlaceInv, TypeOK
  <2>7. \A i \in 1..Len(lh) : i # t => lh[i] # lh[t] /\ lh[i] \in Addrs
    BY <2>1, Layout DEF CtlInv, HeadInv, Distinct
  <2> HIDE DEF t
  <2>8. \A a \in Addrs : pins'[a] >= 0
    <3>1. \A a \in Addrs : pins'[a] = IF a = lh[t] THEN pins[lh[t]] - 1 ELSE pins[a]
      BY <2>6 DEF CtlInv, TypeOK
    <3> QED BY <2>4, <2>5, <3>1
  <2>9. tail'[p] = t BY <2>6 DEF CtlInv, TypeOK
  <2>10. ASSUME NEW i \in 1..Len(lh), i > t PROVE pins'[lh[i]] >= 1
    <3>1. i # t /\ i > tail[p] BY <2>1, <2>10 DEF t
    <3>2. pins'[lh[i]] = pins[lh[i]] BY <2>6, <2>7, <3>1 DEF CtlInv, TypeOK
    <3> QED BY <2>4, <3>1, <3>2
  <2> QED BY <2>6, <2>8, <2>9, <2>10 DEF PinInv
<1> QED BY <1>1, <1>2, <1>3, <1>4, <1>5 DEF DataInv

\* The header is erased once every block is at home.
LEMMA ClearHeadData ==
  ASSUME Roomy, CtlInv, DataInv, NEW p \in LogThreads, ClearHead(p)
  PROVE  DataInv'
<1> USE SizeFacts DEF ClearHead, CallPcs, CommitPcs, InstallPcs
<1>0. \A b \in Home : cache[b] = disk[b]
  <2>1. tail[p] = Len(lh) /\ pc[p] = "install" OBVIOUS
  <2>2. /\ \A i \in 1..Len(lh) : cache[lh[i]] = disk[lh[i]]
        /\ \A b \in Home : b \notin Logged => cache[b] = disk[b]
    BY <2>1 DEF DataInv, InstallInv
  <2>3. \A b \in Logged : \E i \in 1..Len(lh) : b = lh[i] BY DEF Logged
  <2> QED BY <2>2, <2>3
<1>1. BeforeCommit' BY <1>0 DEF BeforeCommit
<1>2. WriteLogInv' BY Layout DEF CtlInv, TypeOK, PhaseInv, PlaceInv, DataInv, WriteLogInv
<1>3. InstallInv'
  <2>1. \A q \in LogThreads : pc'[q] \notin InstallPcs BY DEF CtlInv, TypeOK, PhaseInv
  <2> QED BY <2>1 DEF InstallInv
<1>4. RebootInv' BY DEF CtlInv, TypeOK, PhaseInv, DataInv, RebootInv
<1>5. PinInv' BY Layout DEF CtlInv, TypeOK, PhaseInv, PlaceInv, DataInv, PinInv
<1> QED BY <1>1, <1>2, <1>3, <1>4, <1>5 DEF DataInv

\* commit() is over.
LEMMA CommittedData ==
  ASSUME Roomy, CtlInv, DataInv, NEW p \in LogThreads, Committed(p)
  PROVE  DataInv'
<1> USE SizeFacts DEF Committed, wakeup, CallPcs, CommitPcs, InstallPcs
<1>0. Logged' = Logged BY DEF Logged
<1>1. BeforeCommit' BY <1>0, Layout DEF CtlInv, TypeOK, PhaseInv, PlaceInv, DataInv, BeforeCommit
<1>2. WriteLogInv' BY Layout DEF CtlInv, TypeOK, PhaseInv, PlaceInv, DataInv, WriteLogInv
<1>3. InstallInv' BY <1>0, Layout DEF CtlInv, TypeOK, PhaseInv, PlaceInv, DataInv, InstallInv
<1>4. RebootInv' BY DEF CtlInv, TypeOK, PhaseInv, DataInv, RebootInv
<1>5. PinInv' BY Layout DEF CtlInv, TypeOK, PhaseInv, PlaceInv, DataInv, PinInv
<1> QED BY <1>1, <1>2, <1>3, <1>4, <1>5 DEF DataInv

\* recover_from_log() reads the header.
LEMMA ReadHeadData ==
  ASSUME Roomy, CtlInv, CtlInv', DataInv, ReadHead
  PROVE  DataInv'
<1> USE SizeFacts DEF ReadHead, CallPcs, CommitPcs, InstallPcs
<1>1. pc' = [pc EXCEPT ![boot] = "install"] /\ pc \in [LogThreads -> PCs]
      /\ \A q \in Procs : pc[q] = "down"
  BY DEF CtlInv, TypeOK, PhaseInv
<1>2. \A a \in Addrs : cache'[a] = disk'[a] BY DEF DataInv, RebootInv
<1>3. BeforeCommit' /\ RebootInv' BY <1>1 DEF BeforeCommit, RebootInv
<1>4. WriteLogInv' BY <1>1 DEF WriteLogInv
<1>5. InstallInv'
  <2>1. \A q \in LogThreads : pc'[q] \in InstallPcs => q = boot BY <1>1
  <2>2. tail'[boot] = 0 /\ pc'[boot] = "install" BY <1>1 DEF CtlInv, PlaceInv
  <2>3. /\ \A i \in 1..Len(lh') : i \in Addrs
        /\ Home \subseteq Addrs
    <3>1. Len(lh') \in Nat /\ Len(lh') <= LOGSIZE - 2 BY DEF CtlInv, TypeOK, Fits
    <3> QED BY <3>1 DEF Roomy, Addrs, Home
  <2> QED BY <1>2, <2>1, <2>2, <2>3 DEF InstallInv
<1>6. PinInv'
  <2>1. crashes = 0 => head = <<>> BY DEF CtlInv, HeadInv
  <2> QED BY <2>1 DEF DataInv, PinInv
<1> QED BY <1>3, <1>4, <1>5, <1>6 DEF DataInv

\* A crash leaves the disk alone, and memory as read from it.
LEMMA CrashData ==
  ASSUME CtlInv, Crash
  PROVE  DataInv'
<1> USE SizeFacts DEF Crash, InstallPcs
<1>1. BeforeCommit' /\ WriteLogInv' /\ InstallInv' /\ RebootInv'
  BY DEF BeforeCommit, WriteLogInv, InstallInv, RebootInv
<1>2. crashes' # 0 BY DEF CtlInv, TypeOK
<1> QED BY <1>1, <1>2 DEF DataInv, PinInv

\* Before the first crash a buffer whose refcnt is 0 agrees with the disk, unless it
\* is a log block not needed any more or not written yet.
LEMMA RecycleSame ==
  ASSUME Roomy, FullBoots <= 1, CtlInv, DataInv, NEW a \in Home, Recycle(a), Running
  PROVE  Same(a)
<1> USE SizeFacts DEF Recycle, CallPcs, CommitPcs, InstallPcs
<1>1. crashes = 0 BY DEF CtlInv, TypeOK
<1>2. pins[a] = 0 /\ \A q \in LogThreads : blk[q] # a BY DEF HeldBufs
<1>3. CASE \A q \in Procs : pc[q] \notin InstallPcs
  <2>1. \A q \in LogThreads : pc[q] \notin InstallPcs BY <1>3 DEF Running
  <2>2. a \notin Logged BY <1>1, <1>2, <2>1 DEF DataInv, PinInv, Logged
  <2> QED BY <1>2, <1>3, <2>2 DEF DataInv, BeforeCommit, Running
<1>4. CASE \E q \in Procs : pc[q] \in InstallPcs
  <2>1. PICK p \in Procs : pc[p] \in InstallPcs BY <1>4
  <2>2. \A q \in LogThreads : pc[q] \in InstallPcs => q = p
    BY <2>1 DEF Running, CtlInv, PhaseInv
  <2>3. CASE a \notin Logged BY <2>1, <2>3 DEF DataInv, InstallInv
  <2>4. CASE a \in Logged
    <3>1. PICK i \in 1..Len(lh) : lh[i] = a BY <2>4 DEF Logged
    <3>2. ~(i > tail[p]) BY <1>1, <1>2, <2>2, <3>1 DEF DataInv, PinInv
    <3>3. i \in 1..tail[p] BY <3>2, Layout DEF CtlInv, TypeOK
    <3> QED BY <2>1, <3>1, <3>3 DEF DataInv, InstallInv
  <2> QED BY <2>3, <2>4
<1> QED BY <1>3, <1>4

\* Recycling a buffer.
LEMMA RecycleData ==
  ASSUME Roomy, FullBoots <= 1, CtlInv, DataInv, NEW a \in Addrs, Recycle(a)
  PROVE  DataInv'
<1> USE SizeFacts DEF CallPcs, CommitPcs, InstallPcs
<1>1. /\ crashes = 0 /\ pins[a] = 0 /\ \A q \in LogThreads : blk[q] # a
      /\ cache' = [cache EXCEPT ![a] = disk[a]]
      /\ UNCHANGED <<disk, head, pins, lh, outstanding, committing, panicked, locals, bounds>>
  BY DEF Recycle, HeldBufs, CtlInv, TypeOK
<1>2. /\ cache'[a] = disk[a]
      /\ \A b \in Addrs : b # a => cache'[b] = cache[b]
      /\ Logged' = Logged
  BY <1>1 DEF CtlInv, TypeOK, Logged
<1>3. Home \subseteq Addrs BY Layout
<1>4. BeforeCommit' BY <1>1, <1>2, <1>3 DEF DataInv, BeforeCommit
<1>5. RebootInv' BY <1>1, <1>2 DEF DataInv, RebootInv
<1>6. PinInv' BY <1>1 DEF DataInv, PinInv
<1>7. ASSUME Running, a \in Home PROVE Same(a) BY <1>7, RecycleSame
<1>8. WriteLogInv'
  <2> SUFFICES ASSUME NEW p \in Procs, pc[p] \in {"write_log", "write_log_io"}
               PROVE  /\ \A i \in 1..tail[p] : cache'[i] = disk[i] /\ disk[i] = cache'[lh[i]]
                      /\ pc[p] = "write_log_io" => cache'[tail[p] + 1] = cache'[lh[tail[p] + 1]]
    BY <1>1 DEF WriteLogInv
  <2>1. \A q \in LogThreads : pc[q] \notin InstallPcs BY DEF CtlInv, PhaseInv
  <2>2. \A i \in 1..Len(lh) : lh[i] # a BY <1>1, <2>1 DEF DataInv, PinInv
  <2>3. tail[p] \in Nat /\ tail[p] <= Len(lh) /\ Len(lh) \in Nat
        /\ (pc[p] = "write_log_io" => tail[p] + 1 # a /\ tail[p] + 1 \in 1..Len(lh))
    BY <1>1, Layout DEF CtlInv, TypeOK, PlaceInv
  <2>4. \A i \in 1..Len(lh) : i \in Addrs /\ cache'[lh[i]] = cache[lh[i]]
    BY <1>2, <2>2, Layout
  <2>5. \A i \in 1..tail[p] : i \in 1..Len(lh) BY <2>3
  <2>6. \A i \in 1..tail[p] : cache[i] = disk[i] /\ disk[i] = cache[lh[i]]
    BY DEF DataInv, WriteLogInv
  <2>7. pc[p] = "write_log_io" => cache[tail[p] + 1] = cache[lh[tail[p] + 1]]
    BY DEF DataInv, WriteLogInv
  <2> QED BY <1>2, <2>3, <2>4, <2>5, <2>6, <2>7
<1>9. InstallInv'
  <2> SUFFICES ASSUME NEW p \in LogThreads, pc[p] \in InstallPcs
               PROVE  /\ \A i \in 1..Len(lh) : cache'[i] = disk[i]
                      /\ \A i \in 1..tail[p] : cache'[lh[i]] = disk[lh[i]] /\ disk[lh[i]] = disk[i]
                      /\ \A b \in Home : b \notin Logged => cache'[b] = disk[b]
                      /\ p # boot => \A i \in 1..Len(lh) : cache'[lh[i]] = disk[i]
                      /\ pc[p] = "install_io" => cache'[lh[tail[p] + 1]] = disk[tail[p] + 1]
    BY <1>1, <1>2 DEF InstallInv
  <2>1. /\ \A i \in 1..Len(lh) : cache[i] = disk[i]
        /\ \A i \in 1..tail[p] : cache[lh[i]] = disk[lh[i]] /\ disk[lh[i]] = disk[i]
        /\ \A b \in Home : b \notin Logged => cache[b] = disk[b]
        /\ p # boot => \A i \in 1..Len(lh) : cache[lh[i]] = disk[i]
        /\ pc[p] = "install_io" => cache[lh[tail[p] + 1]] = disk[tail[p] + 1]
    BY DEF DataInv, InstallInv
  <2>2. tail[p] \in Nat /\ tail[p] <= Len(lh) /\ Len(lh) \in Nat
        /\ (pc[p] = "install_io" => tail[p] + 1 \in 1..Len(lh) /\ lh[tail[p] + 1] # a)
    BY <1>1, Layout DEF CtlInv, TypeOK, PlaceInv
  <2>3. p # boot => Running BY DEF Running, CtlInv, PhaseInv
  <2>4. \A i \in 1..Len(lh) : i \in Addrs /\ lh[i] \in Addrs /\ lh[i] \in Home BY Layout
  <2>5. \A i \in 1..tail[p] : i \in 1..Len(lh) BY <2>2
  <2>6. p # boot => \A i \in 1..Len(lh) : cache'[lh[i]] = cache[lh[i]]
    BY <1>2, <1>7, <2>3, <2>4
  <2>7. \A b \in Addrs : cache[b] = disk[b] => cache'[b] = disk[b] BY <1>2
  <2>8. \A i \in 1..Len(lh) : cache'[i] = disk[i] BY <2>1, <2>4, <2>7
  <2>9. \A i \in 1..tail[p] : cache'[lh[i]] = disk[lh[i]] BY <2>1, <2>4, <2>5, <2>7
  <2>10. \A b \in Home : b \notin Logged => cache'[b] = disk[b] BY <1>3, <2>1, <2>7
  <2>11. pc[p] = "install_io" => cache'[lh[tail[p] + 1]] = cache[lh[tail[p] + 1]]
    BY <1>2, <2>2, <2>4
  <2> QED BY <2>1, <2>6, <2>8, <2>9, <2>10, <2>11
<1> QED BY <1>4, <1>5, <1>6, <1>8, <1>9 DEF DataInv

\* Every step keeps the contents part of the invariant.
LEMMA DataStep ==
  ASSUME Roomy, FullBoots <= 1, CtlInv, CtlInv', DataInv, [Next]_vars
  PROVE  DataInv'
<1>1. CASE UNCHANGED vars
  BY <1>1 DEF vars, DataInv, BeforeCommit, WriteLogInv, InstallInv, RebootInv, PinInv, Logged
<1>2. ASSUME NEW p \in Procs, BeginCall(p) \/ OpStep(p) \/ Modify(p) \/ EndOp(p)
      PROVE  DataInv'
  BY <1>2, BeginCallData, BeginSleepData, BeginOpData, ModifyData, LogWriteData, EndOpData
     DEF OpStep
<1>3. ASSUME NEW p \in LogThreads, CommitStep(p) PROVE DataInv'
  BY <1>3, WriteLogData, WriteLogDoneData, WriteHeadData, InstallData, InstallDoneData,
     ClearHeadData, CommittedData DEF CommitStep
<1>4. CASE ReadHead BY <1>4, ReadHeadData
<1>5. CASE Crash BY <1>5, CrashData
<1>6. ASSUME NEW a \in Addrs, Recycle(a) PROVE DataInv' BY <1>6, RecycleData
<1> QED BY <1>1, <1>2, <1>3, <1>4, <1>5, <1>6 DEF Next, AllDone

\* A freshly made disk.
LEMMA DataInit == Init => DataInv
<1> SUFFICES ASSUME Init PROVE DataInv OBVIOUS
<1> USE SizeFacts DEF Init, Boot, InstallPcs
<1>1. BeforeCommit /\ WriteLogInv /\ InstallInv /\ RebootInv
  BY DEF BeforeCommit, WriteLogInv, InstallInv, RebootInv
<1>2. PinInv BY DEF PinInv
<1> QED BY <1>1, <1>2 DEF DataInv

\* Both parts of the invariant hold in every state, if buffers run short at most
\* until the first crash.
THEOREM LogInvariant ==
  ASSUME Roomy, FullBoots <= 1
  PROVE  Spec => [](CtlInv /\ DataInv)
<1>1. Init => CtlInv /\ DataInv BY CtlInit, DataInit
<1>2. CtlInv /\ DataInv /\ [Next]_vars => (CtlInv /\ DataInv)' BY CtlStep, DataStep
<1> QED BY <1>1, <1>2, PTL DEF Spec

-----------------------------------------------------------------------------
(* The log implements an atomic disk                                          *)

\* What recovery makes of a disk d with header h.
Replay(d, h) ==
  [b \in Home |-> IF \E i \in 1..Len(h) : h[i] = b
                    THEN d[CHOOSE i \in 1..Len(h) : h[i] = b]
                    ELSE d[b]]

\* The kernel's view, before and after recovery.
Mem == IF Running THEN InMemory ELSE Recovered

\* Replaying an empty header changes nothing; replaying a header of distinct blocks
\* puts the i-th log block in the i-th place.
LEMMA ReplayIs ==
  ASSUME NEW d, NEW h \in Seq(Home), Distinct(h)
  PROVE  /\ h = <<>> => Replay(d, h) = [b \in Home |-> d[b]]
         /\ \A i \in 1..Len(h) : Replay(d, h)[h[i]] = d[i]
         /\ \A b \in Home : (\A i \in 1..Len(h) : h[i] # b) => Replay(d, h)[b] = d[b]
<1>1. h = <<>> => Replay(d, h) = [b \in Home |-> d[b]] BY DEF Replay
<1>2. ASSUME NEW i \in 1..Len(h) PROVE Replay(d, h)[h[i]] = d[i]
  <2>1. h[i] \in Home OBVIOUS
  <2>2. (CHOOSE j \in 1..Len(h) : h[j] = h[i]) = i BY DEF Distinct
  <2> QED BY <2>1, <2>2 DEF Replay
<1>3. \A b \in Home : (\A i \in 1..Len(h) : h[i] # b) => Replay(d, h)[b] = d[b]
  BY DEF Replay
<1> QED BY <1>1, <1>2, <1>3

\* Two disks that agree on the log, and on the homes that are not in the header,
\* are recovered to the same contents.
LEMMA ReplaySame ==
  ASSUME NEW d, NEW e, NEW h \in Seq(Home), Distinct(h),
         \A i \in 1..Len(h) : d[i] = e[i],
         \A b \in Home : (\A i \in 1..Len(h) : h[i] # b) => d[b] = e[b]
  PROVE  Replay(d, h) = Replay(e, h)
<1>1. ASSUME NEW b \in Home PROVE Replay(d, h)[b] = Replay(e, h)[b]
  <2>1. CASE \E i \in 1..Len(h) : h[i] = b BY <2>1, ReplayIs
  <2>2. CASE \A i \in 1..Len(h) : h[i] # b BY <2>2, ReplayIs
  <2> QED BY <2>1, <2>2
<1>2. \A x : Replay(x, h) = [b \in Home |-> Replay(x, h)[b]] BY DEF Replay
<1> QED BY <1>1, <1>2

\* Recovered is the replay of the disk.
LEMMA RecoveredIs == Recovered = Replay(disk, head) /\ Recovered' = Replay(disk', head')
BY DEF Recovered, Replay

\* Steps that touch neither the disk nor memory.
LEMMA ViewsSame ==
  ASSUME UNCHANGED <<disk, head, cache>>, Running' <=> Running
  PROVE  Mem' = Mem /\ Recovered' = Recovered
BY DEF Mem, InMemory, Recovered

\* write_log() writes outside the homes.
LEMMA WriteLogViews ==
  ASSUME Roomy, CtlInv, NEW p \in LogThreads, WriteLog(p) \/ WriteLogDone(p)
  PROVE  Mem' = Mem /\ Recovered' = Recovered
<1> USE SizeFacts
<1>1. /\ p # boot /\ pc[boot] = "down" /\ head = <<>>
      /\ \A q \in Procs : pc[q] \notin InstallPcs
  BY DEF WriteLog, WriteLogDone, CtlInv, PhaseInv, HeadInv, CommitPcs, InstallPcs
<1>2. Running /\ Running'
  BY <1>1 DEF Running, WriteLog, WriteLogDone, CtlInv, TypeOK
<1> DEFINE t == tail[p] + 1
<1>3. t \in 1..Len(lh) /\ t \notin Home
  BY Layout DEF WriteLog, WriteLogDone, CtlInv, TypeOK, PlaceInv
<1>4. \A b \in Home : disk'[b] = disk[b] /\ cache'[b] = cache[b]
  BY <1>3, Layout, SMTT(30) DEF WriteLog, WriteLogDone, StartWrite, FinishWrite, CtlInv, TypeOK, PlaceInv
<1>5. head' = head BY DEF WriteLog, WriteLogDone
<1>6. Recovered' = Recovered
  <2>1. Len(head) = 0 /\ head \in Seq(Home) /\ Distinct(head)
    BY <1>1 DEF CtlInv, TypeOK, HeadInv
  <2>2. \A i \in 1..Len(head) : disk'[i] = disk[i] BY <2>1
  <2>3. Replay(disk', head) = Replay(disk, head)
    <3> HIDE DEF t
    <3> QED BY <1>4, <2>1, <2>2, ReplaySame
  <2> QED BY <1>5, <2>3, RecoveredIs
<1>7. InMemory' = InMemory BY <1>4 DEF InMemory
<1> QED BY <1>2, <1>6, <1>7 DEF Mem

\* write_head() makes what is in memory stable.
LEMMA WriteHeadViews ==
  ASSUME Roomy, CtlInv, DataInv, NEW p \in LogThreads, WriteHead(p)
  PROVE  Mem' = Mem /\ Recovered' = Mem /\ Active = {}
<1> USE SizeFacts DEF WriteHead, CallPcs, CommitPcs, InstallPcs
<1>1. /\ p \in Procs /\ pc[boot] = "down" /\ committing
      /\ \A q \in Procs : pc[q] \notin InstallPcs /\ pc[q] \notin CallPcs
  BY DEF CtlInv, PhaseInv
<1>2. Running /\ Running' BY <1>1 DEF Running, CtlInv, TypeOK
<1>3. /\ \A i \in 1..Len(lh) : disk[i] = cache[lh[i]]
      /\ \A b \in Home : b \notin Logged => cache[b] = disk[b]
  BY <1>1 DEF DataInv, WriteLogInv, BeforeCommit
<1>4. lh \in Seq(Home) /\ Distinct(lh) BY DEF CtlInv, TypeOK, HeadInv
<1>5. ASSUME NEW b \in Home PROVE Replay(disk, lh)[b] = cache[b]
  <2>1. CASE b \in Logged
    <3>1. PICK i \in 1..Len(lh) : lh[i] = b BY <2>1 DEF Logged
    <3> QED BY <1>3, <1>4, <3>1, ReplayIs
  <2>2. CASE b \notin Logged
    <3>1. \A i \in 1..Len(lh) : lh[i] # b BY <2>2 DEF Logged
    <3> QED BY <1>3, <1>4, <2>2, <3>1, ReplayIs
  <2> QED BY <2>1, <2>2
<1>6. Replay(disk, lh) = InMemory
  <2>1. Replay(disk, lh) = [b \in Home |-> Replay(disk, lh)[b]] BY DEF Replay
  <2> QED BY <1>5, <2>1 DEF InMemory
<1>7. Recovered' = InMemory BY <1>6, RecoveredIs
<1>8. InMemory' = InMemory BY DEF InMemory
<1>9. Active = {} BY <1>1 DEF Active
<1> QED BY <1>2, <1>7, <1>8, <1>9 DEF Mem

\* install_trans() writes the homes of logged blocks only, and in memory what was
\* there.
LEMMA InstallViews ==
  ASSUME Roomy, CtlInv, DataInv, NEW p \in LogThreads, Install(p) \/ InstallDone(p)
  PROVE  Mem' = Mem /\ Recovered' = Recovered
<1> USE SizeFacts DEF InstallPcs, CommitPcs
<1> DEFINE t == tail[p] + 1
<1>1. pc[p] \in InstallPcs /\ lh' = lh /\ head' = head /\ t \in 1..Len(lh)
  BY Layout, SMTT(30) DEF Install, InstallDone, CtlInv, TypeOK, PlaceInv
<1>2. head = lh /\ lh \in Seq(Home) /\ Distinct(lh)
  BY <1>1 DEF CtlInv, TypeOK, HeadInv
<1>3. Running' <=> Running
  BY DEF Install, InstallDone, Running, CtlInv, TypeOK
<1>4. p # boot <=> Running BY <1>1 DEF Running, CtlInv, PhaseInv
<1>5. t \in Addrs /\ t \notin Home /\ lh[t] \in Home /\ lh[t] \in Addrs BY <1>1, Layout
<1>6. \A a \in Addrs : a # lh[t] => disk'[a] = disk[a] /\ cache'[a] = cache[a]
  BY <1>5 DEF Install, InstallDone, StartWrite, FinishWrite, CtlInv, TypeOK, PlaceInv
<1>7. Recovered' = Recovered
  <2>1. \A i \in 1..Len(lh) : disk'[i] = disk[i]
    <3>1. \A i \in 1..Len(lh) : i \in Addrs /\ i # lh[t] BY <1>5, Layout
    <3> HIDE DEF t
    <3> QED BY <1>6, <3>1
  <2>2. \A b \in Home : (\A i \in 1..Len(lh) : lh[i] # b) => disk'[b] = disk[b]
    BY <1>1, <1>6, Layout
  <2>3. Replay(disk', lh) = Replay(disk, lh) BY <1>2, <2>1, <2>2, ReplaySame
  <2> QED BY <1>1, <1>2, <2>3, RecoveredIs
<1>8. ASSUME Running PROVE InMemory' = InMemory
  <2>1. cache[t] = disk[t] /\ cache[lh[t]] = disk[t]
    BY <1>1, <1>4, <1>8 DEF DataInv, InstallInv
  <2>2. cache'[lh[t]] = cache[lh[t]]
    BY <1>5, <2>1 DEF Install, InstallDone, CtlInv, TypeOK
  <2>3. \A b \in Home : cache'[b] = cache[b] BY <1>6, <2>2, Layout
  <2> QED BY <2>3 DEF InMemory
<1> QED BY <1>3, <1>7, <1>8 DEF Mem

\* Erasing the header of an installed transaction changes nothing; recovery ends
\* with memory as recovered.
LEMMA ClearHeadViews ==
  ASSUME Roomy, CtlInv, DataInv, NEW p \in LogThreads, ClearHead(p)
  PROVE  Mem' = Mem /\ Recovered' = Recovered
<1> USE SizeFacts DEF ClearHead, InstallPcs, CommitPcs
<1>1. /\ pc[p] \in InstallPcs /\ head = lh /\ lh \in Seq(Home) /\ Distinct(lh)
      /\ head' = <<>> /\ disk' = disk /\ cache' = cache
  BY DEF CtlInv, TypeOK, HeadInv
<1>2. Running' BY DEF Running, CtlInv, TypeOK, PhaseInv
<1>3. /\ \A i \in 1..Len(lh) : cache[lh[i]] = disk[lh[i]] /\ disk[lh[i]] = disk[i]
      /\ \A b \in Home : b \notin Logged => cache[b] = disk[b]
  BY DEF DataInv, InstallInv
<1>4. ASSUME NEW b \in Home PROVE Replay(disk, lh)[b] = disk[b] /\ cache[b] = disk[b]
  <2>1. CASE b \in Logged
    <3>1. PICK i \in 1..Len(lh) : lh[i] = b BY <2>1 DEF Logged
    <3> QED BY <1>1, <1>3, <3>1, ReplayIs
  <2>2. CASE b \notin Logged
    <3>1. \A i \in 1..Len(lh) : lh[i] # b BY <2>2 DEF Logged
    <3> QED BY <1>1, <1>3, <2>2, <3>1, ReplayIs
  <2> QED BY <2>1, <2>2
<1>5. Recovered = [b \in Home |-> disk[b]]
  <2>1. Replay(disk, lh) = [b \in Home |-> Replay(disk, lh)[b]] BY DEF Replay
  <2> QED BY <1>1, <1>4, <2>1, RecoveredIs
<1>6. Recovered' = [b \in Home |-> disk[b]]
  <2>1. <<>> \in Seq(Home) /\ Distinct(<<>>) BY DEF Distinct
  <2>2. Replay(disk, <<>>) = [b \in Home |-> disk[b]] BY <2>1, ReplayIs
  <2> QED BY <1>1, <2>2, RecoveredIs
<1>7. InMemory = [b \in Home |-> disk[b]] /\ InMemory' = [b \in Home |-> disk[b]]
  BY <1>1, <1>4 DEF InMemory
<1> QED BY <1>2, <1>5, <1>6, <1>7 DEF Mem

\* A recycled buffer comes back with what it had.
LEMMA RecycleViews ==
  ASSUME Roomy, FullBoots <= 1, CtlInv, DataInv, NEW a \in Addrs, Recycle(a)
  PROVE  Mem' = Mem /\ Recovered' = Recovered
<1>1. /\ cache' = [cache EXCEPT ![a] = disk[a]] /\ disk' = disk /\ head' = head
      /\ Running' <=> Running
  BY DEF Recycle, Running
<1>2. Recovered' = Recovered BY <1>1 DEF Recovered
<1>3. ASSUME Running PROVE InMemory' = InMemory
  <2>1. a \in Home => cache[a] = disk[a] BY <1>3, RecycleSame
  <2>2. \A b \in Home : cache'[b] = cache[b]
    BY <1>1, <2>1, Layout DEF CtlInv, TypeOK
  <2> QED BY <2>2 DEF InMemory
<1> QED BY <1>1, <1>2, <1>3 DEF Mem

\* A call changes one home block, in memory only.
LEMMA ModifyViews ==
  ASSUME CtlInv, NEW p \in Procs, Modify(p)
  PROVE  Recovered' = Recovered /\ \E b \in Home : Mem' = [Mem EXCEPT ![b] = Mem'[b]]
<1> USE SizeFacts
<1>1. PICK b \in Home : cache' = [cache EXCEPT ![b] = op[p]] BY DEF Modify
<1>2. Running /\ Running' BY DEF Modify, Running, CtlInv, TypeOK, PhaseInv
<1>3. Recovered' = Recovered BY DEF Modify, Recovered
<1>4. \A x \in Home : x # b => cache'[x] = cache[x]
  BY <1>1 DEF CtlInv, TypeOK, Home, Addrs
<1>5. /\ InMemory' = [x \in Home |-> cache'[x]] /\ InMemory = [x \in Home |-> cache[x]]
  BY DEF InMemory
<1>6. InMemory' = [InMemory EXCEPT ![b] = InMemory'[b]] BY <1>4, <1>5
<1> QED BY <1>2, <1>3, <1>6 DEF Mem

\* Each step of the log is a step of the atomic disk, or leaves its state alone.
LEMMA StepImplements ==
  ASSUME Roomy, FullBoots <= 1, CtlInv, DataInv, [Next]_vars
  PROVE  [Atomic!Next]_(Atomic!vars)
<1> USE SizeFacts DEF CallPcs
<1> DEFINE Quiet == Mem' = Mem /\ Recovered' = Recovered /\ Active' = Active
<1>0. /\ Atomic!vars = <<Mem, Recovered, Active>>
      /\ Atomic!vars' = <<Mem', Recovered', Active'>>
  BY DEF Atomic!vars, Mem, Active
<1>1. CASE UNCHANGED vars
  <2>1. Quiet BY <1>1 DEF vars, Mem, Running, InMemory, Recovered, Active
  <2> QED BY <1>0, <2>1
<1>2. ASSUME NEW p \in Procs, BeginCall(p) \/ BeginSleep(p) \/ LogWrite(p) PROVE Quiet
  <2>1. UNCHANGED <<disk, head, cache>> BY <1>2 DEF BeginCall, BeginSleep, LogWrite
  <2>2. Running' <=> Running
    BY <1>2 DEF BeginCall, BeginSleep, LogWrite, Running, CtlInv, TypeOK
  <2>3. Active' = Active
    BY <1>2 DEF BeginCall, BeginSleep, LogWrite, Active, CtlInv, TypeOK
  <2> QED BY <2>1, <2>2, <2>3, ViewsSame
<1>3. ASSUME NEW p \in Procs, BeginOp(p) PROVE Atomic!Next
  <2>1. UNCHANGED <<disk, head, cache>> BY <1>3 DEF BeginOp
  <2>2. Running' <=> Running BY <1>3 DEF BeginOp, Running, CtlInv, TypeOK
  <2>3. p \notin Active /\ Active' = Active \cup {p}
    BY <1>3 DEF BeginOp, Active, CtlInv, TypeOK
  <2>4. Mem' = Mem /\ Recovered' = Recovered BY <2>1, <2>2, ViewsSame
  <2>5. Atomic!Begin(p) BY <2>3, <2>4 DEF Atomic!Begin, Mem, Active
  <2> QED BY <2>5 DEF Atomic!Next
<1>4. ASSUME NEW p \in Procs, EndOp(p) PROVE Atomic!Next
  <2>1. UNCHANGED <<disk, head, cache>> BY <1>4 DEF EndOp
  <2>2. (Running' <=> Running) /\ \A q \in Procs : pc'[q] \in CallPcs <=> pc[q] \in CallPcs /\ q # p
    <3>1. pc[p] = "op" BY <1>4 DEF EndOp
    <3>2. CASE outstanding = 1
      BY <1>4, <3>1, <3>2 DEF EndOp, Running, CtlInv, TypeOK
    <3>3. CASE outstanding # 1
      BY <1>4, <3>1, <3>3 DEF EndOp, wakeup, Running, CtlInv, TypeOK
    <3> QED BY <3>2, <3>3
  <2>3. p \in Active /\ Active' = Active \ {p} BY <1>4, <2>2 DEF EndOp, Active
  <2>4. Mem' = Mem /\ Recovered' = Recovered BY <2>1, <2>2, ViewsSame
  <2>5. Atomic!End(p) BY <2>3, <2>4 DEF Atomic!End, Mem, Active
  <2> QED BY <2>5 DEF Atomic!Next
<1>5. ASSUME NEW p \in Procs, Modify(p) PROVE Atomic!Next
  <2>1. Recovered' = Recovered /\ \E b \in Home : Mem' = [Mem EXCEPT ![b] = Mem'[b]]
    BY <1>5, ModifyViews
  <2>2. p \in Active /\ Active' = Active BY <1>5 DEF Modify, Active, CtlInv, TypeOK
  <2>3. Atomic!Write(p) BY <2>1, <2>2 DEF Atomic!Write, Mem, Active
  <2> QED BY <2>3 DEF Atomic!Next
<1>6. ASSUME NEW p \in LogThreads, WriteLog(p) \/ WriteLogDone(p) PROVE Quiet
  <2>1. Active' = Active BY <1>6 DEF WriteLog, WriteLogDone, Active, CtlInv, TypeOK
  <2> QED BY <1>6, <2>1, WriteLogViews
<1>7. ASSUME NEW p \in LogThreads, WriteHead(p) PROVE Atomic!Next
  <2>1. Mem' = Mem /\ Recovered' = Mem /\ Active = {} BY <1>7, WriteHeadViews
  <2>2. Active' = Active BY <1>7 DEF WriteHead, Active, CtlInv, TypeOK
  <2>3. Atomic!Commit BY <2>1, <2>2 DEF Atomic!Commit, Mem, Active
  <2> QED BY <2>3 DEF Atomic!Next
<1>8. ASSUME NEW p \in LogThreads, Install(p) \/ InstallDone(p) PROVE Quiet
  <2>1. Active' = Active BY <1>8 DEF Install, InstallDone, Active, CtlInv, TypeOK
  <2> QED BY <1>8, <2>1, InstallViews
<1>9. ASSUME NEW p \in LogThreads, ClearHead(p) PROVE Quiet
  <2>1. Active' = Active
    BY <1>9 DEF ClearHead, Active, CtlInv, TypeOK, PhaseInv
  <2> QED BY <1>9, <2>1, ClearHeadViews
<1>10. ASSUME NEW p \in LogThreads, Committed(p) PROVE Quiet
  <2>1. UNCHANGED <<disk, head, cache>> BY <1>10 DEF Committed
  <2>2. Running' <=> Running
    BY <1>10 DEF Committed, wakeup, Running, CtlInv, TypeOK, PhaseInv, InstallPcs
  <2>3. Active' = Active BY <1>10 DEF Committed, wakeup, Active, CtlInv, TypeOK
  <2> QED BY <2>1, <2>2, <2>3, ViewsSame
<1>11. CASE ReadHead
  <2>1. UNCHANGED <<disk, head, cache>> BY <1>11 DEF ReadHead
  <2>2. (Running' <=> Running) /\ Active' = Active
    BY <1>11 DEF ReadHead, Running, Active, CtlInv, TypeOK
  <2>3. Quiet BY <2>1, <2>2, ViewsSame
  <2> QED BY <1>0, <2>3
<1>12. CASE Crash
  <2>1. ~Running' /\ Active' = {} BY <1>12 DEF Crash, Running, Active
  <2>2. Recovered' = Recovered BY <1>12 DEF Crash, Recovered
  <2>3. Mem' = Recovered BY <2>1, <2>2 DEF Mem
  <2>4. Atomic!Crash BY <2>1, <2>2, <2>3 DEF Atomic!Crash, Mem, Active
  <2> QED BY <2>4 DEF Atomic!Next
<1>13. ASSUME NEW a \in Addrs, Recycle(a) PROVE Quiet
  <2>1. Active' = Active BY <1>13 DEF Recycle, Active
  <2> QED BY <1>13, <2>1, RecycleViews
<1> HIDE DEF Quiet
<1>14. Quiet \/ Atomic!Next \/ UNCHANGED Atomic!vars
  BY <1>1, <1>2, <1>3, <1>4, <1>5, <1>6, <1>7, <1>8, <1>9, <1>10, <1>11, <1>12, <1>13
     DEF Next, OpStep, CommitStep, AllDone
<1> QED BY <1>0, <1>14 DEF Quiet

\* With nobody inside and no commit under way, memory and disk agree.
LEMMA QuiescentIsDurable == CtlInv /\ DataInv => QuiescentDurable
<1> SUFFICES ASSUME CtlInv, DataInv, Running, outstanding = 0, ~committing
             PROVE  Recovered = InMemory
  BY DEF QuiescentDurable
<1>1. Active = {} BY FS_EmptySet DEF CtlInv, CountInv
<1>2. \A p \in Procs : pc[p] \notin CallPcs /\ pc[p] \notin InstallPcs
  BY <1>1 DEF Active, CtlInv, PhaseInv, CommitPcs
<1>3. head = <<>> /\ lh = <<>> BY <1>2 DEF Running, CtlInv, HeadInv
<1>4. \A b \in Home : cache[b] = disk[b]
  <2>1. Logged = {} BY <1>3 DEF Logged
  <2> QED BY <1>2, <2>1 DEF Running, DataInv, BeforeCommit, CallPcs
<1>5. head \in Seq(Home) /\ Distinct(head) BY DEF CtlInv, TypeOK, HeadInv
<1>6. Replay(disk, head) = [b \in Home |-> disk[b]] BY <1>3, <1>5, ReplayIs
<1>7. Recovered = Replay(disk, head) BY DEF Recovered, Replay
<1> QED BY <1>4, <1>6, <1>7 DEF InMemory

\* The log implements AtomicDisk: wherever a crash falls, in a commit or in a
\* recovery, install_trans() brings the disk to a moment at which no system call was
\* inside, and once nobody commits every finished call is there.  Buffers may run
\* short until the first crash; after it the pins are wrong (PinnedWhileLogged).
THEOREM LogIsCrashAtomic ==
  ASSUME Roomy, FullBoots <= 1
  PROVE  Spec => CrashAtomic
<1>1. Init => Atomic!Init
  <2> SUFFICES ASSUME Init PROVE Atomic!Init OBVIOUS
  <2>1. ~Running BY SizeFacts DEF Init, Boot, Running
  <2>2. {p \in Procs : pc[p] \in {"op", "append"}} = {} BY SizeFacts DEF Init, Boot
  <2> QED BY <2>1, <2>2 DEF Atomic!Init
<1>2. CtlInv /\ DataInv /\ [Next]_vars => [Atomic!Next]_(Atomic!vars) BY StepImplements
<1>3. CtlInv /\ DataInv => QuiescentDurable BY QuiescentIsDurable
<1> QED BY <1>1, <1>2, <1>3, LogInvariant, PTL DEF Spec, CrashAtomic, Atomic!Spec
==============================================================================
