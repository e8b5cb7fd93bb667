------------------------------ MODULE Console -------------------------------
(* Console input: consoleintr() and consoleread() of console.c over the ring   *)
(* cons.buf, whose indices r, w and e run freely and wrap as unsigned numbers. *)
(* Characters: "x" an ordinary one, "nl", "cr", "eof" for ^D, "kill" for ^U,   *)
(* "bs" for ^H, "dump" for ^P and "nul".                                       *)
EXTENDS Integers, Sequences

CONSTANTS INPUT_BUF,   \* size of cons.buf
          CWRAP,       \* where uint wraps (a multiple of INPUT_BUF)
          Readers,     \* reading processes
          ReadSizes,   \* bound: lengths asked for
          NoReader     \* cons.lock is free

ASSUME ConsoleAssumption ==
  /\ INPUT_BUF \in Nat \ {0} /\ CWRAP \in Nat \ {0}
  /\ CWRAP > INPUT_BUF /\ CWRAP % INPUT_BUF = 0
  /\ NoReader \notin Readers /\ ReadSizes \subseteq Nat

VARIABLES cbuf, cr, cw, ce,  \* cons.buf, cons.r, cons.w and cons.e
          clock,             \* holder of cons.lock between steps of consoleread()
          rpc, rn, got,      \* each reader: place, n, and the characters copied out
          ckilled            \* readers with p->killed
csVars == <<cbuf, cr, cw, ce, clock, rpc, rn, got, ckilled>>

Typed == {"x", "nl", "cr", "eof", "kill", "bs", "dump", "nul"}
U(n) == n % CWRAP
Char(i) == cbuf[U(i) % INPUT_BUF]
Room == U(ce - cr) < INPUT_BUF

CsInit == /\ cbuf = [i \in 0..INPUT_BUF - 1 |-> "nul"]
          /\ cr = 0 /\ cw = 0 /\ ce = 0
          /\ clock = NoReader
          /\ rpc = [p \in Readers |-> "idle"]
          /\ rn = [p \in Readers |-> 0]
          /\ got = [p \in Readers |-> <<>>]
          /\ ckilled = {}

\* Mutant: one sleeper is woken, as if readers were interchangeable.
wakeOneMutant(pc) ==
  LET S == {p \in Readers : pc[p] = "sleep"} IN
  IF S = {} THEN pc ELSE [pc EXCEPT ![CHOOSE p \in S : TRUE] = "call"]
wakeReaders(pc) == [p \in Readers |-> IF pc[p] = "sleep" THEN "call" ELSE pc[p]]

\* consoleintr(), by the character typed.
IntrKill ==
  /\ clock = NoReader
  \* back to the last newline or end of input, or to w
  /\ \E i \in 0..INPUT_BUF :
       /\ i <= U(ce - cw)
       /\ i = U(ce - cw) \/ Char(ce - i - 1) = "nl"
       /\ \A j \in 0..i - 1 : Char(ce - j - 1) # "nl"
       /\ ce' = U(ce - i)
  /\ UNCHANGED <<cbuf, cr, cw, clock, rpc, rn, got, ckilled>>
IntrBackspace ==
  /\ clock = NoReader /\ ce # cw
  /\ ce' = U(ce - 1)
  /\ UNCHANGED <<cbuf, cr, cw, clock, rpc, rn, got, ckilled>>
\* ^P, NUL and a full buffer change nothing.
Stored(c) == IF c = "cr" THEN "nl" ELSE c
\* Mutant: a line is complete at a newline or ^D only.
WholeLineMutant(c) == c \in {"nl", "eof"}
WholeLine(c) == c \in {"nl", "eof"} \/ U(ce + 1) = U(cr + INPUT_BUF)
IntrChar(c) ==
  /\ clock = NoReader
  /\ c \in Typed \ {"kill", "bs", "dump", "nul"} /\ Room
  /\ cbuf' = [cbuf EXCEPT ![ce % INPUT_BUF] = Stored(c)]
  /\ ce' = U(ce + 1)
  /\ IF WholeLine(Stored(c)) THEN cw' = U(ce + 1) /\ rpc' = wakeReaders(rpc)
                             ELSE UNCHANGED <<cw, rpc>>
  /\ UNCHANGED <<cr, clock, rn, got, ckilled>>

\* consoleread(n)
ReadCall(p, n) ==
  /\ rpc[p] = "idle"
  /\ rpc' = [rpc EXCEPT ![p] = "call"]
  /\ rn' = [rn EXCEPT ![p] = n]
  /\ UNCHANGED <<cbuf, cr, cw, ce, clock, got, ckilled>>
ReadLock(p) ==
  /\ rpc[p] = "call" /\ clock = NoReader
  /\ clock' = p
  /\ rpc' = [rpc EXCEPT ![p] = "loop"]
  /\ UNCHANGED <<cbuf, cr, cw, ce, rn, got, ckilled>>
Leave(p) == /\ clock' = NoReader
            /\ rpc' = [rpc EXCEPT ![p] = "done"]
ReadKilled(p) ==
  /\ rpc[p] = "loop" /\ rn[p] > 0 /\ cr = cw /\ p \in ckilled
  /\ Leave(p)
  /\ UNCHANGED <<cbuf, cr, cw, ce, rn, got, ckilled>>
\* kill() may come between the test of p->killed and sleep(), which releases
\* cons.lock with the reader already SLEEPING.
ReadWait(p) ==
  /\ rpc[p] = "loop" /\ rn[p] > 0 /\ cr = cw /\ p \notin ckilled
  /\ rpc' = [rpc EXCEPT ![p] = "wait"]
  /\ UNCHANGED <<cbuf, cr, cw, ce, clock, rn, got, ckilled>>
ReadSleep(p) ==
  /\ rpc[p] = "wait"
  /\ clock' = NoReader
  /\ rpc' = [rpc EXCEPT ![p] = "sleep"]
  /\ UNCHANGED <<cbuf, cr, cw, ce, rn, got, ckilled>>
\* ^D: kept for the next read if this one has something.
ReadEof(p) ==
  /\ rpc[p] = "loop" /\ rn[p] > 0 /\ cr # cw /\ Char(cr) = "eof"
  /\ cr' = IF got[p] # <<>> THEN cr ELSE U(cr + 1)
  /\ Leave(p)
  /\ UNCHANGED <<cbuf, cw, ce, rn, got, ckilled>>
ReadChar(p) ==
  /\ rpc[p] = "loop" /\ rn[p] > 0 /\ cr # cw /\ Char(cr) # "eof"
  /\ cr' = U(cr + 1)
  /\ got' = [got EXCEPT ![p] = Append(@, Char(cr))]
  /\ rn' = [rn EXCEPT ![p] = @ - 1]
  /\ IF Char(cr) = "nl" THEN Leave(p) ELSE UNCHANGED <<clock, rpc>>
  /\ UNCHANGED <<cbuf, cw, ce, ckilled>>
\* either_copyout() fails: the character is gone, the read ends.
ReadFault(p) ==
  /\ rpc[p] = "loop" /\ rn[p] > 0 /\ cr # cw /\ Char(cr) # "eof"
  /\ cr' = U(cr + 1)
  /\ Leave(p)
  /\ UNCHANGED <<cbuf, cw, ce, rn, got, ckilled>>
ReadFull(p) ==
  /\ rpc[p] = "loop" /\ rn[p] = 0
  /\ Leave(p)
  /\ UNCHANGED <<cbuf, cr, cw, ce, rn, got, ckilled>>
\* The caller has its result; a killed one exits, and another takes its place.
ReadReturn(p) ==
  /\ rpc[p] = "done"
  /\ rpc' = [rpc EXCEPT ![p] = "idle"]
  /\ rn' = [rn EXCEPT ![p] = 0]
  /\ got' = [got EXCEPT ![p] = <<>>]
  /\ ckilled' = ckilled \ {p}
  /\ UNCHANGED <<cbuf, cr, cw, ce, clock>>
\* kill(): the flag, and a sleeper is made runnable.
CsKill(p) ==
  /\ p \notin ckilled /\ rpc[p] # "idle"
  /\ ckilled' = ckilled \cup {p}
  /\ rpc' = [rpc EXCEPT ![p] = IF @ = "sleep" THEN "call" ELSE @]
  /\ UNCHANGED <<cbuf, cr, cw, ce, clock, rn, got>>

ReadStep(p) == ReadLock(p) \/ ReadKilled(p) \/ ReadWait(p) \/ ReadSleep(p)
               \/ ReadEof(p) \/ ReadChar(p) \/ ReadFault(p) \/ ReadFull(p) \/ ReadReturn(p)
CsNext == \/ IntrKill \/ IntrBackspace
          \/ \E c \in Typed : IntrChar(c)
          \/ \E p \in Readers, n \in ReadSizes : ReadCall(p, n)
          \/ \E p \in Readers : ReadStep(p) \/ CsKill(p)
CsSpec == CsInit /\ [][CsNext]_csVars

-----------------------------------------------------------------------------
(* Properties                                                              *)

Slice(from, n) == [k \in 1..n |-> Char(from + k - 1)]

\* The console keeps what LineBuffer promises: however typing, erasing and reads
\* interleave and the indices wrap, no finished character is lost, repeated,
\* erased or read before its line is finished, at most INPUT_BUF are held, a full
\* buffer counts as a line, and no read goes past its line or hands out a ^D.
LB == INSTANCE LineBuffer WITH Size <- INPUT_BUF,
        queue <- Slice(cr, U(cw - cr)), pend <- Slice(cw, U(ce - cw))
IsLineBuffer == LB!LbSpec

\* No reader sleeps beside a finished line, even when an earlier reader took the
\* wakeup and left part of the line, or put a ^D back.
NoSleepBesideLine == \A p \in Readers : rpc[p] = "sleep" => cr = cw
=============================================================================
