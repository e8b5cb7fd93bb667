----------------------------- MODULE LineBuffer -----------------------------
(* What the console promises: typed characters gather in a line that can be   *)
(* edited; a finished line can only be read, in the order typed and once, and *)
(* a read ends with its line or before an end of file.                        *)
EXTENDS Sequences, Naturals

CONSTANTS Readers, Size   \* reading processes; characters held at most
VARIABLES queue,   \* finished input
          pend,    \* the line being typed
          got      \* what each reader's current read has been given
lbVars == <<queue, pend, got>>

Plain == {"x", "nl", "eof"}
LbInit == queue = <<>> /\ pend = <<>> /\ got = [p \in Readers |-> <<>>]

Finishes(c) == c \in {"nl", "eof"} \/ Len(queue) + Len(pend) + 1 = Size
LbType(c) ==
  /\ Len(queue) + Len(pend) < Size
  /\ queue' = IF Finishes(c) THEN queue \o Append(pend, c) ELSE queue
  /\ pend' = IF Finishes(c) THEN <<>> ELSE Append(pend, c)
  /\ UNCHANGED got
LbErase == /\ pend # <<>>
           /\ pend' \in {SubSeq(pend, 1, Len(pend) - 1), <<>>}
           /\ UNCHANGED <<queue, got>>

\* A reader that has not finished its line is given the next character; an end
\* of file is taken by a read that has nothing, and given to no one.
LbRead(p) ==
  /\ queue # <<>>
  /\ got[p] = <<>> \/ got[p][Len(got[p])] # "nl"
  /\ Head(queue) = "eof" => got[p] = <<>>
  /\ queue' = Tail(queue)
  /\ got' = IF Head(queue) = "eof" THEN got ELSE [got EXCEPT ![p] = Append(@, Head(queue))]
  /\ UNCHANGED pend
\* A character whose copy to the reader fails is lost, and ends the read.
LbLose == queue # <<>> /\ Head(queue) # "eof" /\ queue' = Tail(queue) /\ UNCHANGED <<pend, got>>
LbReturn(p) == got[p] # <<>> /\ got' = [got EXCEPT ![p] = <<>>] /\ UNCHANGED <<queue, pend>>

LbNext == \/ \E c \in Plain : LbType(c)
          \/ LbErase \/ LbLose
          \/ \E p \in Readers : LbRead(p) \/ LbReturn(p)
LbSpec == LbInit /\ [][LbNext]_lbVars
=============================================================================
