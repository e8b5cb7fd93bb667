----------------------------- MODULE ByteStream -----------------------------
(* What a pipe promises: a bounded first-in first-out stream of bytes with *)
(* two ends.  Nothing is written once the write end is closed, and a byte  *)
(* leaves the stream only at its front.                                    *)
EXTENDS Sequences, Integers

CONSTANTS Bytes, Capacity

VARIABLES queue,     \* bytes written and not yet read
          last,      \* the byte most recently delivered to a reader
          wopen, ropen

vars == <<queue, last, wopen, ropen>>

Init == /\ queue = <<>>
        /\ last \in Bytes
        /\ wopen = TRUE /\ ropen = TRUE

Put(b) == /\ wopen
          /\ Len(queue) < Capacity
          /\ queue' = Append(queue, b)
          /\ UNCHANGED <<last, wopen, ropen>>

Take == /\ ropen
        /\ queue # <<>>
        /\ last' = Head(queue)
        /\ queue' = Tail(queue)
        /\ UNCHANGED <<wopen, ropen>>

\* A reader with a bad address loses the byte it asked for.
Lose == /\ ropen
        /\ queue # <<>>
        /\ queue' = Tail(queue)
        /\ UNCHANGED <<last, wopen, ropen>>

CloseWrite == wopen /\ wopen' = FALSE /\ UNCHANGED <<queue, last, ropen>>

CloseRead == ropen /\ ropen' = FALSE /\ UNCHANGED <<queue, last, wopen>>

Next == \/ \E b \in Bytes : Put(b)
        \/ Take \/ Lose \/ CloseWrite \/ CloseRead

Spec == Init /\ [][Next]_vars
=============================================================================
