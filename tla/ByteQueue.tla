------------------------------ MODULE ByteQueue ------------------------------
(***************************************************************************)
(* What an interrupt queue promises: bytes come out in the order in which  *)
(* they went in, each once, and there are never more than Capacity of them *)
(* inside.  Console implements two of these.                               *)
(***************************************************************************)
EXTENDS Integers, Sequences

CONSTANTS Byte, Capacity

VARIABLES queue,
          out           \* the byte that came out last

Init == queue = <<>> /\ out \notin Byte

\* b is added to the bytes q.
Added(q, b) == b \in Byte /\ queue' = Append(q, b)

Put == Len(queue) < Capacity /\ UNCHANGED out /\ Added(queue, queue'[Len(queue')])

Get == out' = Head(queue) /\ queue' = Tail(queue)

\* A byte is pushed through a full queue.
Pass == out' = Head(queue) /\ Added(Tail(queue), queue'[Len(queue')])

\* All of it comes out at once.
Flush == out' = queue[Len(queue)] /\ queue' = <<>>

\* A step that changes nothing is a stuttering step.
Next ==
  /\ <<queue, out>>' # <<queue, out>>
  /\ \/ queue' # <<>> /\ Put
     \/ queue # <<>> /\ (Get \/ Flush \/ (queue' # <<>> /\ Pass))

Spec == Init /\ [][Next]_<<queue, out>>
=============================================================================
