----------------------------- MODULE BoundedFifo -----------------------------
(* What live_stream's dual-clock FIFO promises its two users, clocks and      *)
(* synchronisers forgotten: a queue of at most Depth words.  The writer's     *)
(* word is stored or refused, the reader gets the oldest word in its output   *)
(* register or keeps the register as it was, and a reset empties the queue.   *)
EXTENDS Naturals, Sequences

CONSTANTS Data,     \* the words a slot can hold
          Depth,    \* number of slots
          NoData    \* the value of the output register after a reset

VARIABLES queue,    \* the words written and not yet read, oldest first
          out       \* the registered read output, rd_data

vars == <<queue, out>>

(* The abstract queue never holds more than Depth words.                      *)
TypeOK ==
  /\ queue \in Seq(Data)
  /\ Len(queue) <= Depth
  /\ out \in Data \cup {NoData}

Init == queue = << >> /\ out = NoData

Put(d) ==
  /\ Len(queue) < Depth
  /\ queue' = Append(queue, d)
  /\ UNCHANGED out

Get ==
  /\ queue # << >>
  /\ out' = Head(queue)
  /\ queue' = Tail(queue)

Reset == queue' = << >> /\ out' = NoData

Next == (\E d \in Data : Put(d)) \/ Get \/ Reset

Spec == Init /\ [][Next]_vars
==============================================================================
