----------------------------- MODULE CdcFifoProps -----------------------------
(* What makes the dual-clock FIFO correct, and the refinement to BoundedFifo. *)
EXTENDS CdcFifo, Sequences

(* The pointers, from newest to oldest knowledge of them, never overtake each *)
(* other: the write side believes the reader to be where it is or behind, and *)
(* the read side believes the writer to be where it is or behind.  So full    *)
(* and empty are reported early and withdrawn late (full_int, empty_int).     *)
SyncConservative ==
  /\ Dist(wr_ptr, rd_ptr) <= Dist(wr_ptr, rd_sync1)
  /\ Dist(wr_ptr, rd_sync1) <= Dist(wr_ptr, rd_sync2)
  /\ Dist(wr_sync2, rd_ptr) <= Dist(wr_sync1, rd_ptr)
  /\ Dist(wr_sync1, rd_ptr) <= Dist(wr_ptr, rd_ptr)

(* The write side never runs further ahead of the oldest copy it holds of the *)
(* read pointer than the FIFO is deep: what full_int is for.                  *)
WriterBound == Dist(wr_ptr, rd_sync2) <= Depth

(* The inductive invariant behind PointersNeverCross.                         *)
IInv == TypeOK /\ SyncConservative /\ WriterBound

(* However the two clocks interleave, a write never lands on a word not yet   *)
(* read (p_write), and whenever the read side sees empty_int = 0 there is a   *)
(* word that has been written (p_read).                                       *)
NoOverrun == Occupancy <= Depth
NoUnderrun == ~Empty => Occupancy > 0
PointersNeverCross == NoOverrun /\ NoUnderrun

(* The words stored, oldest first.                                            *)
Nth(i) == IF rd_ptr + i >= 2 * Depth THEN rd_ptr + i - 2 * Depth ELSE rd_ptr + i
Stored == [i \in 1 .. Occupancy |-> ram[Slot(Nth(i - 1))]]

(* The two-clock FIFO implements the bounded queue: a write edge appends, a   *)
(* read edge takes the oldest word, a synchroniser edge is a stutter.         *)
Abstract == INSTANCE BoundedFifo WITH queue <- Stored, out <- rd_data
ImplementsQueue == Abstract!Spec

(* While both clocks run, the synchronisers hide neither the last word from   *)
(* the reader nor the last free slot from the writer for ever: again and      *)
(* again empty_int and full_int are withdrawn, unless there is no word or no  *)
(* room by then.                                                              *)
WordBecomesVisible == []<>(~Empty \/ Occupancy = 0)
RoomBecomesVisible == []<>(~Full \/ Occupancy = Depth)
NothingStaysHidden == WordBecomesVisible /\ RoomBecomesVisible
==============================================================================
