------------------------------- MODULE CdcFifo -------------------------------
(* live_stream/camera_subsystem/asyn_fifo.vhd, the portable RTL architecture: *)
(* a dual-clock FIFO whose pointers cross between the two clock domains       *)
(* through two-stage synchronisers.  This module keeps the pointers and the   *)
(* synchroniser registers as the numbers they stand for; AsynFifo keeps them  *)
(* in Gray code, bit by bit, and is shown to implement this one.              *)
(*                                                                            *)
(* Every action is one rising edge of one of the two clocks.  The two clocks  *)
(* have no common phase, so their edges interleave freely.                    *)
EXTENDS Naturals

CONSTANTS Data,     \* the words a slot can hold (DATA_WIDTH bits)
          Depth,    \* DEPTH = 2**DEPTH_LOG2
          NoData    \* rd_data after a reset; it need not be outside Data

(* What the proofs need of the depth.                                         *)
DepthAssumption == Depth \in Nat /\ Depth > 1

VARIABLES
  ram,         \* ram[i] is the word in slot i
  wr_ptr,      \* wr_ptr_bin: next slot to write, modulo 2 * Depth
  rd_ptr,      \* rd_ptr_bin: next slot to read, modulo 2 * Depth
  rd_sync1,    \* rd_gray_sync1 : rd_ptr as the write side sampled it
  rd_sync2,    \* rd_gray_sync2 : ... one write clock earlier
  wr_sync1,    \* wr_gray_sync1 : wr_ptr as the read side sampled it
  wr_sync2,    \* wr_gray_sync2 : ... one read clock earlier
  rd_data      \* the registered read output

wrSide == <<wr_ptr, ram, rd_sync1, rd_sync2>>
rdSide == <<rd_ptr, rd_data, wr_sync1, wr_sync2>>
vars == <<wrSide, rdSide>>

(* Pointers have one bit more than an index, so they count modulo 2 * Depth.  *)
Pointer == 0 .. 2 * Depth - 1
Succ(p) == IF p = 2 * Depth - 1 THEN 0 ELSE p + 1
Dist(a, b) == IF a >= b THEN a - b ELSE a + 2 * Depth - b
Slot(p) == IF p >= Depth THEN p - Depth ELSE p

(* full_int and empty_int: each side compares its own pointer with the other  *)
(* one as it last left the synchroniser.                                      *)
Full == Dist(wr_ptr, rd_sync2) = Depth
Empty == rd_ptr = wr_sync2

(* The true number of words stored, which neither side can see.               *)
Occupancy == Dist(wr_ptr, rd_ptr)

(* The pointers, their synchronised copies and the stored words stay in range.*)
TypeOK ==
  /\ ram \in [0 .. Depth - 1 -> Data \cup {NoData}]
  /\ rd_data \in Data \cup {NoData}
  /\ wr_ptr \in Pointer /\ rd_sync1 \in Pointer /\ rd_sync2 \in Pointer
  /\ rd_ptr \in Pointer /\ wr_sync1 \in Pointer /\ wr_sync2 \in Pointer

Init ==
  /\ ram = [i \in 0 .. Depth - 1 |-> NoData]
  /\ rd_data = NoData
  /\ wr_ptr = 0 /\ rd_sync1 = 0 /\ rd_sync2 = 0
  /\ rd_ptr = 0 /\ wr_sync1 = 0 /\ wr_sync2 = 0

(* The write side samples the read pointer on every one of its edges.         *)
SampleRd == rd_sync1' = rd_ptr /\ rd_sync2' = rd_sync1

(* wr_clk edge with wr_en = 1 and room.                                       *)
Write(d) ==
  /\ ~Full
  /\ ram' = [ram EXCEPT ![Slot(wr_ptr)] = d]
  /\ wr_ptr' = Succ(wr_ptr)
  /\ SampleRd
  /\ UNCHANGED rdSide

(* wr_clk edge with wr_en = 0, or with wr_en = 1 and the FIFO full.           *)
WrIdle == SampleRd /\ UNCHANGED <<ram, wr_ptr, rdSide>>

SampleWr == wr_sync1' = wr_ptr /\ wr_sync2' = wr_sync1

(* rd_clk edge with rd_en = 1 and a word to read.                             *)
Read ==
  /\ ~Empty
  /\ rd_data' = ram[Slot(rd_ptr)]
  /\ rd_ptr' = Succ(rd_ptr)
  /\ SampleWr
  /\ UNCHANGED wrSide

(* rd_clk edge with rd_en = 0, or with rd_en = 1 and the FIFO empty.          *)
RdIdle == SampleWr /\ UNCHANGED <<rd_data, rd_ptr, wrSide>>

(* Both asynchronous resets at once: in camera_subsystem wr_rst_n and         *)
(* rd_rst_n are the same signal.  The RAM is not cleared.                     *)
Reset ==
  /\ wr_ptr' = 0 /\ rd_sync1' = 0 /\ rd_sync2' = 0
  /\ rd_ptr' = 0 /\ wr_sync1' = 0 /\ wr_sync2' = 0
  /\ rd_data' = NoData
  /\ UNCHANGED ram

WrEdge == (\E d \in Data : Write(d)) \/ WrIdle
RdEdge == Read \/ RdIdle
Next == WrEdge \/ RdEdge \/ Reset

Spec == Init /\ [][Next]_vars
==============================================================================
