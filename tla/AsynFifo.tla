------------------------------ MODULE AsynFifo ------------------------------
(* live_stream/vga_subsystem/asyn_fifo.vhd, the portable RTL architecture,    *)
(* with its pointers crossing the clock domains in Gray code and its fill     *)
(* levels.  (camera_subsystem holds the same file without wr_usedw.)          *)
(*                                                                            *)
(* It is shown to be a bounded queue in two steps: it implements CdcFifo,     *)
(* which keeps the pointers as the numbers they stand for, and that           *)
(* implements BoundedFifo.                                                    *)
EXTENDS Naturals

CONSTANTS Data,        \* the words a slot can hold
          DEPTH_LOG2,  \* number of address bits
          NoData       \* rd_data after a reset

ASSUME DepthLog2Assumption == DEPTH_LOG2 \in Nat /\ DEPTH_LOG2 >= 1

(* The bits of a pointer, and what each of them is worth.                     *)
Bits == 0 .. DEPTH_LOG2
Weight[i \in Bits] == IF i = 0 THEN 1 ELSE 2 * Weight[i - 1]
DEPTH == Weight[DEPTH_LOG2]
PtrMod == 2 * DEPTH

VARIABLES ram, wr_ptr_bin, rd_ptr_bin, rd_data,
          rd_gray_sync1, rd_gray_sync2, wr_gray_sync1, wr_gray_sync2

wrSide == <<ram, wr_ptr_bin, rd_gray_sync1, rd_gray_sync2>>
rdSide == <<rd_data, rd_ptr_bin, wr_gray_sync1, wr_gray_sync2>>
fifoVars == <<wrSide, rdSide>>

(* An unsigned number without its lower bits, and its bit i.                  *)
ShiftRight(b) ==
  LET half[i \in 0 .. DEPTH_LOG2 + 1] == IF i = 0 THEN b ELSE half[i - 1] \div 2
  IN  half
BitOf(b, i) == ShiftRight(b)[i] % 2

(* A slip: plain binary sent across.                                          *)
binaryBits(b) == [i \in Bits |-> BitOf(b, i)]

(* A Gray code is the vector of its bits.  The top bit is copied, every other *)
(* bit is the exclusive or of two neighbours.                                 *)
bin2gray(b) == [i \in Bits |-> (BitOf(b, i) + BitOf(b, i + 1)) % 2]

(* Back again from the top: bit i is the exclusive or of bit i + 1, which is  *)
(* the lowest there is so far, and of Gray bit i.                             *)
gray2bin(g) ==
  LET upper[i \in Bits] ==
        IF i = DEPTH_LOG2 THEN g[i]
        ELSE 2 * upper[i + 1] + ((upper[i + 1] + g[i]) % 2)
  IN  upper[0]

wr_ptr_gray == bin2gray(wr_ptr_bin)
rd_ptr_gray == bin2gray(rd_ptr_bin)

(* Slips: full compared as with binary pointers, empty with the pointer to    *)
(* come, a level the wrong way round.                                         *)
full_as_binary ==
  \A i \in Bits : (wr_ptr_gray[i] # rd_gray_sync2[i]) = (i = DEPTH_LOG2)
empty_ahead == bin2gray((rd_ptr_bin + 1) % PtrMod) = wr_gray_sync2
rd_room == (rd_ptr_bin + PtrMod - gray2bin(wr_gray_sync2)) % DEPTH

(* Full: the two top Gray bits differ and all the others agree.               *)
full_int ==
  \A i \in Bits : (wr_ptr_gray[i] # rd_gray_sync2[i]) = (i >= DEPTH_LOG2 - 1)
empty_int == rd_ptr_gray = wr_gray_sync2

(* Fill levels.  The ports are DEPTH_LOG2 bits wide: the top bit of the       *)
(* difference is cut off.                                                     *)
wr_usedw == (wr_ptr_bin + PtrMod - gray2bin(rd_gray_sync2)) % DEPTH
rd_usedw == (gray2bin(wr_gray_sync2) + PtrMod - rd_ptr_bin) % DEPTH

Zero == [i \in Bits |-> 0]

FifoInit ==
  /\ ram = [i \in 0 .. DEPTH - 1 |-> NoData]
  /\ rd_data = NoData
  /\ wr_ptr_bin = 0 /\ rd_gray_sync1 = Zero /\ rd_gray_sync2 = Zero
  /\ rd_ptr_bin = 0 /\ wr_gray_sync1 = Zero /\ wr_gray_sync2 = Zero

(* Slips: the pointer advanced before it is used; the second register of a    *)
(* synchroniser left out.                                                     *)
WriteSlotAhead == (wr_ptr_bin + 1) % DEPTH
SampleWrStuck == wr_gray_sync1' = wr_ptr_gray /\ wr_gray_sync2' = wr_gray_sync2

(* The slot a write goes to, and the two-register synchronisers, which each   *)
(* side moves on at every one of its edges.                                   *)
WriteSlot == wr_ptr_bin % DEPTH
SampleRd == rd_gray_sync1' = rd_ptr_gray /\ rd_gray_sync2' = rd_gray_sync1
SampleWr == wr_gray_sync1' = wr_ptr_gray /\ wr_gray_sync2' = wr_gray_sync1

(* p_write: one wr_clk edge.                                                  *)
WrEdge(wr_en, wr_data) ==
  /\ SampleRd
  /\ IF wr_en /\ ~full_int
       THEN /\ ram' = [ram EXCEPT ![WriteSlot] = wr_data]
            /\ wr_ptr_bin' = (wr_ptr_bin + 1) % PtrMod
       ELSE UNCHANGED <<ram, wr_ptr_bin>>
  /\ UNCHANGED rdSide

(* p_read: one rd_clk edge.                                                   *)
RdEdge(rd_en) ==
  /\ SampleWr
  /\ IF rd_en /\ ~empty_int
       THEN /\ rd_data' = ram[rd_ptr_bin % DEPTH]
            /\ rd_ptr_bin' = (rd_ptr_bin + 1) % PtrMod
       ELSE UNCHANGED <<rd_data, rd_ptr_bin>>
  /\ UNCHANGED wrSide

(* wr_rst_n and rd_rst_n together.                                            *)
ResetBoth ==
  /\ wr_ptr_bin' = 0 /\ rd_gray_sync1' = Zero /\ rd_gray_sync2' = Zero
  /\ rd_ptr_bin' = 0 /\ wr_gray_sync1' = Zero /\ wr_gray_sync2' = Zero
  /\ rd_data' = NoData
  /\ UNCHANGED ram

WriteClock == \E wr_en \in BOOLEAN, wr_data \in Data : WrEdge(wr_en, wr_data)
ReadClock == \E rd_en \in BOOLEAN : RdEdge(rd_en)
FifoNext == WriteClock \/ ReadClock \/ ResetBoth

FifoSpec == FifoInit /\ [][FifoNext]_fifoVars
-----------------------------------------------------------------------------
(* The Gray-coded FIFO implements the FIFO with plain pointers: bin2gray,     *)
(* gray2bin and the full_int comparison stand for the pointer arithmetic,     *)
(* wrap-around of the extra bit included.                                     *)
Plain == INSTANCE CdcFifoProps WITH
  Depth <- DEPTH, wr_ptr <- wr_ptr_bin, rd_ptr <- rd_ptr_bin,
  rd_sync1 <- gray2bin(rd_gray_sync1), rd_sync2 <- gray2bin(rd_gray_sync2),
  wr_sync1 <- gray2bin(wr_gray_sync1), wr_sync2 <- gray2bin(wr_gray_sync2)
ImplementsCdcFifo == Plain!Spec

(* However the two clocks interleave, a write never lands on a word not yet   *)
(* read (p_write), and whenever the read side sees empty_int = 0 there is a   *)
(* word that has been written (p_read).                                       *)
PointersNeverCross == Plain!PointersNeverCross

(* The two-clock FIFO implements the bounded queue: a write edge appends, a   *)
(* read edge takes the oldest word, a synchroniser edge is a stutter.         *)
ImplementsQueue == Plain!ImplementsQueue

(* While both clocks run, the synchronisers hide neither the last word from   *)
(* the reader nor the last free slot from the writer for ever: again and      *)
(* again empty_int and full_int are withdrawn, unless there is no word or no  *)
(* room by then.                                                              *)
NothingStaysHidden == Plain!NothingStaysHidden

(* A pointer that crosses a clock boundary changes at most one bit per edge,  *)
(* so a synchroniser that samples it in flight gets the old or the new value, *)
(* never a mixture (bin2gray).  Resets, which clear both sides, are the       *)
(* exception the code makes.                                                  *)
BitsChanged(g, h) == {i \in Bits : g[i] # h[i]}
OneBitAtATime ==
  [][ \/ ResetBoth
      \/ /\ \A i, j \in BitsChanged(wr_ptr_gray, wr_ptr_gray') : i = j
         /\ \A i, j \in BitsChanged(rd_ptr_gray, rd_ptr_gray') : i = j ]_fifoVars

(* The levels err on the safe side: below full, the write side never reports  *)
(* fewer words than there are and the read side never more (wr_usedw,         *)
(* rd_usedw), so an almost-full throttle acts in time.                        *)
Occupancy == (wr_ptr_bin + PtrMod - rd_ptr_bin) % PtrMod
LevelsSafe ==
  /\ ~full_int => wr_usedw >= Occupancy
  /\ rd_usedw <= Occupancy
==============================================================================
