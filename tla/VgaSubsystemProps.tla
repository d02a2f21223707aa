-------------------------- MODULE VgaSubsystemProps --------------------------
(* What makes the picture right.                                              *)
EXTENDS VgaSubsystem

(* The word of the frame that belongs at column x of the current line.        *)
WordAt(x) == <<frame, (vc \div 2) * W + (x \div 2)>>
InStep == read_start_armed /\ ~skipped

(* As long as no word was missed in this frame, every word read is the one    *)
(* that belongs at the place where the display is: a frame starts with its    *)
(* first word at (0, 0), nothing of an older frame is left in the FIFO, and   *)
(* the cadence of the requests (rd_en_int) takes each word once.              *)
FrameAligned ==
  InStep /\ Due(read_start_armed) /\ ~fifo_empty => Head(fifo) = WordAt(hc)

(* In a frame without misses every word is shown, one edge later, where the   *)
(* code puts it: on the odd lines at its place; on the even lines one pair of *)
(* columns to the right, since fetch_pixel_q delays it by two edges.  That    *)
(* the two lines of a pair differ is the subject of SquareBlocks.             *)
Shown == InStep /\ active_d /\ hc > 0
PictureShown ==
  /\ Shown /\ ~EvenLine => pixel = WordAt(hc - 1)
  /\ Shown /\ EvenLine /\ hc > 2 => pixel = WordAt(hc - 3)

(* What vga_interface.vhd:113 claims: "One source pixel supplies each 2x2     *)
(* output block", away from the left edge, where a line has no word yet.      *)
SquareBlocks == Shown /\ hc > 2 => pixel = WordAt(hc - 1)

(* While a prompt writer has a frame, words go on being read: neither the     *)
(* throttle nor the flush nor the gate locks up (unless frame after frame is  *)
(* interrupted by the test switch).                                           *)
GoesOnShowing == prompt => []<>(rd_en_q \/ skipped \/ ~streaming)

(* The FIFO never comes near its depth, where its level would read 0 and the  *)
(* gate stay shut; and with the vendor FIFO, which stream_top uses, a frame   *)
(* is only let start when START_FILL_LEVEL words have come in after the       *)
(* flush, so that the display does not run dry at (0, 0) (p_read_start).      *)
StartsFilled ==
  /\ [](Len(fifo) < DEPTH)
  /\ [][ USE_VENDOR_FIFO /\ ~read_start_armed /\ read_start_armed'
           /\ vc >= V_ACTIVE + V_FP => fifo_usedw >= START_FILL_LEVEL ]_vars
==============================================================================
