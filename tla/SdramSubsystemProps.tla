------------------------- MODULE SdramSubsystemProps -------------------------
(* What makes the frame store correct.                                        *)
EXTENDS SdramSubsystem, SdramInterfaceProps

(* The word of the frame store that is shown as pixel k.                      *)
Stored(bank, k) == mem[Base(bank) + k - (k % Burst)][(k % Burst) + 1]

(* While one frame is shown and no newer one is ready, and the camera and the *)
(* display keep the pace of the board, the bank shown holds the words of the  *)
(* last frame the camera completed, in order and none twice.  It holds them   *)
(* one place late: the arbiter takes q one edge before the FIFO renews it, so *)
(* the first place holds the last pixel of the frame before (or the reset     *)
(* value) and the last pixel is not in the frame.  That this is not what      *)
(* sdram_interface.vhd means to do is the subject of StoredInPlace.           *)
LastDone == (frame + 2) % 3
OneLate(k) == IF k = 0 THEN {NoWord, <<(frame + 1) % 3, FRAME_PIXELS - 1>>}
              ELSE {<<LastDone, k - 1>>}
Showing == paced /\ read_frame_valid /\ ~new_frame_ready
FrameStored ==
  Showing => \A k \in 0 .. FRAME_PIXELS - 1 : Stored(read_bank, k) \in OneLate(k)

(* What sdram_interface.vhd:15-19 claims (BUG7, "Fixed"): no word is shifted  *)
(* on its way into the SDRAM, so each pixel is found at its own place.        *)
StoredInPlace ==
  Showing => \A k \in 0 .. FRAME_PIXELS - 1 : Stored(read_bank, k) = <<LastDone, k>>

(* The words put into the VGA FIFO after vsync fell are the words of that     *)
(* frame, each once and in order, again from the top when the frame is over.  *)
StreamInOrder == Showing /\ vga_wr_en => vga_wr_data \in OneLate(sent)

(* The arbiter does not hang: whatever the camera, the display and the        *)
(* controller do, also when frame_done or vsync comes while a request is up   *)
(* and is forgotten, it comes back to ST_FILL_CAM.                            *)
ComesBack == []<>(state = "FILL_CAM")
==============================================================================
