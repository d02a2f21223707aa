--------------------------- MODULE CameraInterface ---------------------------
(* live_stream/camera_subsystem/camera_interface.vhd: the capture of pixels   *)
(* from the OV7670 camera.  One action is one rising edge of the capture      *)
(* clock (p_capture); its inputs are the parameter `in'.  Left out: the       *)
(* remapping of the data bits, the reference pixels and the line counts of    *)
(* the last frame, which only the debug pages show.                           *)
EXTENDS Naturals

CONSTANTS PULSE,       \* frame_done lasts PULSE + 1 cycles; 64 in the code
          swap_bytes,  \* the second byte of a pixel comes first in its word
          NoByte       \* d_latch before the first byte

ASSUME PulseAssumption == PULSE \in Nat \ {0} /\ swap_bytes \in BOOLEAN

VARIABLES
  state, byte_sel, d_latch,
  vsync_d, href_d,                      \* the syncs at the previous edge
  line_cnt, pixel_cnt, pulse_cnt,
  fifo_wr_en, fifo_wr_data, frame_done,
  i2c_done_ff1, i2c_done_ff2,
  capture_rst_sync1, capture_rst_sync2  \* p_capture_reset

countVars == <<line_cnt, pixel_cnt, pulse_cnt>>
outVars == <<fifo_wr_en, fifo_wr_data, frame_done>>
syncVars == <<vsync_d, href_d, i2c_done_ff1, i2c_done_ff2,
              capture_rst_sync1, capture_rst_sync2>>
camVars == <<state, byte_sel, d_latch, countVars, outVars, syncVars>>

States == {"S_IDLE", "S_WAIT_FRAME", "S_CAPTURE", "S_DONE_PULSE"}

CamInit ==
  /\ state = "S_IDLE" /\ byte_sel = FALSE /\ d_latch = NoByte
  /\ vsync_d = FALSE /\ href_d = FALSE
  /\ line_cnt = 0 /\ pixel_cnt = 0 /\ pulse_cnt = 0
  /\ fifo_wr_en = FALSE /\ fifo_wr_data = <<NoByte, NoByte>> /\ frame_done = FALSE
  /\ i2c_done_ff1 = FALSE /\ i2c_done_ff2 = FALSE
  /\ capture_rst_sync1 = FALSE /\ capture_rst_sync2 = FALSE

(* The registers a reset of p_capture clears; the data registers stay.        *)
Cleared ==
  /\ state' = "S_IDLE" /\ byte_sel' = FALSE
  /\ vsync_d' = FALSE /\ href_d' = FALSE
  /\ line_cnt' = 0 /\ pixel_cnt' = 0 /\ pulse_cnt' = 0
  /\ fifo_wr_en' = FALSE /\ frame_done' = FALSE
  /\ i2c_done_ff1' = FALSE /\ i2c_done_ff2' = FALSE
  /\ UNCHANGED <<d_latch, fifo_wr_data>>

(* rst_n = '0' for at least one edge of the capture clock.                    *)
CamReset ==
  Cleared /\ capture_rst_sync1' = FALSE /\ capture_rst_sync2' = FALSE

(* p_capture_reset lets the reset of p_capture go two edges after rst_n.      *)
ReleaseReset ==
  capture_rst_sync1' = TRUE /\ capture_rst_sync2' = capture_rst_sync1

StillReset == ~capture_rst_sync2 /\ ReleaseReset /\ Cleared
-----------------------------------------------------------------------------
(* What every edge does once the reset is over.                               *)
Sample(in) ==
  /\ capture_rst_sync2 /\ ReleaseReset
  /\ i2c_done_ff1' = in.i2c_done /\ i2c_done_ff2' = i2c_done_ff1
  /\ vsync_d' = in.vsync /\ href_d' = in.href

(* Frame edges are taken in either direction: some camera modules invert      *)
(* VSYNC.                                                                     *)
FrameEdge(in) == in.vsync # vsync_d

NoPixel == fifo_wr_en' = FALSE /\ UNCHANGED <<fifo_wr_data, d_latch>>
Counted == line_cnt >= 1 /\ pixel_cnt >= 1   \* END_MIN_LINES, END_MIN_PIXELS
FreshCounts == line_cnt' = 0 /\ pixel_cnt' = 0

Idle(in) ==
  /\ state = "S_IDLE" /\ Sample(in)
  /\ state' = IF i2c_done_ff2 THEN "S_WAIT_FRAME" ELSE state
  /\ frame_done' = FALSE /\ NoPixel
  /\ UNCHANGED <<byte_sel, countVars>>

WaitFrame(in) ==
  /\ state = "S_WAIT_FRAME" /\ Sample(in)
  /\ IF FrameEdge(in)
       THEN state' = "S_CAPTURE" /\ byte_sel' = FALSE /\ FreshCounts
       ELSE UNCHANGED <<state, byte_sel, line_cnt, pixel_cnt>>
  /\ frame_done' = FALSE /\ NoPixel /\ UNCHANGED pulse_cnt

(* The two bytes of a pixel: the first is latched, the second completes the   *)
(* word, which is dropped when the FIFO is full.  Outside a line the pairing  *)
(* starts afresh.                                                             *)
Word(first, second) ==
  IF swap_bytes THEN <<second, first>> ELSE <<first, second>>
Completes(in) == in.href /\ byte_sel
TakenBlind(in) == Completes(in)   \* a slip: fifo_full not looked at
Taken(in) == Completes(in) /\ ~in.fifo_full
PairingKept(in) == IF in.href THEN ~byte_sel ELSE byte_sel   \* a slip
Pairing(in) == in.href /\ ~byte_sel

Bytes(in) ==
  /\ d_latch' = IF in.href /\ ~byte_sel THEN in.byte ELSE d_latch
  /\ fifo_wr_en' = Taken(in)
  /\ fifo_wr_data' = IF Taken(in) THEN Word(d_latch, in.byte) ELSE fifo_wr_data

(* Inside a frame window.                                                     *)
Capture(in) ==
  /\ state = "S_CAPTURE" /\ ~FrameEdge(in) /\ Sample(in)
  /\ Bytes(in) /\ byte_sel' = Pairing(in)
  /\ line_cnt' = IF in.href /\ ~href_d THEN line_cnt + 1 ELSE line_cnt
  /\ pixel_cnt' = IF Taken(in) THEN pixel_cnt + 1 ELSE pixel_cnt
  /\ frame_done' = FALSE /\ UNCHANGED <<state, pulse_cnt>>

(* The window ends.  An empty one is forgotten and the next begins at once.   *)
CloseFrame(in) ==
  /\ state = "S_CAPTURE" /\ FrameEdge(in) /\ Counted /\ Sample(in)
  /\ Bytes(in) /\ byte_sel' = Pairing(in)
  /\ line_cnt' = IF in.href /\ ~href_d THEN line_cnt + 1 ELSE line_cnt
  /\ pixel_cnt' = IF Taken(in) THEN pixel_cnt + 1 ELSE pixel_cnt
  /\ state' = "S_DONE_PULSE" /\ pulse_cnt' = PULSE /\ frame_done' = FALSE

WaitNext == state' = "S_WAIT_FRAME"   \* a slip: the runt loses its edge
Rearm == UNCHANGED state
Runt(in) ==
  /\ state = "S_CAPTURE" /\ FrameEdge(in) /\ ~Counted /\ Sample(in)
  /\ Bytes(in) /\ byte_sel' = FALSE /\ FreshCounts
  /\ Rearm /\ frame_done' = FALSE /\ UNCHANGED pulse_cnt

DonePulse(in) ==
  /\ state = "S_DONE_PULSE" /\ Sample(in)
  /\ frame_done' = TRUE
  /\ IF pulse_cnt = 0
       THEN state' = "S_WAIT_FRAME" /\ UNCHANGED pulse_cnt
       ELSE pulse_cnt' = pulse_cnt - 1 /\ UNCHANGED state
  /\ NoPixel /\ UNCHANGED <<byte_sel, line_cnt, pixel_cnt>>

CamEdge(in) ==
  \/ StillReset
  \/ Idle(in) \/ WaitFrame(in)
  \/ Capture(in) \/ CloseFrame(in) \/ Runt(in)
  \/ DonePulse(in)
==============================================================================
