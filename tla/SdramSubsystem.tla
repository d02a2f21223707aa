--------------------------- MODULE SdramSubsystem ---------------------------
(* live_stream/sdram_subsystem/sdram_subsystem.vhd at work: the arbiter of    *)
(* SdramInterface with the camera FIFO in front of it, the SDRAM controller   *)
(* as MemoryPort describes it (SdramBus shows that it does), and the VGA FIFO *)
(* behind.  A frame is shown before the next one is done: the display runs at *)
(* 60 frames a second, the camera at 30.  The rest of the pace is either that *)
(* of the board (paced), where                                                *)
(*   - the camera's vertical blanking, hundreds of microseconds, leaves time  *)
(*     to store the last pixels of a frame before frame_done rises, and       *)
(*   - no pixel is displayed in the ten lines before vsync falls, so by then  *)
(*     the VGA FIFO is full again and no read is under way,                   *)
(* or none at all: frame_done and vsync then cut off writes and reads at any  *)
(* point, requests that are up included.                                      *)
EXTENDS SdramInterface, FiniteSets

CONSTANT CamDepth   \* depth of the camera FIFO; 512 in the code

VARIABLES mem, latching, pend, rest, wr_ack, rd_ack, rd_valid, rd_data
Port == INSTANCE MemoryPort WITH
          Addrs <- {b * Burst : b \in 0 .. 2 * FrameBursts - 1},
          Bursts <- [1 .. Burst -> Words],
          Blank <- [i \in 1 .. Burst |-> NoWord]

VARIABLES
  cam, cam_q,   \* the camera FIFO and its registered output
  frame,        \* the frame the camera is sending, modulo 3
  pix,          \* pixels of it sent
  sent,         \* history: words put into the VGA FIFO since vsync fell
  paced         \* the camera and the display keep the pace of the board

envVars == <<cam, cam_q, frame, pix, sent, paced>>
vars == <<ifVars, Port!portVars, envVars>>

(* The pixels of a frame, with three frames told apart.                       *)
Frames == 0 .. 2
NextFrame(f) == (f + 1) % 3
Pixels == Frames \X (0 .. FRAME_PIXELS - 1)

ASSUME PixelAssumption == Pixels \subseteq Words

Init ==
  /\ IfInit /\ Port!PortInit
  /\ cam = << >> /\ cam_q = NoWord /\ frame = 0 /\ pix = 0 /\ sent = 0
  /\ paced \in BOOLEAN

(* The camera FIFO: rd_en moves the oldest word to q.  The camera sends its   *)
(* pixels in order, none while the FIFO is full.  Without the pace nothing is *)
(* followed as far as the memory: two pixels in a row are told apart, which   *)
(* is what shows a word that moves in the latch, and the memory stays blank.  *)
SendPaced(in, left) ==
  \/ /\ pix < FRAME_PIXELS /\ Len(cam) < CamDepth
     /\ cam' = Append(left, <<frame, pix>>)
     /\ pix' = pix + 1 /\ UNCHANGED frame
  \/ /\ cam' = left
     /\ pix' = RewoundWrite(in, pix)
     /\ frame' = IF FrameDone(in) THEN NextFrame(frame) ELSE frame

SendAny(left) ==
  /\ \/ /\ Len(cam) < CamDepth
        /\ cam' = Append(left, <<frame, pix>>) /\ pix' = 1 - pix
     \/ cam' = left /\ UNCHANGED pix
  /\ UNCHANGED frame

CameraFifo(in) ==
  LET left == IF cam_rd THEN Tail(cam) ELSE cam
  IN  /\ cam_q' = IF cam_rd THEN Head(cam) ELSE cam_q
      /\ IF paced THEN SendPaced(in, left) ELSE SendAny(left)

DataFollowed == IF paced THEN wr_data_latch ELSE [i \in 1 .. Burst |-> NoWord]

(* Every pixel of the frame is in the SDRAM.                                  *)
CameraQuiet ==
  /\ pix = FRAME_PIXELS /\ cam = << >> /\ ~cam_rd_pending
  /\ state \notin {"ISSUE_WR", "WAIT_WR_ACK"} /\ latching = {}

ReadQuiet ==
  /\ state \notin {"ISSUE_RD", "WAIT_RD_ACK", "WAIT_RD_DATA"}
  /\ ~vga_wr_pending /\ ~vga_wr_en

Pace(in) ==
  /\ ShownBeforeNext(in)
  /\ paced => /\ FrameDone(in) => CameraQuiet
              /\ VsyncFall(in) => ReadQuiet

Inputs ==
  [frame_done : BOOLEAN, vsync : BOOLEAN, vga_full : BOOLEAN,
   cam_empty : {cam = << >>}, cam_q : {cam_q}, wr_ack : {wr_ack},
   rd_ack : {rd_ack}, rd_valid : {rd_valid}, rd_data : {rd_data}]

Clock(in) ==
  /\ Pace(in)
  /\ Edge(in)
  /\ Port!PortClock(wr_req, wr_addr_latch, DataFollowed, rd_req, RdAddr)
  /\ CameraFifo(in)
  /\ sent' = IF VsyncFall(in) \/ ~paced THEN 0
             ELSE IF vga_wr_en THEN (sent + 1) % FRAME_PIXELS ELSE sent
  /\ UNCHANGED paced

Next == \E in \in Inputs : Clock(in)
Spec == Init /\ [][Next]_vars

(* The clock runs, and the controller does not put a request off for ever.    *)
Served == Next /\ ~(latching = {} /\ ~wr_ack' /\ ~rd_ack' /\ ~rd_valid')
FairSpec == Spec /\ WF_vars(Next) /\ SF_vars(Served)
==============================================================================
