--------------------------- MODULE SdramInterface ---------------------------
(* live_stream/sdram_subsystem/sdram_interface.vhd: the arbiter between the   *)
(* camera FIFO, the SDRAM controller and the VGA FIFO, and the keeper of the  *)
(* two frame buffers.  One action is one rising edge of the 100 MHz clock;    *)
(* its inputs are the record `in'.  In a clocked process the last assignment  *)
(* wins: what an edge of frame_done or vsync sets (the operators Rewound...)  *)
(* holds only where the current state does not assign the same register.      *)
(* The debug registers are left out: nothing reads them back.                 *)
EXTENDS Naturals, Sequences

CONSTANTS Burst,        \* words of a burst, 8 in the code
          FrameBursts,  \* bursts of a frame: FRAME_PIXELS / 8
          Words,        \* the values a pixel can have
          NoWord        \* a register after reset

ASSUME GeometryAssumption == Burst \in Nat \ {0, 1} /\ FrameBursts \in Nat \ {0}

FRAME_PIXELS == FrameBursts * Burst
BANK_WORDS == FRAME_PIXELS

VARIABLES
  state,
  write_bank, read_bank,              \* the bank being filled, the bank shown
  new_frame_ready, read_frame_valid,  \* a frame waits to be shown; one is shown
  frame_done_d, vsync_d,              \* the inputs at the previous edge
  wr_ptr, wr_burst_cnt, wr_data_latch, wr_addr_latch, wr_req,
  rd_ptr, rd_burst_cnt, rd_req,
  cam_rd, cam_rd_pending,             \* rd_en to the camera FIFO; q is due
  vga_wr_en, vga_wr_data,             \* to the VGA FIFO
  vga_wr_pending, vga_wr_data_hold

bankVars == <<write_bank, read_bank, new_frame_ready, read_frame_valid,
              frame_done_d, vsync_d>>
wrVars == <<wr_ptr, wr_burst_cnt, wr_data_latch, wr_addr_latch, cam_rd_pending>>
rdVars == <<rd_ptr, rd_burst_cnt>>
vgaVars == <<vga_wr_en, vga_wr_data, vga_wr_pending, vga_wr_data_hold>>
ifVars == <<state, bankVars, wrVars, rdVars, vgaVars, wr_req, rd_req, cam_rd>>

States == {"FILL_CAM", "ISSUE_WR", "WAIT_WR_ACK",
           "ISSUE_RD", "WAIT_RD_ACK", "WAIT_RD_DATA"}

Base(bank) == bank * BANK_WORDS
RdAddr == Base(read_bank) + rd_ptr

IfInit ==
  /\ state = "FILL_CAM" /\ wr_req = FALSE /\ rd_req = FALSE /\ cam_rd = FALSE
  /\ write_bank = 0 /\ read_bank = 1
  /\ new_frame_ready = FALSE /\ read_frame_valid = FALSE
  /\ frame_done_d = FALSE /\ vsync_d = TRUE
  /\ wr_ptr = 0 /\ wr_burst_cnt = 0 /\ wr_addr_latch = 0
  /\ wr_data_latch = [i \in 1 .. Burst |-> NoWord] /\ cam_rd_pending = FALSE
  /\ rd_ptr = 0 /\ rd_burst_cnt = 0
  /\ vga_wr_en = FALSE /\ vga_wr_data = NoWord
  /\ vga_wr_pending = FALSE /\ vga_wr_data_hold = NoWord

(* rst_n = '0'.                                                               *)
IfReset ==
  /\ state' = "FILL_CAM" /\ wr_req' = FALSE /\ rd_req' = FALSE /\ cam_rd' = FALSE
  /\ write_bank' = 0 /\ read_bank' = 1
  /\ new_frame_ready' = FALSE /\ read_frame_valid' = FALSE
  /\ frame_done_d' = FALSE /\ vsync_d' = TRUE
  /\ wr_ptr' = 0 /\ wr_burst_cnt' = 0 /\ wr_addr_latch' = 0
  /\ wr_data_latch' = [i \in 1 .. Burst |-> NoWord] /\ cam_rd_pending' = FALSE
  /\ rd_ptr' = 0 /\ rd_burst_cnt' = 0
  /\ vga_wr_en' = FALSE /\ vga_wr_data' = NoWord
  /\ vga_wr_pending' = FALSE /\ vga_wr_data_hold' = NoWord
-----------------------------------------------------------------------------
FrameDone(in) == in.frame_done /\ ~frame_done_d
VsyncFall(in) == ~in.vsync /\ vsync_d
Swap(in) == VsyncFall(in) /\ new_frame_ready

(* What the arbiter counts on, with a camera of 30 and a display of 60 frames *)
(* a second: a frame is shown before the next one is done.                    *)
ShownBeforeNext(in) == ~(FrameDone(in) /\ new_frame_ready)

(* The bank that holds the frame the camera has finished.                     *)
WrongBank == write_bank   \* a slip the code once had (its BUG6)
FinishedBank == 1 - write_bank

(* The frame buffers.  frame_done turns to the other bank, the falling edge   *)
(* of vsync shows a frame that is ready, and looks at the registers as they   *)
(* were before this edge.                                                     *)
Banks(in) ==
  /\ frame_done_d' = in.frame_done /\ vsync_d' = in.vsync
  /\ write_bank' = IF FrameDone(in) THEN 1 - write_bank ELSE write_bank
  /\ read_bank' = IF Swap(in) THEN FinishedBank ELSE read_bank
  /\ new_frame_ready' = (~Swap(in) /\ (FrameDone(in) \/ new_frame_ready))
  /\ read_frame_valid' = (read_frame_valid \/ Swap(in))

(* What the two edges leave of the write and the read pointers.               *)
RewoundWrite(in, reg) == IF FrameDone(in) THEN 0 ELSE reg
RewoundRead(in, reg) == IF VsyncFall(in) THEN 0 ELSE reg

(* The pointers after a burst: the last place of a frame is not left, reading *)
(* starts again from the top.                                                 *)
PastTheEnd(in) == wr_ptr + Burst   \* a slip: no check against FRAME_PIXELS
OneWordOn == rd_ptr + 1        \* a slip the code once had (its BUG1)
NextWrPtr(in) ==
  IF wr_ptr + Burst < FRAME_PIXELS THEN wr_ptr + Burst ELSE RewoundWrite(in, wr_ptr)
NextRdPtr == IF rd_ptr >= FRAME_PIXELS - Burst THEN 0 ELSE rd_ptr + Burst

NoCaptureFresh(in) ==   \* a slip: frame_done clears the address as well
  /\ wr_ptr' = RewoundWrite(in, wr_ptr)
  /\ wr_burst_cnt' = RewoundWrite(in, wr_burst_cnt)
  /\ wr_addr_latch' = RewoundWrite(in, wr_addr_latch)
  /\ UNCHANGED wr_data_latch
NoCapture(in) ==
  /\ wr_ptr' = RewoundWrite(in, wr_ptr)
  /\ wr_burst_cnt' = RewoundWrite(in, wr_burst_cnt)
  /\ UNCHANGED <<wr_data_latch, wr_addr_latch>>

(* The word held from SDRAM goes to the VGA FIFO one edge later.              *)
VgaOutGated ==   \* a slip the code once had (its BUG2)
  /\ vga_wr_en' = (vga_wr_pending /\ state = "WAIT_RD_DATA")
  /\ vga_wr_data' = IF vga_wr_pending THEN vga_wr_data_hold ELSE vga_wr_data
VgaOut ==
  /\ vga_wr_en' = vga_wr_pending
  /\ vga_wr_data' = IF vga_wr_pending THEN vga_wr_data_hold ELSE vga_wr_data

NoWordRead(in) ==
  /\ rd_ptr' = RewoundRead(in, rd_ptr)
  /\ rd_burst_cnt' = RewoundRead(in, rd_burst_cnt)
  /\ vga_wr_pending' = FALSE /\ UNCHANGED vga_wr_data_hold

Strobes(wr, rd, cam) == wr_req' = wr /\ rd_req' = rd /\ cam_rd' = cam

(* A read burst is wanted: a frame is shown, not in vsync, and there is room. *)
ReadWanted(in) ==
  read_frame_valid /\ in.vsync /\ ~in.vga_full /\ rd_ptr < FRAME_PIXELS
-----------------------------------------------------------------------------
(* ST_FILL_CAM: the word asked for at the previous edge is shifted in.        *)
Capture(in) ==
  /\ state = "FILL_CAM" /\ cam_rd_pending
  /\ wr_data_latch' = Append(Tail(wr_data_latch), in.cam_q)
  /\ wr_addr_latch' = IF wr_burst_cnt = 0 THEN Base(write_bank) + wr_ptr
                      ELSE wr_addr_latch
  /\ IF wr_burst_cnt = Burst - 1
       THEN /\ wr_burst_cnt' = 0 /\ state' = "ISSUE_WR"
            /\ wr_ptr' = NextWrPtr(in)
       ELSE /\ wr_burst_cnt' = wr_burst_cnt + 1
            /\ wr_ptr' = RewoundWrite(in, wr_ptr) /\ UNCHANGED state
  /\ cam_rd_pending' = FALSE
  /\ Strobes(FALSE, FALSE, FALSE) /\ NoWordRead(in)

(* ST_FILL_CAM with no word due: a read burst first, then a camera word.      *)
StartRead(in) ==
  /\ state = "FILL_CAM" /\ ~cam_rd_pending /\ ReadWanted(in)
  /\ state' = "ISSUE_RD" /\ UNCHANGED cam_rd_pending
  /\ Strobes(FALSE, FALSE, FALSE) /\ NoCapture(in) /\ NoWordRead(in)

PopCamera(in) ==
  /\ state = "FILL_CAM" /\ ~cam_rd_pending /\ ~ReadWanted(in) /\ ~in.cam_empty
  /\ cam_rd_pending' = TRUE /\ UNCHANGED state
  /\ Strobes(FALSE, FALSE, TRUE) /\ NoCapture(in) /\ NoWordRead(in)

FillIdle(in) ==
  /\ state = "FILL_CAM" /\ ~cam_rd_pending /\ ~ReadWanted(in) /\ in.cam_empty
  /\ UNCHANGED <<state, cam_rd_pending>>
  /\ Strobes(FALSE, FALSE, FALSE) /\ NoCapture(in) /\ NoWordRead(in)

IssueWrite(in) ==
  /\ state = "ISSUE_WR" /\ state' = "WAIT_WR_ACK"
  /\ cam_rd_pending' = (cam_rd_pending /\ ~FrameDone(in))
  /\ Strobes(TRUE, FALSE, FALSE) /\ NoCapture(in) /\ NoWordRead(in)

WaitWriteAckPulse(in) ==   \* a slip: the request is not held
  /\ state = "WAIT_WR_ACK"
  /\ state' = IF in.wr_ack THEN "FILL_CAM" ELSE state
  /\ cam_rd_pending' = (cam_rd_pending /\ ~FrameDone(in))
  /\ Strobes(FALSE, FALSE, FALSE) /\ NoCapture(in) /\ NoWordRead(in)

(* frame_done gives up waiting; the request is up for one cycle more.         *)
WaitWriteAck(in) ==
  /\ state = "WAIT_WR_ACK"
  /\ state' = IF in.wr_ack THEN IF ReadWanted(in) THEN "ISSUE_RD" ELSE "FILL_CAM"
              ELSE IF FrameDone(in) THEN "FILL_CAM" ELSE state
  /\ cam_rd_pending' = (cam_rd_pending /\ ~FrameDone(in))
  /\ Strobes(TRUE, FALSE, FALSE) /\ NoCapture(in) /\ NoWordRead(in)

IssueRead(in) ==
  /\ state = "ISSUE_RD" /\ state' = "WAIT_RD_ACK"
  /\ cam_rd_pending' = (cam_rd_pending /\ ~FrameDone(in))
  /\ Strobes(FALSE, TRUE, FALSE) /\ NoCapture(in) /\ NoWordRead(in)

(* The falling edge of vsync gives up waiting, unless the read has just been  *)
(* acknowledged.                                                              *)
WaitReadAck(in) ==
  /\ state = "WAIT_RD_ACK"
  /\ state' = IF in.rd_ack THEN "WAIT_RD_DATA"
              ELSE IF VsyncFall(in) THEN "FILL_CAM" ELSE state
  /\ cam_rd_pending' = (cam_rd_pending /\ ~FrameDone(in))
  /\ Strobes(FALSE, TRUE, FALSE) /\ NoCapture(in) /\ NoWordRead(in)

(* A word of the burst arrives; the last one advances rd_ptr, which starts    *)
(* again at the end of the frame.                                             *)
ReadWord(in) ==
  /\ state = "WAIT_RD_DATA" /\ in.rd_valid
  /\ vga_wr_data_hold' = in.rd_data /\ vga_wr_pending' = TRUE
  /\ IF rd_burst_cnt = Burst - 1
       THEN /\ rd_burst_cnt' = 0 /\ state' = "FILL_CAM"
            /\ rd_ptr' = NextRdPtr
       ELSE /\ rd_burst_cnt' = rd_burst_cnt + 1
            /\ rd_ptr' = RewoundRead(in, rd_ptr)
            /\ state' = IF VsyncFall(in) THEN "FILL_CAM" ELSE state
  /\ cam_rd_pending' = (cam_rd_pending /\ ~FrameDone(in))
  /\ Strobes(FALSE, FALSE, FALSE) /\ NoCapture(in)

AwaitWord(in) ==
  /\ state = "WAIT_RD_DATA" /\ ~in.rd_valid
  /\ state' = IF VsyncFall(in) THEN "FILL_CAM" ELSE state
  /\ cam_rd_pending' = (cam_rd_pending /\ ~FrameDone(in))
  /\ Strobes(FALSE, FALSE, FALSE) /\ NoCapture(in) /\ NoWordRead(in)

(* One rising edge of clk.                                                    *)
Edge(in) ==
  /\ Banks(in) /\ VgaOut
  /\ \/ Capture(in) \/ StartRead(in) \/ PopCamera(in) \/ FillIdle(in)
     \/ IssueWrite(in) \/ WaitWriteAck(in)
     \/ IssueRead(in) \/ WaitReadAck(in) \/ ReadWord(in) \/ AwaitWord(in)
==============================================================================
