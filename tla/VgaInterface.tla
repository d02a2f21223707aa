----------------------------- MODULE VgaInterface -----------------------------
(* live_stream/vga_subsystem/vga_interface.vhd: a word is read from the VGA   *)
(* FIFO for every second pixel of the even lines, shown on its way through    *)
(* fetch_pixel_q, and shown again from line_buf on the odd line below.  One   *)
(* action is one edge of the 25 MHz clock.  The debug pages are left out.     *)
EXTENDS VgaCore

CONSTANT Black   \* the value of a pixel register after reset

W == H_ACTIVE \div 2   \* words of a source line; 320

(* Columns and lines come in pairs.                                           *)
ASSUME PairsAssumption == H_ACTIVE % 2 = 0 /\ V_ACTIVE % 2 = 0

VARIABLES
  line_buf, fetch_pixel_q, pixel,
  rd_en_q, read_x_q,   \* a word was asked for at the previous edge, for where
  active_d,
  vga_hs, vga_vs

ifaceVars == <<line_buf, fetch_pixel_q, pixel, rd_en_q, read_x_q, active_d,
               vga_hs, vga_vs>>

IfaceInit ==
  /\ line_buf = [x \in 0 .. W - 1 |-> Black]
  /\ fetch_pixel_q = Black /\ pixel = Black
  /\ rd_en_q = FALSE /\ read_x_q = 0 /\ active_d = FALSE
  /\ vga_hs = TRUE /\ vga_vs = TRUE

IfaceReset ==
  /\ fetch_pixel_q' = Black /\ pixel' = Black
  /\ rd_en_q' = FALSE /\ read_x_q' = 0
  /\ vga_hs' = TRUE /\ vga_vs' = TRUE
  /\ UNCHANGED <<line_buf, active_d>>

src_x == hc \div 2
EvenLine == vc % 2 = 0

(* A word is due: the first pixel of a pair on an even line.                  *)
Due(gate) == gate /\ active /\ EvenLine /\ hc % 2 = 0
rd_en_int(gate, test, empty) == Due(gate) /\ ~test /\ ~empty

LineBufNow == IF EvenLine THEN fetch_pixel_q ELSE line_buf[read_x_q]   \* a slip
PixelNext == IF EvenLine THEN fetch_pixel_q ELSE line_buf[src_x]

IfaceEdge(gate, test, empty, rd_data) ==
  /\ rd_en_q' = rd_en_int(gate, test, empty)
  /\ read_x_q' = IF rd_en_int(gate, test, empty) THEN src_x ELSE read_x_q
  /\ fetch_pixel_q' = IF rd_en_q THEN rd_data ELSE fetch_pixel_q
  /\ line_buf' = IF rd_en_q THEN [line_buf EXCEPT ![read_x_q] = rd_data] ELSE line_buf
  /\ pixel' = IF active /\ ~test THEN PixelNext ELSE Black
  /\ active_d' = active
  /\ vga_hs' = hsync /\ vga_vs' = vsync
==============================================================================
