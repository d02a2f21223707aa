------------------------------- MODULE VgaCore -------------------------------
(* live_stream/vga_subsystem/vga_core.vhd: the timing of the display, a       *)
(* counter of pixels and one of lines.                                        *)
EXTENDS Integers

CONSTANTS H_ACTIVE, H_FP, H_SYNC_W, H_BP,  \* 640, 16, 96, 48 pixels
          V_ACTIVE, V_FP, V_SYNC_W, V_BP   \* 480, 10, 2, 33 lines

ASSUME TimingAssumption ==
  {H_ACTIVE, H_FP, H_SYNC_W, H_BP, V_ACTIVE, V_FP, V_SYNC_W, V_BP}
    \subseteq Nat \ {0}

H_TOTAL == H_ACTIVE + H_FP + H_SYNC_W + H_BP
V_TOTAL == V_ACTIVE + V_FP + V_SYNC_W + V_BP

VARIABLES hc, vc

CoreInit == hc = 0 /\ vc = 0

hsync == hc - H_ACTIVE - H_FP \notin 0 .. H_SYNC_W - 1
vsync == vc - V_ACTIVE - V_FP \notin 0 .. V_SYNC_W - 1
active == hc < H_ACTIVE /\ vc < V_ACTIVE

CoreEdge ==
  /\ hc' = (hc + 1) % H_TOTAL
  /\ vc' = IF hc = H_TOTAL - 1 THEN (vc + 1) % V_TOTAL ELSE vc

CoreReset == hc' = 0 /\ vc' = 0
==============================================================================
