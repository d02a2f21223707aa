---------------------------- MODULE SdramArbiter ----------------------------
(* sdram_interface.vhd on its own, with every input free in every cycle: a    *)
(* camera and a display at any phase, a controller that answers at any time,  *)
(* resets at any moment.  Only ShownBeforeNext is assumed.                    *)
EXTENDS SdramInterfaceProps

AnyInputs ==
  [frame_done : BOOLEAN, vsync : BOOLEAN, vga_full : BOOLEAN,
   cam_empty : BOOLEAN, cam_q : Words \cup {NoWord}, wr_ack : BOOLEAN,
   rd_ack : BOOLEAN, rd_valid : BOOLEAN, rd_data : Words \cup {NoWord}]

ArbiterNext == (\E in \in AnyInputs : ShownBeforeNext(in) /\ Edge(in)) \/ IfReset
ArbiterSpec == IfInit /\ [][ArbiterNext]_ifVars
==============================================================================
