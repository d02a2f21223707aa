---------------------------- MODULE SdramBusProps ----------------------------
(* What makes the SDRAM controller correct towards the chip and its user.     *)
EXTENDS SdramBus

(* Every command reaches the chip when the data sheet allows it: power-up     *)
(* sequence, tRCD before READ and WRITE, tRP, tRFC, tMRD and write recovery   *)
(* before the next ACTIVE, REFRESH only with all rows closed (p_ctrl).        *)
CommandsLegal == Device!Legal(cmd, op_addr)

(* The controller drives the data bus for exactly the words of a write, and   *)
(* never while the chip answers a read (dq_oe).                               *)
BusOwned ==
  /\ dq_oe => ~Device!Driving
  /\ dq_oe <=> cmd = "WRITE" \/ wcnt \in 1 .. BURST - 1

(* Back in ST_IDLE the chip holds what the acknowledged writes left, every    *)
(* word in its place, also after a reset between two bursts.                  *)
MemoryKept == state = "IDLE" => dmem = mem

(* The controller and the chip together behave as the memory port the arbiter *)
(* is written for: an acknowledged read answers BURST words, in order, and    *)
(* they are the ones the acknowledged writes left at its address.             *)
Resting ==
  IF wr_ack \/ rd_ack THEN 2
  ELSE IF state = "ACTIVATE" /\ timer = T_RCD - 2 THEN 1 ELSE 0
Port == INSTANCE MemoryPort WITH
          Blank <- Blank, latching <- IF wr_ack THEN {op_addr} ELSE {},
          rest <- Resting
ImplementsPort == Port!PortSpec

(* Refresh is never put off for longer than the operation in progress: the    *)
(* chip is refreshed at the latest RefreshBound cycles apart (p_refresh, and  *)
(* the priority it has in ST_IDLE).                                           *)
Powered == state \notin InitStates
RefreshInTime == Powered => sinceRef <= RefreshBound

(* The clock runs.                                                            *)
FairSpec == Spec /\ WF_vars(Next)

(* Neither refreshing nor the operations of a user lock the controller up: it *)
(* keeps coming back to where it takes a request (refresh_req, refresh_take), *)
(* unless it is reset over and over.                                          *)
KeepsServing ==
  []<>(state = "IDLE" /\ ~refresh_req) \/ []<>(state = "INIT_WAIT")

(* sdram_controller.vhd:420 says of ST_WRITE that it issues the WRITE command *)
(* and then drives DQ for 8 cycles: the first word driven for a write goes    *)
(* with the command.                                                          *)
WriteIssuesCommand == [][ dq_oe' /\ ~dq_oe => cmd' = "WRITE" ]_vars
==============================================================================
