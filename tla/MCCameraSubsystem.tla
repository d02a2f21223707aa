-------------------------- MODULE MCCameraSubsystem --------------------------
(* The two machines of camera_subsystem, capture and dual-clock FIFO, checked *)
(* in one run.  Capture has its own account of the FIFO, whose write side is  *)
(* all it sees, so the two share no variable: a behaviour runs one of them,   *)
(* chosen at the start, and the other stays at power-on.                      *)
EXTENDS CameraCapture, AsynFifo

VARIABLE running   \* "capture" or "fifo"

allVars == <<vars, fifoVars, running>>

CaptureStep(A) == running = "capture" /\ A /\ UNCHANGED <<fifoVars, running>>
FifoStep(A) == running = "fifo" /\ A /\ UNCHANGED <<vars, running>>

MCInit == Init /\ FifoInit /\ running \in {"capture", "fifo"}
MCNext == CaptureStep(Next) \/ FifoStep(FifoNext)

(* The camera is clocked and goes on sending; the two clocks of the FIFO run, *)
(* and nothing is assumed of wr_en, rd_en or the resets.                      *)
MCSpec ==
  /\ MCInit /\ [][MCNext]_allVars
  /\ WF_allVars(CaptureStep(Clock)) /\ SF_allVars(CaptureStep(Clock /\ Advance))
  /\ WF_allVars(FifoStep(WriteClock)) /\ WF_allVars(FifoStep(ReadClock))
==============================================================================
