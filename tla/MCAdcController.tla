---------------------------- MODULE MCAdcController ----------------------------
(* Values for TLC: the periods <<3, 0>> and <<2, 1>> have triggers five and   *)
(* four cycles apart, just enough for the slowest answer.                     *)
EXTENDS AdcControllerProps

MCScanTable == <<1, 2, 1, 2, 1, 2>>
MCPeriods == {<<3, 0>>, <<2, 1>>}
MCTriggers == {<<FALSE, 1, 1, 1>>, <<TRUE, 0, 2, 0>>}

ASSUME HypothesesHold == FourBits /\ PeriodsFit /\ InTime
==============================================================================
