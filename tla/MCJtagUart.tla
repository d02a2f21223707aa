----------------------------- MODULE MCJtagUart -----------------------------
(* Values for TLC: the boot order of both BSPs of the repository, and the one *)
(* in which the timer comes first and the alarm of the driver is registered.  *)
EXTENDS JtagUartProps

AsBuilt == {<<"JTAG_UART", "INTEL_NIOSV_M">>}
EitherOrder == AsBuilt \cup {<<"INTEL_NIOSV_M", "JTAG_UART">>}
==============================================================================
