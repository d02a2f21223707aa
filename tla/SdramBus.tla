------------------------------ MODULE SdramBus ------------------------------
(* The SDRAM controller and the chip on one bus, with any user in front:      *)
(* requests, addresses and data may change in every cycle, which is more than *)
(* sdram_interface does.                                                      *)
EXTENDS SdramController, FiniteSets

CONSTANT Tags   \* what tells two write bursts apart

(* A burst is a tag on every word, with the word's place in the burst.        *)
Burst(t) == [i \in 1 .. BURST |-> <<t, i>>]
Bursts == {Burst(t) : t \in Tags}

VARIABLES dmem, open, tRow, tBusy, wcnt, rcnt, daddr, setup
Device == INSTANCE SdramDevice

VARIABLES
  mem,      \* history: the memory as the acknowledged writes leave it
  pend,     \* history: the words an acknowledged read still owes
  sinceRef  \* history: cycles since the last REFRESH, saturating

vars == <<ctlVars, Device!devVars, mem, pend, sinceRef>>

(* The cycles from a request taken in ST_IDLE to the next ST_IDLE, at most:   *)
(* those of a read and of a write differ in latency against write recovery.   *)
LongestOp == T_RCD + BURST + T_RP + 1 + (IF T_CL >= T_WR THEN T_CL ELSE T_WR)

(* The longest time between two refreshes, after which sinceRef stops.        *)
RefreshBound == REFRESH_PERIOD + LongestOp + 1
LongAgo == RefreshBound + 1

(* Power-up ends before the next refresh is due.                              *)
ASSUME PeriodAssumption == T_RFC + T_MRD <= REFRESH_PERIOD

Init ==
  /\ CtlInit /\ Device!DevInit
  /\ mem = dmem /\ pend = << >> /\ sinceRef = 0

(* The cycle in which the data of an acknowledged write is taken.             *)
Taking == wr_ack

Remember(wr_data, rd_addr) ==
  /\ mem' = IF Taking THEN [mem EXCEPT ![op_addr] = wr_data] ELSE mem
  /\ pend' = IF rd_ack' THEN mem[rd_addr]
             ELSE IF rd_valid' /\ pend # << >> THEN Tail(pend) ELSE pend
  /\ sinceRef' = IF cmd = "REFRESH" THEN 0
                 ELSE IF sinceRef = LongAgo THEN LongAgo ELSE sinceRef + 1

(* dq_out reaches the chip only while dq_oe enables the drivers.              *)
BusWord == IF dq_oe THEN dq_out ELSE NoWord

Clock(wr_req, wr_addr, wr_data, rd_req, rd_addr) ==
  /\ CtlClock(wr_req, wr_addr, wr_data, rd_req, rd_addr, Device!Dq)
  /\ Device!DevClock(cmd, op_addr, BusWord)
  /\ Remember(wr_data, rd_addr)

Next ==
  \E wr_req, rd_req \in BOOLEAN, wr_addr, rd_addr \in Addrs, wr_data \in Bursts :
    Clock(wr_req, wr_addr, wr_data, rd_req, rd_addr)

(* rst_n goes low, for long enough that the chip comes to rest, and high      *)
(* again.  A write or read in progress is lost.                               *)
Reset ==
  /\ CtlReset
  /\ Device!DevRest
  /\ mem' = dmem' /\ pend' = << >> /\ sinceRef' = 0

(* The same, at a moment when no burst of write data is being sent.           *)
ResetBetweenBursts == burst_cnt = 0 /\ Reset

(* Any user, and resets but in the middle of a burst of write data.           *)
Spec == Init /\ [][Next \/ ResetBetweenBursts]_vars
ResetSpec == Init /\ [][Next \/ Reset]_vars
==============================================================================
