--------------------------- MODULE SdramController ---------------------------
(* live_stream/sdram_subsystem/sdram_controller.vhd: the command sequencer    *)
(* between the user port of sdram_interface and the SDRAM chip.  One action   *)
(* is one rising edge of the 100 MHz clock: the four processes of the file    *)
(* (p_rd_capture, p_rd_pipe, p_refresh, p_ctrl) all take their step at once.  *)
(* The inputs of an edge are the parameters of the actions.                   *)
(*                                                                            *)
(* An address stands for the first word of a burst; its split into bank, row  *)
(* and column, and the address pins that follow from it, are left out: every  *)
(* operation opens the row it needs and closes it by auto-precharge.          *)
EXTENDS Naturals, Sequences

CONSTANTS
  T_INIT_CYCLES, T_RFC, T_RCD, T_RP, T_CL, T_MRD, T_WR,  \* in clock cycles
  REFRESH_PERIOD,  \* cycles counted between two refresh requests
  BURST,           \* burst length; 8 in the mode register and the counters
  Addrs,           \* burst addresses
  NoWord           \* contents of a word register after reset

ASSUME TimingAssumption ==
  /\ {T_INIT_CYCLES, T_RFC, T_RCD, T_RP, T_CL, T_MRD, T_WR} \subseteq Nat \ {0}
  /\ T_RCD > 1 /\ REFRESH_PERIOD \in Nat \ {0} /\ BURST \in Nat \ {0, 1}
  /\ Addrs \subseteq Nat /\ 0 \in Addrs

VARIABLES
  state,          \* the p_ctrl FSM
  timer,          \* its down counter
  burst_cnt,      \* burst_cnt_sdram: words of the current write sent
  op_is_write, op_addr, op_data,  \* the operation in progress
  cmd, dq_oe, dq_out,             \* what the pins carry: command, write data
  wr_ack, rd_ack,                 \* one-cycle strobes to the user
  refresh_cnt, refresh_req, refresh_take,
  read_pipe,      \* T_CL + 1 bits: a 1 in the last one captures a word
  active_reads,   \* words of the current read still to enter the pipe
  rd_valid, rd_data

ctrlVars == <<state, timer, burst_cnt, op_is_write, op_addr, op_data,
              cmd, dq_oe, dq_out, wr_ack, rd_ack, refresh_take>>
refreshVars == <<refresh_cnt, refresh_req>>
readVars == <<read_pipe, active_reads, rd_valid, rd_data>>
ctlVars == <<ctrlVars, refreshVars, readVars>>

InitStates == {"INIT_WAIT", "INIT_PRECHARGE", "INIT_REFRESH1", "INIT_REFRESH2",
               "INIT_MRS"}
States == InitStates \cup {"IDLE", "REFRESH", "ACTIVATE", "WRITE", "WRITE_WAIT",
                           "READ", "READ_WAIT"}
Commands == {"INHIBIT", "NOP", "ACTIVE", "READ", "WRITE", "PRECHARGE",
             "REFRESH", "MRS"}

Blank == [i \in 1 .. BURST |-> NoWord]

(* Power-on.                                                                  *)
CtlInit ==
  /\ state = "INIT_WAIT" /\ timer = T_INIT_CYCLES /\ burst_cnt = 0
  /\ op_is_write = FALSE /\ op_addr = 0 /\ op_data = Blank
  /\ cmd = "INHIBIT" /\ dq_oe = FALSE /\ dq_out = NoWord
  /\ wr_ack = FALSE /\ rd_ack = FALSE /\ refresh_take = FALSE
  /\ refresh_cnt = 0 /\ refresh_req = FALSE
  /\ read_pipe = [i \in 0 .. T_CL |-> FALSE] /\ active_reads = 0
  /\ rd_valid = FALSE /\ rd_data = NoWord

(* rst_n = '0'.  The reset clauses name every register but burst_cnt_sdram.   *)
SequencerReset == state' = "INIT_WAIT" /\ timer' = T_INIT_CYCLES
PinsReset == cmd' = "INHIBIT" /\ dq_oe' = FALSE /\ dq_out' = NoWord

CtlReset ==
  /\ SequencerReset /\ PinsReset
  /\ op_is_write' = FALSE /\ op_addr' = 0 /\ op_data' = Blank
  /\ UNCHANGED burst_cnt
  /\ wr_ack' = FALSE /\ rd_ack' = FALSE /\ refresh_take' = FALSE
  /\ refresh_cnt' = 0 /\ refresh_req' = FALSE
  /\ read_pipe' = [i \in 0 .. T_CL |-> FALSE] /\ active_reads' = 0
  /\ rd_valid' = FALSE /\ rd_data' = NoWord
-----------------------------------------------------------------------------
(* p_ctrl.  Every edge takes the strobes back unless the branch sets them;    *)
(* Quiet names the outputs of a branch that sends no command.                 *)
NoAck == wr_ack' = FALSE /\ rd_ack' = FALSE
QuietDriving ==   \* a slip: the default of dq_oe left out
  cmd' = "NOP" /\ UNCHANGED dq_oe /\ NoAck /\ refresh_take' = FALSE
Quiet == cmd' = "NOP" /\ dq_oe' = FALSE /\ NoAck /\ refresh_take' = FALSE
KeepOp == UNCHANGED <<burst_cnt, op_is_write, op_addr, op_data, dq_out>>
CountDown == timer' = timer - 1 /\ UNCHANGED state

(* 200 us of power-up with the chip not selected.                             *)
InitWait ==
  /\ state = "INIT_WAIT"
  /\ IF timer = 0 THEN state' = "INIT_PRECHARGE" /\ timer' = T_RP ELSE CountDown
  /\ cmd' = "INHIBIT" /\ dq_oe' = FALSE /\ NoAck /\ refresh_take' = FALSE
  /\ KeepOp

(* The stages that send one command on entry, wait out their timer and hand   *)
(* over: precharge all, two refreshes, mode register set, and REFRESH.        *)
Stage(s, t, command, next, nextTimer) ==
  /\ state = s
  /\ IF timer = 0
       THEN state' = next /\ timer' = nextTimer
       ELSE CountDown
  /\ cmd' = IF timer = t THEN command ELSE "NOP"
  /\ dq_oe' = FALSE /\ NoAck /\ refresh_take' = FALSE
  /\ KeepOp

InitSequence ==
  \/ Stage("INIT_PRECHARGE", T_RP, "PRECHARGE", "INIT_REFRESH1", T_RFC)
  \/ Stage("INIT_REFRESH1", T_RFC, "REFRESH", "INIT_REFRESH2", T_RFC)
  \/ Stage("INIT_REFRESH2", T_RFC, "REFRESH", "INIT_MRS", T_MRD)
  \/ Stage("INIT_MRS", T_MRD, "MRS", "IDLE", 0)

Refresh == Stage("REFRESH", T_RFC, "REFRESH", "IDLE", 0)

(* IDLE arbitrates: refresh, then write, then read.                           *)
TakeRefresh ==
  /\ state = "IDLE" /\ refresh_req
  /\ state' = "REFRESH" /\ timer' = T_RFC /\ refresh_take' = TRUE
  /\ cmd' = "NOP" /\ dq_oe' = FALSE /\ NoAck
  /\ KeepOp

Activate(isWrite, addr) ==
  /\ op_addr' = addr /\ op_is_write' = isWrite
  /\ wr_ack' = isWrite /\ rd_ack' = ~isWrite
  /\ cmd' = "ACTIVE" /\ state' = "ACTIVATE" /\ timer' = T_RCD - 1
  /\ dq_oe' = FALSE /\ refresh_take' = FALSE
  /\ UNCHANGED <<burst_cnt, op_data, dq_out>>

TakeWriteFirst(wr_req, wr_addr) ==   \* a slip: refresh does not go first
  state = "IDLE" /\ wr_req /\ Activate(TRUE, wr_addr)
TakeWrite(wr_req, wr_addr) ==
  state = "IDLE" /\ ~refresh_req /\ wr_req /\ Activate(TRUE, wr_addr)

TakeRead(wr_req, rd_req, rd_addr) ==
  state = "IDLE" /\ ~refresh_req /\ ~wr_req /\ rd_req /\ Activate(FALSE, rd_addr)

Idle(wr_req, rd_req) ==
  /\ state = "IDLE" /\ ~refresh_req /\ ~wr_req /\ ~rd_req
  /\ UNCHANGED <<state, timer>> /\ Quiet /\ KeepOp

(* tRCD after ACTIVE; the write data is latched in the first of its cycles.   *)
WaitRcd(wr_data) ==
  /\ state = "ACTIVATE"
  /\ op_data' = IF op_is_write /\ timer = T_RCD - 1 THEN wr_data ELSE op_data
  /\ IF timer = 0
       THEN state' = (IF op_is_write THEN "WRITE" ELSE "READ") /\ UNCHANGED timer
       ELSE CountDown
  /\ Quiet
  /\ UNCHANGED <<burst_cnt, op_is_write, op_addr, dq_out>>

(* The next word of a write, P0 first; the last word of a burst.              *)
ShiftOutLastFirst ==   \* a slip
  /\ dq_out' = op_data[BURST]
  /\ op_data' = <<NoWord>> \o SubSeq(op_data, 1, BURST - 1)
ShiftOut == dq_out' = Head(op_data) /\ op_data' = Append(Tail(op_data), NoWord)
LastWord == burst_cnt = BURST - 1

(* One word of a write burst; the command goes with the first.                *)
WriteWord ==
  /\ state = "WRITE"
  /\ ShiftOut /\ dq_oe' = TRUE
  /\ cmd' = IF burst_cnt = 0 THEN "WRITE" ELSE "NOP"
  /\ IF LastWord
       THEN burst_cnt' = 0 /\ state' = "WRITE_WAIT" /\ timer' = T_WR + T_RP - 1
       ELSE burst_cnt' = burst_cnt + 1 /\ UNCHANGED <<state, timer>>
  /\ NoAck /\ refresh_take' = FALSE
  /\ UNCHANGED <<op_is_write, op_addr>>

ReadCommand ==
  /\ state = "READ"
  /\ cmd' = "READ" /\ state' = "READ_WAIT" /\ timer' = T_CL + BURST + T_RP - 2
  /\ dq_oe' = FALSE /\ NoAck /\ refresh_take' = FALSE
  /\ KeepOp

(* Recovery after a write, or the latency and the words of a read.            *)
RecoverEarly ==   \* a slip: tWR left out
  /\ state \in {"WRITE_WAIT", "READ_WAIT"}
  /\ IF timer <= T_WR THEN state' = "IDLE" /\ UNCHANGED timer ELSE CountDown
  /\ Quiet /\ KeepOp
Recover ==
  /\ state \in {"WRITE_WAIT", "READ_WAIT"}
  /\ IF timer = 0 THEN state' = "IDLE" /\ UNCHANGED timer ELSE CountDown
  /\ Quiet /\ KeepOp
-----------------------------------------------------------------------------
(* The chip drives a word of the read now.                                    *)
WordDueEarly == read_pipe[T_CL - 1]   \* a slip: a pipe one stage short
WordDue == read_pipe[T_CL]

(* p_rd_pipe and p_rd_capture: dq is what the chip drives in this cycle.      *)
ReadPath(dq) ==
  /\ read_pipe' = [i \in 0 .. T_CL |->
       IF i = 0 THEN state = "READ" \/ active_reads > 0 ELSE read_pipe[i - 1]]
  /\ active_reads' = IF state = "READ" THEN BURST - 1
                     ELSE IF active_reads > 0 THEN active_reads - 1 ELSE 0
  /\ rd_valid' = WordDue
  /\ rd_data' = IF WordDue THEN dq ELSE rd_data

(* p_refresh: the counter stands still while a request is waiting.            *)
RefreshKept ==   \* a slip: the request is not taken back
  LET due == ~refresh_req /\ refresh_cnt = REFRESH_PERIOD
  IN  /\ refresh_req' = (due \/ refresh_req)
      /\ refresh_cnt' = IF refresh_req THEN refresh_cnt
                        ELSE IF due THEN 0 ELSE refresh_cnt + 1
RefreshTimer ==
  LET due == ~refresh_req /\ refresh_cnt = REFRESH_PERIOD
  IN  /\ refresh_req' = (due \/ (refresh_req /\ ~refresh_take))
      /\ refresh_cnt' = IF refresh_req THEN refresh_cnt
                        ELSE IF due THEN 0 ELSE refresh_cnt + 1

Control(wr_req, wr_addr, wr_data, rd_req, rd_addr) ==
  \/ InitWait
  \/ InitSequence
  \/ Refresh
  \/ TakeRefresh
  \/ TakeWrite(wr_req, wr_addr)
  \/ TakeRead(wr_req, rd_req, rd_addr)
  \/ Idle(wr_req, rd_req)
  \/ WaitRcd(wr_data)
  \/ WriteWord
  \/ ReadCommand
  \/ Recover

CtlClock(wr_req, wr_addr, wr_data, rd_req, rd_addr, dq) ==
  /\ Control(wr_req, wr_addr, wr_data, rd_req, rd_addr)
  /\ ReadPath(dq)
  /\ RefreshTimer
==============================================================================
