--------------------------- MODULE AdcTriggerEngine ---------------------------
(* adc_trigger_engine.vhd and sample_buffer.vhd: on every match of the timer  *)
(* a command is offered to the ADC and the timer starts again from zero; the  *)
(* answers go into a circular buffer until the run is done.  An operator is   *)
(* one edge of the clock: `ready' is adc_command_ready, `resp' the answer of  *)
(* this cycle or NoSample.                                                    *)
EXTENDS SampleTimer, Sequences

CONSTANTS BUFFER_DEPTH,   \* 1024
          CHANNELS,       \* channels the program selects
          CODES,          \* codes the ADC may answer with
          SCAN_TABLE      \* the channels of a scan, in order

ASSUME BufferAssumption ==
  /\ BUFFER_DEPTH \in Nat \ {0, 1}
  /\ CHANNELS \subseteq 0 .. 31 /\ CODES \subseteq Nat
  /\ SCAN_TABLE \in [1 .. 6 -> 0 .. 31]

VARIABLES
  reg,                       \* the settings, registers of the wrapper
  rearm_state,
  cmd_valid_sig, scan_idx,
  wr_addr_reg, overflow_reg, busy_reg, done_reg,
  triggered_reg, trigger_index_reg, post_remaining, samples_seen,
  last_sample, last_sample_valid,
  wr_en_sig, wr_addr_write_reg, sample_word_reg,      \* to the buffer
  ram, rd_addr_reg                                    \* the buffer

runVars == <<overflow_reg, wr_addr_reg, samples_seen, last_sample_valid>>
triggerVars == <<done_reg, triggered_reg, trigger_index_reg, post_remaining>>
wordVars == <<wr_addr_write_reg, sample_word_reg>>
captureVars == <<runVars, triggerVars, busy_reg, last_sample, wr_en_sig, wordVars>>
commandVars == <<rearm_state, cmd_valid_sig, scan_idx>>
engineVars == <<timerVars, commandVars, captureVars, ram, rd_addr_reg>>

Addresses == 0 .. BUFFER_DEPTH - 1
NoSample == <<>>

(* A word holds four of the five bits of the channel, and the code.           *)
Words == (0 .. 15) \X CODES
Word(resp) == <<resp.channel % 16, resp.data>>

Cleared ==
  /\ overflow_reg' = FALSE /\ wr_addr_reg' = 0 /\ samples_seen' = 0
  /\ last_sample_valid' = FALSE /\ busy_reg' = FALSE /\ done_reg' = FALSE
  /\ triggered_reg' = FALSE /\ trigger_index_reg' = 0 /\ post_remaining' = 0
  /\ wr_en_sig' = FALSE

EngineInit ==
  /\ TimerInit
  /\ rearm_state = "RUN" /\ cmd_valid_sig = FALSE /\ scan_idx = 0
  /\ overflow_reg = FALSE /\ wr_addr_reg = 0 /\ samples_seen = 0
  /\ last_sample_valid = FALSE /\ busy_reg = FALSE /\ done_reg = FALSE
  /\ triggered_reg = FALSE /\ trigger_index_reg = 0 /\ post_remaining = 0
  /\ wr_en_sig = FALSE /\ last_sample = 0
  /\ wr_addr_write_reg = 0 /\ sample_word_reg = NoSample
  /\ ram = [a \in Addresses |-> NoSample] /\ rd_addr_reg = 0

(* reset_n = '0', the external one or a soft reset.                           *)
EngineReset ==
  /\ TimerReset /\ Cleared
  /\ rearm_state' = "RUN" /\ cmd_valid_sig' = FALSE /\ scan_idx' = 0
  /\ last_sample' = 0 /\ UNCHANGED wordVars

(* The timer.  In the cycle after a match its counter is reset.               *)
timer_compare == IF reg.sample_period # 0 THEN reg.sample_period - 1 ELSE 0
control_timer ==
  IF rearm_state = "REARM" THEN "reset"
  ELSE IF reg.run_enable /\ ~done_reg THEN "start" ELSE "stop"
Match == compare_int(timer_compare)

NeverRearmed == rearm_state' = "RUN"   \* a slip: the counter runs on
RearmStuck ==   \* a slip: no way back
  rearm_state' = IF Match THEN "REARM" ELSE rearm_state
Rearm == rearm_state' = IF rearm_state = "RUN" /\ Match THEN "REARM" ELSE "RUN"

(* cmd_proc.  A match in the cycle of the handshake wins over it.             *)
Trigger == Match /\ reg.run_enable /\ ~done_reg
NextScan ==
  IF ~reg.scan_enable \/ reg.scan_len <= 1 \/ scan_idx = reg.scan_len - 1
    THEN 0 ELSE (scan_idx + 1) % 8

ScanAtTrigger(ready) ==   \* a slip: the scan goes on when the command is offered
  \/ Trigger /\ cmd_valid_sig' = TRUE /\ scan_idx' = NextScan
  \/ ~Trigger /\ cmd_valid_sig' = (cmd_valid_sig /\ ~ready) /\ UNCHANGED scan_idx
Command(ready) ==
  \/ Trigger /\ cmd_valid_sig' = TRUE /\ UNCHANGED scan_idx
  \/ ~Trigger /\ cmd_valid_sig /\ ready /\ cmd_valid_sig' = FALSE /\ scan_idx' = NextScan
  \/ ~Trigger /\ ~(cmd_valid_sig /\ ready) /\ UNCHANGED <<cmd_valid_sig, scan_idx>>

cmd_channel ==
  IF reg.scan_enable THEN SCAN_TABLE[(IF scan_idx > 5 THEN 5 ELSE scan_idx) + 1]
  ELSE reg.adc_channel

(* capture_proc.                                                              *)
Taken(resp) == reg.run_enable /\ ~done_reg /\ resp # NoSample

Crosses(from, to) ==
  IF reg.trigger_edge_falling
    THEN from > reg.trigger_level /\ to <= reg.trigger_level
    ELSE from < reg.trigger_level /\ to >= reg.trigger_level

Hit(resp) ==
  /\ reg.trigger_enable /\ ~triggered_reg /\ last_sample_valid
  /\ resp.channel = reg.trigger_channel
  /\ samples_seen >= reg.pre_trigger_count
  /\ Crosses(last_sample, resp.data)

TriggerHere ==
  /\ triggered_reg' = TRUE /\ trigger_index_reg' = wr_addr_reg
  /\ post_remaining' = reg.post_trigger_count
  /\ done_reg' = (reg.post_trigger_count = 0)

PostOneMore ==   \* a slip: the run ends when none is left to count
  /\ post_remaining' = IF post_remaining # 0 THEN post_remaining - 1 ELSE 0
  /\ done_reg' = (post_remaining = 0)
  /\ UNCHANGED <<triggered_reg, trigger_index_reg>>
AfterTrigger ==
  /\ post_remaining' = IF post_remaining # 0 THEN post_remaining - 1 ELSE 0
  /\ done_reg' = (post_remaining = 1)
  /\ UNCHANGED <<triggered_reg, trigger_index_reg>>

LastAddress == wr_addr_reg = BUFFER_DEPTH - 1
FullOneEarly ==   \* a slip: the last word is missing
  /\ done_reg' = (~reg.trigger_enable /\ reg.single_shot /\ wr_addr_reg = BUFFER_DEPTH - 2)
  /\ UNCHANGED <<triggered_reg, trigger_index_reg, post_remaining>>
WhenFull ==
  /\ done_reg' = (~reg.trigger_enable /\ reg.single_shot /\ LastAddress)
  /\ UNCHANGED <<triggered_reg, trigger_index_reg, post_remaining>>

StoreAtNext(resp) ==   \* a slip: the address of the next word
  wr_addr_write_reg' = wr_addr_reg' /\ sample_word_reg' = Word(resp)
StoreWord(resp) ==
  wr_addr_write_reg' = wr_addr_reg /\ sample_word_reg' = Word(resp)

RoundAlways == LastAddress /\ ~reg.single_shot   \* a slip: triggered runs as well
WentRound == LastAddress /\ ~reg.trigger_enable /\ ~reg.single_shot

Sample(resp) ==
  /\ Taken(resp)
  /\ wr_addr_reg' = (wr_addr_reg + 1) % BUFFER_DEPTH
  /\ StoreWord(resp) /\ wr_en_sig' = TRUE
  /\ last_sample' = resp.data /\ last_sample_valid' = TRUE /\ busy_reg' = TRUE
  /\ samples_seen' = IF samples_seen < BUFFER_DEPTH THEN samples_seen + 1 ELSE samples_seen
  /\ overflow_reg' = (overflow_reg \/ WentRound)
  /\ \/ Hit(resp) /\ TriggerHere
     \/ ~Hit(resp) /\ reg.trigger_enable /\ triggered_reg /\ AfterTrigger
     \/ ~Hit(resp) /\ ~(reg.trigger_enable /\ triggered_reg) /\ WhenFull

KeepRunning(resp) ==
  /\ reg.run_enable /\ ~Taken(resp)
  /\ wr_en_sig' = FALSE /\ busy_reg' = ~done_reg
  /\ UNCHANGED <<runVars, triggerVars, last_sample, wordVars>>

Stopped == ~reg.run_enable /\ Cleared /\ UNCHANGED <<last_sample, wordVars>>

EngineEdge(ready, resp) ==
  /\ TimerEdge(reg.prescaler_sel, control_timer, timer_compare)
  /\ Rearm /\ Command(ready)
  /\ Sample(resp) \/ KeepRunning(resp) \/ Stopped

(* sample_buffer, which has no reset.                                         *)
BufferEdge(rd_addr) ==
  /\ ram' = IF wr_en_sig THEN [ram EXCEPT ![wr_addr_write_reg] = sample_word_reg] ELSE ram
  /\ rd_addr_reg' = rd_addr
rd_data == ram[rd_addr_reg]
==============================================================================
