---------------------------- MODULE AdcController ----------------------------
(* ADC_SAMPLING_CONTROLLER_HW_IP.vhd around the trigger engine, with the ADC  *)
(* at its streaming ports and the capture program software/app/test.c on its  *)
(* bus.  One step is one edge of the 50 MHz clock; the program makes at most  *)
(* one bus access in it, and any number of edges pass between two of them.    *)
EXTENDS AdcTriggerEngine

CONSTANTS Periods,      \* pairs <<sample_period, prescaler_sel>> of the program
          Triggers,     \* <<trigger_edge_falling, trigger_level, pre_trigger_count,
                        \*   post_trigger_count>>
          ScanLengths,  \* values of scan_len when a scan is enabled
          MaxWait,      \* cycles until the ADC takes a command, when it is idle
          MaxConvert    \* cycles until it answers

ASSUME ProgramAssumption ==
  /\ Periods \subseteq (Nat \ {0, 1}) \X Selections
  /\ Triggers \subseteq BOOLEAN \X Nat \X Addresses \X Addresses
  /\ \A t \in Triggers : t[3] + 1 + t[4] <= BUFFER_DEPTH
  /\ ScanLengths \subseteq 1 .. 6
  /\ {MaxWait, MaxConvert} \subseteq Nat \ {0}

VARIABLES
  soft_reset_reg, read_addr_reg, done_prev, capture_done_int,
  converting, waited,        \* the ADC: channel and age of its conversion; its delay
  settings, pc, report, item,   \* the program: its constants, its place, what it
                                \* read, the word dumped
  window, taken, gap, interrupts   \* history: the samples of the run, the last ones
                                   \* and their number; cycles since the last
                                   \* trigger; interrupts of the run

wrapperVars == <<soft_reset_reg, read_addr_reg, done_prev, capture_done_int>>
adcVars == <<converting, waited>>
programVars == <<pc, report, item>>
history == <<window, taken, gap, interrupts>>
vars == <<settings, reg, engineVars, wrapperVars, adcVars, programVars, history>>

Off == [ run_enable |-> FALSE, single_shot |-> FALSE, prescaler_sel |-> 0,
         adc_channel |-> 0, sample_period |-> 0, trigger_enable |-> FALSE,
         trigger_edge_falling |-> FALSE, trigger_level |-> 0, trigger_channel |-> 0,
         pre_trigger_count |-> 0, post_trigger_count |-> 0,
         scan_enable |-> FALSE, scan_len |-> 0 ]

(* The settings are constants of the program: a period, perhaps a scan, and   *)
(* either a trigger or a single shot or (adc_sampling_start(base, 0)) a run   *)
(* without end.                                                               *)
Timed(p, channel) ==
  [Off EXCEPT !.run_enable = TRUE, !.sample_period = p[1], !.prescaler_sel = p[2],
              !.adc_channel = channel]
Scan(s, len) == [s EXCEPT !.scan_enable = TRUE, !.scan_len = len]
Shot(s, single) == [s EXCEPT !.single_shot = single]
OnTrigger(s, t) ==
  [s EXCEPT !.trigger_enable = TRUE, !.trigger_channel = s.adc_channel,
            !.trigger_edge_falling = t[1], !.trigger_level = t[2],
            !.pre_trigger_count = t[3], !.post_trigger_count = t[4]]
Timing == { Timed(p, channel) : p \in Periods, channel \in CHANNELS }
Scanning == Timing \union { Scan(s, len) : s \in Timing, len \in ScanLengths }
Untriggered == { Shot(s, single) : s \in Scanning, single \in BOOLEAN }
Triggered == { OnTrigger(s, t) : s \in Scanning, t \in Triggers }

Idle == [age |-> 0, channel |-> 0]
NoReport == [done |-> FALSE, triggered |-> FALSE, index |-> 0]

Init ==
  /\ settings \in Untriggered \union Triggered
  /\ reg = Off /\ EngineInit
  /\ soft_reset_reg = FALSE /\ read_addr_reg = 0
  /\ done_prev = FALSE /\ capture_done_int = FALSE
  /\ converting = Idle /\ waited = 0
  /\ pc = "stop" /\ report = NoReport /\ item = 0
  /\ window = << >> /\ taken = 0 /\ gap = 0 /\ interrupts = 0

(* The Modular ADC: takes a command when it is idle, answers it once.         *)
Busy == converting # Idle
Ready == IF Busy THEN {FALSE} ELSE IF waited >= MaxWait THEN {TRUE} ELSE BOOLEAN
Answers ==
  (IF converting.age >= MaxConvert THEN {} ELSE {NoSample})
    \union (IF Busy THEN [channel : {converting.channel}, data : CODES] ELSE {})
Accepted(ready) == cmd_valid_sig /\ ready /\ ~soft_reset_reg

Adc(ready, resp) ==
  /\ converting' =
       IF Accepted(ready) THEN [age |-> 1, channel |-> cmd_channel]
       ELSE IF resp # NoSample THEN Idle
       ELSE IF Busy THEN [converting EXCEPT !.age = @ + 1] ELSE Idle
  /\ waited' = IF cmd_valid_sig /\ ~ready /\ waited < MaxWait THEN waited + 1
               ELSE IF cmd_valid_sig /\ ~ready THEN waited ELSE 0
Quiet == ~Busy /\ ~cmd_valid_sig

(* The program.  Goto is a step to the next place of it; each place makes one *)
(* access to the bus, or none.                                                *)
Goto(from, to) == pc = from /\ pc' = to
NoWrite == UNCHANGED <<reg, read_addr_reg>> /\ soft_reset_reg' = FALSE
WriteReg(new) == reg' = new /\ UNCHANGED read_addr_reg /\ soft_reset_reg' = FALSE
SameReport == UNCHANGED <<report, item>>

Control(run, single) == [reg EXCEPT !.run_enable = run, !.single_shot = single]

Wait == NoWrite /\ UNCHANGED programVars

Stop == /\ Goto("stop", "reset") \/ Goto("end", "quiet")
        /\ WriteReg(Control(FALSE, FALSE)) /\ SameReport
SoftReset ==
  /\ Goto("reset", "sleep") /\ SameReport
  /\ reg' = Control(FALSE, FALSE) /\ soft_reset_reg' = TRUE /\ UNCHANGED read_addr_reg

(* alt_busy_sleep(1000): a thousand conversions long.                         *)
Sleep == /\ Quiet /\ NoWrite
         /\ \/ Goto("sleep", "configure") /\ SameReport
            \/ Goto("quiet", "dump") /\ SameReport
            \/ Goto("quiet", "stop") /\ report' = NoReport /\ item' = 0

WritePeriod ==
  /\ Goto("configure", "prescaler") /\ SameReport
  /\ WriteReg([reg EXCEPT !.sample_period = settings.sample_period])
WritePrescaler ==
  /\ Goto("prescaler", "mode") /\ SameReport
  /\ WriteReg([reg EXCEPT !.prescaler_sel = settings.prescaler_sel])

(* The writes of channel, scan and trigger registers, which the engine does   *)
(* not look at before it runs, are taken together.                            *)
WriteMode ==
  /\ Goto("mode", "arm") /\ SameReport
  /\ WriteReg([settings EXCEPT !.run_enable = FALSE, !.single_shot = FALSE])

Arm == Goto("arm", "poll") /\ SameReport /\ WriteReg(settings)

(* Polls until DONE is read, or the limit of polls is reached; then reads the *)
(* index of the trigger.                                                      *)
ReadStatus ==
  /\ Goto("poll", "index") /\ NoWrite /\ UNCHANGED item
  /\ report' = [report EXCEPT !.done = done_reg, !.triggered = triggered_reg]
ReadIndex ==
  /\ Goto("index", "end") /\ NoWrite /\ UNCHANGED item
  /\ report' = [report EXCEPT !.index = trigger_index_reg]

(* The program dumps a single shot in part; the model looks at all of it.     *)
dump_len == IF report.triggered THEN reg.pre_trigger_count + 1 + reg.post_trigger_count
            ELSE BUFFER_DEPTH
dump_start == IF report.triggered
                THEN (report.index + BUFFER_DEPTH - reg.pre_trigger_count) % BUFFER_DEPTH
                ELSE 0
(* Any word of the dump: read_sample_stable writes its address and reads      *)
(* twice.                                                                     *)
WriteAddress ==
  /\ UNCHANGED <<reg, report>> /\ soft_reset_reg' = FALSE
  /\ item' \in 0 .. dump_len - 1
  /\ read_addr_reg' = (dump_start + item') % BUFFER_DEPTH
ReadOnce == Goto("dump", "data") /\ WriteAddress   \* a slip: no first read
DumpAddress == Goto("dump", "dummy") /\ WriteAddress
DumpRead ==
  /\ Goto("dummy", "data") \/ Goto("data", "quiet")
  /\ NoWrite /\ SameReport

Program ==
  \/ Wait \/ Stop \/ SoftReset \/ Sleep \/ WritePeriod \/ WritePrescaler
  \/ WriteMode \/ Arm \/ ReadStatus \/ ReadIndex \/ DumpAddress \/ DumpRead

(* irq_proc.                                                                  *)
IrqLevel ==   \* a slip: not the rising edge
  done_prev' = done_reg /\ capture_done_int' = done_reg
Irq == done_prev' = done_reg /\ capture_done_int' = (~done_prev /\ done_reg)

Engine(ready, resp) ==
  IF soft_reset_reg \/ soft_reset_reg' THEN EngineReset ELSE EngineEdge(ready, resp)

(* What the run has taken.  A number beyond the depth is told only up to the  *)
(* turns of the buffer.                                                       *)
Arming == reg'.run_enable /\ ~reg.run_enable
Restart == pc = "quiet" /\ pc' = "stop"
Remember(resp) ==
  /\ window' = IF Arming \/ Restart THEN << >>
               ELSE IF ~Taken(resp) THEN window
               ELSE IF Len(window) < BUFFER_DEPTH THEN Append(window, Word(resp))
               ELSE Append(Tail(window), Word(resp))
  /\ taken' = IF Arming \/ Restart THEN 0 ELSE IF ~Taken(resp) THEN taken
              ELSE IF taken = 2 * BUFFER_DEPTH THEN BUFFER_DEPTH + 1 ELSE taken + 1
  /\ gap' = IF ~reg.run_enable THEN 0 ELSE IF Trigger THEN 1
            ELSE IF gap \in 1 .. TimerMax THEN gap + 1 ELSE gap
  /\ interrupts' = IF Arming \/ Restart THEN 0
                   ELSE IF capture_done_int' /\ interrupts < 2 THEN interrupts + 1
                   ELSE interrupts

Edge(ready, resp) ==
  /\ Program /\ UNCHANGED settings /\ Adc(ready, resp) /\ Engine(ready, resp)
  /\ BufferEdge(read_addr_reg) /\ Irq /\ Remember(resp)

Next == \E ready \in Ready, resp \in Answers : Edge(ready, resp)
Spec == Init /\ [][Next]_vars

(* The clock runs: edges never cease.  As one can always be taken, this is    *)
(* WF_vars(Next), in the form that TLC evaluates faster.                      *)
FairSpec == Spec /\ []<><<TRUE>>_vars
==============================================================================
