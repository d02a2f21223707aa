-------------------------- MODULE AdcControllerProps --------------------------
(* What a capture run promises the program that reads it.                     *)
EXTENDS AdcController

(* The buffer holds the newest samples of the run, the k-th at address k      *)
(* modulo the depth, and the one on its way is about to arrive there; after   *)
(* the run they stay until the next one.                                      *)
At(i) == (taken - Len(window) + i - 1) % BUFFER_DEPTH
SamplesKept ==
  \A i \in DOMAIN window :
    \/ ram[At(i)] = window[i]
    \/ i = Len(window) /\ wr_en_sig /\ wr_addr_write_reg = At(i) /\ sample_word_reg = window[i]

(* A single shot ends with the sample that fills the buffer, and takes        *)
(* neither fewer nor more, however the answers come in; a run without end     *)
(* raises OVERFLOW as soon as it goes round, and no other does; a run that    *)
(* ends raises one interrupt.                                                 *)
Running == reg.run_enable
SingleShotExact ==
  Running /\ reg.single_shot => /\ taken <= BUFFER_DEPTH
                                /\ done_reg <=> taken = BUFFER_DEPTH
OverflowTold ==
  Running => (overflow_reg <=> /\ ~reg.single_shot /\ ~reg.trigger_enable
                               /\ taken >= BUFFER_DEPTH)
OneInterrupt ==
  /\ interrupts <= 1
  /\ report.done /\ pc = "dump" => interrupts = 1

(* A triggered run ends post_trigger_count samples after the trigger; the     *)
(* sample at TRIGGER_INDEX is the first of the trigger's channel to cross the *)
(* level from the sample before it, with at least pre_trigger_count samples   *)
(* in front.                                                                  *)
Crossing(i) ==
  /\ i > 1 /\ i > reg.pre_trigger_count
  /\ window[i][1] = reg.trigger_channel % 16
  /\ Crosses(window[i - 1][2], window[i][2])
After == reg.post_trigger_count - post_remaining
TriggerWindow ==
  Running /\ reg.trigger_enable =>
    /\ done_reg <=> triggered_reg /\ post_remaining = 0
    /\ triggered_reg =>
         /\ wr_addr_reg = (trigger_index_reg + After + 1) % BUFFER_DEPTH
         /\ Len(window) > After /\ Len(window) - After > reg.pre_trigger_count
         /\ Len(window) - After > 1 => Crossing(Len(window) - After)
    /\ taken = Len(window) =>
         \A i \in DOMAIN window :
           Crossing(i) => triggered_reg /\ i >= Len(window) - After

(* The channels of the samples go round the scan table from its first entry,  *)
(* none left out and none taken twice, as long as the ADC takes each command  *)
(* before the next trigger.                                                   *)
Expected(k) == IF reg.scan_enable THEN SCAN_TABLE[(k % reg.scan_len) + 1] ELSE reg.adc_channel
Follows(a, b) ==
  \E k \in 0 .. 5 : a[1] = Expected(k) % 16 /\ b[1] = Expected(k + 1) % 16
ScanInOrder ==
  Running =>
    /\ taken = Len(window) => \A i \in DOMAIN window : window[i][1] = Expected(i - 1) % 16
    /\ \A i \in 1 .. Len(window) - 1 : Follows(window[i], window[i + 1])

(* Within a run two triggers are always the same number of cycles apart,      *)
(* whatever the ADC does, wherever prescaler and counter stood at the start:  *)
(* with prescaler 0 the period and the two cycles of the re-arm, otherwise a  *)
(* multiple of twice the divisor.  The comments of the code give other        *)
(* numbers: see ExactPeriod.                                                  *)
TruePeriod ==
  IF reg.prescaler_sel = 0 THEN reg.sample_period + 2
  ELSE (reg.sample_period - 1) * 2 ^ (reg.prescaler_sel + 1)
SteadyRate == Trigger /\ gap # 0 => gap = TruePeriod

(* What adc_trigger_engine.vhd:27-28 claims of the re-arm, "the next compare  *)
(* event is exactly SAMPLE_PERIOD ticks later", or at least lines 276-277,    *)
(* "exactly (sample_period + 1) ticks of the prescaled clock"; with prescaler *)
(* 0 a tick is a cycle.                                                       *)
ExactPeriod ==
  Trigger /\ gap # 0 /\ reg.prescaler_sel = 0 =>
    gap \in {reg.sample_period, reg.sample_period + 1}

(* What the program dumps of a finished run is the run: all of a single shot, *)
(* from the first sample; of a triggered one the trigger, the samples before  *)
(* and those after.                                                           *)
Dumped == IF report.triggered
            THEN Len(window) - reg.post_trigger_count - reg.pre_trigger_count + item
            ELSE item + 1
DumpIsCapture == pc = "data" /\ report.done => rd_data = window[Dumped]

(* A single shot ends, if the program lets it: triggers go on coming for as   *)
(* long as the run lasts.                                                     *)
RunCompletes == Running /\ reg.single_shot ~> done_reg \/ ~Running

(* What some of this needs of the constants, for values beyond those of a     *)
(* run.  A word keeps four bits of the channel, enough to tell apart the      *)
(* channels that the program selects and scans.  The history counts as far as *)
(* two triggers of the program are apart.  And the ADC answers a command, and *)
(* takes one, before the next is due.                                         *)
FourBits == CHANNELS \subseteq 0 .. 15 /\ \A k \in 1 .. 6 : SCAN_TABLE[k] \in 0 .. 15
Distance(p) == IF p[2] = 0 THEN p[1] + 2 ELSE (p[1] - 1) * 2 ^ (p[2] + 1)
PeriodsFit ==
  \A p \in Periods : p[1] + 2 <= TimerMax /\ (p[1] - 1) * 2 ^ (p[2] + 1) <= TimerMax
InTime ==
  \A p \in Periods : MaxWait + MaxConvert <= Distance(p) /\ MaxWait + 2 <= Distance(p)
==============================================================================
