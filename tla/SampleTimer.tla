----------------------------- MODULE SampleTimer -----------------------------
(* adc_sampling_controller, timer.vhd: prescaler, counter and comparator.     *)
(* Its user counts up, ties load_value to zero and never gives the load       *)
(* command; overflow, capture and PWM outputs go nowhere.  An operator is one *)
(* edge of the clock; the user's command and settings are its arguments.      *)
EXTENDS Naturals

CONSTANTS TimerMax      \* 2^32 - 1

ASSUME TimerAssumption == TimerMax \in Nat \ {0}

VARIABLES
  prescaler_cnt, phase_cnt, prev_sel, clock_enable,   \* timer_prescaler
  count_reg, running_flag,                            \* timer_counter
  prev_match                                          \* timer_comparator

prescalerVars == <<prescaler_cnt, phase_cnt, prev_sel, clock_enable>>
timerVars == <<prescalerVars, count_reg, running_flag, prev_match>>

Selections == 0 .. 7
Commands == {"start", "reset", "stop"}

TimerInit ==
  /\ prescaler_cnt = 0 /\ phase_cnt = 1 /\ prev_sel = 0 /\ clock_enable = FALSE
  /\ count_reg = 0 /\ running_flag = FALSE /\ prev_match = FALSE

TimerReset ==
  /\ prescaler_cnt' = 0 /\ phase_cnt' = 1 /\ prev_sel' = 0 /\ clock_enable' = FALSE
  /\ count_reg' = 0 /\ running_flag' = FALSE /\ prev_match' = FALSE

prescaler_max(sel) == 2 ^ sel - 1

NewSelection(sel) ==
  /\ sel # prev_sel
  /\ prescaler_cnt' = 0 /\ phase_cnt' = 1 /\ clock_enable' = (sel = 0)

Undivided(sel) ==
  /\ sel = prev_sel /\ sel = 0
  /\ prescaler_cnt' = 0 /\ phase_cnt' = 0 /\ clock_enable' = TRUE

(* The phase toggles, so only every second wrap enables the counter.          *)
Wrap(sel) ==
  /\ sel = prev_sel /\ sel # 0 /\ prescaler_cnt = prescaler_max(sel)
  /\ prescaler_cnt' = 0 /\ phase_cnt' = 1 - phase_cnt
  /\ clock_enable' = (phase_cnt = 1)

Divide(sel) ==
  /\ sel = prev_sel /\ sel # 0 /\ prescaler_cnt # prescaler_max(sel)
  /\ prescaler_cnt' = prescaler_cnt + 1 /\ clock_enable' = FALSE
  /\ UNCHANGED phase_cnt

Prescaler(sel) ==
  /\ prev_sel' = sel
  /\ NewSelection(sel) \/ Undivided(sel) \/ Wrap(sel) \/ Divide(sel)

(* The edge that starts the counter does not count, and stopping keeps the    *)
(* count.                                                                     *)
Counted == IF clock_enable THEN (count_reg + 1) % (TimerMax + 1) ELSE count_reg

Counter(command) ==
  \/ command = "reset" /\ count_reg' = 0 /\ running_flag' = FALSE
  \/ command = "stop" /\ running_flag' = FALSE /\ UNCHANGED count_reg
  \/ command = "start" /\ ~running_flag /\ running_flag' = TRUE /\ UNCHANGED count_reg
  \/ command = "start" /\ running_flag /\ count_reg' = Counted /\ UNCHANGED running_flag

match_now(compare) == count_reg = compare
compare_int(compare) == match_now(compare) /\ ~prev_match
Comparator(compare) == prev_match' = match_now(compare)

TimerEdge(sel, command, compare) ==
  Prescaler(sel) /\ Counter(command) /\ Comparator(compare)
==============================================================================
