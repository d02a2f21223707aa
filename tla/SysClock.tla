------------------------------ MODULE SysClock -------------------------------
(* The system clock of the Nios V, once alt_sys_init has started it: the      *)
(* machine timer mtime and its compare register, both of two machine words,   *)
(* the timer interrupt that sets the next one and counts a tick, the alarms   *)
(* it calls, and the time of day made from the ticks.                         *)
(*                                                                            *)
(* mtime goes on between any two accesses.  The program runs while no         *)
(* interrupt is being served; the interrupt may come between the two loads    *)
(* that fetch the ticks for gettimeofday and settimeofday, which are 64 bits  *)
(* wide on a machine of 32.                                                   *)
EXTENDS AlarmList

CONSTANTS Word,       \* values of a machine word; 2^32
          Delta,      \* MTIMECMP_DELTA_AMT: mtime cycles between two ticks
          MaxTime,    \* bound: mtime stops here
          ALT_US,     \* microseconds per second, 1000000 in the code
          TickRate,   \* _alt_tick_rate
          Settings    \* <<seconds, microseconds>> that the program sets

ASSUME ClockAssumption ==
  /\ Word \in Nat \ {0, 1} /\ Delta \in Nat \ {0} /\ MaxTime \in Nat
  /\ ALT_US \in Nat \ {0} /\ TickRate \in 1 .. ALT_US /\ ALT_US % TickRate = 0
  /\ Settings \subseteq Nat \X (0 .. ALT_US - 1)

VARIABLES
  mtime, mtimecmp,    \* external: the registers of the machine timer
  isr, high, low,     \* where the interrupt routine is, and its locals
  pc, first, loaded,  \* the program: its place, the word it loads first, the ticks
  resettime,          \* alt_resettime
  entered,            \* history: mtime when the last timer interrupt was taken
  begun, torn, set    \* history: ticks when the call began, whether their high word
                      \* changed between the loads, the last setting and its ticks

clockVars == <<mtime, mtimecmp, isr, high, low, entered>>
listVars == <<links, time, nticks, alarm>>
todVars == <<pc, first, loaded, resettime, begun, torn, set>>
vars == <<clockVars, listVars, todVars>>

High(x) == x \div Word
Low(x) == x % Word

Init ==
  /\ ListInit
  /\ mtime = 0 /\ mtimecmp = Delta /\ isr = "off" /\ high = 0 /\ low = 0 /\ entered = 0
  /\ pc = "idle" /\ first = "low" /\ loaded = 0 /\ resettime = <<0, 0>>
  /\ begun = 0 /\ torn = FALSE /\ set = [to |-> <<0, 0>>, at |-> 0]

(* While alt_tick runs nobody looks at mtime: what passes then passes after.  *)
Elapse ==
  /\ mtime < MaxTime /\ isr # "walk"
  /\ mtime' = mtime + 1
  /\ UNCHANGED <<mtimecmp, isr, high, low, entered, listVars, todVars>>
-----------------------------------------------------------------------------
(* alt_niosv_timer_sc_isr, with alt_niosv_mtime_get read by read.             *)
TimerInterrupt ==
  /\ isr = "off" /\ mtime >= mtimecmp
  /\ isr' = "high" /\ entered' = mtime
  /\ UNCHANGED <<mtime, mtimecmp, high, low, listVars, todVars>>

ReadHigh ==
  /\ isr = "high"
  /\ high' = High(mtime) /\ isr' = "low"
  /\ UNCHANGED <<mtime, mtimecmp, low, entered, listVars, todVars>>

ReadLow ==
  /\ isr = "low"
  /\ low' = Low(mtime) /\ isr' = "again"
  /\ UNCHANGED <<mtime, mtimecmp, high, entered, listVars, todVars>>

(* The compare register is written word by word, but the interrupt it might   *)
(* raise meanwhile is masked: the three stores are one step.                  *)
NoRollover == FALSE   \* a slip: the high word is not read again
Rollover == High(mtime) # high

ReadAgain ==
  /\ isr = "again"
  /\ IF Rollover THEN isr' = "high" /\ UNCHANGED <<mtimecmp, high, low>>
     ELSE /\ mtimecmp' = high * Word + low + Delta
          /\ isr' = "tick" /\ high' = 0 /\ low' = 0
  /\ UNCHANGED <<mtime, entered, listVars, todVars>>

AltTick ==
  /\ isr = "tick"
  /\ TickBegin /\ isr' = "walk"
  /\ UNCHANGED <<mtime, mtimecmp, high, low, entered, todVars>>

Walk ==
  /\ isr = "walk"
  /\ Visit
  /\ UNCHANGED <<clockVars, todVars>>

IsrReturn ==
  /\ isr = "walk" /\ alarm = Head
  /\ isr' = "off"
  /\ UNCHANGED <<mtime, mtimecmp, high, low, entered, listVars, todVars>>
-----------------------------------------------------------------------------
ProgramAlarms ==
  /\ isr = "off" /\ pc = "idle"
  /\ StartOrStop
  /\ UNCHANGED <<clockVars, todVars>>

(* gettimeofday and settimeofday begin with alt_nticks, two loads in the      *)
(* order the compiler chose.                                                  *)
LoadFirst ==
  /\ isr = "off" /\ pc = "idle"
  /\ pc' = "load" /\ begun' = nticks
  /\ \/ first' = "low" /\ loaded' = Low(nticks)
     \/ first' = "high" /\ loaded' = High(nticks) * Word
  /\ UNCHANGED <<clockVars, listVars, resettime, torn, set>>

LoadSecond ==
  /\ isr = "off" /\ pc = "load"
  /\ loaded' = loaded + (IF first = "low" THEN High(nticks) * Word ELSE Low(nticks))
  /\ pc' = "use"
  /\ UNCHANGED <<clockVars, listVars, first, resettime, begun, torn, set>>

(* Ticks as seconds and microseconds, as both calls compute them.             *)
TickSeconds(n) == n \div TickRate
TickMicros(n) == (n * (ALT_US \div TickRate)) % ALT_US

(* The microseconds may be out of their range by less than a second: the      *)
(* loops of gettimeofday borrow from, or carry to, the seconds.               *)
CarriedOnly(sec, usec) ==   \* a slip: nothing is borrowed
  IF usec >= ALT_US THEN <<sec + 1, usec - ALT_US>> ELSE <<sec, usec>>
Normal(sec, usec) ==
  IF usec < 0 THEN IF sec <= 0 THEN <<0, 0>> ELSE <<sec - 1, usec + ALT_US>>
  ELSE IF usec >= ALT_US THEN <<sec + 1, usec - ALT_US>>
  ELSE <<sec, usec>>

TimeOfDay ==
  Normal(resettime[1] + TickSeconds(loaded), resettime[2] + TickMicros(loaded))

BackToIdle == pc' = "idle" /\ first' = "low" /\ loaded' = 0 /\ begun' = 0

GetTimeOfDay ==
  /\ isr = "off" /\ pc = "use"
  /\ BackToIdle
  /\ UNCHANGED <<clockVars, listVars, resettime, torn, set>>

SetTimeOfDay(t) ==
  /\ isr = "off" /\ pc = "use"
  /\ resettime' = <<t[1] - TickSeconds(loaded), t[2] - TickMicros(loaded)>>
  /\ set' = [to |-> t, at |-> loaded] /\ torn' = (High(begun) # High(nticks))
  /\ BackToIdle
  /\ UNCHANGED <<clockVars, listVars>>

Next ==
  \/ Elapse
  \/ TimerInterrupt \/ ReadHigh \/ ReadLow \/ ReadAgain \/ AltTick \/ Walk \/ IsrReturn
  \/ ProgramAlarms
  \/ LoadFirst \/ LoadSecond \/ GetTimeOfDay \/ \E t \in Settings : SetTimeOfDay(t)

Spec == Init /\ [][Next]_vars
==============================================================================
