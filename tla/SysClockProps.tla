---------------------------- MODULE SysClockProps ----------------------------
(* What timers, alarms and time of day promise to a program.                  *)
EXTENDS SysClock

(* The alarms from an entry of the ring to its head.                          *)
After(e) ==
  LET hop[k \in 0 .. Cardinality(Alarm)] ==
        IF k = 0 THEN e
        ELSE IF hop[k - 1] = Head THEN Head ELSE links.next[hop[k - 1]]
  IN  {hop[k] : k \in DOMAIN hop} \ {Head}

Registered == After(links.next[Head])

(* The book that the list stands for, and what is left of the walk.           *)
Agenda == [a \in Registered |-> time[a]]
Ticking == isr = "walk"
Owed == IF Ticking THEN {a \in After(alarm) : time[a] <= nticks} ELSE {}

Book == INSTANCE AlarmBook WITH due <- Agenda, ticking <- Ticking, owed <- Owed

(* Alarms are called as the list of alt_alarm.h promises, each at its tick    *)
(* and once, whatever callbacks and program start and stop meanwhile.         *)
ImplementsAlarmBook == Book!Spec

(* The compare register asks for the next tick a full period after the last   *)
(* timer interrupt was taken, and no more than one from now: whenever mtime   *)
(* carries into its high word during the reads, no tick comes early or is     *)
(* lost until the timer wraps.                                                *)
NextTickSet ==
  isr = "off" => entered + Delta <= mtimecmp /\ mtimecmp <= mtime + Delta

Micros(t) == t[1] * ALT_US + t[2]

(* Unless the low word of the tick counter wraps during it or during the      *)
(* settimeofday before it, gettimeofday returns what was set plus the ticks   *)
(* since, in range, at a time between its call and its return.                *)
TimeOfDayExact ==
  pc = "use" /\ High(begun) = High(nticks) /\ ~torn =>
    /\ loaded \in begun .. nticks
    /\ Micros(TimeOfDay) = Micros(set.to) + (loaded - set.at) * (ALT_US \div TickRate)
    /\ TimeOfDay[2] \in 0 .. ALT_US - 1
==============================================================================
