------------------------------ MODULE AlarmBook ------------------------------
(* What alt_alarm_start, alt_alarm_stop and alt_tick promise, the linked list *)
(* forgotten: a registered alarm is called at its tick, once, and not at all  *)
(* once it has been stopped; what a callback starts waits for a later tick.   *)
EXTENDS Naturals

CONSTANTS Alarm, Intervals

VARIABLES due,      \* the registered alarms, with the tick each is due at
          nticks,   \* ticks since reset
          ticking,  \* a tick is being processed
          owed      \* the alarms that this tick has still to call

vars == <<due, nticks, ticking, owed>>

Init == due = << >> /\ nticks = 0 /\ ticking = FALSE /\ owed = {}

With(book, a, t) == [b \in DOMAIN book \cup {a} |-> IF b = a THEN t ELSE book[b]]
Without(book, a) == [b \in DOMAIN book \ {a} |-> book[b]]

(* The books that one call of start or stop makes of a book.                  *)
Edited(book) ==
  {With(book, a, nticks + n + 1) : a \in Alarm \ DOMAIN book, n \in Intervals}
    \cup {Without(book, a) : a \in DOMAIN book}

Edit == ~ticking /\ due' \in Edited(due) /\ UNCHANGED <<nticks, ticking, owed>>

Tick ==
  /\ ~ticking /\ ticking' = TRUE
  /\ nticks' = nticks + 1
  /\ owed' = {a \in DOMAIN due : due[a] <= nticks'}
  /\ UNCHANGED due

(* The callback may start or stop one alarm, itself included; what it returns *)
(* is when it wants to be called again, 0 for never.                          *)
Called(book, a, again) ==
  IF a \notin DOMAIN book \/ again = 0 THEN Without(book, a)
  ELSE With(book, a, book[a] + again)

Call(a) ==
  /\ a \in owed
  /\ \E book \in {due} \cup Edited(due), again \in Intervals \cup {0} :
       due' = Called(book, a, again)
  /\ owed' = {b \in owed \ {a} : b \in DOMAIN due' /\ due'[b] <= nticks}
  /\ UNCHANGED <<nticks, ticking>>

TickDone ==
  /\ ticking /\ owed = {} /\ ticking' = FALSE
  /\ UNCHANGED <<due, nticks, owed>>

Next == Edit \/ Tick \/ TickDone \/ \E a \in Alarm : Call(a)

Spec == Init /\ [][Next]_vars
==============================================================================
