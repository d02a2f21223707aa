------------------------------ MODULE AlarmList ------------------------------
(* The alarms of the HAL: a doubly linked ring of alt_llist entries with a    *)
(* head of its own.  The program changes it with interrupts off; alt_tick     *)
(* walks it at interrupt level, and the callbacks it makes may change it too. *)
EXTENDS Integers, FiniteSets

CONSTANTS Alarm,      \* alarms of the program
          Head,       \* alt_alarm_list, the head of the ring
          Intervals   \* ticks passed to alt_alarm_start or returned by a callback

ASSUME AlarmAssumption ==
  IsFiniteSet(Alarm) /\ Head \notin Alarm /\ Intervals \subseteq Nat \ {0}

VARIABLES links,      \* next and previous of every entry
          time,       \* the tick at which each alarm is due
          nticks,     \* _alt_nticks
          alarm       \* where alt_tick is in the ring; Head between ticks

Entry == Alarm \cup {Head}

Inserted(l, a) ==
  [next     |-> [l.next EXCEPT ![a] = l.next[Head], ![Head] = a],
   previous |-> [l.previous EXCEPT ![a] = Head, ![l.next[Head]] = a]]

(* A removed entry points to itself, so that removing it again is harmless.   *)
Removed(l, a) ==
  [next     |-> [[l.next EXCEPT ![l.previous[a]] = l.next[a]] EXCEPT ![a] = a],
   previous |-> [[l.previous EXCEPT ![l.next[a]] = l.previous[a]] EXCEPT ![a] = a]]

Linked(l, a) == l.next[a] # a

ListInit ==
  /\ links = [next |-> [e \in Entry |-> e], previous |-> [e \in Entry |-> e]]
  /\ time = [a \in Alarm |-> 0] /\ nticks = 0 /\ alarm = Head

(* What the list and the times become: st is a record of both.  Programs do   *)
(* not start an alarm that is registered.                                     *)
Started(st, a, n) ==
  [links |-> Inserted(st.links, a), time |-> [st.time EXCEPT ![a] = n + nticks + 1]]

Stopped(st, a) == [st EXCEPT !.links = Removed(@, a)]

Edits(st) ==
  {Started(st, a, n) : a \in {b \in Alarm : ~Linked(st.links, b)}, n \in Intervals}
    \cup {Stopped(st, a) : a \in {b \in Alarm : Linked(st.links, b)}}

State == [links |-> links, time |-> time]
Become(st) == links' = st.links /\ time' = st.time

(* alt_alarm_start and alt_alarm_stop, called by the program.                 *)
StartOrStop ==
  /\ \E st \in Edits(State) : Become(st)
  /\ UNCHANGED <<nticks, alarm>>
-----------------------------------------------------------------------------
TickBegin ==
  /\ nticks' = nticks + 1
  /\ alarm' = links.next[Head]
  /\ UNCHANGED <<links, time>>

(* An expired alarm is called; 0 deactivates it, else it is due again so many *)
(* ticks later.                                                               *)
AfterCall(st, again) ==
  IF again = 0 THEN Stopped(st, alarm) ELSE [st EXCEPT !.time[alarm] = @ + again]

(* One turn of the loop.  next is read before the callback, so a callback may *)
(* not leave the alarm behind its own unregistered: alt_tick would follow the *)
(* stopped alarm, which points to itself, for ever.                           *)
Due(a) == time[a] <= nticks

VisitLateNext ==   \* a slip: next is read after the callback
  /\ alarm # Head
  /\ IF ~Due(alarm) THEN UNCHANGED <<links, time>>
     ELSE \E st \in {State} \cup Edits(State), again \in Intervals \cup {0} :
            Become(AfterCall(st, again))
  /\ alarm' = links'.next[alarm]
  /\ UNCHANGED nticks

Visit ==
  /\ alarm # Head
  /\ LET next == links.next[alarm] IN
       /\ alarm' = next
       /\ IF ~Due(alarm) THEN UNCHANGED <<links, time>>
          ELSE \E st \in {State} \cup Edits(State), again \in Intervals \cup {0} :
                 /\ next = Head \/ Linked(st.links, next)
                 /\ Become(AfterCall(st, again))
  /\ UNCHANGED nticks
==============================================================================
