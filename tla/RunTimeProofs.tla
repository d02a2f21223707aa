---------------------------- MODULE RunTimeProofs ----------------------------
(* What the run-time under a program promises it, for every value of the      *)
(* constants. First the timer and the time of day: every width of a machine   *)
(* word, every period and tick rate, and whatever the alarms do (TimerInv,    *)
(* TodInv; Spec of SysClock). Then the alarms: every finite set of them, and  *)
(* whatever callbacks and program start and stop (ListInv). Then the file     *)
(* descriptors: every size of the pool, set of devices and file systems, and  *)
(* whatever the drivers refuse (IInv; FilesSpec of HalFiles).                 *)
EXTENDS SysClockProps, HalFilesProps, FiniteSetTheorems, WellFoundedInduction, TLAPS

(* Products, as the steps below need them.                                    *)
LEMMA NatProduct == \A a, b \in Nat : a * b \in Nat
  OBVIOUS

LEMMA Distribute ==
  ASSUME NEW a \in Nat, NEW b \in Nat, NEW c \in Nat, NEW d \in Nat
  PROVE  (a * b + c) * d = a * (b * d) + c * d
  OBVIOUS

LEMMA Remainder ==
  ASSUME NEW m \in Nat, NEW q \in Nat, NEW r \in 0 .. m - 1
  PROVE  (q * m + r) % m = r
<1> DEFINE x == q * m + r
           d == (x \div m) - q
<1>1. x \in Nat /\ m > 0
  BY NatProduct
<1>2. x = m * (x \div m) + (x % m) /\ x \div m \in Nat /\ x % m \in 0 .. m - 1
  BY <1>1
<1>3. d \in Int /\ m * d = r - (x % m)
  BY <1>2
<1>4. d = 0
  <2>1. ~(d >= 1)
    BY <1>1, <1>2, <1>3
  <2>2. ~(d <= -1)
    BY <1>1, <1>2, <1>3
  <2> QED BY <1>3, <2>1, <2>2
<1> QED BY <1>2, <1>3, <1>4

(* Splitting a number into words and putting it together.                     *)
LEMMA Words ==
  ASSUME NEW x \in Nat
  PROVE  /\ High(x) \in Nat /\ Low(x) \in 0 .. Word - 1
         /\ High(x) * Word \in Nat /\ High(x) * Word + Low(x) = x
<1>1. High(x) \in Nat /\ Low(x) \in 0 .. Word - 1 /\ High(x) * Word + Low(x) = x
  BY ClockAssumption DEF High, Low
<1> QED BY <1>1, NatProduct, ClockAssumption

(* A later time does not have a smaller high word.                            *)
LEMMA HighMonotone ==
  ASSUME NEW x \in Nat, NEW y \in Nat, x <= y
  PROVE  High(x) <= High(y)
  BY ClockAssumption DEF High

-----------------------------------------------------------------------------
(* What the interrupt routine has read so far: words of mtime at times since  *)
(* it was entered, the high word not younger than the low one.                *)
TimerInv ==
  /\ mtime \in Nat /\ mtimecmp \in Nat /\ entered \in Nat /\ high \in Nat /\ low \in Nat
  /\ entered <= mtime
  /\ isr \in {"off", "high", "low", "again", "tick", "walk"}
  /\ isr = "low" => high <= High(mtime)
  /\ isr = "again" =>
       \E t \in Nat : entered <= t /\ t <= mtime /\ low = Low(t) /\ high <= High(t)
  /\ isr \in {"off", "tick", "walk"} =>
       entered + Delta <= mtimecmp /\ mtimecmp <= mtime + Delta

(* If the high word has not changed until it is read again, the two words     *)
(* belong to one time.                                                        *)
LEMMA ReadTogether ==
  ASSUME TimerInv, isr = "again", ~Rollover
  PROVE  /\ high * Word + low \in Nat
         /\ entered <= high * Word + low /\ high * Word + low <= mtime
<1>1. PICK t \in Nat : entered <= t /\ t <= mtime /\ low = Low(t) /\ high <= High(t)
  BY DEF TimerInv
<1>2. High(t) <= High(mtime) /\ High(t) \in Nat /\ High(mtime) = high
  BY <1>1, HighMonotone, Words DEF TimerInv, Rollover
<1>3. High(t) = high
  BY <1>1, <1>2 DEF TimerInv
<1>4. high * Word + low = t
  BY <1>1, <1>3, Words
<1> QED BY <1>1, <1>4

(* Time passing and any order of accesses keep it.                            *)
LEMMA TimerInductive == Spec => []TimerInv
<1>1. Init => TimerInv
  BY ClockAssumption DEF Init, TimerInv
<1>2. TimerInv /\ [Next]_vars => TimerInv'
  <2> SUFFICES ASSUME TimerInv, [Next]_vars PROVE TimerInv'
    OBVIOUS
  <2>1. CASE UNCHANGED clockVars
    BY <2>1 DEF clockVars, TimerInv
  <2>2. CASE Elapse
    <3>1. mtime \in Nat /\ mtime' \in Nat /\ mtime <= mtime'
      BY <2>2 DEF Elapse, TimerInv
    <3>2. High(mtime) <= High(mtime') /\ High(mtime) \in Nat /\ High(mtime') \in Nat
      BY <3>1, HighMonotone, Words
    <3> QED BY <2>2, <3>2, ClockAssumption DEF Elapse, TimerInv
  <2>3. CASE TimerInterrupt
    BY <2>3 DEF TimerInterrupt, TimerInv
  <2>4. CASE ReadHigh
    BY <2>4, Words DEF ReadHigh, TimerInv
  <2>5. CASE ReadLow
    BY <2>5, Words DEF ReadLow, TimerInv
  <2>6. CASE ReadAgain
    <3>1. CASE Rollover
      BY <2>6, <3>1 DEF ReadAgain, TimerInv
    <3>2. CASE ~Rollover
      BY <2>6, <3>2, ReadTogether, ClockAssumption DEF ReadAgain, TimerInv
    <3> QED BY <3>1, <3>2
  <2>7. CASE AltTick
    BY <2>7 DEF AltTick, TimerInv
  <2>8. CASE IsrReturn
    BY <2>8 DEF IsrReturn, TimerInv
  <2> QED BY <2>1, <2>2, <2>3, <2>4, <2>5, <2>6, <2>7, <2>8
          DEF Next, vars, Walk, ProgramAlarms, LoadFirst, LoadSecond,
              GetTimeOfDay, SetTimeOfDay
<1> QED BY <1>1, <1>2, PTL DEF Spec

(* The next tick is asked for a period after the interrupt was taken, and no  *)
(* more than a period from now, wherever mtime carries into its high word.    *)
THEOREM TickAlwaysSet == Spec => []NextTickSet
<1>1. TimerInv => NextTickSet
  BY DEF TimerInv, NextTickSet
<1> QED BY <1>1, TimerInductive, PTL
-----------------------------------------------------------------------------
(* Microseconds in a tick.                                                    *)
TickLength == ALT_US \div TickRate

(* Seconds and microseconds of k ticks make up the time k ticks take.         *)
LEMMA TickFacts ==
  ASSUME NEW k \in Nat
  PROVE  /\ TickLength \in Nat
         /\ TickSeconds(k) \in Nat /\ TickMicros(k) \in 0 .. ALT_US - 1
         /\ TickSeconds(k) * ALT_US + TickMicros(k) = k * TickLength
<1> DEFINE q == k \div TickRate
           r == k % TickRate
<1>1. TickLength \in Nat /\ TickRate * TickLength = ALT_US /\ TickLength > 0
  BY ClockAssumption DEF TickLength
<1>2. q \in Nat /\ r \in 0 .. TickRate - 1 /\ k = q * TickRate + r
  BY ClockAssumption
<1> HIDE DEF q, r
<1>3. k * TickLength = q * ALT_US + r * TickLength
  BY <1>1, <1>2, Distribute, ClockAssumption
<1>4. r * TickLength \in 0 .. ALT_US - 1
  BY <1>1, <1>2, ClockAssumption
<1>5. (q * ALT_US + r * TickLength) % ALT_US = r * TickLength
  BY <1>2, <1>4, Remainder, ClockAssumption
<1>6. TickSeconds(k) = q /\ TickMicros(k) = r * TickLength
  BY <1>3, <1>5 DEF TickSeconds, TickMicros, TickLength, q
<1> QED BY <1>1, <1>2, <1>3, <1>4, <1>6

(* resettime is the time that was set, less the ticks up to then.             *)
TimeSet ==
  /\ set.at \in Nat /\ set.to \in Nat \X (0 .. ALT_US - 1)
  /\ resettime = <<set.to[1] - TickSeconds(set.at), set.to[2] - TickMicros(set.at)>>

(* The two loads of the ticks: each is of a time since the call began; a call *)
(* during which the high word does not change uses ticks of such a time.      *)
TodInv ==
  /\ nticks \in Nat /\ begun \in Nat /\ loaded \in Nat
  /\ first \in {"low", "high"}
  /\ TimeSet /\ (torn \/ set.at <= IF pc = "idle" THEN nticks ELSE begun)
  /\ begun <= nticks
  /\ pc = "load" =>
       \E t \in Nat : /\ begun <= t /\ t <= nticks
                      /\ loaded = IF first = "low" THEN Low(t) ELSE High(t) * Word
  /\ pc = "use" /\ High(begun) = High(nticks) => begun <= loaded /\ loaded <= nticks

(* With one high word throughout, the two loads make up one of those times.   *)
LEMMA LoadTogether ==
  ASSUME TodInv, pc = "load",
         NEW sum, sum = loaded + (IF first = "low" THEN High(nticks) * Word ELSE Low(nticks))
  PROVE  /\ sum \in Nat
         /\ High(begun) = High(nticks) => begun <= sum /\ sum <= nticks
<1>1. PICK t \in Nat : /\ begun <= t /\ t <= nticks
                       /\ loaded = IF first = "low" THEN Low(t) ELSE High(t) * Word
  BY DEF TodInv
<1>2. /\ High(begun) <= High(t) /\ High(t) <= High(nticks)
      /\ High(begun) \in Nat /\ High(t) \in Nat /\ High(nticks) \in Nat
  BY <1>1, HighMonotone, Words DEF TodInv
<1>3. High(nticks) * Word \in Nat /\ Low(nticks) \in Nat
      /\ High(nticks) * Word + Low(nticks) = nticks
  <2>1. nticks \in Nat
    BY DEF TodInv
  <2> QED BY <2>1, Words
<1>4. Low(t) \in Nat /\ High(t) * Word \in Nat /\ High(t) * Word + Low(t) = t
  BY Words
<1>5. CASE first = "low"
  BY <1>1, <1>2, <1>3, <1>4, <1>5 DEF TodInv
<1>6. CASE first = "high"
  BY <1>1, <1>2, <1>3, <1>4, <1>6 DEF TodInv
<1> QED BY <1>5, <1>6 DEF TodInv

(* Ticks go by: what has been loaded was loaded of a time before.             *)
LEMMA TicksInv ==
  ASSUME TodInv, nticks' \in Nat, nticks <= nticks', UNCHANGED todVars
  PROVE  TodInv'
<1>1. /\ High(begun) <= High(nticks) /\ High(nticks) <= High(nticks')
      /\ High(begun) \in Nat /\ High(nticks) \in Nat /\ High(nticks') \in Nat
  BY HighMonotone, Words DEF TodInv
<1>2. pc' = "use" /\ High(begun') = High(nticks') => begun' <= loaded' /\ loaded' <= nticks'
  BY <1>1 DEF TodInv, todVars
<1>3. torn' \/ set'.at <= IF pc' = "idle" THEN nticks' ELSE begun'
  <2>1. torn => torn'
    BY DEF todVars
  <2>2. CASE set.at <= IF pc = "idle" THEN nticks ELSE begun
    BY <2>2 DEF TodInv, TimeSet, todVars
  <2> QED BY <2>1, <2>2 DEF TodInv
<1>4. TimeSet'
  BY DEF TimeSet, TodInv, todVars
<1> QED BY <1>2, <1>3, <1>4 DEF TodInv, todVars

(* Both calls use what they loaded, and leave the offset to the time set.     *)
LEMMA CallsInv ==
  ASSUME TodInv,
         \/ LoadFirst \/ LoadSecond \/ GetTimeOfDay \/ \E t \in Settings : SetTimeOfDay(t)
  PROVE  TodInv'
<1>1. CASE LoadFirst
  <2>1. /\ nticks \in Nat /\ UNCHANGED <<nticks, set, resettime, torn>>
        /\ begun' = nticks /\ pc' = "load" /\ pc = "idle"
    BY <1>1 DEF LoadFirst, TodInv, listVars
  <2>2. Low(nticks) \in Nat /\ High(nticks) * Word \in Nat
    BY <2>1, Words
  <2>3. /\ first' \in {"low", "high"} /\ loaded' \in Nat
        /\ loaded' = IF first' = "low" THEN Low(nticks) ELSE High(nticks) * Word
    BY <1>1, <2>2 DEF LoadFirst
  <2>4. \E t \in Nat : /\ begun' <= t /\ t <= nticks'
                       /\ loaded' = IF first' = "low" THEN Low(t) ELSE High(t) * Word
    BY <2>1, <2>3
  <2>5. TimeSet'
    BY <2>1 DEF TimeSet, TodInv
  <2> QED BY <2>1, <2>3, <2>4, <2>5 DEF TodInv
<1>2. CASE LoadSecond
  <2>1. TimeSet'
    BY <1>2 DEF LoadSecond, TimeSet, TodInv
  <2> QED BY <1>2, <2>1, LoadTogether DEF LoadSecond, TodInv, listVars
<1>3. CASE GetTimeOfDay
  <2>1. TimeSet'
    BY <1>3 DEF GetTimeOfDay, TimeSet, TodInv
  <2>2. torn => torn'
    BY <1>3 DEF GetTimeOfDay
  <2>3. torn' \/ set'.at <= nticks
    BY <1>3, <2>2 DEF GetTimeOfDay, TodInv, TimeSet
  <2> QED BY <1>3, <2>1, <2>3 DEF GetTimeOfDay, BackToIdle, TodInv, listVars
<1>4. ASSUME NEW t \in Settings, SetTimeOfDay(t) PROVE TodInv'
  <2>1. TimeSet'
    BY <1>4, ClockAssumption DEF SetTimeOfDay, TimeSet, TodInv
  <2>2. ~torn' => High(begun) = High(nticks)
    BY <1>4 DEF SetTimeOfDay
  <2>3. torn' \/ set'.at <= nticks
    BY <1>4, <2>2 DEF SetTimeOfDay, TodInv
  <2> QED BY <1>4, <2>1, <2>3 DEF SetTimeOfDay, BackToIdle, TodInv, listVars
<1> QED BY <1>1, <1>2, <1>3, <1>4

(* It holds whenever interrupts come, and whatever is set.                    *)
LEMMA TodInductive == Spec => []TodInv
<1>1. Init => TodInv
  <2> SUFFICES ASSUME Init PROVE TodInv
    OBVIOUS
  <2>1. TickSeconds(0) = 0 /\ TickMicros(0) = 0
    BY TickFacts, ClockAssumption DEF TickSeconds, TickMicros
  <2>2. TimeSet
    BY <2>1, ClockAssumption DEF Init, TimeSet
  <2> QED BY <2>2 DEF Init, ListInit, TodInv
<1>2. TodInv /\ [Next]_vars => TodInv'
  <2> SUFFICES ASSUME TodInv, [Next]_vars PROVE TodInv'
    OBVIOUS
  <2>1. CASE UNCHANGED nticks /\ UNCHANGED todVars
    BY <2>1, TicksInv DEF TodInv
  <2>2. CASE AltTick
    BY <2>2, TicksInv DEF AltTick, TickBegin, TodInv
  <2> QED BY <2>1, <2>2, CallsInv
          DEF Next, vars, listVars, Elapse, TimerInterrupt, ReadHigh, ReadLow, ReadAgain,
              Walk, Visit, IsrReturn, ProgramAlarms, StartOrStop
<1> QED BY <1>1, <1>2, PTL DEF Spec

(* What the two loops make of seconds and microseconds that may be out of     *)
(* range by less than a second, of a time that is not negative.               *)
LEMMA NormalFacts ==
  ASSUME NEW sec \in Int, NEW usec \in Int, -ALT_US < usec, usec < 2 * ALT_US,
         0 <= sec * ALT_US + usec
  PROVE  /\ Normal(sec, usec)[2] \in 0 .. ALT_US - 1
         /\ Micros(Normal(sec, usec)) = sec * ALT_US + usec
<1> DEFINE m == sec * ALT_US
<1>1. m \in Int /\ (sec - 1) * ALT_US = m - ALT_US /\ (sec + 1) * ALT_US = m + ALT_US
  BY ClockAssumption
<1>2. usec < 0 => sec > 0
  <2>1. sec <= 0 => m <= 0
    BY ClockAssumption
  <2> QED BY <1>1, <2>1, ClockAssumption
<1> HIDE DEF m
<1>3. CASE usec < 0
  BY <1>1, <1>2, <1>3, ClockAssumption DEF Normal, Micros, m
<1>4. CASE usec >= ALT_US
  BY <1>1, <1>4, ClockAssumption DEF Normal, Micros, m
<1>5. CASE 0 <= usec /\ usec < ALT_US
  BY <1>1, <1>5, ClockAssumption DEF Normal, Micros, m
<1> QED BY <1>3, <1>4, <1>5, ClockAssumption

(* Unless the high word of the ticks changes during it or during the          *)
(* settimeofday before it, gettimeofday returns the time that was set and the *)
(* ticks since, in range.                                                     *)
THEOREM TimeAlwaysExact == Spec => []TimeOfDayExact
<1>1. TodInv => TimeOfDayExact
  <2> SUFFICES ASSUME TodInv, pc = "use", High(begun) = High(nticks), ~torn
               PROVE  /\ loaded \in begun .. nticks
                      /\ Micros(TimeOfDay) = Micros(set.to)
                                             + (loaded - set.at) * (ALT_US \div TickRate)
                      /\ TimeOfDay[2] \in 0 .. ALT_US - 1
    BY DEF TimeOfDayExact
  <2>1. /\ loaded \in begun .. nticks /\ loaded \in Nat
        /\ set.at \in Nat /\ set.at <= loaded
    BY DEF TodInv, TimeSet
  <2> DEFINE s == set.to[1]
             u == set.to[2]
             sec == resettime[1] + TickSeconds(loaded)
             usec == resettime[2] + TickMicros(loaded)
  <2>2. s \in Nat /\ u \in 0 .. ALT_US - 1
    BY DEF TodInv, TimeSet
  <2>3. sec = s - TickSeconds(set.at) + TickSeconds(loaded)
        /\ usec = u - TickMicros(set.at) + TickMicros(loaded)
    BY DEF TodInv, TimeSet
  <2>4. /\ TickLength \in Nat
        /\ TickSeconds(set.at) \in Nat /\ TickMicros(set.at) \in 0 .. ALT_US - 1
        /\ TickSeconds(set.at) * ALT_US + TickMicros(set.at) = set.at * TickLength
        /\ TickSeconds(loaded) \in Nat /\ TickMicros(loaded) \in 0 .. ALT_US - 1
        /\ TickSeconds(loaded) * ALT_US + TickMicros(loaded) = loaded * TickLength
    BY <2>1, TickFacts
  <2> HIDE DEF s, u, sec, usec
  <2>5. sec \in Int /\ usec \in Int /\ -ALT_US < usec /\ usec < 2 * ALT_US
    BY <2>2, <2>3, <2>4, ClockAssumption
  <2>6. sec * ALT_US + usec = s * ALT_US + u + (loaded - set.at) * TickLength
    <3>1. sec * ALT_US = s * ALT_US - TickSeconds(set.at) * ALT_US
                           + TickSeconds(loaded) * ALT_US
      BY <2>2, <2>3, <2>4, ClockAssumption
    <3>2. (loaded - set.at) * TickLength = loaded * TickLength - set.at * TickLength
      BY <2>1, <2>4
    <3> QED BY <2>1, <2>2, <2>3, <2>4, <3>1, <3>2, NatProduct, ClockAssumption
  <2>7. 0 <= s * ALT_US + u + (loaded - set.at) * TickLength
    <3>1. loaded - set.at \in Nat
      BY <2>1
    <3> QED BY <2>2, <2>4, <3>1, NatProduct, ClockAssumption
  <2>8. /\ Normal(sec, usec)[2] \in 0 .. ALT_US - 1
        /\ Micros(Normal(sec, usec)) = sec * ALT_US + usec
    BY <2>5, <2>6, <2>7, NormalFacts
  <2>9. TimeOfDay = Normal(sec, usec) /\ Micros(set.to) = s * ALT_US + u
    BY DEF TimeOfDay, Micros, sec, usec, s, u
  <2> QED BY <2>1, <2>6, <2>8, <2>9 DEF TickLength
<1> QED BY <1>1, TodInductive, PTL

-----------------------------------------------------------------------------
(* Induction over the natural numbers, for sets: of the numbers that are not  *)
(* in such a set there is no least one.                                       *)
LEMMA LeastNumber ==
  ASSUME NEW S, S \subseteq Nat, S # {}
  PROVE  \E x \in S : \A y \in S : x <= y
<1> DEFINE R == OpToRel(<, Nat)
<1>1. IsWellFoundedOn(R, Nat)
  BY NatLessThanWellFounded
<1>2. \A x, y \in Nat : x < y => <<x, y>> \in R
  BY DEF OpToRel
<1> HIDE DEF R
<1>3. PICK x \in S : \A y \in S : ~ (<<y, x>> \in R)
  BY <1>1, WFMin
<1>4. ASSUME NEW y \in S PROVE x <= y
  <2>1. x \in Nat /\ y \in Nat
    OBVIOUS
  <2>2. ~(y < x)
    BY <1>2, <1>3, <2>1, Zenon
  <2> QED BY <2>1, <2>2
<1> QED BY <1>4

LEMMA SetInduction ==
  ASSUME NEW S, 0 \in S, \A k \in Nat : k \in S => k + 1 \in S
  PROVE  \A k \in Nat : k \in S
<1> SUFFICES ASSUME Nat \ S # {} PROVE FALSE
  OBVIOUS
<1>1. PICK x \in Nat \ S : \A y \in Nat \ S : x <= y
  BY LeastNumber
<1>2. x - 1 \in Nat /\ (x - 1) + 1 = x
  OBVIOUS
<1>3. x - 1 \in S
  BY <1>1, <1>2
<1> QED BY <1>2, <1>3

-----------------------------------------------------------------------------
(* The ring of alarms.  Every entry has a rank, which falls along the ring:   *)
(* an alarm is inserted in front of all the others, and keeps its rank until  *)
(* it is removed.                                                             *)
InRing(l) == {a \in Alarm : Linked(l, a)}
Ring(l) == InRing(l) \cup {Head}
Links == [next : [Entry -> Entry], previous : [Entry -> Entry]]

Ranked(l, rank) ==
  /\ l \in Links /\ rank \in [Entry -> Nat] /\ rank[Head] = 0
  /\ \A e \in Ring(l) :
       /\ l.next[e] \in Ring(l) /\ l.previous[e] \in Ring(l)
       /\ l.previous[l.next[e]] = e /\ l.next[l.previous[e]] = e
  /\ \A a \in InRing(l) : rank[a] > 0 /\ rank[l.next[a]] < rank[a]
  /\ \A a, b \in InRing(l) : rank[a] = rank[b] => a = b
  /\ \A b \in InRing(l) : rank[b] <= rank[l.next[Head]]
  /\ \A a, b \in InRing(l) : rank[b] < rank[a] => rank[b] <= rank[l.next[a]]
  /\ \A a \in Alarm \ InRing(l) : l.previous[a] = a

LEMMA RemovedFields ==
  ASSUME NEW l \in Links, NEW a \in Entry
  PROVE  /\ Removed(l, a) \in Links
         /\ \A e \in Entry :
              /\ Removed(l, a).next[e] =
                   IF e = a THEN a ELSE IF e = l.previous[a] THEN l.next[a] ELSE l.next[e]
              /\ Removed(l, a).previous[e] =
                   IF e = a THEN a
                   ELSE IF e = l.next[a] THEN l.previous[a] ELSE l.previous[e]
BY DEF Removed, Links

LEMMA InsertedFields ==
  ASSUME NEW l \in Links, NEW a \in Alarm
  PROVE  /\ Inserted(l, a) \in Links
         /\ \A e \in Entry :
              /\ Inserted(l, a).next[e] =
                   IF e = Head THEN a ELSE IF e = a THEN l.next[Head] ELSE l.next[e]
              /\ Inserted(l, a).previous[e] =
                   IF e = l.next[Head] THEN a ELSE IF e = a THEN Head ELSE l.previous[e]
BY AlarmAssumption DEF Inserted, Links, Entry

(* Removing an alarm that is not in the ring changes nothing.                 *)
LEMMA RemovedTwice ==
  ASSUME NEW l, NEW rank, Ranked(l, rank), NEW a \in Alarm \ InRing(l)
  PROVE  Removed(l, a) = l
<1>1. l \in Links /\ l.next[a] = a /\ l.previous[a] = a /\ a \in Entry
  BY DEF Ranked, InRing, Linked, Entry
<1>2. [l.next EXCEPT ![a] = a] = l.next /\ [l.previous EXCEPT ![a] = a] = l.previous
  BY <1>1 DEF Links
<1>3. Removed(l, a) = [next |-> l.next, previous |-> l.previous]
  BY <1>1, <1>2 DEF Removed
<1> QED BY <1>1, <1>3 DEF Links

LEMMA RemovedRing ==
  ASSUME NEW l, NEW rank, Ranked(l, rank), NEW a \in InRing(l)
  PROVE  InRing(Removed(l, a)) = InRing(l) \ {a} /\ Ranked(Removed(l, a), rank)
<1>1. PICK n, p, m : n = l.next[a] /\ p = l.previous[a] /\ m = Removed(l, a)
  OBVIOUS
<1>2. /\ l \in Links /\ a \in Entry /\ a \in Alarm /\ a # Head /\ a \in Ring(l)
      /\ Ring(l) \subseteq Entry /\ InRing(l) \subseteq Alarm
  BY AlarmAssumption DEF Ranked, InRing, Ring, Entry
<1>3. /\ m \in Links
      /\ \A e \in Entry :
           /\ m.next[e] = IF e = a THEN a ELSE IF e = p THEN n ELSE l.next[e]
           /\ m.previous[e] = IF e = a THEN a ELSE IF e = n THEN p ELSE l.previous[e]
  BY <1>1, <1>2, RemovedFields
<1>4. /\ n \in Ring(l) /\ p \in Ring(l) /\ l.next[p] = a /\ l.previous[n] = a
      /\ \A e \in Ring(l) :
           /\ l.next[e] \in Ring(l) /\ l.previous[e] \in Ring(l)
           /\ l.previous[l.next[e]] = e /\ l.next[l.previous[e]] = e
  BY <1>1, <1>2 DEF Ranked
<1>5. /\ rank \in [Entry -> Nat] /\ rank[Head] = 0
      /\ \A b \in InRing(l) : rank[b] > 0 /\ rank[l.next[b]] < rank[b]
      /\ \A b, c \in InRing(l) : rank[b] = rank[c] => b = c
      /\ \A b \in InRing(l) : rank[b] <= rank[l.next[Head]]
      /\ \A b, c \in InRing(l) : rank[c] < rank[b] => rank[c] <= rank[l.next[b]]
      /\ \A b \in Alarm \ InRing(l) : l.previous[b] = b /\ l.next[b] = b
  BY DEF Ranked, InRing, Linked
<1>6. /\ n # a /\ p # a /\ rank[n] < rank[a] /\ rank[a] \in Nat /\ rank[n] \in Nat
      /\ p # Head => p \in InRing(l) /\ rank[a] < rank[p] /\ rank[p] \in Nat
  BY <1>1, <1>2, <1>4, <1>5 DEF InRing, Linked, Ring
<1>7. InRing(m) = InRing(l) \ {a}
  <2>1. ASSUME NEW b \in Alarm PROVE Linked(m, b) <=> Linked(l, b) /\ b # a
    <3>1. CASE b = a
      BY <1>2, <1>3, <3>1 DEF Linked
    <3>2. CASE b # a /\ b = p
      <4>1. b # Head
        BY AlarmAssumption
      <4>2. p \in InRing(l) /\ n # p
        BY <1>6, <3>2, <4>1
      <4>3. l.next[b] # b /\ m.next[b] = n /\ b # n
        BY <1>3, <3>2, <4>2 DEF InRing, Linked, Entry
      <4> QED BY <3>2, <4>3 DEF Linked
    <3>3. CASE b # a /\ b # p
      BY <1>3, <3>3 DEF Linked, Entry
    <3> QED BY <3>1, <3>2, <3>3
  <2> QED BY <2>1 DEF InRing
<1>8. Ring(m) = Ring(l) \ {a}
  BY <1>2, <1>7 DEF Ring
<1>9. ASSUME NEW e \in Ring(m)
      PROVE  /\ m.next[e] \in Ring(m) /\ m.previous[e] \in Ring(m)
             /\ m.previous[m.next[e]] = e /\ m.next[m.previous[e]] = e
  <2>1. e \in Entry /\ e \in Ring(l) /\ e # a /\ n \in Entry /\ p \in Entry
    BY <1>2, <1>4, <1>8
  <2>2. m.next[e] \in Ring(m) /\ m.previous[m.next[e]] = e
    <3>1. CASE e = p
      BY <1>3, <1>4, <1>6, <1>8, <2>1, <3>1
    <3>2. CASE e # p
      <4>1. /\ m.next[e] = l.next[e] /\ l.next[e] \in Ring(l) /\ l.previous[l.next[e]] = e
            /\ l.next[e] \in Entry
        BY <1>2, <1>3, <1>4, <2>1, <3>2
      <4>2. l.next[e] # a /\ l.next[e] # n
        BY <1>1, <1>4, <2>1, <3>2, <4>1
      <4> QED BY <1>3, <1>8, <4>1, <4>2
    <3> QED BY <3>1, <3>2
  <2>3. m.previous[e] \in Ring(m) /\ m.next[m.previous[e]] = e
    <3>1. CASE e = n
      BY <1>3, <1>4, <1>6, <1>8, <2>1, <3>1
    <3>2. CASE e # n
      <4>1. /\ m.previous[e] = l.previous[e] /\ l.previous[e] \in Ring(l)
            /\ l.next[l.previous[e]] = e /\ l.previous[e] \in Entry
        BY <1>2, <1>3, <1>4, <2>1, <3>2
      <4>2. l.previous[e] # a /\ l.previous[e] # p
        BY <1>1, <1>4, <2>1, <3>2, <4>1
      <4> QED BY <1>3, <1>8, <4>1, <4>2
    <3> QED BY <3>1, <3>2
  <2> QED BY <2>2, <2>3
<1>10. ASSUME NEW b \in InRing(m)
       PROVE  /\ rank[b] > 0 /\ rank[m.next[b]] < rank[b]
              /\ rank[b] <= rank[m.next[Head]]
              /\ \A c \in InRing(m) : rank[c] < rank[b] => rank[c] <= rank[m.next[b]]
  <2>1. /\ b \in InRing(l) /\ b # a /\ b \in Entry /\ Head \in Entry
        /\ rank[b] \in Nat /\ rank[b] # rank[a]
    BY <1>2, <1>5, <1>7 DEF Entry
  <2>2. rank[b] > 0 /\ rank[m.next[b]] < rank[b]
    BY <1>3, <1>5, <1>6, <2>1, AlarmAssumption
  <2>3. rank[b] <= rank[m.next[Head]]
    BY <1>2, <1>3, <1>4, <1>5, <1>6, <2>1
  <2>4. ASSUME NEW c \in InRing(m), rank[c] < rank[b] PROVE rank[c] <= rank[m.next[b]]
    <3>1. c \in InRing(l) /\ c # a /\ rank[c] \in Nat /\ rank[c] # rank[a]
      BY <1>2, <1>5, <1>7 DEF Entry
    <3> QED BY <1>1, <1>3, <1>4, <1>5, <1>6, <2>1, <2>4, <3>1
  <2> QED BY <2>2, <2>3, <2>4
<1>11. ASSUME NEW b \in Alarm \ InRing(m) PROVE m.previous[b] = b
  <2>1. b \in Entry /\ (b # a => b \notin Ring(l))
    BY <1>7, AlarmAssumption DEF Entry, Ring
  <2> QED BY <1>3, <1>4, <1>5, <1>7, <2>1
<1> QED BY <1>1, <1>3, <1>5, <1>7, <1>9, <1>10, <1>11 DEF Ranked

LEMMA InsertedRing ==
  ASSUME NEW l, NEW rank, Ranked(l, rank), NEW a \in Alarm \ InRing(l)
  PROVE  \E higher :
           /\ InRing(Inserted(l, a)) = InRing(l) \cup {a} /\ Ranked(Inserted(l, a), higher)
           /\ \A e \in Ring(l) : higher[e] = rank[e] /\ higher[e] < higher[a]
<1>1. PICK n, m, higher : /\ n = l.next[Head] /\ m = Inserted(l, a)
                          /\ higher = [rank EXCEPT ![a] = rank[n] + 1]
  OBVIOUS
<1>2. /\ l \in Links /\ a \in Entry /\ a # Head /\ a \notin Ring(l)
      /\ Head \in Ring(l) /\ Ring(l) \subseteq Entry /\ InRing(l) \subseteq Alarm
  BY AlarmAssumption DEF Ranked, InRing, Ring, Entry
<1>3. /\ m \in Links
      /\ \A e \in Entry :
           /\ m.next[e] = IF e = Head THEN a ELSE IF e = a THEN n ELSE l.next[e]
           /\ m.previous[e] = IF e = n THEN a ELSE IF e = a THEN Head ELSE l.previous[e]
  BY <1>1, <1>2, InsertedFields
<1>4. /\ n \in Ring(l) /\ l.previous[n] = Head
      /\ \A e \in Ring(l) :
           /\ l.next[e] \in Ring(l) /\ l.previous[e] \in Ring(l)
           /\ l.previous[l.next[e]] = e /\ l.next[l.previous[e]] = e
  BY <1>1, <1>2 DEF Ranked
<1>5. /\ rank \in [Entry -> Nat] /\ rank[Head] = 0
      /\ \A b \in InRing(l) : rank[b] > 0 /\ rank[l.next[b]] < rank[b]
      /\ \A b, c \in InRing(l) : rank[b] = rank[c] => b = c
      /\ \A b \in InRing(l) : rank[b] <= rank[n]
      /\ \A b, c \in InRing(l) : rank[c] < rank[b] => rank[c] <= rank[l.next[b]]
      /\ \A b \in Alarm \ InRing(l) : l.previous[b] = b /\ l.next[b] = b
  BY <1>1 DEF Ranked, InRing, Linked
<1>6. /\ higher \in [Entry -> Nat] /\ rank[n] \in Nat /\ higher[a] = rank[n] + 1
      /\ \A e \in Ring(l) : higher[e] = rank[e] /\ rank[e] \in Nat /\ rank[e] <= rank[n]
  <2>1. rank[n] \in Nat
    BY <1>2, <1>4, <1>5
  <2>2. \A e \in Ring(l) : rank[e] \in Nat /\ rank[e] <= rank[n]
    BY <1>2, <1>5, <2>1 DEF Ring
  <2> QED BY <1>1, <1>2, <1>5, <2>1, <2>2
<1>7. InRing(m) = InRing(l) \cup {a}
  <2>1. ASSUME NEW b \in Alarm PROVE Linked(m, b) <=> Linked(l, b) \/ b = a
    <3>1. b \in Entry /\ b # Head /\ n # a
      BY <1>2, <1>4, AlarmAssumption DEF Entry
    <3> QED BY <1>3, <3>1 DEF Linked
  <2> QED BY <2>1 DEF InRing
<1>8. Ring(m) = Ring(l) \cup {a}
  BY <1>2, <1>7 DEF Ring
<1>9. ASSUME NEW e \in Ring(m)
      PROVE  /\ m.next[e] \in Ring(m) /\ m.previous[e] \in Ring(m)
             /\ m.previous[m.next[e]] = e /\ m.next[m.previous[e]] = e
  <2>1. e \in Entry /\ Head \in Entry /\ n \in Entry /\ n # a /\ (e # a => e \in Ring(l))
    BY <1>2, <1>4, <1>8
  <2>2. m.next[e] \in Ring(m) /\ m.previous[m.next[e]] = e
    <3>1. CASE e = Head \/ e = a
      BY <1>2, <1>3, <1>4, <1>8, <2>1, <3>1
    <3>2. CASE e # Head /\ e # a
      <4>1. /\ m.next[e] = l.next[e] /\ l.next[e] \in Ring(l) /\ l.previous[l.next[e]] = e
            /\ l.next[e] \in Entry
        BY <1>2, <1>3, <1>4, <2>1, <3>2
      <4>2. l.next[e] # a /\ l.next[e] # n
        BY <1>2, <1>4, <3>2, <4>1
      <4> QED BY <1>3, <1>8, <4>1, <4>2
    <3> QED BY <3>1, <3>2
  <2>3. m.previous[e] \in Ring(m) /\ m.next[m.previous[e]] = e
    <3>1. CASE e = n \/ e = a
      BY <1>2, <1>3, <1>4, <1>8, <2>1, <3>1
    <3>2. CASE e # n /\ e # a
      <4>1. /\ m.previous[e] = l.previous[e] /\ l.previous[e] \in Ring(l)
            /\ l.next[l.previous[e]] = e /\ l.previous[e] \in Entry
        BY <1>2, <1>3, <1>4, <2>1, <3>2
      <4>2. l.previous[e] # a /\ l.previous[e] # Head
        BY <1>1, <1>2, <3>2, <4>1
      <4> QED BY <1>3, <1>8, <4>1, <4>2
    <3> QED BY <3>1, <3>2
  <2> QED BY <2>2, <2>3
<1>10. ASSUME NEW b \in InRing(m)
       PROVE  /\ higher[b] > 0 /\ higher[m.next[b]] < higher[b]
              /\ higher[b] <= higher[m.next[Head]]
              /\ \A c \in InRing(m) : higher[c] = higher[b] => b = c
              /\ \A c \in InRing(m) :
                   higher[c] < higher[b] => higher[c] <= higher[m.next[b]]
  <2>1. m.next[Head] = a /\ m.next[a] = n
    BY <1>2, <1>3
  <2>2. \A c \in InRing(m) : c # a => c \in InRing(l) /\ c \in Ring(l)
    BY <1>7 DEF Ring
  <2>3. CASE b = a
    BY <1>4, <1>6, <2>1, <2>2, <2>3
  <2>4. CASE b # a
    <3>1. b \in InRing(l) /\ b \in Ring(l) /\ b # Head /\ b \in Entry
      BY <1>2, <2>2, <2>4, AlarmAssumption
    <3>2. m.next[b] = l.next[b] /\ l.next[b] \in Ring(l)
      BY <1>3, <1>4, <2>4, <3>1
    <3> QED BY <1>5, <1>6, <2>1, <2>2, <3>1, <3>2
  <2> QED BY <2>3, <2>4
<1>11. ASSUME NEW b \in Alarm \ InRing(m) PROVE m.previous[b] = b
  <2>1. b \in Entry /\ b # a /\ b \notin Ring(l) /\ b \notin InRing(l)
    BY <1>7, AlarmAssumption DEF Entry, Ring
  <2> QED BY <1>3, <1>4, <1>5, <2>1
<1>12. higher[Head] = 0 /\ \A e \in Ring(l) : higher[e] = rank[e] /\ higher[e] < higher[a]
  BY <1>2, <1>5, <1>6
<1>13. Ranked(m, higher)
  BY <1>3, <1>6, <1>9, <1>10, <1>11, <1>12 DEF Ranked
<1> QED BY <1>1, <1>7, <1>12, <1>13

-----------------------------------------------------------------------------
(* The walk from an entry to the head, which After counts hop by hop.         *)
Bound == Cardinality(Alarm)
Hop(l, x) == IF x = Head THEN Head ELSE l.next[x]
IsWalk(l, e, n, w) == w = [k \in 0 .. n |-> IF k = 0 THEN e ELSE Hop(l, w[k - 1])]

LEMMA WalkLonger ==
  ASSUME NEW l, NEW e, NEW n \in Nat, NEW w, IsWalk(l, e, n, w)
  PROVE  \E v : IsWalk(l, e, n + 1, v)
<1> DEFINE v == [k \in 0 .. n + 1 |-> IF k <= n THEN w[k] ELSE Hop(l, w[n])]
<1>1. /\ \A k \in 0 .. n : w[k] = IF k = 0 THEN e ELSE Hop(l, w[k - 1])
      /\ \A k \in 0 .. n : v[k] = w[k]
      /\ v[n + 1] = Hop(l, w[n])
  BY DEF IsWalk
<1>2. ASSUME NEW k \in 0 .. n + 1 PROVE v[k] = IF k = 0 THEN e ELSE Hop(l, v[k - 1])
  <2>1. CASE k = n + 1
    BY <1>1, <2>1
  <2>2. CASE k \in 0 .. n
    BY <1>1, <2>2
  <2> QED BY <2>1, <2>2
<1>3. v = [k \in 0 .. n + 1 |-> IF k = 0 THEN e ELSE Hop(l, v[k - 1])]
  <2>1. v = [k \in 0 .. n + 1 |-> v[k]]
    OBVIOUS
  <2> HIDE DEF v
  <2> QED BY <1>2, <2>1
<1> QED BY <1>3 DEF IsWalk

LEMMA WalkExists ==
  ASSUME NEW l, NEW e
  PROVE  \A n \in Nat : \E w : IsWalk(l, e, n, w)
<1> DEFINE S == {n \in Nat : \E w : IsWalk(l, e, n, w)}
<1>1. 0 \in S
  <2>1. IsWalk(l, e, 0, [k \in 0 .. 0 |-> e])
    BY DEF IsWalk
  <2> QED BY <2>1
<1>2. \A n \in Nat : n \in S => n + 1 \in S
  BY WalkLonger
<1> HIDE DEF S
<1>3. \A n \in Nat : n \in S
  BY <1>1, <1>2, SetInduction
<1> QED BY <1>3 DEF S

LEMMA AfterIsWalk ==
  ASSUME NEW e
  PROVE  \E w : /\ IsWalk(links, e, Bound, w)
                /\ After(e) = {w[k] : k \in 0 .. Bound} \ {Head}
<1>1. Bound \in Nat
  BY AlarmAssumption, FS_CardinalityType DEF Bound
<1>2. PICK w : IsWalk(links, e, Bound, w)
  BY <1>1, WalkExists
<1> DEFINE F == CHOOSE h : h = [k \in 0 .. Cardinality(Alarm) |->
                               IF k = 0 THEN e
                               ELSE IF h[k - 1] = Head THEN Head ELSE links.next[h[k - 1]]]
<1>3. IsWalk(links, e, Bound, F)
  BY <1>2 DEF IsWalk, Hop, Bound
<1>4. DOMAIN F = 0 .. Bound
  <2> HIDE DEF F
  <2> QED BY <1>3 DEF IsWalk
<1>5. After(e) = {F[k] : k \in DOMAIN F} \ {Head}
  BY DEF After
<1> HIDE DEF F
<1> QED BY <1>3, <1>4, <1>5

(* The walk stays in the ring; its ranks fall until the head is reached.      *)
LEMMA HopFalls ==
  ASSUME NEW l, NEW rank, Ranked(l, rank), NEW x \in Ring(l)
  PROVE  /\ Hop(l, x) \in Ring(l) /\ rank[Hop(l, x)] \in Nat /\ rank[x] \in Nat
         /\ rank[Hop(l, x)] <= rank[x] /\ (x # Head => rank[Hop(l, x)] < rank[x])
         /\ \A b \in InRing(l) : rank[b] < rank[x] => rank[b] <= rank[Hop(l, x)]
<1>1. Ring(l) \subseteq Entry /\ Head \in Ring(l)
  BY DEF Ring, InRing, Entry
<1>2. rank \in [Entry -> Nat] /\ rank[Head] = 0
  BY DEF Ranked
<1>3. CASE x = Head
  BY <1>1, <1>2, <1>3 DEF Hop, InRing, Entry
<1>4. CASE x # Head
  <2>1. x \in InRing(l) /\ Hop(l, x) = l.next[x]
    BY <1>4 DEF Ring, Hop
  <2>2. l.next[x] \in Ring(l) /\ rank[l.next[x]] < rank[x]
    BY <2>1 DEF Ranked
  <2>3. \A b \in InRing(l) : rank[b] < rank[x] => rank[b] <= rank[l.next[x]]
    BY <2>1 DEF Ranked
  <2>4. rank[l.next[x]] \in Nat /\ rank[x] \in Nat
    BY <1>1, <1>2, <2>2
  <2> QED BY <2>1, <2>2, <2>3, <2>4
<1> QED BY <1>3, <1>4

LEMMA WalkStays ==
  ASSUME NEW l, NEW rank, Ranked(l, rank), NEW e \in Ring(l),
         NEW n \in Nat, NEW w, IsWalk(l, e, n, w)
  PROVE  /\ \A k \in 0 .. n : w[k] \in Ring(l) /\ rank[w[k]] \in Nat
         /\ \A k \in 0 .. n : rank[w[k]] <= rank[e]
<1> DEFINE S == {k \in Nat : k <= n => /\ w[k] \in Ring(l) /\ rank[w[k]] \in Nat
                                        /\ rank[w[k]] <= rank[e]}
<1>1. \A k \in 0 .. n : w[k] = IF k = 0 THEN e ELSE Hop(l, w[k - 1])
  BY DEF IsWalk
<1>2. rank[e] \in Nat
  BY HopFalls
<1>3. 0 \in S
  BY <1>1, <1>2
<1>4. ASSUME NEW k \in Nat, k \in S PROVE k + 1 \in S
  <2> SUFFICES ASSUME k + 1 <= n
               PROVE  /\ w[k + 1] \in Ring(l) /\ rank[w[k + 1]] \in Nat
                      /\ rank[w[k + 1]] <= rank[e]
    OBVIOUS
  <2>1. w[k] \in Ring(l) /\ rank[w[k]] \in Nat /\ rank[w[k]] <= rank[e]
    BY <1>4
  <2>2. w[k + 1] = Hop(l, w[k])
    BY <1>1
  <2>3. /\ Hop(l, w[k]) \in Ring(l) /\ rank[Hop(l, w[k])] \in Nat
        /\ rank[Hop(l, w[k])] <= rank[w[k]]
    BY <2>1, HopFalls
  <2> QED BY <1>2, <2>1, <2>2, <2>3
<1> HIDE DEF S
<1>5. \A k \in Nat : k \in S
  BY <1>3, <1>4, SetInduction
<1> QED BY <1>5 DEF S

LEMMA WalkFalls ==
  ASSUME NEW l, NEW rank, Ranked(l, rank), NEW e \in Ring(l),
         NEW n \in Nat, NEW w, IsWalk(l, e, n, w), \A k \in 0 .. n : w[k] # Head
  PROVE  \A j, k \in 0 .. n : j < k => rank[w[k]] < rank[w[j]]
<1> DEFINE S == {k \in Nat : k <= n => \A j \in 0 .. n : j < k => rank[w[k]] < rank[w[j]]}
<1>1. \A k \in 0 .. n : w[k] \in Ring(l) /\ rank[w[k]] \in Nat
  BY WalkStays
<1>2. ASSUME NEW k \in Nat, k + 1 <= n PROVE rank[w[k + 1]] < rank[w[k]]
  <2>1. w[k + 1] = Hop(l, w[k])
    BY <1>2 DEF IsWalk
  <2>2. k \in 0 .. n
    BY <1>2
  <2> QED BY <1>1, <2>1, <2>2, HopFalls
<1>3. 0 \in S
  OBVIOUS
<1>4. ASSUME NEW k \in Nat, k \in S PROVE k + 1 \in S
  <2> SUFFICES ASSUME k + 1 <= n, NEW j \in 0 .. n, j < k + 1
               PROVE  rank[w[k + 1]] < rank[w[j]]
    OBVIOUS
  <2>1. k \in 0 .. n /\ k + 1 \in 0 .. n
    OBVIOUS
  <2>2. rank[w[k + 1]] < rank[w[k]]
    BY <1>2
  <2>3. rank[w[k + 1]] \in Nat /\ rank[w[k]] \in Nat /\ rank[w[j]] \in Nat
    BY <1>1, <2>1
  <2>4. j # k => rank[w[k]] < rank[w[j]]
    BY <1>4, <2>1
  <2> QED BY <2>2, <2>3, <2>4
<1> HIDE DEF S
<1>5. \A k \in Nat : k \in S
  BY <1>3, <1>4, SetInduction
<1> QED BY <1>5 DEF S

(* It passes no alarm by.                                                     *)
LEMMA WalkPasses ==
  ASSUME NEW l, NEW rank, Ranked(l, rank), NEW e \in Ring(l),
         NEW n \in Nat, NEW w, IsWalk(l, e, n, w),
         NEW b \in InRing(l), rank[b] <= rank[e], \A k \in 0 .. n : w[k] # b
  PROVE  \A k \in 0 .. n : rank[b] < rank[w[k]]
<1> DEFINE S == {k \in Nat : k <= n => rank[b] < rank[w[k]]}
<1>1. \A k \in 0 .. n : w[k] \in Ring(l) /\ rank[w[k]] \in Nat
  BY WalkStays
<1>2. /\ \A k \in 0 .. n : w[k] = IF k = 0 THEN e ELSE Hop(l, w[k - 1])
      /\ b \in Ring(l)
  BY DEF IsWalk, Ring
<1>3. rank[b] \in Nat /\ rank[e] \in Nat
  BY <1>2, HopFalls
<1>4. ASSUME NEW x \in Ring(l), x # b PROVE rank[x] # rank[b]
  <2>1. x = Head => rank[x] = 0 /\ rank[b] > 0
    BY DEF Ranked
  <2>2. x # Head => x \in InRing(l)
    BY DEF Ring
  <2>3. x # Head => rank[x] # rank[b]
    BY <1>4, <2>2 DEF Ranked
  <2> QED BY <1>3, <2>1, <2>3
<1>5. 0 \in S
  <2>1. w[0] = e /\ e # b
    BY <1>2
  <2> QED BY <1>3, <1>4, <2>1
<1>6. ASSUME NEW k \in Nat, k \in S PROVE k + 1 \in S
  <2> SUFFICES ASSUME k + 1 <= n PROVE rank[b] < rank[w[k + 1]]
    OBVIOUS
  <2>1. k \in 0 .. n /\ k + 1 \in 0 .. n /\ rank[b] < rank[w[k]]
    BY <1>6
  <2>2. w[k + 1] = Hop(l, w[k])
    BY <1>2, <2>1
  <2>3. rank[b] <= rank[Hop(l, w[k])]
    BY <1>1, <2>1, HopFalls
  <2>4. rank[w[k + 1]] \in Nat /\ rank[w[k + 1]] # rank[b]
    BY <1>1, <1>4, <2>1
  <2> QED BY <1>3, <2>2, <2>3, <2>4
<1> HIDE DEF S
<1>7. \A k \in Nat : k \in S
  BY <1>5, <1>6, SetInduction
<1> QED BY <1>7 DEF S

(* After an entry come the alarms of no higher rank: there are not so many    *)
(* alarms that a walk could be over before it has met them all.               *)
LEMMA AfterIs ==
  ASSUME NEW rank, Ranked(links, rank), NEW e \in Ring(links)
  PROVE  After(e) = {b \in InRing(links) : rank[b] <= rank[e]}
<1>1. PICK w : /\ IsWalk(links, e, Bound, w)
               /\ After(e) = {w[k] : k \in 0 .. Bound} \ {Head}
  BY AfterIsWalk
<1>2. Bound \in Nat /\ IsFiniteSet(Alarm)
  BY AlarmAssumption, FS_CardinalityType DEF Bound
<1>3. /\ \A k \in 0 .. Bound : w[k] \in Ring(links) /\ rank[w[k]] \in Nat
      /\ \A k \in 0 .. Bound : rank[w[k]] <= rank[e]
  BY <1>1, <1>2, WalkStays
<1>4. \A b \in After(e) : b \in InRing(links) /\ rank[b] <= rank[e]
  BY <1>1, <1>3 DEF Ring
<1>5. ASSUME NEW b \in InRing(links), rank[b] <= rank[e] PROVE b \in After(e)
  <2> SUFFICES ASSUME \A k \in 0 .. Bound : w[k] # b PROVE FALSE
    BY <1>1, AlarmAssumption DEF InRing
  <2>1. \A k \in 0 .. Bound : rank[b] < rank[w[k]]
    BY <1>1, <1>2, <1>5, WalkPasses
  <2>2. rank[b] > 0 /\ rank[b] \in Nat /\ rank[Head] = 0
    BY DEF Ranked, InRing, Entry
  <2>3. \A k \in 0 .. Bound : w[k] # Head
    BY <1>3, <2>1, <2>2
  <2>4. \A j, k \in 0 .. Bound : j < k => rank[w[k]] < rank[w[j]]
    BY <1>1, <1>2, <2>3, WalkFalls
  <2>5. [k \in 0 .. Bound |-> w[k]] \in [0 .. Bound -> Alarm]
    BY <1>3, <2>3 DEF Ring, InRing
  <2>6. IsFiniteSet(0 .. Bound) /\ Cardinality(0 .. Bound) = Bound + 1
    BY <1>2, FS_Interval
  <2>7. Cardinality(Alarm) < Cardinality(0 .. Bound)
    BY <1>2, <2>6 DEF Bound
  <2>8. PICK j, k \in 0 .. Bound : j # k /\ w[j] = w[k]
    <3>1. PICK f : f = [k \in 0 .. Bound |-> w[k]]
      OBVIOUS
    <3>2. \E j, k \in 0 .. Bound : j # k /\ f[j] = f[k]
      BY <1>2, <2>5, <2>6, <2>7, <3>1, FS_PigeonHole
    <3> QED BY <3>1, <3>2
  <2>9. j < k \/ k < j
    BY <1>2, <2>8
  <2> QED BY <1>3, <2>4, <2>8, <2>9
<1> QED BY <1>4, <1>5

-----------------------------------------------------------------------------
(* What the list says of the book.                                            *)
LEMMA Mapping ==
  \A rank : Ranked(links, rank) =>
    /\ Registered = InRing(links) /\ Agenda = [a \in InRing(links) |-> time[a]]
    /\ Ticking /\ alarm \in Ring(links) =>
         Owed = {b \in InRing(links) : rank[b] <= rank[alarm] /\ time[b] <= nticks}
<1> SUFFICES ASSUME NEW rank, Ranked(links, rank)
             PROVE  /\ Registered = InRing(links)
                    /\ Agenda = [a \in InRing(links) |-> time[a]]
                    /\ Ticking /\ alarm \in Ring(links) =>
                         Owed = {b \in InRing(links) :
                                   rank[b] <= rank[alarm] /\ time[b] <= nticks}
  OBVIOUS
<1>1. /\ links.next[Head] \in Ring(links)
      /\ \A b \in InRing(links) : rank[b] <= rank[links.next[Head]]
  BY DEF Ranked, Ring
<1>2. Registered = InRing(links)
  BY <1>1, AfterIs DEF Registered
<1>3. Ticking /\ alarm \in Ring(links) =>
        After(alarm) = {b \in InRing(links) : rank[b] <= rank[alarm]}
  BY AfterIs
<1> QED BY <1>2, <1>3 DEF Agenda, Owed

LEMMA MappingNext ==
  \A rank : Ranked(links', rank) =>
    /\ Agenda' = [a \in InRing(links') |-> time'[a]]
    /\ Ticking' /\ alarm' \in Ring(links') =>
         Owed' = {b \in InRing(links') : rank[b] <= rank[alarm'] /\ time'[b] <= nticks'}
<1>1. (\A rank : Ranked(links, rank) =>
         /\ Registered = InRing(links) /\ Agenda = [a \in InRing(links) |-> time[a]]
         /\ Ticking /\ alarm \in Ring(links) =>
              Owed = {b \in InRing(links) : rank[b] <= rank[alarm] /\ time[b] <= nticks})'
  BY Mapping, PTL
<1> QED BY <1>1

(* The list is a ring, and the walk is in it.                                 *)
ListInv ==
  /\ nticks \in Nat /\ time \in [Alarm -> Int]
  /\ \E rank : Ranked(links, rank)
  /\ Ticking => alarm \in Ring(links)

(* What one start or stop does to ring and book.                              *)
Booked(st) == [a \in InRing(st.links) |-> st.time[a]]
Lists == [links : Links, time : [Alarm -> Int]]
KeepsRanks(st, rank, higher) ==
  /\ st \in Lists /\ Ranked(st.links, higher)
  /\ \A e \in Ring(links) : e \in Ring(st.links) => higher[e] = rank[e]
  /\ \A b \in InRing(st.links) \ InRing(links) :
       \A e \in Ring(links) : e \in Ring(st.links) => higher[e] < higher[b]
  /\ \A b \in InRing(st.links) \cap InRing(links) : st.time[b] = time[b]

LEMMA StateIs ==
  ASSUME NEW rank, Ranked(links, rank), time \in [Alarm -> Int]
  PROVE  KeepsRanks(State, rank, rank) /\ Booked(State) = Agenda
<1>1. State.links = links /\ State.time = time /\ State \in Lists
  BY DEF State, Lists, Ranked
<1>2. Booked(State) = Agenda
  BY <1>1, Mapping DEF Booked
<1> QED BY <1>1, <1>2 DEF KeepsRanks

LEMMA StartKeeps ==
  ASSUME NEW rank, Ranked(links, rank), time \in [Alarm -> Int], nticks \in Nat,
         NEW a \in Alarm \ InRing(links), NEW n \in Intervals
  PROVE  /\ \E higher : KeepsRanks(Started(State, a, n), rank, higher)
         /\ Booked(Started(State, a, n)) = Book!With(Agenda, a, nticks + n + 1)
<1>1. PICK st : st = Started(State, a, n)
  OBVIOUS
<1>2. /\ st.links = Inserted(links, a)
      /\ st.time = [time EXCEPT ![a] = n + nticks + 1]
  BY <1>1 DEF Started, State
<1>3. PICK higher :
        /\ InRing(st.links) = InRing(links) \cup {a} /\ Ranked(st.links, higher)
        /\ \A e \in Ring(links) : higher[e] = rank[e] /\ higher[e] < higher[a]
  BY <1>2, InsertedRing
<1>4. n \in Nat /\ n + nticks + 1 = nticks + n + 1 /\ n + nticks + 1 \in Int
  BY AlarmAssumption
<1>5. /\ st.time \in [Alarm -> Int] /\ st.time[a] = nticks + n + 1
      /\ \A b \in Alarm : b # a => st.time[b] = time[b]
  BY <1>2, <1>4
<1>6. st \in Lists
  <2>1. st.links \in Links
    BY <1>3 DEF Ranked
  <2> QED BY <1>1, <1>5, <2>1 DEF Lists, Started
<1>7. KeepsRanks(st, rank, higher)
  BY <1>3, <1>5, <1>6 DEF KeepsRanks, InRing
<1>8. Booked(st) = Book!With(Agenda, a, nticks + n + 1)
  <2>1. Agenda = [b \in InRing(links) |-> time[b]]
    BY Mapping
  <2>2. \A b \in InRing(links) \cup {a} :
          st.time[b] = IF b = a THEN nticks + n + 1 ELSE Agenda[b]
    BY <1>5, <2>1 DEF InRing
  <2> QED BY <1>3, <2>1, <2>2 DEF Booked, Book!With
<1> QED BY <1>1, <1>7, <1>8

LEMMA StopKeeps ==
  ASSUME NEW rank, Ranked(links, rank), time \in [Alarm -> Int], NEW a \in InRing(links)
  PROVE  /\ KeepsRanks(Stopped(State, a), rank, rank)
         /\ Booked(Stopped(State, a)) = Book!Without(Agenda, a)
<1>1. PICK st : st = Stopped(State, a)
  OBVIOUS
<1>2. st.links = Removed(links, a) /\ st.time = time
  BY <1>1 DEF Stopped, State
<1>3. InRing(st.links) = InRing(links) \ {a} /\ Ranked(st.links, rank)
  BY <1>2, RemovedRing
<1>4. st \in Lists
  <2>1. st.links \in Links
    BY <1>3 DEF Ranked
  <2> QED BY <1>1, <1>2, <2>1 DEF Lists, Stopped, State
<1>5. Agenda = [b \in InRing(links) |-> time[b]]
  BY Mapping
<1> QED BY <1>1, <1>2, <1>3, <1>4, <1>5 DEF KeepsRanks, Booked, Book!Without

LEMMA EditKeeps ==
  ASSUME NEW rank, Ranked(links, rank), time \in [Alarm -> Int], nticks \in Nat,
         NEW st \in Edits(State)
  PROVE  /\ \E higher : KeepsRanks(st, rank, higher)
         /\ Booked(st) \in Book!Edited(Agenda)
<1>1. DOMAIN Agenda = InRing(links)
  BY Mapping
<1>2. State.links = links
  BY DEF State
<1>3. CASE \E a \in Alarm \ InRing(links), n \in Intervals : st = Started(State, a, n)
  <2>1. PICK a \in Alarm \ InRing(links), n \in Intervals : st = Started(State, a, n)
    BY <1>3
  <2>2. Booked(st) = Book!With(Agenda, a, nticks + n + 1)
    BY <2>1, StartKeeps
  <2> QED BY <1>1, <2>1, <2>2, StartKeeps DEF Book!Edited
<1>4. CASE \E a \in InRing(links) : st = Stopped(State, a)
  <2>1. PICK a \in InRing(links) : st = Stopped(State, a)
    BY <1>4
  <2>2. Booked(st) = Book!Without(Agenda, a)
    BY <2>1, StopKeeps
  <2> QED BY <1>1, <2>1, <2>2, StopKeeps DEF Book!Edited
<1> QED BY <1>2, <1>3, <1>4 DEF Edits, InRing

(* A callback, and what the alarm makes of its result.                        *)
CalledBack(ac, st, higher, again) ==
  /\ ac \in Lists /\ Ranked(ac.links, higher)
  /\ InRing(ac.links) = IF again = 0 THEN InRing(st.links) \ {alarm} ELSE InRing(st.links)
  /\ \A b \in Alarm \ {alarm} : ac.time[b] = st.time[b]
  /\ Booked(ac) = Book!Called(Booked(st), alarm, again)

LEMMA CallKeeps ==
  ASSUME NEW rank, NEW higher, NEW st, KeepsRanks(st, rank, higher),
         NEW again \in Intervals \cup {0}, alarm \in Alarm
  PROVE  CalledBack(AfterCall(st, again), st, higher, again)
<1>1. st \in Lists /\ Ranked(st.links, higher) /\ st.time \in [Alarm -> Int]
  BY DEF KeepsRanks, Lists
<1>2. PICK ac : ac = AfterCall(st, again)
  OBVIOUS
<1>3. DOMAIN Booked(st) = InRing(st.links)
  BY DEF Booked
<1>4. CASE again = 0
  <2>1. ac.links = Removed(st.links, alarm) /\ ac.time = st.time
    BY <1>1, <1>2, <1>4 DEF AfterCall, Stopped, Lists
  <2>2. Ranked(ac.links, higher) /\ InRing(ac.links) = InRing(st.links) \ {alarm}
    <3>1. CASE alarm \in InRing(st.links)
      BY <1>1, <2>1, <3>1, RemovedRing
    <3>2. CASE alarm \notin InRing(st.links)
      BY <1>1, <2>1, <3>2, RemovedTwice
    <3> QED BY <3>1, <3>2
  <2>3. ac \in Lists
    <3>1. ac.links \in Links
      BY <2>2 DEF Ranked
    <3> QED BY <1>1, <1>2, <1>4, <3>1 DEF AfterCall, Stopped, Lists
  <2>4. Booked(ac) = Book!Called(Booked(st), alarm, again)
    BY <1>3, <1>4, <2>1, <2>2 DEF Booked, Book!Called, Book!Without
  <2> QED BY <1>2, <1>4, <2>1, <2>2, <2>3, <2>4 DEF CalledBack
<1>5. CASE again # 0
  <2>1. again \in Nat
    BY <1>5, AlarmAssumption
  <2>2. /\ ac.links = st.links
        /\ ac.time = [st.time EXCEPT ![alarm] = st.time[alarm] + again]
    BY <1>1, <1>2, <1>5 DEF AfterCall, Lists
  <2>3. ac.time \in [Alarm -> Int]
    BY <1>1, <2>1, <2>2
  <2>4. ac \in Lists
    BY <1>1, <1>2, <1>5, <2>3 DEF AfterCall, Lists
  <2>5. /\ ac.time[alarm] = st.time[alarm] + again
        /\ \A b \in Alarm \ {alarm} : ac.time[b] = st.time[b]
    BY <1>1, <2>2
  <2>6. Booked(ac) = Book!Called(Booked(st), alarm, again)
    <3>1. CASE alarm \in InRing(st.links)
      <4>1. InRing(st.links) \cup {alarm} = InRing(st.links)
        BY <3>1
      <4>2. \A b \in InRing(st.links) :
              ac.time[b] = IF b = alarm THEN Booked(st)[alarm] + again ELSE Booked(st)[b]
        BY <2>5, <3>1 DEF Booked, InRing
      <4>3. Book!Called(Booked(st), alarm, again) =
              [b \in InRing(st.links) |->
                 IF b = alarm THEN Booked(st)[alarm] + again ELSE Booked(st)[b]]
        BY <1>3, <1>5, <3>1, <4>1 DEF Book!Called, Book!With
      <4> QED BY <2>2, <4>2, <4>3 DEF Booked
    <3>2. CASE alarm \notin InRing(st.links)
      <4>1. Book!Called(Booked(st), alarm, again) = Booked(st)
        BY <1>3, <3>2 DEF Book!Called, Book!Without, Booked
      <4>2. \A b \in InRing(st.links) : ac.time[b] = st.time[b]
        BY <2>5, <3>2 DEF InRing
      <4> QED BY <2>2, <4>1, <4>2 DEF Booked
    <3> QED BY <3>1, <3>2
  <2> QED BY <1>1, <1>2, <1>5, <2>2, <2>4, <2>5, <2>6 DEF CalledBack
<1> QED BY <1>4, <1>5

LEMMA CallStep ==
  ASSUME ListInv, Ticking, Ticking', Visit, Due(alarm)
  PROVE  ListInv' /\ Book!Call(alarm)
<1>1. PICK rank : Ranked(links, rank)
  BY DEF ListInv
<1>2. /\ alarm \in InRing(links) /\ alarm \in Ring(links) /\ alarm \in Alarm
      /\ nticks \in Nat /\ time \in [Alarm -> Int] /\ nticks' = nticks
  BY DEF ListInv, Visit, Ring, InRing
<1>3. PICK n : n = links.next[alarm] /\ alarm' = n
  BY DEF Visit
<1>0. PICK st \in {State} \cup Edits(State), again \in Intervals \cup {0} :
        (n = Head \/ Linked(st.links, n)) /\ Become(AfterCall(st, again))
  BY <1>3 DEF Visit
<1>4. /\ n \in Ring(links) /\ rank[n] < rank[alarm] /\ n # alarm
      /\ \A b \in InRing(links) : rank[b] < rank[alarm] => rank[b] <= rank[n]
      /\ \A b \in InRing(links) : rank[b] = rank[alarm] => b = alarm
      /\ \A e \in Ring(links) : rank[e] \in Nat
  <2>1. n \in Ring(links) /\ rank[n] < rank[alarm]
    BY <1>1, <1>2, <1>3 DEF Ranked
  <2>2. \A e \in Ring(links) : rank[e] \in Nat
    BY <1>1, HopFalls
  <2> QED BY <1>1, <1>2, <1>3, <2>1, <2>2 DEF Ranked
<1>5. PICK higher : KeepsRanks(st, rank, higher)
  BY <1>1, <1>2, StateIs, EditKeeps
<1>6. Booked(st) \in {Agenda} \cup Book!Edited(Agenda)
  BY <1>1, <1>2, StateIs, EditKeeps
<1>7. PICK ac : ac = AfterCall(st, again)
  OBVIOUS
<1>8. /\ ac \in Lists /\ Ranked(ac.links, higher)
      /\ InRing(ac.links) =
           IF again = 0 THEN InRing(st.links) \ {alarm} ELSE InRing(st.links)
      /\ \A b \in Alarm \ {alarm} : ac.time[b] = st.time[b]
      /\ Booked(ac) = Book!Called(Booked(st), alarm, again)
  <2>1. CalledBack(ac, st, higher, again)
    BY <1>2, <1>5, <1>7, CallKeeps
  <2> QED BY <2>1 DEF CalledBack
<1>9. links' = ac.links /\ time' = ac.time
  BY <1>0, <1>7 DEF Become
<1>10. n \in Ring(st.links) /\ n \in Ring(ac.links)
  BY <1>0, <1>4, <1>8 DEF Ring, InRing
<1>11. Ring(links)' = Ring(links') /\ alarm' \in Ring(links')
  BY <1>3, <1>9, <1>10 DEF Ring, InRing
<1>12. ListInv'
  BY <1>2, <1>8, <1>9, <1>11 DEF ListInv, Lists, Ranked, Ring, InRing
<1>13. Agenda' = Booked(ac)
  BY <1>8, <1>9, MappingNext DEF Booked
<1>14. Owed' = {b \in InRing(ac.links) : higher[b] <= higher[n] /\ ac.time[b] <= nticks}
  BY <1>2, <1>3, <1>8, <1>9, <1>11, MappingNext
<1>15. Owed = {b \in InRing(links) : rank[b] <= rank[alarm] /\ time[b] <= nticks}
  BY <1>1, <1>2, Mapping
<1>16. /\ DOMAIN Agenda' = InRing(ac.links)
       /\ \A b \in InRing(ac.links) : Agenda'[b] = ac.time[b]
  BY <1>13 DEF Booked
<1>17. ASSUME NEW b \in InRing(ac.links)
       PROVE  higher[b] <= higher[n] /\ ac.time[b] <= nticks
                <=> b \in Owed \ {alarm} /\ ac.time[b] <= nticks
  <2>1. b \in InRing(st.links) /\ b \in Alarm /\ b \in Ring(st.links)
    BY <1>8 DEF InRing, Ring
  <2>2. higher[n] = rank[n]
    BY <1>4, <1>5, <1>10 DEF KeepsRanks
  <2>3. CASE b \in InRing(links)
    <3>1. b \in Ring(links) /\ higher[b] = rank[b] /\ st.time[b] = time[b]
      BY <1>5, <2>1, <2>3 DEF KeepsRanks, Ring
    <3>2. b # alarm => ac.time[b] = time[b]
      BY <1>8, <2>1, <3>1
    <3>3. b # alarm => (rank[b] <= rank[n] <=> rank[b] <= rank[alarm])
      BY <1>2, <1>4, <2>3, <3>1
    <3>4. b = alarm => ~(rank[b] <= rank[n])
      BY <1>2, <1>4
    <3> QED BY <1>15, <2>2, <2>3, <3>1, <3>2, <3>3, <3>4
  <2>4. CASE b \notin InRing(links)
    <3>1. higher[n] < higher[b]
      BY <1>4, <1>5, <1>10, <2>1, <2>4 DEF KeepsRanks
    <3>2. higher[n] \in Nat /\ higher[b] \in Nat
      BY <1>5, <1>10, <2>1, HopFalls DEF KeepsRanks
    <3> QED BY <1>15, <2>4, <3>1, <3>2
  <2> QED BY <2>3, <2>4
<1>18. Owed' = {b \in Owed \ {alarm} : b \in DOMAIN Agenda' /\ Agenda'[b] <= nticks}
  <2>1. \A b \in Owed' :
           b \in Owed \ {alarm} /\ b \in DOMAIN Agenda' /\ Agenda'[b] <= nticks
    BY <1>14, <1>16, <1>17
  <2>2. \A b \in Owed \ {alarm} :
           b \in DOMAIN Agenda' /\ Agenda'[b] <= nticks => b \in Owed'
    BY <1>14, <1>16, <1>17
  <2> QED BY <2>1, <2>2
<1>19. alarm \in Owed
  BY <1>2, <1>4, <1>15 DEF Due
<1>20. Agenda' = Book!Called(Booked(st), alarm, again)
  BY <1>8, <1>13
<1> QED BY <1>2, <1>6, <1>12, <1>18, <1>19, <1>20 DEF Book!Call

(* An alarm that is not due is passed over: the book does not change.         *)
LEMMA PassStep ==
  ASSUME ListInv, Ticking, Ticking', Visit, ~Due(alarm)
  PROVE  ListInv' /\ Agenda' = Agenda /\ Owed' = Owed /\ nticks' = nticks
<1>1. PICK rank : Ranked(links, rank)
  BY DEF ListInv
<1>2. /\ alarm \in InRing(links) /\ alarm \in Ring(links) /\ time \in [Alarm -> Int]
      /\ alarm' = links.next[alarm] /\ links' = links /\ time' = time /\ nticks' = nticks
  BY DEF ListInv, Visit, Ring, InRing
<1>3. /\ alarm' \in Ring(links) /\ rank[alarm'] < rank[alarm]
      /\ \A b \in InRing(links) : rank[b] < rank[alarm] => rank[b] <= rank[alarm']
      /\ \A b \in InRing(links) : rank[b] = rank[alarm] => b = alarm
  BY <1>1, <1>2 DEF Ranked
<1>4. \A e \in Ring(links) : rank[e] \in Nat
  BY <1>1, HopFalls
<1>5. Owed = {b \in InRing(links) : rank[b] <= rank[alarm] /\ time[b] <= nticks}
  BY <1>1, <1>2, Mapping
<1>6. Ring(links') = Ring(links) /\ InRing(links') = InRing(links) /\ Ranked(links', rank)
  BY <1>1, <1>2
<1>7. Owed' = {b \in InRing(links) : rank[b] <= rank[alarm'] /\ time[b] <= nticks}
  BY <1>2, <1>3, <1>6, MappingNext
<1>8. ASSUME NEW b \in InRing(links), time[b] <= nticks
      PROVE  rank[b] <= rank[alarm] <=> rank[b] <= rank[alarm']
  <2>1. b # alarm
    BY <1>8 DEF Due
  <2>2. b \in Ring(links)
    BY DEF Ring
  <2> QED BY <1>2, <1>3, <1>4, <2>1, <2>2
<1>9. Owed' = Owed
  BY <1>5, <1>7, <1>8
<1>10. Agenda' = Agenda
  BY <1>1, <1>2, <1>6, Mapping, MappingNext
<1>11. ListInv'
  BY <1>2, <1>3, <1>6 DEF ListInv, Ring, InRing
<1> QED BY <1>2, <1>9, <1>10, <1>11

(* The tick makes the walk begin at the first alarm: all that are due are     *)
(* still in front of it.                                                      *)
LEMMA TickStep ==
  ASSUME ListInv, AltTick
  PROVE  ListInv' /\ Book!Tick
<1>1. PICK rank : Ranked(links, rank)
  BY DEF ListInv
<1>2. /\ ~Ticking /\ Ticking' /\ nticks \in Nat /\ nticks' = nticks + 1
      /\ alarm' = links.next[Head] /\ links' = links /\ time' = time
      /\ time \in [Alarm -> Int]
  BY DEF ListInv, AltTick, TickBegin, Ticking
<1>3. /\ alarm' \in Ring(links) /\ \A b \in InRing(links) : rank[b] <= rank[alarm']
  BY <1>1, <1>2 DEF Ranked, Ring
<1>4. Ring(links') = Ring(links) /\ InRing(links') = InRing(links) /\ Ranked(links', rank)
  BY <1>1, <1>2
<1>5. Agenda = [b \in InRing(links) |-> time[b]] /\ Agenda' = Agenda
  BY <1>1, <1>2, <1>4, Mapping, MappingNext
<1>6. Owed' = {b \in InRing(links) : time[b] <= nticks'}
  BY <1>2, <1>3, <1>4, MappingNext
<1>7. Owed' = {b \in DOMAIN Agenda : Agenda[b] <= nticks'}
  BY <1>5, <1>6
<1>8. ListInv'
  BY <1>2, <1>3, <1>4 DEF ListInv, Ring, InRing
<1> QED BY <1>2, <1>5, <1>7, <1>8 DEF Book!Tick

(* At the head nobody is left.                                                *)
LEMMA ReturnStep ==
  ASSUME ListInv, IsrReturn
  PROVE  ListInv' /\ Book!TickDone
<1>1. PICK rank : Ranked(links, rank)
  BY DEF ListInv
<1>2. /\ Ticking /\ ~Ticking' /\ alarm = Head /\ nticks' = nticks
      /\ links' = links /\ time' = time /\ alarm' = alarm
      /\ nticks \in Nat /\ time \in [Alarm -> Int]
  BY DEF ListInv, IsrReturn, listVars, Ticking
<1>3. Owed = {b \in InRing(links) : rank[b] <= rank[Head] /\ time[b] <= nticks}
  BY <1>1, <1>2, Mapping DEF Ring
<1>4. \A b \in InRing(links) : ~(rank[b] <= rank[Head])
  <2>1. \A e \in Ring(links) : rank[e] \in Nat
    BY <1>1, HopFalls
  <2>2. rank[Head] = 0 /\ \A b \in InRing(links) : rank[b] > 0 /\ b \in Ring(links)
    BY <1>1 DEF Ranked, Ring
  <2> QED BY <2>1, <2>2
<1>5. Owed = {} /\ Owed' = {}
  BY <1>2, <1>3, <1>4 DEF Owed
<1>6. Agenda' = Agenda
  BY <1>1, <1>2, Mapping, MappingNext
<1>7. ListInv'
  BY <1>1, <1>2 DEF ListInv, Ranked, Ring, InRing
<1> QED BY <1>2, <1>5, <1>6, <1>7 DEF Book!TickDone

(* The program starts or stops an alarm between two ticks.                    *)
LEMMA ProgramStep ==
  ASSUME ListInv, ProgramAlarms
  PROVE  ListInv' /\ Book!Edit
<1>1. PICK rank : Ranked(links, rank)
  BY DEF ListInv
<1>2. /\ ~Ticking /\ ~Ticking' /\ nticks' = nticks /\ nticks \in Nat
      /\ time \in [Alarm -> Int]
  BY DEF ListInv, ProgramAlarms, StartOrStop, Ticking, clockVars
<1>3. PICK st \in Edits(State) : links' = st.links /\ time' = st.time
  BY DEF ProgramAlarms, StartOrStop, Become
<1>4. PICK higher : KeepsRanks(st, rank, higher)
  BY <1>1, <1>2, EditKeeps
<1>5. Booked(st) \in Book!Edited(Agenda)
  BY <1>1, <1>2, EditKeeps
<1>6. Ranked(links', higher) /\ time' \in [Alarm -> Int]
  BY <1>3, <1>4 DEF KeepsRanks, Lists
<1>7. Agenda' = Booked(st)
  BY <1>3, <1>6, MappingNext DEF Booked
<1>8. Owed = {} /\ Owed' = {}
  BY <1>2 DEF Owed
<1>9. ListInv'
  BY <1>2, <1>6 DEF ListInv, Ranked, Ring, InRing
<1>10. Agenda' \in Book!Edited(Agenda)
  BY <1>5, <1>7
<1>11. Ticking' = Ticking
  BY <1>2 DEF Ticking
<1>12. nticks' = nticks /\ Owed' = Owed
  BY <1>2, <1>8
<1>13. UNCHANGED <<nticks, Ticking, Owed>>
  BY <1>11, <1>12, Zenon
<1>14. Book!Edit
  BY <1>2, <1>10, <1>13, Zenon DEF Book!Edit
<1> QED BY <1>9, <1>14

(* Any other step leaves the list alone.                                      *)
LEMMA OtherStep ==
  ASSUME ListInv, UNCHANGED listVars, Ticking' = Ticking
  PROVE  ListInv' /\ UNCHANGED Book!vars
<1>1. PICK rank : Ranked(links, rank)
  BY DEF ListInv
<1>2. links' = links /\ time' = time /\ nticks' = nticks /\ alarm' = alarm
  BY DEF listVars
<1>3. Ranked(links', rank) /\ Ring(links') = Ring(links) /\ InRing(links') = InRing(links)
  BY <1>1, <1>2
<1>4. Agenda' = Agenda
  BY <1>1, <1>2, <1>3, Mapping, MappingNext
<1>5. Owed' = Owed
  <2>1. CASE Ticking
    BY <1>1, <1>2, <1>3, <2>1, Mapping, MappingNext DEF ListInv
  <2>2. CASE ~Ticking
    BY <2>2 DEF Owed
  <2> QED BY <2>1, <2>2
<1>6. ListInv'
  BY <1>2 DEF ListInv, Ranked, Ring, InRing
<1> QED BY <1>2, <1>4, <1>5, <1>6 DEF Book!vars

LEMMA BookStep == ListInv /\ [Next]_vars => ListInv' /\ [Book!Next]_(Book!vars)
<1> SUFFICES ASSUME ListInv, [Next]_vars PROVE ListInv' /\ [Book!Next]_(Book!vars)
  OBVIOUS
<1>1. CASE Walk
  <2>1. Ticking /\ Ticking' /\ Visit /\ alarm \in Alarm
    BY <1>1 DEF Walk, Visit, clockVars, Ticking, ListInv, Ring, InRing
  <2>2. CASE Due(alarm)
    BY <2>1, <2>2, CallStep DEF Book!Next
  <2>3. CASE ~Due(alarm)
    BY <2>1, <2>3, PassStep DEF Book!vars
  <2> QED BY <2>2, <2>3
<1>2. CASE AltTick
  BY <1>2, TickStep DEF Book!Next
<1>3. CASE IsrReturn
  BY <1>3, ReturnStep DEF Book!Next
<1>4. CASE ProgramAlarms
  BY <1>4, ProgramStep DEF Book!Next
<1>5. CASE \/ Elapse \/ TimerInterrupt \/ ReadHigh \/ ReadLow \/ ReadAgain
           \/ LoadFirst \/ LoadSecond \/ GetTimeOfDay
           \/ (\E t \in Settings : SetTimeOfDay(t)) \/ UNCHANGED vars
  <2>1. UNCHANGED listVars /\ Ticking' = Ticking
    BY <1>5 DEF Elapse, TimerInterrupt, ReadHigh, ReadLow, ReadAgain, LoadFirst, LoadSecond,
       GetTimeOfDay, SetTimeOfDay, vars, clockVars, listVars, Ticking
  <2> QED BY <2>1, OtherStep
<1> QED BY <1>1, <1>2, <1>3, <1>4, <1>5 DEF Next

LEMMA BookInit == Init => ListInv /\ Book!Init
<1> SUFFICES ASSUME Init PROVE ListInv /\ Book!Init
  OBVIOUS
<1>1. /\ links = [next |-> [e \in Entry |-> e], previous |-> [e \in Entry |-> e]]
      /\ time = [a \in Alarm |-> 0] /\ nticks = 0 /\ ~Ticking
  BY DEF Init, ListInit, Ticking
<1>2. PICK rank : rank = [e \in Entry |-> 0]
  OBVIOUS
<1>3. InRing(links) = {} /\ Ring(links) = {Head} /\ Head \in Entry
  BY <1>1 DEF InRing, Ring, Linked, Entry
<1>4. Ranked(links, rank)
  BY <1>1, <1>2, <1>3 DEF Ranked, Links, Entry
<1>5. Agenda = << >>
  <2>1. Agenda = [b \in {} |-> time[b]]
    BY <1>3, <1>4, Mapping
  <2> QED BY <2>1
<1>6. Owed = {}
  BY <1>1 DEF Owed
<1>7. ListInv
  BY <1>1, <1>4 DEF ListInv
<1> QED BY <1>1, <1>5, <1>6, <1>7 DEF Book!Init

(* However callbacks and program change the list, the list of alarms keeps    *)
(* the book of them (alt_tick, alt_alarm_start, alt_alarm_stop).              *)
THEOREM AlarmsAreBooked == Spec => ImplementsAlarmBook
BY BookInit, BookStep, PTL DEF Spec, ImplementsAlarmBook, Book!Spec

-----------------------------------------------------------------------------
(* What an entry of the pool may be.                                          *)
AllFlags == {"WRONLY", "RDWR", "APPEND", "NONBLOCK", "EXCL", "DEV"}
Entries == [dev : Device \cup FileSystem \cup {Nothing}, flags : SUBSET AllFlags]

(* What the pool keeps of each descriptor f: a free one carries no flags and  *)
(* is not a standard stream; one in use is below the high-water mark, unless  *)
(* it is a stream that has not been redirected; only a device is marked as    *)
(* one, and held, and not before the program runs.                            *)
Sound(f, entry, mark, done) ==
  /\ entry.dev = Nothing => entry.flags = {} /\ f \notin Std
  /\ \/ entry.dev = Nothing \/ f <= mark
     \/ f \in Std /\ "DEV" \notin entry.flags
  /\ "DEV" \in entry.flags => entry.dev \in Device
  /\ "EXCL" \in entry.flags => "DEV" \in entry.flags /\ done = 3

IInv ==
  /\ alt_max_fd \in Int /\ redirected \in 0 .. 3
  /\ alt_fd_list \in [Fd -> Entries]
  /\ \A f \in Fd : Sound(f, alt_fd_list[f], alt_max_fd, redirected)

(* A step keeps the invariant if the mark only rises and each entry it        *)
(* changes is sound.                                                          *)
LEMMA SoundStep ==
  ASSUME IInv,
         alt_max_fd' \in Int, alt_max_fd <= alt_max_fd',
         redirected' \in 0 .. 3, redirected <= redirected',
         alt_fd_list' \in [Fd -> Entries],
         \A f \in Fd : \/ alt_fd_list'[f] = alt_fd_list[f]
                       \/ Sound(f, alt_fd_list'[f], alt_max_fd', redirected')
  PROVE  IInv'
<1>1. ASSUME NEW f \in Fd
      PROVE  Sound(f, alt_fd_list'[f], alt_max_fd', redirected')
  <2>1. CASE alt_fd_list'[f] = alt_fd_list[f]
    <3>1. f \in Int
      BY FilesAssumption DEF Fd
    <3> QED BY <2>1, <3>1 DEF IInv, Sound
  <2> QED BY <2>1
<1> QED BY <1>1 DEF IInv

(* The pool starts with three streams on alt_dev_null.                        *)
LEMMA InitIInv == FilesInit => IInv
  BY FilesAssumption
  DEF FilesInit, IInv, Sound, Entries, AllFlags, Free, Fd, Std

(* Descriptors that a call may take are no streams, and the mark covers them. *)
LEMMA FreeFacts ==
  ASSUME IInv, NEW index \in FirstFree
  PROVE  /\ index \in Fd /\ index \notin Std /\ index \notin InUse
         /\ HighWater(index) \in Int
         /\ alt_max_fd <= HighWater(index) /\ index <= HighWater(index)
         /\ \A f \in Std : f <= HighWater(index)
  BY FilesAssumption DEF IInv, Sound, FirstFree, InUse, Fd, Std, HighWater

(* What open leaves in a descriptor, and what releasing it leaves, is sound.  *)
LEMMA FreeIsSound ==
  ASSUME NEW f \in Fd \ Std, NEW mark, NEW done
  PROVE  Free \in Entries /\ Sound(f, Free, mark, done)
  BY DEF Sound, Entries, Free, AllFlags

LEMMA OpenedIsSound ==
  ASSUME NEW dev \in Device \cup FileSystem, NEW flags \in SUBSET AllFlags,
         NEW f \in Fd, NEW mark \in Int, NEW done, f <= mark
  PROVE  OpenedAs(dev, flags) \in Entries /\ Sound(f, OpenedAs(dev, flags), mark, done)
<1>1. OpenedAs(dev, flags) \in Entries
  BY DEF OpenedAs, Entries, AllFlags, ALT_FD_FLAGS_MASK
<1>2. OpenedAs(dev, flags).dev = dev /\ dev # Nothing
  BY FilesAssumption DEF OpenedAs
<1>3. /\ "DEV" \in OpenedAs(dev, flags).flags => dev \in Device
      /\ "EXCL" \notin OpenedAs(dev, flags).flags
  BY DEF OpenedAs, ALT_FD_FLAGS_MASK
<1> QED BY <1>1, <1>2, <1>3 DEF Sound

(* Opening, refused or not, keeps the invariant.                              *)
LEMMA OpenIInv == IInv /\ Open /\ UNCHANGED redirected => IInv'
<1> SUFFICES ASSUME IInv, Open, UNCHANGED redirected PROVE IInv'
  OBVIOUS
<1>1. CASE OpenFindsNothing
  BY <1>1, SoundStep DEF OpenFindsNothing, IInv
<1>2. ASSUME NEW index \in FirstFree, OpenRefused(index) PROVE IInv'
  <2>1. index \in Fd \ Std /\ Free \in Entries
        /\ Sound(index, Free, alt_max_fd', redirected')
    BY FreeFacts, FreeIsSound
  <2>2. alt_fd_list' = [alt_fd_list EXCEPT ![index] = Free]
    BY <1>2, <2>1 DEF OpenRefused, Released
  <2>3. alt_max_fd' \in Int /\ alt_max_fd <= alt_max_fd'
    BY <1>2, FreeFacts DEF OpenRefused
  <2> QED BY <2>1, <2>2, <2>3, SoundStep DEF IInv
<1>3. ASSUME NEW index \in FirstFree, NEW dev \in Device \cup FileSystem,
             NEW flags \in Modes, OpenSucceeds(index, dev, flags)
      PROVE  IInv'
  <2>1. /\ index \in Fd /\ alt_max_fd' \in Int
        /\ alt_max_fd <= alt_max_fd' /\ index <= alt_max_fd'
    BY <1>3, FreeFacts DEF OpenSucceeds
  <2>2. /\ OpenedAs(dev, flags) \in Entries
        /\ Sound(index, OpenedAs(dev, flags), alt_max_fd', redirected')
    BY <2>1, OpenedIsSound, FilesAssumption DEF AllFlags
  <2>3. alt_fd_list' = [alt_fd_list EXCEPT ![index] = OpenedAs(dev, flags)]
    BY <1>3 DEF OpenSucceeds
  <2> QED BY <2>1, <2>2, <2>3, SoundStep DEF IInv
<1> QED BY <1>1, <1>2, <1>3 DEF Open

(* A close releases a descriptor that is no stream, and leaves a stream.      *)
LEMMA CloseIInv ==
  ASSUME IInv, NEW f \in InUse, Close(f), UNCHANGED redirected
  PROVE  IInv'
<1>1. f \in Fd
  BY DEF InUse
<1>2. CASE f \in Std
  BY <1>1, <1>2, SoundStep DEF Close, Released, IInv
<1>3. CASE f \notin Std
  <2>1. Free \in Entries /\ Sound(f, Free, alt_max_fd', redirected')
    BY <1>1, <1>3, FreeIsSound
  <2> QED BY <1>1, <1>3, <2>1, SoundStep DEF Close, Released, IInv
<1> QED BY <1>2, <1>3

(* Changing the flags of an open descriptor keeps its entry sound as long as  *)
(* its kind stays and only a device is held.                                  *)
LEMMA FlagsIInv ==
  ASSUME IInv, NEW f \in InUse, NEW flags \in SUBSET AllFlags,
         alt_fd_list' = [alt_fd_list EXCEPT ![f].flags = flags],
         "DEV" \in flags <=> "DEV" \in alt_fd_list[f].flags,
         "EXCL" \in flags => "DEV" \in flags /\ redirected = 3,
         UNCHANGED <<alt_max_fd, redirected>>
  PROVE  IInv'
<1>1. f \in Fd /\ alt_fd_list[f] \in Entries /\ alt_fd_list[f].dev # Nothing
  BY DEF InUse, IInv
<1>2. /\ alt_fd_list'[f].dev = alt_fd_list[f].dev /\ alt_fd_list'[f].flags = flags
      /\ alt_fd_list' \in [Fd -> Entries]
      /\ \A e \in Fd \ {f} : alt_fd_list'[e] = alt_fd_list[e]
  BY <1>1 DEF IInv, Entries
<1>3. Sound(f, alt_fd_list'[f], alt_max_fd', redirected')
  BY <1>1, <1>2 DEF IInv, Sound
<1> QED BY <1>1, <1>2, <1>3, SoundStep DEF IInv

(* So does every call of a program.                                           *)
LEMMA ProgramIInv == IInv /\ Program => IInv'
<1> SUFFICES ASSUME IInv, Program PROVE IInv'
  OBVIOUS
<1>1. CASE Open
  BY <1>1, OpenIInv DEF Program
<1>2. ASSUME NEW f \in InUse, Close(f) PROVE IInv'
  BY <1>2, CloseIInv DEF Program
<1>3. CASE UNCHANGED <<alt_fd_list, alt_max_fd>>
  BY <1>3, SoundStep DEF Program, IInv
<1>4. ASSUME NEW f \in InUse PROVE /\ f \in Fd /\ alt_fd_list[f] \in Entries
                                  /\ alt_fd_list[f].flags \in SUBSET AllFlags
                                  /\ Sound(f, alt_fd_list[f], alt_max_fd, redirected)
  BY DEF InUse, IInv, Entries
<1>5. ASSUME NEW f \in InUse, NEW flags \in Modes, SetFlags(f, flags) PROVE IInv'
  <2> DEFINE new == (alt_fd_list[f].flags \ ALT_FCNTL_FLAGS_MASK)
                      \cup (flags \cap ALT_FCNTL_FLAGS_MASK)
  <2>1. new \in SUBSET AllFlags
    BY <1>4, FilesAssumption DEF AllFlags
  <2>2. /\ "DEV" \in new <=> "DEV" \in alt_fd_list[f].flags
        /\ "EXCL" \in new <=> "EXCL" \in alt_fd_list[f].flags
    BY DEF ALT_FCNTL_FLAGS_MASK
  <2>3. alt_fd_list' = [alt_fd_list EXCEPT ![f].flags = new]
    BY <1>5 DEF SetFlags
  <2> HIDE DEF new
  <2> QED BY <1>4, <1>5, <2>1, <2>2, <2>3, FlagsIInv DEF SetFlags, Program, Sound
<1>6. ASSUME NEW f \in InUse, Lock(f) PROVE IInv'
  <2> DEFINE new == alt_fd_list[f].flags \cup {"EXCL"}
  <2>1. /\ new \in SUBSET AllFlags /\ "DEV" \in new
        /\ "DEV" \in alt_fd_list[f].flags
    BY <1>4, <1>6 DEF AllFlags, Lock
  <2>2. CASE alt_fd_list' = alt_fd_list
    BY <1>3, <1>6, <2>2 DEF Lock
  <2>3. CASE alt_fd_list' = [alt_fd_list EXCEPT ![f].flags = new]
    <3> HIDE DEF new
    <3> QED BY <1>4, <1>6, <2>1, <2>3, FlagsIInv DEF Lock, Program
  <2> QED BY <1>6, <2>2, <2>3 DEF Lock
<1>7. ASSUME NEW f \in InUse, Unlock(f) PROVE IInv'
  <2> DEFINE new == alt_fd_list[f].flags \ {"EXCL"}
  <2>1. /\ new \in SUBSET AllFlags /\ "EXCL" \notin new
        /\ "DEV" \in new <=> "DEV" \in alt_fd_list[f].flags
    BY <1>4 DEF AllFlags
  <2>2. alt_fd_list' = [alt_fd_list EXCEPT ![f].flags = new]
    BY <1>7 DEF Unlock
  <2> HIDE DEF new
  <2> QED BY <1>4, <1>7, <2>1, <2>2, FlagsIInv DEF Unlock, Program
<1> QED BY <1>1, <1>2, <1>3, <1>5, <1>6, <1>7 DEF Program, Transfer, DriverIoctl

(* A stream that alt_main redirects is on the console as a descriptor is that *)
(* open returned, below the mark of the one it was copied from.               *)
LEMMA RedirectIInv == IInv /\ AltIoRedirect => IInv'
<1> SUFFICES ASSUME IInv, AltIoRedirect PROVE IInv'
  OBVIOUS
<1>1. redirected' \in 0 .. 3 /\ redirected <= redirected'
  BY DEF AltIoRedirect, IInv
<1>2. ASSUME NEW index \in FirstFree, NEW f \in Std,
             NEW flags \in {{}, {"WRONLY"}}, Redirected(index, f, flags)
      PROVE  IInv'
  <2>1. /\ index \in Fd \ Std /\ Free \in Entries
        /\ Sound(index, Free, alt_max_fd', redirected')
    BY FreeFacts, FreeIsSound
  <2>2. f \in Fd /\ f <= alt_max_fd' /\ alt_max_fd' \in Int /\ alt_max_fd <= alt_max_fd'
    BY <1>2, FreeFacts, FilesAssumption DEF Redirected, Fd, Std
  <2>3. /\ OpenedAs(Console, flags) \in Entries
        /\ Sound(f, OpenedAs(Console, flags), alt_max_fd', redirected')
    BY <2>2, OpenedIsSound, FilesAssumption DEF AllFlags
  <2>4. alt_fd_list' =
          [alt_fd_list EXCEPT ![index] = Free, ![f] = OpenedAs(Console, flags)]
    BY <1>2 DEF Redirected
  <2> QED BY <1>1, <2>1, <2>2, <2>3, <2>4, SoundStep DEF IInv
<1>3. CASE NotRedirected
  <2>1. alt_max_fd' \in Int /\ alt_max_fd <= alt_max_fd'
    BY <1>3, FreeFacts DEF NotRedirected, IInv
  <2> QED BY <1>1, <1>3, <2>1, SoundStep DEF NotRedirected, IInv
<1> QED BY <1>2, <1>3 DEF AltIoRedirect, Std

(* The invariant holds in every state, whatever the programs and drivers do.  *)
THEOREM PoolSound == FilesSpec => []IInv
<1>1. IInv /\ [FilesNext]_filesVars => IInv'
  <2> SUFFICES ASSUME IInv, [FilesNext]_filesVars PROVE IInv'
    OBVIOUS
  <2>1. CASE UNCHANGED filesVars
    BY <2>1, SoundStep DEF filesVars, IInv
  <2> QED BY <2>1, RedirectIInv, ProgramIInv DEF FilesNext
<1> QED BY <1>1, InitIInv, PTL DEF FilesSpec
-----------------------------------------------------------------------------
(* The table of files behind a pool: what an entry in use shows is a file.    *)
LEMMA SeenIsFile ==
  ASSUME NEW entry \in Entries, entry.dev # Nothing
  PROVE  Seen(entry) \in Table!File /\ Seen(entry).dev = entry.dev
  BY DEF Seen, Entries, Table!File, AllFlags, ALT_FD_FLAGS_MASK

(* A pool that does not change is the same table.                             *)
LEMMA SameTable ==
  ASSUME alt_fd_list' = alt_fd_list
  PROVE  Files' = Files /\ Holders' = Holders /\ InUse' = InUse
  BY DEF Files, Holders, InUse

(* A change of one entry that stays in use changes one file.                  *)
LEMMA OneEntry ==
  ASSUME IInv, NEW f \in InUse, NEW entry \in Entries, entry.dev # Nothing,
         alt_fd_list' = [alt_fd_list EXCEPT ![f] = entry]
  PROVE  /\ Files' = [Files EXCEPT ![f] = Seen(entry)]
         /\ Holders' = (Holders \ {f}) \cup (IF "EXCL" \in entry.flags THEN {f} ELSE {})
<1>1. /\ f \in Fd /\ alt_fd_list'[f] = entry
      /\ \A e \in Fd \ {f} : alt_fd_list'[e] = alt_fd_list[e]
  BY DEF IInv, InUse
<1>2. InUse' = InUse /\ \A e \in InUse \ {f} : e \in Fd \ {f}
  BY <1>1 DEF InUse
<1>3. Files' = [Files EXCEPT ![f] = Seen(entry)]
  BY <1>1, <1>2 DEF Files, Seen
<1>4. Holders' = (Holders \ {f}) \cup (IF "EXCL" \in entry.flags THEN {f} ELSE {})
  BY <1>1, <1>2 DEF Holders
<1> QED BY <1>3, <1>4

(* Before a program runs no device is held, and the pool is a table.          *)
LEMMA InitRefines == FilesInit => Table!Init
<1> SUFFICES ASSUME FilesInit PROVE Table!Init
  OBVIOUS
<1>1. /\ Std \subseteq Fd /\ alt_dev_null # Nothing
      /\ \A f \in Fd : alt_fd_list[f] = IF f \in Std
                                         THEN [dev |-> alt_dev_null, flags |-> {}]
                                         ELSE [dev |-> Nothing, flags |-> {}]
  BY FilesAssumption DEF FilesInit, Fd, Std, Free
<1>2. InUse = Std /\ \A f \in Std : alt_fd_list[f] = [dev |-> alt_dev_null, flags |-> {}]
  BY <1>1 DEF InUse
<1>3. Files \in [Std -> Table!File]
  BY <1>2, FilesAssumption DEF Files, Seen, Table!File
<1>4. Holders = {}
  BY <1>2 DEF Holders
<1> QED BY <1>3, <1>4 DEF Table!Init, FilesInit

(* A device that the table says is held is found locked below the mark.       *)
LEMMA HeldIsLocked ==
  ASSUME IInv, NEW dev, Table!Held(dev)
  PROVE  Locked(dev)
<1>1. PICK f \in Holders : Files[f].dev = dev
  BY DEF Table!Held
<1>2. /\ f \in Fd /\ alt_fd_list[f].dev = dev /\ "EXCL" \in alt_fd_list[f].flags
      /\ alt_fd_list[f].dev # Nothing
  BY <1>1 DEF Holders, Files, InUse, Seen
<1>3. f <= alt_max_fd
  BY <1>2 DEF IInv, Sound
<1> QED BY <1>2, <1>3 DEF Locked

(* An open that succeeds adds a file for a descriptor that was not open.      *)
LEMMA OpenRefines ==
  ASSUME IInv, NEW index \in FirstFree, NEW dev \in Device \cup FileSystem,
         NEW flags \in Modes, OpenSucceeds(index, dev, flags)
  PROVE  \E file \in Table!File : Table!Open(index, file)
<1> DEFINE entry == OpenedAs(dev, flags)
<1>1. index \in Fd /\ index \notin InUse
  BY FreeFacts
<1>2. /\ entry \in Entries /\ entry.dev = dev /\ entry.dev # Nothing
      /\ "EXCL" \notin entry.flags
  BY FilesAssumption DEF OpenedAs, Entries, AllFlags, ALT_FD_FLAGS_MASK
<1>3. Seen(entry) \in Table!File /\ Seen(entry).dev = dev
  BY <1>2, SeenIsFile
<1>4. /\ alt_fd_list'[index] = entry
      /\ \A e \in Fd \ {index} : alt_fd_list'[e] = alt_fd_list[e]
  BY <1>1 DEF OpenSucceeds, IInv
<1>5. InUse' = InUse \cup {index}
  BY <1>1, <1>2, <1>4 DEF InUse
<1> HIDE DEF entry
<1>6. Files' = [e \in DOMAIN Files \cup {index} |->
                  IF e = index THEN Seen(entry) ELSE Files[e]]
  <2>1. \A e \in InUse : e \in Fd \ {index}
    BY <1>1 DEF InUse
  <2> QED BY <1>4, <1>5, <2>1 DEF Files, Seen
<1>7. Holders' = Holders
  BY <1>1, <1>2, <1>4, <1>5 DEF Holders, InUse
<1>8. Seen(entry).dev \in Device => ~Table!Held(Seen(entry).dev)
  BY <1>3, HeldIsLocked DEF OpenSucceeds
<1> QED BY <1>1, <1>3, <1>6, <1>7, <1>8 DEF Table!Open, OpenSucceeds, Files

(* A close, and an open that is refused, leave no file but the streams.       *)
LEMMA ReleaseRefines ==
  ASSUME IInv, NEW f \in Fd,
         alt_fd_list' = [alt_fd_list EXCEPT ![f] = Released(f)]
  PROVE  /\ Files' = [e \in InUse \ ({f} \ Std) |-> Files[e]]
         /\ Holders' = Holders \ ({f} \ Std)
<1>1. /\ alt_fd_list'[f] = Released(f)
      /\ \A e \in Fd \ {f} : alt_fd_list'[e] = alt_fd_list[e]
  BY DEF IInv
<1>2. InUse' = InUse \ ({f} \ Std)
  BY <1>1 DEF InUse, Released, Free
<1>3. \A e \in InUse \ ({f} \ Std) : e \in Fd /\ alt_fd_list'[e] = alt_fd_list[e]
  BY <1>1 DEF InUse, Released
<1> QED BY <1>2, <1>3 DEF Files, Holders

(* What the invariant and the table say of a descriptor in use.               *)
LEMMA InUseFacts ==
  ASSUME IInv, NEW f \in InUse
  PROVE  /\ f \in Fd /\ f \in DOMAIN Files
         /\ alt_fd_list[f].dev \in Device \cup FileSystem
         /\ alt_fd_list[f].flags \in SUBSET AllFlags
         /\ "DEV" \in alt_fd_list[f].flags => alt_fd_list[f].dev \in Device
         /\ Files[f] = [dev |-> Files[f].dev, flags |-> Files[f].flags]
         /\ Files[f].dev = alt_fd_list[f].dev
         /\ Files[f].flags = alt_fd_list[f].flags \ ALT_FD_FLAGS_MASK
  BY DEF InUse, IInv, Files, Entries, Seen, Sound

(* A change of the flags of a descriptor in use is one of its file.           *)
LEMMA FlagsTable ==
  ASSUME IInv, NEW f \in InUse, NEW flags \in SUBSET AllFlags,
         alt_fd_list' = [alt_fd_list EXCEPT ![f].flags = flags]
  PROVE  /\ Files' = [Files EXCEPT ![f].flags = flags \ ALT_FD_FLAGS_MASK]
         /\ Holders' = (Holders \ {f}) \cup (IF "EXCL" \in flags THEN {f} ELSE {})
<1> DEFINE entry == [dev |-> alt_fd_list[f].dev, flags |-> flags]
<1>1. /\ f \in Fd /\ alt_fd_list[f] \in Entries /\ alt_fd_list[f].dev # Nothing
  BY DEF InUse, IInv
<1>2. entry \in Entries /\ entry.dev # Nothing /\ entry.flags = flags
  BY <1>1 DEF Entries
<1>3. alt_fd_list' = [alt_fd_list EXCEPT ![f] = entry]
  <2>1. [alt_fd_list[f] EXCEPT !.flags = flags] = entry
    BY <1>1 DEF Entries
  <2> QED BY <2>1
<1>4. [Files EXCEPT ![f] = Seen(entry)]
        = [Files EXCEPT ![f].flags = flags \ ALT_FD_FLAGS_MASK]
  <2>1. Seen(entry) = [dev |-> alt_fd_list[f].dev, flags |-> flags \ ALT_FD_FLAGS_MASK]
    BY DEF Seen
  <2>2. [Files[f] EXCEPT !.flags = flags \ ALT_FD_FLAGS_MASK] = Seen(entry)
    <3>1. PICK file : file = Files[f]
      OBVIOUS
    <3>2. file = [dev |-> file.dev, flags |-> file.flags] /\ file.dev = alt_fd_list[f].dev
      BY <3>1, InUseFacts
    <3>3. [file EXCEPT !.flags = flags \ ALT_FD_FLAGS_MASK]
            = [dev |-> file.dev, flags |-> flags \ ALT_FD_FLAGS_MASK]
      BY <3>2
    <3> QED BY <2>1, <3>1, <3>2, <3>3
  <2> HIDE DEF entry
  <2> QED BY <2>2
<1> HIDE DEF entry
<1> QED BY <1>1, <1>2, <1>3, <1>4, OneEntry

(* Every call of a program is an action of the table.                         *)
LEMMA ProgramRefines == IInv /\ Program => Table!Next
<1> SUFFICES ASSUME IInv, Program PROVE Table!Next
  OBVIOUS
<1> DEFINE Calls ==
      \/ Table!Fail \/ Table!Quiet
      \/ \E f \in DOMAIN Files' :
           Files'[f] \in Table!File /\ Table!Open(f, Files'[f])
      \/ \E f \in DOMAIN Files : Table!Close(f) \/ Table!Hold(f) \/ Table!LetGo(f)
      \/ \E f \in DOMAIN Files \cap DOMAIN Files' :
           /\ Files'[f].flags \in SUBSET {"WRONLY", "RDWR", "APPEND", "NONBLOCK"}
           /\ Table!SetFlags(f, Files'[f].flags)
<1>1. SUFFICES Calls
  BY DEF Program, Table!Next
<1>0. DOMAIN Files = InUse
  BY DEF Files
<1>2. CASE UNCHANGED alt_fd_list /\ result' \in {0, -1}
  BY <1>2, SameTable DEF Table!Fail, Table!Quiet
<1>3. CASE Open
  <2>1. CASE OpenFindsNothing
    BY <1>2, <2>1 DEF OpenFindsNothing
  <2>2. ASSUME NEW index \in FirstFree, OpenRefused(index) PROVE Calls
    <3>1. index \in Fd /\ index \notin InUse
      BY FreeFacts
    <3>2. InUse \ ({index} \ Std) = InUse /\ Holders \ ({index} \ Std) = Holders
      BY <3>1 DEF Holders
    <3>3. Files' = [e \in InUse |-> Files[e]] /\ Holders' = Holders
      BY <2>2, <3>1, <3>2, ReleaseRefines DEF OpenRefused
    <3>4. Files' = Files
      BY <3>3 DEF Files
    <3> QED BY <2>2, <3>3, <3>4 DEF OpenRefused, Table!Fail
  <2>3. ASSUME NEW index \in FirstFree, NEW dev \in Device \cup FileSystem,
               NEW flags \in Modes, OpenSucceeds(index, dev, flags)
        PROVE  Calls
    <3>1. PICK file \in Table!File : Table!Open(index, file)
      BY <2>3, OpenRefines
    <3>2. index \in DOMAIN Files' /\ Files'[index] = file
      BY <3>1 DEF Table!Open
    <3> QED BY <3>1, <3>2
  <2> QED BY <1>3, <2>1, <2>2, <2>3 DEF Open
<1>4. ASSUME NEW f \in InUse, Close(f) PROVE Calls
  <2>1. Table!Close(f)
    BY <1>4, ReleaseRefines DEF Close, Table!Close, InUse, Files
  <2> QED BY <2>1, <1>0
<1>5. ASSUME NEW f \in InUse, Transfer(MayRead(alt_fd_list[f].flags))
                              \/ Transfer(MayWrite(alt_fd_list[f].flags)) \/ DriverIoctl
      PROVE  Calls
  BY <1>2, <1>5 DEF Transfer, DriverIoctl
<1>6. ASSUME NEW f \in InUse, NEW flags \in Modes, SetFlags(f, flags) PROVE Calls
  <2> DEFINE old == alt_fd_list[f].flags
             new == (old \ ALT_FCNTL_FLAGS_MASK) \cup (flags \cap ALT_FCNTL_FLAGS_MASK)
             shown == new \ ALT_FD_FLAGS_MASK
  <2>1. new \in SUBSET AllFlags
    BY InUseFacts, FilesAssumption DEF AllFlags
  <2>2. alt_fd_list' = [alt_fd_list EXCEPT ![f].flags = new]
    BY <1>6 DEF SetFlags
  <2>3. "EXCL" \in new <=> "EXCL" \in old
    BY DEF ALT_FCNTL_FLAGS_MASK
  <2>4. shown \in SUBSET {"WRONLY", "RDWR", "APPEND", "NONBLOCK"}
    BY <2>1 DEF AllFlags, ALT_FD_FLAGS_MASK
  <2>5. shown \ {"APPEND", "NONBLOCK"} = Files[f].flags \ {"APPEND", "NONBLOCK"}
    <3>1. Files[f].flags = old \ ALT_FD_FLAGS_MASK
      BY InUseFacts
    <3>2. shown \ {"APPEND", "NONBLOCK"}
            = (old \ ALT_FD_FLAGS_MASK) \ {"APPEND", "NONBLOCK"}
      BY DEF ALT_FCNTL_FLAGS_MASK
    <3> QED BY <3>1, <3>2
  <2>6. Files' = [Files EXCEPT ![f].flags = shown]
        /\ Holders' = (Holders \ {f}) \cup (IF "EXCL" \in new THEN {f} ELSE {})
    <3> HIDE DEF new
    <3> QED BY <2>1, <2>2, FlagsTable
  <2>7. Holders' = Holders
    <3> HIDE DEF new
    <3> QED BY <2>3, <2>6 DEF Holders
  <2> HIDE DEF shown
  <2>8. Table!SetFlags(f, shown)
    BY <1>6, <2>5, <2>6, <2>7 DEF SetFlags, Table!SetFlags
  <2>9. f \in DOMAIN Files' /\ Files'[f].flags = shown
    BY <2>6, <1>0, InUseFacts
  <2> QED BY <2>4, <2>8, <2>9, <1>0
<1>7. ASSUME NEW f \in InUse, NEW flags \in SUBSET AllFlags,
             alt_fd_list' = [alt_fd_list EXCEPT ![f].flags = flags],
             flags \ ALT_FD_FLAGS_MASK = alt_fd_list[f].flags \ ALT_FD_FLAGS_MASK
      PROVE  Files' = Files
  <2>1. /\ Files' = [Files EXCEPT ![f].flags = flags \ ALT_FD_FLAGS_MASK]
        /\ flags \ ALT_FD_FLAGS_MASK = Files[f].flags
    BY <1>7, FlagsTable, InUseFacts
  <2>2. [Files[f] EXCEPT !.flags = Files[f].flags] = Files[f]
    BY InUseFacts
  <2> QED BY <2>1, <2>2 DEF Files
<1>8. ASSUME NEW f \in InUse, Lock(f) PROVE Calls
  <2> DEFINE new == alt_fd_list[f].flags \cup {"EXCL"}
  <2>1. CASE UNCHANGED alt_fd_list
    BY <1>2, <1>8, <2>1 DEF Lock
  <2>2. CASE alt_fd_list' = [alt_fd_list EXCEPT ![f].flags = new] /\ result' = 0
    <3>1. new \in SUBSET AllFlags /\ "EXCL" \in new
      BY InUseFacts DEF AllFlags
    <3>2. new \ ALT_FD_FLAGS_MASK = alt_fd_list[f].flags \ ALT_FD_FLAGS_MASK
      BY DEF ALT_FD_FLAGS_MASK
    <3>3. Files[f].dev \in Device
      BY <1>8, InUseFacts DEF Lock
    <3> HIDE DEF new
    <3>4. Files' = Files /\ Holders' = Holders \cup {f}
      BY <1>7, <2>2, <3>1, <3>2, FlagsTable
    <3> QED BY <2>2, <3>3, <3>4, <1>0 DEF Table!Hold
  <2> QED BY <1>8, <2>1, <2>2 DEF Lock
<1>9. ASSUME NEW f \in InUse, Unlock(f) PROVE Calls
  <2> DEFINE new == alt_fd_list[f].flags \ {"EXCL"}
  <2>1. new \in SUBSET AllFlags /\ "EXCL" \notin new
    BY InUseFacts
  <2>2. new \ ALT_FD_FLAGS_MASK = alt_fd_list[f].flags \ ALT_FD_FLAGS_MASK
    BY DEF ALT_FD_FLAGS_MASK
  <2>3. alt_fd_list' = [alt_fd_list EXCEPT ![f].flags = new] /\ result' = 0
    BY <1>9 DEF Unlock
  <2> HIDE DEF new
  <2>4. Files' = Files /\ Holders' = Holders \ {f}
    BY <1>7, <2>1, <2>2, <2>3, FlagsTable
  <2> QED BY <2>3, <2>4, <1>0 DEF Table!LetGo
<1> QED BY <1>3, <1>4, <1>5, <1>6, <1>8, <1>9 DEF Program

(* Every redirection of a stream is one, or starts the program, or neither.   *)
LEMMA RedirectRefines == IInv /\ AltIoRedirect => [Table!Next]_(Table!vars)
<1> SUFFICES ASSUME IInv, AltIoRedirect PROVE [Table!Next]_(Table!vars)
  OBVIOUS
<1>1. redirected # 3 /\ UNCHANGED result
  BY DEF AltIoRedirect, IInv
<1>2. ASSUME NEW index \in FirstFree, NEW f \in Std,
             NEW flags \in {{}, {"WRONLY"}}, Redirected(index, f, flags)
      PROVE  Files'[f] \in Table!File /\ Table!Redirect(f, Files'[f])
  <2> DEFINE entry == OpenedAs(Console, flags)
  <2>1. /\ entry \in Entries /\ entry.dev = Console /\ Console # Nothing
        /\ "EXCL" \notin entry.flags
    BY FilesAssumption DEF OpenedAs, Entries, AllFlags, ALT_FD_FLAGS_MASK
  <2>2. /\ index \in Fd /\ f \in Fd /\ index \notin InUse /\ f \in InUse
    BY FreeFacts, FilesAssumption DEF IInv, Sound, InUse, Fd, Std
  <2> HIDE DEF entry
  <2>3. /\ alt_fd_list'[f] = entry /\ alt_fd_list'[index] = Free
        /\ \A e \in Fd \ {f, index} : alt_fd_list'[e] = alt_fd_list[e]
    BY <1>2, <2>2 DEF Redirected, IInv, entry
  <2>4. InUse' = InUse /\ \A e \in InUse \ {f} : e \in Fd \ {f, index}
    BY <2>1, <2>2, <2>3 DEF InUse, Free
  <2>5. Files' = [Files EXCEPT ![f] = Seen(entry)]
    BY <2>2, <2>3, <2>4 DEF Files, Seen
  <2>6. Holders = {}
    BY <1>1 DEF Holders, InUse, IInv, Sound
  <2>7. Holders' = {}
    BY <2>1, <2>2, <2>3, <2>4, <2>6 DEF Holders
  <2>8. Files'[f] = Seen(entry)
    BY <2>2, <2>5 DEF Files
  <2> QED BY <1>1, <2>1, <2>5, <2>6, <2>7, <2>8, SeenIsFile DEF Table!Redirect
<1>3. CASE NotRedirected
  BY <1>1, <1>3, SameTable DEF NotRedirected, Table!Next, Table!Start, Table!vars
<1> QED BY <1>2, <1>3 DEF AltIoRedirect, Std, Table!Next

(* The descriptors are a table of open files: every behaviour of the pool is  *)
(* one of the table, so no call that fails loses or adds a file, and no open  *)
(* gives a descriptor of a device that another one holds.                     *)
THEOREM Refinement == FilesSpec => ImplementsFileTable
<1>1. IInv /\ [FilesNext]_filesVars => [Table!Next]_(Table!vars)
  <2> SUFFICES ASSUME IInv, [FilesNext]_filesVars PROVE [Table!Next]_(Table!vars)
    OBVIOUS
  <2>1. CASE UNCHANGED filesVars
    BY <2>1, SameTable DEF filesVars, Table!vars
  <2> QED BY <2>1, RedirectRefines, ProgramRefines DEF FilesNext
<1> QED BY <1>1, InitRefines, PoolSound, PTL DEF FilesSpec, ImplementsFileTable, Table!Spec
==============================================================================
