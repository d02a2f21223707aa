------------------------- MODULE AdcControllerProofs -------------------------
(* What a capture run promises, for every depth of the buffer, every period   *)
(* and every scan of the program, and however the ADC times its answers.      *)
EXTENDS AdcControllerProps, TLAPS

Settings ==
  [ run_enable : BOOLEAN, single_shot : BOOLEAN, prescaler_sel : Nat,
    adc_channel : Nat, sample_period : Nat, trigger_enable : BOOLEAN,
    trigger_edge_falling : BOOLEAN, trigger_level : Nat, trigger_channel : Nat,
    pre_trigger_count : Nat, post_trigger_count : Nat,
    scan_enable : BOOLEAN, scan_len : Nat ]

(* The places of the program between the soft reset and the start of a run.   *)
Preparing == {"sleep", "configure", "prescaler", "mode", "arm"}

(* What the program keeps to: a run goes on only while it polls, and a single *)
(* shot is never a triggered run.                                             *)
ProgramInv ==
  /\ settings \in Settings /\ reg \in Settings
  /\ settings.run_enable /\ (settings.single_shot => ~settings.trigger_enable)
  /\ reg.single_shot => ~reg.trigger_enable
  /\ reg.run_enable => pc \in {"poll", "index", "end"}
  /\ soft_reset_reg => pc = "sleep"

EndlessRun == ~reg.single_shot /\ ~reg.trigger_enable

(* A run starts with cleared registers, and counts what it takes.             *)
CountInv ==
  /\ wr_addr_reg \in Addresses /\ taken \in Nat
  /\ done_reg \in BOOLEAN /\ overflow_reg \in BOOLEAN
  /\ pc \in Preparing => ~done_reg /\ ~overflow_reg /\ wr_addr_reg = 0
  /\ reg.run_enable /\ taken < BUFFER_DEPTH => wr_addr_reg = taken
  /\ reg.run_enable /\ reg.single_shot =>
       /\ taken <= BUFFER_DEPTH
       /\ done_reg <=> taken = BUFFER_DEPTH
  /\ reg.run_enable =>
       (overflow_reg <=> EndlessRun /\ taken >= BUFFER_DEPTH)

IInv == ProgramInv /\ CountInv

(* The constants of the program are settings of the registers.                *)
LEMMA SettingsTyped ==
  \A s \in Untriggered \union Triggered :
    s \in Settings /\ s.run_enable /\ (s.single_shot => ~s.trigger_enable)
<1>1. Off \in Settings /\ ~Off.trigger_enable /\ ~Off.single_shot
  BY DEF Off, Settings
<1>2. \A s \in Timing : s \in Settings /\ s.run_enable /\ ~s.trigger_enable /\ ~s.single_shot
  <2> TAKE u \in Timing
  <2>0. PICK p \in Periods, c \in CHANNELS : u = Timed(p, c)
    BY DEF Timing
  <2>1. p[1] \in Nat /\ p[2] \in Nat  BY ProgramAssumption DEF Selections
  <2>2. c \in Nat  BY BufferAssumption
  <2> QED  BY <1>1, <2>0, <2>1, <2>2 DEF Settings, Timed
<1>3. \A s \in Scanning : s \in Settings /\ s.run_enable /\ ~s.trigger_enable /\ ~s.single_shot
  <2> TAKE u \in Scanning
  <2> SUFFICES ASSUME u \notin Timing
               PROVE  u \in Settings /\ u.run_enable /\ ~u.trigger_enable /\ ~u.single_shot
    BY <1>2
  <2>0. PICK s \in Timing, len \in ScanLengths : u = Scan(s, len)
    BY DEF Scanning
  <2>1. len \in Nat  BY ProgramAssumption
  <2> QED  BY <1>2, <2>0, <2>1 DEF Settings, Scan
<1>4. \A s \in Untriggered : s \in Settings /\ s.run_enable /\ ~s.trigger_enable
  <2> TAKE u \in Untriggered
  <2>0. PICK s \in Scanning, single \in BOOLEAN : u = Shot(s, single)
    BY DEF Untriggered
  <2> QED  BY <1>3, <2>0 DEF Settings, Shot
<1>5. \A s \in Triggered : s \in Settings /\ s.run_enable /\ ~s.single_shot
  <2> TAKE u \in Triggered
  <2>0. PICK s \in Scanning, t \in Triggers : u = OnTrigger(s, t)
    BY DEF Triggered
  <2>1. t[1] \in BOOLEAN /\ t[2] \in Nat /\ t[3] \in Nat /\ t[4] \in Nat
    BY ProgramAssumption, BufferAssumption DEF Addresses
  <2> QED  BY <1>3, <2>0, <2>1 DEF Settings, OnTrigger
<1> QED  BY <1>4, <1>5

(* What one access of the program does to the registers.                      *)
LEMMA ProgramStep ==
  ASSUME ProgramInv, Program, UNCHANGED settings
  PROVE  /\ ProgramInv'
         /\ reg'.run_enable =>
              \/ reg.run_enable /\ reg' = reg /\ ~soft_reset_reg /\ ~soft_reset_reg'
              \/ ~reg.run_enable /\ pc = "arm"
         /\ pc' \in Preparing => ~reg'.run_enable /\ (soft_reset_reg' \/ pc \in Preparing)
         /\ Restart => ~reg'.run_enable
<1> USE DEF ProgramInv
<1>1. CASE Wait
  BY <1>1 DEF Wait, NoWrite, programVars, Preparing, Restart
<1>2. CASE Stop
  <2>1. reg' \in Settings /\ ~reg'.run_enable /\ ~reg'.single_shot
    BY <1>2 DEF Stop, WriteReg, Control, Settings
  <2> QED  BY <1>2, <2>1 DEF Stop, WriteReg, Goto, Preparing, Restart
<1>3. CASE SoftReset
  <2>1. reg' \in Settings /\ ~reg'.run_enable /\ ~reg'.single_shot
    BY <1>3 DEF SoftReset, Control, Settings
  <2> QED  BY <1>3, <2>1 DEF SoftReset, Goto, Preparing, Restart
<1>4. CASE Sleep
  BY <1>4 DEF Sleep, NoWrite, Goto, Preparing, Restart
<1>5. CASE WritePeriod
  <2>1. settings.sample_period \in Nat  BY DEF Settings
  <2>2. /\ reg' \in Settings /\ reg'.run_enable = reg.run_enable
        /\ reg'.single_shot = reg.single_shot /\ reg'.trigger_enable = reg.trigger_enable
    BY <1>5, <2>1 DEF WritePeriod, WriteReg, Settings
  <2> QED  BY <1>5, <2>2 DEF WritePeriod, WriteReg, Goto, Preparing, Restart
<1>6. CASE WritePrescaler
  <2>1. settings.prescaler_sel \in Nat  BY DEF Settings
  <2>2. /\ reg' \in Settings /\ reg'.run_enable = reg.run_enable
        /\ reg'.single_shot = reg.single_shot /\ reg'.trigger_enable = reg.trigger_enable
    BY <1>6, <2>1 DEF WritePrescaler, WriteReg, Settings
  <2> QED  BY <1>6, <2>2 DEF WritePrescaler, WriteReg, Goto, Preparing, Restart
<1>7. CASE WriteMode
  <2>1. reg' \in Settings /\ ~reg'.run_enable /\ ~reg'.single_shot
    BY <1>7 DEF WriteMode, WriteReg, Settings
  <2> QED  BY <1>7, <2>1 DEF WriteMode, WriteReg, Goto, Preparing, Restart
<1>8. CASE Arm
  BY <1>8 DEF Arm, WriteReg, Goto, Preparing, Restart
<1>9. CASE ReadStatus
  BY <1>9 DEF ReadStatus, NoWrite, Goto, Preparing, Restart
<1>10. CASE ReadIndex
  BY <1>10 DEF ReadIndex, NoWrite, Goto, Preparing, Restart
<1>11. CASE DumpAddress
  BY <1>11 DEF DumpAddress, WriteAddress, Goto, Preparing, Restart
<1>12. CASE DumpRead
  BY <1>12 DEF DumpRead, NoWrite, Goto, Preparing, Restart
<1> QED
  BY <1>1, <1>2, <1>3, <1>4, <1>5, <1>6, <1>7, <1>8, <1>9, <1>10, <1>11, <1>12 DEF Program

(* A stopped or a reset engine is cleared; a running one only moves on.       *)
LEMMA EngineStopped ==
  ASSUME NEW ready, NEW resp, Engine(ready, resp),
         ~reg.run_enable \/ soft_reset_reg \/ soft_reset_reg'
  PROVE  Cleared /\ UNCHANGED wordVars
<1>1. CASE EngineReset
  BY <1>1 DEF EngineReset
<1>2. CASE ~reg.run_enable /\ EngineEdge(ready, resp)
  BY <1>2 DEF EngineEdge, Sample, Taken, KeepRunning, Stopped
<1> QED  BY <1>1, <1>2 DEF Engine

(* A running engine counts its samples up to the last word.                   *)
LEMMA EngineRuns ==
  ASSUME NEW ready, NEW resp, Engine(ready, resp), CountInv,
         reg.run_enable, ~soft_reset_reg, ~soft_reset_reg'
  PROVE  /\ done_reg' \in BOOLEAN
         /\ ~Taken(resp) => UNCHANGED <<done_reg, wr_addr_reg, overflow_reg>>
         /\ Taken(resp) => /\ ~done_reg
                           /\ wr_addr_reg' = (wr_addr_reg + 1) % BUFFER_DEPTH
                           /\ overflow_reg' = (overflow_reg \/ WentRound)
         /\ Taken(resp) /\ reg.single_shot /\ ~reg.trigger_enable =>
              (done_reg' <=> wr_addr_reg = BUFFER_DEPTH - 1)
<1>1. EngineEdge(ready, resp)  BY DEF Engine
<1>2. CASE KeepRunning(resp)
  BY <1>2 DEF KeepRunning, runVars, triggerVars, CountInv
<1>3. CASE Sample(resp)
  <2>1. /\ Taken(resp) /\ ~done_reg /\ wr_addr_reg' = (wr_addr_reg + 1) % BUFFER_DEPTH
        /\ overflow_reg' = (overflow_reg \/ WentRound)
    BY <1>3 DEF Sample, Taken
  <2>2. done_reg' \in BOOLEAN
    BY <1>3 DEF Sample, TriggerHere, AfterTrigger, WhenFull
  <2>3. reg.single_shot /\ ~reg.trigger_enable => WhenFull
    BY <1>3 DEF Sample, Hit
  <2> QED  BY <2>1, <2>2, <2>3 DEF WhenFull, LastAddress
<1> QED  BY <1>1, <1>2, <1>3 DEF EngineEdge, Stopped

(* One edge keeps the count of the run.                                       *)
LEMMA CountStep ==
  ASSUME NEW ready, NEW resp, IInv, Edge(ready, resp)
  PROVE  CountInv'
<1>1. /\ ProgramInv' /\ (pc' \in Preparing => soft_reset_reg' \/ pc \in Preparing)
      /\ reg'.run_enable =>
           \/ reg.run_enable /\ reg' = reg /\ ~soft_reset_reg /\ ~soft_reset_reg'
           \/ ~reg.run_enable /\ pc = "arm"
      /\ Restart => ~reg'.run_enable
  BY ProgramStep DEF Edge, IInv
<1>2. Engine(ready, resp) /\ Remember(resp)  BY DEF Edge
<1>3. /\ BUFFER_DEPTH \in Nat /\ BUFFER_DEPTH > 1 /\ 0 \in Addresses
      /\ \A a \in Addresses : /\ (a + 1) % BUFFER_DEPTH \in Addresses
                              /\ a # BUFFER_DEPTH - 1 => (a + 1) % BUFFER_DEPTH = a + 1
  BY BufferAssumption DEF Addresses
<1>4. taken' \in Nat
  BY <1>2, <1>3 DEF Remember, IInv, CountInv
<1>5. CASE ~reg.run_enable \/ soft_reset_reg \/ soft_reset_reg'
  <2>1. done_reg' = FALSE /\ wr_addr_reg' = 0 /\ overflow_reg' = FALSE
    BY <1>2, <1>5, EngineStopped DEF Cleared
  <2>2. reg'.run_enable => Arming  BY <1>1, <1>5 DEF Arming
  <2>3. Arming => taken' = 0  BY <1>2 DEF Remember
  <2>4. /\ wr_addr_reg' \in Addresses /\ done_reg' \in BOOLEAN /\ overflow_reg' \in BOOLEAN
        /\ ~done_reg' /\ ~overflow_reg' /\ wr_addr_reg' = 0
    BY <1>3, <2>1
  <2>5. reg'.run_enable => /\ taken' = 0 /\ taken' <= BUFFER_DEPTH
                           /\ taken' # BUFFER_DEPTH /\ ~(taken' >= BUFFER_DEPTH)
    BY <1>3, <2>2, <2>3
  <2> QED  BY <1>4, <2>4, <2>5 DEF CountInv
<1>6. CASE reg.run_enable /\ ~soft_reset_reg /\ ~soft_reset_reg'
  <2>1. /\ done_reg' \in BOOLEAN
        /\ ~Taken(resp) => UNCHANGED <<done_reg, wr_addr_reg, overflow_reg>>
        /\ Taken(resp) => /\ ~done_reg /\ wr_addr_reg' = (wr_addr_reg + 1) % BUFFER_DEPTH
                          /\ overflow_reg' = (overflow_reg \/ WentRound)
        /\ Taken(resp) /\ reg.single_shot /\ ~reg.trigger_enable =>
             (done_reg' <=> wr_addr_reg = BUFFER_DEPTH - 1)
    BY <1>2, <1>6, EngineRuns DEF IInv
  <2>2. wr_addr_reg' \in Addresses /\ overflow_reg' \in BOOLEAN
    BY <1>3, <2>1 DEF IInv, CountInv
  <2>3. pc' \notin Preparing
    BY <1>1, <1>6 DEF IInv, ProgramInv, Preparing
  <2>4. ASSUME reg'.run_enable
        PROVE  /\ taken' < BUFFER_DEPTH => wr_addr_reg' = taken'
               /\ reg'.single_shot => /\ taken' <= BUFFER_DEPTH
                                      /\ done_reg' <=> taken' = BUFFER_DEPTH
               /\ overflow_reg' <=> EndlessRun' /\ taken' >= BUFFER_DEPTH
    <3>1. /\ reg' = reg /\ ~Arming /\ ~Restart
          /\ reg.single_shot => ~reg.trigger_enable
      BY <1>1, <1>6, <2>4 DEF IInv, ProgramInv, Arming
    <3>2. EndlessRun' <=> EndlessRun  BY <3>1 DEF EndlessRun
    <3>3. /\ taken \in Nat /\ (taken < BUFFER_DEPTH => wr_addr_reg = taken)
          /\ reg.single_shot => /\ taken <= BUFFER_DEPTH
                                /\ done_reg <=> taken = BUFFER_DEPTH
          /\ overflow_reg <=> EndlessRun /\ taken >= BUFFER_DEPTH
      BY <1>6, <3>1 DEF IInv, CountInv
    <3>4. CASE ~Taken(resp)
      <4>1. taken' = taken  BY <1>2, <3>1, <3>4 DEF Remember
      <4> QED  BY <2>1, <3>1, <3>2, <3>3, <3>4, <4>1
    <3>5. CASE Taken(resp)
      <4>1. /\ taken' = taken + 1 \/ (taken >= BUFFER_DEPTH /\ taken' >= BUFFER_DEPTH)
            /\ taken < 2 * BUFFER_DEPTH => taken' = taken + 1
        BY <1>2, <1>3, <3>1, <3>3, <3>5 DEF Remember
      <4>2. taken' < BUFFER_DEPTH => wr_addr_reg' = taken'
        BY <1>3, <1>4, <2>1, <3>3, <3>5, <4>1 DEF IInv, CountInv
      <4>3. reg'.single_shot => /\ taken' <= BUFFER_DEPTH
                                /\ done_reg' <=> taken' = BUFFER_DEPTH
        BY <1>3, <2>1, <3>1, <3>3, <3>5, <4>1
      <4>4. WentRound <=> EndlessRun /\ wr_addr_reg = BUFFER_DEPTH - 1
        BY DEF WentRound, EndlessRun, LastAddress
      <4>5. taken' >= BUFFER_DEPTH <=>
              taken >= BUFFER_DEPTH \/ (taken < BUFFER_DEPTH /\ wr_addr_reg = BUFFER_DEPTH - 1)
        BY <1>3, <1>4, <3>3, <4>1
      <4>6. taken >= BUFFER_DEPTH \/ taken < BUFFER_DEPTH  BY <1>3, <3>3
      <4>7. overflow_reg' <=> EndlessRun /\ taken' >= BUFFER_DEPTH
        BY <2>1, <3>3, <3>5, <4>4, <4>5, <4>6
      <4> QED  BY <3>2, <4>2, <4>3, <4>7
    <3> QED  BY <3>4, <3>5
  <2> QED  BY <1>4, <2>1, <2>2, <2>3, <2>4 DEF CountInv
<1> QED  BY <1>5, <1>6

(* The invariant holds in every run.                                          *)
THEOREM Counting == Spec => []IInv
<1>1. Init => IInv
  <2> SUFFICES ASSUME Init PROVE IInv  OBVIOUS
  <2>1. /\ settings \in Settings /\ settings.run_enable
        /\ settings.single_shot => ~settings.trigger_enable
    BY SettingsTyped DEF Init
  <2>2. reg \in Settings /\ ~reg.single_shot /\ ~reg.run_enable
    BY DEF Init, Off, Settings
  <2>3. 0 \in Addresses  BY BufferAssumption DEF Addresses
  <2> QED
    BY <2>1, <2>2, <2>3 DEF Init, EngineInit, IInv, ProgramInv, CountInv, Preparing
<1>2. IInv /\ [Next]_vars => IInv'
  <2> SUFFICES ASSUME IInv, [Next]_vars PROVE IInv'  OBVIOUS
  <2>1. CASE Next
    <3>1. PICK ready \in Ready, resp \in Answers : Edge(ready, resp)
      BY <2>1 DEF Next
    <3>2. ProgramInv'  BY <3>1, ProgramStep DEF Edge, IInv
    <3>3. CountInv'  BY <3>1, CountStep
    <3> QED  BY <3>2, <3>3 DEF IInv
  <2>2. CASE UNCHANGED vars
    BY <2>2 DEF vars, engineVars, captureVars, runVars, triggerVars, programVars,
                wrapperVars, history, IInv, ProgramInv, CountInv, EndlessRun
  <2> QED  BY <2>1, <2>2
<1> QED  BY <1>1, <1>2, PTL DEF Spec

(* A single shot takes exactly one buffer of samples: it is done when it has  *)
(* filled the buffer, not before, and takes nothing after.                    *)
THEOREM OneBuffer == Spec => []SingleShotExact
<1>1. IInv => SingleShotExact
  BY DEF IInv, CountInv, SingleShotExact, Running
<1> QED  BY <1>1, Counting, PTL

(* OVERFLOW is raised in a run without end as soon as it has filled the       *)
(* buffer once, stays until the run is stopped, and is raised in no other.    *)
THEOREM OverflowExact == Spec => []OverflowTold
<1>1. IInv => OverflowTold
  BY DEF IInv, CountInv, EndlessRun, OverflowTold, Running
<1> QED  BY <1>1, Counting, PTL
-----------------------------------------------------------------------------
(* The rest of a run, from the places of the program: it runs from the poll   *)
(* to its end, and reads its result in between.                               *)
Polling == {"poll", "index", "end"}
BeforeRun == Preparing \cup {"stop", "reset"}
AfterPoll == {"index", "end", "quiet", "dump", "dummy", "data"}
Places == BeforeRun \cup {"poll"} \cup AfterPoll
Reports == [done : BOOLEAN, triggered : BOOLEAN, index : Addresses]

PlaceInv ==
  /\ pc \in Places
  /\ reg.run_enable <=> pc \in Polling
  /\ reg.run_enable => reg = settings
  /\ pc \in BeforeRun => ~done_reg

Samples == Words \cup {NoSample}
EngineTyped ==
  /\ triggered_reg \in BOOLEAN /\ post_remaining \in Nat /\ trigger_index_reg \in Addresses
  /\ scan_idx \in Nat /\ samples_seen \in Nat
  /\ wr_en_sig \in BOOLEAN /\ wr_addr_write_reg \in Addresses
  /\ sample_word_reg \in Samples /\ ram \in [Addresses -> Samples]
  /\ converting \in [age : Nat, channel : Nat] /\ report \in Reports

(* DONE rises once a run, and the interrupt follows an edge later, perhaps    *)
(* when the program has already stopped the run.                              *)
InterruptInv ==
  /\ done_prev \in BOOLEAN /\ interrupts \in Nat
  /\ pc \in BeforeRun => interrupts = 0
  /\ pc \notin BeforeRun =>
       /\ interrupts <= 1
       /\ done_prev => interrupts = 1
       /\ done_reg /\ ~done_prev => interrupts = 0
  /\ reg.run_enable => (done_prev => done_reg) /\ (interrupts = 1 => done_prev)
  /\ report.done /\ pc \in AfterPoll => interrupts = 1

(* What the program may do from where it is, and what it has read.            *)
LEMMA Moves ==
  ASSUME ProgramInv, PlaceInv, Program, UNCHANGED settings
  PROVE  /\ pc' \in Places
         /\ reg'.run_enable <=> pc' \in Polling
         /\ reg'.run_enable => reg' = settings'
         /\ Arming <=> pc = "arm" /\ pc' = "poll"
         /\ Restart => ~reg.run_enable /\ pc' \in BeforeRun
         /\ pc \in BeforeRun => pc' \in BeforeRun \/ Arming
         /\ pc' \in BeforeRun => pc \in BeforeRun \/ Restart
         /\ pc' \in AfterPoll => pc \in AfterPoll \/ (pc = "poll" /\ pc' = "index")
         /\ pc' \in AfterPoll \ {"index", "end"} => pc \in AfterPoll \ {"index"}
         /\ pc' \in {"dump", "dummy", "data"} => ~reg.run_enable
<1> USE DEF ProgramInv, PlaceInv, Places, Polling, BeforeRun, AfterPoll, Preparing, Arming,
            Restart
<1>1. CASE Wait
  BY <1>1 DEF Wait, NoWrite, programVars
<1>2. CASE Stop
  <2>1. ~reg'.run_enable
    BY <1>2 DEF Stop, WriteReg, Control, Settings
  <2> QED  BY <1>2, <2>1 DEF Stop, Goto
<1>3. CASE SoftReset
  <2>1. ~reg'.run_enable
    BY <1>3 DEF SoftReset, Control, Settings
  <2> QED  BY <1>3, <2>1 DEF SoftReset, Goto
<1>4. CASE Sleep
  BY <1>4 DEF Sleep, NoWrite, Goto
<1>5. CASE WritePeriod
  <2>1. reg'.run_enable = reg.run_enable
    BY <1>5 DEF WritePeriod, WriteReg, Settings
  <2> QED  BY <1>5, <2>1 DEF WritePeriod, Goto
<1>6. CASE WritePrescaler
  <2>1. reg'.run_enable = reg.run_enable
    BY <1>6 DEF WritePrescaler, WriteReg, Settings
  <2> QED  BY <1>6, <2>1 DEF WritePrescaler, Goto
<1>7. CASE WriteMode
  <2>1. ~reg'.run_enable
    BY <1>7 DEF WriteMode, WriteReg, Settings
  <2> QED  BY <1>7, <2>1 DEF WriteMode, Goto
<1>8. CASE Arm
  BY <1>8 DEF Arm, WriteReg, Goto
<1>9. CASE ReadStatus
  BY <1>9 DEF ReadStatus, NoWrite, Goto
<1>10. CASE ReadIndex
  BY <1>10 DEF ReadIndex, NoWrite, Goto
<1>11. CASE DumpAddress
  BY <1>11 DEF DumpAddress, WriteAddress, Goto
<1>12. CASE DumpRead
  BY <1>12 DEF DumpRead, NoWrite, Goto
<1> QED
  BY <1>1, <1>2, <1>3, <1>4, <1>5, <1>6, <1>7, <1>8, <1>9, <1>10, <1>11, <1>12 DEF Program

(* What it reports is what the engine shows at the polls.                     *)
LEMMA Reporting ==
  ASSUME ProgramInv, PlaceInv, Program
  PROVE  \/ UNCHANGED report /\ (pc' = pc \/ pc' \notin {"index", "end"})
         \/ /\ pc = "poll" /\ pc' = "index"
            /\ report' = [report EXCEPT !.done = done_reg, !.triggered = triggered_reg]
         \/ /\ pc = "index" /\ pc' = "end"
            /\ report' = [report EXCEPT !.index = trigger_index_reg]
         \/ Restart /\ report' = NoReport
  BY DEF Program, Wait, programVars, Stop, SoftReset, Sleep, WritePeriod, WritePrescaler,
         WriteMode, Arm, ReadStatus, ReadIndex, DumpAddress, WriteAddress, DumpRead, SameReport,
         Goto, Restart

(* A stopped engine is cleared, a running one takes a sample or waits: resets *)
(* come between runs.                                                         *)
LEMMA EngineMoves ==
  ASSUME NEW ready, NEW resp, ProgramInv, PlaceInv, Edge(ready, resp)
  PROVE  /\ ~reg.run_enable => Cleared /\ UNCHANGED wordVars
         /\ reg.run_enable /\ Taken(resp) => Sample(resp)
         /\ reg.run_enable /\ ~Taken(resp) =>
              wr_en_sig' = FALSE /\ UNCHANGED <<runVars, triggerVars, last_sample, wordVars>>
<1>1. Program /\ UNCHANGED settings /\ Engine(ready, resp)
  BY DEF Edge
<1>2. CASE ~reg.run_enable
  BY <1>1, <1>2, EngineStopped DEF Taken
<1>3. CASE reg.run_enable
  <2>1. ProgramInv' /\ (pc' \in BeforeRun => pc \in BeforeRun \/ Restart)
        /\ (Restart => ~reg.run_enable)
    BY <1>1, Moves, ProgramStep
  <2>2. ~soft_reset_reg /\ ~soft_reset_reg'
    BY <1>3, <2>1 DEF ProgramInv, PlaceInv, Polling, BeforeRun, Preparing
  <2>3. EngineEdge(ready, resp)
    BY <1>1, <2>2 DEF Engine
  <2> QED BY <1>3, <2>3 DEF EngineEdge, Sample, KeepRunning, Stopped
<1> QED BY <1>2, <1>3

(* The program is where its registers say.                                    *)
LEMMA PlaceKept ==
  ASSUME NEW ready, NEW resp, ProgramInv, PlaceInv, Edge(ready, resp)
  PROVE  PlaceInv'
<1>1. Program /\ UNCHANGED settings
  BY DEF Edge
<1>2. pc' \in Places /\ (reg'.run_enable <=> pc' \in Polling)
      /\ (reg'.run_enable => reg' = settings')
      /\ (pc' \in BeforeRun => pc \in BeforeRun \/ Restart)
      /\ (Restart => ~reg.run_enable)
  BY <1>1, Moves
<1>3. ~reg.run_enable => done_reg' = FALSE
  BY EngineMoves DEF Cleared
<1>4. pc' \in BeforeRun => ~reg.run_enable
  BY <1>2 DEF PlaceInv, BeforeRun, Preparing, Polling
<1> QED BY <1>2, <1>3, <1>4 DEF PlaceInv

(* An answer of the ADC is for the command that is being converted.           *)
LEMMA Answered ==
  ASSUME NEW resp \in Answers, EngineTyped, Taken(resp)
  PROVE  /\ resp.channel = converting.channel /\ resp.data \in CODES
         /\ Word(resp) = <<resp.channel % 16, resp.data>> /\ Word(resp) \in Words
         /\ Word(resp)[1] = resp.channel % 16 /\ Word(resp)[2] = resp.data
<1>1. resp \in [channel : {converting.channel}, data : CODES]
  BY DEF Answers, Taken
<1>2. resp.channel \in Nat /\ resp.channel = converting.channel /\ resp.data \in CODES
  BY <1>1 DEF EngineTyped
<1>3. resp.channel % 16 \in 0 .. 15
  BY <1>2
<1> QED BY <1>2, <1>3 DEF Word, Words

(* Every edge keeps the registers in their ranges.                            *)
LEMMA EngineTypedKept ==
  ASSUME NEW ready, NEW resp \in Answers, IInv, PlaceInv, EngineTyped, Edge(ready, resp)
  PROVE  EngineTyped'
<1>1. /\ BUFFER_DEPTH \in Nat /\ 0 \in Addresses /\ NoSample \in Samples
      /\ wr_addr_reg \in Addresses /\ done_reg \in BOOLEAN
  BY BufferAssumption DEF IInv, CountInv, Addresses, Samples
<1>2. reg \in Settings /\ (reg.run_enable => reg.post_trigger_count \in Nat)
  BY DEF IInv, ProgramInv, Settings
<1>3. \/ ~reg.run_enable /\ Cleared /\ UNCHANGED wordVars
      \/ Sample(resp) /\ reg.run_enable /\ Word(resp) \in Samples
      \/ wr_en_sig' = FALSE /\ UNCHANGED <<runVars, triggerVars, wordVars>>
  BY EngineMoves, Answered DEF IInv, Samples
<1>4. triggered_reg' \in BOOLEAN /\ wr_en_sig' \in BOOLEAN
  <2>1. /\ \/ triggered_reg' = TRUE \/ triggered_reg' = FALSE \/ triggered_reg' = triggered_reg
        /\ wr_en_sig' = TRUE \/ wr_en_sig' = FALSE
    BY <1>3, Zenon DEF Cleared, Sample, TriggerHere, AfterTrigger, WhenFull, triggerVars
  <2> QED BY <2>1, Zenon DEF EngineTyped
<1>5. /\ post_remaining' \in Nat /\ trigger_index_reg' \in Addresses /\ samples_seen' \in Nat
      /\ wr_addr_write_reg' \in Addresses /\ sample_word_reg' \in Samples
  BY <1>1, <1>2, <1>3
  DEF Cleared, Sample, TriggerHere, AfterTrigger, WhenFull, StoreWord, runVars, triggerVars,
      wordVars, EngineTyped
<1>6. scan_idx' \in Nat
  <2>1. NextScan \in Nat
    BY DEF NextScan, EngineTyped
  <2>2. Engine(ready, resp)
    BY DEF Edge
  <2> QED BY <2>1, <2>2
      DEF Engine, EngineReset, EngineEdge, Command, EngineTyped
<1>7. ram' \in [Addresses -> Samples]
  BY DEF Edge, BufferEdge, EngineTyped
<1>8. converting' \in [age : Nat, channel : Nat]
  <2>1. cmd_channel \in Nat
    BY <1>2, BufferAssumption DEF cmd_channel, Settings, EngineTyped
  <2> QED BY <2>1 DEF Edge, Adc, Idle, EngineTyped
<1>9. report' \in Reports
  <2>1. report \in Reports /\ triggered_reg \in BOOLEAN /\ trigger_index_reg \in Addresses
    BY DEF EngineTyped
  <2>2. NoReport \in Reports
    BY <1>1, Zenon DEF NoReport, Reports
  <2>3. /\ [report EXCEPT !.done = done_reg, !.triggered = triggered_reg] \in Reports
        /\ [report EXCEPT !.index = trigger_index_reg] \in Reports
    BY <1>1, <2>1 DEF Reports
  <2> QED BY <2>1, <2>2, <2>3, Reporting DEF Edge, IInv
<1> QED BY <1>4, <1>5, <1>6, <1>7, <1>8, <1>9 DEF EngineTyped

(* An edge of DONE is counted an edge later, and there is one a run.          *)
LEMMA InterruptKept ==
  ASSUME NEW ready, NEW resp, IInv, PlaceInv, EngineTyped, InterruptInv,
         Edge(ready, resp)
  PROVE  InterruptInv'
<1>1. Program /\ UNCHANGED settings /\ Irq /\ Remember(resp) /\ PlaceInv'
      /\ done_reg \in BOOLEAN
  BY PlaceKept DEF Edge, IInv, CountInv
<1>2. /\ Arming <=> pc = "arm" /\ pc' = "poll"
      /\ Restart => ~reg.run_enable /\ pc' \in BeforeRun
      /\ pc \in BeforeRun => pc' \in BeforeRun \/ Arming
      /\ pc' \in BeforeRun => pc \in BeforeRun \/ Restart
      /\ pc' \in AfterPoll => pc \in AfterPoll \/ (pc = "poll" /\ pc' = "index")
  BY <1>1, Moves DEF IInv
<1>3. /\ ~reg.run_enable => done_reg' = FALSE
      /\ reg.run_enable /\ done_reg => done_reg' = done_reg
  BY EngineMoves DEF IInv, Cleared, Taken, triggerVars
<1>4. done_prev' = done_reg /\ (capture_done_int' <=> ~done_prev /\ done_reg)
  BY <1>1 DEF Irq
<1>5. interrupts' = IF Arming \/ Restart THEN 0
                    ELSE IF ~done_prev /\ done_reg /\ interrupts < 2 THEN interrupts + 1
                    ELSE interrupts
  BY <1>1, <1>4 DEF Remember
<1>6. /\ report.done \in BOOLEAN
      /\ report'.done => report.done \/ (pc = "poll" /\ pc' = "index" /\ done_reg)
      /\ pc = "poll" /\ pc' = "index" => (report'.done <=> done_reg)
  <2>1. report \in Reports  BY DEF EngineTyped
  <2>2. /\ [report EXCEPT !.done = done_reg, !.triggered = triggered_reg].done = done_reg
        /\ [report EXCEPT !.index = trigger_index_reg].done = report.done
        /\ NoReport.done = FALSE /\ report.done \in BOOLEAN
    BY <2>1 DEF Reports, NoReport
  <2>3. CASE UNCHANGED report /\ (pc' = pc \/ pc' \notin {"index", "end"})
    BY <2>2, <2>3
  <2>4. CASE /\ pc = "poll" /\ pc' = "index"
             /\ report' = [report EXCEPT !.done = done_reg, !.triggered = triggered_reg]
    BY <2>2, <2>4
  <2>5. CASE /\ pc = "index" /\ pc' = "end"
             /\ report' = [report EXCEPT !.index = trigger_index_reg]
    BY <2>2, <2>5
  <2>6. CASE Restart /\ report' = NoReport
    BY <2>2, <2>6 DEF Restart
  <2> QED  BY <1>1, <2>3, <2>4, <2>5, <2>6, Reporting DEF IInv
<1>7. CASE Arming \/ Restart
  <2>1. interrupts' = 0  BY <1>5, <1>7
  <2>2. ~reg.run_enable  BY <1>2, <1>7 DEF PlaceInv, Polling, Arming
  <2>3. ~done_reg' /\ (Arming => ~done_reg) /\ (Arming => pc \in BeforeRun)
    BY <1>2, <1>3, <2>2 DEF PlaceInv, BeforeRun, Preparing
  <2>4. CASE Arming
    <3>1. /\ done_prev' \in BOOLEAN /\ ~done_prev' /\ interrupts' \in Nat
          /\ interrupts' # 1 /\ interrupts' <= 1
      BY <1>1, <1>4, <2>1, <2>3, <2>4
    <3>2. pc' \notin AfterPoll  BY <1>2, <2>4 DEF AfterPoll
    <3> QED  BY <2>1, <2>3, <3>1, <3>2 DEF InterruptInv
  <2>5. CASE Restart
    <3>1. pc' \in BeforeRun /\ ~reg'.run_enable /\ pc' \notin AfterPoll
      BY <1>1, <1>2, <2>5 DEF PlaceInv, Polling, BeforeRun, Preparing, AfterPoll
    <3> QED BY <1>1, <1>4, <2>1, <3>1 DEF InterruptInv
  <2> QED  BY <1>7, <2>4, <2>5
<1>8. CASE ~Arming /\ ~Restart /\ pc \in BeforeRun
  <2>1. pc' \in BeforeRun /\ ~reg'.run_enable /\ pc' \notin AfterPoll
    BY <1>1, <1>2, <1>8 DEF PlaceInv, Polling, BeforeRun, Preparing, AfterPoll
  <2>2. ~done_reg /\ interrupts = 0
    BY <1>8 DEF PlaceInv, InterruptInv
  <2>3. interrupts' = 0 /\ done_prev' \in BOOLEAN
    BY <1>1, <1>4, <1>5, <1>8, <2>2
  <2> QED  BY <2>1, <2>3 DEF InterruptInv
<1>9. CASE ~Arming /\ ~Restart /\ pc \notin BeforeRun
  <2>1. pc' \notin BeforeRun  BY <1>2, <1>9
  <2>2. /\ interrupts \in Nat /\ interrupts <= 1 /\ (done_prev => interrupts = 1)
        /\ done_reg /\ ~done_prev => interrupts = 0
        /\ reg.run_enable => (done_prev => done_reg) /\ (interrupts = 1 => done_prev)
        /\ report.done /\ pc \in AfterPoll => interrupts = 1
        /\ done_prev \in BOOLEAN
    BY <1>9 DEF InterruptInv
  <2>3. /\ interrupts' \in Nat /\ interrupts' <= 1 /\ (done_prev' => interrupts' = 1)
        /\ interrupts = 1 => interrupts' = 1
    <3>1. CASE done_reg /\ ~done_prev
      BY <1>4, <1>5, <1>9, <2>2, <3>1
    <3>2. CASE ~(done_reg /\ ~done_prev)
      BY <1>4, <1>5, <1>9, <2>2, <3>2
    <3> QED  BY <3>1, <3>2
  <2>4. reg'.run_enable => reg.run_enable
    BY <1>2, <1>9 DEF Arming
  <2>5. reg.run_enable => (done_prev' => done_reg') /\ (interrupts' = 1 => done_prev')
    BY <1>1, <1>3, <1>4, <1>5, <1>9, <2>2
  <2>6. done_reg' /\ ~done_prev' => interrupts' = 0
    BY <1>1, <1>3, <1>4, <1>5, <1>9, <2>2
  <2>7. report'.done /\ pc' \in AfterPoll => interrupts' = 1
    <3>1. pc = "poll" /\ done_reg => interrupts' = 1
      BY <1>4, <2>3
    <3> QED  BY <1>2, <1>6, <2>2, <2>3, <3>1 DEF AfterPoll
  <2> QED  BY <1>1, <1>4, <2>1, <2>3, <2>4, <2>5, <2>6, <2>7 DEF InterruptInv
<1> QED  BY <1>7, <1>8, <1>9

-----------------------------------------------------------------------------
(* The window of the last samples.                                            *)
Newest(s) == s[Len(s)]

WindowInv ==
  /\ window \in Seq(Words) /\ taken <= 2 * BUFFER_DEPTH
  /\ Len(window) = IF taken < BUFFER_DEPTH THEN taken ELSE BUFFER_DEPTH
  /\ pc \in Preparing => samples_seen = 0 /\ ~last_sample_valid
  /\ reg.run_enable =>
       /\ wr_addr_reg = taken % BUFFER_DEPTH /\ samples_seen = Len(window)
       /\ last_sample_valid <=> window # << >>
       /\ window # << >> => last_sample = Newest(window)[2]
  /\ wr_en_sig => /\ window # << >> /\ wr_addr_write_reg = At(Len(window))
                  /\ sample_word_reg = Newest(window)
  /\ pc \in BeforeRun \cup {"dump", "dummy", "data"} => ~wr_en_sig
  /\ SamplesKept

(* The address of a count, as an operator that the arithmetic of the provers  *)
(* leaves alone, and its values up to twice the depth.                        *)
Turn(x) == x % BUFFER_DEPTH

(* The values of Turn up to twice the depth.                                  *)
LEMMA Remainders ==
  /\ BUFFER_DEPTH \in Nat /\ BUFFER_DEPTH > 1
  /\ \A x \in 0 .. 2 * BUFFER_DEPTH :
       Turn(x) = IF x < BUFFER_DEPTH THEN x
                 ELSE IF x < 2 * BUFFER_DEPTH THEN x - BUFFER_DEPTH ELSE 0
  BY BufferAssumption DEF Turn

(* Two samples of the window are at different addresses.                      *)
LEMMA AddressesDiffer ==
  ASSUME taken \in Nat, taken <= 2 * BUFFER_DEPTH,
         Len(window) = IF taken < BUFFER_DEPTH THEN taken ELSE BUFFER_DEPTH,
         NEW i \in 1 .. Len(window), NEW j \in 1 .. Len(window), i # j
  PROVE  At(i) \in Addresses /\ At(i) # At(j)
<1> DEFINE a == taken - Len(window) + i - 1
           b == taken - Len(window) + j - 1
<1>1. a \in 0 .. 2 * BUFFER_DEPTH /\ b \in 0 .. 2 * BUFFER_DEPTH /\ a # b
      /\ a < 2 * BUFFER_DEPTH /\ b < 2 * BUFFER_DEPTH
      /\ a - b < BUFFER_DEPTH /\ b - a < BUFFER_DEPTH
  BY Remainders
<1>2. At(i) = Turn(a) /\ At(j) = Turn(b)
  BY DEF At, Turn
<1> HIDE DEF a, b
<1>3. /\ Turn(a) = IF a < BUFFER_DEPTH THEN a ELSE a - BUFFER_DEPTH
      /\ Turn(b) = IF b < BUFFER_DEPTH THEN b ELSE b - BUFFER_DEPTH
  BY <1>1, Remainders
<1>4. Turn(a) # Turn(b) /\ Turn(a) \in 0 .. BUFFER_DEPTH - 1
  BY <1>1, <1>3, Remainders
<1> QED  BY <1>2, <1>4 DEF Addresses

(* A sample joins the window at its end; once it is full the oldest leaves.   *)
LEMMA WindowGrows ==
  ASSUME NEW resp, window \in Seq(Words), taken \in Nat, taken <= 2 * BUFFER_DEPTH,
         Len(window) = IF taken < BUFFER_DEPTH THEN taken ELSE BUFFER_DEPTH,
         Word(resp) \in Words, ~Arming, ~Restart, Taken(resp), Remember(resp)
  PROVE  /\ window' \in Seq(Words) /\ taken' \in Nat /\ taken' <= 2 * BUFFER_DEPTH
         /\ Len(window') = IF taken' < BUFFER_DEPTH THEN taken' ELSE BUFFER_DEPTH
         /\ Len(window') = IF Len(window) < BUFFER_DEPTH THEN Len(window) + 1 ELSE Len(window)
         /\ Len(window') > 0 /\ Newest(window)' = Word(resp)
         /\ Turn(taken)' = Turn(Turn(taken) + 1)
         /\ taken' = Len(window') => taken < BUFFER_DEPTH
         /\ At(Len(window))' = Turn(taken)
         /\ \A i \in 1 .. Len(window') - 1 :
              /\ i + Len(window) + 1 - Len(window') \in 1 .. Len(window)
              /\ window'[i] = window[i + Len(window) + 1 - Len(window')]
              /\ At(i)' = At(i + Len(window) + 1 - Len(window'))
<1> DEFINE D == BUFFER_DEPTH
           w == Word(resp)
<1>1. /\ window' = IF Len(window) < D THEN Append(window, w) ELSE Append(Tail(window), w)
      /\ taken' = IF taken = 2 * D THEN D + 1 ELSE taken + 1
  BY DEF Remember
<1>2. D \in Nat /\ D > 1  BY Remainders
<1>3. taken' \in Nat /\ taken' <= 2 * D
  BY <1>1, <1>2
<1>4. /\ window' \in Seq(Words) /\ Newest(window)' = w
      /\ Len(window') = IF Len(window) < D THEN Len(window) + 1 ELSE Len(window)
      /\ \A i \in 1 .. Len(window') - 1 :
           /\ i + Len(window) + 1 - Len(window') \in 1 .. Len(window)
           /\ window'[i] = window[i + Len(window) + 1 - Len(window')]
  <2>1. CASE Len(window) < D
    <3>1. window' = Append(window, w)  BY <1>1, <2>1
    <3> HIDE DEF w
    <3>2. window' \in Seq(Words) /\ Len(window') = Len(window) + 1
          /\ window'[Len(window) + 1] = w
          /\ \A i \in 1 .. Len(window) : window'[i] = window[i]
      BY <3>1 DEF w
    <3>3. Newest(window)' = window'[Len(window) + 1]  BY <3>2 DEF Newest
    <3>4. \A i \in 1 .. Len(window) : i + Len(window) + 1 - (Len(window) + 1) = i
      OBVIOUS
    <3> QED  BY <2>1, <3>2, <3>3, <3>4
  <2>2. CASE ~(Len(window) < D)
    <3>1. window' = Append(Tail(window), w) /\ window # << >> /\ Len(window) = D
      BY <1>1, <1>2, <2>2
    <3> HIDE DEF w
    <3>2. Tail(window) \in Seq(Words) /\ Len(Tail(window)) = Len(window) - 1
          /\ \A i \in 1 .. Len(window) - 1 : Tail(window)[i] = window[i + 1]
      BY <3>1
    <3>3. window' \in Seq(Words) /\ Len(window') = Len(window)
          /\ window'[Len(window)] = w
          /\ \A i \in 1 .. Len(window) - 1 : window'[i] = Tail(window)[i]
      BY <1>2, <3>1, <3>2 DEF w
    <3> QED  BY <1>2, <2>2, <3>1, <3>2, <3>3 DEF Newest
  <2> QED  BY <2>1, <2>2
<1> HIDE DEF w
<1>5. /\ Len(window') = IF taken' < D THEN taken' ELSE D
      /\ Len(window') > 0 /\ Len(window') \in Nat
      /\ taken' = Len(window') => taken < D
  BY <1>1, <1>2, <1>4
<1>6. Turn(taken') = Turn(Turn(taken) + 1)
  <2>1. taken \in 0 .. 2 * D /\ taken' \in 0 .. 2 * D /\ Turn(taken) \in 0 .. D - 1
        /\ Turn(taken) + 1 \in 0 .. 2 * D
    BY <1>2, <1>3, Remainders
  <2>2. CASE taken = 2 * D
    <3>1. Turn(taken) = 0 /\ taken' = D + 1 /\ D + 1 \in 0 .. 2 * D
      BY <1>1, <1>2, <2>1, <2>2, Remainders
    <3>2. Turn(D + 1) = 1 /\ Turn(1) = 1
      BY <1>2, <3>1, Remainders
    <3> QED  BY <3>1, <3>2
  <2>3. CASE taken # 2 * D
    <3>1. taken' = taken + 1  BY <1>1, <2>3
    <3>2. Turn(taken) = IF taken < D THEN taken ELSE taken - D
      BY <1>2, <2>1, <2>3, Remainders
    <3>3. Turn(taken') = IF taken' < D THEN taken' ELSE IF taken' < 2 * D THEN taken' - D ELSE 0
      BY <2>1, Remainders
    <3>4. \A m \in 0 .. D - 1 : Turn(m + 1) = IF m + 1 < D THEN m + 1 ELSE 0
      BY <1>2, Remainders
    <3>5. Turn(Turn(taken) + 1) = IF Turn(taken) + 1 < D THEN Turn(taken) + 1 ELSE 0
      BY <2>1, <3>4
    <3> QED  BY <1>2, <2>1, <2>3, <3>1, <3>2, <3>3, <3>5
  <2> QED  BY <2>2, <2>3
<1>7. At(Len(window))' = Turn(taken)
  <2>1. taken \in 0 .. 2 * D /\ taken' - 1 \in 0 .. 2 * D
    BY <1>1, <1>2, <1>3
  <2>2. At(Len(window))' = Turn(taken' - 1)
    <3>1. taken' - Len(window') + Len(window') - 1 = taken' - 1  BY <1>3, <1>5
    <3> QED  BY <3>1 DEF At, Turn
  <2>3. CASE taken = 2 * D
    <3>1. Turn(taken) = 0 /\ taken' - 1 = D /\ Turn(D) = 0
      BY <1>1, <1>2, <2>1, <2>3, Remainders
    <3> QED  BY <2>2, <3>1
  <2>4. CASE taken # 2 * D
    <3>1. taken' - 1 = taken  BY <1>1, <2>4
    <3> QED  BY <2>2, <3>1
  <2> QED  BY <2>3, <2>4
<1>8. ASSUME NEW i \in 1 .. Len(window') - 1
      PROVE  At(i)' = At(i + Len(window) + 1 - Len(window'))
  <2> DEFINE x == taken' - Len(window') + i - 1
             y == taken - Len(window) + (i + Len(window) + 1 - Len(window')) - 1
  <2>1. At(i)' = Turn(x) /\ At(i + Len(window) + 1 - Len(window')) = Turn(y)
    BY DEF At, Turn
  <2>0. Len(window) \in Nat  OBVIOUS
  <2>2. x \in 0 .. 2 * D /\ y \in 0 .. 2 * D /\ (x = y \/ (x < D /\ y = x + D))
    <3>1. CASE taken = 2 * D
      <4>1. taken' = D + 1 /\ Len(window) = D /\ Len(window') = D
        BY <1>1, <1>2, <1>4, <3>1
      <4>2. x = i /\ y = D + i  BY <1>2, <3>1, <4>1
      <4> QED  BY <1>2, <4>1, <4>2
    <3>2. CASE taken # 2 * D
      <4>1. taken' = taken + 1 /\ taken < 2 * D  BY <1>1, <1>2, <3>2
      <4>2. x = y  BY <1>2, <1>5, <2>0, <4>1
      <4>3. x \in 0 .. 2 * D  BY <1>2, <1>5, <4>1
      <4> QED  BY <4>2, <4>3
    <3> QED  BY <3>1, <3>2
  <2> HIDE DEF x, y
  <2>3. Turn(x) = Turn(y)
    BY <1>2, <2>2, Remainders
  <2> QED  BY <2>1, <2>3
<1> QED  BY <1>3, <1>4, <1>5, <1>6, <1>7, <1>8 DEF w

(* Between runs the engine is cleared and the window is kept or emptied; in a *)
(* run a sample joins it or nothing happens.                                  *)
LEMMA RunStep ==
  ASSUME NEW ready, NEW resp \in Answers, IInv, PlaceInv, EngineTyped, Edge(ready, resp)
  PROVE  /\ \/ /\ ~reg.run_enable /\ Cleared /\ UNCHANGED wordVars
               /\ \/ window' = << >> /\ taken' = 0
                  \/ ~reg'.run_enable /\ UNCHANGED <<window, taken>>
            \/ /\ reg.run_enable /\ ~Taken(resp) /\ wr_en_sig' = FALSE
               /\ UNCHANGED <<runVars, triggerVars, last_sample, wordVars, window, taken>>
            \/ /\ reg.run_enable /\ Sample(resp) /\ Taken(resp) /\ Word(resp) \in Words
               /\ ~Arming /\ ~Restart
         /\ reg.run_enable /\ reg'.run_enable => reg' = reg /\ pc \notin BeforeRun
         /\ pc' \in BeforeRun \cup {"dump", "dummy", "data"} => ~reg.run_enable
<1>1. Program /\ UNCHANGED settings /\ Remember(resp) /\ ProgramInv
  BY DEF Edge, IInv
<1>2. /\ reg'.run_enable => reg' = settings'
      /\ reg.run_enable => reg = settings
      /\ Restart => ~reg.run_enable
      /\ pc' \in BeforeRun => pc \in BeforeRun \/ Restart
      /\ pc' \in {"dump", "dummy", "data"} => ~reg.run_enable
  BY <1>1, Moves DEF PlaceInv
<1>3. reg.run_enable => pc \notin BeforeRun /\ ~Arming
  BY DEF PlaceInv, Polling, BeforeRun, Preparing, Arming
<1>4. reg.run_enable /\ reg'.run_enable => reg' = reg
  BY <1>1, <1>2
<1>5. pc' \in BeforeRun \cup {"dump", "dummy", "data"} => ~reg.run_enable
  BY <1>2, <1>3
<1>6. CASE ~reg.run_enable
  <2>1. Cleared /\ UNCHANGED wordVars /\ ~Taken(resp)
    BY <1>1, <1>6, EngineMoves DEF Taken
  <2>2. \/ window' = << >> /\ taken' = 0
        \/ ~reg'.run_enable /\ UNCHANGED <<window, taken>>
    BY <1>1, <1>6, <2>1 DEF Remember, Arming
  <2> QED  BY <1>3, <1>4, <1>5, <1>6, <2>1, <2>2
<1>7. CASE reg.run_enable /\ ~Taken(resp)
  <2>1. UNCHANGED <<window, taken>>
    BY <1>1, <1>2, <1>3, <1>7 DEF Remember
  <2>2. wr_en_sig' = FALSE /\ UNCHANGED <<runVars, triggerVars, last_sample, wordVars>>
    BY <1>1, <1>7, EngineMoves
  <2> QED  BY <1>3, <1>4, <1>5, <1>7, <2>1, <2>2
<1>8. CASE reg.run_enable /\ Taken(resp)
  <2>1. Sample(resp) /\ Word(resp) \in Words
    BY <1>1, <1>8, EngineMoves, Answered
  <2> QED  BY <1>2, <1>3, <1>4, <1>5, <1>8, <2>1
<1> QED  BY <1>6, <1>7, <1>8

(* After the edge every sample of the old window is in the buffer, and where  *)
(* it was.                                                                    *)
LEMMA Landed ==
  ASSUME NEW ready, NEW resp, CountInv, EngineTyped, WindowInv, Edge(ready, resp),
         NEW i \in 1 .. Len(window)
  PROVE  ram'[At(i)] = window[i]
<1>1. /\ ram' = IF wr_en_sig THEN [ram EXCEPT ![wr_addr_write_reg] = sample_word_reg] ELSE ram
      /\ ram \in [Addresses -> Samples] /\ taken \in Nat
  BY DEF Edge, BufferEdge, EngineTyped, CountInv
<1>2. /\ wr_en_sig => /\ wr_addr_write_reg = At(Len(window))
                      /\ sample_word_reg = window[Len(window)]
      /\ window \in Seq(Words) /\ taken <= 2 * BUFFER_DEPTH
      /\ Len(window) = IF taken < BUFFER_DEPTH THEN taken ELSE BUFFER_DEPTH
  BY DEF WindowInv, Newest
<1>3. i \in DOMAIN window /\ Len(window) \in 1 .. Len(window)
  BY <1>2
<1>4. \/ ram[At(i)] = window[i]
      \/ i = Len(window) /\ wr_en_sig
  BY <1>3 DEF WindowInv, SamplesKept
<1>5. CASE wr_en_sig /\ i = Len(window)
  <2>1. At(i) \in Addresses
    <3>1. At(i) = wr_addr_write_reg  BY <1>2, <1>5
    <3> QED  BY <3>1 DEF EngineTyped
  <2> QED  BY <1>1, <1>2, <1>5, <2>1
<1>6. CASE wr_en_sig /\ i # Len(window)
  <2>1. At(i) \in Addresses /\ At(i) # At(Len(window))
    BY <1>1, <1>2, <1>3, <1>6, AddressesDiffer
  <2> QED  BY <1>1, <1>2, <1>4, <1>6, <2>1
<1>7. CASE ~wr_en_sig
  BY <1>1, <1>4, <1>7
<1> QED  BY <1>5, <1>6, <1>7

(* The window and the buffer agree after every edge.                          *)
LEMMA WindowKept ==
  ASSUME NEW ready, NEW resp \in Answers, IInv, PlaceInv, EngineTyped, WindowInv,
         Edge(ready, resp)
  PROVE  WindowInv'
<1> DEFINE D == BUFFER_DEPTH
<1>1. /\ reg.run_enable /\ reg'.run_enable => reg' = reg
      /\ pc' \in BeforeRun \cup {"dump", "dummy", "data"} => ~reg.run_enable
  BY RunStep
<1>2. D \in Nat /\ D > 1 /\ Turn(0) = 0
  BY Remainders
<1>3. /\ window \in Seq(Words) /\ taken \in Nat /\ taken <= 2 * D
      /\ Len(window) = IF taken < D THEN taken ELSE D
  BY DEF WindowInv, IInv, CountInv
<1>4. CASE /\ ~reg.run_enable /\ Cleared
           /\ window' = << >> /\ taken' = 0
  <2>1. Len(window') = 0 /\ window' \in Seq(Words) /\ taken' % D = 0
    BY <1>2, <1>4 DEF Turn
  <2>2. ~wr_en_sig' /\ samples_seen' = 0 /\ ~last_sample_valid' /\ wr_addr_reg' = 0
    BY <1>4 DEF Cleared
  <2>3. SamplesKept'
    BY <1>4 DEF SamplesKept
  <2>4. taken' <= 2 * D /\ Len(window') = IF taken' < D THEN taken' ELSE D
    BY <1>2, <1>4, <2>1
  <2> QED  BY <1>4, <2>1, <2>2, <2>3, <2>4 DEF WindowInv
<1>5. CASE /\ ~reg.run_enable /\ Cleared
           /\ ~reg'.run_enable /\ UNCHANGED <<window, taken>>
  <2>1. \A i \in 1 .. Len(window') : ram'[At(i)'] = window'[i]
    BY <1>5, Landed DEF At, IInv
  <2>2. SamplesKept'
    BY <1>3, <1>5, <2>1 DEF SamplesKept
  <2>3. ~wr_en_sig' /\ samples_seen' = 0 /\ ~last_sample_valid'
    BY <1>5 DEF Cleared
  <2> QED  BY <1>3, <1>5, <2>2, <2>3 DEF WindowInv
<1>6. CASE /\ reg.run_enable /\ ~Taken(resp) /\ wr_en_sig' = FALSE
           /\ UNCHANGED <<runVars, last_sample, window, taken>>
  <2>1. \A i \in 1 .. Len(window') : ram'[At(i)'] = window'[i]
    BY <1>6, Landed DEF At, IInv
  <2>2. SamplesKept'
    BY <1>3, <1>6, <2>1 DEF SamplesKept
  <2>3. pc' \notin Preparing
    BY <1>1, <1>6 DEF BeforeRun
  <2>4. /\ wr_addr_reg' = taken' % BUFFER_DEPTH /\ samples_seen' = Len(window')
        /\ last_sample_valid' <=> window' # << >>
        /\ window' # << >> => last_sample' = Newest(window)'[2]
    BY <1>6 DEF WindowInv, runVars, Newest
  <2> QED  BY <1>3, <1>6, <2>2, <2>3, <2>4 DEF WindowInv
<1>7. CASE /\ reg.run_enable /\ Sample(resp) /\ Taken(resp) /\ Word(resp) \in Words
           /\ ~Arming /\ ~Restart
  <2>1. /\ window' \in Seq(Words) /\ taken' \in Nat /\ taken' <= 2 * D
        /\ Len(window') = IF taken' < D THEN taken' ELSE D
        /\ Len(window') = IF Len(window) < D THEN Len(window) + 1 ELSE Len(window)
        /\ Len(window') > 0 /\ Newest(window)' = Word(resp)
        /\ Turn(taken)' = Turn(Turn(taken) + 1)
        /\ At(Len(window))' = Turn(taken)
        /\ \A i \in 1 .. Len(window') - 1 :
             /\ i + Len(window) + 1 - Len(window') \in 1 .. Len(window)
             /\ window'[i] = window[i + Len(window) + 1 - Len(window')]
             /\ At(i)' = At(i + Len(window) + 1 - Len(window'))
    BY <1>3, <1>7, WindowGrows DEF Edge
  <2>2. /\ wr_addr_reg = Turn(taken) /\ samples_seen = Len(window)
    BY <1>7 DEF WindowInv, Turn
  <2>3. /\ wr_addr_reg' = Turn(wr_addr_reg + 1) /\ wr_addr_write_reg' = wr_addr_reg
        /\ sample_word_reg' = Word(resp) /\ wr_en_sig' = TRUE
        /\ last_sample' = resp.data /\ last_sample_valid' = TRUE
        /\ samples_seen' = IF samples_seen < D THEN samples_seen + 1 ELSE samples_seen
    BY <1>7 DEF Sample, StoreWord, Turn
  <2>4. Word(resp)[2] = resp.data  BY <1>7, Answered
  <2>5. ASSUME NEW i \in DOMAIN window'
        PROVE  \/ ram'[At(i)'] = window'[i]
               \/ /\ i = Len(window') /\ wr_en_sig' /\ wr_addr_write_reg' = At(i)'
                  /\ sample_word_reg' = window'[i]
    <3>1. i \in 1 .. Len(window')  BY <2>1
    <3>2. CASE i = Len(window')
      <4>1. At(i)' = At(Len(window))'  BY <3>2 DEF At
      <4>2. window'[i] = Word(resp)  BY <2>1, <3>2 DEF Newest
      <4> QED  BY <2>1, <2>2, <2>3, <3>2, <4>1, <4>2
    <3>3. CASE i # Len(window')
      <4>1. i \in 1 .. Len(window') - 1  BY <2>1, <3>1, <3>3
      <4>2. PICK j \in 1 .. Len(window) : window'[i] = window[j] /\ At(i)' = At(j)
        BY <2>1, <4>1
      <4> QED  BY <4>2, Landed DEF IInv
    <3> QED  BY <3>2, <3>3
  <2>6. SamplesKept'
    BY <2>5 DEF SamplesKept
  <2>7. pc' \notin BeforeRun \cup {"dump", "dummy", "data"} /\ pc' \notin Preparing
    BY <1>1, <1>7 DEF BeforeRun
  <2>8. window' # << >>  BY <2>1
  <2>9. /\ wr_addr_reg' = taken' % BUFFER_DEPTH /\ samples_seen' = Len(window')
        /\ last_sample_valid' <=> window' # << >>
        /\ last_sample' = Newest(window)'[2]
    <3>1. wr_addr_reg' = taken' % BUFFER_DEPTH  BY <2>1, <2>2, <2>3 DEF Turn
    <3>2. samples_seen' = Len(window')  BY <2>1, <2>2, <2>3
    <3> QED  BY <2>1, <2>3, <2>4, <2>8, <3>1, <3>2
  <2>10. wr_addr_write_reg' = At(Len(window))' /\ sample_word_reg' = Newest(window)'
    BY <2>1, <2>2, <2>3
  <2> QED  BY <2>1, <2>6, <2>7, <2>8, <2>9, <2>10 DEF WindowInv
<1> QED  BY <1>4, <1>5, <1>6, <1>7, RunStep
-----------------------------------------------------------------------------
(* The trigger.  That the trigger is the first crossing needs FourBits: the   *)
(* engine compares five bits of the channel, and the words keep four.         *)
Fits(s) ==
  /\ s.trigger_enable => s.pre_trigger_count + 1 + s.post_trigger_count <= BUFFER_DEPTH
  /\ FourBits => s.adc_channel \in 0 .. 15 /\ s.trigger_channel \in 0 .. 15

TriggerFound ==
  reg.run_enable /\ reg.trigger_enable =>
    /\ done_reg <=> triggered_reg /\ post_remaining = 0
    /\ triggered_reg =>
         /\ post_remaining <= reg.post_trigger_count
         /\ wr_addr_reg = Turn(trigger_index_reg + After + 1)
         /\ Len(window) > After /\ Len(window) - After > reg.pre_trigger_count
         /\ Len(window) - After > 1 => Crossing(Len(window) - After)
    /\ FourBits /\ taken = Len(window) =>
         \A i \in 1 .. Len(window) :
           Crossing(i) => triggered_reg /\ i >= Len(window) - After

TriggerInv ==
  /\ Fits(settings)
  /\ FourBits => converting.channel \in 0 .. 15 /\ reg.adc_channel \in 0 .. 15
  /\ reg.run_enable /\ triggered_reg => reg.trigger_enable
  /\ TriggerFound

(* The constants of the program fit the buffer.                               *)
LEMMA SettingsFit ==
  \A s \in Untriggered \union Triggered : Fits(s)
<1> DEFINE Low(s) == FourBits => s.adc_channel \in 0 .. 15 /\ s.trigger_channel \in 0 .. 15
<1>1. /\ Off \in Settings /\ ~Off.trigger_enable
      /\ \A c \in CHANNELS : c \in Nat /\ (FourBits => c \in 0 .. 15)
  BY BufferAssumption DEF Off, Settings, FourBits
<1>2. \A s \in Timing : s \in Settings /\ ~s.trigger_enable /\ Low(s)
  <2> TAKE u \in Timing
  <2>0. PICK p \in Periods, c \in CHANNELS : u = Timed(p, c)
    BY DEF Timing
  <2>1. p[1] \in Nat /\ p[2] \in Nat  BY ProgramAssumption DEF Selections
  <2>2. Off.trigger_channel = 0  BY DEF Off
  <2>3. /\ u.adc_channel = c /\ u.trigger_channel = 0 /\ ~u.trigger_enable
    BY <1>1, <2>0, <2>1, <2>2 DEF Settings, Timed
  <2>4. u \in Settings  BY <1>1, <2>0, <2>1 DEF Settings, Timed
  <2> QED  BY <1>1, <2>3, <2>4
<1>3. \A s \in Scanning : s \in Settings /\ ~s.trigger_enable /\ Low(s)
  <2> TAKE u \in Scanning
  <2> SUFFICES ASSUME u \notin Timing
               PROVE  u \in Settings /\ ~u.trigger_enable /\ Low(u)
    BY <1>2
  <2>0. PICK s \in Timing, len \in ScanLengths : u = Scan(s, len)
    BY DEF Scanning
  <2>1. len \in Nat  BY ProgramAssumption
  <2> QED  BY <1>2, <2>0, <2>1 DEF Settings, Scan
<1>4. \A s \in Untriggered : ~s.trigger_enable /\ Low(s)
  <2> TAKE u \in Untriggered
  <2>0. PICK s \in Scanning, single \in BOOLEAN : u = Shot(s, single)
    BY DEF Untriggered
  <2> QED  BY <1>3, <2>0 DEF Settings, Shot
<1>5. ASSUME NEW u \in Triggered
      PROVE  /\ u.pre_trigger_count + 1 + u.post_trigger_count <= BUFFER_DEPTH
             /\ Low(u)
  <2>0. PICK s \in Scanning, t \in Triggers : u = OnTrigger(s, t)
    BY DEF Triggered
  <2>1. t[3] + 1 + t[4] <= BUFFER_DEPTH
    BY ProgramAssumption
  <2>2. /\ u.adc_channel = s.adc_channel /\ u.trigger_channel = s.adc_channel
        /\ u.pre_trigger_count = t[3] /\ u.post_trigger_count = t[4]
    BY <1>3, <2>0 DEF Settings, OnTrigger
  <2> QED  BY <1>3, <2>1, <2>2
<1> QED  BY <1>4, <1>5 DEF Fits

(* The registers that a run leaves for the program.                           *)
LEMMA Registers ==
  ASSUME ProgramInv, PlaceInv, Program, UNCHANGED settings
  PROVE  /\ reg'.adc_channel = reg.adc_channel \/ reg'.adc_channel = settings.adc_channel
         /\ pc' \in AfterPoll => /\ reg'.pre_trigger_count = reg.pre_trigger_count
                                 /\ reg'.post_trigger_count = reg.post_trigger_count
<1> USE DEF ProgramInv
<1>1. CASE Wait
  BY <1>1 DEF Wait, NoWrite
<1>2. CASE Stop
  BY <1>2 DEF Stop, WriteReg, Control, Settings
<1>3. CASE SoftReset
  BY <1>3 DEF SoftReset, Control, Settings
<1>4. CASE Sleep
  BY <1>4 DEF Sleep, NoWrite
<1>5. CASE WritePeriod
  BY <1>5 DEF WritePeriod, WriteReg, Settings
<1>6. CASE WritePrescaler
  BY <1>6 DEF WritePrescaler, WriteReg, Settings
<1>7. CASE WriteMode
  BY <1>7 DEF WriteMode, WriteReg, Settings, Goto, AfterPoll
<1>8. CASE Arm
  BY <1>8 DEF Arm, WriteReg, Goto, AfterPoll
<1>9. CASE ReadStatus
  BY <1>9 DEF ReadStatus, NoWrite
<1>10. CASE ReadIndex
  BY <1>10 DEF ReadIndex, NoWrite
<1>11. CASE DumpAddress
  BY <1>11 DEF DumpAddress, WriteAddress
<1>12. CASE DumpRead
  BY <1>12 DEF DumpRead, NoWrite
<1> QED
  BY <1>1, <1>2, <1>3, <1>4, <1>5, <1>6, <1>7, <1>8, <1>9, <1>10, <1>11, <1>12 DEF Program

(* The channel of a conversion is one of the program's.                       *)
LEMMA ChannelsKept ==
  ASSUME NEW ready, NEW resp, IInv, PlaceInv, EngineTyped, TriggerInv, FourBits,
         Edge(ready, resp)
  PROVE  converting'.channel \in 0 .. 15 /\ reg'.adc_channel \in 0 .. 15
<1>1. settings.adc_channel \in 0 .. 15 /\ reg.adc_channel \in 0 .. 15
      /\ converting.channel \in 0 .. 15
  BY DEF TriggerInv, Fits
<1>2. reg'.adc_channel \in 0 .. 15
  BY <1>1, Registers DEF Edge, IInv
<1>3. cmd_channel \in 0 .. 15
  <2>1. scan_idx \in Nat  BY DEF EngineTyped
  <2>2. (IF scan_idx > 5 THEN 5 ELSE scan_idx) + 1 \in 1 .. 6  BY <2>1
  <2> QED  BY <1>1, <2>2 DEF cmd_channel, FourBits
<1>4. converting'.channel \in 0 .. 15
  BY <1>1, <1>3 DEF Edge, Adc, Idle, EngineTyped
<1> QED  BY <1>2, <1>4

(* A sample of a run that waits for its trigger or counts after it.           *)
LEMMA SampleFinds ==
  ASSUME NEW ready, NEW resp \in Answers, IInv, PlaceInv, EngineTyped, WindowInv, TriggerInv,
         Edge(ready, resp), reg.run_enable, reg.trigger_enable, reg' = reg,
         Sample(resp), Taken(resp), Word(resp) \in Words, ~Arming, ~Restart
  PROVE  TriggerFound'
<1> DEFINE D == BUFFER_DEPTH
           pre == reg.pre_trigger_count
           post == reg.post_trigger_count
<1>1. PICK n : n = Len(window)
  OBVIOUS
<1>2. PICK m : m = Len(window')
  OBVIOUS
<1>3. /\ D \in Nat /\ D > 1
      /\ window \in Seq(Words) /\ taken \in Nat /\ taken <= 2 * D
      /\ n = IF taken < D THEN taken ELSE D
  BY <1>1, Remainders DEF WindowInv, IInv, CountInv
<1>4. /\ reg = settings /\ reg \in Settings
      /\ pre \in Nat /\ post \in Nat /\ pre + 1 + post <= D
  BY DEF PlaceInv, IInv, ProgramInv, TriggerInv, Fits, Settings
<1>5. /\ taken' \in Nat /\ m = IF n < D THEN n + 1 ELSE n
      /\ m \in Nat /\ n \in Nat /\ m > 0
      /\ window'[m] = Word(resp) /\ (taken' = m => taken < D /\ taken = n)
      /\ \A i \in 1 .. m - 1 : /\ i + n + 1 - m \in 1 .. n
                               /\ window'[i] = window[i + n + 1 - m]
  BY <1>1, <1>2, <1>3, WindowGrows DEF Edge, Newest
<1>6. /\ wr_addr_reg = Turn(taken) /\ samples_seen = n
      /\ last_sample_valid <=> n # 0
      /\ n # 0 => last_sample = window[n][2]
  BY <1>1, <1>3 DEF WindowInv, Newest, Turn
<1>7. /\ window'[m][1] = resp.channel % 16 /\ window'[m][2] = resp.data
  BY <1>5, Answered
<1>8. ASSUME NEW i \in 2 .. m - 1, Crossing(i + n + 1 - m), i > pre
      PROVE  Crossing(i)'
  <2>1. /\ i \in 1 .. m - 1 /\ i - 1 \in 1 .. m - 1
        /\ (i - 1) + n + 1 - m = (i + n + 1 - m) - 1
    BY <1>5
  <2>2. /\ window'[i] = window[i + n + 1 - m]
        /\ window'[i - 1] = window[(i + n + 1 - m) - 1]
    BY <1>5, <2>1
  <2> QED  BY <1>8, <2>1, <2>2 DEF Crossing, Crosses
<1>9. ASSUME NEW i \in 1 .. m - 1, taken' = m, Crossing(i)'
      PROVE  Crossing(i)
  <2>1. i > 1  BY <1>9 DEF Crossing
  <2>2. i + n + 1 - m = i /\ i - 1 \in 1 .. m - 1 /\ (i - 1) + n + 1 - m = i - 1
    <3>1. m = n + 1  BY <1>3, <1>5, <1>9
    <3>2. i \in Nat /\ i <= m - 1  BY <1>5
    <3> QED  BY <1>5, <2>1, <3>1, <3>2
  <2>3. window'[i] = window[i] /\ window'[i - 1] = window[i - 1]
    BY <1>5, <2>2
  <2> QED  BY <1>9, <2>3 DEF Crossing, Crosses
<1>10. Crossing(m)' <=> /\ m > 1 /\ m > pre /\ resp.channel % 16 = reg.trigger_channel % 16
                        /\ Crosses(last_sample, resp.data)
  <2>1. m > 1 => window'[m - 1][2] = last_sample
    <3> SUFFICES ASSUME m > 1 PROVE window'[m - 1][2] = last_sample  OBVIOUS
    <3>1. m - 1 \in 1 .. m - 1 /\ (m - 1) + n + 1 - m = n /\ n # 0
      BY <1>3, <1>5
    <3>2. window'[m - 1] = window[n]  BY <1>5, <3>1
    <3> QED  BY <1>6, <3>1, <3>2
  <2> QED  BY <1>7, <2>1 DEF Crossing, Crosses
<1>11. FourBits => /\ resp.channel % 16 = resp.channel
                   /\ reg.trigger_channel % 16 = reg.trigger_channel
  <2> SUFFICES ASSUME FourBits
               PROVE  /\ resp.channel % 16 = resp.channel
                      /\ reg.trigger_channel % 16 = reg.trigger_channel
    OBVIOUS
  <2>1. resp.channel \in 0 .. 15 /\ reg.trigger_channel \in 0 .. 15
    BY <1>4, Answered DEF TriggerInv, Fits
  <2>2. \A c \in 0 .. 15 : c % 16 = c
    OBVIOUS
  <2> QED  BY <2>1, <2>2
<1>12. Hit(resp) => m > pre /\ m > 1 /\ Crossing(m)'
  <2> SUFFICES ASSUME Hit(resp) PROVE m > pre /\ m > 1 /\ Crossing(m)'  OBVIOUS
  <2>1. /\ n # 0 /\ n >= pre /\ resp.channel = reg.trigger_channel
        /\ Crosses(last_sample, resp.data)
    BY <1>6 DEF Hit
  <2>2. m > pre /\ m > 1  BY <1>3, <1>4, <1>5, <2>1
  <2> QED  BY <1>10, <2>1, <2>2
<1>13. FourBits /\ taken' = m /\ Crossing(m)' => Hit(resp) \/ triggered_reg
  BY <1>3, <1>4, <1>5, <1>6, <1>10, <1>11 DEF Hit
<1>14. /\ done_reg <=> triggered_reg /\ post_remaining = 0
       /\ triggered_reg =>
            /\ post_remaining <= post
            /\ wr_addr_reg = Turn(trigger_index_reg + After + 1)
            /\ n > After /\ n - After > pre
            /\ n - After > 1 => Crossing(n - After)
       /\ FourBits /\ taken = n =>
            \A i \in 1 .. n : Crossing(i) => triggered_reg /\ i >= n - After
  BY <1>1 DEF TriggerInv, TriggerFound
<1>15. ~done_reg /\ wr_addr_reg' = Turn(wr_addr_reg + 1)
  BY DEF Sample, Taken, Turn
<1>16. SUFFICES ASSUME NEW after, NEW k, after = After', k = m - after
                PROVE  /\ done_reg' <=> triggered_reg' /\ post_remaining' = 0
                       /\ triggered_reg' =>
                            /\ post_remaining' <= post
                            /\ wr_addr_reg' = Turn(trigger_index_reg' + after + 1)
                            /\ m > after /\ k > pre
                            /\ k > 1 => Crossing(k)'
                       /\ FourBits /\ taken' = m =>
                            \A i \in 1 .. m : Crossing(i)' => triggered_reg' /\ i >= k
  BY <1>2 DEF TriggerFound, Turn, Crossing, After
<1>17. CASE Hit(resp) /\ TriggerHere
  <2>1. /\ triggered_reg' = TRUE /\ trigger_index_reg' = wr_addr_reg
        /\ post_remaining' = post /\ (done_reg' <=> post = 0)
        /\ ~triggered_reg
    BY <1>17 DEF TriggerHere, Hit
  <2>2. after = 0 /\ k = m  BY <1>4, <1>5, <1>16, <2>1 DEF After
  <2>3. wr_addr_reg \in Nat /\ wr_addr_reg' = Turn(trigger_index_reg' + after + 1)
    BY <1>15, <2>1, <2>2 DEF IInv, CountInv, Addresses
  <2>4. ASSUME NEW i \in 1 .. m, FourBits, taken' = m, Crossing(i)'
        PROVE  i >= k
    <3> SUFFICES ASSUME i \in 1 .. m - 1 PROVE FALSE
      BY <1>5, <2>2
    <3>1. Crossing(i) /\ i \in 1 .. n /\ taken = n  BY <1>5, <1>9, <2>4
    <3> QED  BY <1>14, <2>1, <2>4, <3>1
  <2> QED  BY <1>4, <1>5, <1>12, <1>17, <2>1, <2>2, <2>3, <2>4
<1>18. CASE ~Hit(resp) /\ triggered_reg /\ AfterTrigger
  <2>1. /\ post_remaining \in Nat /\ post_remaining # 0 /\ post_remaining <= post
        /\ trigger_index_reg \in Addresses
    BY <1>14, <1>15, <1>18 DEF EngineTyped
  <2>2. /\ triggered_reg' = triggered_reg /\ trigger_index_reg' = trigger_index_reg
        /\ post_remaining' = post_remaining - 1
        /\ (done_reg' <=> post_remaining = 1)
    BY <1>18, <2>1 DEF AfterTrigger
  <2>3. /\ After \in Nat /\ after = After + 1 /\ after <= post
        /\ post_remaining' = 0 <=> post_remaining = 1
    BY <1>4, <1>16, <2>1, <2>2 DEF After
  <2>4. wr_addr_reg' = Turn(trigger_index_reg' + after + 1)
    <3>1. \A x \in 0 .. 2 * D - 1 : Turn(Turn(x) + 1) = Turn(x + 1)
      <4> TAKE x \in 0 .. 2 * D - 1
      <4>1. /\ Turn(x) = IF x < D THEN x ELSE x - D
            /\ Turn(x + 1) = IF x + 1 < D THEN x + 1
                             ELSE IF x + 1 < 2 * D THEN x + 1 - D ELSE 0
        BY <1>3, Remainders
      <4>2. Turn(x) + 1 \in 0 .. D  BY <1>3, <4>1
      <4>3. Turn(Turn(x) + 1) = IF Turn(x) + 1 < D THEN Turn(x) + 1 ELSE 0
        BY <1>3, <4>2, Remainders
      <4> QED  BY <1>3, <4>1, <4>3
    <3>2. trigger_index_reg + After + 1 \in 0 .. 2 * D - 1
      BY <1>3, <1>4, <2>1, <2>3 DEF Addresses
    <3>3. trigger_index_reg + after + 1 = (trigger_index_reg + After + 1) + 1
      BY <2>1, <2>3 DEF Addresses
    <3>4. /\ Turn(Turn(trigger_index_reg + After + 1) + 1) = Turn(trigger_index_reg + after + 1)
          /\ wr_addr_reg' = Turn(Turn(trigger_index_reg + After + 1) + 1)
      <4> HIDE DEF D
      <4>1. Turn(Turn(trigger_index_reg + After + 1) + 1)
              = Turn((trigger_index_reg + After + 1) + 1)
        BY <3>1, <3>2
      <4> QED  BY <1>14, <1>15, <1>18, <3>3, <4>1
    <3>5. trigger_index_reg' = trigger_index_reg  BY <2>2
    <3> QED  BY <3>4, <3>5
  <2>5. m > after /\ k > pre /\ k + n + 1 - m = n - After
    <3>1. n > After /\ n - After > pre  BY <1>14, <1>18
    <3>2. k + n + 1 - m = n - After  BY <1>5, <1>16, <2>3
    <3>3. CASE n < D
      <4>1. m = n + 1  BY <1>5, <3>3
      <4> QED  BY <1>4, <1>5, <1>16, <2>3, <3>1, <3>2, <4>1
    <3>4. CASE ~(n < D)
      <4>1. m = D  BY <1>3, <1>5, <3>4
      <4>2. m > after /\ m - after > pre  BY <1>4, <1>5, <2>3, <4>1
      <4> QED  BY <1>16, <3>2, <4>2
    <3> QED  BY <3>3, <3>4
  <2>6. k > 1 => Crossing(k)'
    <3> SUFFICES ASSUME k > 1 PROVE Crossing(k)'  OBVIOUS
    <3>1. k \in 2 .. m - 1  BY <1>4, <1>5, <1>16, <2>3
    <3>2. n - After > 1  BY <1>5, <2>3, <2>5, <3>1
    <3> QED  BY <1>8, <1>14, <1>18, <2>5, <3>1, <3>2
  <2>7. ASSUME NEW i \in 1 .. m, FourBits, taken' = m, Crossing(i)'
        PROVE  i >= k
    <3>1. CASE i = m  BY <1>5, <1>16, <2>3, <3>1
    <3>2. CASE i # m
      <4>1. i \in 1 .. m - 1  BY <1>5, <3>2
      <4>2. Crossing(i) /\ i \in 1 .. n /\ taken = n /\ m = n + 1
        BY <1>3, <1>5, <1>9, <2>7, <4>1
      <4>3. i >= n - After  BY <1>14, <2>7, <4>2
      <4> QED  BY <1>5, <1>16, <2>3, <4>2, <4>3
    <3> QED  BY <3>1, <3>2
  <2> QED  BY <1>4, <1>18, <2>1, <2>2, <2>3, <2>4, <2>5, <2>6, <2>7
<1>19. CASE ~Hit(resp) /\ ~triggered_reg /\ WhenFull
  <2>1. ~done_reg' /\ UNCHANGED <<triggered_reg, trigger_index_reg, post_remaining>>
    BY <1>19 DEF WhenFull
  <2>2. ASSUME NEW i \in 1 .. m, FourBits, taken' = m, Crossing(i)'
        PROVE  FALSE
    <3>1. i # m  BY <1>13, <1>19, <2>2
    <3>2. i \in 1 .. m - 1  BY <1>5, <3>1
    <3>3. Crossing(i) /\ i \in 1 .. n /\ taken = n  BY <1>5, <1>9, <2>2, <3>2
    <3> QED  BY <1>14, <1>19, <2>2, <3>3
  <2> QED  BY <1>19, <2>1, <2>2
<1> QED  BY <1>17, <1>18, <1>19 DEF Sample

(* A trigger stays where it was found while samples come in.                  *)
LEMMA TriggerKept ==
  ASSUME NEW ready, NEW resp \in Answers, IInv, PlaceInv, EngineTyped, WindowInv, TriggerInv,
         Edge(ready, resp)
  PROVE  TriggerInv'
<1>1. Fits(settings)'
  BY DEF TriggerInv, Edge, Fits
<1>2. FourBits => converting'.channel \in 0 .. 15 /\ reg'.adc_channel \in 0 .. 15
  BY ChannelsKept
<1>3. /\ \/ ~reg.run_enable /\ Cleared /\ (window' = << >> \/ ~reg'.run_enable)
         \/ /\ reg.run_enable
            /\ UNCHANGED <<runVars, triggerVars, window, taken>>
         \/ /\ reg.run_enable /\ Sample(resp) /\ Taken(resp) /\ Word(resp) \in Words
            /\ ~Arming /\ ~Restart
      /\ reg.run_enable /\ reg'.run_enable => reg' = reg
  BY RunStep
<1>4. CASE ~reg'.run_enable
  BY <1>1, <1>2, <1>4 DEF TriggerInv, TriggerFound
<1>5. CASE reg'.run_enable /\ ~reg.run_enable
  <2>1. ~done_reg' /\ ~triggered_reg' /\ window' = << >>
    BY <1>3, <1>5 DEF Cleared
  <2>2. TriggerFound'
    BY <2>1 DEF TriggerFound
  <2> QED  BY <1>1, <1>2, <2>1, <2>2 DEF TriggerInv
<1>6. CASE /\ reg'.run_enable /\ reg.run_enable
           /\ UNCHANGED <<runVars, triggerVars, window, taken>>
  <2>1. reg' = reg  BY <1>3, <1>6
  <2>2. TriggerFound'
    BY <1>6, <2>1 DEF TriggerInv, TriggerFound, runVars, triggerVars, After, Crossing, Crosses,
                      Turn
  <2>3. triggered_reg' => reg'.trigger_enable
    BY <1>6, <2>1 DEF TriggerInv, triggerVars
  <2> QED  BY <1>1, <1>2, <2>2, <2>3 DEF TriggerInv
<1>7. CASE /\ reg'.run_enable /\ reg.run_enable /\ Sample(resp) /\ Taken(resp)
           /\ Word(resp) \in Words /\ ~Arming /\ ~Restart
  <2>1. reg' = reg  BY <1>3, <1>7
  <2>2. TriggerFound'
    <3>1. CASE reg.trigger_enable  BY <1>7, <2>1, <3>1, SampleFinds
    <3>2. CASE ~reg.trigger_enable  BY <2>1, <3>2 DEF TriggerFound
    <3> QED  BY <3>1, <3>2
  <2>3. triggered_reg' => reg'.trigger_enable
    BY <1>7, <2>1
    DEF TriggerInv, Sample, Hit, AfterTrigger, WhenFull
  <2> QED  BY <1>1, <1>2, <2>2, <2>3 DEF TriggerInv
<1> QED  BY <1>3, <1>4, <1>5, <1>6, <1>7
-----------------------------------------------------------------------------
(* What the program has read of a finished run, and where it reads its words. *)
ReadWord ==
  /\ item \in 0 .. dump_len - 1
  /\ read_addr_reg = (dump_start + item) % BUFFER_DEPTH

DumpInv ==
  /\ reg.run_enable /\ done_reg /\ ~triggered_reg =>
       ~reg.trigger_enable /\ reg.single_shot /\ taken = BUFFER_DEPTH
  /\ report.done /\ pc \in {"index", "end"} =>
       done_reg /\ (report.triggered <=> triggered_reg)
  /\ report.done /\ pc \in AfterPoll =>
       IF report.triggered
         THEN Len(window) > reg.pre_trigger_count + reg.post_trigger_count
         ELSE taken = BUFFER_DEPTH
  /\ report.done /\ report.triggered /\ pc \in AfterPoll \ {"index"} =>
       Turn(taken) = Turn(report.index + reg.post_trigger_count + 1)
  /\ pc \in {"dummy", "data"} => ReadWord
  /\ pc = "data" => rd_addr_reg = read_addr_reg

(* The addresses that the program writes while it dumps.                      *)
LEMMA DumpMoves ==
  ASSUME Program, pc' \in {"dummy", "data"}
  PROVE  /\ report' = report /\ reg' = reg
         /\ \/ pc' = "dummy" /\ ReadWord'
            \/ pc \in {"dummy", "data"} /\ UNCHANGED <<item, read_addr_reg>>
<1>1. CASE Wait
  BY <1>1 DEF Wait, NoWrite, programVars
<1>2. CASE DumpAddress
  <2>1. report' = report /\ reg' = reg /\ pc' = "dummy"
    BY <1>2 DEF DumpAddress, WriteAddress, Goto
  <2>2. dump_len' = dump_len /\ dump_start' = dump_start
    BY <2>1 DEF dump_len, dump_start
  <2>3. ReadWord'
    BY <1>2, <2>2 DEF DumpAddress, WriteAddress, ReadWord
  <2> QED  BY <2>1, <2>3
<1>3. CASE DumpRead
  BY <1>3 DEF DumpRead, NoWrite, Goto, SameReport
<1>4. CASE Stop \/ SoftReset \/ Sleep \/ WritePeriod \/ WritePrescaler \/ WriteMode \/ Arm
           \/ ReadStatus \/ ReadIndex
  BY <1>4 DEF Stop, SoftReset, Sleep, WritePeriod, WritePrescaler, WriteMode, Arm, ReadStatus,
              ReadIndex, Goto
<1> QED  BY <1>1, <1>2, <1>3, <1>4 DEF Program

(* A run that has been read as done takes no more samples.                    *)
LEMMA RunRests ==
  ASSUME NEW ready, NEW resp \in Answers, IInv, PlaceInv, EngineTyped, DumpInv,
         Edge(ready, resp), pc' \in AfterPoll,
         (pc = "poll" /\ done_reg) \/ (pc \in AfterPoll /\ report.done)
  PROVE  /\ UNCHANGED <<window, taken>>
         /\ pc \in Polling => UNCHANGED <<done_reg, triggered_reg, trigger_index_reg>>
<1>1. Program /\ UNCHANGED settings /\ ProgramInv /\ Remember(resp)
  BY DEF Edge, IInv
<1>2. /\ Arming <=> pc = "arm" /\ pc' = "poll"
      /\ Restart => pc' \in BeforeRun
  BY <1>1, Moves
<1>3. ~Arming /\ ~Restart
  BY <1>2 DEF AfterPoll, BeforeRun, Preparing
<1>4. ~Taken(resp)
  BY DEF Taken, DumpInv, PlaceInv, Polling, AfterPoll
<1>5. UNCHANGED <<window, taken>>
  BY <1>1, <1>3, <1>4 DEF Remember
<1>6. pc \in Polling => UNCHANGED <<done_reg, triggered_reg, trigger_index_reg>>
  BY <1>1, <1>4, EngineMoves DEF PlaceInv, triggerVars
<1> QED  BY <1>5, <1>6

(* What the program has read stays true of the run until it starts another.   *)
LEMMA DumpKept ==
  ASSUME NEW ready, NEW resp \in Answers, IInv, IInv', PlaceInv, PlaceInv', EngineTyped,
         WindowInv, TriggerInv, DumpInv, Edge(ready, resp)
  PROVE  DumpInv'
<1> DEFINE D == BUFFER_DEPTH
<1>1. Program /\ UNCHANGED settings /\ ProgramInv /\ BufferEdge(read_addr_reg)
  BY DEF Edge, IInv
<1>2. /\ pc' \in BeforeRun => pc \in BeforeRun \/ Restart
      /\ pc' \in AfterPoll => pc \in AfterPoll \/ (pc = "poll" /\ pc' = "index")
      /\ pc' \in AfterPoll \ {"index", "end"} => pc \in AfterPoll \ {"index"}
      /\ Restart => pc' \in BeforeRun
  BY <1>1, Moves
<1>3. pc' \in AfterPoll => /\ reg'.pre_trigger_count = reg.pre_trigger_count
                           /\ reg'.post_trigger_count = reg.post_trigger_count
  BY <1>1, Registers
<1>4. report \in Reports /\ done_reg \in BOOLEAN /\ triggered_reg \in BOOLEAN
  BY DEF EngineTyped, IInv, CountInv
<1>5. /\ pc = "poll" /\ pc' = "index" =>
           (report'.done <=> done_reg) /\ (report'.triggered <=> triggered_reg)
      /\ pc' \in AfterPoll /\ pc # "poll" =>
           (report'.done <=> report.done) /\ (report'.triggered <=> report.triggered)
      /\ pc' = "end" /\ pc = "index" => report'.index = trigger_index_reg
      /\ pc' \in AfterPoll /\ pc \notin {"poll", "index"} => report'.index = report.index
      /\ pc' = "end" => pc \in {"index", "end"}
      /\ pc = "poll" /\ pc' \in AfterPoll => pc' = "index"
      /\ pc' = "index" /\ pc # "index" => pc = "poll"
  <2>1. LET r == [report EXCEPT !.done = done_reg, !.triggered = triggered_reg]
        IN  (r.done <=> done_reg) /\ (r.triggered <=> triggered_reg)
    BY <1>4 DEF Reports
  <2>2. LET r == [report EXCEPT !.index = trigger_index_reg]
        IN  /\ (r.done <=> report.done) /\ (r.triggered <=> report.triggered)
            /\ r.index = trigger_index_reg
    BY <1>4 DEF Reports
  <2>3. pc \in Places  BY DEF PlaceInv
  <2>4. CASE UNCHANGED report /\ (pc' = pc \/ pc' \notin {"index", "end"})
    BY <1>2, <2>3, <2>4 DEF AfterPoll
  <2>5. CASE /\ pc = "poll" /\ pc' = "index"
             /\ report' = [report EXCEPT !.done = done_reg, !.triggered = triggered_reg]
    BY <2>1, <2>5
  <2>6. CASE /\ pc = "index" /\ pc' = "end"
             /\ report' = [report EXCEPT !.index = trigger_index_reg]
    BY <2>2, <2>6
  <2>7. CASE Restart /\ report' = NoReport
    BY <2>7 DEF Restart, AfterPoll
  <2> QED  BY <1>1, <2>4, <2>5, <2>6, <2>7, Reporting
<1>6. pc' \in AfterPoll /\ report'.done =>
        /\ (pc = "poll" /\ done_reg) \/ (pc \in AfterPoll /\ report.done)
        /\ UNCHANGED <<window, taken>>
        /\ pc \in Polling => UNCHANGED <<done_reg, triggered_reg, trigger_index_reg>>
  <2> SUFFICES ASSUME pc' \in AfterPoll, report'.done
               PROVE  /\ (pc = "poll" /\ done_reg) \/ (pc \in AfterPoll /\ report.done)
                      /\ UNCHANGED <<window, taken>>
                      /\ pc \in Polling =>
                           UNCHANGED <<done_reg, triggered_reg, trigger_index_reg>>
    OBVIOUS
  <2>1. (pc = "poll" /\ done_reg) \/ (pc \in AfterPoll /\ report.done)
    BY <1>2, <1>5 DEF AfterPoll
  <2> QED  BY <2>1, RunRests
<1>7. reg.run_enable /\ reg.trigger_enable /\ done_reg /\ triggered_reg =>
        /\ Turn(taken) = Turn(trigger_index_reg + reg.post_trigger_count + 1)
        /\ Len(window) > reg.pre_trigger_count + reg.post_trigger_count
  <2> SUFFICES ASSUME reg.run_enable, reg.trigger_enable, done_reg, triggered_reg
               PROVE  /\ Turn(taken) = Turn(trigger_index_reg + reg.post_trigger_count + 1)
                      /\ Len(window) > reg.pre_trigger_count + reg.post_trigger_count
    OBVIOUS
  <2>1. reg.pre_trigger_count \in Nat /\ reg.post_trigger_count \in Nat /\ Len(window) \in Nat
    <3>1. reg \in Settings /\ window \in Seq(Words)  BY DEF IInv, ProgramInv, WindowInv
    <3> QED  BY <3>1 DEF Settings
  <2>2. post_remaining = 0 /\ After = reg.post_trigger_count
    BY <2>1 DEF TriggerInv, TriggerFound, After
  <2>3. /\ wr_addr_reg = Turn(trigger_index_reg + After + 1)
        /\ Len(window) - After > reg.pre_trigger_count
    BY DEF TriggerInv, TriggerFound
  <2>4. wr_addr_reg = Turn(taken)
    BY DEF WindowInv, Turn
  <2>5. Len(window) > reg.pre_trigger_count + reg.post_trigger_count
    BY <2>1, <2>2, <2>3
  <2> QED  BY <2>2, <2>3, <2>4, <2>5
<1>8. reg.run_enable /\ triggered_reg => reg.trigger_enable
  BY DEF TriggerInv
<1>9. reg'.run_enable /\ done_reg' /\ ~triggered_reg' =>
        ~reg'.trigger_enable /\ reg'.single_shot /\ taken' = D
  <2>1. /\ \/ ~reg.run_enable /\ Cleared
           \/ /\ reg.run_enable /\ UNCHANGED <<triggerVars, taken>>
           \/ /\ reg.run_enable /\ Sample(resp)
        /\ reg.run_enable /\ reg'.run_enable => reg' = reg
    BY RunStep
  <2>2. reg'.run_enable /\ reg'.single_shot => (done_reg' <=> taken' = D)
    BY DEF IInv, CountInv
  <2>3. CASE ~reg.run_enable /\ Cleared
    BY <2>3 DEF Cleared
  <2>4. CASE reg.run_enable /\ UNCHANGED <<triggerVars, taken>>
    BY <2>1, <2>4 DEF triggerVars, DumpInv
  <2>5. CASE reg.run_enable /\ Sample(resp)
    <3>1. done_reg' /\ ~triggered_reg' => ~reg.trigger_enable /\ reg.single_shot
      <4>1. CASE TriggerHere  BY <4>1 DEF TriggerHere
      <4>2. CASE reg.trigger_enable /\ triggered_reg /\ AfterTrigger
        BY <4>2 DEF AfterTrigger
      <4>3. CASE WhenFull
        BY <4>3, Zenon DEF WhenFull
      <4> QED  BY <2>5, <4>1, <4>2, <4>3, Zenon DEF Sample
    <3> QED  BY <2>1, <2>2, <2>5, <3>1
  <2> QED  BY <2>1, <2>3, <2>4, <2>5
<1>10. report'.done /\ pc' \in {"index", "end"} =>
         done_reg' /\ (report'.triggered <=> triggered_reg')
  <2> SUFFICES ASSUME report'.done, pc' \in {"index", "end"}
               PROVE  done_reg' /\ (report'.triggered <=> triggered_reg')
    OBVIOUS
  <2>1. pc' \in AfterPoll /\ pc \in {"poll", "index", "end"}
    BY <1>5 DEF AfterPoll
  <2>2. UNCHANGED <<done_reg, triggered_reg>>
    BY <1>6, <2>1 DEF Polling
  <2> QED  BY <1>5, <1>6, <2>1, <2>2 DEF DumpInv, AfterPoll
<1>11. report'.done /\ pc' \in AfterPoll =>
         IF report'.triggered
           THEN Len(window') > reg'.pre_trigger_count + reg'.post_trigger_count
           ELSE taken' = D
  <2> SUFFICES ASSUME report'.done, pc' \in AfterPoll
               PROVE  IF report'.triggered
                        THEN Len(window) > reg.pre_trigger_count + reg.post_trigger_count
                        ELSE taken = D
    BY <1>3, <1>6
  <2>1. CASE pc = "poll" /\ done_reg
    <3>1. reg.run_enable /\ (report'.triggered <=> triggered_reg)
      BY <1>5, <2>1 DEF PlaceInv, Polling
    <3> QED  BY <1>7, <1>8, <2>1, <3>1 DEF DumpInv
  <2>2. CASE pc \in AfterPoll /\ report.done
    <3>1. report'.triggered <=> report.triggered
      BY <1>5, <2>2 DEF AfterPoll
    <3> QED  BY <2>2, <3>1 DEF DumpInv
  <2> QED  BY <1>6, <2>1, <2>2
<1>12. report'.done /\ report'.triggered /\ pc' \in AfterPoll \ {"index"} =>
         Turn(taken') = Turn(report'.index + reg'.post_trigger_count + 1)
  <2> SUFFICES ASSUME report'.done, report'.triggered, pc' \in AfterPoll \ {"index"}
               PROVE  Turn(taken) = Turn(report'.index + reg.post_trigger_count + 1)
    BY <1>3, <1>6
  <2>1. pc \in AfterPoll /\ report.done /\ report.triggered
    BY <1>5, <1>6 DEF AfterPoll
  <2>2. CASE pc = "index"
    <3>1. pc' = "end" /\ report'.index = trigger_index_reg
      BY <1>2, <1>5, <2>2
    <3>2. reg.run_enable /\ done_reg /\ triggered_reg
      BY <2>1, <2>2 DEF DumpInv, PlaceInv, Polling
    <3> QED  BY <1>7, <1>8, <3>1, <3>2
  <2>3. CASE pc # "index"
    BY <1>5, <2>1, <2>3 DEF DumpInv, AfterPoll
  <2> QED  BY <2>2, <2>3
<1>13. pc' \in {"dummy", "data"} => ReadWord'
  <2> SUFFICES ASSUME pc' \in {"dummy", "data"} PROVE ReadWord'  OBVIOUS
  <2>1. CASE pc' = "dummy" /\ ReadWord'
    BY <2>1
  <2>2. CASE pc \in {"dummy", "data"} /\ UNCHANGED <<item, read_addr_reg>>
    <3>1. report' = report /\ reg' = reg  BY <1>1, DumpMoves
    <3> QED  BY <2>2, <3>1 DEF DumpInv, ReadWord, dump_len, dump_start
  <2> QED  BY <1>1, <2>1, <2>2, DumpMoves
<1>14. pc' = "data" => rd_addr_reg' = read_addr_reg'
  <2> SUFFICES ASSUME pc' = "data" PROVE rd_addr_reg' = read_addr_reg'  OBVIOUS
  <2>1. read_addr_reg' = read_addr_reg  BY <1>1, DumpMoves
  <2> QED  BY <1>1, <2>1 DEF BufferEdge
<1> QED
  BY <1>9, <1>10, <1>11, <1>12, <1>13, <1>14 DEF DumpInv, Turn

(* Before the first run nothing is stored, triggered, read or interrupted.    *)
LEMMA RunInit ==
  ASSUME Init
  PROVE  PlaceInv /\ EngineTyped /\ InterruptInv /\ WindowInv /\ TriggerInv /\ DumpInv
<1>1. /\ BUFFER_DEPTH \in Nat /\ BUFFER_DEPTH > 1 /\ 0 \in Addresses
  BY BufferAssumption DEF Addresses
<1>2. ~reg.run_enable /\ ~report.done /\ report \in Reports /\ reg.adc_channel = 0
  BY <1>1 DEF Init, Off, NoReport, Reports
<1>3. PlaceInv
  BY <1>2 DEF Init, EngineInit, PlaceInv, Places, BeforeRun, Polling
<1>4. EngineTyped
  BY <1>1, <1>2 DEF Init, EngineInit, EngineTyped, Samples, Idle
<1>5. InterruptInv
  BY <1>2 DEF Init, InterruptInv, BeforeRun, AfterPoll, Preparing
<1>6. WindowInv
  BY <1>1, <1>2 DEF Init, EngineInit, WindowInv, SamplesKept, Preparing
<1>7. TriggerInv
  <2>1. Fits(settings)  BY SettingsFit DEF Init
  <2>2. converting.channel = 0  BY DEF Init, Idle
  <2> QED  BY <1>2, <2>1, <2>2 DEF TriggerInv, TriggerFound
<1>8. DumpInv
  BY <1>2 DEF Init, DumpInv
<1> QED  BY <1>3, <1>4, <1>5, <1>6, <1>7, <1>8

RunInv ==
  IInv /\ PlaceInv /\ EngineTyped /\ InterruptInv /\ WindowInv /\ TriggerInv /\ DumpInv

(* The invariant of the whole run holds.                                      *)
THEOREM WholeRun == Spec => []RunInv
<1>1. Init => PlaceInv /\ EngineTyped /\ InterruptInv /\ WindowInv /\ TriggerInv /\ DumpInv
  BY RunInit
<1>2. /\ IInv /\ IInv' /\ [Next]_vars
      /\ PlaceInv /\ EngineTyped /\ InterruptInv /\ WindowInv /\ TriggerInv /\ DumpInv
      => (PlaceInv /\ EngineTyped /\ InterruptInv /\ WindowInv /\ TriggerInv /\ DumpInv)'
  <2> SUFFICES ASSUME IInv, IInv', [Next]_vars,
                      PlaceInv, EngineTyped, InterruptInv, WindowInv, TriggerInv, DumpInv
               PROVE  /\ PlaceInv' /\ EngineTyped' /\ InterruptInv'
                      /\ WindowInv' /\ TriggerInv' /\ DumpInv'
    OBVIOUS
  <2>1. CASE Next
    <3>1. PICK ready \in Ready, resp \in Answers : Edge(ready, resp)
      BY <2>1 DEF Next
    <3>2. PlaceInv'  BY <3>1, PlaceKept DEF IInv
    <3>3. EngineTyped'  BY <3>1, EngineTypedKept
    <3>4. InterruptInv'  BY <3>1, InterruptKept
    <3>5. WindowInv'  BY <3>1, WindowKept
    <3>6. TriggerInv'  BY <3>1, TriggerKept
    <3>7. DumpInv'  BY <3>1, <3>2, DumpKept
    <3> QED  BY <3>2, <3>3, <3>4, <3>5, <3>6, <3>7
  <2>2. CASE UNCHANGED vars
    <3> USE <2>2 DEF vars, engineVars, captureVars, commandVars, runVars, triggerVars, wordVars,
                     programVars, wrapperVars, adcVars, history
    <3>1. PlaceInv'  BY DEF PlaceInv
    <3>2. EngineTyped'  BY DEF EngineTyped
    <3>3. InterruptInv'  BY DEF InterruptInv
    <3>4. WindowInv'  BY DEF WindowInv, SamplesKept, At, Newest
    <3>5. TriggerInv'
      BY DEF TriggerInv, TriggerFound, Fits, After, Crossing, Crosses, Turn
    <3>6. DumpInv'  BY DEF DumpInv, ReadWord, dump_len, dump_start, Turn
    <3> QED  BY <3>1, <3>2, <3>3, <3>4, <3>5, <3>6
  <2> QED  BY <2>1, <2>2
<1> QED  BY <1>1, <1>2, Counting, PTL DEF Spec, RunInv

(* A run raises one interrupt, by the time that its words are dumped.         *)
THEOREM InterruptOnce == Spec => []OneInterrupt
<1>1. RunInv => OneInterrupt
  BY DEF RunInv, InterruptInv, OneInterrupt, AfterPoll
<1> QED  BY <1>1, WholeRun, PTL

(* The buffer holds the newest samples of the run, each at its address.       *)
THEOREM BufferKept == Spec => []SamplesKept
<1>1. RunInv => SamplesKept
  BY DEF RunInv, WindowInv
<1> QED  BY <1>1, WholeRun, PTL

(* A triggered run ends as it was asked to around the sample at its index,    *)
(* the first to cross the level.                                              *)
THEOREM TriggerExact == ASSUME FourBits PROVE Spec => []TriggerWindow
<1>1. RunInv => TriggerWindow
  <2> SUFFICES ASSUME RunInv PROVE TriggerWindow  OBVIOUS
  <2>1. window \in Seq(Words) /\ DOMAIN window = 1 .. Len(window)
    BY DEF RunInv, WindowInv
  <2>2. TriggerFound  BY DEF RunInv, TriggerInv
  <2> QED  BY <2>1, <2>2, FourBits DEF TriggerFound, TriggerWindow, Running, Turn
<1> QED  BY <1>1, WholeRun, PTL

(* Counts that differ by the depth have the same address.                     *)
LEMMA SameAddress ==
  ASSUME NEW a \in 0 .. 2 * BUFFER_DEPTH, NEW b \in 0 .. 2 * BUFFER_DEPTH,
         a = b \/ a = b + BUFFER_DEPTH \/ b = a + BUFFER_DEPTH
  PROVE  Turn(a) = Turn(b)
  BY Remainders

(* What the program dumps of a finished run is the run.                       *)
THEOREM DumpExact == Spec => []DumpIsCapture
<1> DEFINE D == BUFFER_DEPTH
<1>1. RunInv => DumpIsCapture
  <2> SUFFICES ASSUME RunInv, pc = "data", report.done PROVE rd_data = window[Dumped]
    BY DEF DumpIsCapture
  <2>1. /\ D \in Nat /\ D > 1 /\ window \in Seq(Words) /\ taken \in Nat /\ taken <= 2 * D
        /\ Len(window) = IF taken < D THEN taken ELSE D
    BY Remainders DEF RunInv, WindowInv, IInv, CountInv
  <2>2. \A i \in 1 .. Len(window) : ram[At(i)] = window[i]
    <3>1. ~wr_en_sig /\ SamplesKept  BY DEF RunInv, WindowInv
    <3>2. DOMAIN window = 1 .. Len(window)  BY <2>1
    <3> QED  BY <3>1, <3>2 DEF SamplesKept
  <2>3. /\ item \in 0 .. dump_len - 1
        /\ rd_addr_reg = Turn(dump_start + item)
    BY DEF RunInv, DumpInv, ReadWord, Turn
  <2>4. PICK pre, post : pre = reg.pre_trigger_count /\ post = reg.post_trigger_count
    OBVIOUS
  <2>5. pre \in Nat /\ post \in Nat
    <3>1. reg \in Settings  BY DEF RunInv, IInv, ProgramInv
    <3> QED  BY <2>4, <3>1 DEF Settings
  <2>6. Dumped \in 1 .. Len(window) /\ rd_addr_reg = At(Dumped)
    <3>1. CASE ~report.triggered
      <4>1. taken = D  BY <3>1 DEF RunInv, DumpInv, AfterPoll
      <4>2. dump_len = D /\ dump_start = 0 /\ Dumped = item + 1
        BY <3>1 DEF dump_len, dump_start, Dumped
      <4>3. item \in 0 .. D - 1 /\ item \in Nat /\ rd_addr_reg = Turn(item)
        BY <2>1, <2>3, <4>2
      <4>4. taken - Len(window) + Dumped - 1 = item
        BY <2>1, <4>1, <4>2, <4>3
      <4>5. At(Dumped) = Turn(item)  BY <4>4 DEF At, Turn
      <4> QED  BY <2>1, <4>1, <4>2, <4>3, <4>5
    <3>2. CASE report.triggered
      <4>1. PICK x : x = report.index  OBVIOUS
      <4>2. x \in 0 .. D - 1
        BY <4>1 DEF RunInv, EngineTyped, Reports, Addresses
      <4>3. Len(window) > pre + post /\ Turn(taken) = Turn(x + post + 1)
        BY <2>4, <3>2, <4>1 DEF RunInv, DumpInv, AfterPoll
      <4>4. /\ dump_len = pre + 1 + post /\ dump_start = Turn(x + D - pre)
            /\ Dumped = Len(window) - post - pre + item
        BY <2>4, <3>2, <4>1 DEF dump_len, dump_start, Dumped, Turn
      <4>5. item \in 0 .. pre + post
        BY <2>3, <2>5, <4>4
      <4>6. Dumped \in 1 .. Len(window)
        BY <2>1, <2>5, <4>3, <4>4, <4>5
      <4>7. PICK u, e : u = x + post + 1 /\ e = taken - u
        OBVIOUS
      <4>8. u \in Nat /\ (e = 0 \/ e = D \/ e = 0 - D)
        <5>1. /\ taken \in 0 .. 2 * D /\ u \in 0 .. 2 * D /\ u < 2 * D /\ u \in Nat
              /\ taken > 0 /\ u > 0
          BY <2>1, <2>5, <4>2, <4>3, <4>7
        <5>2. Turn(taken) = IF taken < D THEN taken
                            ELSE IF taken < 2 * D THEN taken - D ELSE 0
          BY <5>1, Remainders
        <5>3. Turn(u) = IF u < D THEN u ELSE u - D
          BY <5>1, Remainders
        <5>4. Turn(taken) = Turn(u)  BY <4>3, <4>7
        <5>5. taken = u \/ taken = u + D \/ taken = u - D
          BY <2>1, <5>1, <5>2, <5>3, <5>4
        <5> QED  BY <2>1, <4>7, <5>1, <5>5
      <4>9. PICK y : y = dump_start + item
        OBVIOUS
      <4>10. y = x - pre + item \/ y = x + D - pre + item
        <5>1. x + D - pre \in 0 .. 2 * D /\ x + D - pre < 2 * D
          BY <2>1, <2>5, <4>2, <4>3
        <5>2. Turn(x + D - pre) = IF x + D - pre < D THEN x + D - pre ELSE x - pre
          BY <2>1, <2>5, <4>2, <5>1, Remainders
        <5> QED  BY <2>5, <4>2, <4>4, <4>5, <4>9, <5>2
      <4>11. y \in 0 .. 2 * D /\ y < 2 * D - 1
        <5>1. dump_start \in 0 .. D - 1
          BY <2>1, <2>5, <4>2, <4>3, <4>4, Remainders
        <5> QED  BY <2>1, <2>5, <4>3, <4>5, <4>9, <5>1
      <4>12. PICK z : z = taken - Len(window) + Dumped - 1
        OBVIOUS
      <4>13. z = x - pre + item + e /\ z \in 0 .. 2 * D /\ z < 2 * D
        BY <2>1, <2>5, <4>2, <4>4, <4>5, <4>6, <4>7, <4>12
      <4>14. y = z \/ y = z + D \/ z = y + D
        BY <2>1, <2>5, <4>2, <4>5, <4>8, <4>10, <4>11, <4>13
      <4>15. Turn(y) = Turn(z)  BY <4>11, <4>13, <4>14, SameAddress
      <4>16. At(Dumped) = Turn(z)  BY <4>12 DEF At, Turn
      <4> QED  BY <2>3, <4>6, <4>9, <4>15, <4>16
    <3> QED  BY <3>1, <3>2
  <2> QED  BY <2>2, <2>6 DEF rd_data
<1> QED  BY <1>1, WholeRun, PTL
-----------------------------------------------------------------------------
(* The rate.                                                                  *)
TimedBy(s) == \E p \in Periods : s.sample_period = p[1] /\ s.prescaler_sel = p[2]

(* Cycles since the prescaler last enabled the counter.                       *)
Half == 2 ^ reg.prescaler_sel
Position == IF phase_cnt = 1 THEN prescaler_cnt + Half ELSE prescaler_cnt

TimerTyped ==
  /\ prescaler_cnt \in Nat /\ phase_cnt \in {0, 1} /\ prev_sel \in Selections
  /\ clock_enable \in BOOLEAN
  /\ count_reg \in Nat /\ running_flag \in BOOLEAN /\ prev_match \in BOOLEAN
  /\ rearm_state \in {"RUN", "REARM"} /\ gap \in Nat
  /\ reg.prescaler_sel \in Selections

(* After a trigger the counter is reset for a cycle, starts in the next, and  *)
(* then counts what the prescaler enables.                                    *)
Paced ==
  /\ gap = 1 => rearm_state = "REARM" /\ prev_match
  /\ gap # 1 => /\ rearm_state = "RUN" /\ count_reg <= timer_compare
                /\ count_reg = timer_compare /\ reg.prescaler_sel # 0 => Position = 1
  /\ gap = 2 => count_reg = 0 /\ ~running_flag
  /\ gap >= 3 => running_flag
  /\ gap \notin {1, 2} => ~prev_match
  /\ reg.prescaler_sel # 0 =>
       /\ gap \in {1, 2} => Position = gap + 1
       /\ gap >= 3 => gap + 1 = count_reg * (2 * Half)
                                  + IF Position = 0 THEN 2 * Half ELSE Position
  /\ reg.prescaler_sel = 0 /\ gap >= 3 => gap = count_reg + 3

PrescalerInv ==
  /\ pc \in Polling \cup {"arm"} =>
       prev_sel = reg.prescaler_sel /\ (prev_sel = 0 => clock_enable)
  /\ prev_sel # 0 => /\ prescaler_cnt < 2 ^ prev_sel
                     /\ clock_enable <=> prescaler_cnt = 0 /\ phase_cnt = 0

RateInv ==
  /\ TimerTyped /\ PrescalerInv /\ TimedBy(settings)
  /\ pc \in Preparing => count_reg = 0 /\ ~running_flag
  /\ pc \in {"prescaler", "mode", "arm"} => reg.sample_period = settings.sample_period
  /\ pc \in {"mode", "arm"} => /\ rearm_state = "RUN" /\ ~prev_match
                               /\ reg.prescaler_sel = settings.prescaler_sel
  /\ reg.run_enable /\ ~done_reg => Paced

(* The divisors of the prescaler.                                             *)
LEMMA Powers ==
  ASSUME NEW s \in Selections, s # 0
  PROVE  2 ^ s \in Nat /\ 2 ^ s >= 2 /\ 2 ^ (s + 1) = 2 * 2 ^ s
<1>1. /\ 2 ^ 1 = 2 /\ 2 ^ 2 = 4 /\ 2 ^ 3 = 8 /\ 2 ^ 4 = 16 /\ 2 ^ 5 = 32
      /\ 2 ^ 6 = 64 /\ 2 ^ 7 = 128 /\ 2 ^ 8 = 256
  OBVIOUS
<1>2. s \in 1 .. 7  BY DEF Selections
<1>3. CASE s = 1
  <2>1. s + 1 = 2  BY <1>3
  <2> QED  BY <1>1, <1>3, <2>1
<1>4. CASE s = 2
  <2>1. s + 1 = 3  BY <1>4
  <2> QED  BY <1>1, <1>4, <2>1
<1>5. CASE s = 3
  <2>1. s + 1 = 4  BY <1>5
  <2> QED  BY <1>1, <1>5, <2>1
<1>6. CASE s = 4
  <2>1. s + 1 = 5  BY <1>6
  <2> QED  BY <1>1, <1>6, <2>1
<1>7. CASE s = 5
  <2>1. s + 1 = 6  BY <1>7
  <2> QED  BY <1>1, <1>7, <2>1
<1>8. CASE s = 6
  <2>1. s + 1 = 7  BY <1>8
  <2> QED  BY <1>1, <1>8, <2>1
<1>9. CASE s = 7
  <2>1. s + 1 = 8  BY <1>9
  <2> QED  BY <1>1, <1>9, <2>1
<1> QED  BY <1>2, <1>3, <1>4, <1>5, <1>6, <1>7, <1>8, <1>9

(* The program's periods are those of its constants.                          *)
LEMMA SettingsTimed ==
  \A s \in Untriggered \union Triggered : TimedBy(s)
<1>1. Off \in Settings  BY DEF Off, Settings
<1>2. \A s \in Timing : s \in Settings /\ TimedBy(s)
  <2> TAKE u \in Timing
  <2>0. PICK p \in Periods, c \in CHANNELS : u = Timed(p, c)
    BY DEF Timing
  <2>1. p[1] \in Nat /\ p[2] \in Nat /\ c \in Nat
    BY ProgramAssumption, BufferAssumption DEF Selections
  <2>2. u \in Settings /\ u.sample_period = p[1] /\ u.prescaler_sel = p[2]
    BY <1>1, <2>0, <2>1 DEF Settings, Timed
  <2> QED  BY <2>2 DEF TimedBy
<1>3. \A s \in Scanning : s \in Settings /\ TimedBy(s)
  <2> TAKE u \in Scanning
  <2> SUFFICES ASSUME u \notin Timing PROVE u \in Settings /\ TimedBy(u)
    BY <1>2
  <2>0. PICK s \in Timing, len \in ScanLengths : u = Scan(s, len)
    BY DEF Scanning
  <2>1. len \in Nat  BY ProgramAssumption
  <2>2. /\ u \in Settings /\ u.sample_period = s.sample_period
        /\ u.prescaler_sel = s.prescaler_sel
    BY <1>2, <2>0, <2>1 DEF Settings, Scan
  <2> QED  BY <1>2, <2>2 DEF TimedBy
<1>4. \A s \in Untriggered : TimedBy(s)
  <2> TAKE u \in Untriggered
  <2>0. PICK s \in Scanning, single \in BOOLEAN : u = Shot(s, single)
    BY DEF Untriggered
  <2>2. u.sample_period = s.sample_period /\ u.prescaler_sel = s.prescaler_sel
    BY <1>3, <2>0 DEF Settings, Shot
  <2> QED  BY <1>3, <2>2 DEF TimedBy
<1>5. \A s \in Triggered : TimedBy(s)
  <2> TAKE u \in Triggered
  <2>0. PICK s \in Scanning, t \in Triggers : u = OnTrigger(s, t)
    BY DEF Triggered
  <2>2. u.sample_period = s.sample_period /\ u.prescaler_sel = s.prescaler_sel
    BY <1>3, <2>0 DEF Settings, OnTrigger
  <2> QED  BY <1>3, <2>2 DEF TimedBy
<1> QED  BY <1>4, <1>5

(* The registers of the timer on the way to a run.                            *)
LEMMA TimerRegisters ==
  ASSUME ProgramInv, PlaceInv, Program, UNCHANGED settings
  PROVE  /\ \/ reg'.prescaler_sel = reg.prescaler_sel
            \/ reg'.prescaler_sel = settings.prescaler_sel
         /\ pc' \in {"prescaler", "mode", "arm"} =>
              /\ pc \in {"configure", "prescaler", "mode", "arm"}
              /\ \/ pc # "configure" /\ reg'.sample_period = reg.sample_period
                 \/ reg'.sample_period = settings.sample_period
         /\ pc' \in {"mode", "arm"} =>
              /\ pc \in {"prescaler", "mode", "arm"}
              /\ \/ pc # "prescaler" /\ reg'.prescaler_sel = reg.prescaler_sel
                 \/ reg'.prescaler_sel = settings.prescaler_sel
         /\ pc' \in Polling \cup {"arm"} => pc \in {"mode", "arm"} \cup Polling
<1> USE DEF ProgramInv, Polling
<1>1. CASE Wait
  BY <1>1 DEF Wait, NoWrite, programVars
<1>2. CASE Stop
  BY <1>2 DEF Stop, WriteReg, Control, Settings, Goto
<1>3. CASE SoftReset
  BY <1>3 DEF SoftReset, Control, Settings, Goto
<1>4. CASE Sleep
  BY <1>4 DEF Sleep, NoWrite, Goto
<1>5. CASE WritePeriod
  BY <1>5 DEF WritePeriod, WriteReg, Settings, Goto
<1>6. CASE WritePrescaler
  BY <1>6 DEF WritePrescaler, WriteReg, Settings, Goto
<1>7. CASE WriteMode
  BY <1>7 DEF WriteMode, WriteReg, Settings, Goto
<1>8. CASE Arm
  BY <1>8 DEF Arm, WriteReg, Goto
<1>9. CASE ReadStatus
  BY <1>9 DEF ReadStatus, NoWrite, Goto
<1>10. CASE ReadIndex
  BY <1>10 DEF ReadIndex, NoWrite, Goto
<1>11. CASE DumpAddress
  BY <1>11 DEF DumpAddress, WriteAddress, Goto
<1>12. CASE DumpRead
  BY <1>12 DEF DumpRead, NoWrite, Goto
<1> QED
  BY <1>1, <1>2, <1>3, <1>4, <1>5, <1>6, <1>7, <1>8, <1>9, <1>10, <1>11, <1>12 DEF Program

(* An edge of the timer, or its reset, which comes in the sleep after the     *)
(* soft reset only.                                                           *)
LEMMA TimerStep ==
  ASSUME NEW ready, NEW resp, ProgramInv, PlaceInv, Edge(ready, resp)
  PROVE  \/ TimerReset /\ rearm_state' = "RUN" /\ (pc = "sleep" \/ pc' = "sleep")
         \/ /\ TimerEdge(reg.prescaler_sel, control_timer, timer_compare) /\ Rearm
            /\ ~soft_reset_reg'
<1>1. Engine(ready, resp) /\ ProgramInv'
  BY ProgramStep DEF Edge
<1>2. soft_reset_reg \/ soft_reset_reg' => pc = "sleep" \/ pc' = "sleep"
  BY <1>1 DEF ProgramInv
<1> QED  BY <1>1, <1>2 DEF Engine, EngineReset, EngineEdge

(* The timer keeps to its ranges.                                             *)
LEMMA TimerTypedKept ==
  ASSUME NEW ready, NEW resp, ProgramInv, PlaceInv, RateInv, Edge(ready, resp)
  PROVE  TimerTyped'
<1>1. /\ \/ TimerReset /\ rearm_state' = "RUN"
         \/ TimerEdge(reg.prescaler_sel, control_timer, timer_compare) /\ Rearm
      /\ Program /\ UNCHANGED settings /\ Remember(resp)
  BY TimerStep DEF Edge
<1>2. TimerTyped /\ TimerMax \in Nat
  BY TimerAssumption DEF RateInv
<1>3. prescaler_cnt' \in Nat /\ phase_cnt' \in {0, 1} /\ prev_sel' \in Selections
  <2>1. CASE TimerReset
    BY <2>1 DEF TimerReset, Selections
  <2>2. CASE TimerEdge(reg.prescaler_sel, control_timer, timer_compare)
    BY <1>2, <2>2
    DEF TimerEdge, Prescaler, NewSelection, Undivided, Wrap, Divide, TimerTyped
  <2> QED  BY <1>1, <2>1, <2>2
<1>4. clock_enable' \in BOOLEAN
  <2>1. \/ clock_enable' = FALSE \/ clock_enable' = TRUE
        \/ clock_enable' = (reg.prescaler_sel = 0) \/ clock_enable' = (phase_cnt = 1)
    BY <1>1, Zenon
    DEF TimerReset, TimerEdge, Prescaler, NewSelection, Undivided, Wrap, Divide
  <2> QED  BY <2>1
<1>5. prev_match' \in BOOLEAN
  <2>1. prev_match' = FALSE \/ prev_match' = (count_reg = timer_compare)
    BY <1>1, Zenon DEF TimerReset, TimerEdge, Comparator, match_now
  <2> QED  BY <2>1
<1>6. running_flag' \in BOOLEAN
  <2>1. running_flag' = FALSE \/ running_flag' = TRUE \/ running_flag' = running_flag
    BY <1>1, Zenon DEF TimerReset, TimerEdge, Counter
  <2> QED  BY <1>2, <2>1 DEF TimerTyped
<1>7. count_reg' \in Nat
  <2>1. Counted \in Nat  BY <1>2 DEF Counted, TimerTyped
  <2> QED  BY <1>1, <1>2, <2>1 DEF TimerReset, TimerEdge, Counter, TimerTyped
<1>8. rearm_state' \in {"RUN", "REARM"} /\ gap' \in Nat
  BY <1>1, <1>2 DEF Rearm, Remember, TimerTyped
<1>9. reg'.prescaler_sel \in Selections
  <2>1. settings.prescaler_sel \in Selections
    BY ProgramAssumption DEF RateInv, TimedBy
  <2> QED  BY <1>1, <1>2, <2>1, TimerRegisters DEF TimerTyped
<1> QED  BY <1>3, <1>4, <1>5, <1>6, <1>7, <1>8, <1>9 DEF TimerTyped

(* The prescaler goes round once for every enable.                            *)
LEMMA PrescalerTurns ==
  ASSUME TimerTyped, PrescalerInv, Prescaler(reg.prescaler_sel)
  PROVE  /\ prev_sel' = reg.prescaler_sel
         /\ prev_sel' = 0 => clock_enable'
         /\ prev_sel' # 0 => /\ prescaler_cnt' < 2 ^ prev_sel'
                             /\ clock_enable' <=> prescaler_cnt' = 0 /\ phase_cnt' = 0
         /\ prev_sel = reg.prescaler_sel /\ prev_sel # 0 =>
              (IF phase_cnt' = 1 THEN prescaler_cnt' + Half ELSE prescaler_cnt')
                = IF Position = 2 * Half - 1 THEN 0 ELSE Position + 1
<1> DEFINE sel == reg.prescaler_sel
<1>1. prev_sel' = sel /\ sel \in Selections /\ prescaler_cnt \in Nat /\ phase_cnt \in {0, 1}
  BY DEF Prescaler, TimerTyped
<1>2. sel # 0 => 2 ^ sel \in Nat /\ 2 ^ sel >= 2
  BY <1>1, Powers
<1>3. CASE NewSelection(sel)
  <2>1. /\ sel # prev_sel /\ prescaler_cnt' = 0 /\ phase_cnt' = 1
        /\ clock_enable' <=> sel = 0
    BY <1>3 DEF NewSelection
  <2> QED  BY <1>1, <1>2, <2>1
<1>4. CASE Undivided(sel)
  BY <1>1, <1>4 DEF Undivided
<1>5. CASE Wrap(sel)
  <2>1. /\ sel = prev_sel /\ sel # 0 /\ prescaler_cnt = 2 ^ sel - 1
        /\ prescaler_cnt' = 0 /\ phase_cnt' = 1 - phase_cnt
        /\ clock_enable' <=> phase_cnt = 1
    BY <1>5 DEF Wrap, prescaler_max
  <2> QED  BY <1>1, <1>2, <2>1 DEF Position, Half
<1>6. CASE Divide(sel)
  <2>1. /\ sel = prev_sel /\ sel # 0 /\ prescaler_cnt # 2 ^ sel - 1
        /\ prescaler_cnt' = prescaler_cnt + 1 /\ ~clock_enable' /\ phase_cnt' = phase_cnt
    BY <1>6 DEF Divide, prescaler_max
  <2>2. prescaler_cnt < 2 ^ sel
    BY <2>1 DEF PrescalerInv
  <2>3. prescaler_cnt' < 2 ^ sel /\ prescaler_cnt' # 0
    BY <1>1, <1>2, <2>1, <2>2
  <2>4. (IF phase_cnt' = 1 THEN prescaler_cnt' + Half ELSE prescaler_cnt')
          = IF Position = 2 * Half - 1 THEN 0 ELSE Position + 1
    BY <1>1, <1>2, <2>1, <2>3 DEF Position, Half
  <2> QED  BY <1>1, <2>1, <2>3, <2>4
<1> QED  BY <1>3, <1>4, <1>5, <1>6 DEF Prescaler

(* Products, which the provers know little of.                                *)
LEMMA Multiple ==
  ASSUME NEW M \in Nat, NEW a \in Nat, NEW b \in Nat, a <= b
  PROVE  a * M <= b * M /\ a * M \in Nat /\ (a + 1) * M = a * M + M
<1>1. a * M \in Nat /\ (b - a) * M \in Nat
  OBVIOUS
<1>2. a * M + (b - a) * M = b * M
  OBVIOUS
<1>3. (a + 1) * M = a * M + M
  OBVIOUS
<1> QED  BY <1>1, <1>2, <1>3

(* The counter of a run keeps the pace: the match of a trigger is never seen  *)
(* twice, and the next one is a period later.                                 *)
LEMMA PacedKept ==
  ASSUME NEW ready, NEW resp, PeriodsFit, ProgramInv, PlaceInv, RateInv, Edge(ready, resp),
         reg.run_enable, reg'.run_enable, ~done_reg, reg' = reg,
         TimerEdge(reg.prescaler_sel, control_timer, timer_compare), Rearm
  PROVE  Paced'
<1>1. PICK cmp, sel, H : cmp = timer_compare /\ sel = reg.prescaler_sel /\ H = Half
  OBVIOUS
<1>2. /\ cmp \in Nat /\ cmp >= 1 /\ cmp + 3 <= TimerMax /\ TimerMax \in Nat /\ sel \in Nat
      /\ sel # 0 => H \in Nat /\ H >= 2 /\ cmp * (2 * H) <= TimerMax
  <2>1. PICK p \in Periods : settings.sample_period = p[1] /\ settings.prescaler_sel = p[2]
    BY DEF RateInv, TimedBy
  <2>2. /\ p[1] \in Nat /\ p[1] > 1 /\ p[2] \in Selections /\ p[1] + 2 <= TimerMax
        /\ (p[1] - 1) * 2 ^ (p[2] + 1) <= TimerMax /\ TimerMax \in Nat
    BY ProgramAssumption, TimerAssumption DEF PeriodsFit
  <2>3. cmp = p[1] - 1 /\ sel = p[2]
    BY <1>1, <2>1, <2>2 DEF PlaceInv, timer_compare
  <2>4. sel # 0 => H \in Nat /\ H >= 2 /\ 2 ^ (sel + 1) = 2 * H
    BY <1>1, <2>2, <2>3, Powers DEF Half
  <2>5. sel # 0 => cmp * (2 * H) <= TimerMax
    BY <2>2, <2>3, <2>4
  <2>6. sel \in Nat  BY <2>2, <2>3 DEF Selections
  <2> QED  BY <2>2, <2>3, <2>4, <2>5, <2>6
<1>3. pc \in Polling  BY DEF PlaceInv
<1>4. PICK pos, next : /\ pos = Position
                       /\ next = (IF phase_cnt' = 1 THEN prescaler_cnt' + Half
                                  ELSE prescaler_cnt')
  OBVIOUS
<1>5. /\ sel = 0 => clock_enable
      /\ sel # 0 => /\ pos \in 0 .. 2 * H - 1 /\ (clock_enable <=> pos = 0)
                    /\ next = IF pos = 2 * H - 1 THEN 0 ELSE pos + 1
  <2>1. prev_sel = sel /\ (sel = 0 => clock_enable)
    BY <1>1, <1>3 DEF RateInv, PrescalerInv
  <2>2. sel # 0 => /\ prescaler_cnt < H
                   /\ clock_enable <=> prescaler_cnt = 0 /\ phase_cnt = 0
    BY <1>1, <2>1 DEF RateInv, PrescalerInv, Half
  <2>3. prescaler_cnt \in Nat /\ phase_cnt \in {0, 1}
    BY DEF RateInv, TimerTyped
  <2>4. sel # 0 => next = IF pos = 2 * H - 1 THEN 0 ELSE pos + 1
    BY <1>1, <1>4, <2>1, PrescalerTurns DEF RateInv, TimerEdge
  <2>5. sel # 0 => pos \in 0 .. 2 * H - 1 /\ (clock_enable <=> pos = 0)
    BY <1>1, <1>2, <1>4, <2>2, <2>3 DEF Position
  <2> QED  BY <2>1, <2>4, <2>5
<1>6. /\ gap \in Nat /\ count_reg \in Nat
      /\ gap = 1 => rearm_state = "REARM" /\ prev_match
      /\ gap # 1 => /\ rearm_state = "RUN" /\ count_reg <= cmp
                    /\ count_reg = cmp /\ sel # 0 => pos = 1
      /\ gap = 2 => count_reg = 0 /\ ~running_flag
      /\ gap >= 3 => running_flag
      /\ gap \notin {1, 2} => ~prev_match
      /\ sel # 0 => /\ gap \in {1, 2} => pos = gap + 1
                    /\ gap >= 3 => gap + 1 = count_reg * (2 * H)
                                               + IF pos = 0 THEN 2 * H ELSE pos
      /\ sel = 0 /\ gap >= 3 => gap = count_reg + 3
  BY <1>1, <1>4 DEF RateInv, Paced, TimerTyped
<1>7. /\ Trigger <=> count_reg = cmp /\ ~prev_match
      /\ Match <=> count_reg = cmp /\ ~prev_match
      /\ prev_match' <=> count_reg = cmp
      /\ rearm_state' = IF rearm_state = "RUN" /\ Match THEN "REARM" ELSE "RUN"
  BY <1>1 DEF Trigger, Match, compare_int, match_now, TimerEdge, Comparator, Rearm
<1>8. /\ rearm_state = "REARM" => count_reg' = 0 /\ running_flag' = FALSE
      /\ rearm_state # "REARM" /\ ~running_flag =>
           count_reg' = count_reg /\ running_flag' = TRUE
      /\ rearm_state # "REARM" /\ running_flag =>
           count_reg' = Counted /\ running_flag' = running_flag
  BY DEF TimerEdge, Counter, control_timer
<1>9. gap' = IF Trigger THEN 1 ELSE IF gap \in 1 .. TimerMax THEN gap + 1 ELSE gap
  BY DEF Edge, Remember
<1>10. SUFFICES
         /\ gap' = 1 => rearm_state' = "REARM" /\ prev_match'
         /\ gap' # 1 => /\ rearm_state' = "RUN" /\ count_reg' <= cmp
                        /\ count_reg' = cmp /\ sel # 0 => next = 1
         /\ gap' = 2 => count_reg' = 0 /\ ~running_flag'
         /\ gap' >= 3 => running_flag'
         /\ gap' \notin {1, 2} => ~prev_match'
         /\ sel # 0 => /\ gap' \in {1, 2} => next = gap' + 1
                       /\ gap' >= 3 => gap' + 1 = count_reg' * (2 * H)
                                                    + IF next = 0 THEN 2 * H ELSE next
         /\ sel = 0 /\ gap' >= 3 => gap' = count_reg' + 3
  <2>1. timer_compare' = cmp /\ reg'.prescaler_sel = sel /\ Half' = H
    BY <1>1 DEF timer_compare, Half
  <2>2. Position' = next  BY <1>4, <1>1, <2>1 DEF Position
  <2> QED  BY <2>1, <2>2 DEF Paced
<1>11. CASE Trigger
  <2>1. gap \notin {1, 2} /\ gap' = 1 /\ rearm_state' = "REARM" /\ prev_match'
    BY <1>2, <1>6, <1>7, <1>9, <1>11
  <2>2. sel # 0 => next = 2
    BY <1>2, <1>5, <1>6, <1>7, <1>11, <2>1
  <2> QED  BY <2>1, <2>2
<1>12. CASE gap = 1
  <2>1. ~Trigger /\ gap' = 2 /\ rearm_state' = "RUN" /\ count_reg' = 0 /\ ~running_flag'
    BY <1>2, <1>6, <1>7, <1>8, <1>9, <1>12
  <2>2. sel # 0 => next = 3
    BY <1>2, <1>5, <1>6, <1>12
  <2> QED  BY <1>2, <2>1, <2>2
<1>13. CASE gap = 2
  <2>1. /\ ~Trigger /\ ~Match /\ gap' = 3 /\ rearm_state' = "RUN" /\ count_reg' = 0
        /\ running_flag' /\ ~prev_match'
    BY <1>2, <1>6, <1>7, <1>8, <1>9, <1>13
  <2>2. sel # 0 => next = IF 2 * H = 4 THEN 0 ELSE 4
    BY <1>2, <1>5, <1>6, <1>13
  <2>3. sel # 0 => gap' + 1 = count_reg' * (2 * H) + IF next = 0 THEN 2 * H ELSE next
    BY <1>2, <2>1, <2>2
  <2> QED  BY <1>2, <2>1, <2>3
<1>14. CASE gap \notin {1, 2} /\ ~Trigger
  <2>1. /\ count_reg < cmp /\ ~Match /\ ~prev_match' /\ rearm_state = "RUN"
        /\ rearm_state' = "RUN"
    BY <1>2, <1>6, <1>7, <1>14
  <2>2. Counted = IF clock_enable THEN count_reg + 1 ELSE count_reg
    <3>1. count_reg + 1 \in 0 .. TimerMax  BY <1>2, <1>6, <2>1
    <3>2. \A c \in 0 .. TimerMax : c % (TimerMax + 1) = c  BY <1>2
    <3> QED  BY <3>1, <3>2 DEF Counted
  <2>3. /\ running_flag' /\ count_reg' <= cmp /\ count_reg' \in Nat
        /\ \/ count_reg' = count_reg
           \/ clock_enable /\ running_flag /\ count_reg' = count_reg + 1
        /\ running_flag => count_reg' = IF clock_enable THEN count_reg + 1 ELSE count_reg
    <3>1. CASE running_flag
      <4>1. running_flag' /\ count_reg' = Counted
        BY <1>8, <2>1, <3>1
      <4> QED  BY <1>2, <1>6, <2>1, <2>2, <3>1, <4>1
    <3>2. CASE ~running_flag
      <4>1. running_flag' /\ count_reg' = count_reg  BY <1>8, <2>1, <3>2
      <4> QED  BY <1>6, <2>1, <3>2, <4>1
    <3> QED  BY <3>1, <3>2
  <2>4. count_reg' = cmp /\ sel # 0 => next = 1
    BY <1>2, <1>5, <1>6, <2>1, <2>3
  <2>5. CASE gap = 0
    <3>1. gap' = 0  BY <1>9, <1>14, <2>5
    <3> QED  BY <2>1, <2>3, <2>4, <3>1
  <2>6. CASE gap >= 3
    <3>1. running_flag /\ count_reg' = IF clock_enable THEN count_reg + 1 ELSE count_reg
      BY <1>6, <2>3, <2>6
    <3>2. CASE sel = 0
      <4>1. gap = count_reg + 3 /\ count_reg' = count_reg + 1
        BY <1>5, <1>6, <2>6, <3>1, <3>2
      <4>2. gap' = gap + 1
        BY <1>2, <1>6, <1>9, <1>14, <2>1, <2>6, <4>1
      <4>3. gap' = count_reg' + 3 /\ gap' # 1 /\ gap' # 2 /\ gap' \notin {1, 2}
        BY <1>6, <2>6, <4>1, <4>2
      <4> QED  BY <2>1, <2>3, <3>2, <4>3
    <3>3. CASE sel # 0
      <4>1. H \in Nat /\ H >= 2 /\ pos \in 0 .. 2 * H - 1
        BY <1>2, <1>5, <3>3
      <4>2. PICK M : M = 2 * H
        OBVIOUS
      <4>3. /\ M \in Nat /\ M >= 4 /\ cmp * M <= TimerMax /\ pos \in 0 .. M - 1
            /\ gap + 1 = count_reg * M + IF pos = 0 THEN M ELSE pos
            /\ next = IF pos = M - 1 THEN 0 ELSE pos + 1
        BY <1>2, <1>5, <1>6, <2>6, <3>3, <4>1, <4>2
      <4>4. PICK c, m : c = count_reg /\ m = c * M
        OBVIOUS
      <4>5. (c + 1) * M = m + M /\ m \in Nat /\ (c + 1) * M <= cmp * M
        BY <1>2, <1>6, <2>1, <4>3, <4>4, Multiple
      <4>7. gap + 1 = m + IF pos = 0 THEN M ELSE pos
        BY <4>3, <4>4
      <4>8. gap <= TimerMax
        BY <1>2, <1>6, <4>3, <4>5, <4>7
      <4>9. gap' = gap + 1
        BY <1>6, <1>9, <1>14, <2>6, <4>8
      <4>10. gap' + 1 = count_reg' * M + IF next = 0 THEN M ELSE next
        <5>1. CASE pos = 0
          <6>1. count_reg' = c + 1 /\ next = 1  BY <1>5, <3>1, <3>3, <4>3, <4>4, <5>1
          <6> QED  BY <1>6, <4>3, <4>5, <4>7, <4>9, <5>1, <6>1
        <5>2. CASE pos # 0
          <6>1. count_reg' = c  BY <1>5, <3>1, <3>3, <4>4, <5>2
          <6> QED  BY <1>6, <4>3, <4>4, <4>5, <4>7, <4>9, <5>2, <6>1
        <5> QED  BY <5>1, <5>2
      <4>11. gap' + 1 = count_reg' * (2 * H) + IF next = 0 THEN 2 * H ELSE next
        BY <4>2, <4>10
      <4>12. gap' # 1 /\ gap' # 2 /\ gap' \notin {1, 2}
        BY <1>6, <2>6, <4>9
      <4> QED  BY <2>1, <2>3, <2>4, <3>3, <4>11, <4>12
    <3> QED  BY <3>2, <3>3
  <2>7. gap = 0 \/ gap >= 3  BY <1>6, <1>14
  <2> QED  BY <2>5, <2>6, <2>7
<1> QED  BY <1>11, <1>12, <1>13, <1>14

(* Every edge keeps the pace of the timer,                                    *)
LEMMA RateKept ==
  ASSUME NEW ready, NEW resp, PeriodsFit, IInv, PlaceInv, PlaceInv', RateInv,
         Edge(ready, resp)
  PROVE  RateInv'
<1>1. /\ Program /\ UNCHANGED settings /\ ProgramInv /\ ProgramInv' /\ Remember(resp)
      /\ TimerTyped /\ PrescalerInv /\ TimedBy(settings)
  BY ProgramStep DEF Edge, IInv, RateInv
<1>2. \/ TimerReset /\ rearm_state' = "RUN" /\ (pc = "sleep" \/ pc' = "sleep")
      \/ /\ TimerEdge(reg.prescaler_sel, control_timer, timer_compare) /\ Rearm
         /\ ~soft_reset_reg'
  BY <1>1, TimerStep
<1>3. /\ reg'.prescaler_sel = reg.prescaler_sel \/ reg'.prescaler_sel = settings.prescaler_sel
      /\ pc' \in {"prescaler", "mode", "arm"} =>
           /\ pc \in {"configure", "prescaler", "mode", "arm"}
           /\ \/ pc # "configure" /\ reg'.sample_period = reg.sample_period
              \/ reg'.sample_period = settings.sample_period
      /\ pc' \in {"mode", "arm"} =>
           /\ pc \in {"prescaler", "mode", "arm"}
           /\ \/ pc # "prescaler" /\ reg'.prescaler_sel = reg.prescaler_sel
              \/ reg'.prescaler_sel = settings.prescaler_sel
      /\ pc' \in Polling \cup {"arm"} => pc \in {"mode", "arm"} \cup Polling
  BY <1>1, TimerRegisters
<1>4. TimerTyped'
  BY <1>1, TimerTypedKept
<1>5. settings.sample_period \in Nat /\ settings.sample_period > 1
  BY <1>1, ProgramAssumption DEF TimedBy
<1>6. pc \in {"prescaler", "mode", "arm"} =>
        /\ timer_compare \in Nat /\ timer_compare >= 1
        /\ timer_compare = settings.sample_period - 1
  BY <1>5 DEF RateInv, timer_compare
<1>7. pc' \in {"mode", "arm"} \cup Polling \cup {"prescaler"} =>
        TimerEdge(reg.prescaler_sel, control_timer, timer_compare) /\ Rearm
  BY <1>2, <1>3 DEF Polling
<1>8. pc \in Preparing => count_reg = 0 /\ ~running_flag /\ ~reg.run_enable
  BY <1>1 DEF RateInv, ProgramInv, Preparing
<1>9. PrescalerInv'
  <2>1. CASE TimerReset /\ (pc = "sleep" \/ pc' = "sleep")
    <3>1. prev_sel' = 0  BY <2>1 DEF TimerReset
    <3>2. pc' \notin Polling \cup {"arm"}  BY <1>3, <2>1 DEF Polling
    <3> QED  BY <3>1, <3>2 DEF PrescalerInv
  <2>2. CASE TimerEdge(reg.prescaler_sel, control_timer, timer_compare)
    <3>1. /\ prev_sel' = reg.prescaler_sel
          /\ prev_sel' = 0 => clock_enable'
          /\ prev_sel' # 0 => /\ prescaler_cnt' < 2 ^ prev_sel'
                              /\ clock_enable' <=> prescaler_cnt' = 0 /\ phase_cnt' = 0
      BY <1>1, <2>2, PrescalerTurns DEF TimerEdge
    <3>2. pc' \in Polling \cup {"arm"} => reg'.prescaler_sel = reg.prescaler_sel
      <4>1. CASE pc' = "arm"
        <5>1. \/ reg'.prescaler_sel = settings.prescaler_sel
              \/ reg'.prescaler_sel = reg.prescaler_sel
          BY <1>3
        <5>2. pc \in {"mode", "arm"} => reg.prescaler_sel = settings.prescaler_sel
          BY DEF RateInv
        <5>3. pc = "prescaler" => pc' # "arm"
          BY <1>3, <4>1 DEF Polling
        <5> QED  BY <1>3, <4>1, <5>1, <5>2, <5>3
      <4>2. CASE pc' \in Polling
        <5>1. reg'.run_enable /\ reg' = settings'  BY <4>2 DEF PlaceInv
        <5>2. pc \in {"mode", "arm"} => reg.prescaler_sel = settings.prescaler_sel
          BY DEF RateInv
        <5>3. pc \in Polling => reg = settings  BY DEF PlaceInv
        <5> QED  BY <1>1, <1>3, <4>2, <5>1, <5>2, <5>3
      <4> QED  BY <4>1, <4>2
    <3> QED  BY <3>1, <3>2 DEF PrescalerInv
  <2> QED  BY <1>2, <2>1, <2>2
<1>10. pc' \in Preparing => count_reg' = 0 /\ ~running_flag'
  <2>1. CASE TimerReset
    BY <2>1 DEF TimerReset
  <2>2. CASE TimerEdge(reg.prescaler_sel, control_timer, timer_compare) /\ ~soft_reset_reg'
    <3> SUFFICES ASSUME pc' \in Preparing PROVE count_reg' = 0 /\ ~running_flag'
      OBVIOUS
    <3>1. pc \in Preparing  BY <1>1, <2>2, ProgramStep
    <3>2. control_timer \in {"reset", "stop"}  BY <1>8, <3>1 DEF control_timer
    <3> QED  BY <1>8, <2>2, <3>1, <3>2 DEF TimerEdge, Counter
  <2> QED  BY <1>2, <2>1, <2>2
<1>11. pc' \in {"prescaler", "mode", "arm"} => reg'.sample_period = settings'.sample_period
  BY <1>1, <1>3 DEF RateInv
<1>12. pc \in {"prescaler", "mode", "arm"} /\ pc' \in {"mode", "arm", "poll"} =>
         rearm_state' = "RUN" /\ ~prev_match'
  <2> SUFFICES ASSUME pc \in {"prescaler", "mode", "arm"}, pc' \in {"mode", "arm", "poll"}
               PROVE  rearm_state' = "RUN" /\ ~prev_match'
    OBVIOUS
  <2>1. count_reg # timer_compare
    BY <1>6, <1>8 DEF Preparing
  <2>2. ~Match  BY <2>1 DEF Match, compare_int, match_now
  <2>3. rearm_state' = "RUN"  BY <1>7, <2>2 DEF Rearm, Polling
  <2>4. prev_match' = (count_reg = timer_compare)
    BY <1>7 DEF TimerEdge, Comparator, match_now, Polling
  <2> QED  BY <2>1, <2>3, <2>4
<1>13. pc' \in {"mode", "arm"} => reg'.prescaler_sel = settings'.prescaler_sel
  BY <1>1, <1>3 DEF RateInv
<1>14. reg'.run_enable /\ ~done_reg' => Paced'
  <2> SUFFICES ASSUME reg'.run_enable, ~done_reg' PROVE Paced'
    OBVIOUS
  <2>1. pc' \in Polling  BY DEF PlaceInv
  <2>2. TimerEdge(reg.prescaler_sel, control_timer, timer_compare) /\ Rearm
    BY <1>7, <2>1
  <2>3. CASE reg.run_enable
    <3>1. reg' = reg  BY <1>1, <2>3 DEF PlaceInv
    <3>2. ~done_reg
      BY EngineMoves, <1>1, <2>3 DEF Taken, triggerVars
    <3> QED  BY <1>1, <2>2, <2>3, <3>1, <3>2, PacedKept
  <2>4. CASE ~reg.run_enable
    <3>1. pc = "arm" /\ pc' = "poll"
      BY <1>1, <2>4, Moves DEF Arming
    <3>2. gap' = 0  BY <1>1, <2>4 DEF Remember
    <3>3. rearm_state' = "RUN" /\ ~prev_match'
      BY <1>12, <3>1
    <3>4. count_reg' = 0
      <4>1. control_timer \in {"reset", "stop"}  BY <2>4 DEF control_timer
      <4>2. count_reg = 0  BY <1>8, <3>1 DEF Preparing
      <4> QED  BY <2>2, <4>1, <4>2 DEF TimerEdge, Counter
    <3>5. timer_compare' \in Nat /\ timer_compare' >= 1
      <4>1. reg'.sample_period = settings.sample_period
        BY <1>1 DEF PlaceInv
      <4> QED  BY <1>5, <4>1 DEF timer_compare
    <3> QED  BY <3>2, <3>3, <3>4, <3>5 DEF Paced
  <2> QED  BY <2>3, <2>4
<1> QED
  BY <1>1, <1>3, <1>4, <1>9, <1>10, <1>11, <1>12, <1>13, <1>14 DEF RateInv

(* and it starts in step.                                                     *)
LEMMA RateInit == ASSUME Init PROVE RateInv
<1>1. TimedBy(settings)  BY SettingsTimed DEF Init
<1>2. ~reg.run_enable /\ reg.prescaler_sel = 0  BY DEF Init, Off
<1>3. TimerTyped
  <2>1. /\ prescaler_cnt = 0 /\ phase_cnt = 1 /\ prev_sel = 0 /\ clock_enable = FALSE
        /\ count_reg = 0 /\ running_flag = FALSE /\ prev_match = FALSE
        /\ rearm_state = "RUN" /\ gap = 0
    BY DEF Init, EngineInit, TimerInit
  <2>2. 0 \in Selections  BY DEF Selections
  <2> QED  BY <1>2, <2>1, <2>2 DEF TimerTyped
<1>4. PrescalerInv
  BY DEF Init, EngineInit, TimerInit, PrescalerInv, Polling
<1> QED  BY <1>1, <1>2, <1>3, <1>4 DEF Init, RateInv, Preparing

(* The invariant of the timer, for periods that the history can count.        *)
LEMMA Rate == ASSUME PeriodsFit PROVE Spec => []RateInv
<1>1. Init => RateInv  BY RateInit
<1>2. RunInv /\ RunInv' /\ RateInv /\ [Next]_vars => RateInv'
  <2> SUFFICES ASSUME RunInv, RunInv', RateInv, [Next]_vars PROVE RateInv'
    OBVIOUS
  <2>1. CASE Next
    <3>1. PICK ready \in Ready, resp \in Answers : Edge(ready, resp)
      BY <2>1 DEF Next
    <3> QED  BY <3>1, PeriodsFit, RateKept DEF RunInv
  <2>2. CASE UNCHANGED vars
    <3> USE <2>2 DEF vars, engineVars, commandVars, timerVars, prescalerVars, triggerVars,
                     captureVars, programVars, history
    <3>1. TimerTyped'  BY DEF RateInv, TimerTyped
    <3>2. PrescalerInv'  BY DEF RateInv, PrescalerInv
    <3>3. Paced' <=> Paced  BY DEF Paced, Position, Half, timer_compare
    <3>4. TimedBy(settings)'  BY DEF RateInv, TimedBy
    <3> QED  BY <3>1, <3>2, <3>3, <3>4 DEF RateInv
  <2> QED  BY <2>1, <2>2
<1> QED  BY <1>1, <1>2, WholeRun, PTL DEF Spec

(* A trigger that is not the first of its run.                                *)
LEMMA Steady ==
  ASSUME RateInv, PlaceInv, Trigger, gap # 0
  PROVE  gap = TruePeriod
<1>1. /\ reg.run_enable /\ ~done_reg /\ count_reg = timer_compare /\ ~prev_match
  BY DEF Trigger, Match, compare_int, match_now
<1>2. Paced /\ gap \in Nat /\ count_reg \in Nat  BY <1>1 DEF RateInv, TimerTyped
<1>3. PICK p \in Periods : reg.sample_period = p[1] /\ reg.prescaler_sel = p[2]
  BY <1>1 DEF RateInv, TimedBy, PlaceInv
<1>4. /\ p[1] \in Nat /\ p[1] > 1 /\ p[2] \in Selections
      /\ timer_compare = p[1] - 1
  BY <1>3, ProgramAssumption DEF timer_compare
<1>5. gap >= 3
  BY <1>1, <1>2, <1>4 DEF Paced
<1>6. CASE reg.prescaler_sel = 0
  BY <1>1, <1>2, <1>3, <1>4, <1>5, <1>6 DEF Paced, TruePeriod
<1>7. CASE reg.prescaler_sel # 0
  <2>1. Position = 1 /\ gap + 1 = count_reg * (2 * Half) + 1
    BY <1>1, <1>2, <1>5, <1>7 DEF Paced
  <2>2. 2 ^ (reg.prescaler_sel + 1) = 2 * Half /\ Half \in Nat
    BY <1>3, <1>4, <1>7, Powers DEF Half
  <2>3. gap = count_reg * (2 * Half)
    BY <1>2, <2>1, <2>2
  <2> QED  BY <1>1, <1>3, <1>4, <1>7, <2>2, <2>3 DEF TruePeriod
<1> QED  BY <1>6, <1>7

(* The triggers of a run are always the same number of cycles apart.          *)
THEOREM SteadyTriggers == ASSUME PeriodsFit PROVE Spec => []SteadyRate
<1>1. RateInv /\ RunInv => SteadyRate
  BY Steady DEF SteadyRate, RunInv
<1> QED  BY <1>1, Rate, WholeRun, PeriodsFit, PTL
-----------------------------------------------------------------------------
(* The scan.  The command on offer is for the entry scan_idx of the table;    *)
(* the one that is converted is for the entry before it, and the last sample  *)
(* for the entry before that.                                                 *)
ScanLen == IF reg.scan_enable THEN reg.scan_len ELSE 1
Before(i) == IF i = 0 THEN ScanLen - 1 ELSE i - 1

Synced ==
  /\ scan_idx < ScanLen
  /\ Busy => converting.channel = Expected(Before(scan_idx))
  /\ window # << >> =>
       Newest(window)[1] =
         Expected(IF Busy THEN Before(Before(scan_idx)) ELSE Before(scan_idx)) % 16
  /\ taken <= BUFFER_DEPTH => scan_idx = (taken + IF Busy THEN 1 ELSE 0) % ScanLen

(* A command waits MaxWait cycles at most, and is answered by the next one.   *)
OnTime ==
  /\ cmd_valid_sig => gap \in 1 .. MaxWait + 1 /\ waited = gap - 1
  /\ gap = 1 => cmd_valid_sig
  /\ gap >= 2 /\ cmd_valid_sig => ~Busy
  /\ Busy => gap >= 1 /\ converting.age \in 1 .. MaxConvert
  /\ Busy /\ gap = 1 => converting.age = MaxConvert
  /\ Busy /\ gap >= 2 => converting.age + 1 + MaxWait >= gap

ScanInv ==
  /\ settings.scan_enable => settings.scan_len \in 1 .. 6
  /\ pc \in Preparing => ~cmd_valid_sig /\ scan_idx = 0
  /\ pc \in Preparing \ {"sleep"} => ~Busy
  /\ reg.run_enable /\ ~done_reg => Synced /\ OnTime
  /\ ScanInOrder

(* The history of a run counts every cycle since the last trigger.            *)
LEMMA GapCounts ==
  ASSUME NEW ready, NEW resp, PeriodsFit, PlaceInv, RateInv, Edge(ready, resp),
         reg.run_enable, ~done_reg
  PROVE  gap \in Nat /\ gap' = IF Trigger THEN 1 ELSE IF gap = 0 THEN 0 ELSE gap + 1
<1>1. gap' = IF Trigger THEN 1 ELSE IF gap \in 1 .. TimerMax THEN gap + 1 ELSE gap
  BY DEF Edge, Remember
<1>2. /\ Paced /\ gap \in Nat /\ count_reg \in Nat /\ prescaler_cnt \in Nat
      /\ phase_cnt \in {0, 1}
  BY DEF RateInv, TimerTyped
<1>3. PICK p \in Periods : reg.sample_period = p[1] /\ reg.prescaler_sel = p[2]
  BY DEF RateInv, TimedBy, PlaceInv
<1>4. PICK cmp : cmp = timer_compare
  OBVIOUS
<1>5. /\ p[1] \in Nat /\ p[1] > 1 /\ p[2] \in Selections
      /\ cmp = p[1] - 1 /\ p[1] + 2 <= TimerMax /\ TimerMax \in Nat
      /\ (p[1] - 1) * 2 ^ (p[2] + 1) <= TimerMax
  BY <1>3, <1>4, ProgramAssumption, TimerAssumption DEF timer_compare, PeriodsFit
<1>6. gap <= TimerMax
  <2> SUFFICES ASSUME gap >= 3 PROVE gap <= TimerMax
    BY <1>2, <1>5
  <2>1. CASE reg.prescaler_sel = 0
    BY <1>2, <1>4, <1>5, <2>1 DEF Paced
  <2>2. CASE reg.prescaler_sel # 0
    <3>1. PICK M : M = 2 * Half
      OBVIOUS
    <3>2. M \in Nat /\ M >= 4 /\ cmp * M <= TimerMax /\ Half \in Nat
      BY <1>3, <1>5, <2>2, <3>1, Powers DEF Half
    <3>3. /\ gap + 1 = count_reg * M + IF Position = 0 THEN M ELSE Position
          /\ count_reg <= cmp /\ (count_reg = cmp => Position = 1)
      BY <1>2, <1>4, <2>2, <3>1 DEF Paced
    <3>4. Position \in Nat /\ Position < M
      <4>1. prescaler_cnt < Half
        <5>1. prev_sel = reg.prescaler_sel
          BY DEF RateInv, PrescalerInv, PlaceInv
        <5> QED  BY <2>2, <5>1 DEF RateInv, PrescalerInv, Half
      <4> QED  BY <1>2, <3>1, <3>2, <4>1 DEF Position
    <3>5. CASE count_reg = cmp
      BY <1>2, <1>5, <3>2, <3>3, <3>5
    <3>6. CASE count_reg < cmp
      <4>1. (count_reg + 1) * M = count_reg * M + M /\ count_reg * M \in Nat
        BY <1>2, <3>2, Multiple
      <4>2. (count_reg + 1) * M <= cmp * M /\ cmp * M \in Nat
        BY <1>2, <1>5, <3>2, <3>6, Multiple
      <4> QED  BY <1>2, <1>5, <3>2, <3>3, <3>4, <4>1, <4>2
    <3> QED  BY <1>2, <1>5, <3>3, <3>5, <3>6
  <2> QED  BY <2>1, <2>2
<1> QED  BY <1>1, <1>2, <1>5, <1>6

(* The scan of the program is one of its constants.                           *)
LEMMA SettingsScan ==
  \A s \in Untriggered \union Triggered : s.scan_enable => s.scan_len \in 1 .. 6
<1> DEFINE Short(s) == s.scan_enable => s.scan_len \in 1 .. 6
<1>1. Off \in Settings /\ ~Off.scan_enable  BY DEF Off, Settings
<1>2. \A s \in Timing : s \in Settings /\ ~s.scan_enable
  <2> TAKE u \in Timing
  <2>0. PICK p \in Periods, c \in CHANNELS : u = Timed(p, c)
    BY DEF Timing
  <2>1. p[1] \in Nat /\ p[2] \in Nat /\ c \in Nat
    BY ProgramAssumption, BufferAssumption DEF Selections
  <2> QED  BY <1>1, <2>0, <2>1 DEF Settings, Timed
<1>3. \A s \in Scanning : s \in Settings /\ Short(s)
  <2> TAKE u \in Scanning
  <2> SUFFICES ASSUME u \notin Timing PROVE u \in Settings /\ Short(u)
    BY <1>2
  <2>0. PICK s \in Timing, len \in ScanLengths : u = Scan(s, len)
    BY DEF Scanning
  <2>1. len \in 1 .. 6  BY ProgramAssumption
  <2>2. u \in Settings
    <3>1. len \in Nat  BY <2>1
    <3> QED  BY <1>2, <2>0, <3>1 DEF Settings, Scan
  <2>3. u.scan_len = len  BY <1>2, <2>0 DEF Settings, Scan
  <2> QED  BY <2>1, <2>2, <2>3
<1>4. \A s \in Untriggered : Short(s)
  <2> TAKE u \in Untriggered
  <2>0. PICK s \in Scanning, single \in BOOLEAN : u = Shot(s, single)
    BY DEF Untriggered
  <2>1. u.scan_enable = s.scan_enable /\ u.scan_len = s.scan_len
    BY <1>3, <2>0 DEF Settings, Shot
  <2> QED  BY <1>3, <2>1
<1>5. \A s \in Triggered : Short(s)
  <2> TAKE u \in Triggered
  <2>0. PICK s \in Scanning, t \in Triggers : u = OnTrigger(s, t)
    BY DEF Triggered
  <2>1. u.scan_enable = s.scan_enable /\ u.scan_len = s.scan_len
    BY <1>3, <2>0 DEF Settings, OnTrigger
  <2> QED  BY <1>3, <2>1
<1> QED  BY <1>4, <1>5

(* Counting round the scan table.                                             *)
LEMMA Round ==
  ASSUME NEW n \in 1 .. 6
  PROVE  \A x \in Nat : /\ x % n \in 0 .. n - 1 /\ (x % n) % n = x % n
                        /\ (x + 1) % n = IF x % n = n - 1 THEN 0 ELSE (x % n) + 1
                        /\ x < n => x % n = x
<1>1. CASE n = 1  BY <1>1
<1>2. CASE n = 2  BY <1>2
<1>3. CASE n = 3  BY <1>3
<1>4. CASE n = 4  BY <1>4
<1>5. CASE n = 5  BY <1>5
<1>6. CASE n = 6  BY <1>6
<1>7. n = 1 \/ n = 2 \/ n = 3 \/ n = 4 \/ n = 5 \/ n = 6  OBVIOUS
<1> QED  BY <1>1, <1>2, <1>3, <1>4, <1>5, <1>6, <1>7, Zenon

(* The entry of the k-th sample depends on k modulo the length only.          *)
LEMMA ScanRound ==
  ASSUME reg.scan_enable => reg.scan_len \in 1 .. 6
  PROVE  /\ ScanLen \in 1 .. 6
         /\ \A x \in Nat : /\ x % ScanLen \in 0 .. ScanLen - 1
                           /\ (x + 1) % ScanLen = IF x % ScanLen = ScanLen - 1 THEN 0
                                                  ELSE (x % ScanLen) + 1
                           /\ Expected(x) = Expected(x % ScanLen)
                           /\ x < ScanLen => x % ScanLen = x
         /\ Expected(ScanLen) = Expected(0)
<1>1. ScanLen \in 1 .. 6  BY DEF ScanLen
<1>2. ASSUME NEW x \in Nat PROVE Expected(x) = Expected(x % ScanLen)
  <2>1. CASE reg.scan_enable
    <3>1. ScanLen = reg.scan_len  BY <2>1 DEF ScanLen
    <3>2. (x % reg.scan_len) % reg.scan_len = x % reg.scan_len
      BY <1>1, <3>1, Round
    <3> QED  BY <2>1, <3>1, <3>2 DEF Expected
  <2>2. CASE ~reg.scan_enable
    BY <2>2 DEF Expected
  <2> QED  BY <2>1, <2>2
<1>3. ScanLen % ScanLen = 0
  <2>1. \A n \in 1 .. 6 : n % n = 0  OBVIOUS
  <2> QED  BY <1>1, <2>1
<1>4. Expected(ScanLen) = Expected(0)
  BY <1>1, <1>2, <1>3
<1> QED  BY <1>1, <1>2, <1>4, Round

(* A command on offer is for the entry of the scan, and the entry after it    *)
(* is the next in the round.                                                  *)
LEMMA ScanMoves ==
  ASSUME reg.scan_enable => reg.scan_len \in 1 .. 6, scan_idx \in Nat, scan_idx < ScanLen
  PROVE  /\ cmd_channel = Expected(scan_idx)
         /\ NextScan = IF scan_idx = ScanLen - 1 THEN 0 ELSE scan_idx + 1
<1>1. CASE reg.scan_enable
  <2>1. ScanLen = reg.scan_len /\ ScanLen \in 1 .. 6  BY <1>1 DEF ScanLen
  <2>2. scan_idx <= 5  BY <2>1
  <2>5. scan_idx % ScanLen = scan_idx
    <3> HIDE DEF ScanLen
    <3> QED  BY <2>1, Round
  <2>3. \A k \in 0 .. 7 : k % 8 = k  OBVIOUS
  <2>4. NextScan = IF scan_idx = ScanLen - 1 THEN 0 ELSE scan_idx + 1
    <3>1. (scan_idx + 1) % 8 = scan_idx + 1  BY <2>2, <2>3
    <3> QED  BY <1>1, <2>1, <3>1 DEF NextScan
  <2> QED  BY <1>1, <2>1, <2>2, <2>4 DEF cmd_channel, Expected
<1>2. CASE ~reg.scan_enable
  BY <1>2 DEF cmd_channel, Expected, NextScan, ScanLen
<1> QED  BY <1>1, <1>2

(* The command of a cycle, and what the ADC makes of it.                      *)
LEMMA Offers ==
  ASSUME NEW ready, NEW resp, ProgramInv, PlaceInv, Edge(ready, resp)
  PROVE  /\ \/ cmd_valid_sig' = FALSE /\ scan_idx' = 0 /\ (pc = "sleep" \/ pc' = "sleep")
            \/ Command(ready) /\ ~soft_reset_reg
         /\ reg.run_enable => Command(ready) /\ ~soft_reset_reg
         /\ pc' \in Preparing =>
              pc \in Preparing \/ (cmd_valid_sig' = FALSE /\ scan_idx' = 0)
<1>1. Engine(ready, resp) /\ ProgramInv' /\ Program /\ UNCHANGED settings
      /\ (pc' \in Preparing => soft_reset_reg' \/ pc \in Preparing)
  BY ProgramStep DEF Edge
<1>2. soft_reset_reg \/ soft_reset_reg' => pc = "sleep" \/ pc' = "sleep"
  BY <1>1 DEF ProgramInv
<1>3. reg.run_enable => ~soft_reset_reg /\ ~soft_reset_reg'
  <2>1. pc \in Polling => pc # "sleep" /\ pc' # "sleep"
    <3>1. pc' \in BeforeRun => pc \in BeforeRun \/ Restart
      BY <1>1, Moves
    <3> QED  BY <3>1 DEF BeforeRun, Preparing, Polling, Restart
  <2> QED  BY <1>2, <2>1 DEF PlaceInv
<1>4. soft_reset_reg' => pc' = "sleep"  BY <1>1 DEF ProgramInv
<1> QED  BY <1>1, <1>2, <1>3, <1>4 DEF Engine, EngineReset, EngineEdge

(* The program sleeps until the ADC is idle before it configures a run.       *)
LEMMA Rested ==
  ASSUME Program, pc' \in Preparing \ {"sleep"}
  PROVE  pc \in Preparing \ {"sleep"} \/ Quiet
  BY DEF Program, Wait, programVars, Stop, SoftReset, Sleep, WritePeriod, WritePrescaler,
         WriteMode, Arm, ReadStatus, ReadIndex, DumpAddress, WriteAddress, DumpRead, Goto,
         Preparing

(* The ADC takes a command when it is idle, within MaxWait cycles, and        *)
(* answers it within MaxConvert.                                              *)
LEMMA AdcStep ==
  ASSUME NEW ready \in Ready, NEW resp \in Answers, EngineTyped, Adc(ready, resp),
         ~soft_reset_reg
  PROVE  /\ ~Busy => resp = NoSample
         /\ resp = NoSample => ~Busy \/ converting.age < MaxConvert
         /\ Busy => ~ready
         /\ ~Busy /\ ~ready => ~(waited >= MaxWait)
         /\ cmd_valid_sig /\ ready =>
              Busy' /\ converting'.age = 1 /\ converting'.channel = cmd_channel
         /\ ~(cmd_valid_sig /\ ready) /\ resp # NoSample => ~Busy'
         /\ ~(cmd_valid_sig /\ ready) /\ resp = NoSample =>
              /\ Busy' <=> Busy
              /\ Busy => /\ converting'.age = converting.age + 1
                         /\ converting'.channel = converting.channel
         /\ cmd_valid_sig /\ ~ready /\ waited < MaxWait => waited' = waited + 1
         /\ ~cmd_valid_sig => waited' = 0
<1>1. converting.age \in Nat /\ MaxConvert \in Nat /\ converting \in [age : Nat, channel : Nat]
  BY ProgramAssumption DEF EngineTyped
<1>2. ready \in BOOLEAN  BY DEF Ready
<1>3. /\ ~Busy => resp = NoSample
      /\ resp = NoSample => ~Busy \/ converting.age < MaxConvert
  <2>1. NoSample \notin [channel : {converting.channel}, data : CODES]
    <3> SUFFICES ASSUME NEW r \in [channel : {converting.channel}, data : CODES], r = << >>
                 PROVE  FALSE
      BY DEF NoSample
    <3>1. "data" \in DOMAIN r  OBVIOUS
    <3>2. DOMAIN << >> = 1 .. 0  OBVIOUS
    <3> QED  BY <3>1, <3>2
  <2>2. ~Busy => converting.age = 0  BY DEF Busy, Idle
  <2>3. MaxConvert > 0  BY ProgramAssumption
  <2> QED  BY <1>1, <2>1, <2>2, <2>3 DEF Answers
<1>4. (Busy => ~ready) /\ (~Busy /\ ~ready => ~(waited >= MaxWait))
  BY DEF Ready
<1>5. waited' = IF cmd_valid_sig /\ ~ready /\ waited < MaxWait THEN waited + 1
                ELSE IF cmd_valid_sig /\ ~ready THEN waited ELSE 0
  BY DEF Adc
<1>6. CASE cmd_valid_sig /\ ready
  <2>1. converting' = [age |-> 1, channel |-> cmd_channel]
    BY <1>6 DEF Adc, Accepted
  <2>2. Busy' /\ converting'.age = 1 /\ converting'.channel = cmd_channel
    BY <2>1 DEF Busy, Idle
  <2> QED  BY <1>3, <1>4, <1>6, <2>2
<1>7. CASE ~(cmd_valid_sig /\ ready)
  <2>1. converting' = IF resp # NoSample THEN Idle
                      ELSE IF Busy THEN [converting EXCEPT !.age = @ + 1] ELSE Idle
    BY <1>7 DEF Adc, Accepted
  <2>2. resp # NoSample => ~Busy'  BY <2>1 DEF Busy
  <2>3. CASE resp = NoSample /\ Busy
    <3>1. /\ converting'.age = converting.age + 1
          /\ converting'.channel = converting.channel
      BY <1>1, <2>1, <2>3
    <3>2. converting'.age # 0  BY <1>1, <3>1
    <3>3. Busy'
      <4> SUFFICES ASSUME converting' = [age |-> 0, channel |-> 0] PROVE FALSE
        BY DEF Busy, Idle
      <4> QED  BY <3>2
    <3> QED  BY <1>3, <1>4, <1>5, <1>7, <2>3, <3>1, <3>3
  <2>4. CASE resp = NoSample /\ ~Busy
    <3>1. ~Busy'  BY <2>1, <2>4 DEF Busy
    <3> QED  BY <1>3, <1>4, <1>5, <1>7, <2>4, <3>1
  <2>5. CASE resp # NoSample
    BY <1>3, <1>4, <1>5, <1>7, <2>2, <2>5
  <2> QED  BY <2>3, <2>4, <2>5
<1> QED  BY <1>6, <1>7

(* A command is taken, and its answer comes, before the next trigger.         *)
LEMMA OnTimeKept ==
  ASSUME NEW ready \in Ready, NEW resp \in Answers, PeriodsFit, InTime, ProgramInv, PlaceInv,
         EngineTyped, RateInv, OnTime, Edge(ready, resp), reg.run_enable, ~done_reg
  PROVE  OnTime' /\ (Trigger => ~cmd_valid_sig)
<1>1. /\ Command(ready) /\ ~soft_reset_reg /\ Adc(ready, resp)
      /\ converting.age \in Nat
      /\ MaxWait \in Nat /\ MaxWait > 0 /\ MaxConvert \in Nat /\ MaxConvert > 0
  <2>1. Command(ready) /\ ~soft_reset_reg  BY Offers
  <2> QED  BY <2>1, ProgramAssumption DEF Edge, EngineTyped
<1>2. /\ gap \in Nat
      /\ gap' = IF Trigger THEN 1 ELSE IF gap = 0 THEN 0 ELSE gap + 1
  BY GapCounts
<1>3. Trigger /\ gap # 0 => gap >= MaxWait + MaxConvert /\ gap >= MaxWait + 2
  <2> SUFFICES ASSUME Trigger, gap # 0
               PROVE  gap >= MaxWait + MaxConvert /\ gap >= MaxWait + 2
    OBVIOUS
  <2>1. gap = TruePeriod  BY Steady
  <2>2. PICK p \in Periods : reg.sample_period = p[1] /\ reg.prescaler_sel = p[2]
    BY DEF RateInv, TimedBy, PlaceInv
  <2>3. TruePeriod = Distance(p)  BY <2>2 DEF TruePeriod, Distance
  <2> QED  BY <1>1, <1>2, <2>1, <2>3 DEF InTime
<1>4. /\ cmd_valid_sig => gap \in 1 .. MaxWait + 1 /\ waited = gap - 1
      /\ gap = 1 => cmd_valid_sig
      /\ gap >= 2 /\ cmd_valid_sig => ~Busy
      /\ Busy => gap >= 1 /\ converting.age \in 1 .. MaxConvert
      /\ Busy /\ gap = 1 => converting.age = MaxConvert
      /\ Busy /\ gap >= 2 => converting.age + 1 + MaxWait >= gap
  BY DEF OnTime
<1>5. Trigger => ~cmd_valid_sig
  BY <1>1, <1>2, <1>3, <1>4
<1>6. cmd_valid_sig' <=> Trigger \/ (cmd_valid_sig /\ ~ready)
  BY <1>1, <1>5 DEF Command, Ready
<1>7. /\ ~Busy => resp = NoSample
      /\ resp = NoSample => ~Busy \/ converting.age < MaxConvert
      /\ Busy => ~ready
      /\ ~Busy /\ ~ready => ~(waited >= MaxWait)
      /\ cmd_valid_sig /\ ready => Busy' /\ converting'.age = 1
      /\ ~(cmd_valid_sig /\ ready) /\ resp # NoSample => ~Busy'
      /\ ~(cmd_valid_sig /\ ready) /\ resp = NoSample =>
           (Busy' <=> Busy) /\ (Busy => converting'.age = converting.age + 1)
      /\ cmd_valid_sig /\ ~ready /\ waited < MaxWait => waited' = waited + 1
      /\ ~cmd_valid_sig => waited' = 0
  BY <1>1, AdcStep
<1>8. SUFFICES
        /\ cmd_valid_sig' => gap' \in 1 .. MaxWait + 1 /\ waited' = gap' - 1
        /\ gap' = 1 => cmd_valid_sig'
        /\ gap' >= 2 /\ cmd_valid_sig' => ~Busy'
        /\ Busy' => gap' >= 1 /\ converting'.age \in 1 .. MaxConvert
        /\ Busy' /\ gap' = 1 => converting'.age = MaxConvert
        /\ Busy' /\ gap' >= 2 => converting'.age + 1 + MaxWait >= gap'
  BY <1>5, Zenon DEF OnTime
<1>9. CASE Trigger
  BY <1>1, <1>2, <1>3, <1>4, <1>5, <1>6, <1>7, <1>9
<1>10. CASE ~Trigger /\ gap = 0
  BY <1>1, <1>2, <1>4, <1>6, <1>7, <1>10
<1>11. CASE ~Trigger /\ gap # 0 /\ cmd_valid_sig /\ ready
  BY <1>1, <1>2, <1>4, <1>6, <1>7, <1>11
<1>12. CASE ~Trigger /\ gap # 0 /\ cmd_valid_sig /\ ~ready
  BY <1>1, <1>2, <1>4, <1>6, <1>7, <1>12
<1>13. CASE ~Trigger /\ gap # 0 /\ ~cmd_valid_sig
  BY <1>1, <1>2, <1>4, <1>6, <1>7, <1>13
<1> QED  BY <1>9, <1>10, <1>11, <1>12, <1>13

(* An edge of a run in which the ADC keeps its time.                          *)
LEMMA SyncedKept ==
  ASSUME NEW ready \in Ready, NEW resp \in Answers, IInv, PlaceInv, EngineTyped, WindowInv,
         ScanInv, Edge(ready, resp), reg.run_enable, ~done_reg, reg' = reg,
         Trigger => ~cmd_valid_sig
  PROVE  Synced' /\ ScanInOrder'
<1>1. PICK n, i, j : n = ScanLen /\ i = scan_idx /\ j = scan_idx'
  OBVIOUS
<1>2. reg.scan_enable => reg.scan_len \in 1 .. 6
  BY DEF PlaceInv, ScanInv
<1>3. /\ n \in 1 .. 6
      /\ \A x \in Nat : /\ x % n \in 0 .. n - 1
                        /\ (x + 1) % n = IF x % n = n - 1 THEN 0 ELSE (x % n) + 1
                        /\ Expected(x) = Expected(x % n)
      /\ Expected(n) = Expected(0)
  BY <1>1, <1>2, ScanRound
<1>4. /\ i \in 0 .. n - 1
      /\ Busy => converting.channel = Expected(Before(i))
      /\ window # << >> =>
           Newest(window)[1] = Expected(IF Busy THEN Before(Before(i)) ELSE Before(i)) % 16
      /\ taken <= BUFFER_DEPTH => i = (taken + IF Busy THEN 1 ELSE 0) % n
  BY <1>1, <1>3 DEF ScanInv, Synced, EngineTyped
<1>5. /\ cmd_channel = Expected(i)
      /\ NextScan = IF i = n - 1 THEN 0 ELSE i + 1
  BY <1>1, <1>2, <1>3, <1>4, ScanMoves
<1>6. \A x \in 0 .. n - 1 :
        /\ Before(x) \in 0 .. n - 1
        /\ Before(IF x = n - 1 THEN 0 ELSE x + 1) = x
        /\ Expected(Before(x) + 1) = Expected(x)
  <2> TAKE x \in 0 .. n - 1
  <2>1. Before(x) = IF x = 0 THEN n - 1 ELSE x - 1  BY <1>1 DEF Before
  <2>2. Before(IF x = n - 1 THEN 0 ELSE x + 1) = x
    BY <1>1, <1>3 DEF Before
  <2>3. Before(x) \in 0 .. n - 1  BY <1>3, <2>1
  <2>4. Expected(Before(x) + 1) = Expected(x)
    <3>1. CASE x = 0
      <4>1. Before(x) + 1 = n  BY <1>3, <2>1, <3>1
      <4> QED  BY <1>3, <3>1, <4>1
    <3>2. CASE x # 0
      <4>1. Before(x) + 1 = x  BY <1>3, <2>1, <3>2
      <4> QED  BY <4>1
    <3> QED  BY <3>1, <3>2
  <2> QED  BY <2>2, <2>3, <2>4
<1>7. /\ Command(ready) /\ ~soft_reset_reg /\ Adc(ready, resp)
      /\ window \in Seq(Words) /\ taken \in Nat /\ taken <= 2 * BUFFER_DEPTH
      /\ Len(window) = IF taken < BUFFER_DEPTH THEN taken ELSE BUFFER_DEPTH
  <2>1. Command(ready) /\ ~soft_reset_reg  BY Offers DEF IInv
  <2> QED  BY <2>1 DEF Edge, WindowInv, IInv, CountInv
<1>8. /\ ~Busy => resp = NoSample
      /\ Busy => ~ready
      /\ cmd_valid_sig /\ ready => Busy' /\ converting'.channel = cmd_channel
      /\ ~(cmd_valid_sig /\ ready) /\ resp # NoSample => ~Busy'
      /\ ~(cmd_valid_sig /\ ready) /\ resp = NoSample =>
           (Busy' <=> Busy) /\ (Busy => converting'.channel = converting.channel)
  BY <1>7, AdcStep
<1>9. j = IF cmd_valid_sig /\ ready THEN NextScan ELSE i
  BY <1>1, <1>7 DEF Command
<1>10. ScanInOrder
  BY DEF ScanInv
<1>11. SUFFICES
         /\ j < n
         /\ Busy' => converting'.channel = Expected(Before(j))
         /\ window' # << >> =>
              Newest(window)'[1] = Expected(IF Busy' THEN Before(Before(j)) ELSE Before(j)) % 16
         /\ taken' <= BUFFER_DEPTH => j = (taken' + IF Busy' THEN 1 ELSE 0) % n
         /\ ScanInOrder'
  <2>1. ScanLen' = n  BY <1>1 DEF ScanLen
  <2>2. Expected(Before(scan_idx))' = Expected(Before(j))
    BY <1>1, <2>1 DEF Expected, Before
  <2>3. Expected(Before(Before(scan_idx)))' = Expected(Before(Before(j)))
    BY <1>1, <2>1 DEF Expected, Before
  <2> QED  BY <1>1, <2>1, <2>2, <2>3 DEF Synced
<1>12. CASE resp = NoSample
  <2>1. UNCHANGED <<window, taken>>
    <3>1. ~Taken(resp)  BY <1>12 DEF Taken
    <3> QED  BY <3>1, RunStep
  <2>2. ScanInOrder'
    BY <1>10, <2>1 DEF ScanInOrder, Follows, Expected, Running
  <2>3. Newest(window)' = Newest(window)  BY <2>1 DEF Newest
  <2>4. CASE cmd_valid_sig /\ ready
    <3>1. ~Busy /\ Busy' /\ j \in 0 .. n - 1 /\ Before(j) = i
      BY <1>3, <1>4, <1>5, <1>6, <1>8, <1>9, <2>4
    <3>2. taken' <= BUFFER_DEPTH => j = (taken' + 1) % n
      <4>1. taken <= BUFFER_DEPTH => i = taken % n  BY <1>4, <1>7, <3>1
      <4> QED  BY <1>3, <1>5, <1>7, <1>9, <2>1, <2>4, <4>1
    <3>3. converting'.channel = Expected(Before(j))
      BY <1>5, <1>8, <2>4, <3>1
    <3>4. window' # << >> => Newest(window)'[1] = Expected(Before(Before(j))) % 16
      <4>1. window # << >> => Newest(window)[1] = Expected(Before(i)) % 16
        BY <1>4, <3>1
      <4> QED  BY <2>1, <2>3, <3>1, <4>1
    <3>5. j < n  BY <1>3, <3>1
    <3> QED  BY <2>2, <3>1, <3>2, <3>3, <3>4, <3>5
  <2>5. CASE ~(cmd_valid_sig /\ ready)
    <3>1. j = i /\ j < n /\ (Busy' <=> Busy)
      BY <1>3, <1>4, <1>8, <1>9, <1>12, <2>5
    <3>2. Busy' => converting'.channel = Expected(Before(j))
      BY <1>4, <1>8, <1>12, <2>5, <3>1
    <3>3. window' # << >> =>
            Newest(window)'[1] = Expected(IF Busy' THEN Before(Before(j)) ELSE Before(j)) % 16
      <4>1. CASE Busy   BY <1>4, <2>1, <2>3, <3>1, <4>1
      <4>2. CASE ~Busy  BY <1>4, <2>1, <2>3, <3>1, <4>2
      <4> QED  BY <4>1, <4>2
    <3>4. taken' <= BUFFER_DEPTH => j = (taken' + IF Busy' THEN 1 ELSE 0) % n
      <4>1. CASE Busy   BY <1>4, <2>1, <3>1, <4>1
      <4>2. CASE ~Busy  BY <1>4, <2>1, <3>1, <4>2
      <4> QED  BY <4>1, <4>2
    <3> QED  BY <2>2, <3>1, <3>2, <3>3, <3>4
  <2> QED  BY <2>4, <2>5
<1>13. CASE resp # NoSample
  <2>1. Busy /\ ~Busy' /\ j = i
    BY <1>8, <1>9, <1>13
  <2>2. Taken(resp) /\ ~Arming /\ ~Restart /\ Word(resp) \in Words /\ Remember(resp)
    <3>1. Taken(resp)  BY <1>13 DEF Taken
    <3> QED  BY <3>1, RunStep DEF Edge
  <2>3. Word(resp)[1] = Expected(Before(i)) % 16
    <3>1. Word(resp)[1] = converting.channel % 16  BY <2>2, Answered
    <3> QED  BY <1>4, <2>1, <3>1
  <2>4. PICK m, len : m = Len(window') /\ len = Len(window)
    OBVIOUS
  <2>5. /\ window' \in Seq(Words) /\ taken' \in Nat /\ m \in Nat /\ m > 0
        /\ len \in Nat /\ m = IF len < BUFFER_DEPTH THEN len + 1 ELSE len
        /\ window'[m] = Word(resp) /\ Newest(window)' = Word(resp)
        /\ taken' = m => taken < BUFFER_DEPTH
        /\ \A k \in 1 .. m - 1 : /\ k + len + 1 - m \in 1 .. len
                                 /\ window'[k] = window[k + len + 1 - m]
    BY <1>7, <2>2, <2>4, WindowGrows DEF Newest
  <2>6. taken' = IF taken = 2 * BUFFER_DEPTH THEN BUFFER_DEPTH + 1 ELSE taken + 1
    BY <2>2 DEF Remember
  <2>7. BUFFER_DEPTH \in Nat /\ BUFFER_DEPTH > 1  BY Remainders
  <2>8. /\ taken <= BUFFER_DEPTH => i = (taken + 1) % n
        /\ taken' <= BUFFER_DEPTH => j = taken' % n
    <3>1. taken <= BUFFER_DEPTH => i = (taken + 1) % n  BY <1>4, <2>1
    <3>2. taken' <= BUFFER_DEPTH => taken' = taken + 1 /\ taken <= BUFFER_DEPTH
      BY <1>7, <2>6, <2>7
    <3> QED  BY <2>1, <3>1, <3>2
  <2>9. taken' = m =>
          \A k \in 1 .. m : window'[k][1] = Expected(k - 1) % 16
    <3> SUFFICES ASSUME taken' = m, NEW k \in 1 .. m
                 PROVE  window'[k][1] = Expected(k - 1) % 16
      OBVIOUS
    <3>1. taken < BUFFER_DEPTH /\ taken = len /\ m = taken + 1
      BY <1>7, <2>4, <2>5, <2>7
    <3>2. CASE k # m
      <4>1. k \in 1 .. len /\ window'[k] = window[k]
        <5>1. k \in 1 .. m - 1 /\ k + len + 1 - m = k  BY <2>5, <3>1, <3>2
        <5> QED  BY <2>5, <5>1
      <4>2. k \in DOMAIN window  BY <1>7, <2>4, <4>1
      <4> QED  BY <1>10, <2>4, <3>1, <4>1, <4>2 DEF ScanInOrder, Running
    <3>3. CASE k = m
      <4>1. i = (taken + 1) % n  BY <1>7, <2>7, <2>8, <3>1
      <4>2. Before(i) = taken % n
        <5>1. i = IF taken % n = n - 1 THEN 0 ELSE (taken % n) + 1
          BY <1>3, <1>7, <4>1
        <5> QED  BY <1>3, <1>6, <1>7, <5>1
      <4>3. Expected(Before(i)) = Expected(taken)  BY <1>3, <1>7, <4>2
      <4>4. k - 1 = taken  BY <1>7, <3>1, <3>3
      <4> QED  BY <2>3, <2>5, <3>3, <4>3, <4>4
    <3> QED  BY <3>2, <3>3
  <2>10. ASSUME NEW k \in 1 .. m - 1
         PROVE  Follows(window'[k], window'[k + 1])
    <3>1. CASE k # m - 1
      <4>1. PICK q : q = k + len + 1 - m
        OBVIOUS
      <4>2. /\ q \in 1 .. len - 1 /\ window'[k] = window[q]
            /\ window'[k + 1] = window[q + 1]
        <5>1. k + 1 \in 1 .. m - 1 /\ (k + 1) + len + 1 - m = q + 1
          BY <2>5, <3>1, <4>1
        <5>2. q \in 1 .. len /\ q + 1 \in 1 .. len
          BY <2>5, <4>1, <5>1
        <5>3. window'[k] = window[q] /\ window'[k + 1] = window[q + 1]
          BY <2>5, <4>1, <5>1
        <5> QED  BY <2>5, <5>2, <5>3
      <4> QED  BY <1>10, <2>4, <4>2 DEF ScanInOrder, Running
    <3>2. CASE k = m - 1
      <4>1. window'[k] = Newest(window) /\ window # << >>
        <5>1. k + len + 1 - m = len /\ len > 0
          BY <2>5, <3>2
        <5>2. window'[k] = window[len]  BY <2>5, <5>1
        <5> QED  BY <1>7, <2>4, <5>1, <5>2 DEF Newest
      <4>2. window'[k][1] = Expected(Before(Before(i))) % 16
        BY <1>4, <2>1, <4>1
      <4>3. /\ Before(Before(i)) \in 0 .. 5
            /\ Expected(Before(Before(i)) + 1) = Expected(Before(i))
        <5>1. Before(i) \in 0 .. n - 1 /\ Before(Before(i)) \in 0 .. n - 1
          BY <1>4, <1>6
        <5>2. \A x \in 0 .. n - 1 : x \in 0 .. 5  BY <1>3
        <5> QED  BY <1>6, <5>1, <5>2
      <4>4. window'[k + 1] = Word(resp)  BY <2>5, <3>2
      <4> QED  BY <2>3, <4>2, <4>3, <4>4 DEF Follows
    <3> QED  BY <3>1, <3>2
  <2>11. ScanInOrder'
    <3>1. DOMAIN window' = 1 .. m
      <4>1. window' \in Seq(Words)  BY <2>5
      <4> QED  BY <2>4, <4>1
    <3>2. /\ taken' = Len(window') =>
               \A k \in DOMAIN window' : window'[k][1] = Expected(k - 1) % 16
          /\ \A k \in 1 .. Len(window') - 1 : Follows(window'[k], window'[k + 1])
      BY <2>4, <2>9, <2>10, <3>1
    <3> QED  BY <3>2 DEF ScanInOrder, Follows, Expected
  <2>12. Newest(window)'[1] = Expected(Before(j)) % 16
    BY <2>1, <2>3, <2>5
  <2>13. j < n  BY <1>3, <1>4, <2>1
  <2>14. taken' <= BUFFER_DEPTH => j = (taken' + 0) % n
    BY <2>5, <2>8
  <2> QED  BY <2>1, <2>11, <2>12, <2>13, <2>14
<1> QED  BY <1>12, <1>13

(* Every edge keeps the samples and the command on offer in step.             *)
LEMMA ScanKept ==
  ASSUME NEW ready \in Ready, NEW resp \in Answers, PeriodsFit, InTime, RunInv, RateInv,
         ScanInv, Edge(ready, resp)
  PROVE  ScanInv'
<1>1. /\ IInv /\ ProgramInv /\ PlaceInv /\ EngineTyped /\ WindowInv
      /\ Program /\ UNCHANGED settings /\ Adc(ready, resp) /\ PlaceInv'
  BY PlaceKept DEF RunInv, IInv, Edge
<1>2. settings'.scan_enable => settings'.scan_len \in 1 .. 6
  BY <1>1 DEF ScanInv
<1>3. pc \in Preparing => ~reg.run_enable /\ ~cmd_valid_sig /\ scan_idx = 0
  BY <1>1 DEF ScanInv, PlaceInv, Preparing, Polling
<1>4. pc' \in Preparing \/ pc = "arm" =>
        pc \in Preparing \/ (~cmd_valid_sig' /\ scan_idx' = 0)
  BY <1>1, Offers DEF Preparing
<1>5. pc' \in Preparing \/ pc = "arm" => ~cmd_valid_sig' /\ scan_idx' = 0
  <2>1. \/ cmd_valid_sig' = FALSE /\ scan_idx' = 0
        \/ Command(ready)
    BY <1>1, Offers
  <2>2. pc \in Preparing /\ Command(ready) => ~cmd_valid_sig' /\ scan_idx' = 0
    BY <1>3 DEF Command, Trigger
  <2> QED  BY <1>4, <2>1, <2>2
<1>6. ~cmd_valid_sig /\ ~Busy => ~Busy'
  BY <1>1 DEF Adc, Accepted, Busy
<1>7. pc' \in Preparing \ {"sleep"} \/ pc = "arm" => ~Busy'
  <2>1. pc' \in Preparing \ {"sleep"} => pc \in Preparing \ {"sleep"} \/ Quiet
    BY <1>1, Rested
  <2>2. pc \in Preparing \ {"sleep"} \/ Quiet => ~cmd_valid_sig /\ ~Busy
    BY <1>3 DEF ScanInv, Quiet, Preparing
  <2>3. pc = "arm" => pc \in Preparing \ {"sleep"}  BY DEF Preparing
  <2> QED  BY <1>6, <2>1, <2>2, <2>3
<1>8. /\ \/ ~reg.run_enable /\ Cleared /\ ((window' = << >> /\ taken' = 0) \/ ~reg'.run_enable)
         \/ reg.run_enable /\ ~Taken(resp) /\ UNCHANGED <<triggerVars, window, taken>>
         \/ reg.run_enable /\ Taken(resp)
      /\ reg.run_enable /\ reg'.run_enable => reg' = reg
  BY <1>1, RunStep
<1>9. CASE ~reg'.run_enable
  BY <1>2, <1>5, <1>7, <1>9 DEF ScanInv, ScanInOrder, Running
<1>10. CASE reg'.run_enable /\ reg.run_enable /\ ~done_reg
  <2>1. OnTime /\ (Trigger => ~cmd_valid_sig) /\ OnTime'
    BY <1>1, <1>10, OnTimeKept DEF ScanInv
  <2>2. Synced' /\ ScanInOrder'
    BY <1>1, <1>8, <1>10, <2>1, SyncedKept
  <2> QED  BY <1>2, <1>5, <1>7, <2>1, <2>2 DEF ScanInv
<1>11. CASE reg'.run_enable /\ reg.run_enable /\ done_reg
  <2>1. UNCHANGED <<done_reg, window, taken>> /\ reg' = reg
    BY <1>8, <1>11 DEF Taken, triggerVars
  <2>2. ScanInOrder'
    BY <2>1 DEF ScanInv, ScanInOrder, Follows, Expected, Running
  <2> QED  BY <1>2, <1>5, <1>7, <1>11, <2>1, <2>2 DEF ScanInv
<1>12. CASE reg'.run_enable /\ ~reg.run_enable
  <2>1. pc = "arm" /\ ~cmd_valid_sig' /\ scan_idx' = 0 /\ ~Busy'
    <3>1. pc = "arm"  BY <1>1, <1>12, Moves DEF Arming
    <3> QED  BY <1>5, <1>7, <3>1
  <2>2. window' = << >> /\ taken' = 0  BY <1>8, <1>12
  <2>3. gap' = 0  BY <1>12 DEF Edge, Remember
  <2>4. ScanLen' \in 1 .. 6
    BY <1>2, <1>1, <1>12 DEF ScanLen, PlaceInv
  <2>5. Synced'
    <3>1. 0 % ScanLen' = 0 /\ 0 < ScanLen'
      <4>1. \A n \in 1 .. 6 : 0 % n = 0 /\ 0 < n  OBVIOUS
      <4> QED  BY <2>4, <4>1
    <3> QED  BY <2>1, <2>2, <3>1 DEF Synced
  <2>6. OnTime'  BY <2>1, <2>3 DEF OnTime
  <2>7. ScanInOrder'  BY <2>2 DEF ScanInOrder
  <2> QED  BY <1>2, <1>5, <1>7, <2>5, <2>6, <2>7 DEF ScanInv
<1> QED  BY <1>9, <1>10, <1>11, <1>12

(* The channels of the samples go round the scan table from its first entry.  *)
THEOREM ScanExact == ASSUME PeriodsFit, InTime PROVE Spec => []ScanInOrder
<1>1. Init => ScanInv
  <2> SUFFICES ASSUME Init PROVE ScanInv  OBVIOUS
  <2>1. settings.scan_enable => settings.scan_len \in 1 .. 6
    BY SettingsScan DEF Init
  <2>2. ~reg.run_enable  BY DEF Init, Off
  <2> QED  BY <2>1, <2>2 DEF Init, EngineInit, ScanInv, ScanInOrder, Running, Preparing
<1>2. RunInv /\ RateInv /\ ScanInv /\ [Next]_vars => ScanInv'
  <2> SUFFICES ASSUME RunInv, RateInv, ScanInv, [Next]_vars PROVE ScanInv'
    OBVIOUS
  <2>1. CASE Next
    <3>1. PICK ready \in Ready, resp \in Answers : Edge(ready, resp)
      BY <2>1 DEF Next
    <3> QED  BY <3>1, PeriodsFit, InTime, ScanKept
  <2>2. CASE UNCHANGED vars
    <3> USE <2>2 DEF vars, engineVars, commandVars, captureVars, triggerVars, adcVars,
                     programVars, history
    <3>1. Synced' <=> Synced
      BY DEF Synced, Busy, Before, ScanLen, Expected, Newest
    <3>2. OnTime' <=> OnTime  BY DEF OnTime, Busy
    <3>3. ScanInOrder' <=> ScanInOrder
      BY DEF ScanInOrder, Running, Expected, Follows
    <3> QED  BY <3>1, <3>2, <3>3 DEF ScanInv, Busy
  <2> QED  BY <2>1, <2>2
<1>3. ScanInv => ScanInOrder  BY DEF ScanInv
<1> QED  BY <1>1, <1>2, <1>3, Rate, WholeRun, PeriodsFit, PTL DEF Spec
==============================================================================
