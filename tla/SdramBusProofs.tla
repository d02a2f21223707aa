---------------------------- MODULE SdramBusProofs ----------------------------
(* The SDRAM controller keeps to the data sheet, shares the bus, refreshes in *)
(* time and is a memory port, for every choice of timing constants, length of *)
(* burst, addresses and contents.                                             *)
EXTENDS SdramBusProps, SequenceTheorems, TLAPS

(* Where the controller is in a write or a read fixes everything else.        *)
WriteTail == T_WR + T_RP - 1           \* the timer on entry to ST_WRITE_WAIT
ReadTail == T_CL + BURST + T_RP - 2    \* and to ST_READ_WAIT
Since == ReadTail - timer              \* in ST_READ_WAIT: cycles since the READ

Word == {NoWord} \cup (Tags \X (1 .. BURST))
Content == [1 .. BURST -> Word]

Stages == {"INIT_PRECHARGE", "INIT_REFRESH1", "INIT_REFRESH2", "INIT_MRS", "REFRESH"}
StageTime(s) ==
  IF s = "INIT_PRECHARGE" THEN T_RP ELSE IF s = "INIT_MRS" THEN T_MRD ELSE T_RFC
StageCommand(s) ==
  IF s = "INIT_PRECHARGE" THEN "PRECHARGE" ELSE IF s = "INIT_MRS" THEN "MRS" ELSE "REFRESH"

SequencerTyped ==
  /\ state \in States /\ timer \in Nat /\ burst_cnt \in 0 .. BURST - 1
  /\ op_is_write \in BOOLEAN /\ op_addr \in Addrs

ChipTyped ==
  /\ open \subseteq Addrs /\ daddr \in Addrs
  /\ tRow \in Nat /\ tBusy \in Nat /\ setup \in 0 .. 4

RefreshTyped ==
  /\ refresh_cnt \in 0 .. REFRESH_PERIOD /\ refresh_req \in BOOLEAN
  /\ refresh_take \in BOOLEAN /\ sinceRef \in Nat

DataTyped ==
  /\ op_data \in Content /\ dq_out \in Word
  /\ dmem \in [Addrs -> Content] /\ mem \in [Addrs -> Content]

(* The timer of each state, and the command that was sent on the last edge.   *)
Sequence ==
  /\ state \in Stages =>
       /\ timer <= StageTime(state)
       /\ cmd = IF timer = StageTime(state) - 1 THEN StageCommand(state)
                ELSE IF state = "INIT_PRECHARGE" /\ timer = T_RP THEN "INHIBIT" ELSE "NOP"
  /\ state = "INIT_WAIT" => cmd = "INHIBIT"
  /\ state = "ACTIVATE" =>
       timer < T_RCD /\ cmd = IF timer = T_RCD - 1 THEN "ACTIVE" ELSE "NOP"
  /\ state = "WRITE" => cmd = IF burst_cnt = 1 THEN "WRITE" ELSE "NOP"
  /\ state = "WRITE_WAIT" => timer <= WriteTail
  /\ state = "READ_WAIT" =>
       timer <= ReadTail /\ cmd = IF timer = ReadTail THEN "READ" ELSE "NOP"
  /\ state \in {"IDLE", "WRITE_WAIT", "READ"} => cmd = "NOP"
  /\ state # "WRITE" => burst_cnt = 0
  /\ state \in {"WRITE", "WRITE_WAIT"} => op_is_write
  /\ state \in {"READ", "READ_WAIT"} => ~op_is_write

(* The data pins, and the strobes to the user, go with the state.             *)
Sending ==
  \/ state = "WRITE" /\ burst_cnt > 0
  \/ state = "WRITE_WAIT" /\ timer = WriteTail
Accepted == state = "ACTIVATE" /\ timer = T_RCD - 1
Strobes ==
  /\ dq_oe <=> Sending
  /\ wr_ack <=> Accepted /\ op_is_write
  /\ rd_ack <=> Accepted /\ ~op_is_write
  /\ refresh_take <=> state = "REFRESH" /\ timer = T_RFC

(* The chip is busy no longer than the controller counts.                     *)
Busy ==
  /\ state \in Stages => tBusy = IF timer >= StageTime(state) - 1 THEN 0 ELSE timer + 1
  /\ state \in {"INIT_WAIT", "IDLE", "ACTIVATE", "READ"} => tBusy = 0
  /\ state = "WRITE" =>
       tBusy = IF burst_cnt <= 1 THEN 0 ELSE BURST + T_WR + T_RP - burst_cnt
  /\ state = "WRITE_WAIT" => tBusy = timer + 1
  /\ state = "READ_WAIT" => tBusy <= timer + 1 /\ (timer = ReadTail => tBusy = 0)

(* A row is open from ACTIVE to READ or WRITE; one may be left open by a      *)
(* reset until the precharge of power-up.                                     *)
RowOpen ==
  \/ state = "ACTIVATE" /\ timer < T_RCD - 1
  \/ state = "WRITE" /\ burst_cnt <= 1
  \/ state = "READ"
  \/ state = "READ_WAIT" /\ timer = ReadTail
Unprecharged ==
  \/ state = "INIT_WAIT"
  \/ state = "INIT_PRECHARGE" /\ timer >= T_RP - 1
Rows ==
  /\ RowOpen => open = {op_addr}
  /\ ~RowOpen /\ ~Unprecharged => open = {}
  /\ tRow = IF state = "ACTIVATE" /\ timer < T_RCD - 1 THEN timer + 1 ELSE 0

(* The power-up commands have come in their order, also after a reset.        *)
PoweredUp ==
  /\ state = "INIT_PRECHARGE" /\ timer < T_RP - 1 => setup >= 1
  /\ state = "INIT_REFRESH1" => setup >= 1 /\ (timer < T_RFC - 1 => setup >= 2)
  /\ state = "INIT_REFRESH2" => setup >= 2 /\ (timer < T_RFC - 1 => setup >= 3)
  /\ state = "INIT_MRS" => setup >= 3 /\ (timer < T_MRD - 1 => setup = 4)
  /\ state \notin InitStates => setup = 4

(* The chip counts the words of a burst one edge behind the controller.       *)
Counts ==
  /\ wcnt = IF Sending THEN (IF state = "WRITE" THEN burst_cnt ELSE BURST) - 1
            ELSE IF state = "WRITE_WAIT" /\ timer = WriteTail - 1 THEN BURST ELSE 0
  /\ rcnt = IF state = "READ_WAIT" /\ Since < T_CL + BURST THEN Since ELSE 0
  /\ wcnt > 0 \/ rcnt > 0 => daddr = op_addr

(* Cycles until ST_IDLE is reached.                                           *)
Left ==
  IF state = "ACTIVATE" THEN timer + BURST + T_RP + 1 + (IF op_is_write THEN T_WR ELSE T_CL)
  ELSE IF state = "WRITE" THEN BURST - burst_cnt + WriteTail + 1
  ELSE IF state = "READ" THEN ReadTail + 2
  ELSE IF state \in {"WRITE_WAIT", "READ_WAIT", "REFRESH"} THEN timer + 1
  ELSE 0

(* From the last refresh command on the counter runs ahead of the time since, *)
(* and a request that waits has waited no longer than the operation under way *)
(* has been running.                                                          *)
Commanded == state = "REFRESH" /\ timer = T_RFC - 1
BeforeRefresh ==
  \/ state \in {"INIT_WAIT", "INIT_PRECHARGE"}
  \/ state = "INIT_REFRESH1" /\ timer >= T_RFC - 1
RefreshPart ==
  /\ refresh_req => refresh_cnt = 0
  /\ refresh_take => refresh_req
  /\ Commanded => ~refresh_req
  /\ ~refresh_req /\ ~BeforeRefresh /\ ~Commanded => sinceRef < refresh_cnt
  /\ state = "INIT_REFRESH2" /\ timer < T_RFC - 1 => sinceRef <= T_RFC - 2 - timer
  /\ state = "INIT_MRS" => sinceRef <= T_RFC - 1 + T_MRD - timer
  /\ state = "REFRESH" /\ timer < T_RFC - 1 => sinceRef <= T_RFC - 2 - timer
  /\ state = "REFRESH" /\ timer = T_RFC => sinceRef < RefreshBound
  /\ Commanded => sinceRef <= RefreshBound
  /\ refresh_req /\ Powered /\ state # "REFRESH" =>
       sinceRef + Left < REFRESH_PERIOD + LongestOp

(* Words of the write that have left the controller; the last is on its pins. *)
Sent == IF state = "WRITE" THEN burst_cnt ELSE IF state = "WRITE_WAIT" THEN BURST ELSE 0
Storing ==
  \/ state = "ACTIVATE" /\ timer < T_RCD - 1 /\ op_is_write
  \/ state = "WRITE"
  \/ state = "WRITE_WAIT" /\ timer = WriteTail

(* Memory and chip differ by the write in progress alone: the words the chip  *)
(* has, the one on the bus and the ones still to come make up its burst.      *)
DataPart ==
  /\ \A a \in Addrs : (Storing /\ a = op_addr) \/ dmem[a] = mem[a]
  /\ Storing => \A i \in 1 .. BURST :
       /\ i < Sent => dmem[op_addr][i] = mem[op_addr][i]
       /\ i = Sent => dq_out = mem[op_addr][i]
       /\ i + Sent <= BURST => op_data[i] = mem[op_addr][i + Sent]

(* The pipe holds a 1 for every word of a read that is under way, and no      *)
(* other; the words not answered yet are those the chip has still to drive.   *)
Pipe ==
  /\ read_pipe \in [0 .. T_CL -> BOOLEAN]
  /\ \A i \in 0 .. T_CL :
       read_pipe[i] = (state = "READ_WAIT" /\ i <= Since /\ Since < i + BURST)
  /\ active_reads = IF state = "READ_WAIT" /\ Since < BURST THEN BURST - 1 - Since ELSE 0

Rest(c, k) == [i \in 1 .. BURST - k |-> c[i + k]]
Answered ==
  IF state # "READ_WAIT" \/ Since <= T_CL THEN 0
  ELSE IF Since >= T_CL + BURST THEN BURST ELSE Since - T_CL
Reading == state \in {"ACTIVATE", "READ", "READ_WAIT"} /\ ~op_is_write
Owed == pend = IF Reading THEN Rest(mem[op_addr], Answered) ELSE << >>
ReadPart == Pipe /\ Owed

Typed == SequencerTyped /\ ChipTyped /\ RefreshTyped /\ DataTyped
Timing == Sequence /\ Strobes /\ Busy /\ Rows /\ PoweredUp /\ Counts
IInv == Typed /\ Timing /\ RefreshPart /\ DataPart /\ ReadPart
-----------------------------------------------------------------------------
(* What every edge does to the sequencer, whichever branch p_ctrl takes.      *)
Branch == \E wr_req, rd_req \in BOOLEAN, wr_addr, rd_addr \in Addrs, wr_data \in Bursts :
            Control(wr_req, wr_addr, wr_data, rd_req, rd_addr)

(* The next word of a burst goes out at the head, a blank comes in.           *)
LEMMA Shifting ==
  ASSUME NEW s \in Content
  PROVE  /\ Append(Tail(s), NoWord) \in Content
         /\ Head(s) = s[1] /\ s[1] \in Word
         /\ \A i \in 1 .. BURST - 1 : Append(Tail(s), NoWord)[i] = s[i + 1]
<1>1. s \in Seq(Word) /\ Len(s) = BURST /\ NoWord \in Word
  BY TimingAssumption DEF Content, Word
<1>2. Tail(s) \in Seq(Word) /\ Len(Tail(s)) = BURST - 1
  BY <1>1, TimingAssumption
<1>3. Append(Tail(s), NoWord) \in Seq(Word) /\ Len(Append(Tail(s), NoWord)) = BURST
  BY <1>1, <1>2, TimingAssumption
<1>4. \A i \in 1 .. BURST - 1 : Append(Tail(s), NoWord)[i] = s[i + 1]
  BY <1>1, <1>2, TimingAssumption
<1>5. Append(Tail(s), NoWord) \in Content
  <2>1. PICK t \in Seq(Word) : t = Append(Tail(s), NoWord)
    BY <1>3
  <2>2. t \in [1 .. Len(t) -> Word]
    OBVIOUS
  <2> QED BY <1>3, <2>1, <2>2 DEF Content
<1> QED BY <1>1, <1>4, <1>5, TimingAssumption

(* The branches, by what they do.                                             *)
Waiting == InitWait \/ InitSequence \/ Refresh
Deciding ==
  \/ TakeRefresh
  \/ /\ state = "IDLE" /\ ~refresh_req
     /\ \E isWrite \in BOOLEAN, addr \in Addrs : Activate(isWrite, addr)
  \/ /\ state = "IDLE" /\ ~refresh_req
     /\ UNCHANGED <<state, timer>> /\ Quiet /\ KeepOp
Latching == \E wr_data \in Bursts : WaitRcd(wr_data)

(* The branches of the controller's case statement, as the proofs split it.   *)
LEMMA Branches ==
  Branch => Waiting \/ Deciding \/ Latching \/ WriteWord \/ ReadCommand \/ Recover
  BY DEF Branch, Control, Waiting, Deciding, Latching, TakeWrite, TakeRead, Idle

(* What the proofs use of the constants.                                      *)
LEMMA Constants ==
  /\ T_INIT_CYCLES \in Nat /\ T_INIT_CYCLES >= 1
  /\ T_RFC \in Nat /\ T_RFC >= 1 /\ T_RCD \in Nat /\ T_RCD >= 2
  /\ T_RP \in Nat /\ T_RP >= 1 /\ T_CL \in Nat /\ T_CL >= 1
  /\ T_MRD \in Nat /\ T_MRD >= 1 /\ T_WR \in Nat /\ T_WR >= 1
  /\ REFRESH_PERIOD \in Nat /\ REFRESH_PERIOD >= 1
  /\ BURST \in Nat /\ BURST >= 2 /\ 0 \in Addrs
  BY TimingAssumption

(* The chip's own counters, one edge later.                                   *)
ChipClock == Device!DevClock(cmd, op_addr, BusWord)
Ticked(t) == IF t = 0 THEN 0 ELSE t - 1

(* What a command on the pins does to the chip, and a cycle without one.      *)
LEMMA ChipStep ==
  ASSUME ChipClock
  PROVE  /\ open' = IF cmd = "ACTIVE" THEN {op_addr}
                    ELSE IF cmd \in {"READ", "WRITE", "PRECHARGE"} THEN {} ELSE open
         /\ tRow' = IF cmd = "ACTIVE" THEN T_RCD - 1 ELSE Ticked(tRow)
         /\ tBusy' = IF cmd = "PRECHARGE" THEN T_RP - 1
                     ELSE IF cmd = "REFRESH" THEN T_RFC - 1
                     ELSE IF cmd = "MRS" THEN T_MRD - 1
                     ELSE IF cmd = "WRITE" THEN BURST - 1 + T_WR + T_RP - 1
                     ELSE IF cmd = "READ" THEN BURST + T_RP - 1
                     ELSE Ticked(tBusy)
         /\ daddr' = IF cmd \in {"READ", "WRITE"} THEN op_addr ELSE daddr
         /\ wcnt' = IF cmd = "WRITE" THEN 1
                    ELSE IF wcnt \in {0, BURST} THEN 0 ELSE wcnt + 1
         /\ rcnt' = IF cmd = "READ" THEN 1
                    ELSE IF rcnt \in {0, T_CL + BURST - 1} THEN 0 ELSE rcnt + 1
  BY DEF ChipClock, Ticked, Device!DevClock, Device!BusyAfter

(* p_ctrl keeps its registers in range.                                       *)
LEMMA SequencerTypedKept ==
  ASSUME SequencerTyped, Branch
  PROVE  SequencerTyped'
<1> USE Constants DEF SequencerTyped, Sequence, WriteTail, ReadTail, States, InitStates
<1>1. CASE Waiting
  BY <1>1 DEF Waiting, InitWait, InitSequence, Refresh, Stage, Stages, StageTime,
              StageCommand, CountDown, NoAck, KeepOp
<1>2. CASE Deciding
  BY <1>2 DEF Deciding, TakeRefresh, Activate, Quiet, NoAck, KeepOp, Stages, StageTime
<1>3. CASE Latching
  BY <1>3 DEF Latching, WaitRcd, CountDown, Quiet, NoAck, Stages
<1>4. CASE WriteWord
  BY <1>4 DEF WriteWord, LastWord, NoAck, Stages
<1>5. CASE ReadCommand
  BY <1>5 DEF ReadCommand, NoAck, KeepOp, Stages
<1>6. CASE Recover
  BY <1>6 DEF Recover, CountDown, Quiet, NoAck, KeepOp, Stages
<1> QED BY <1>1, <1>2, <1>3, <1>4, <1>5, <1>6, Branches

(* State, timer and command go together.                                      *)
LEMMA SequenceKept ==
  ASSUME SequencerTyped, Sequence, Branch
  PROVE  Sequence'
<1> USE Constants DEF SequencerTyped, Sequence, WriteTail, ReadTail, States, InitStates
<1>1. CASE Waiting
  BY <1>1 DEF Waiting, InitWait, InitSequence, Refresh, Stage, Stages, StageTime,
              StageCommand, CountDown, NoAck, KeepOp
<1>2. CASE Deciding
  BY <1>2 DEF Deciding, TakeRefresh, Activate, Quiet, NoAck, KeepOp, Stages, StageTime
<1>3. CASE Latching
  BY <1>3 DEF Latching, WaitRcd, CountDown, Quiet, NoAck, Stages
<1>4. CASE WriteWord
  BY <1>4 DEF WriteWord, LastWord, NoAck, Stages
<1>5. CASE ReadCommand
  BY <1>5 DEF ReadCommand, NoAck, KeepOp, Stages
<1>6. CASE Recover
  BY <1>6 DEF Recover, CountDown, Quiet, NoAck, KeepOp, Stages
<1> QED BY <1>1, <1>2, <1>3, <1>4, <1>5, <1>6, Branches

(* So do the strobes and the direction of the data pins.                      *)
LEMMA StrobesKept ==
  ASSUME SequencerTyped, Sequence, Strobes, Branch
  PROVE  Strobes'
<1> USE Constants DEF SequencerTyped, Sequence, WriteTail, ReadTail, States, InitStates
<1> USE DEF Strobes, Sending, Accepted
<1>1. CASE Waiting
  BY <1>1 DEF Waiting, InitWait, InitSequence, Refresh, Stage, Stages, StageTime,
              StageCommand, CountDown, NoAck, KeepOp
<1>2. CASE Deciding
  <2>1. ASSUME NEW isWrite \in BOOLEAN, NEW addr \in Addrs, Activate(isWrite, addr)
        PROVE  Strobes'
    <3>1. CASE isWrite = TRUE
      BY <2>1, <3>1 DEF Activate
    <3>2. CASE isWrite = FALSE
      BY <2>1, <3>2 DEF Activate
    <3> QED BY <3>1, <3>2
  <2> QED BY <1>2, <2>1 DEF Deciding, TakeRefresh, Quiet, NoAck, Stages, StageTime
<1>3. CASE Latching
  BY <1>3 DEF Latching, WaitRcd, CountDown, Quiet, NoAck, Stages
<1>4. CASE WriteWord
  BY <1>4 DEF WriteWord, LastWord, NoAck, Stages
<1>5. CASE ReadCommand
  BY <1>5 DEF ReadCommand, NoAck, KeepOp, Stages
<1>6. CASE Recover
  BY <1>6 DEF Recover, CountDown, Quiet, NoAck, KeepOp, Stages
<1> QED BY <1>1, <1>2, <1>3, <1>4, <1>5, <1>6, Branches

(* The banks are free again when the timer has run out.                       *)
LEMMA BusyKept ==
  ASSUME SequencerTyped, ChipTyped, Sequence, Busy, Branch, ChipClock
  PROVE  Busy'
<1> USE Constants, ChipStep
    DEF SequencerTyped, Sequence, WriteTail, ReadTail, States, InitStates
<1> USE DEF ChipTyped, Busy, Ticked
<1>1. CASE Waiting
  BY <1>1 DEF Waiting, InitWait, InitSequence, Refresh, Stage, Stages, StageTime,
              StageCommand, CountDown, NoAck, KeepOp
<1>2. CASE Deciding
  BY <1>2 DEF Deciding, TakeRefresh, Activate, Quiet, NoAck, KeepOp, Stages, StageTime
<1>3. CASE Latching
  BY <1>3 DEF Latching, WaitRcd, CountDown, Quiet, NoAck, Stages
<1>4. CASE WriteWord
  BY <1>4 DEF WriteWord, LastWord, NoAck, Stages
<1>5. CASE ReadCommand
  BY <1>5 DEF ReadCommand, NoAck, KeepOp, Stages
<1>6. CASE Recover
  BY <1>6 DEF Recover, CountDown, Quiet, NoAck, KeepOp, Stages
<1> QED BY <1>1, <1>2, <1>3, <1>4, <1>5, <1>6, Branches

(* A row is opened and closed by every operation.                             *)
LEMMA RowsKept ==
  ASSUME SequencerTyped, ChipTyped, Sequence, Rows, Branch, ChipClock
  PROVE  Rows'
<1> USE Constants, ChipStep
    DEF SequencerTyped, Sequence, WriteTail, ReadTail, States, InitStates
<1> USE DEF ChipTyped, Rows, RowOpen, Unprecharged, Ticked
<1>1. CASE Waiting
  BY <1>1 DEF Waiting, InitWait, InitSequence, Refresh, Stage, Stages, StageTime,
              StageCommand, CountDown, NoAck, KeepOp
<1>2. CASE Deciding
  BY <1>2 DEF Deciding, TakeRefresh, Activate, Quiet, NoAck, KeepOp, Stages, StageTime
<1>3. CASE Latching
  BY <1>3 DEF Latching, WaitRcd, CountDown, Quiet, NoAck, Stages
<1>4. CASE WriteWord
  BY <1>4 DEF WriteWord, LastWord, NoAck, Stages
<1>5. CASE ReadCommand
  BY <1>5 DEF ReadCommand, NoAck, KeepOp, Stages
<1>6. CASE Recover
  BY <1>6 DEF Recover, CountDown, Quiet, NoAck, KeepOp, Stages
<1> QED BY <1>1, <1>2, <1>3, <1>4, <1>5, <1>6, Branches

(* The power-up commands come in order.                                       *)
LEMMA PoweredUpKept ==
  ASSUME SequencerTyped, ChipTyped, Sequence, PoweredUp, Branch, ChipClock
  PROVE  PoweredUp'
<1> USE Constants DEF SequencerTyped, Sequence, WriteTail, ReadTail, States, InitStates
<1> USE DEF ChipTyped, PoweredUp, ChipClock, Device!DevClock, Device!PowerUp
<1>1. CASE Waiting
  BY <1>1 DEF Waiting, InitWait, InitSequence, Refresh, Stage, Stages, StageTime,
              StageCommand, CountDown, NoAck, KeepOp
<1>2. CASE Deciding
  BY <1>2 DEF Deciding, TakeRefresh, Activate, Quiet, NoAck, KeepOp, Stages, StageTime
<1>3. CASE Latching
  BY <1>3 DEF Latching, WaitRcd, CountDown, Quiet, NoAck, Stages
<1>4. CASE WriteWord
  BY <1>4 DEF WriteWord, LastWord, NoAck, Stages
<1>5. CASE ReadCommand
  BY <1>5 DEF ReadCommand, NoAck, KeepOp, Stages
<1>6. CASE Recover
  BY <1>6 DEF Recover, CountDown, Quiet, NoAck, KeepOp, Stages
<1> QED BY <1>1, <1>2, <1>3, <1>4, <1>5, <1>6, Branches

(* The chip counts along with the controller.                                 *)
LEMMA CountsKept ==
  ASSUME SequencerTyped, ChipTyped, Sequence, Counts, Branch, ChipClock
  PROVE  Counts'
<1> USE Constants, ChipStep
    DEF SequencerTyped, Sequence, WriteTail, ReadTail, States, InitStates
<1> USE DEF ChipTyped, Counts, Sending, Since
<1>1. CASE Waiting
  BY <1>1 DEF Waiting, InitWait, InitSequence, Refresh, Stage, Stages, StageTime,
              StageCommand, CountDown, NoAck, KeepOp
<1>2. CASE Deciding
  BY <1>2 DEF Deciding, TakeRefresh, Activate, Quiet, NoAck, KeepOp, Stages, StageTime
<1>3. CASE Latching
  BY <1>3 DEF Latching, WaitRcd, CountDown, Quiet, NoAck, Stages
<1>4. CASE WriteWord
  BY <1>4 DEF WriteWord, LastWord, NoAck, Stages
<1>5. CASE ReadCommand
  BY <1>5 DEF ReadCommand, NoAck, KeepOp, Stages
<1>6. CASE Recover
  BY <1>6 DEF Recover, CountDown, Quiet, NoAck, KeepOp, Stages
<1> QED BY <1>1, <1>2, <1>3, <1>4, <1>5, <1>6, Branches

-----------------------------------------------------------------------------
(* The chip keeps its own registers in range.                                 *)
LEMMA ChipTypedKept ==
  ASSUME SequencerTyped, ChipTyped, ChipClock
  PROVE  ChipTyped'
<1>1. open' \subseteq Addrs /\ daddr' \in Addrs /\ tRow' \in Nat /\ tBusy' \in Nat
  BY Constants, ChipStep DEF SequencerTyped, ChipTyped, Ticked
<1>2. setup' \in 0 .. 4
  BY DEF ChipTyped, ChipClock, Device!DevClock
<1> QED BY <1>1, <1>2 DEF ChipTyped

(* The refresh timer, and the history of refreshes.                           *)
Aged == sinceRef' = IF cmd = "REFRESH" THEN 0
                    ELSE IF sinceRef = LongAgo THEN LongAgo ELSE sinceRef + 1

(* The refresh timer and its history keep to their ranges.                    *)
LEMMA RefreshTypedKept ==
  ASSUME RefreshTyped, Branch, RefreshTimer, Aged
  PROVE  RefreshTyped'
<1>1. LongAgo \in Nat
  BY Constants DEF LongAgo, RefreshBound, LongestOp
<1>2. refresh_cnt' \in 0 .. REFRESH_PERIOD /\ sinceRef' \in Nat
  BY Constants, <1>1 DEF RefreshTyped, RefreshTimer, Aged
<1>3. refresh_req' \in BOOLEAN
  BY DEF RefreshTyped, RefreshTimer
<1>4. refresh_take' \in BOOLEAN
  BY Branches DEF Waiting, InitWait, InitSequence, Refresh, Stage, Deciding, TakeRefresh,
      Activate, Quiet, Latching, WaitRcd, WriteWord, ReadCommand, Recover
<1> QED BY <1>2, <1>3, <1>4 DEF RefreshTyped

(* The refresh timer waits while a request stands, and a refresh makes the    *)
(* history young.                                                             *)
LEMMA RefreshStep ==
  ASSUME RefreshTyped, RefreshTimer, Aged
  PROVE  /\ refresh_req' <=> IF refresh_req THEN ~refresh_take ELSE refresh_cnt = REFRESH_PERIOD
         /\ refresh_cnt' = IF refresh_req THEN refresh_cnt
                           ELSE IF refresh_cnt = REFRESH_PERIOD THEN 0 ELSE refresh_cnt + 1
         /\ sinceRef' <= sinceRef + 1 /\ (cmd = "REFRESH" => sinceRef' = 0)
         /\ sinceRef' \in Nat
<1>1. LongAgo \in Nat
  BY Constants DEF LongAgo, RefreshBound, LongestOp
<1>2. /\ sinceRef' <= sinceRef + 1 /\ (cmd = "REFRESH" => sinceRef' = 0)
      /\ sinceRef' \in Nat
  BY <1>1 DEF RefreshTyped, Aged
<1>3. refresh_req' <=> IF refresh_req THEN ~refresh_take ELSE refresh_cnt = REFRESH_PERIOD
  BY DEF RefreshTyped, RefreshTimer
<1>4. refresh_cnt' = IF refresh_req THEN refresh_cnt
                     ELSE IF refresh_cnt = REFRESH_PERIOD THEN 0 ELSE refresh_cnt + 1
  BY DEF RefreshTyped, RefreshTimer
<1> QED BY <1>2, <1>3, <1>4

(* What the proof uses of the longest operation.                              *)
LEMMA Longest ==
  /\ LongestOp \in Nat /\ RefreshBound = REFRESH_PERIOD + LongestOp + 1
  /\ LongestOp >= T_RCD + BURST + T_RP + 1 + T_CL
  /\ LongestOp >= T_RCD + BURST + T_RP + 1 + T_WR
  BY Constants DEF LongestOp, RefreshBound

(* A request for refresh waits for the operation under way, and no longer.    *)
LEMMA RefreshPartKept ==
  ASSUME SequencerTyped, Sequence, Strobes, RefreshTyped, RefreshPart, Branch, RefreshTimer,
         Aged
  PROVE  RefreshPart'
<1> USE Constants, PeriodAssumption, RefreshStep, Longest
    DEF SequencerTyped, Sequence, Strobes, RefreshTyped, RefreshPart,
        Commanded, BeforeRefresh, Left, Powered, WriteTail, ReadTail, States, InitStates
<1>1. CASE Waiting
  <2>1. CASE InitWait
    BY <2>1 DEF InitWait, CountDown, KeepOp
  <2>2. CASE Stage("INIT_PRECHARGE", T_RP, "PRECHARGE", "INIT_REFRESH1", T_RFC)
    BY <2>2 DEF Stage, Stages, StageTime, StageCommand, CountDown, KeepOp
  <2>3. CASE Stage("INIT_REFRESH1", T_RFC, "REFRESH", "INIT_REFRESH2", T_RFC)
    BY <2>3 DEF Stage, Stages, StageTime, StageCommand, CountDown, KeepOp
  <2>4. CASE Stage("INIT_REFRESH2", T_RFC, "REFRESH", "INIT_MRS", T_MRD)
    BY <2>4 DEF Stage, Stages, StageTime, StageCommand, CountDown, KeepOp
  <2>5. CASE Stage("INIT_MRS", T_MRD, "MRS", "IDLE", 0)
    BY <2>5 DEF Stage, Stages, StageTime, StageCommand, CountDown, KeepOp
  <2>6. CASE Refresh
    BY <2>6 DEF Refresh, Stage, Stages, StageTime, StageCommand, CountDown, KeepOp
  <2> QED BY <1>1, <2>1, <2>2, <2>3, <2>4, <2>5, <2>6 DEF Waiting, InitSequence
<1>2. CASE Deciding
  <2>1. CASE TakeRefresh
    BY <2>1 DEF TakeRefresh, KeepOp
  <2>2. ASSUME NEW isWrite \in BOOLEAN, NEW addr \in Addrs,
               state = "IDLE", ~refresh_req, Activate(isWrite, addr)
        PROVE  RefreshPart'
    BY <2>2 DEF Activate
  <2>3. CASE state = "IDLE" /\ ~refresh_req /\ UNCHANGED <<state, timer>> /\ Quiet /\ KeepOp
    BY <2>3 DEF Quiet, KeepOp
  <2> QED BY <1>2, <2>1, <2>2, <2>3 DEF Deciding
<1>3. CASE Latching
  BY <1>3 DEF Latching, WaitRcd, CountDown, Quiet, NoAck, Stages
<1>4. CASE WriteWord
  BY <1>4 DEF WriteWord, LastWord, NoAck, Stages
<1>5. CASE ReadCommand
  BY <1>5 DEF ReadCommand, NoAck, KeepOp, Stages
<1>6. CASE Recover
  BY <1>6 DEF Recover, CountDown, Quiet, NoAck, KeepOp, Stages
<1> QED BY <1>1, <1>2, <1>3, <1>4, <1>5, <1>6, Branches
-----------------------------------------------------------------------------
(* The histories, in terms of the controller's registers: the data of a write *)
(* is what it latches, the words owed are those at the address it opens.      *)
Kept == mem' = IF wr_ack THEN [mem EXCEPT ![op_addr] = op_data'] ELSE mem
Paid == pend' = IF rd_ack' THEN mem[op_addr']
                ELSE IF rd_valid' /\ pend # << >> THEN Tail(pend) ELSE pend

(* A word goes into the chip on every edge after one on which the controller  *)
(* has put one on the bus.                                                    *)
LEMMA ChipData ==
  ASSUME SequencerTyped, Sequence, Strobes, Counts, ChipClock
  PROVE  /\ Storing /\ Sent > 0 => dmem' = [dmem EXCEPT ![op_addr][Sent] = dq_out]
         /\ ~(Storing /\ Sent > 0) => dmem' = dmem
<1>1. wcnt' = IF Storing THEN Sent ELSE 0
  BY Constants, ChipStep
  DEF SequencerTyped, Sequence, Counts, Sending, Storing, Sent, WriteTail, States, InitStates,
      Stages, StageTime, StageCommand
<1>2. Storing /\ Sent > 0 => daddr' = op_addr /\ BusWord = dq_out
  BY Constants, ChipStep
  DEF SequencerTyped, Sequence, Strobes, Counts, Sending, Storing, Sent, WriteTail, BusWord
<1>3. dmem' = IF wcnt' = 0 THEN dmem ELSE [dmem EXCEPT ![daddr'][wcnt'] = BusWord]
  BY DEF ChipClock, Device!DevClock
<1>4. Sent \in Nat
  BY Constants DEF Sent, SequencerTyped
<1>5. CASE Storing /\ Sent > 0
  <2>1. wcnt' = Sent /\ wcnt' # 0 /\ daddr' = op_addr /\ BusWord = dq_out
    BY <1>1, <1>2, <1>4, <1>5
  <2> QED BY <1>3, <1>5, <2>1
<1>6. CASE ~(Storing /\ Sent > 0)
  BY <1>1, <1>3, <1>4, <1>6
<1> QED BY <1>5, <1>6

(* While a write is being stored it moves on word by word.                    *)
LEMMA StoringMoves ==
  ASSUME SequencerTyped, Sequence, Strobes, Branch, Storing
  PROVE  /\ op_addr' = op_addr /\ ~wr_ack
         /\ \/ Sent = 0 /\ Sent' = 0 /\ Storing' /\ op_data' = op_data
            \/ Sent < BURST /\ Sent' = Sent + 1 /\ Storing' /\ ShiftOut
            \/ Sent = BURST /\ ~Storing'
<1> USE Constants DEF SequencerTyped, Sequence, Strobes, Accepted, Storing, Sent, WriteTail
<1>1. CASE Waiting
  BY <1>1 DEF Waiting, InitWait, InitSequence, Refresh, Stage
<1>2. CASE Deciding
  BY <1>2 DEF Deciding, TakeRefresh
<1>3. CASE Latching
  BY <1>3 DEF Latching, WaitRcd, CountDown
<1>4. CASE WriteWord
  BY <1>4 DEF WriteWord, LastWord
<1>5. CASE ReadCommand
  BY <1>5 DEF ReadCommand
<1>6. CASE Recover
  BY <1>6 DEF Recover, CountDown, KeepOp
<1> QED BY <1>1, <1>2, <1>3, <1>4, <1>5, <1>6, Branches

(* It begins with the edge that latches its data.                             *)
LEMMA StoringBegins ==
  ASSUME SequencerTyped, Sequence, Strobes, Branch, ~Storing
  PROVE  IF wr_ack THEN Storing' /\ Sent' = 0 /\ op_addr' = op_addr ELSE ~Storing'
<1> USE Constants DEF SequencerTyped, Sequence, Strobes, Accepted, Storing, Sent, WriteTail
<1>1. CASE Waiting
  BY <1>1 DEF Waiting, InitWait, InitSequence, Refresh, Stage, CountDown
<1>2. CASE Deciding
  BY <1>2 DEF Deciding, TakeRefresh, Activate
<1>3. CASE Latching
  BY <1>3 DEF Latching, WaitRcd, CountDown
<1>4. CASE WriteWord
  BY <1>4 DEF WriteWord
<1>5. CASE ReadCommand
  BY <1>5 DEF ReadCommand
<1>6. CASE Recover
  BY <1>6 DEF Recover, CountDown, KeepOp
<1> QED BY <1>1, <1>2, <1>3, <1>4, <1>5, <1>6, Branches

(* The registers of the data path hold words.                                 *)
LEMMA DataTypedKept ==
  ASSUME SequencerTyped, Sequence, Strobes, Counts, DataTyped, Branch, ChipClock, Kept
  PROVE  DataTyped'
<1>1. \A t \in Bursts : t \in Content
  BY DEF Bursts, Burst, Content, Word
<1>2. op_data' \in Content /\ dq_out' \in Word
  <2> USE DEF DataTyped
  <2>1. CASE Waiting
    BY <2>1 DEF Waiting, InitWait, InitSequence, Refresh, Stage, KeepOp
  <2>2. CASE Deciding
    BY <2>2 DEF Deciding, TakeRefresh, Activate, KeepOp
  <2>3. CASE Latching
    BY <1>1, <2>3 DEF Latching, WaitRcd
  <2>4. CASE WriteWord
    BY <2>4, Shifting DEF WriteWord, ShiftOut
  <2>5. CASE ReadCommand
    BY <2>5 DEF ReadCommand, KeepOp
  <2>6. CASE Recover
    BY <2>6 DEF Recover, KeepOp
  <2> QED BY <2>1, <2>2, <2>3, <2>4, <2>5, <2>6, Branches
<1>3. mem' \in [Addrs -> Content]
  BY <1>2 DEF Kept, DataTyped, SequencerTyped
<1>4. dmem' \in [Addrs -> Content]
  <2>1. CASE Storing /\ Sent > 0
    <3>1. Sent \in 1 .. BURST
      BY <2>1, Constants DEF Sent, Storing, SequencerTyped
    <3>2. [dmem[op_addr] EXCEPT ![Sent] = dq_out] \in Content
      BY <3>1 DEF DataTyped, SequencerTyped, Content
    <3>3. dmem' = [dmem EXCEPT ![op_addr] = [dmem[op_addr] EXCEPT ![Sent] = dq_out]]
      BY <2>1, ChipData
    <3> QED BY <3>2, <3>3 DEF DataTyped, SequencerTyped
  <2>2. CASE ~(Storing /\ Sent > 0)
    BY <2>2, ChipData DEF DataTyped
  <2> QED BY <2>1, <2>2
<1> QED BY <1>2, <1>3, <1>4 DEF DataTyped

(* What is in the chip, on the bus and in the shift register stays the burst  *)
(* that was acknowledged.                                                     *)
LEMMA DataPartKept ==
  ASSUME SequencerTyped, Sequence, Strobes, Counts, DataTyped, DataPart, Branch, ChipClock,
         Kept
  PROVE  DataPart'
<1>1. op_addr \in Addrs /\ op_data \in Content /\ dmem \in [Addrs -> Content]
      /\ mem \in [Addrs -> Content] /\ op_data' \in Content
  BY DataTypedKept DEF SequencerTyped, DataTyped
<1>2. CASE ~Storing /\ ~wr_ack
  BY <1>2, ChipData, StoringBegins DEF DataPart, Kept
<1>3. CASE ~Storing /\ wr_ack
  <2>1. Storing' /\ Sent' = 0 /\ op_addr' = op_addr /\ dmem' = dmem /\ dmem = mem
    BY <1>1, <1>3, ChipData, StoringBegins DEF DataPart
  <2>2. mem' = [mem EXCEPT ![op_addr] = op_data']
    BY <1>3 DEF Kept
  <2> QED BY <1>1, <2>1, <2>2, Constants DEF DataPart, Content
<1>4. CASE Storing
  <2>1. op_addr' = op_addr /\ mem' = mem
    BY <1>4, StoringMoves DEF Kept
  <2>2. /\ \A a \in Addrs \ {op_addr} : dmem[a] = mem[a]
        /\ \A i \in 1 .. BURST :
             /\ i < Sent => dmem[op_addr][i] = mem[op_addr][i]
             /\ i = Sent => dq_out = mem[op_addr][i]
             /\ i + Sent <= BURST => op_data[i] = mem[op_addr][i + Sent]
    BY <1>4 DEF DataPart
  <2>3. Sent \in 0 .. BURST
    BY Constants DEF Sent, SequencerTyped
  <2>4. /\ \A a \in Addrs \ {op_addr} : dmem'[a] = mem[a]
        /\ \A i \in 1 .. BURST : i <= Sent => dmem'[op_addr][i] = mem[op_addr][i]
    <3>1. CASE Sent > 0
      <4>1. dmem' = [dmem EXCEPT ![op_addr] = [dmem[op_addr] EXCEPT ![Sent] = dq_out]]
        BY <1>4, <3>1, ChipData
      <4> QED BY <1>1, <2>2, <2>3, <3>1, <4>1, Constants DEF Content
    <3>2. CASE Sent = 0
      BY <1>4, <2>2, <3>2, ChipData
    <3> QED BY <2>3, <3>1, <3>2
  <2>5. CASE Sent = 0 /\ Sent' = 0 /\ Storing' /\ op_data' = op_data
    BY <2>1, <2>2, <2>4, <2>5, Constants DEF DataPart
  <2>6. CASE Sent < BURST /\ Sent' = Sent + 1 /\ Storing' /\ ShiftOut
    <3>1. dq_out' = op_data[1] /\ \A i \in 1 .. BURST - 1 : op_data'[i] = op_data[i + 1]
      BY <1>1, <2>6, Shifting DEF ShiftOut
    <3>2. dq_out' = mem[op_addr][Sent + 1]
      BY <2>2, <2>3, <2>6, <3>1, Constants
    <3>3. ASSUME NEW i \in 1 .. BURST, i + (Sent + 1) <= BURST
          PROVE  op_data'[i] = mem[op_addr][i + (Sent + 1)]
      <4>1. i \in 1 .. BURST - 1 /\ i + 1 \in 1 .. BURST /\ (i + 1) + Sent <= BURST
        BY <2>3, <3>3, Constants
      <4>2. op_data[i + 1] = mem[op_addr][(i + 1) + Sent]
        BY <2>2, <4>1
      <4>3. (i + 1) + Sent = i + (Sent + 1)
        BY <2>3
      <4> QED BY <3>1, <4>1, <4>2, <4>3
    <3> QED BY <2>1, <2>3, <2>4, <2>6, <3>2, <3>3, Constants DEF DataPart
  <2>7. CASE Sent = BURST /\ ~Storing'
    <3>1. dmem' \in [Addrs -> Content]
      BY DataTypedKept DEF DataTyped
    <3>2. dmem'[op_addr] = mem[op_addr]
      BY <1>1, <2>4, <2>7, <3>1, Constants DEF Content
    <3> QED BY <2>1, <2>4, <2>7, <3>2 DEF DataPart
  <2> QED BY <1>4, <2>5, <2>6, <2>7, StoringMoves
<1> QED BY <1>2, <1>3, <1>4
-----------------------------------------------------------------------------
(* What the words still owed are, and that answering one takes the first.     *)
LEMMA RestFacts ==
  ASSUME NEW c \in Content
  PROVE  /\ Rest(c, 0) = c /\ Rest(c, BURST) = << >>
         /\ \A k \in 0 .. BURST - 1 :
              /\ Rest(c, k) # << >> /\ Head(Rest(c, k)) = c[k + 1]
              /\ Tail(Rest(c, k)) = Rest(c, k + 1)
<1>1. Rest(c, 0) = c
  BY Constants DEF Rest, Content
<1>2. Rest(c, BURST) = << >>
  <2>1. BURST - BURST = 0 /\ 1 .. 0 = {}
    BY Constants
  <2> QED BY <2>1 DEF Rest
<1>3. ASSUME NEW k \in 0 .. BURST - 1
      PROVE  /\ Rest(c, k) # << >> /\ Head(Rest(c, k)) = c[k + 1]
             /\ Tail(Rest(c, k)) = Rest(c, k + 1)
  <2>1. Rest(c, k) \in Seq(Word) /\ Len(Rest(c, k)) = BURST - k
    BY Constants DEF Rest, Content
  <2>2. Head(Rest(c, k)) = c[k + 1] /\ Rest(c, k) # << >>
    BY <2>1, Constants DEF Rest
  <2>3. /\ Tail(Rest(c, k)) \in Seq(Word) /\ Len(Tail(Rest(c, k))) = BURST - (k + 1)
        /\ \A i \in 1 .. BURST - (k + 1) : Tail(Rest(c, k))[i] = Rest(c, k)[i + 1]
    BY <2>1, <2>2, Constants, HeadTailProperties
  <2>4. Rest(c, k + 1) \in Seq(Word) /\ Len(Rest(c, k + 1)) = BURST - (k + 1)
    BY Constants DEF Rest, Content
  <2>5. \A i \in 1 .. BURST - (k + 1) : Rest(c, k)[i + 1] = Rest(c, k + 1)[i]
    BY Constants DEF Rest
  <2>6. \A i \in 1 .. Len(Tail(Rest(c, k))) : Tail(Rest(c, k))[i] = Rest(c, k + 1)[i]
    BY <2>3, <2>5
  <2>7. Len(Tail(Rest(c, k))) = Len(Rest(c, k + 1))
    BY <2>3, <2>4
  <2>8. Tail(Rest(c, k)) = Rest(c, k + 1)
    BY <2>3, <2>4, <2>6, <2>7, SeqEqual
  <2> QED BY <2>2, <2>8
<1> QED BY <1>1, <1>2, <1>3

(* A word leaves the chip on the edges that the counter of the chip tells.    *)
LEMMA DueFacts ==
  ASSUME SequencerTyped, Sequence, Pipe
  PROVE  WordDue <=> state = "READ_WAIT" /\ T_CL <= Since /\ Since < T_CL + BURST
  BY Constants DEF Pipe, WordDue

(* What one edge does to a read: how long ago its command was.                *)
LEMMA ReadMoves ==
  ASSUME SequencerTyped, Sequence, Branch
  PROVE  /\ state = "READ" => state' = "READ_WAIT" /\ Since' = 0
         /\ state = "READ_WAIT" =>
              \/ state' = "READ_WAIT" /\ Since' = Since + 1
              \/ state' = "IDLE" /\ Since = ReadTail
         /\ state' = "READ_WAIT" => state \in {"READ", "READ_WAIT"}
         /\ state = "READ_WAIT" => Since \in Nat
         /\ ReadTail \in Nat /\ ReadTail >= T_CL + BURST - 1
<1> USE Constants DEF SequencerTyped, Sequence, Since, ReadTail
<1>1. CASE Waiting
  BY <1>1 DEF Waiting, InitWait, InitSequence, Refresh, Stage, CountDown
<1>2. CASE Deciding
  BY <1>2 DEF Deciding, TakeRefresh, Activate
<1>3. CASE Latching
  BY <1>3 DEF Latching, WaitRcd, CountDown
<1>4. CASE WriteWord
  BY <1>4 DEF WriteWord
<1>5. CASE ReadCommand
  BY <1>5 DEF ReadCommand
<1>6. CASE Recover
  BY <1>6 DEF Recover, CountDown
<1> QED BY <1>1, <1>2, <1>3, <1>4, <1>5, <1>6, Branches

(* A 1 goes into the pipe for every word of a read, and no other.             *)
LEMMA PipeKept ==
  ASSUME SequencerTyped, Sequence, Pipe, Branch, NEW dq, ReadPath(dq)
  PROVE  Pipe'
<1> USE Constants
<1>1. state \in {"READ", "READ_WAIT"} \/ state' # "READ_WAIT"
  BY ReadMoves
<1>2. active_reads' = IF state' = "READ_WAIT" /\ Since' < BURST THEN BURST - 1 - Since' ELSE 0
  BY ReadMoves DEF Pipe, ReadPath
<1>3. ASSUME NEW i \in 0 .. T_CL
      PROVE  read_pipe'[i] = (state' = "READ_WAIT" /\ i <= Since' /\ Since' < i + BURST)
  <2>1. CASE i = 0
    <3>1. read_pipe'[i] = (state = "READ" \/ active_reads > 0)
      BY <2>1 DEF ReadPath
    <3> QED BY <2>1, <3>1, ReadMoves DEF Pipe
  <2>2. CASE i # 0
    <3>1. i - 1 \in 0 .. T_CL /\ read_pipe'[i] = read_pipe[i - 1]
      BY <2>2 DEF ReadPath
    <3>2. read_pipe[i - 1] = (state = "READ_WAIT" /\ i - 1 <= Since /\ Since < i - 1 + BURST)
      BY <3>1 DEF Pipe
    <3> QED BY <2>2, <3>1, <3>2, ReadMoves
  <2> QED BY <2>1, <2>2
<1>4. read_pipe' \in [0 .. T_CL -> BOOLEAN]
  <2>1. \A i \in 0 .. T_CL : read_pipe[i] \in BOOLEAN
    BY DEF Pipe
  <2>2. ASSUME NEW i \in 0 .. T_CL
        PROVE  (IF i = 0 THEN state = "READ" \/ active_reads > 0 ELSE read_pipe[i - 1])
                 \in BOOLEAN
    <3>1. CASE i = 0
      BY <3>1, Zenon
    <3>2. CASE i # 0
      <4>1. i - 1 \in 0 .. T_CL
        BY <3>2
      <4> QED BY <2>1, <3>2, <4>1, Zenon
    <3> QED BY <3>1, <3>2
  <2> QED BY <2>2, Zenon DEF ReadPath
<1> QED BY <1>2, <1>3, <1>4 DEF Pipe

(* The course of a read: accepted, counting latency, a word on every edge on  *)
(* which one is due, and over once all words have been answered.              *)
LEMMA ReadCourse ==
  ASSUME SequencerTyped, Sequence, Strobes, Pipe, Branch
  PROVE  /\ rd_ack' => ~Reading /\ ~wr_ack /\ Reading' /\ Answered' = 0 /\ op_addr' \in Addrs
         /\ ~rd_ack' /\ ~Reading => ~WordDue /\ ~Reading'
         /\ Reading => ~rd_ack' /\ ~wr_ack /\ op_addr' = op_addr
         /\ Reading /\ WordDue =>
              /\ Answered \in 0 .. BURST - 1
              /\ \/ Reading' /\ Answered' = Answered + 1
                 \/ ~Reading' /\ Answered = BURST - 1
         /\ Reading /\ ~WordDue =>
              \/ Reading' /\ Answered' = Answered
              \/ ~Reading' /\ Answered = BURST
<1> USE Constants, DueFacts
    DEF SequencerTyped, Sequence, Strobes, Accepted, Since, ReadTail, Reading, Answered
<1>1. CASE Waiting
  BY <1>1 DEF Waiting, InitWait, InitSequence, Refresh, Stage, CountDown, KeepOp, NoAck
<1>2. CASE Deciding
  <2>1. state = "IDLE" /\ ~Reading /\ ~wr_ack /\ ~WordDue
    BY <1>2 DEF Deciding, TakeRefresh
  <2>2. CASE \E isWrite \in BOOLEAN, addr \in Addrs : Activate(isWrite, addr)
    <3>1. PICK isWrite \in BOOLEAN, addr \in Addrs : Activate(isWrite, addr)
      BY <2>2
    <3>2. /\ state' = "ACTIVATE" /\ op_addr' \in Addrs
          /\ (rd_ack' <=> ~isWrite) /\ (op_is_write' <=> isWrite)
      BY <3>1 DEF Activate
    <3> QED BY <2>1, <3>2
  <2>3. CASE state' \in {"IDLE", "REFRESH"} /\ NoAck
    BY <2>1, <2>3 DEF NoAck
  <2> QED BY <1>2, <2>1, <2>2, <2>3 DEF Deciding, TakeRefresh, Quiet, NoAck
<1>3. CASE Latching
  BY <1>3 DEF Latching, WaitRcd, CountDown, NoAck, Quiet
<1>4. CASE WriteWord
  BY <1>4 DEF WriteWord, NoAck
<1>5. CASE ReadCommand
  BY <1>5 DEF ReadCommand, NoAck, KeepOp
<1>6. CASE Recover
  BY <1>6 DEF Recover, CountDown, NoAck, Quiet, KeepOp
<1> QED BY <1>1, <1>2, <1>3, <1>4, <1>5, <1>6, Branches

(* The words owed are those the chip has not driven yet.                      *)
LEMMA OwedKept ==
  ASSUME SequencerTyped, Sequence, Strobes, DataTyped, Pipe, Owed, Branch,
         NEW dq, ReadPath(dq), Kept, Paid
  PROVE  Owed'
<1> USE ReadCourse DEF Kept, Paid
<1>1. op_addr \in Addrs /\ mem[op_addr] \in Content /\ (rd_valid' <=> WordDue)
  BY DEF SequencerTyped, DataTyped, ReadPath
<1>2. CASE rd_ack'
  <2>1. mem' = mem /\ mem[op_addr'] \in Content
    BY <1>2 DEF DataTyped
  <2>2. pend' = mem'[op_addr'] /\ Reading' /\ Answered' = 0
    BY <1>2, <2>1
  <2>3. Rest(mem'[op_addr'], 0) = mem'[op_addr']
    BY <2>1, RestFacts
  <2> QED BY <2>2, <2>3 DEF Owed
<1>3. CASE ~rd_ack' /\ ~Reading
  BY <1>1, <1>3 DEF Owed
<1>4. CASE Reading
  <2>1. mem' = mem /\ op_addr' = op_addr /\ ~rd_ack' /\ pend = Rest(mem[op_addr], Answered)
    BY <1>4 DEF Owed
  <2>2. CASE WordDue
    <3>1. Answered \in 0 .. BURST - 1
      BY <1>4, <2>2
    <3>2. pend' = Rest(mem[op_addr], Answered + 1)
      BY <1>1, <2>1, <2>2, <3>1, RestFacts
    <3>3. CASE Reading' /\ Answered' = Answered + 1
      BY <2>1, <3>2, <3>3 DEF Owed
    <3>4. CASE ~Reading' /\ Answered = BURST - 1
      <4>1. Answered + 1 = BURST
        BY <3>4, Constants
      <4> QED BY <1>1, <3>2, <3>4, <4>1, RestFacts DEF Owed
    <3> QED BY <1>4, <2>2, <3>3, <3>4
  <2>3. CASE ~WordDue
    <3>1. pend' = pend
      BY <1>1, <2>1, <2>3
    <3>2. CASE Reading' /\ Answered' = Answered
      BY <2>1, <3>1, <3>2 DEF Owed
    <3>3. CASE ~Reading' /\ Answered = BURST
      BY <1>1, <2>1, <3>1, <3>3, RestFacts DEF Owed
    <3> QED BY <1>4, <2>3, <3>2, <3>3
  <2> QED BY <2>2, <2>3
<1> QED BY <1>2, <1>3, <1>4
-----------------------------------------------------------------------------
(* One edge of the clock, in the terms of the lemmas above.                   *)
LEMMA Edges ==
  ASSUME Sequence, Strobes, Next
  PROVE  /\ Branch /\ ChipClock /\ ReadPath(Device!Dq) /\ RefreshTimer /\ Aged /\ Kept /\ Paid
         /\ Bursts # {} /\ (wr_ack => op_data' \in Bursts)
<1>1. PICK wr_req \in BOOLEAN, rd_req \in BOOLEAN, wr_addr \in Addrs, rd_addr \in Addrs,
           wr_data \in Bursts : Clock(wr_req, wr_addr, wr_data, rd_req, rd_addr)
  BY DEF Next
<1>2. Control(wr_req, wr_addr, wr_data, rd_req, rd_addr)
  BY <1>1 DEF Clock, CtlClock
<1>3. Branch /\ ChipClock /\ ReadPath(Device!Dq) /\ RefreshTimer /\ Aged
  BY <1>1, <1>2 DEF Clock, CtlClock, Branch, ChipClock, Remember, Aged
<1>4. rd_ack' => op_addr' = rd_addr
  BY <1>2 DEF Control, InitWait, InitSequence, Refresh, Stage, TakeRefresh, TakeWrite, TakeRead,
      Activate, Idle, Quiet, WaitRcd, WriteWord, ReadCommand, Recover, NoAck
<1>5. wr_ack => op_data' = wr_data
  <2>1. wr_ack => state = "ACTIVATE" /\ timer = T_RCD - 1 /\ op_is_write
    BY DEF Strobes, Accepted
  <2> QED
    BY <1>2, <2>1 DEF Control, InitWait, InitSequence, Refresh, Stage, TakeRefresh, TakeWrite,
        TakeRead, Idle, WaitRcd, WriteWord, ReadCommand, Recover
<1>6. Kept
  BY <1>1, <1>5 DEF Clock, Remember, Kept, Taking
<1>7. Paid
  BY <1>1, <1>4 DEF Clock, Remember, Paid
<1> QED BY <1>3, <1>5, <1>6, <1>7

(* An edge of the clock keeps every part of the invariant.                    *)
LEMMA StepKept ==
  ASSUME IInv, Next
  PROVE  IInv'
<1> USE DEF IInv, Typed, Timing, ReadPart
<1>1. Branch /\ ChipClock /\ ReadPath(Device!Dq) /\ RefreshTimer /\ Aged /\ Kept /\ Paid
  BY Edges
<1>2. SequencerTyped' /\ ChipTyped' /\ RefreshTyped' /\ DataTyped'
  BY <1>1, SequencerTypedKept, ChipTypedKept, RefreshTypedKept, DataTypedKept
<1>3. Sequence' /\ Strobes' /\ Busy'
  BY <1>1, SequenceKept, StrobesKept, BusyKept
<1>4. Rows' /\ PoweredUp' /\ Counts'
  BY <1>1, RowsKept, PoweredUpKept, CountsKept
<1>5. RefreshPart' /\ DataPart'
  BY <1>1, RefreshPartKept, DataPartKept
<1>6. Pipe' /\ Owed'
  BY <1>1, PipeKept, OwedKept
<1> QED BY <1>2, <1>3, <1>4, <1>5, <1>6

(* Power-on, and a reset that does not cut a write burst.                     *)
Cleared ==
  /\ state = "INIT_WAIT" /\ timer = T_INIT_CYCLES /\ burst_cnt = 0
  /\ op_is_write = FALSE /\ op_addr = 0 /\ op_data = Blank
  /\ cmd = "INHIBIT" /\ dq_oe = FALSE /\ dq_out = NoWord
  /\ wr_ack = FALSE /\ rd_ack = FALSE /\ refresh_take = FALSE
  /\ refresh_cnt = 0 /\ refresh_req = FALSE
  /\ read_pipe = [i \in 0 .. T_CL |-> FALSE] /\ active_reads = 0
  /\ tRow = 0 /\ tBusy = 0 /\ wcnt = 0 /\ rcnt = 0
  /\ mem = dmem /\ pend = << >> /\ sinceRef = 0

Survivors ==
  /\ dmem \in [Addrs -> Content]
  /\ open \subseteq Addrs /\ daddr \in Addrs /\ setup \in 0 .. 4

(* A cleared controller satisfies it, whatever the chip has kept.             *)
LEMMA ClearedInv == Cleared /\ Survivors => IInv
<1> SUFFICES ASSUME Cleared, Survivors PROVE IInv
  OBVIOUS
<1> USE Constants DEF Cleared, Survivors
<1>1. SequencerTyped /\ ChipTyped /\ RefreshTyped
  BY DEF SequencerTyped, ChipTyped, RefreshTyped, States, InitStates
<1>2. DataTyped
  BY DEF DataTyped, Content, Word, Blank
<1>3. Sequence /\ Strobes /\ Busy
  BY DEF Sequence, Strobes, Busy, Sending, Accepted, Stages
<1>4. Rows /\ PoweredUp /\ Counts
  BY DEF Rows, RowOpen, Unprecharged, PoweredUp, Counts, Sending, States, InitStates
<1>5. RefreshPart
  BY DEF RefreshPart, Commanded, BeforeRefresh, Powered, InitStates
<1>6. DataPart
  BY DEF DataPart, Storing
<1>7. ReadPart
  <2>1. ~Reading
    BY DEF Reading
  <2> QED BY <2>1 DEF ReadPart, Pipe, Owed
<1> QED BY <1>1, <1>2, <1>3, <1>4, <1>5, <1>6, <1>7 DEF IInv, Typed, Timing

(* So does power-up,                                                          *)
LEMMA InitInv == Init => IInv
<1> SUFFICES ASSUME Init PROVE IInv
  OBVIOUS
<1>1. Cleared
  BY DEF Init, CtlInit, Device!DevInit, Cleared
<1>2. dmem \in [Addrs -> Content]
  BY Constants DEF Init, Device!DevInit, Content, Word
<1>3. open \subseteq Addrs /\ daddr \in Addrs /\ setup \in 0 .. 4
  BY Constants DEF Init, Device!DevInit
<1> QED BY <1>1, <1>2, <1>3, ClearedInv DEF Survivors

(* a reset between two bursts,                                                *)
LEMMA ResetKept ==
  ASSUME IInv, ResetBetweenBursts
  PROVE  IInv'
<1>1. Cleared'
  BY DEF ResetBetweenBursts, Reset, CtlReset, SequencerReset, PinsReset, Device!DevRest, Cleared
<1>2. dmem' \in [Addrs -> Content]
  <2>1. dmem \in [Addrs -> Content] /\ daddr \in Addrs
    BY DEF IInv, Typed, DataTyped, ChipTyped
  <2>2. [i \in 1 .. BURST |-> IF i <= wcnt THEN dmem[daddr][i] ELSE NoWord] \in Content
    <3>1. \A i \in 1 .. BURST : dmem[daddr][i] \in Word
      BY <2>1 DEF Content
    <3> QED BY <3>1 DEF Content, Word
  <2> QED BY <2>1, <2>2 DEF ResetBetweenBursts, Reset, Device!DevRest
<1>3. open' \subseteq Addrs /\ daddr' \in Addrs /\ setup' \in 0 .. 4
  BY DEF ResetBetweenBursts, Reset, Device!DevRest, IInv, Typed, ChipTyped
<1>4. Survivors'
  BY <1>2, <1>3 DEF Survivors
<1> QED BY <1>1, <1>4, ClearedInv, PTL

(* and a step of none of them.                                                *)
LEMMA StutterKept ==
  ASSUME IInv, UNCHANGED vars
  PROVE  IInv'
<1> USE DEF vars, ctlVars, ctrlVars, refreshVars, readVars, Device!devVars
<1>1. Typed'
  BY DEF IInv, Typed, SequencerTyped, ChipTyped, RefreshTyped, DataTyped
<1>2. Sequence' /\ Strobes' /\ Busy'
  BY DEF IInv, Timing, Sequence, Strobes, Busy, Sending, Accepted
<1>3. Rows' /\ PoweredUp' /\ Counts'
  BY DEF IInv, Timing, Rows, RowOpen, Unprecharged, PoweredUp, Counts, Sending, Since
<1>4. RefreshPart'
  BY DEF IInv, RefreshPart, Commanded, BeforeRefresh, Powered, Left
<1>5. DataPart'
  BY DEF IInv, DataPart, Storing, Sent
<1>6. ReadPart'
  BY DEF IInv, ReadPart, Pipe, Owed, Reading, Answered, Since
<1> QED BY <1>1, <1>2, <1>3, <1>4, <1>5, <1>6 DEF IInv, Timing

(* The invariant of controller and chip: from the state of the sequencer      *)
(* follow the command on the pins, what the chip still has to wait for, how   *)
(* far it is with its burst and what it holds of it.                          *)
THEOREM Inductive == Spec => []IInv
<1>1. IInv /\ [Next \/ ResetBetweenBursts]_vars => IInv'
  BY StepKept, ResetKept, StutterKept
<1> QED BY <1>1, InitInv, PTL DEF Spec
-----------------------------------------------------------------------------
(* Every command comes when the data sheet allows it (p_ctrl).                *)
THEOREM CommandsAreLegal == Spec => []CommandsLegal
<1>1. IInv => CommandsLegal
  <2> SUFFICES ASSUME IInv PROVE CommandsLegal
    OBVIOUS
  <2> USE Constants
      DEF IInv, Typed, Timing, SequencerTyped, Sequence, Strobes, Busy, Rows, RowOpen,
          Unprecharged, PoweredUp, Counts, Sending, WriteTail, ReadTail, Since, States,
          InitStates, Stages, StageTime, StageCommand
  <2>1. cmd \in {"PRECHARGE", "REFRESH", "MRS", "ACTIVE"} => tBusy = 0
    OBVIOUS
  <2>2. cmd \in {"REFRESH", "MRS", "ACTIVE"} => open = {}
    OBVIOUS
  <2>3. cmd = "ACTIVE" => setup = 4
    OBVIOUS
  <2>4. cmd \in {"READ", "WRITE"} => open = {op_addr} /\ tRow = 0 /\ wcnt = 0 /\ rcnt = 0
    OBVIOUS
  <2> QED BY <2>1, <2>2, <2>3, <2>4 DEF CommandsLegal, Device!Legal
<1> QED BY <1>1, Inductive, PTL

(* The controller and the chip never drive the data bus together (dq_oe).     *)
THEOREM BusIsOwned == Spec => []BusOwned
<1>1. IInv => BusOwned
  BY Constants
  DEF IInv, Typed, Timing, SequencerTyped, Sequence, Strobes, Counts, Sending, WriteTail,
      ReadTail, Since, States, InitStates, Stages, StageTime, StageCommand, BusOwned,
      Device!Driving
<1> QED BY <1>1, Inductive, PTL

(* Between operations the chip holds what was written (op_data, dq_out).      *)
THEOREM MemoryIsKept == Spec => []MemoryKept
<1>1. IInv => MemoryKept
  BY DEF IInv, Typed, DataTyped, DataPart, Storing, MemoryKept
<1> QED BY <1>1, Inductive, PTL

(* The chip is refreshed at the latest RefreshBound cycles apart (p_refresh). *)
THEOREM RefreshComesInTime == Spec => []RefreshInTime
<1>1. IInv => RefreshInTime
  <2> SUFFICES ASSUME IInv, Powered PROVE sinceRef <= RefreshBound
    BY DEF RefreshInTime
  <2> USE Constants, Longest, PeriodAssumption
      DEF IInv, Typed, Timing, SequencerTyped, RefreshTyped, Sequence, RefreshPart, Commanded,
          Powered, InitStates, Stages, StageTime
  <2>1. CASE state = "REFRESH"
    BY <2>1
  <2>2. CASE state # "REFRESH" /\ refresh_req
    <3>1. Left \in Nat
      BY DEF Left, WriteTail, ReadTail
    <3> QED BY <2>2, <3>1
  <2>3. CASE state # "REFRESH" /\ ~refresh_req
    BY <2>3 DEF BeforeRefresh
  <2> QED BY <2>1, <2>2, <2>3
<1> QED BY <1>1, Inductive, PTL

-----------------------------------------------------------------------------
(* The strobes take no value but TRUE and FALSE.                              *)
LEMMA StrobeValues ==
  ASSUME Branch, Pipe, NEW dq, ReadPath(dq)
  PROVE  wr_ack' \in BOOLEAN /\ rd_ack' \in BOOLEAN /\ rd_valid' \in BOOLEAN
<1>1. rd_valid' \in BOOLEAN
  <2>1. T_CL \in 0 .. T_CL
    BY Constants
  <2> QED BY <2>1, Zenon DEF Pipe, ReadPath, WordDue
<1>2. wr_ack' \in BOOLEAN /\ rd_ack' \in BOOLEAN
  <2>1. NoAck \/ \E isWrite \in BOOLEAN, addr \in Addrs : Activate(isWrite, addr)
    BY Branches DEF Waiting, InitWait, InitSequence, Refresh, Stage, Deciding, TakeRefresh,
        Quiet, Latching, WaitRcd, WriteWord, ReadCommand, Recover
  <2> QED BY <2>1, Zenon DEF NoAck, Activate
<1> QED BY <1>1, <1>2

(* Two cycles after an acknowledgement no request is accepted.                *)
LEMMA RestingMoves ==
  ASSUME SequencerTyped, Sequence, Strobes, Branch
  PROVE  /\ wr_ack' \/ rd_ack' => /\ Resting = 0 /\ Resting' = 2
                                 /\ ~wr_ack /\ ~Reading /\ ~(wr_ack' /\ rd_ack')
         /\ ~wr_ack' /\ ~rd_ack' => Resting' = IF Resting = 0 THEN 0 ELSE Resting - 1
<1> USE Constants DEF SequencerTyped, Sequence, Strobes, Accepted, Resting, Reading
<1>1. CASE Waiting
  BY <1>1 DEF Waiting, InitWait, InitSequence, Refresh, Stage, CountDown, NoAck
<1>2. CASE Deciding
  <2>1. state = "IDLE" /\ ~Reading /\ ~wr_ack /\ ~rd_ack /\ Resting = 0
    BY <1>2 DEF Deciding, TakeRefresh
  <2>2. CASE \E isWrite \in BOOLEAN, addr \in Addrs : Activate(isWrite, addr)
    <3>1. PICK isWrite \in BOOLEAN, addr \in Addrs : Activate(isWrite, addr)
      BY <2>2
    <3>2. (wr_ack' <=> isWrite) /\ (rd_ack' <=> ~isWrite)
      BY <3>1 DEF Activate
    <3> QED BY <2>1, <3>2
  <2>3. CASE state' \in {"IDLE", "REFRESH"} /\ NoAck
    BY <2>1, <2>3 DEF NoAck
  <2> QED BY <1>2, <2>1, <2>2, <2>3 DEF Deciding, TakeRefresh, Quiet, NoAck
<1>3. CASE Latching
  BY <1>3 DEF Latching, WaitRcd, CountDown, NoAck, Quiet
<1>4. CASE WriteWord
  BY <1>4 DEF WriteWord, NoAck
<1>5. CASE ReadCommand
  BY <1>5 DEF ReadCommand, NoAck
<1>6. CASE Recover
  BY <1>6 DEF Recover, CountDown, NoAck, Quiet
<1> QED BY <1>1, <1>2, <1>3, <1>4, <1>5, <1>6, Branches

(* A word that is due is the first of those owed.                             *)
LEMMA DueIsOwed ==
  ASSUME IInv, WordDue
  PROVE  Reading /\ ~wr_ack /\ Resting = 0 /\ pend # << >> /\ Device!Dq = Head(pend)
<1> USE Constants DEF IInv, Typed, Timing, ReadPart
<1>1. state = "READ_WAIT" /\ T_CL <= Since /\ Since < T_CL + BURST
  BY DueFacts
<1>2. Reading /\ ~wr_ack /\ Resting = 0 /\ ~Storing
  BY <1>1 DEF Sequence, Strobes, Accepted, Reading, Resting, Storing
<1>3. Since \in Nat /\ Answered = Since - T_CL /\ Answered \in 0 .. BURST - 1
  BY <1>1 DEF SequencerTyped, Since, ReadTail, Answered
<1>4. rcnt = Since /\ daddr = op_addr /\ op_addr \in Addrs
  BY <1>1, <1>3 DEF Counts, SequencerTyped
<1>5. dmem[op_addr] = mem[op_addr] /\ mem[op_addr] \in Content
  BY <1>2, <1>4 DEF DataPart, DataTyped
<1>6. Device!Dq = mem[op_addr][Answered + 1]
  BY <1>1, <1>3, <1>4, <1>5 DEF Device!Dq, Device!Driving
<1>7. pend = Rest(mem[op_addr], Answered)
  BY <1>2 DEF Owed
<1> QED BY <1>2, <1>3, <1>5, <1>6, <1>7, RestFacts

(* Every edge is a step of the port: an acknowledgement, the data of a write, *)
(* an answer, or a wait.                                                      *)
LEMMA EdgeRefines ==
  ASSUME IInv, Next
  PROVE  Port!PortNext
<1> USE DEF IInv, Typed, Timing, ReadPart
<1>1. /\ Branch /\ ReadPath(Device!Dq) /\ Kept /\ Paid
      /\ Bursts # {} /\ (wr_ack => op_data' \in Bursts)
  BY Edges
<1>2. wr_ack' \in BOOLEAN /\ rd_ack' \in BOOLEAN /\ rd_valid' \in BOOLEAN
  BY <1>1, StrobeValues
<1>3. (rd_valid' <=> WordDue) /\ rd_data' = IF WordDue THEN Device!Dq ELSE rd_data
  BY <1>1 DEF ReadPath
<1>4. op_addr \in Addrs /\ op_addr' \in Addrs
  BY <1>1, SequencerTypedKept DEF SequencerTyped
<1>5. Resting \in Nat
  BY DEF Resting
<1>6. ASSUME NEW wr_req \in BOOLEAN, NEW rd_req \in BOOLEAN, NEW addr \in Addrs,
             NEW wr_data \in Bursts, Port!PortClock(wr_req, addr, wr_data, rd_req, addr)
      PROVE  Port!PortNext
  BY <1>6, Zenon DEF Port!PortNext
<1>7. PICK any \in Bursts : TRUE
  BY <1>1
<1>8. CASE wr_ack'
  <2>1. Resting = 0 /\ Resting' = 2 /\ ~wr_ack /\ ~Reading /\ ~rd_ack'
    BY <1>1, <1>8, RestingMoves
  <2>2. ~WordDue
    BY <2>1, DueIsOwed
  <2>3. pend = << >> /\ pend' = pend /\ mem' = mem
    BY <1>1, <1>3, <2>1, <2>2 DEF Owed, Paid, Kept
  <2>4. Port!AcceptWrite(TRUE, op_addr')
    BY <1>2, <1>3, <1>8, <2>1, <2>2, <2>3 DEF Port!AcceptWrite, Port!Free
  <2>5. Port!PortClock(TRUE, op_addr', any, FALSE, op_addr')
    BY <2>4 DEF Port!PortClock
  <2> QED BY <1>4, <1>6, <2>5
<1>9. CASE rd_ack'
  <2>1. Resting = 0 /\ Resting' = 2 /\ ~wr_ack /\ ~Reading /\ ~wr_ack'
    BY <1>1, <1>9, RestingMoves
  <2>2. ~WordDue
    BY <2>1, DueIsOwed
  <2>3. pend = << >> /\ pend' = mem[op_addr'] /\ mem' = mem
    BY <1>1, <1>9, <2>1 DEF Owed, Paid, Kept
  <2>4. Port!AcceptRead(FALSE, TRUE, op_addr')
    BY <1>2, <1>3, <1>9, <2>1, <2>2, <2>3 DEF Port!AcceptRead, Port!Free
  <2>5. Port!PortClock(FALSE, op_addr', any, TRUE, op_addr')
    BY <2>4 DEF Port!PortClock
  <2> QED BY <1>4, <1>6, <2>5
<1>10. CASE ~wr_ack' /\ ~rd_ack'
  <2>1. Resting' = IF Resting = 0 THEN 0 ELSE Resting - 1
    BY <1>1, <1>10, RestingMoves
  <2>2. CASE wr_ack
    <3>1. ~WordDue
      BY <2>2, DueIsOwed
    <3>2. mem' = [a \in Addrs |-> IF a \in {op_addr} THEN op_data' ELSE mem[a]]
      BY <1>1, <2>2 DEF Kept, DataTyped
    <3>3. pend' = pend
      BY <1>1, <1>3, <1>10, <3>1 DEF Paid
    <3>4. Port!TakeData(op_data')
      BY <1>2, <1>3, <1>10, <2>1, <2>2, <3>1, <3>2, <3>3
      DEF Port!TakeData, Port!NoStrobe, Port!CountDown
    <3>5. Port!PortClock(FALSE, op_addr, op_data', FALSE, op_addr)
      BY <3>4 DEF Port!PortClock
    <3> QED BY <1>1, <1>4, <1>6, <2>2, <3>5
  <2>3. CASE WordDue
    <3>1. ~wr_ack /\ Resting = 0 /\ pend # << >> /\ Device!Dq = Head(pend)
      BY <2>3, DueIsOwed
    <3>2. pend' = Tail(pend) /\ mem' = mem
      BY <1>1, <1>3, <1>10, <2>3, <3>1 DEF Paid, Kept
    <3>3. Port!Answer
      BY <1>2, <1>3, <1>10, <2>1, <2>3, <3>1, <3>2 DEF Port!Answer, Port!CountDown
    <3>4. Port!PortClock(FALSE, op_addr, any, FALSE, op_addr)
      BY <3>3 DEF Port!PortClock
    <3> QED BY <1>4, <1>6, <3>4
  <2>4. CASE ~wr_ack /\ ~WordDue
    <3>1. pend' = pend /\ mem' = mem
      BY <1>1, <1>3, <1>10, <2>4 DEF Paid, Kept
    <3>2. Port!Wait
      BY <1>2, <1>3, <1>10, <2>1, <2>4, <3>1 DEF Port!Wait, Port!NoStrobe, Port!CountDown
    <3>3. Port!PortClock(FALSE, op_addr, any, FALSE, op_addr)
      BY <3>2 DEF Port!PortClock
    <3> QED BY <1>4, <1>6, <3>3
  <2> QED BY <2>2, <2>3, <2>4
<1> QED BY <1>8, <1>9, <1>10

(* A reset ends the request in progress and spoils no burst but its own.      *)
LEMMA ResetRefines ==
  ASSUME IInv, ResetBetweenBursts
  PROVE  Port!PortNext
<1>1. /\ state' = "INIT_WAIT" /\ wr_ack' = FALSE /\ rd_ack' = FALSE /\ rd_valid' = FALSE
      /\ rd_data' = NoWord /\ mem' = dmem' /\ pend' = << >>
  BY DEF ResetBetweenBursts, Reset, CtlReset, SequencerReset
<1>2. Resting' = 0
  BY <1>1 DEF Resting
<1>3. op_addr \in Addrs
  BY DEF IInv, Typed, SequencerTyped
<1>4. ASSUME NEW other \in Addrs \ {op_addr}
      PROVE  mem'[other] = mem[other]
  <2>1. dmem[other] = mem[other] /\ dmem \in [Addrs -> Content]
    BY <1>4 DEF IInv, DataPart, Typed, DataTyped
  <2>2. wcnt \in 1 .. BURST - 1 => daddr = op_addr
    BY DEF IInv, Timing, Counts
  <2>3. dmem'[other] = dmem[other]
    BY <1>4, <2>1, <2>2 DEF ResetBetweenBursts, Reset, Device!DevRest
  <2> QED BY <1>1, <2>1, <2>3
<1>5. Port!PortReset
  BY <1>1, <1>2, <1>3, <1>4 DEF Port!PortReset, Port!NoStrobe
<1> QED BY <1>5 DEF Port!PortNext

(* Controller and chip behave as the port the arbiter is written for: a       *)
(* memory of bursts, with commands, latency and refresh forgotten             *)
(* (sdram_controller).                                                        *)
THEOREM RefinesPort == Spec => ImplementsPort
<1>1. Init => Port!PortInit
  <2> SUFFICES ASSUME Init PROVE Port!PortInit
    OBVIOUS
  <2>1. mem = [a \in Addrs |-> Blank] /\ pend = << >>
    BY DEF Init, Device!DevInit, Blank
  <2>2. wr_ack = FALSE /\ rd_ack = FALSE /\ rd_valid = FALSE /\ rd_data = NoWord
    BY DEF Init, CtlInit
  <2>3. Resting = 0
    BY DEF Init, CtlInit, Resting
  <2> QED BY <2>1, <2>2, <2>3 DEF Port!PortInit
<1>2. IInv /\ [Next \/ ResetBetweenBursts]_vars => [Port!PortNext]_Port!portVars
  <2>1. UNCHANGED vars => UNCHANGED Port!portVars
    BY DEF vars, ctlVars, ctrlVars, readVars, Port!portVars, Resting
  <2> QED BY <2>1, EdgeRefines, ResetRefines
<1> QED BY <1>1, <1>2, Inductive, PTL DEF Spec, ImplementsPort, Port!PortSpec

==============================================================================
