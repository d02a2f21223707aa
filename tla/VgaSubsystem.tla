----------------------------- MODULE VgaSubsystem -----------------------------
(* live_stream/vga_subsystem/vga_subsystem.vhd: the display with the FIFO it  *)
(* reads from, flushed when vsync falls, and the gate that lets a frame       *)
(* start.  One action is one edge of the 25 MHz clock; the writer of the FIFO *)
(* is sdram_interface, which after vsync puts the words of the frame shown    *)
(* into it in order (SdramSubsystemProps!StreamInOrder), none during vsync,   *)
(* and begins no burst while the FIFO is almost full.                         *)
EXTENDS VgaInterface, Sequences

CONSTANTS START_FILL_LEVEL,         \* words that make a frame ready; 320
          FIFO_ALMOST_FULL_THRESH,  \* 3072
          DEPTH,                    \* of the FIFO; 4096
          FLUSH,                    \* cycles the FIFO is held in reset; 4
          MaxWords,     \* words the writer can add in one cycle
          TestModes,    \* settings of the test switch, test_mode(0)
          FifoKinds     \* settings of the generic USE_VENDOR_FIFO

ASSUME LevelAssumption ==
  /\ {START_FILL_LEVEL, FLUSH, MaxWords, DEPTH} \subseteq Nat \ {0}
  /\ FIFO_ALMOST_FULL_THRESH \in Nat
  /\ START_FILL_LEVEL <= FIFO_ALMOST_FULL_THRESH
  /\ FIFO_ALMOST_FULL_THRESH + MaxWords < DEPTH
  /\ FLUSH < V_SYNC_W * H_TOTAL
  /\ TestModes \subseteq BOOLEAN /\ FifoKinds \subseteq BOOLEAN

VARIABLES
  read_start_armed, read_start_ready,
  vsync_d,            \* also vsync_prev_rd
  rst_pulse_cnt_rd,
  fifo,               \* the words stored
  unseen,             \* the newest of them, that the read side does not see yet
  rd_data,
  streaming, next,    \* the writer has a frame; the word that comes next
  frame,              \* which frame the writer reads, modulo 2
  USE_VENDOR_FIFO,    \* the FIFO is Altera's dcfifo, not asyn_fifo's own
  prompt,             \* the writer adds words whenever it may, soon seen
  skipped             \* history: a word was due in this frame and not read

fifoVars == <<fifo, unseen, rd_data>>
startVars == <<read_start_armed, read_start_ready, vsync_d, rst_pulse_cnt_rd>>
setting == <<USE_VENDOR_FIFO, prompt>>   \* fixed from the start
vars == <<hc, vc, ifaceVars, startVars, fifoVars, streaming, next, frame,
          setting, skipped>>

FRAME_WORDS == W * (V_ACTIVE \div 2)

Init ==
  /\ CoreInit /\ IfaceInit
  /\ read_start_armed = FALSE /\ read_start_ready = FALSE
  /\ vsync_d = TRUE /\ rst_pulse_cnt_rd = 0
  /\ fifo = << >> /\ unseen = 0 /\ rd_data = Black
  /\ streaming = FALSE /\ next = 0 /\ frame = 0 /\ skipped = FALSE
  /\ USE_VENDOR_FIFO \in FifoKinds /\ prompt \in BOOLEAN

VsyncFall == ~vsync /\ vsync_d

(* The level the read side sees.  dcfifo is cleared as a whole by the reset   *)
(* of its write side, which comes 30 ns after vsync falls and so before the   *)
(* next edge of this clock; the portable FIFO still shows its old level then. *)
fifo_usedw ==
  IF USE_VENDOR_FIFO /\ VsyncFall THEN 0 ELSE (Len(fifo) - unseen) % DEPTH
fifo_empty == Len(fifo) = unseen

(* p_fifo_flush_rd and p_sync_wr_rst: both sides of the FIFO are reset when   *)
(* vsync falls, the read side for the longer time.                            *)
FlushForEver ==   \* a slip: the pulse does not end
  rst_pulse_cnt_rd' = IF VsyncFall THEN FLUSH ELSE rst_pulse_cnt_rd
Flush ==
  rst_pulse_cnt_rd' = IF VsyncFall THEN FLUSH
                      ELSE IF rst_pulse_cnt_rd # 0 THEN rst_pulse_cnt_rd - 1 ELSE 0

(* p_read_start.  The last assignment wins: a level still high when vsync     *)
(* falls keeps read_start_ready set.                                          *)
ReadyStays == read_start_ready   \* a slip: not taken back by vsync
StillReady == read_start_ready /\ ~VsyncFall
InAnyBlank == ~active   \* a slip: the horizontal blank counts as well
InVerticalBlank == vsync /\ vc >= V_ACTIVE
ReadStart ==
  /\ vsync_d' = vsync
  /\ read_start_ready' = (fifo_usedw >= START_FILL_LEVEL \/ StillReady)
  /\ read_start_armed' = IF ~read_start_armed /\ read_start_ready /\ InVerticalBlank
                           THEN TRUE
                         ELSE read_start_armed /\ ~VsyncFall

(* The writer: n words of the frame, in order.                                *)
Word(k) == <<frame, k % FRAME_WORDS>>
NoThrottle == streaming /\ vsync /\ Len(fifo) < DEPTH   \* a slip: only wr_full
Room == streaming /\ vsync /\ Len(fifo) < FIFO_ALMOST_FULL_THRESH
Amounts == IF ~Room THEN {0} ELSE (IF prompt THEN 1 ELSE 0) .. MaxWords

Write(n, left) ==
  /\ fifo' = left \o [i \in 1 .. n |-> Word(next + i - 1)]
  /\ next' = (next + n) % FRAME_WORDS
  /\ unseen' \in 0 .. IF prompt THEN n ELSE unseen + n
  /\ UNCHANGED <<frame, streaming>>

NewFrame ==
  /\ next' = 0 /\ frame' = 1 - frame
  /\ streaming' \in {streaming, TRUE}

Fifo(test) ==
  LET pop == rd_en_int(read_start_armed, test, fifo_empty)
  IN  IF rst_pulse_cnt_rd' # 0
        THEN /\ fifo' = << >> /\ unseen' = 0 /\ rd_data' = Black
             /\ IF VsyncFall THEN NewFrame ELSE UNCHANGED <<next, frame, streaming>>
        ELSE /\ rd_data' = IF pop THEN Head(fifo) ELSE rd_data
             /\ \E n \in Amounts : Write(n, IF pop THEN Tail(fifo) ELSE fifo)

(* A word due was not read, or the switch was moved on the way.               *)
Missed(test) == (Due(read_start_armed) /\ fifo_empty) \/ (active /\ test)

Tick(test) ==
  /\ CoreEdge
  /\ IfaceEdge(read_start_armed, test, fifo_empty, rd_data)
  /\ Flush /\ ReadStart /\ Fifo(test)
  /\ skipped' = (~VsyncFall /\ (skipped \/ Missed(test)))
  /\ UNCHANGED setting

(* rst_n = '0'.  The writer is reset as well and has no frame then.           *)
Reset ==
  /\ CoreReset /\ IfaceReset
  /\ read_start_armed' = FALSE /\ read_start_ready' = FALSE
  /\ vsync_d' = TRUE /\ rst_pulse_cnt_rd' = 0
  /\ fifo' = << >> /\ unseen' = 0 /\ rd_data' = Black
  /\ streaming' = FALSE /\ next' = 0 /\ UNCHANGED <<frame, setting, skipped>>

Next == (\E test \in TestModes : Tick(test)) \/ Reset
Spec == Init /\ [][Next]_vars

(* The clock runs, also between resets.                                       *)
Run == \E test \in TestModes : Tick(test)
FairSpec == Spec /\ WF_vars(Run)
==============================================================================
