------------------------ MODULE CameraSubsystemProofs ------------------------
(* Proofs about camera_subsystem. First the capture of pixels                 *)
(* (camera_interface.vhd) between the camera and its FIFO: no word meets a    *)
(* full FIFO, and a frame reported done is the frame the camera sent, for     *)
(* every size of a frame and of the FIFO (Spec of CameraCapture). Then that   *)
(* FIFO (asyn_fifo.vhd): for every number of address bits, its Gray code      *)
(* stands for the pointers of CdcFifo (FifoSpec of AsynFifo).                 *)
EXTENDS CameraCapture, AsynFifo, WellFoundedInduction, TLAPS

(* What d_latch can hold, and the words made of two such bytes.               *)
AnyByte == {NoByte} \cup ((0 .. 2) \X Nat \X Nat)
AnyWord == AnyByte \X AnyByte
Phases == {"gap1", "gap2", "blank", "line"}

(* The inductive invariant, in parts.                                         *)
RegistersTyped ==
  /\ state \in States /\ byte_sel \in BOOLEAN /\ d_latch \in AnyByte
  /\ vsync_d \in BOOLEAN /\ href_d \in BOOLEAN
  /\ line_cnt \in Nat /\ pixel_cnt \in Nat /\ pulse_cnt \in 0 .. PULSE
  /\ fifo_wr_en \in BOOLEAN /\ fifo_wr_data \in AnyWord /\ frame_done \in BOOLEAN
  /\ i2c_done_ff1 \in BOOLEAN /\ i2c_done_ff2 \in BOOLEAN
  /\ capture_rst_sync1 \in BOOLEAN /\ capture_rst_sync2 \in BOOLEAN

SceneTyped ==
  /\ done \in BOOLEAN /\ vsync \in BOOLEAN /\ phase \in Phases
  /\ line \in 0 .. Lines - 1 /\ col \in 0 .. MaxBytes - 1 /\ frame \in 0 .. 2
  /\ phase # "line" => col = 0
  /\ phase \in {"gap1", "gap2"} => line = 0

HistoryTyped == owed \in Seq(AnyWord) /\ got \in Seq(AnyWord)

(* p_capture runs only once its reset is over.                                *)
ResetOrder ==
  /\ capture_rst_sync2 => capture_rst_sync1
  /\ ~capture_rst_sync2 => state = "S_IDLE"

(* A word is on its way only after its second byte, and has found room.       *)
WordHasRoom == used \in 0 .. Depth /\ (fifo_wr_en => ~byte_sel /\ used < Depth)

(* Between the first VSYNC edge of a gap and the first line.                  *)
Boundary == phase = "gap2" \/ (phase = "blank" /\ line = 0)

(* An edge of VSYNC not seen yet is one of the gap the camera is in: once     *)
(* S_IDLE has looked at VSYNC, a reset in the middle of a frame is no edge.   *)
EdgesAreGaps == state # "S_IDLE" /\ vsync # vsync_d => Boundary

(* A window with nothing in it yet, that will see its frame from its start.   *)
Fresh ==
  /\ got = << >> /\ ~fifo_wr_en /\ line_cnt = 0 /\ pixel_cnt = 0
  /\ ~href_d /\ ~byte_sel
  /\ Boundary \/ (phase = "line" /\ line = 0 /\ col = 0)

(* A window that has seen its frame from its start: all that is owed of it is *)
(* stored or on its way, and in a line the pairing is that of the camera.     *)
UnderWay ==
  /\ owed = IF fifo_wr_en THEN Append(got, fifo_wr_data) ELSE got
  /\ line_cnt >= 1 /\ (pixel_cnt = 0 <=> owed = << >>)
  /\ \/ /\ phase = "line" /\ ~(line = 0 /\ col = 0)
        /\ byte_sel <=> col % 2 = 1
        /\ byte_sel => d_latch = Byte(col - 1)
     \/ phase = "blank" /\ line > 0
     \/ phase = "gap1"
     \/ phase = "gap2" /\ vsync # vsync_d /\ ~fifo_wr_en

Windows ==
  /\ state \in {"S_IDLE", "S_WAIT_FRAME"} =>
       ~fifo_wr_en /\ (frame_done \/ got = << >>)
  /\ state = "S_CAPTURE" => ~frame_done /\ (Fresh \/ UnderWay)
  /\ state = "S_DONE_PULSE" =>
       ~fifo_wr_en /\ (frame_done \/ (got = owed /\ Boundary))

Typed == RegistersTyped /\ SceneTyped /\ HistoryTyped
IInv == Typed /\ ResetOrder /\ WordHasRoom /\ EdgesAreGaps /\ Windows
-----------------------------------------------------------------------------
(* The helpers the steps are made of.                                         *)
LEMMA Constants ==
  /\ PULSE \in Nat /\ PULSE > 0 /\ Lines \in Nat /\ Lines > 0
  /\ Depth \in Nat /\ Depth > 0
  /\ MinBytes \in Nat /\ MinBytes > 0 /\ MaxBytes \in Nat /\ MinBytes <= MaxBytes
BY PulseAssumption, SceneAssumption

LEMMA Longer ==
  ASSUME NEW S, NEW s \in Seq(S), NEW e \in S
  PROVE  Append(s, e) \in Seq(S) /\ Append(s, e) # << >>
<1>1. Append(s, e) \in Seq(S) /\ Len(Append(s, e)) = Len(s) + 1 /\ Len(s) \in Nat
  OBVIOUS
<1>2. Len(<< >>) = 0  OBVIOUS
<1> QED  BY <1>1, <1>2

(* The byte on the pins, and the word it makes with the one before it.        *)
LEMMA BytesTyped ==
  ASSUME SceneTyped
  PROVE  /\ Byte(col) \in AnyByte
         /\ col % 2 = 1 => Byte(col - 1) \in AnyByte
         /\ \A first, second \in AnyByte : Word(first, second) \in AnyWord
<1>1. frame \in 0 .. 2 /\ line \in Nat /\ col \in Nat
  BY Constants DEF SceneTyped
<1>2. col % 2 = 1 => col - 1 \in Nat
  BY <1>1
<1>3. \A k \in Nat : Byte(k) \in AnyByte
  BY <1>1 DEF Byte, AnyByte
<1>4. \A first, second \in AnyByte : Word(first, second) \in AnyWord
  BY DEF Word, AnyWord
<1> QED  BY <1>1, <1>2, <1>3, <1>4

(* What the pins are.                                                         *)
LEMMA Pins ==
  /\ In.vsync = vsync /\ In.href = (phase = "line") /\ In.byte = Byte(col)
  /\ In.fifo_full = (used = Depth) /\ In.i2c_done = done
BY DEF In, fifo_full

LEMMA InitInv == Init => IInv
<1> SUFFICES ASSUME Init PROVE IInv  OBVIOUS
<1> USE DEF Init, CamInit
<1>1. RegistersTyped
  <2>1. NoByte \in AnyByte /\ <<NoByte, NoByte>> \in AnyWord
    BY DEF AnyByte, AnyWord
  <2>2. pulse_cnt \in 0 .. PULSE /\ line_cnt \in Nat /\ pixel_cnt \in Nat
    BY Constants
  <2> QED  BY <2>1, <2>2 DEF RegistersTyped, States
<1>2. SceneTyped
  <2>1. line \in 0 .. Lines - 1 /\ col \in 0 .. MaxBytes - 1 /\ frame \in 0 .. 2
    BY Constants
  <2> QED  BY <2>1 DEF SceneTyped, Phases
<1>3. HistoryTyped
  BY DEF HistoryTyped
<1> QED
  BY <1>1, <1>2, <1>3, Constants
  DEF IInv, Typed, ResetOrder, WordHasRoom, EdgesAreGaps, Windows
-----------------------------------------------------------------------------
(* Types, the scene and the FIFO after an edge.                               *)
LEMMA RegistersKept ==
  ASSUME RegistersTyped, SceneTyped, Next
  PROVE  RegistersTyped'
<1>1. CASE Reset
  <2>1. pulse_cnt' \in 0 .. PULSE /\ line_cnt' \in Nat /\ pixel_cnt' \in Nat
    BY <1>1, Constants DEF Reset, CamReset, Cleared
  <2> QED
    BY <1>1, <2>1 DEF Reset, CamReset, Cleared, RegistersTyped, States
<1>2. CASE Clock
  <2>1. CamEdge(In)
    BY <1>2 DEF Clock
  <2>2. In.vsync \in BOOLEAN /\ In.href \in BOOLEAN /\ In.i2c_done \in BOOLEAN
    BY Pins DEF SceneTyped
  <2>3. In.byte \in AnyByte /\ \A a, b \in AnyByte : Word(a, b) \in AnyWord
    BY Pins, BytesTyped
  <2>4. CASE StillReset
    <3>1. pulse_cnt' \in 0 .. PULSE /\ line_cnt' \in Nat /\ pixel_cnt' \in Nat
      BY <2>4, Constants DEF StillReset, Cleared
    <3> QED
      BY <2>4, <3>1 DEF StillReset, ReleaseReset, Cleared, RegistersTyped, States
  <2>5. CASE Sample(In)
    <3>1. /\ i2c_done_ff1' \in BOOLEAN /\ i2c_done_ff2' \in BOOLEAN
          /\ vsync_d' \in BOOLEAN /\ href_d' \in BOOLEAN
          /\ capture_rst_sync1' \in BOOLEAN /\ capture_rst_sync2' \in BOOLEAN
      BY <2>5, <2>2 DEF Sample, ReleaseReset, RegistersTyped
    <3>2. CASE Idle(In) \/ WaitFrame(In) \/ DonePulse(In)
      <4>1. line_cnt' \in Nat /\ pixel_cnt' \in Nat /\ pulse_cnt' \in 0 .. PULSE
        BY <3>2, Constants
        DEF Idle, WaitFrame, DonePulse, FreshCounts, countVars, RegistersTyped
      <4> QED
        BY <3>1, <3>2, <4>1
        DEF Idle, WaitFrame, DonePulse, NoPixel, RegistersTyped, States
    <3>3. CASE Capture(In) \/ CloseFrame(In) \/ Runt(In)
      <4>1. d_latch' \in AnyByte /\ fifo_wr_en' \in BOOLEAN /\ fifo_wr_data' \in AnyWord
        BY <3>3, <2>2, <2>3
        DEF Capture, CloseFrame, Runt, Bytes, Taken, Completes, RegistersTyped
      <4>2. line_cnt' \in Nat /\ pixel_cnt' \in Nat /\ pulse_cnt' \in 0 .. PULSE
        BY <3>3, Constants DEF Capture, CloseFrame, Runt, FreshCounts, RegistersTyped
      <4>3. byte_sel' \in BOOLEAN /\ frame_done' \in BOOLEAN /\ state' \in States
        BY <3>3, <2>2
        DEF Capture, CloseFrame, Runt, Pairing, Rearm, RegistersTyped, States
      <4> QED  BY <3>1, <4>1, <4>2, <4>3 DEF RegistersTyped
    <3> QED
      BY <2>1, <3>2, <3>3, <2>4 DEF CamEdge
  <2> QED
    BY <2>1, <2>4, <2>5
    DEF CamEdge, Idle, WaitFrame, Capture, CloseFrame, Runt, DonePulse
<1> QED  BY <1>1, <1>2 DEF Next

LEMMA SceneKept ==
  ASSUME SceneTyped, Next
  PROVE  SceneTyped'
<1>1. CASE Reset
  BY <1>1 DEF Reset, SceneTyped
<1>2. CASE Clock
  <2>1. Camera /\ done' \in BOOLEAN
    BY <1>2 DEF Clock, SceneTyped
  <2>2. CASE Rest
    BY <2>1, <2>2 DEF Rest, SceneTyped
  <2>3. CASE VsyncEdge
    BY <2>1, <2>3 DEF VsyncEdge, SceneTyped, Phases
  <2>4. CASE StartLine
    BY <2>1, <2>4 DEF StartLine, SceneTyped, Phases
  <2>5. CASE NextByte
    BY <2>1, <2>5, Constants DEF NextByte, SceneTyped, Phases
  <2>6. CASE EndLine
    BY <2>1, <2>6, Constants DEF EndLine, SceneTyped, Phases
  <2> QED  BY <2>1, <2>2, <2>3, <2>4, <2>5, <2>6 DEF Camera, Advance
<1> QED  BY <1>1, <1>2 DEF Next

LEMMA HistoryKept ==
  ASSUME Typed, Next
  PROVE  HistoryTyped'
<1>1. CASE Reset
  BY <1>1 DEF Reset, Typed, HistoryTyped
<1>2. CASE Clock
  <2>1. owed \in Seq(AnyWord) /\ got \in Seq(AnyWord) /\ << >> \in Seq(AnyWord)
    BY DEF Typed, HistoryTyped
  <2>2. fifo_wr_data \in AnyWord
    BY DEF Typed, RegistersTyped
  <2>3. col % 2 = 1 => Word(Byte(col - 1), Byte(col)) \in AnyWord
    BY BytesTyped DEF Typed
  <2>4. Remember
    BY <1>2 DEF Clock
  <2>5. owed' \in Seq(AnyWord)
    BY <2>1, <2>3, <2>4, Longer DEF Remember
  <2>6. got' \in Seq(AnyWord)
    BY <2>1, <2>2, <2>4, Longer DEF Remember
  <2> QED  BY <2>5, <2>6 DEF HistoryTyped
<1> QED  BY <1>1, <1>2 DEF Next

LEMMA ResetOrderKept ==
  ASSUME ResetOrder, Next
  PROVE  ResetOrder'
<1>1. CASE Reset
  BY <1>1 DEF Reset, CamReset, Cleared, ResetOrder
<1>2. CASE Clock
  BY <1>2
  DEF Clock, CamEdge, StillReset, Cleared, Idle, WaitFrame, Capture, CloseFrame, Runt,
      DonePulse, Sample, ReleaseReset, ResetOrder
<1> QED  BY <1>1, <1>2 DEF Next

(* A word completes from the second byte of a pair, when no other is on its   *)
(* way; so the FIFO, which had room at that edge, has room at the next.       *)
LEMMA WordHasRoomKept ==
  ASSUME Typed, WordHasRoom, Next
  PROVE  WordHasRoom'
<1>1. CASE Reset
  BY <1>1, Constants DEF Reset, CamReset, Cleared, WordHasRoom
<1>2. CASE Clock
  <2>1. CamEdge(In) /\ Fifo
    BY <1>2 DEF Clock
  <2>2. used \in Nat /\ used <= Depth /\ Depth \in Nat
    BY Constants DEF WordHasRoom
  <2>3. used' \in 0 .. Depth /\ (~fifo_wr_en => used' <= used)
    BY <2>1, <2>2 DEF Fifo, Stores, fifo_full
  <2>4. CASE fifo_wr_en'
    <3>1. byte_sel /\ used # Depth /\ ~byte_sel'
      BY <2>1, <2>4, Pins
      DEF CamEdge, StillReset, Cleared, Idle, WaitFrame, DonePulse, NoPixel, Capture,
          CloseFrame, Runt, Bytes, Taken, Completes, Pairing
    <3>2. ~fifo_wr_en
      BY <3>1 DEF WordHasRoom
    <3> QED  BY <3>1, <3>2, <2>2, <2>3 DEF WordHasRoom
  <2> QED  BY <2>3, <2>4 DEF WordHasRoom
<1> QED  BY <1>1, <1>2 DEF Next

(* An edge samples VSYNC, so what it has not seen is what the camera did at   *)
(* that very edge.                                                            *)
LEMMA EdgesAreGapsKept ==
  ASSUME SceneTyped, Next
  PROVE  EdgesAreGaps'
<1>1. CASE Reset
  BY <1>1 DEF Reset, CamReset, Cleared, EdgesAreGaps
<1>2. CASE Clock
  <2>1. CASE StillReset
    BY <2>1 DEF StillReset, Cleared, EdgesAreGaps
  <2>2. CASE Sample(In)
    <3>1. vsync_d' = vsync
      BY <2>2, Pins DEF Sample
    <3>2. CASE vsync' # vsync
      BY <1>2, <3>2
      DEF Clock, Camera, Advance, VsyncEdge, StartLine, NextByte, EndLine, Rest, SceneTyped,
          EdgesAreGaps, Boundary
    <3> QED  BY <3>1, <3>2 DEF EdgesAreGaps
  <2> QED
    BY <1>2, <2>1, <2>2
    DEF Clock, CamEdge, Idle, WaitFrame, Capture, CloseFrame, Runt, DonePulse
<1> QED  BY <1>1, <1>2 DEF Next
-----------------------------------------------------------------------------
(* The window, one lemma a step of p_capture.                                 *)

(* Nothing is stored or owed at the frame boundary, and the camera goes no    *)
(* further than the first byte.                                               *)
LEMMA AtBoundary ==
  ASSUME Typed, Boundary, Camera, Remember, ~fifo_wr_en
  PROVE  /\ phase # "line" /\ owed' = owed
         /\ got' = IF frame_done THEN << >> ELSE got
         /\ Boundary' \/ (phase' = "line" /\ line' = 0 /\ col' = 0)
<1>1. phase # "line" /\ line = 0
  BY DEF Typed, SceneTyped, Boundary
<1>2. owed' = owed /\ got' = IF frame_done THEN << >> ELSE got
  BY <1>1 DEF Remember, Stores
<1>3. Boundary' \/ (phase' = "line" /\ line' = 0 /\ col' = 0)
  BY <1>1 DEF Camera, Advance, Rest, VsyncEdge, StartLine, NextByte, EndLine, Boundary
<1> QED  BY <1>1, <1>2, <1>3

(* A fresh window: it stays fresh up to the first byte, and the first byte    *)
(* puts it under way.                                                         *)
LEMMA FreshGoesOn ==
  ASSUME Typed, Windows, Fresh, state = "S_CAPTURE", Capture(In), Camera, Remember
  PROVE  Windows'
<1>1. /\ state' = "S_CAPTURE" /\ frame_done' = FALSE /\ ~frame_done
      /\ href_d' = (phase = "line") /\ byte_sel' = (phase = "line")
      /\ fifo_wr_en' = FALSE /\ pixel_cnt' = 0
  <2>1. ~byte_sel /\ ~Taken(In) /\ ~frame_done /\ pixel_cnt = 0
    BY DEF Fresh, Taken, Completes, Windows
  <2>2. /\ state' = "S_CAPTURE" /\ frame_done' = FALSE
        /\ href_d' = (phase = "line") /\ fifo_wr_en' = FALSE
    BY <2>1, Pins DEF Capture, Sample, Bytes, Taken, Completes
  <2>3. pixel_cnt' = 0
    BY <2>1 DEF Capture
  <2>4. byte_sel' = (phase = "line")
    BY <2>1, Pins DEF Capture, Pairing
  <2> QED  BY <2>1, <2>2, <2>3, <2>4
<1>2. CASE Boundary
  <2>1. /\ phase # "line" /\ got' = << >>
        /\ Boundary' \/ (phase' = "line" /\ line' = 0 /\ col' = 0)
    BY <1>1, <1>2, AtBoundary DEF Fresh
  <2>2. line_cnt' = 0
    BY <2>1, Pins DEF Capture, Fresh
  <2>3. Fresh'
    BY <1>1, <2>1, <2>2 DEF Fresh
  <2> QED  BY <1>1, <2>3 DEF Windows
<1>3. CASE phase = "line" /\ line = 0 /\ col = 0
  <2>1. owed' = << >> /\ got' = << >>
    BY <1>1, <1>3 DEF Remember, Stores, Fresh
  <2>2. line_cnt' = 1
    <3>1. In.href /\ ~href_d /\ line_cnt = 0
      BY <1>3, Pins DEF Fresh
    <3> QED  BY <3>1 DEF Capture
  <2>3. d_latch' = <<frame, 0, 0>>
    BY <1>3, Pins DEF Capture, Bytes, Fresh, Byte
  <2>4. \/ phase' = "line" /\ line' = 0 /\ col' = 1 /\ frame' = frame
        \/ phase' = "blank" /\ line' = 1
        \/ phase' = "gap1"
    BY <1>3, Constants DEF Camera, Advance, VsyncEdge, StartLine, NextByte, EndLine
  <2>5. /\ owed' = IF fifo_wr_en' THEN Append(got', fifo_wr_data') ELSE got'
        /\ line_cnt' >= 1 /\ (pixel_cnt' = 0 <=> owed' = << >>)
    BY <1>1, <2>1, <2>2
  <2>6. CASE phase' = "line" /\ line' = 0 /\ col' = 1 /\ frame' = frame
    <3>1. ~(line' = 0 /\ col' = 0) /\ col' % 2 = 1 /\ Byte(col - 1)' = <<frame, 0, 0>>
      BY <2>6 DEF Byte
    <3>2. byte_sel' = TRUE
      BY <1>1, <1>3
    <3> QED  BY <1>1, <2>3, <2>5, <2>6, <3>1, <3>2 DEF Windows, UnderWay
  <2>7. CASE (phase' = "blank" /\ line' = 1) \/ phase' = "gap1"
    BY <1>1, <2>5, <2>7 DEF Windows, UnderWay
  <2> QED  BY <2>4, <2>6, <2>7
<1> QED  BY <1>2, <1>3 DEF Fresh

(* In a line under way a byte is latched or completes the pixel the camera    *)
(* owes; the word completed before it is stored.                              *)
LEMMA LineGoesOn ==
  ASSUME Typed, WordHasRoom, Windows, UnderWay, phase = "line", state = "S_CAPTURE",
         Capture(In), Camera, Remember
  PROVE  Windows'
<1>1. /\ state' = "S_CAPTURE" /\ frame_done' = FALSE /\ frame_done = FALSE
      /\ byte_sel' = ~byte_sel /\ byte_sel \in BOOLEAN /\ fifo_wr_en \in BOOLEAN
  BY Pins DEF Capture, Pairing, Windows, Typed, RegistersTyped
<1>2. /\ byte_sel <=> col % 2 = 1
      /\ byte_sel => d_latch = Byte(col - 1)
      /\ ~(line = 0 /\ col = 0) /\ line_cnt >= 1 /\ (pixel_cnt = 0 <=> owed = << >>)
      /\ owed = IF fifo_wr_en THEN Append(got, fifo_wr_data) ELSE got
  BY DEF UnderWay
<1>3. /\ owed \in Seq(AnyWord) /\ line \in Nat /\ col \in Nat
      /\ line_cnt \in Nat /\ pixel_cnt \in Nat /\ Depth \in Nat /\ used \in Nat
  BY Constants DEF Typed, HistoryTyped, SceneTyped, RegistersTyped, WordHasRoom
<1>4. line_cnt' \in Nat /\ line_cnt' >= 1
  BY <1>2, <1>3 DEF Capture
<1>5. \/ phase' = "line" /\ line' = line /\ col' = col + 1 /\ frame' = frame
      \/ phase' = "blank" /\ line' > 0
      \/ phase' = "gap1"
  BY <1>3, Constants DEF Camera, Advance, VsyncEdge, StartLine, NextByte, EndLine
<1>6. ~byte_sel' => d_latch' = d_latch
  BY <1>1, Pins DEF Capture, Bytes
<1>7. byte_sel' => d_latch' = Byte(col)
  BY <1>1, Pins DEF Capture, Bytes
<1>8. /\ owed' = IF fifo_wr_en' THEN Append(got', fifo_wr_data') ELSE got'
      /\ pixel_cnt' = 0 <=> owed' = << >>
  <2>1. CASE byte_sel /\ used # Depth
    <3>1. fifo_wr_en' = TRUE /\ fifo_wr_data' = Word(d_latch, Byte(col))
          /\ pixel_cnt' = pixel_cnt + 1
      BY <2>1, Pins DEF Capture, Bytes, Taken, Completes
    <3>2. fifo_wr_en = FALSE
      BY <2>1, <1>1 DEF WordHasRoom
    <3>3. owed' = Append(owed, Word(d_latch, Byte(col))) /\ got' = got
      BY <2>1, <3>2, <1>1, <1>2 DEF Remember, Stores, fifo_full
    <3>4. Word(d_latch, Byte(col)) \in AnyWord
      BY <2>1, <1>2, BytesTyped DEF Typed
    <3>5. owed' # << >>
      BY <3>3, <3>4, <1>3, Longer
    <3>6. pixel_cnt' # 0
      BY <3>1, <1>3
    <3> QED  BY <3>1, <3>2, <3>3, <3>5, <3>6, <1>2
  <2>2. CASE ~(byte_sel /\ used # Depth)
    <3>1. fifo_wr_en' = FALSE /\ pixel_cnt' = pixel_cnt
      BY <2>2, Pins DEF Capture, Bytes, Taken, Completes
    <3>2. owed' = owed
      BY <2>2, <1>2 DEF Remember, fifo_full
    <3>3. fifo_wr_en => used # Depth
      BY <1>3 DEF WordHasRoom
    <3>4. got' = owed
      BY <1>1, <1>2, <3>3 DEF Remember, Stores, fifo_full
    <3> QED  BY <3>1, <3>2, <3>4, <1>2
  <2> QED  BY <2>1, <2>2
<1>9. CASE phase' = "line" /\ line' = line /\ col' = col + 1 /\ frame' = frame
  <2>1. ~(line' = 0 /\ col' = 0)
    BY <1>9, <1>3
  <2>2. (col' % 2 = 1) <=> ~(col % 2 = 1)
    BY <1>9, <1>3
  <2>3. byte_sel' <=> col' % 2 = 1
    BY <2>2, <1>1, <1>2
  <2>4. Byte(col - 1)' = Byte(col)
    BY <1>9, <1>3 DEF Byte
  <2> QED  BY <1>9, <2>1, <2>3, <2>4, <1>1, <1>4, <1>7, <1>8 DEF Windows, UnderWay
<1>10. CASE (phase' = "blank" /\ line' > 0) \/ phase' = "gap1"
  BY <1>10, <1>1, <1>4, <1>8 DEF Windows, UnderWay
<1> QED  BY <1>5, <1>9, <1>10

(* Between the lines nothing is owed, and the last word is stored.            *)
LEMMA GapGoesOn ==
  ASSUME Typed, WordHasRoom, Windows, UnderWay, phase # "line", state = "S_CAPTURE",
         Capture(In), Camera, Remember
  PROVE  Windows'
<1>1. /\ state' = "S_CAPTURE" /\ frame_done' = FALSE /\ ~frame_done
      /\ byte_sel' = FALSE /\ fifo_wr_en' = FALSE /\ vsync_d' = vsync /\ vsync = vsync_d
      /\ line_cnt' = line_cnt /\ pixel_cnt' = pixel_cnt
  <2>1. In.href = FALSE /\ Taken(In) = FALSE /\ ~frame_done
    BY Pins DEF Taken, Completes, Windows
  <2> QED
    BY <2>1, Pins DEF Capture, Sample, FrameEdge, Pairing, Bytes
<1>2. /\ line_cnt >= 1 /\ (pixel_cnt = 0 <=> owed = << >>)
      /\ owed = IF fifo_wr_en THEN Append(got, fifo_wr_data) ELSE got
      /\ (phase = "blank" /\ line > 0) \/ phase = "gap1"
  BY <1>1 DEF UnderWay
<1>3. fifo_wr_en => used # Depth
  BY Constants DEF WordHasRoom
<1>4. owed' = owed /\ got' = owed
  BY <1>1, <1>2, <1>3 DEF Remember, Stores, fifo_full
<1>5. /\ owed' = IF fifo_wr_en' THEN Append(got', fifo_wr_data') ELSE got'
      /\ line_cnt' >= 1 /\ (pixel_cnt' = 0 <=> owed' = << >>)
  BY <1>1, <1>2, <1>4
<1>6. \/ phase' = "line" /\ line' = line /\ line > 0 /\ col' = 0
      \/ phase' = "blank" /\ line' = line /\ line > 0
      \/ phase' = "gap1"
      \/ phase' = "gap2" /\ vsync' # vsync_d'
  BY <1>1, <1>2
  DEF Camera, Advance, VsyncEdge, StartLine, NextByte, EndLine, Rest, Typed, SceneTyped
<1>7. CASE phase' = "line" /\ line' = line /\ line > 0 /\ col' = 0
  <2>1. ~(line' = 0 /\ col' = 0) /\ ~(col' % 2 = 1)
    BY <1>7
  <2> QED  BY <1>7, <2>1, <1>1, <1>5 DEF Windows, UnderWay
<1>8. CASE ~(phase' = "line" /\ line' = line /\ line > 0 /\ col' = 0)
  <2>1. \/ phase' = "blank" /\ line' > 0
        \/ phase' = "gap1"
        \/ phase' = "gap2" /\ vsync' # vsync_d' /\ ~fifo_wr_en'
    BY <1>6, <1>8, <1>1
  <2> QED  BY <2>1, <1>1, <1>5 DEF Windows, UnderWay
<1> QED  BY <1>7, <1>8

(* An edge of VSYNC ends a window that is under way with all of it stored.    *)
LEMMA EdgeEnds ==
  ASSUME Typed, EdgesAreGaps, UnderWay, state = "S_CAPTURE", FrameEdge(In)
  PROVE  Boundary /\ ~fifo_wr_en /\ got = owed /\ (pixel_cnt = 0 => got = << >>)
<1>1. vsync # vsync_d
  BY Pins DEF FrameEdge
<1>2. Boundary
  BY <1>1 DEF EdgesAreGaps
<1>3. phase = "gap2" /\ ~fifo_wr_en
  BY <1>2 DEF UnderWay, Boundary
<1> QED  BY <1>2, <1>3 DEF UnderWay

LEMMA WindowsKept ==
  ASSUME IInv, Next
  PROVE  Windows'
<1> USE DEF IInv
<1>1. CASE Reset
  BY <1>1 DEF Reset, CamReset, Cleared, Windows
<1>2. CASE Clock
  <2>1. CamEdge(In) /\ Camera /\ Remember
    BY <1>2 DEF Clock
  <2>2. CASE StillReset
    BY <2>1, <2>2 DEF StillReset, Cleared, ResetOrder, Remember, Stores, Windows
  <2>3. CASE Idle(In)
    BY <2>1, <2>3 DEF Idle, NoPixel, Remember, Stores, Windows
  <2>4. CASE WaitFrame(In)
    <3>1. /\ state = "S_WAIT_FRAME" /\ fifo_wr_en' = FALSE /\ frame_done' = FALSE
          /\ href_d' = (phase = "line") /\ got' = << >>
      BY <2>1, <2>4, Pins DEF WaitFrame, Sample, NoPixel, Remember, Stores, Windows
    <3>2. CASE FrameEdge(In)
      <4>1. /\ state' = "S_CAPTURE" /\ byte_sel' = FALSE
            /\ line_cnt' = 0 /\ pixel_cnt' = 0
        BY <2>4, <3>2 DEF WaitFrame, FreshCounts
      <4>2. Boundary
        BY <3>1, <3>2, Pins DEF FrameEdge, EdgesAreGaps
      <4>3. ~fifo_wr_en
        BY <3>1 DEF Windows
      <4>4. /\ phase # "line"
            /\ Boundary' \/ (phase' = "line" /\ line' = 0 /\ col' = 0)
        BY <4>2, <4>3, <2>1, AtBoundary
      <4> QED  BY <3>1, <4>1, <4>4 DEF Fresh, Windows
    <3>3. CASE ~FrameEdge(In)
      BY <2>4, <3>1, <3>3 DEF WaitFrame, Windows
    <3> QED  BY <3>2, <3>3
  <2>5. CASE Capture(In)
    BY <2>1, <2>5, FreshGoesOn, LineGoesOn, GapGoesOn DEF Capture, Windows
  <2>6. CASE CloseFrame(In)
    <3>1. state = "S_CAPTURE" /\ FrameEdge(In) /\ pixel_cnt >= 1 /\ ~frame_done
      BY <2>6 DEF CloseFrame, Counted, Windows
    <3>2. UnderWay
      BY <3>1 DEF Windows, Fresh
    <3>3. Boundary /\ ~fifo_wr_en /\ got = owed
      BY <3>1, <3>2, EdgeEnds
    <3>4. /\ phase # "line" /\ owed' = owed /\ got' = got
          /\ Boundary' \/ (phase' = "line" /\ line' = 0 /\ col' = 0)
      BY <3>1, <3>3, <2>1, AtBoundary
    <3>5. phase = "gap2"
      BY <3>1, <3>2, <3>3 DEF UnderWay, Boundary
    <3>6. phase' # "line"
      BY <3>5, <2>1 DEF Camera, Advance, VsyncEdge, StartLine, NextByte, EndLine, Rest
    <3>7. state' = "S_DONE_PULSE" /\ fifo_wr_en' = FALSE
      BY <2>6, <3>4, Pins DEF CloseFrame, Bytes, Taken, Completes
    <3> QED  BY <3>3, <3>4, <3>6, <3>7 DEF Windows
  <2>7. CASE Runt(In)
    <3>1. state = "S_CAPTURE" /\ FrameEdge(In) /\ ~Counted /\ ~frame_done
      BY <2>7 DEF Runt, Windows
    <3>2. Boundary /\ ~fifo_wr_en /\ got = << >>
      <4>1. vsync # vsync_d
        BY <3>1, Pins DEF FrameEdge
      <4>2. CASE Fresh
        BY <3>1, <4>1, <4>2 DEF Fresh, EdgesAreGaps
      <4>3. CASE UnderWay
        <5>1. pixel_cnt = 0
          BY <3>1, <4>3 DEF Counted, UnderWay, Typed, RegistersTyped
        <5> QED  BY <3>1, <4>3, <5>1, EdgeEnds
      <4> QED  BY <3>1, <4>2, <4>3 DEF Windows
    <3>3. /\ phase # "line" /\ got' = << >>
          /\ Boundary' \/ (phase' = "line" /\ line' = 0 /\ col' = 0)
      BY <3>1, <3>2, <2>1, AtBoundary
    <3>4. /\ state' = "S_CAPTURE" /\ frame_done' = FALSE /\ fifo_wr_en' = FALSE
          /\ byte_sel' = FALSE /\ line_cnt' = 0 /\ pixel_cnt' = 0 /\ href_d' = FALSE
      BY <2>7, <3>1, <3>3, Pins
      DEF Runt, Rearm, FreshCounts, Bytes, Taken, Completes, Sample
    <3> QED  BY <3>3, <3>4 DEF Fresh, Windows
  <2>8. CASE DonePulse(In)
    <3>1. /\ state = "S_DONE_PULSE" /\ fifo_wr_en' = FALSE /\ frame_done' = TRUE
          /\ state' \in {"S_WAIT_FRAME", "S_DONE_PULSE"}
      BY <2>8 DEF DonePulse, NoPixel
    <3> QED  BY <3>1 DEF Windows
  <2> QED
    BY <2>1, <2>2, <2>3, <2>4, <2>5, <2>6, <2>7, <2>8 DEF CamEdge
<1> QED  BY <1>1, <1>2 DEF Next
-----------------------------------------------------------------------------
LEMMA InvKept ==
  ASSUME IInv, [Next]_vars
  PROVE  IInv'
<1>1. CASE Next
  <2>1. RegistersTyped' /\ SceneTyped' /\ HistoryTyped'
    BY <1>1, RegistersKept, SceneKept, HistoryKept DEF IInv, Typed
  <2>2. ResetOrder' /\ WordHasRoom' /\ EdgesAreGaps'
    BY <1>1, ResetOrderKept, WordHasRoomKept, EdgesAreGapsKept DEF IInv, Typed
  <2> QED  BY <1>1, <2>1, <2>2, WindowsKept DEF IInv, Typed
<1>2. CASE UNCHANGED vars
  <2> USE <1>2 DEF vars, camVars, sceneVars, countVars, outVars, syncVars
  <2>1. RegistersTyped' /\ SceneTyped' /\ HistoryTyped'
    BY DEF IInv, Typed, RegistersTyped, SceneTyped, HistoryTyped
  <2>2. ResetOrder' /\ WordHasRoom' /\ EdgesAreGaps'
    BY DEF IInv, ResetOrder, WordHasRoom, EdgesAreGaps, Boundary
  <2>3. Windows'
    BY DEF IInv, Windows, Fresh, UnderWay, Boundary, Byte
  <2> QED  BY <2>1, <2>2, <2>3 DEF IInv, Typed
<1> QED  BY <1>1, <1>2

(* The windows of p_capture are the frames of the camera.                     *)
THEOREM Inductive == Spec => []IInv
<1>1. IInv /\ [Next]_vars => IInv'
  BY InvKept
<1> QED  BY <1>1, InitInv, PTL DEF Spec

(* The word that was completed while the FIFO had room meets no full FIFO one *)
(* edge later, when it is written (fifo_wr_en of p_capture).                  *)
THEOREM NeverRefused == Spec => []NothingRefused
<1>1. IInv => NothingRefused
  BY Constants DEF IInv, WordHasRoom, NothingRefused, fifo_full
<1> QED  BY <1>1, Inductive, PTL

(* Whenever frame_done rises, the words stored since the last time are the    *)
(* pixels of one frame of the camera from its first line on (S_DONE_PULSE).   *)
THEOREM FramesAreWhole == Spec => FramesWhole
<1>1. IInv /\ [Next]_vars => [~frame_done /\ frame_done' => got' = owed']_vars
  <2> SUFFICES ASSUME IInv, Next, ~frame_done, frame_done'
               PROVE  got' = owed'
    OBVIOUS
  <2>1. Clock
    BY DEF Next, Reset, CamReset, Cleared
  <2>2. DonePulse(In)
    BY <2>1
    DEF Clock, CamEdge, StillReset, Cleared, Idle, WaitFrame, Capture, CloseFrame, Runt
  <2>3. ~fifo_wr_en /\ got = owed /\ Boundary
    BY <2>2 DEF DonePulse, IInv, Windows
  <2>4. owed' = owed /\ got' = got
    BY <2>1, <2>3, AtBoundary DEF Clock, IInv
  <2> QED  BY <2>3, <2>4
<1> QED  BY <1>1, Inductive, PTL DEF FramesWhole, Spec

------------------------------------------------------------------------------
(* Induction over the natural numbers, for sets: of the numbers that are not  *)
(* in such a set there is no least one.                                       *)
LEMMA LeastNumber ==
  ASSUME NEW S, S \subseteq Nat, S # {}
  PROVE  \E x \in S : \A y \in S : x <= y
<1> DEFINE R == OpToRel(<, Nat)
<1>1. IsWellFoundedOn(R, Nat)
  BY NatLessThanWellFounded
<1>2. \A x, y \in Nat : x < y => <<x, y>> \in R
  BY DEF OpToRel
<1> HIDE DEF R
<1>3. PICK x \in S : \A y \in S : ~ (<<y, x>> \in R)
  BY <1>1, WFMin
<1>4. ASSUME NEW y \in S PROVE x <= y
  <2>1. x \in Nat /\ y \in Nat
    OBVIOUS
  <2>2. ~(y < x)
    BY <1>2, <1>3, <2>1, Zenon
  <2> QED BY <2>1, <2>2
<1> QED BY <1>4

LEMMA SetInduction ==
  ASSUME NEW S, 0 \in S, \A k \in Nat : k \in S => k + 1 \in S
  PROVE  \A k \in Nat : k \in S
<1> SUFFICES ASSUME Nat \ S # {} PROVE FALSE
  OBVIOUS
<1>1. PICK x \in Nat \ S : \A y \in Nat \ S : x <= y
  BY LeastNumber
<1>2. x - 1 \in Nat /\ (x - 1) + 1 = x
  OBVIOUS
<1>3. x - 1 \in S
  BY <1>1, <1>2
<1> QED BY <1>2, <1>3


(* What a definition by recursion over the bits computes: there is a function *)
(* that starts at x and goes on with f.                                       *)
Iterated(f, x, n, w) == w = [i \in 0 .. n |-> IF i = 0 THEN x ELSE f[w[i - 1]]]

LEMMA OneMore ==
  ASSUME NEW f, NEW x, NEW n \in Nat, NEW w, Iterated(f, x, n, w)
  PROVE  \E v : Iterated(f, x, n + 1, v)
<1> DEFINE v == [i \in 0 .. n + 1 |-> IF i <= n THEN w[i] ELSE f[w[n]]]
<1>1. /\ \A i \in 0 .. n : w[i] = IF i = 0 THEN x ELSE f[w[i - 1]]
      /\ \A i \in 0 .. n : v[i] = w[i]
      /\ v[n + 1] = f[w[n]]
  BY DEF Iterated
<1>2. ASSUME NEW i \in 0 .. n + 1 PROVE v[i] = IF i = 0 THEN x ELSE f[v[i - 1]]
  <2>1. CASE i = n + 1
    BY <1>1, <2>1
  <2>2. CASE i \in 0 .. n
    BY <1>1, <2>2
  <2> QED BY <2>1, <2>2
<1>3. v = [i \in 0 .. n + 1 |-> IF i = 0 THEN x ELSE f[v[i - 1]]]
  <2>1. v = [i \in 0 .. n + 1 |-> v[i]]
    OBVIOUS
  <2> HIDE DEF v
  <2> QED BY <1>2, <2>1
<1> QED BY <1>3 DEF Iterated

LEMMA Iterates ==
  ASSUME NEW f, NEW x
  PROVE  \A n \in Nat : \E w : Iterated(f, x, n, w)
<1> DEFINE S == {n \in Nat : \E w : Iterated(f, x, n, w)}
<1>1. 0 \in S
  <2>1. Iterated(f, x, 0, [i \in 0 .. 0 |-> x])
    BY DEF Iterated
  <2> QED BY <2>1
<1>2. \A n \in Nat : n \in S => n + 1 \in S
  BY OneMore
<1> HIDE DEF S
<1>3. \A n \in Nat : n \in S
  BY <1>1, <1>2, SetInduction
<1> QED BY <1>3 DEF S

LEMMA IteratedIn ==
  ASSUME NEW f \in [Nat -> Nat], NEW x \in Nat, NEW n \in Nat, NEW w, Iterated(f, x, n, w)
  PROVE  \A i \in 0 .. n : w[i] \in Nat
<1> DEFINE S == {i \in Nat : i <= n => w[i] \in Nat}
<1>1. 0 \in S
  BY DEF Iterated
<1>2. ASSUME NEW i \in Nat, i \in S PROVE i + 1 \in S
  <2> SUFFICES ASSUME i + 1 <= n PROVE w[i + 1] \in Nat
    OBVIOUS
  <2>1. w[i] \in Nat
    BY <1>2
  <2>2. i + 1 \in 0 .. n /\ i + 1 # 0 /\ (i + 1) - 1 = i
    OBVIOUS
  <2>3. w[i + 1] = f[w[i]]
    BY <2>2 DEF Iterated
  <2> QED BY <2>1, <2>3
<1> HIDE DEF S
<1>3. \A i \in Nat : i \in S
  BY <1>1, <1>2, SetInduction
<1> QED BY <1>3 DEF S

-----------------------------------------------------------------------------
(* The weights are the powers of two.                                         *)
LEMMA WeightFacts ==
  /\ \A i \in Bits : Weight[i] \in Nat /\ Weight[i] >= 1
  /\ Weight[0] = 1
  /\ \A i \in Bits : i # 0 => Weight[i] = 2 * Weight[i - 1]
<1> DEFINE f == [x \in Nat |-> 2 * x]
<1>1. PICK w : Iterated(f, 1, DEPTH_LOG2, w)
  BY Iterates, DepthLog2Assumption
<1>2. f \in [Nat -> Nat] /\ \A x \in Nat : f[x] = 2 * x
  OBVIOUS
<1> HIDE DEF f
<1>3. \A i \in 0 .. DEPTH_LOG2 : w[i] \in Nat
  BY <1>1, <1>2, IteratedIn, DepthLog2Assumption
<1>4. w = [i \in Bits |-> IF i = 0 THEN 1 ELSE 2 * w[i - 1]]
  <2>1. \A i \in Bits : i # 0 => f[w[i - 1]] = 2 * w[i - 1]
    BY <1>2, <1>3, DepthLog2Assumption DEF Bits
  <2> QED BY <1>1, <2>1 DEF Iterated, Bits
<1> DEFINE P == CHOOSE h : h = [i \in Bits |-> IF i = 0 THEN 1 ELSE 2 * h[i - 1]]
<1>5. P = [i \in Bits |-> IF i = 0 THEN 1 ELSE 2 * P[i - 1]]
  BY <1>4
<1>6. Weight = P
  BY DEF Weight
<1> HIDE DEF P
<1>7. \A i \in Bits : Weight[i] = IF i = 0 THEN 1 ELSE 2 * Weight[i - 1]
  BY <1>5, <1>6
<1> DEFINE S == {i \in Nat : i <= DEPTH_LOG2 => Weight[i] \in Nat /\ Weight[i] >= 1}
<1>8. 0 \in S
  BY <1>7, DepthLog2Assumption DEF Bits
<1>9. \A i \in Nat : i \in S => i + 1 \in S
  BY <1>7, DepthLog2Assumption DEF Bits
<1> HIDE DEF S
<1>10. \A i \in Nat : i \in S
  BY <1>8, <1>9, SetInduction
<1>11. \A i \in Bits : Weight[i] \in Nat /\ Weight[i] >= 1
  BY <1>10, DepthLog2Assumption DEF Bits, S
<1> QED BY <1>7, <1>11, DepthLog2Assumption DEF Bits

LEMMA DepthFacts == DEPTH \in Nat /\ DEPTH > 1 /\ PtrMod = 2 * DEPTH
<1>1. DEPTH_LOG2 \in Bits /\ DEPTH_LOG2 - 1 \in Bits /\ DEPTH_LOG2 # 0
  BY DepthLog2Assumption DEF Bits
<1> QED BY <1>1, WeightFacts DEF DEPTH, PtrMod

(* Every shift halves.                                                        *)
Shifted(b, s) ==
  /\ s = ShiftRight(b) /\ s[0] = b
  /\ \A i \in 0 .. DEPTH_LOG2 + 1 : s[i] \in Nat
  /\ \A i \in Bits : s[i + 1] = s[i] \div 2

LEMMA ShiftFacts ==
  ASSUME NEW b \in Nat
  PROVE  \E s : Shifted(b, s)
<1> DEFINE f == [x \in Nat |-> x \div 2]
<1>1. PICK w : Iterated(f, b, DEPTH_LOG2 + 1, w)
  <2>1. DEPTH_LOG2 + 1 \in Nat
    BY DepthLog2Assumption
  <2> QED BY <2>1, Iterates
<1>2. f \in [Nat -> Nat] /\ \A x \in Nat : f[x] = x \div 2
  OBVIOUS
<1> HIDE DEF f
<1>3. \A i \in 0 .. DEPTH_LOG2 + 1 : w[i] \in Nat
  <2>1. DEPTH_LOG2 + 1 \in Nat
    BY DepthLog2Assumption
  <2> QED BY <1>1, <1>2, <2>1, IteratedIn
<1>4. w = [i \in 0 .. DEPTH_LOG2 + 1 |-> IF i = 0 THEN b ELSE w[i - 1] \div 2]
  <2>1. \A i \in 0 .. DEPTH_LOG2 + 1 : i # 0 => f[w[i - 1]] = w[i - 1] \div 2
    BY <1>2, <1>3, DepthLog2Assumption
  <2> QED BY <1>1, <2>1 DEF Iterated
<1> DEFINE P == CHOOSE h : h = [i \in 0 .. DEPTH_LOG2 + 1 |->
                                  IF i = 0 THEN b ELSE h[i - 1] \div 2]
<1>5. P = [i \in 0 .. DEPTH_LOG2 + 1 |-> IF i = 0 THEN b ELSE P[i - 1] \div 2]
  BY <1>4
<1>6. ShiftRight(b) = P
  BY DEF ShiftRight
<1> HIDE DEF P
<1>7. \A i \in 0 .. DEPTH_LOG2 + 1 : P[i] = IF i = 0 THEN b ELSE P[i - 1] \div 2
  BY <1>5
<1> DEFINE S == {i \in Nat : i <= DEPTH_LOG2 + 1 => P[i] \in Nat}
<1>8. 0 \in S
  BY <1>7, DepthLog2Assumption
<1>9. \A i \in Nat : i \in S => i + 1 \in S
  BY <1>7, DepthLog2Assumption
<1> HIDE DEF S
<1>10. \A i \in Nat : i \in S
  BY <1>8, <1>9, SetInduction
<1>11. \A i \in 0 .. DEPTH_LOG2 + 1 : P[i] \in Nat
  BY <1>10, DepthLog2Assumption DEF S
<1>12. \A i \in Bits : P[i + 1] = P[i] \div 2
  BY <1>7, DepthLog2Assumption DEF Bits
<1>13. P[0] = b
  BY <1>7, DepthLog2Assumption
<1> QED BY <1>6, <1>11, <1>12, <1>13 DEF Shifted
-----------------------------------------------------------------------------
(* A pointer has no bits above DEPTH_LOG2.                                    *)
Pointers == 0 .. PtrMod - 1

LEMMA ShiftBound ==
  ASSUME NEW b \in Pointers, NEW s, Shifted(b, s)
  PROVE  /\ \A i \in Bits : s[i] < 2 * Weight[DEPTH_LOG2 - i]
         /\ s[DEPTH_LOG2] \in {0, 1} /\ s[DEPTH_LOG2 + 1] = 0
<1> DEFINE S == {i \in Nat : i <= DEPTH_LOG2 => s[i] < 2 * Weight[DEPTH_LOG2 - i]}
<1>1. 0 \in S
  BY DepthLog2Assumption, DepthFacts DEF Shifted, Pointers, DEPTH, PtrMod
<1>2. ASSUME NEW i \in Nat, i \in S PROVE i + 1 \in S
  <2> SUFFICES ASSUME i + 1 <= DEPTH_LOG2
               PROVE  s[i + 1] < 2 * Weight[DEPTH_LOG2 - (i + 1)]
    OBVIOUS
  <2>1. /\ i \in Bits /\ i + 1 \in Bits /\ DEPTH_LOG2 - i \in Bits /\ DEPTH_LOG2 - i # 0
        /\ (DEPTH_LOG2 - i) - 1 = DEPTH_LOG2 - (i + 1) /\ DEPTH_LOG2 - (i + 1) \in Bits
    BY DepthLog2Assumption DEF Bits
  <2>2. /\ s[i] \in Nat /\ s[i + 1] = s[i] \div 2 /\ s[i] < 2 * Weight[DEPTH_LOG2 - i]
    BY <1>2, <2>1, DepthLog2Assumption DEF Shifted, Bits
  <2>3. /\ Weight[DEPTH_LOG2 - i] = 2 * Weight[DEPTH_LOG2 - (i + 1)]
        /\ Weight[DEPTH_LOG2 - (i + 1)] \in Nat
    BY <2>1, WeightFacts
  <2> QED BY <2>2, <2>3
<1> HIDE DEF S
<1>3. \A i \in Nat : i \in S
  BY <1>1, <1>2, SetInduction
<1>4. \A i \in Bits : s[i] < 2 * Weight[DEPTH_LOG2 - i]
  BY <1>3, DepthLog2Assumption DEF S, Bits
<1>5. DEPTH_LOG2 \in Bits /\ DEPTH_LOG2 - DEPTH_LOG2 = 0
  BY DepthLog2Assumption DEF Bits
<1>6. s[DEPTH_LOG2] \in Nat /\ s[DEPTH_LOG2] < 2 /\ s[DEPTH_LOG2 + 1] = s[DEPTH_LOG2] \div 2
  BY <1>4, <1>5, WeightFacts, DepthLog2Assumption DEF Shifted
<1> QED BY <1>4, <1>6

(* The Gray code of a number whose shifts are known.                          *)
LEMMA GrayBits ==
  ASSUME NEW b, NEW s, Shifted(b, s)
  PROVE  /\ bin2gray(b) = [i \in Bits |-> ((s[i] % 2) + (s[i + 1] % 2)) % 2]
         /\ \A i \in Bits : bin2gray(b)[i] \in {0, 1}
<1>1. bin2gray(b) = [i \in Bits |-> ((s[i] % 2) + (s[i + 1] % 2)) % 2]
  <2>1. ASSUME NEW i \in Bits
        PROVE  (BitOf(b, i) + BitOf(b, i + 1)) % 2 = ((s[i] % 2) + (s[i + 1] % 2)) % 2
    <3>1. BitOf(b, i) = s[i] % 2 /\ BitOf(b, i + 1) = s[i + 1] % 2
      BY DEF Shifted, BitOf
    <3> QED BY <3>1
  <2> QED BY <2>1 DEF bin2gray
<1>2. \A i \in Bits : s[i] \in Nat /\ s[i + 1] \in Nat
  BY DepthLog2Assumption DEF Shifted, Bits
<1>3. \A x, y \in Nat : ((x % 2) + (y % 2)) % 2 \in {0, 1}
  OBVIOUS
<1> QED BY <1>1, <1>2, <1>3

(* gray2bin undoes bin2gray.                                                  *)
LEMMA BackAndForth ==
  ASSUME NEW b \in Pointers
  PROVE  gray2bin(bin2gray(b)) = b
<1>1. PICK s : Shifted(b, s)
  BY ShiftFacts, DepthFacts DEF Pointers
<1>2. PICK g : g = bin2gray(b)
  OBVIOUS
<1>3. \A i \in Bits : g[i] = ((s[i] % 2) + (s[i + 1] % 2)) % 2
  BY <1>1, <1>2, GrayBits
<1>4. /\ s[DEPTH_LOG2] \in {0, 1} /\ s[DEPTH_LOG2 + 1] = 0
      /\ \A i \in Bits : s[i] \in Nat /\ s[i + 1] \in Nat /\ s[i + 1] = s[i] \div 2
      /\ s[0] = b
  BY <1>1, ShiftBound, DepthLog2Assumption DEF Shifted, Bits
<1> DEFINE Upper(h) == [i \in Bits |-> IF i = DEPTH_LOG2 THEN g[i]
                                       ELSE 2 * h[i + 1] + ((h[i + 1] + g[i]) % 2)]
           u == [i \in Bits |-> s[i]]
<1>5. g[DEPTH_LOG2] = s[DEPTH_LOG2]
  <2>1. DEPTH_LOG2 \in Bits
    BY DepthLog2Assumption DEF Bits
  <2>2. g[DEPTH_LOG2] = ((s[DEPTH_LOG2] % 2) + (0 % 2)) % 2
    BY <1>3, <1>4, <2>1
  <2> QED BY <1>4, <2>2
<1>6. ASSUME NEW i \in Bits, i # DEPTH_LOG2
      PROVE  s[i] = 2 * s[i + 1] + ((s[i + 1] + g[i]) % 2)
  <2>1. s[i] \in Nat /\ s[i + 1] \in Nat /\ s[i + 1] = s[i] \div 2
    BY <1>4
  <2>2. \A x, y \in Nat : y = x \div 2 => x = 2 * y + ((y + (((x % 2) + (y % 2)) % 2)) % 2)
    OBVIOUS
  <2> QED BY <1>3, <2>1, <2>2
<1>7. u = Upper(u)
  BY <1>5, <1>6, DepthLog2Assumption DEF Bits
<1> DEFINE v == CHOOSE h : h = Upper(h)
<1>8. v = Upper(v)
  BY <1>7
<1>9. gray2bin(g) = v[0]
  BY DEF gray2bin
<1> HIDE DEF v
<1>10. \A i \in Bits : v[i] = IF i = DEPTH_LOG2 THEN g[i]
                              ELSE 2 * v[i + 1] + ((v[i + 1] + g[i]) % 2)
  BY <1>8
<1> DEFINE S == {k \in Nat : k <= DEPTH_LOG2 => v[DEPTH_LOG2 - k] = s[DEPTH_LOG2 - k]}
<1>11. 0 \in S
  BY <1>5, <1>10, DepthLog2Assumption DEF Bits
<1>12. ASSUME NEW k \in Nat, k \in S PROVE k + 1 \in S
  <2> SUFFICES ASSUME k + 1 <= DEPTH_LOG2
               PROVE  v[DEPTH_LOG2 - (k + 1)] = s[DEPTH_LOG2 - (k + 1)]
    OBVIOUS
  <2>1. PICK i \in Bits :
          i = DEPTH_LOG2 - (k + 1) /\ i # DEPTH_LOG2 /\ i + 1 = DEPTH_LOG2 - k
    BY DepthLog2Assumption DEF Bits
  <2>2. v[i + 1] = s[i + 1]
    <3>1. v[DEPTH_LOG2 - k] = s[DEPTH_LOG2 - k]
      BY <1>12, DepthLog2Assumption
    <3> QED BY <2>1, <3>1
  <2> QED BY <1>6, <1>10, <2>1, <2>2
<1> HIDE DEF S
<1>13. DEPTH_LOG2 \in S
  BY <1>11, <1>12, SetInduction, DepthLog2Assumption
<1>14. v[0] = s[0]
  BY <1>13, DepthLog2Assumption DEF S
<1> QED BY <1>2, <1>4, <1>9, <1>14
(* Half the range further on, each shift is as much larger as half the range, *)
(* shifted.                                                                   *)
LEMMA HalfWayRound ==
  ASSUME NEW b \in 0 .. DEPTH - 1, NEW s, Shifted(b, s), NEW t, Shifted(b + DEPTH, t)
  PROVE  \A i \in Bits : t[i] = s[i] + Weight[DEPTH_LOG2 - i]
<1> DEFINE S == {i \in Nat : i <= DEPTH_LOG2 => t[i] = s[i] + Weight[DEPTH_LOG2 - i]}
<1>1. 0 \in S
  BY DepthLog2Assumption, DepthFacts DEF Shifted, DEPTH
<1>2. ASSUME NEW i \in Nat, i \in S PROVE i + 1 \in S
  <2> SUFFICES ASSUME i + 1 <= DEPTH_LOG2
               PROVE  t[i + 1] = s[i + 1] + Weight[DEPTH_LOG2 - (i + 1)]
    OBVIOUS
  <2>1. /\ i \in Bits /\ i + 1 \in Bits /\ DEPTH_LOG2 - i \in Bits /\ DEPTH_LOG2 - i # 0
        /\ (DEPTH_LOG2 - i) - 1 = DEPTH_LOG2 - (i + 1) /\ DEPTH_LOG2 - (i + 1) \in Bits
    BY DepthLog2Assumption DEF Bits
  <2>2. /\ s[i] \in Nat /\ s[i + 1] = s[i] \div 2
        /\ t[i] \in Nat /\ t[i + 1] = t[i] \div 2
        /\ t[i] = s[i] + Weight[DEPTH_LOG2 - i]
    BY <1>2, <2>1, DepthLog2Assumption DEF Shifted, Bits
  <2>3. /\ Weight[DEPTH_LOG2 - i] = 2 * Weight[DEPTH_LOG2 - (i + 1)]
        /\ Weight[DEPTH_LOG2 - (i + 1)] \in Nat
    BY <2>1, WeightFacts
  <2> QED BY <2>2, <2>3
<1> HIDE DEF S
<1>3. \A i \in Nat : i \in S
  BY <1>1, <1>2, SetInduction
<1> QED BY <1>3, DepthLog2Assumption DEF S, Bits

(* So the two top bits of the Gray code differ and the others agree.          *)
LEMMA TopBits ==
  ASSUME NEW b \in 0 .. DEPTH - 1, NEW i \in Bits
  PROVE  (bin2gray(b + DEPTH)[i] # bin2gray(b)[i]) <=> i >= DEPTH_LOG2 - 1
<1>1. b \in Pointers /\ b + DEPTH \in Pointers /\ b \in Nat /\ b + DEPTH \in Nat
  BY DepthFacts DEF Pointers
<1>2. PICK s, t : Shifted(b, s) /\ Shifted(b + DEPTH, t)
  BY <1>1, ShiftFacts
<1>3. /\ bin2gray(b)[i] = ((s[i] % 2) + (s[i + 1] % 2)) % 2
      /\ bin2gray(b + DEPTH)[i] = ((t[i] % 2) + (t[i + 1] % 2)) % 2
  BY <1>2, GrayBits
<1>4. /\ s[i] \in Nat /\ t[i] \in Nat /\ s[i + 1] \in Nat /\ t[i + 1] \in Nat
      /\ s[DEPTH_LOG2 + 1] = 0 /\ t[DEPTH_LOG2 + 1] = 0
  BY <1>1, <1>2, ShiftBound, DepthLog2Assumption DEF Shifted, Bits
<1>5. ASSUME NEW k \in Bits, k # DEPTH_LOG2
      PROVE  \E x \in Nat : t[k] = s[k] + 2 * x
  <2>1. DEPTH_LOG2 - k \in Bits /\ DEPTH_LOG2 - k # 0 /\ (DEPTH_LOG2 - k) - 1 \in Bits
    BY <1>5, DepthLog2Assumption DEF Bits
  <2> QED BY <1>2, <2>1, HalfWayRound, WeightFacts
<1>6. t[DEPTH_LOG2] = s[DEPTH_LOG2] + 1
  <2>1. DEPTH_LOG2 \in Bits /\ DEPTH_LOG2 - DEPTH_LOG2 = 0
    BY DepthLog2Assumption DEF Bits
  <2> QED BY <1>2, <2>1, HalfWayRound, WeightFacts
<1>7. CASE i = DEPTH_LOG2
  <2>1. i >= DEPTH_LOG2 - 1
    BY <1>7, DepthLog2Assumption
  <2>2. t[i] = s[i] + 1 /\ t[i + 1] = 0 /\ s[i + 1] = 0
    BY <1>4, <1>6, <1>7
  <2> QED BY <1>3, <1>4, <2>1, <2>2
<1>8. CASE i = DEPTH_LOG2 - 1
  <2>1. i >= DEPTH_LOG2 - 1 /\ i # DEPTH_LOG2 /\ i + 1 = DEPTH_LOG2
    BY <1>8, DepthLog2Assumption
  <2>2. PICK x \in Nat : t[i] = s[i] + 2 * x
    BY <1>5, <2>1
  <2>3. t[i + 1] = s[i + 1] + 1
    BY <1>6, <2>1
  <2>4. t[i] % 2 = s[i] % 2
    BY <1>4, <2>2
  <2> QED BY <1>3, <1>4, <2>1, <2>3, <2>4
<1>9. CASE i < DEPTH_LOG2 - 1
  <2>1. ~(i >= DEPTH_LOG2 - 1) /\ i # DEPTH_LOG2 /\ i + 1 # DEPTH_LOG2 /\ i + 1 \in Bits
    BY <1>9, DepthLog2Assumption DEF Bits
  <2>2. PICK x \in Nat : t[i] = s[i] + 2 * x
    BY <1>5, <2>1
  <2>3. PICK y \in Nat : t[i + 1] = s[i + 1] + 2 * y
    BY <1>5, <2>1
  <2>4. t[i] % 2 = s[i] % 2
    BY <1>4, <2>2
  <2>5. t[i + 1] % 2 = s[i + 1] % 2
    BY <1>4, <2>3
  <2> QED BY <1>3, <1>4, <2>1, <2>4, <2>5
<1> QED BY <1>7, <1>8, <1>9, DepthLog2Assumption DEF Bits

(* Which is how full_int recognises a pointer half the range away.            *)
LEMMA FullMeans ==
  ASSUME NEW a \in Pointers, NEW b \in Pointers
  PROVE  (\A i \in Bits : (bin2gray(a)[i] # bin2gray(b)[i]) = (i >= DEPTH_LOG2 - 1))
           <=> (a = b + DEPTH \/ b = a + DEPTH)
<1> DEFINE Differ(x, y) ==
             \A i \in Bits : (bin2gray(x)[i] # bin2gray(y)[i]) <=> i >= DEPTH_LOG2 - 1
<1>1. ASSUME NEW x \in Pointers, NEW y \in Pointers, x = y + DEPTH \/ y = x + DEPTH
      PROVE  Differ(x, y)
  <2>1. CASE x = y + DEPTH
    <3>1. y \in 0 .. DEPTH - 1
      BY <2>1, DepthFacts DEF Pointers
    <3> QED BY <2>1, <3>1, TopBits
  <2>2. CASE y = x + DEPTH
    <3>1. x \in 0 .. DEPTH - 1
      BY <2>2, DepthFacts DEF Pointers
    <3> QED BY <2>2, <3>1, TopBits
  <2> QED BY <1>1, <2>1, <2>2
<1>2. ASSUME Differ(a, b) PROVE a = b + DEPTH \/ b = a + DEPTH
  <2>1. PICK c \in Pointers : c = b + DEPTH \/ b = c + DEPTH
    <3>1. CASE b < DEPTH
      BY <3>1, DepthFacts DEF Pointers
    <3>2. CASE b >= DEPTH
      <4>1. b - DEPTH \in Pointers /\ b = (b - DEPTH) + DEPTH
        BY <3>2, DepthFacts DEF Pointers
      <4> QED BY <4>1
    <3> QED BY <3>1, <3>2, DepthFacts DEF Pointers
  <2>2. Differ(c, b)
    BY <1>1, <2>1
  <2>3. PICK s, t, u : Shifted(a, s) /\ Shifted(b, t) /\ Shifted(c, u)
    BY <2>1, ShiftFacts, DepthFacts DEF Pointers
  <2>4. \A i \in Bits : bin2gray(a)[i] \in {0, 1} /\ bin2gray(b)[i] \in {0, 1}
                        /\ bin2gray(c)[i] \in {0, 1}
    BY <2>3, GrayBits
  <2>5. \A i \in Bits : bin2gray(a)[i] = bin2gray(c)[i]
    <3> SUFFICES ASSUME NEW i \in Bits PROVE bin2gray(a)[i] = bin2gray(c)[i]
      OBVIOUS
    <3>1. (bin2gray(a)[i] # bin2gray(b)[i]) <=> (bin2gray(c)[i] # bin2gray(b)[i])
      BY <1>2, <2>2
    <3> QED BY <2>4, <3>1
  <2>6. bin2gray(a) = bin2gray(c)
    BY <2>5 DEF bin2gray
  <2>7. a = c
    BY <2>6, BackAndForth
  <2> QED BY <2>1, <2>7
<1>3. (\A i \in Bits : (bin2gray(a)[i] # bin2gray(b)[i]) = (i >= DEPTH_LOG2 - 1))
        <=> Differ(a, b)
  OBVIOUS
<1> QED BY <1>1, <1>2, <1>3

(* A number and its successor: from some bit on, their shifts are the same;   *)
(* below it they differ by one, and the smaller is odd.                       *)
LEMMA Carries ==
  ASSUME NEW b \in Nat, NEW s, Shifted(b, s), NEW t, Shifted(b + 1, t)
  PROVE  \A i \in 0 .. DEPTH_LOG2 + 1 :
           /\ t[i] = s[i] \/ t[i] = s[i] + 1
           /\ \A j \in 0 .. i : t[j] = s[j] => t[i] = s[i]
<1> DEFINE S == {i \in Nat : i <= DEPTH_LOG2 + 1 =>
                   /\ t[i] = s[i] \/ t[i] = s[i] + 1
                   /\ \A j \in 0 .. i : t[j] = s[j] => t[i] = s[i]}
<1>1. 0 \in S
  <2>1. \A j \in 0 .. 0 : j = 0
    OBVIOUS
  <2> QED BY <2>1 DEF Shifted
<1>2. ASSUME NEW i \in Nat, i \in S PROVE i + 1 \in S
  <2> SUFFICES ASSUME i + 1 <= DEPTH_LOG2 + 1
               PROVE  /\ t[i + 1] = s[i + 1] \/ t[i + 1] = s[i + 1] + 1
                      /\ \A j \in 0 .. i + 1 : t[j] = s[j] => t[i + 1] = s[i + 1]
    OBVIOUS
  <2>1. /\ i \in Bits /\ i \in 0 .. DEPTH_LOG2 + 1
        /\ \A j \in 0 .. i + 1 : j \in 0 .. i \/ j = i + 1
    BY DepthLog2Assumption DEF Bits
  <2>2. /\ s[i] \in Nat /\ s[i + 1] = s[i] \div 2 /\ t[i] \in Nat /\ t[i + 1] = t[i] \div 2
    BY <2>1 DEF Shifted
  <2>3. /\ t[i] = s[i] \/ t[i] = s[i] + 1
        /\ \A j \in 0 .. i : t[j] = s[j] => t[i] = s[i]
    BY <1>2, DepthLog2Assumption
  <2>4. t[i] = s[i] => t[i + 1] = s[i + 1]
    BY <2>2
  <2>5. t[i + 1] = s[i + 1] \/ t[i + 1] = s[i + 1] + 1
    BY <2>2, <2>3
  <2> QED BY <2>1, <2>3, <2>4, <2>5
<1> HIDE DEF S
<1>3. \A i \in Nat : i \in S
  BY <1>1, <1>2, SetInduction
<1> QED BY <1>3, DepthLog2Assumption DEF S
(* The code of 0 is all zeros; that of the last pointer has only its top bit. *)
LEMMA ZeroGray == bin2gray(0) = Zero
<1>1. PICK s : Shifted(0, s)
  BY ShiftFacts
<1> DEFINE S == {i \in Nat : i <= DEPTH_LOG2 + 1 => s[i] = 0}
<1>2. 0 \in S
  BY <1>1 DEF Shifted
<1>3. ASSUME NEW i \in Nat, i \in S PROVE i + 1 \in S
  <2>1. i + 1 <= DEPTH_LOG2 + 1 => s[i] = 0 /\ s[i + 1] = s[i] \div 2
    BY <1>1, <1>3, DepthLog2Assumption DEF Shifted, Bits
  <2> QED BY <2>1
<1> HIDE DEF S
<1>4. \A i \in Nat : i \in S
  BY <1>2, <1>3, SetInduction
<1>5. \A i \in Bits : s[i] = 0 /\ s[i + 1] = 0
  BY <1>4, DepthLog2Assumption DEF S, Bits
<1>6. bin2gray(0) = [i \in Bits |-> ((s[i] % 2) + (s[i + 1] % 2)) % 2]
  BY <1>1, GrayBits
<1>7. \A i \in Bits : ((s[i] % 2) + (s[i + 1] % 2)) % 2 = 0
  BY <1>5
<1> QED BY <1>6, <1>7 DEF Zero

LEMMA LastPointer ==
  ASSUME NEW i \in Bits, i # DEPTH_LOG2
  PROVE  bin2gray(PtrMod - 1)[i] = 0
<1>1. PICK b \in Nat : b = PtrMod - 1
  BY DepthFacts
<1>2. PICK s : Shifted(b, s)
  BY ShiftFacts
<1> DEFINE S == {k \in Nat : k <= DEPTH_LOG2 => s[k] = 2 * Weight[DEPTH_LOG2 - k] - 1}
<1>3. 0 \in S
  BY <1>1, <1>2, DepthLog2Assumption DEF Shifted, PtrMod, DEPTH
<1>4. ASSUME NEW k \in Nat, k \in S PROVE k + 1 \in S
  <2> SUFFICES ASSUME k + 1 <= DEPTH_LOG2
               PROVE  s[k + 1] = 2 * Weight[DEPTH_LOG2 - (k + 1)] - 1
    OBVIOUS
  <2>1. /\ k \in Bits /\ DEPTH_LOG2 - k \in Bits /\ DEPTH_LOG2 - k # 0
        /\ (DEPTH_LOG2 - k) - 1 = DEPTH_LOG2 - (k + 1) /\ DEPTH_LOG2 - (k + 1) \in Bits
    BY DepthLog2Assumption DEF Bits
  <2>2. /\ s[k + 1] = s[k] \div 2 /\ s[k] = 2 * Weight[DEPTH_LOG2 - k] - 1
    BY <1>2, <1>4, <2>1, DepthLog2Assumption DEF Shifted, Bits
  <2>3. /\ Weight[DEPTH_LOG2 - k] = 2 * Weight[DEPTH_LOG2 - (k + 1)]
        /\ Weight[DEPTH_LOG2 - (k + 1)] \in Nat
    BY <2>1, WeightFacts
  <2> QED BY <2>2, <2>3
<1> HIDE DEF S
<1>5. \A k \in Nat : k \in S
  BY <1>3, <1>4, SetInduction
<1>6. \A k \in Bits : \E w \in Nat : s[k] = 2 * w + 1
  <2> SUFFICES ASSUME NEW k \in Bits PROVE \E w \in Nat : s[k] = 2 * w + 1
    OBVIOUS
  <2>1. s[k] = 2 * Weight[DEPTH_LOG2 - k] - 1
    BY <1>5, DepthLog2Assumption DEF S, Bits
  <2>2. Weight[DEPTH_LOG2 - k] \in Nat /\ Weight[DEPTH_LOG2 - k] >= 1
    BY WeightFacts, DepthLog2Assumption DEF Bits
  <2>3. Weight[DEPTH_LOG2 - k] - 1 \in Nat /\ s[k] = 2 * (Weight[DEPTH_LOG2 - k] - 1) + 1
    BY <2>1, <2>2
  <2> QED BY <2>3
<1>7. i + 1 \in Bits
  BY DepthLog2Assumption DEF Bits
<1>8. s[i] % 2 = 1 /\ s[i + 1] % 2 = 1
  BY <1>6, <1>7
<1>9. bin2gray(b)[i] = ((s[i] % 2) + (s[i + 1] % 2)) % 2
  BY <1>2, GrayBits
<1> QED BY <1>1, <1>8, <1>9

(* So the Gray codes of successors differ in one bit, the last one that the   *)
(* carry reaches; from the last pointer to 0 it is the top bit.               *)
LEMMA OneBitChanges ==
  ASSUME NEW b \in Pointers
  PROVE  \A i, j \in BitsChanged(bin2gray(b), bin2gray((b + 1) % PtrMod)) : i = j
<1> DEFINE c == (b + 1) % PtrMod
<1>1. b \in Nat /\ b + 1 \in Nat
  BY DepthFacts DEF Pointers
<1>2. PICK s, t : Shifted(b, s) /\ Shifted(b + 1, t)
  BY <1>1, ShiftFacts
<1>3. \A i \in Bits : /\ s[i] \in Nat /\ s[i + 1] \in Nat
                      /\ t[i] \in Nat /\ t[i + 1] \in Nat
                      /\ s[i + 1] = s[i] \div 2 /\ t[i + 1] = t[i] \div 2
  BY <1>2, DepthLog2Assumption DEF Shifted, Bits
<1>4. \A i \in Bits : bin2gray(b)[i] = ((s[i] % 2) + (s[i + 1] % 2)) % 2
  BY <1>2, GrayBits
<1>5. /\ \A i \in 0 .. DEPTH_LOG2 + 1 : t[i] = s[i] \/ t[i] = s[i] + 1
      /\ \A i, j \in 0 .. DEPTH_LOG2 + 1 : j <= i /\ t[j] = s[j] => t[i] = s[i]
  BY <1>1, <1>2, Carries, DepthLog2Assumption
(* A bit that changes is one that the carry reaches but does not leave.       *)
<1>6. CASE b + 1 < PtrMod
  <2>1. c = b + 1
    BY <1>1, <1>6, DepthFacts
  <2>2. \A i \in Bits : bin2gray(c)[i] = ((t[i] % 2) + (t[i + 1] % 2)) % 2
    BY <1>2, <2>1, GrayBits
  <2>3. ASSUME NEW i \in BitsChanged(bin2gray(b), bin2gray(c))
        PROVE  i \in Bits /\ t[i] # s[i] /\ t[i + 1] = s[i + 1]
    <3>1. i \in Bits /\ bin2gray(b)[i] # bin2gray(c)[i]
      BY DEF BitsChanged
    <3>2. t[i] = s[i] \/ t[i] = s[i] + 1
      BY <1>5, <3>1, DepthLog2Assumption DEF Bits
    <3>3. ((s[i] % 2) + (s[i + 1] % 2)) % 2 # ((t[i] % 2) + (t[i + 1] % 2)) % 2
      BY <1>4, <2>2, <3>1
    <3>4. /\ s[i] \in Nat /\ s[i + 1] \in Nat /\ t[i] \in Nat /\ t[i + 1] \in Nat
          /\ s[i + 1] = s[i] \div 2 /\ t[i + 1] = t[i] \div 2
      BY <1>3, <3>1
    <3>5. t[i] # s[i]
      BY <3>3, <3>4
    <3>6. s[i] % 2 = 0
      <4>1. CASE s[i] % 2 = 1
        <5>1. t[i] % 2 = 0 /\ t[i + 1] = s[i + 1] + 1
          BY <3>2, <3>4, <3>5, <4>1
        <5>2. (1 + (s[i + 1] % 2)) % 2 = (0 + ((s[i + 1] + 1) % 2)) % 2
          BY <3>4
        <5> QED BY <3>3, <4>1, <5>1, <5>2
      <4> QED BY <3>4, <4>1
    <3>7. t[i + 1] = s[i + 1]
      BY <3>2, <3>4, <3>5, <3>6
    <3> QED BY <3>1, <3>5, <3>7
  <2>4. ASSUME NEW i \in BitsChanged(bin2gray(b), bin2gray(c)),
               NEW j \in BitsChanged(bin2gray(b), bin2gray(c))
        PROVE  ~(i < j)
    <3>1. /\ i \in Bits /\ j \in Bits /\ t[i + 1] = s[i + 1] /\ t[j] # s[j]
      BY <2>3
    <3> QED BY <1>5, <3>1, DepthLog2Assumption DEF Bits
  <2>5. ASSUME NEW i \in BitsChanged(bin2gray(b), bin2gray(c)),
               NEW j \in BitsChanged(bin2gray(b), bin2gray(c))
        PROVE  i = j
    <3>1. ~(i < j) /\ ~(j < i) /\ i \in Int /\ j \in Int
      BY <2>3, <2>4, DepthLog2Assumption DEF Bits
    <3> QED BY <3>1
  <2> QED BY <2>5
<1>7. CASE b + 1 = PtrMod
  <2>1. c = 0 /\ c \in Nat
    BY <1>7, DepthFacts
  (* b is all ones, c all zeros.                                              *)
  <2>3. ASSUME NEW i \in Bits, i # DEPTH_LOG2
        PROVE  bin2gray(b)[i] = bin2gray(c)[i]
    <3>1. bin2gray(b)[i] = 0
      BY <1>1, <1>7, <2>3, DepthFacts, LastPointer
    <3>2. bin2gray(c)[i] = 0
      BY <2>1, ZeroGray DEF Zero
    <3> QED BY <3>1, <3>2
  <2>4. \A i \in BitsChanged(bin2gray(b), bin2gray(c)) : i = DEPTH_LOG2
    BY <2>3 DEF BitsChanged
  <2> QED BY <2>4
<1> QED BY <1>1, <1>6, <1>7, DepthFacts DEF Pointers

-----------------------------------------------------------------------------
(* What crosses the clock boundary is always the code of a pointer.           *)
Codes == {bin2gray(p) : p \in Pointers}
GrayInv ==
  /\ wr_ptr_bin \in Pointers /\ rd_ptr_bin \in Pointers
  /\ rd_gray_sync1 \in Codes /\ rd_gray_sync2 \in Codes
  /\ wr_gray_sync1 \in Codes /\ wr_gray_sync2 \in Codes

LEMMA NextPointer ==
  ASSUME NEW p \in Pointers
  PROVE  /\ (p + 1) % PtrMod \in Pointers
         /\ (p + 1) % PtrMod = IF p = 2 * DEPTH - 1 THEN 0 ELSE p + 1
<1>1. CASE p = PtrMod - 1
  BY <1>1, DepthFacts DEF Pointers
<1>2. CASE p # PtrMod - 1
  BY <1>2, DepthFacts DEF Pointers
<1> QED BY <1>1, <1>2

LEMMA ZeroIsCode == Zero \in Codes /\ 0 \in Pointers /\ gray2bin(Zero) = 0
<1>1. 0 \in Pointers
  BY DepthFacts DEF Pointers
<1> QED BY <1>1, ZeroGray, BackAndForth DEF Codes

LEMMA GrayInductive == FifoSpec => []GrayInv
<1>1. FifoInit => GrayInv
  BY ZeroIsCode DEF FifoInit, GrayInv
<1>2. GrayInv /\ [FifoNext]_fifoVars => GrayInv'
  <2> SUFFICES ASSUME GrayInv, [FifoNext]_fifoVars PROVE GrayInv'
    OBVIOUS
  <2> USE DEF GrayInv, wrSide, rdSide
  <2>1. ASSUME NEW wr_en \in BOOLEAN, NEW wr_data \in Data, WrEdge(wr_en, wr_data)
        PROVE  GrayInv'
    <3>1. rd_gray_sync1' \in Codes /\ rd_gray_sync2' \in Codes
      BY <2>1 DEF WrEdge, SampleRd, Codes, rd_ptr_gray
    <3>2. wr_ptr_bin' \in Pointers
      BY <2>1, NextPointer DEF WrEdge
    <3> QED BY <2>1, <3>1, <3>2 DEF WrEdge
  <2>2. ASSUME NEW rd_en \in BOOLEAN, RdEdge(rd_en)
        PROVE  GrayInv'
    <3>1. wr_gray_sync1' \in Codes /\ wr_gray_sync2' \in Codes
      BY <2>2 DEF RdEdge, SampleWr, Codes, wr_ptr_gray
    <3>2. rd_ptr_bin' \in Pointers
      BY <2>2, NextPointer DEF RdEdge
    <3> QED BY <2>2, <3>1, <3>2 DEF RdEdge
  <2>3. CASE ResetBoth
    BY <2>3, ZeroIsCode DEF ResetBoth
  <2>4. CASE UNCHANGED fifoVars
    BY <2>4 DEF fifoVars
  <2> QED BY <2>1, <2>2, <2>3, <2>4 DEF FifoNext, WriteClock, ReadClock
<1> QED BY <1>1, <1>2, PTL DEF FifoSpec

(* For every width, a pointer changes at most one bit of its Gray code at an  *)
(* edge (bin2gray).                                                           *)
THEOREM OneBitCrosses == FifoSpec => OneBitAtATime
<1>1. GrayInv /\ [FifoNext]_fifoVars =>
        [ \/ ResetBoth
          \/ /\ \A i, j \in BitsChanged(wr_ptr_gray, wr_ptr_gray') : i = j
             /\ \A i, j \in BitsChanged(rd_ptr_gray, rd_ptr_gray') : i = j ]_fifoVars
  <2> SUFFICES ASSUME GrayInv, FifoNext, ~ResetBoth
               PROVE  /\ \A i, j \in BitsChanged(wr_ptr_gray, wr_ptr_gray') : i = j
                      /\ \A i, j \in BitsChanged(rd_ptr_gray, rd_ptr_gray') : i = j
    OBVIOUS
  <2>1. /\ wr_ptr_bin' \in {wr_ptr_bin, (wr_ptr_bin + 1) % PtrMod}
        /\ rd_ptr_bin' \in {rd_ptr_bin, (rd_ptr_bin + 1) % PtrMod}
    BY DEF FifoNext, WriteClock, ReadClock, WrEdge, RdEdge, wrSide, rdSide
  <2>2. \A g : BitsChanged(g, g) = {}
    BY DEF BitsChanged
  <2>3. PICK w \in Pointers, r \in Pointers, v \in Pointers, q \in Pointers :
          w = wr_ptr_bin /\ r = rd_ptr_bin /\ v = wr_ptr_bin' /\ q = rd_ptr_bin'
    BY <2>1, NextPointer DEF GrayInv
  <2>4. \A i, j \in BitsChanged(bin2gray(w), bin2gray(v)) : i = j
    BY <2>1, <2>2, <2>3, OneBitChanges
  <2>5. \A i, j \in BitsChanged(bin2gray(r), bin2gray(q)) : i = j
    BY <2>1, <2>2, <2>3, OneBitChanges
  <2>6. /\ wr_ptr_gray = bin2gray(w) /\ wr_ptr_gray' = bin2gray(v)
        /\ rd_ptr_gray = bin2gray(r) /\ rd_ptr_gray' = bin2gray(q)
    BY <2>3 DEF wr_ptr_gray, rd_ptr_gray
  <2> QED BY <2>4, <2>5, <2>6
<1> QED BY <1>1, GrayInductive, PTL DEF FifoSpec, OneBitAtATime

-----------------------------------------------------------------------------
(* The comparisons and conversions, in terms of the pointers they stand for.  *)
LEMMA CodeFacts ==
  ASSUME NEW g \in Codes
  PROVE  gray2bin(g) \in Pointers /\ g = bin2gray(gray2bin(g))
  BY BackAndForth DEF Codes

LEMMA PointerFacts ==
  /\ Plain!Pointer = Pointers
  /\ \A p \in Pointers : /\ (p + 1) % PtrMod = Plain!Succ(p)
                         /\ p % DEPTH = Plain!Slot(p)
<1>1. Plain!Pointer = Pointers
  BY DEF Plain!Pointer, Pointers, PtrMod
<1>2. ASSUME NEW p \in Pointers
      PROVE  (p + 1) % PtrMod = Plain!Succ(p) /\ p % DEPTH = Plain!Slot(p)
  <2>1. (p + 1) % PtrMod = Plain!Succ(p)
    BY NextPointer DEF Plain!Succ
  <2>2. CASE p >= DEPTH
    <3>1. p - DEPTH \in 0 .. DEPTH - 1 /\ p = DEPTH + (p - DEPTH)
      BY <2>2, DepthFacts DEF Pointers
    <3>2. p % DEPTH = p - DEPTH
      BY <3>1, DepthFacts
    <3> QED BY <2>1, <2>2, <3>2 DEF Plain!Slot
  <2>3. CASE ~(p >= DEPTH)
    BY <2>1, <2>3, DepthFacts DEF Plain!Slot, Pointers
  <2> QED BY <2>2, <2>3
<1> QED BY <1>1, <1>2

(* full_int and empty_int are those of the FIFO with plain pointers.          *)
LEMMA FullIsFull == GrayInv => (full_int <=> Plain!Full) /\ (empty_int <=> Plain!Empty)
<1> SUFFICES ASSUME GrayInv
             PROVE  (full_int <=> Plain!Full) /\ (empty_int <=> Plain!Empty)
  OBVIOUS
<1>1. PICK w \in Pointers, r \in Pointers, p \in Pointers, q \in Pointers :
        /\ w = wr_ptr_bin /\ r = rd_ptr_bin
        /\ p = gray2bin(rd_gray_sync2) /\ q = gray2bin(wr_gray_sync2)
        /\ rd_gray_sync2 = bin2gray(p) /\ wr_gray_sync2 = bin2gray(q)
  BY CodeFacts DEF GrayInv
<1>2. full_int <=> (w = p + DEPTH \/ p = w + DEPTH)
  BY <1>1, FullMeans DEF full_int, wr_ptr_gray
<1>3. Plain!Full <=> (w = p + DEPTH \/ p = w + DEPTH)
  BY <1>1, DepthFacts DEF Plain!Full, Plain!Dist, Pointers
<1>4. empty_int <=> r = q
  BY <1>1, BackAndForth DEF empty_int, rd_ptr_gray
<1>5. Plain!Empty <=> r = q
  BY <1>1 DEF Plain!Empty
<1> QED BY <1>2, <1>3, <1>4, <1>5

LEMMA GrayInit == FifoInit => Plain!Init
  BY ZeroIsCode DEF FifoInit, Plain!Init

LEMMA GrayStep == GrayInv /\ [FifoNext]_fifoVars => [Plain!Next]_(Plain!vars)
<1> SUFFICES ASSUME GrayInv, [FifoNext]_fifoVars PROVE [Plain!Next]_(Plain!vars)
  OBVIOUS
<1>1. gray2bin(wr_ptr_gray) = wr_ptr_bin /\ gray2bin(rd_ptr_gray) = rd_ptr_bin
  BY BackAndForth DEF GrayInv, wr_ptr_gray, rd_ptr_gray
<1>2. wr_ptr_bin \in Pointers /\ rd_ptr_bin \in Pointers
  BY DEF GrayInv
<1>3. ASSUME NEW wr_en \in BOOLEAN, NEW wr_data \in Data, WrEdge(wr_en, wr_data)
      PROVE  Plain!Next
  <2>1. Plain!SampleRd /\ UNCHANGED Plain!rdSide
    BY <1>1, <1>3 DEF WrEdge, SampleRd, rdSide, Plain!SampleRd, Plain!rdSide
  <2>2. CASE wr_en /\ ~full_int
    <3>1. /\ ram' = [ram EXCEPT ![Plain!Slot(wr_ptr_bin)] = wr_data]
          /\ wr_ptr_bin' = Plain!Succ(wr_ptr_bin)
      BY <1>2, <1>3, <2>2, PointerFacts DEF WrEdge, WriteSlot
    <3>2. ~Plain!Full
      BY <2>2, FullIsFull
    <3> QED BY <2>1, <3>1, <3>2 DEF Plain!Next, Plain!WrEdge, Plain!Write
  <2>3. CASE ~(wr_en /\ ~full_int)
    <3>1. ram' = ram /\ wr_ptr_bin' = wr_ptr_bin
      BY <1>3, <2>3 DEF WrEdge
    <3> QED BY <2>1, <3>1 DEF Plain!Next, Plain!WrEdge, Plain!WrIdle
  <2> QED BY <2>2, <2>3
<1>4. ASSUME NEW rd_en \in BOOLEAN, RdEdge(rd_en)
      PROVE  Plain!Next
  <2>1. Plain!SampleWr /\ UNCHANGED Plain!wrSide
    BY <1>1, <1>4 DEF RdEdge, SampleWr, wrSide, Plain!SampleWr, Plain!wrSide
  <2>2. CASE rd_en /\ ~empty_int
    <3>1. /\ rd_data' = ram[Plain!Slot(rd_ptr_bin)]
          /\ rd_ptr_bin' = Plain!Succ(rd_ptr_bin)
      BY <1>2, <1>4, <2>2, PointerFacts DEF RdEdge
    <3>2. ~Plain!Empty
      BY <2>2, FullIsFull
    <3> QED BY <2>1, <3>1, <3>2 DEF Plain!Next, Plain!RdEdge, Plain!Read
  <2>3. CASE ~(rd_en /\ ~empty_int)
    <3>1. rd_data' = rd_data /\ rd_ptr_bin' = rd_ptr_bin
      BY <1>4, <2>3 DEF RdEdge
    <3> QED BY <2>1, <3>1 DEF Plain!Next, Plain!RdEdge, Plain!RdIdle
  <2> QED BY <2>2, <2>3
<1>5. CASE ResetBoth
  BY <1>5, ZeroIsCode DEF ResetBoth, Plain!Next, Plain!Reset
<1>6. CASE UNCHANGED fifoVars
  BY <1>6 DEF fifoVars, wrSide, rdSide, Plain!vars, Plain!wrSide, Plain!rdSide
<1> QED BY <1>3, <1>4, <1>5, <1>6 DEF FifoNext, WriteClock, ReadClock

(* For every width, the Gray-coded FIFO implements the one with plain         *)
(* pointers (full_int, empty_int, gray2bin).                                  *)
THEOREM GrayIsPlain == FifoSpec => ImplementsCdcFifo
  BY GrayInit, GrayStep, GrayInductive, PTL DEF FifoSpec, ImplementsCdcFifo, Plain!Spec

-----------------------------------------------------------------------------
(* What is proved of the FIFO with plain pointers therefore holds of this one.*)
Safe == INSTANCE CdcFifoProofs WITH
  Depth <- DEPTH, wr_ptr <- wr_ptr_bin, rd_ptr <- rd_ptr_bin,
  rd_sync1 <- gray2bin(rd_gray_sync1), rd_sync2 <- gray2bin(rd_gray_sync2),
  wr_sync1 <- gray2bin(wr_gray_sync1), wr_sync2 <- gray2bin(wr_gray_sync2)

LEMMA PlainIsSafe == Plain!Spec => Safe!Spec
<1>1. Plain!Init => Safe!Init
  BY DEF Plain!Init, Safe!Init
<1>2. Plain!Next => Safe!Next
  <2>1. /\ Plain!Full = Safe!Full /\ Plain!Empty = Safe!Empty
        /\ \A p : Plain!Succ(p) = Safe!Succ(p) /\ Plain!Slot(p) = Safe!Slot(p)
    BY DEF Plain!Full, Plain!Empty, Plain!Dist, Plain!Succ, Plain!Slot,
           Safe!Full, Safe!Empty, Safe!Dist, Safe!Succ, Safe!Slot
  <2>2. /\ Plain!SampleRd <=> Safe!SampleRd
        /\ Plain!SampleWr <=> Safe!SampleWr
    BY Zenon DEF Plain!SampleRd, Safe!SampleRd, Plain!SampleWr, Safe!SampleWr
  <2>3. Plain!WrEdge => Safe!WrEdge
    <3>1. Plain!WrIdle => Safe!WrIdle
      BY <2>2, Zenon DEF Plain!WrIdle, Safe!WrIdle, Plain!rdSide, Safe!rdSide
    <3>2. ASSUME NEW d \in Data, Plain!Write(d) PROVE Safe!Write(d)
      BY <2>1, <2>2, <3>2 DEF Plain!Write, Safe!Write, Plain!rdSide, Safe!rdSide
    <3> QED BY <3>1, <3>2, Zenon DEF Plain!WrEdge, Safe!WrEdge
  <2>4. Plain!RdEdge => Safe!RdEdge
    <3>1. Plain!RdIdle => Safe!RdIdle
      BY <2>2, Zenon DEF Plain!RdIdle, Safe!RdIdle, Plain!wrSide, Safe!wrSide
    <3>2. Plain!Read => Safe!Read
      BY <2>1, <2>2 DEF Plain!Read, Safe!Read, Plain!wrSide, Safe!wrSide
    <3> QED BY <3>1, <3>2, Zenon DEF Plain!RdEdge, Safe!RdEdge
  <2>5. Plain!Reset => Safe!Reset
    BY Zenon DEF Plain!Reset, Safe!Reset
  <2> QED BY <2>3, <2>4, <2>5, Zenon DEF Plain!Next, Safe!Next
<1>3. UNCHANGED Plain!vars => UNCHANGED Safe!vars
  BY DEF Plain!vars, Plain!wrSide, Plain!rdSide, Safe!vars, Safe!wrSide, Safe!rdSide
<1>4. [Plain!Next]_(Plain!vars) => [Safe!Next]_(Safe!vars)
  BY <1>2, <1>3
<1> QED BY <1>1, <1>4, PTL DEF Plain!Spec, Safe!Spec

(* 2 ** DEPTH_LOG2 is a depth that those proofs admit.                        *)
LEMMA DepthAdmitted == Safe!DepthAssumption
  BY DepthFacts DEF Safe!DepthAssumption

LEMMA PlainSafe == FifoSpec => []Safe!IInv
  BY DepthAdmitted, GrayIsPlain, PlainIsSafe, Safe!Inductive, PTL DEF ImplementsCdcFifo

(* For every width, neither clock ever takes a pointer past the other one     *)
(* (p_write, p_read), Gray pointers and all.                                  *)
THEOREM GrayNeverCrosses == FifoSpec => []PointersNeverCross
<1>1. Safe!PointersNeverCross => PointersNeverCross
  BY DEF PointersNeverCross, Plain!PointersNeverCross, Plain!NoOverrun, Plain!NoUnderrun,
         Plain!Occupancy, Plain!Dist, Plain!Empty, Safe!PointersNeverCross,
         Safe!NoOverrun, Safe!NoUnderrun, Safe!Occupancy, Safe!Dist, Safe!Empty
<1>2. Plain!Spec => []Safe!PointersNeverCross
  BY DepthAdmitted, PlainIsSafe, Safe!NeverCross, PTL
<1> QED BY <1>1, <1>2, GrayIsPlain, PTL DEF ImplementsCdcFifo

(* For every width, the FIFO of the code is a bounded queue: what its users   *)
(* see of it is lost, repeated or reordered nowhere (p_write, p_read).        *)
THEOREM GrayIsQueue == FifoSpec => ImplementsQueue
<1>1. Plain!Stored = Safe!Stored /\ Plain!Stored' = Safe!Stored'
  BY DEF Plain!Stored, Plain!Occupancy, Plain!Dist, Plain!Nth, Plain!Slot,
         Safe!Stored, Safe!Occupancy, Safe!Dist, Safe!Nth, Safe!Slot
<1>2. Safe!ImplementsQueue => Plain!ImplementsQueue
  <2>1. Safe!Abstract!Init => Plain!Abstract!Init
    BY <1>1 DEF Safe!Abstract!Init, Plain!Abstract!Init
  <2>2. [Safe!Abstract!Next]_(Safe!Abstract!vars)
          => [Plain!Abstract!Next]_(Plain!Abstract!vars)
    BY <1>1 DEF Safe!Abstract!Next, Safe!Abstract!Put, Safe!Abstract!Get,
                Safe!Abstract!Reset, Safe!Abstract!vars,
                Plain!Abstract!Next, Plain!Abstract!Put, Plain!Abstract!Get,
                Plain!Abstract!Reset, Plain!Abstract!vars
  <2> QED BY <2>1, <2>2, PTL
          DEF Safe!ImplementsQueue, Safe!Abstract!Spec, Plain!ImplementsQueue,
              Plain!Abstract!Spec
<1> QED BY <1>2, DepthAdmitted, GrayIsPlain, PlainIsSafe, Safe!Refinement, PTL
        DEF ImplementsCdcFifo, ImplementsQueue

(* A distance between pointers, as the subtractions of the levels have it.     *)
LEMMA Levels ==
  ASSUME NEW x \in Pointers, NEW y \in Pointers
  PROVE  /\ Safe!Dist(x, y) \in 0 .. PtrMod - 1
         /\ (x + PtrMod - y) % PtrMod = Safe!Dist(x, y)
         /\ Safe!Dist(x, y) < DEPTH => (x + PtrMod - y) % DEPTH = Safe!Dist(x, y)
         /\ (x + PtrMod - y) % DEPTH <= Safe!Dist(x, y)
<1>1. PICK d \in 0 .. PtrMod - 1 : d = Safe!Dist(x, y)
  <2>1. Safe!Dist(x, y) \in 0 .. PtrMod - 1
    BY DepthFacts DEF Safe!Dist, Pointers
  <2> QED BY <2>1
<1>2. x + PtrMod - y = d \/ x + PtrMod - y = d + PtrMod
  BY <1>1, DepthFacts DEF Safe!Dist, Pointers
<1>3. (x + PtrMod - y) % PtrMod = d
  BY <1>2, DepthFacts
<1>4. CASE d < DEPTH
  <2>1. (x + PtrMod - y) % DEPTH = d
    <3>1. CASE x + PtrMod - y = d
      BY <1>4, <3>1, DepthFacts
    <3>2. CASE x + PtrMod - y = d + PtrMod
      <4>1. d + PtrMod = 2 * DEPTH + d
        BY DepthFacts
      <4> QED BY <1>4, <3>2, <4>1, DepthFacts
    <3> QED BY <1>2, <3>1, <3>2
  <2> QED BY <1>1, <1>3, <1>4, <2>1
<1>5. CASE d >= DEPTH
  <2>1. (x + PtrMod - y) % DEPTH < DEPTH /\ (x + PtrMod - y) % DEPTH \in Int
    BY <1>2, DepthFacts
  <2> QED BY <1>1, <1>3, <1>5, <2>1, DepthFacts
<1> QED BY <1>4, <1>5, DepthFacts

(* For every width, the levels err on the safe side (wr_usedw, rd_usedw).     *)
THEOREM LevelsAreSafe == FifoSpec => []LevelsSafe
<1>1. GrayInv /\ Safe!IInv => LevelsSafe
  <2> SUFFICES ASSUME GrayInv, Safe!IInv PROVE LevelsSafe
    OBVIOUS
  <2>1. PICK w \in Pointers, r \in Pointers, p \in Pointers, q \in Pointers :
          /\ w = wr_ptr_bin /\ r = rd_ptr_bin
          /\ p = gray2bin(rd_gray_sync2) /\ q = gray2bin(wr_gray_sync2)
    BY CodeFacts DEF GrayInv
  <2>2. /\ Safe!Dist(w, r) \in Int /\ Safe!Dist(w, p) \in Int /\ Safe!Dist(q, r) \in Int
    BY DepthFacts DEF Safe!Dist, Pointers
  <2>3. /\ Safe!Dist(w, r) <= Safe!Dist(w, p) /\ Safe!Dist(w, p) <= DEPTH
        /\ Safe!Dist(q, r) <= Safe!Dist(w, r)
    <3>1. PICK p1 \in Pointers, q1 \in Pointers :
            p1 = gray2bin(rd_gray_sync1) /\ q1 = gray2bin(wr_gray_sync1)
      BY CodeFacts DEF GrayInv
    <3>2. /\ Safe!Dist(w, r) <= Safe!Dist(w, p1) /\ Safe!Dist(w, p1) <= Safe!Dist(w, p)
          /\ Safe!Dist(q, r) <= Safe!Dist(q1, r) /\ Safe!Dist(q1, r) <= Safe!Dist(w, r)
          /\ Safe!Dist(w, p) <= DEPTH
      BY <2>1, <3>1 DEF Safe!IInv, Safe!SyncConservative, Safe!WriterBound
    <3>3. Safe!Dist(w, p1) \in Int /\ Safe!Dist(q1, r) \in Int
      BY DepthFacts DEF Safe!Dist, Pointers
    <3> QED BY <2>2, <3>2, <3>3
  <2>4. ~full_int => Safe!Dist(w, p) # DEPTH
    BY <2>1, FullIsFull DEF Plain!Full, Plain!Dist, Safe!Dist
  <2>5. ~full_int => Safe!Dist(w, p) < DEPTH
    BY <2>2, <2>3, <2>4, DepthFacts
  <2>6. ~full_int => wr_usedw >= Occupancy
    <3>1. Occupancy = Safe!Dist(w, r)
      BY <2>1, Levels DEF Occupancy
    <3>2. ~full_int => wr_usedw = Safe!Dist(w, p)
      BY <2>1, <2>5, Levels DEF wr_usedw
    <3> QED BY <2>2, <2>3, <3>1, <3>2
  <2>7. rd_usedw <= Occupancy
    <3>1. Occupancy = Safe!Dist(w, r)
      BY <2>1, Levels DEF Occupancy
    <3>2. rd_usedw <= Safe!Dist(q, r) /\ rd_usedw \in Int
      <4>1. rd_usedw = (q + PtrMod - r) % DEPTH
        BY <2>1 DEF rd_usedw
      <4>2. (q + PtrMod - r) % DEPTH \in Int
        BY DepthFacts DEF Pointers
      <4> QED BY <4>1, <4>2, Levels
    <3> QED BY <2>2, <2>3, <3>1, <3>2
  <2> QED BY <2>6, <2>7 DEF LevelsSafe
<1> QED BY <1>1, GrayInductive, PlainSafe, PTL
==============================================================================
