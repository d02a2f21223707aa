---------------------------- MODULE CameraCapture ----------------------------
(* The capture of camera_interface between the OV7670 and the write side of   *)
(* the camera FIFO (camera_subsystem.vhd).  The camera sends frames of lines  *)
(* of bytes; between two frames VSYNC makes a pulse of any length, also one   *)
(* shorter than frame_done, and of either polarity; a line may be cut short   *)
(* after any byte.                                                            *)
EXTENDS CameraInterface, Sequences, FiniteSets

CONSTANTS Lines,       \* lines of a frame, 240 in the code
          MinBytes, MaxBytes,  \* bytes of a line, 640 when it is whole
          Depth        \* depth of the camera FIFO, 512 in the code

ASSUME SceneAssumption ==
  /\ Lines \in Nat \ {0} /\ Depth \in Nat \ {0}
  /\ MinBytes \in Nat \ {0} /\ MaxBytes \in Nat /\ MinBytes <= MaxBytes

VARIABLES
  done,     \* i2c_done
  vsync, phase, line, col,  \* where the camera is: "gap1" before the first
                            \* VSYNC edge of a gap, "gap2" before the second,
                            \* "blank" or "line"
  frame,    \* the frame being sent, modulo 3
  used,     \* words in the FIFO as its write side counts them
  owed,     \* history: pixels of this frame completed with room in the FIFO
  got       \* history: words stored since the last frame_done

sceneVars == <<done, vsync, phase, line, col, frame, used>>
vars == <<camVars, sceneVars, owed, got>>

Init ==
  /\ CamInit
  /\ done = FALSE /\ vsync \in BOOLEAN
  /\ phase = "gap1" /\ line = 0 /\ col = 0 /\ frame = 0
  /\ used = 0 /\ owed = << >> /\ got = << >>

(* The camera between two edges.  In "line" the byte <<frame, line, col>> is  *)
(* on the data pins and HREF is high.                                         *)
Rest == UNCHANGED <<vsync, phase, line, col, frame>>

VsyncEdge ==
  /\ phase \in {"gap1", "gap2"} /\ vsync' = ~vsync
  /\ phase' = IF phase = "gap1" THEN "gap2" ELSE "blank"
  /\ UNCHANGED <<line, col, frame>>

StartLine ==
  /\ phase = "blank" /\ phase' = "line" /\ col' = 0
  /\ UNCHANGED <<vsync, line, frame>>

NextByte ==
  /\ phase = "line" /\ col + 1 < MaxBytes /\ col' = col + 1
  /\ UNCHANGED <<vsync, phase, line, frame>>

EndLine ==
  /\ phase = "line" /\ col + 1 >= MinBytes /\ col' = 0
  /\ IF line + 1 = Lines
       THEN phase' = "gap1" /\ line' = 0 /\ frame' = (frame + 1) % 3
       ELSE phase' = "blank" /\ line' = line + 1 /\ UNCHANGED frame
  /\ UNCHANGED vsync

Advance == VsyncEdge \/ StartLine \/ NextByte \/ EndLine
Camera == Advance \/ (phase # "line" /\ Rest)

(* The write side of the FIFO: a word is stored when there is room; what the  *)
(* reader has taken is seen at any later edge.                                *)
fifo_full == used = Depth
Stores == fifo_wr_en /\ ~fifo_full
Fifo ==
  LET stored == IF Stores THEN used + 1 ELSE used
  IN  used' \in 0 .. stored

Byte(k) == <<frame, line, k>>
In == [vsync |-> vsync, href |-> phase = "line", byte |-> Byte(col),
       fifo_full |-> fifo_full, i2c_done |-> done]

(* The pixels as they ought to be: bytes 2k and 2k + 1 of a line.             *)
Remember ==
  /\ owed' = IF phase = "line" /\ col % 2 = 1 /\ ~fifo_full
               THEN Append(owed, Word(Byte(col - 1), Byte(col)))
             ELSE IF phase = "line" /\ line = 0 /\ col = 0 THEN << >> ELSE owed
  /\ got' = IF frame_done THEN << >>
            ELSE IF Stores THEN Append(got, fifo_wr_data) ELSE got

Clock ==
  /\ CamEdge(In)
  /\ Camera /\ Fifo /\ Remember
  /\ done' \in {done, TRUE}

(* The whole board is reset; the camera and its clock go on.                  *)
Reset ==
  /\ CamReset
  /\ done' = FALSE /\ used' = 0 /\ got' = << >>
  /\ UNCHANGED <<vsync, phase, line, col, frame, owed>>

Next == Clock \/ Reset
Spec == Init /\ [][Next]_vars

(* The camera is clocked, and goes on sending.                                *)
FairSpec == Spec /\ WF_vars(Clock) /\ SF_vars(Clock /\ Advance)
-----------------------------------------------------------------------------
(* When frame_done rises, the words stored since the last time are the pixels *)
(* of one frame, of that frame from its first line on, in order and correctly *)
(* paired, less those that met a full FIFO: whenever capture was enabled,     *)
(* whichever way VSYNC goes, however short its pulse, and with lines cut      *)
(* after an odd byte.  frame_done marks a frame boundary in the FIFO          *)
(* (p_capture).                                                               *)
FramesWhole == [][ ~frame_done /\ frame_done' => got' = owed' ]_vars

(* fifo_full is looked at one edge before the word is written; the full FIFO  *)
(* refuses none of the words that pixel_cnt counts.                           *)
NothingRefused == fifo_wr_en => ~fifo_full

(* As long as the camera sends pixels for which there is room, frames are     *)
(* announced: a frame whose VSYNC edge was missed while frame_done was high   *)
(* is lost, never the lock to the frames that follow (unless there are resets *)
(* over and over).                                                            *)
Offered == done /\ phase = "line" /\ col % 2 = 1 /\ ~fifo_full
KeepsDelivering ==
  []<>Offered => []<>frame_done \/ []<>~capture_rst_sync2
==============================================================================
