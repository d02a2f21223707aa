------------------------- MODULE VgaSubsystemProofs -------------------------
(* Proofs about the display (vga_subsystem.vhd, vga_interface.vhd): every     *)
(* word is read and shown at its place, and a frame starts with a filled      *)
(* FIFO, for every size of the display and of the FIFO.                       *)
EXTENDS VgaSubsystemProps, TLAPS

Words == {0, 1} \X (0 .. FRAME_WORDS - 1)
Dots == Words \cup {Black}

(* The inductive invariant, in parts.                                         *)
CountersTyped == hc \in 0 .. H_TOTAL - 1 /\ vc \in 0 .. V_TOTAL - 1

FlagsTyped ==
  /\ rd_en_q \in BOOLEAN /\ active_d \in BOOLEAN
  /\ read_start_armed \in BOOLEAN /\ read_start_ready \in BOOLEAN
  /\ vsync_d \in BOOLEAN /\ streaming \in BOOLEAN /\ skipped \in BOOLEAN
  /\ USE_VENDOR_FIFO \in BOOLEAN /\ prompt \in BOOLEAN

FifoTyped ==
  /\ fifo \in Seq(Words) /\ unseen \in Nat /\ unseen <= Len(fifo)
  /\ next \in 0 .. FRAME_WORDS - 1 /\ frame \in {0, 1}
  /\ rst_pulse_cnt_rd \in Nat

PictureTyped ==
  /\ line_buf \in [0 .. W - 1 -> Dots] /\ read_x_q \in 0 .. W - 1
  /\ fetch_pixel_q \in Dots /\ pixel \in Dots /\ rd_data \in Dots

(* The throttle leaves room for what a burst still brings.                    *)
RoomLeft == Len(fifo) < FIFO_ALMOST_FULL_THRESH + MaxWords

(* The FIFO holds a run of the words of the frame, the first of them word p.  *)
RunOf(left, p) ==
  /\ next = (p + Len(left)) % FRAME_WORDS
  /\ \A i \in 1 .. Len(left) : left[i] = Word(p + i - 1)
HeadAt(p) == RunOf(fifo, p)

(* The words that were due in this frame before this place.                   *)
Capped(n) == IF n < W THEN n ELSE W
WordsDue ==
  (vc \div 2) * W + IF EvenLine THEN Capped((hc + 1) \div 2) ELSE W

(* The gate is shut from the second cycle of the vsync pulse to its end, so   *)
(* a frame that is shown began with its first word.                           *)
BackPorch == vc >= V_ACTIVE + V_FP + V_SYNC_W
ShutInSync == ~vsync /\ ~vsync_d => ~read_start_armed

FifoAligned ==
  /\ ~read_start_armed => HeadAt(0)
  /\ read_start_armed /\ BackPorch => HeadAt(0)
  /\ InStep /\ vc < V_ACTIVE => HeadAt(WordsDue)
  /\ rst_pulse_cnt_rd # 0 => fifo = << >>

(* A word is asked for only where one is due, and arrives one edge later.     *)
AskedWhereDue ==
  rd_en_q => /\ hc % 2 = 1 /\ hc < H_ACTIVE /\ vc < V_ACTIVE /\ EvenLine
             /\ read_x_q = hc \div 2

ActiveBefore == active_d /\ hc > 0 => hc <= H_ACTIVE /\ vc < V_ACTIVE

(* What is on its way through the scaler: the word just read, the part of the *)
(* line in line_buf, the word in fetch_pixel_q and the pixel shown.           *)
LineWord(x) == <<frame, (vc \div 2) * W + x>>
EvenScaled ==
  /\ hc % 2 = 1 /\ hc < H_ACTIVE => rd_en_q /\ rd_data = LineWord(hc \div 2)
  /\ \A x \in 0 .. W - 1 : x < hc \div 2 => line_buf[x] = LineWord(x)
  /\ hc \in 2 .. H_ACTIVE + 1 => fetch_pixel_q = LineWord((hc \div 2) - 1)
  /\ hc \in 3 .. H_ACTIVE => pixel = LineWord((hc - 3) \div 2)
OddScaled ==
  /\ \A x \in 0 .. W - 1 : line_buf[x] = LineWord(x)
  /\ hc \in 1 .. H_ACTIVE => pixel = LineWord((hc - 1) \div 2)
Scaled ==
  InStep /\ vc < V_ACTIVE => IF EvenLine THEN EvenScaled ELSE OddScaled

(* With the vendor FIFO, ready means filled since the flush.                  *)
ReadyIsFilled ==
  USE_VENDOR_FIFO /\ read_start_ready /\ ~read_start_armed /\ ~VsyncFall
    /\ vc >= V_ACTIVE + V_FP => Len(fifo) - unseen >= START_FILL_LEVEL

Typed == CountersTyped /\ FlagsTyped /\ FifoTyped /\ PictureTyped
IInv ==
  /\ Typed /\ RoomLeft /\ ShutInSync /\ FifoAligned
  /\ AskedWhereDue /\ ActiveBefore /\ Scaled /\ ReadyIsFilled
-----------------------------------------------------------------------------
(* Arithmetic: the sizes, the words of a frame, the modulus.                  *)
Half == V_ACTIVE \div 2   \* source lines

LEMMA Sizes ==
  /\ H_ACTIVE \in Nat /\ V_ACTIVE \in Nat /\ V_FP \in Nat /\ V_SYNC_W \in Nat
  /\ V_FP > 0 /\ V_SYNC_W > 0 /\ H_TOTAL \in Nat /\ V_TOTAL \in Nat
  /\ H_ACTIVE + 2 < H_TOTAL /\ V_ACTIVE + V_FP + V_SYNC_W < V_TOTAL
  /\ W \in Nat /\ W > 0 /\ H_ACTIVE = W + W
  /\ Half \in Nat /\ Half > 0 /\ V_ACTIVE = Half + Half
<1>1. /\ \A n \in {H_ACTIVE, H_FP, H_SYNC_W, H_BP} : n \in Nat /\ n > 0
      /\ \A n \in {V_ACTIVE, V_FP, V_SYNC_W, V_BP} : n \in Nat /\ n > 0
  BY TimingAssumption
<1>2. /\ H_ACTIVE \in Nat /\ H_ACTIVE > 0 /\ H_FP \in Nat /\ H_FP > 0
      /\ H_SYNC_W \in Nat /\ H_SYNC_W > 0 /\ H_BP \in Nat /\ H_BP > 0
  BY <1>1
<1>3. /\ V_ACTIVE \in Nat /\ V_ACTIVE > 0 /\ V_FP \in Nat /\ V_FP > 0
      /\ V_SYNC_W \in Nat /\ V_SYNC_W > 0 /\ V_BP \in Nat /\ V_BP > 0
  BY <1>1
<1>4. W \in Nat /\ W > 0 /\ H_ACTIVE = W + W
  BY <1>2, PairsAssumption DEF W
<1>5. Half \in Nat /\ Half > 0 /\ V_ACTIVE = Half + Half
  BY <1>3, PairsAssumption DEF Half
<1>6. H_TOTAL \in Nat /\ H_ACTIVE + 2 < H_TOTAL
  BY <1>2 DEF H_TOTAL
<1>7. V_TOTAL \in Nat /\ V_ACTIVE + V_FP + V_SYNC_W < V_TOTAL
  BY <1>3 DEF V_TOTAL
<1> QED  BY <1>2, <1>3, <1>4, <1>5, <1>6, <1>7

LEMMA Levels ==
  /\ START_FILL_LEVEL \in Nat /\ START_FILL_LEVEL > 0
  /\ FLUSH \in Nat /\ FLUSH > 0 /\ MaxWords \in Nat /\ MaxWords > 0
  /\ DEPTH \in Nat /\ DEPTH > 0
  /\ FIFO_ALMOST_FULL_THRESH \in Nat /\ FIFO_ALMOST_FULL_THRESH + MaxWords < DEPTH
  /\ TestModes \subseteq BOOLEAN /\ FifoKinds \subseteq BOOLEAN
BY LevelAssumption

(* Line k begins at word k * W.                                               *)
LEMMA Times ==
  ASSUME NEW k \in Nat, NEW w \in Nat
  PROVE  k * w \in Nat /\ (k + 1) * w = k * w + w
OBVIOUS

LEMMA TimesGrows ==
  ASSUME NEW j \in Nat, NEW k \in Nat, j <= k, NEW w \in Nat
  PROVE  j * w <= k * w
OBVIOUS

LEMMA WordInFrame ==
  /\ FRAME_WORDS \in Nat /\ FRAME_WORDS > 0
  /\ \A k \in 0 .. Half - 1 : \A x \in 0 .. W - 1 : k * W + x \in 0 .. FRAME_WORDS - 1
<1>1. \A k \in 0 .. Half - 1 : k * W \in Nat /\ k * W + W <= Half * W
  <2> TAKE k \in 0 .. Half - 1
  <2>1. k \in Nat /\ k + 1 <= Half /\ Half \in Nat /\ W \in Nat
    BY Sizes
  <2>2. (k + 1) * W <= Half * W
    BY <2>1, TimesGrows
  <2>3. k * W \in Nat /\ (k + 1) * W = k * W + W
    BY <2>1, Times
  <2> QED  BY <2>2, <2>3
<1>2. FRAME_WORDS = Half * W /\ Half * W \in Nat
  BY Sizes DEF FRAME_WORDS, Half
<1>3. FRAME_WORDS > 0
  BY <1>1, <1>2, Sizes
<1> QED  BY <1>1, <1>2, <1>3, Sizes

LEMMA ModUnique ==
  ASSUME NEW F \in Nat, F > 0, NEW q \in Nat, NEW r \in Nat, r < F
  PROVE  (q * F + r) % F = r
<1> DEFINE x == q * F + r
           d == x \div F
           s == x % F
<1>1. x \in Nat /\ q * F \in Nat
  OBVIOUS
<1>2. d \in Nat /\ s \in Nat /\ s < F /\ x = d * F + s
  BY <1>1
<1> HIDE DEF d, s
<1>3. CASE d = q
  BY <1>2, <1>3, <1>1
<1>4. CASE d < q
  <2>1. (d + 1) * F <= q * F /\ (d + 1) * F = d * F + F /\ d * F \in Nat
    BY <1>2, <1>4, Times, TimesGrows
  <2> QED  BY <2>1, <1>1, <1>2
<1>5. CASE q < d
  <2>1. (q + 1) * F <= d * F /\ (q + 1) * F = q * F + F /\ d * F \in Nat
    BY <1>2, <1>5, Times, TimesGrows
  <2> QED  BY <2>1, <1>1, <1>2
<1>6. d = q \/ d < q \/ q < d
  BY <1>2
<1> QED  BY <1>3, <1>4, <1>5, <1>6 DEF s

LEMMA ModParts ==
  ASSUME NEW F \in Nat, F > 0, NEW a \in Nat
  PROVE  \E q \in Nat, r \in Nat : r < F /\ a = q * F + r /\ a % F = r
<1>1. /\ a \div F \in Nat /\ a % F \in Nat /\ a % F < F
      /\ a = (a \div F) * F + (a % F)
  OBVIOUS
<1> QED  BY <1>1

LEMMA ModSum ==
  ASSUME NEW F \in Nat, F > 0, NEW a \in Nat, NEW n \in Nat
  PROVE  ((a % F) + n) % F = (a + n) % F
<1>1. PICK q \in Nat, r \in Nat : r < F /\ a = q * F + r /\ a % F = r
  BY ModParts
<1>2. r + n \in Nat
  OBVIOUS
<1>3. PICK e \in Nat, t \in Nat : t < F /\ r + n = e * F + t /\ (r + n) % F = t
  BY <1>2, ModParts
<1>4. q + e \in Nat /\ a + n = (q + e) * F + t
  BY <1>1, <1>3
<1>5. ((q + e) * F + t) % F = t
  BY <1>3, <1>4, ModUnique
<1> QED  BY <1>1, <1>3, <1>4, <1>5

LEMMA ModSmall ==
  ASSUME NEW F \in Nat, NEW a \in Nat, a < F
  PROVE  a % F = a
OBVIOUS

LEMMA ModIn ==
  ASSUME NEW F \in Nat, F > 0, NEW a \in Nat
  PROVE  a % F \in 0 .. F - 1
OBVIOUS
-----------------------------------------------------------------------------
(* The counters.                                                              *)
LEMMA CoreMoves ==
  ASSUME CountersTyped, CoreEdge
  PROVE  \/ hc + 1 < H_TOTAL /\ hc' = hc + 1 /\ vc' = vc
         \/ /\ hc = H_TOTAL - 1 /\ hc' = 0
            /\ \/ vc + 1 < V_TOTAL /\ vc' = vc + 1
               \/ vc = V_TOTAL - 1 /\ vc' = 0
<1>1. hc \in Nat /\ hc < H_TOTAL /\ vc \in Nat /\ vc < V_TOTAL
  BY Sizes DEF CountersTyped
<1>2. H_TOTAL \in Nat /\ V_TOTAL \in Nat
  BY Sizes
<1>3. H_TOTAL % H_TOTAL = 0 /\ V_TOTAL % V_TOTAL = 0
  BY <1>1, <1>2
<1>4. hc + 1 < H_TOTAL => hc' = hc + 1 /\ vc' = vc
  BY <1>1, <1>2, ModSmall DEF CoreEdge
<1>5. hc = H_TOTAL - 1 => hc' = 0 /\ vc' = (vc + 1) % V_TOTAL
  BY <1>1, <1>2, <1>3 DEF CoreEdge
<1>6. vc + 1 < V_TOTAL => (vc + 1) % V_TOTAL = vc + 1
  BY <1>1, <1>2, ModSmall
<1>7. vc = V_TOTAL - 1 => (vc + 1) % V_TOTAL = 0
  BY <1>1, <1>2, <1>3
<1> QED  BY <1>1, <1>2, <1>4, <1>5, <1>6, <1>7

LEMMA CountersKept ==
  ASSUME CountersTyped, CoreEdge
  PROVE  CountersTyped'
BY CoreMoves, Sizes DEF CountersTyped

(* The vertical regions of the display.                                       *)
LEMMA VsyncIs ==
  ASSUME CountersTyped
  PROVE  ~vsync <=> vc >= V_ACTIVE + V_FP /\ vc < V_ACTIVE + V_FP + V_SYNC_W
BY Sizes DEF CountersTyped, vsync

(* A frame is entered at its first place.                                     *)
LEMMA FrameEntered ==
  ASSUME CountersTyped, CoreEdge, vc' < V_ACTIVE, ~(vc < V_ACTIVE)
  PROVE  hc' = 0 /\ vc' = 0 /\ vc >= V_ACTIVE + V_FP + V_SYNC_W
BY CoreMoves, Sizes DEF CountersTyped

LEMMA DueIs ==
  ASSUME CountersTyped, NEW gate \in BOOLEAN
  PROVE  Due(gate) <=> gate /\ hc < H_ACTIVE /\ vc < V_ACTIVE /\ vc % 2 = 0 /\ hc % 2 = 0
BY DEF Due, active, EvenLine

(* The word that is due is the one of its place.                              *)
LEMMA DuePlace ==
  ASSUME CountersTyped, hc < H_ACTIVE, vc < V_ACTIVE, vc % 2 = 0, hc % 2 = 0
  PROVE  /\ WordsDue = (vc \div 2) * W + (hc \div 2)
         /\ WordsDue \in 0 .. FRAME_WORDS - 1
<1>1. hc \in Nat /\ vc \in Nat /\ W \in Nat /\ hc < W + W /\ vc < Half + Half
      /\ Half \in Nat
  BY Sizes DEF CountersTyped
<1>2. /\ (hc + 1) \div 2 = hc \div 2 /\ hc \div 2 \in 0 .. W - 1
      /\ vc \div 2 \in 0 .. Half - 1
  BY <1>1
<1>3. WordsDue = (vc \div 2) * W + (hc \div 2)
  <2>1. Capped((hc + 1) \div 2) = hc \div 2
    BY <1>1, <1>2 DEF Capped
  <2> QED  BY <2>1 DEF WordsDue, EvenLine
<1> QED  BY <1>2, <1>3, WordInFrame

(* From one place to the next, one word more was due if one was due there.    *)
LEMMA DueStep ==
  ASSUME CountersTyped, CoreEdge, vc < V_ACTIVE, vc' < V_ACTIVE
  PROVE  /\ WordsDue \in Nat
         /\ WordsDue' = IF hc < H_ACTIVE /\ vc % 2 = 0 /\ hc % 2 = 0
                          THEN WordsDue + 1 ELSE WordsDue
<1>1. hc \in Nat /\ vc \in Nat /\ W \in Nat /\ W > 0 /\ H_ACTIVE = W + W
  BY Sizes DEF CountersTyped
<1>2. vc \div 2 \in Nat /\ (vc \div 2) * W \in Nat
  <2>1. vc \div 2 \in Nat  BY <1>1
  <2> QED  BY <2>1, <1>1, Times
<1>3. Capped((hc + 1) \div 2) \in Nat
  BY <1>1 DEF Capped
<1>4. WordsDue \in Nat
  BY <1>1, <1>2, <1>3 DEF WordsDue
<1>5. CASE hc + 1 < H_TOTAL /\ hc' = hc + 1 /\ vc' = vc
  <2>1. CASE vc % 2 = 0
    <3>1. /\ WordsDue = (vc \div 2) * W + Capped((hc + 1) \div 2)
          /\ WordsDue' = (vc \div 2) * W + Capped((hc + 2) \div 2)
      BY <1>5, <2>1, <1>1 DEF WordsDue, EvenLine, Capped
    <3>2. Capped((hc + 2) \div 2) = IF hc < H_ACTIVE /\ hc % 2 = 0
                                      THEN Capped((hc + 1) \div 2) + 1
                                      ELSE Capped((hc + 1) \div 2)
      BY <1>1 DEF Capped
    <3> QED  BY <2>1, <3>1, <3>2, <1>2, <1>3, <1>4
  <2>2. CASE vc % 2 # 0
    <3>1. WordsDue = (vc \div 2) * W + W /\ WordsDue' = (vc \div 2) * W + W
      BY <1>5, <2>2 DEF WordsDue, EvenLine
    <3> QED  BY <2>2, <3>1, <1>4
  <2> QED  BY <2>1, <2>2
<1>6. CASE hc = H_TOTAL - 1 /\ hc' = 0 /\ vc' = vc + 1
  <2>1. ~(hc < H_ACTIVE) /\ Capped((hc + 1) \div 2) = W
    BY <1>1, <1>6, Sizes DEF Capped
  <2>2. WordsDue = (vc \div 2) * W + W
    BY <2>1 DEF WordsDue
  <2>3. CASE vc % 2 = 0
    <3>1. vc' % 2 # 0 /\ vc' \div 2 = vc \div 2
      BY <1>1, <1>6, <2>3
    <3>2. WordsDue' = (vc \div 2) * W + W
      BY <3>1 DEF WordsDue, EvenLine
    <3> QED  BY <2>1, <2>2, <3>2, <1>4
  <2>4. CASE vc % 2 # 0
    <3>1. vc' % 2 = 0 /\ vc' \div 2 = (vc \div 2) + 1 /\ Capped((hc' + 1) \div 2) = 0
      BY <1>1, <1>6, <2>4 DEF Capped
    <3>2. WordsDue' = ((vc \div 2) + 1) * W + 0
      BY <3>1 DEF WordsDue, EvenLine, Capped
    <3>3. ((vc \div 2) + 1) * W = (vc \div 2) * W + W
      BY <1>1, <1>2, Times
    <3> QED  BY <2>1, <2>2, <3>2, <3>3, <1>2, <1>4
  <2> QED  BY <2>3, <2>4
<1>7. ~(vc = V_TOTAL - 1)
  BY Sizes DEF CountersTyped
<1> QED  BY <1>5, <1>6, <1>7, CoreMoves

LEMMA FirstDue ==
  ASSUME hc = 0, vc = 0
  PROVE  WordsDue = 0
BY Sizes DEF WordsDue, EvenLine, Capped
-----------------------------------------------------------------------------
(* The gate, at an edge that is no reset.                                     *)
LEMMA Gate ==
  ASSUME Typed, NEW test \in TestModes, Tick(test)
  PROVE  /\ vsync_d' = vsync /\ test \in BOOLEAN
         /\ read_start_armed' =>
              \/ read_start_armed /\ ~VsyncFall
              \/ ~read_start_armed /\ read_start_ready /\ vsync /\ vc >= V_ACTIVE
         /\ read_start_armed /\ ~VsyncFall => read_start_armed'
<1>1. vsync_d' = vsync /\ test \in BOOLEAN
  BY Levels DEF Tick, ReadStart
<1>2. read_start_armed' = IF ~read_start_armed /\ read_start_ready /\ InVerticalBlank
                            THEN TRUE ELSE read_start_armed /\ ~VsyncFall
  BY DEF Tick, ReadStart
<1> QED  BY <1>1, <1>2 DEF InVerticalBlank

(* In a frame under way the gate was open at the edge before as well, and     *)
(* nothing was missed at it.                                                  *)
LEMMA InStepBefore ==
  ASSUME Typed, NEW test \in TestModes, Tick(test), InStep', vc < V_ACTIVE
  PROVE  /\ InStep /\ ~VsyncFall
         /\ active => test = FALSE
         /\ hc < H_ACTIVE /\ vc % 2 = 0 /\ hc % 2 = 0 =>
              ~fifo_empty /\ rd_en_int(read_start_armed, test, fifo_empty)
<1>1. ~VsyncFall
  BY VsyncIs, Sizes DEF Typed, VsyncFall, CountersTyped
<1>2. ~(vc >= V_ACTIVE)
  BY Sizes DEF Typed, CountersTyped
<1>3. read_start_armed
  BY <1>2, Gate DEF InStep
<1>4. ~skipped /\ ~Missed(test)
  BY <1>1 DEF InStep, Tick
<1>5. active => test = FALSE
  BY <1>4, Gate DEF Missed
<1>6. ASSUME hc < H_ACTIVE, vc % 2 = 0, hc % 2 = 0
      PROVE  ~fifo_empty /\ rd_en_int(read_start_armed, test, fifo_empty)
  <2>1. active
    BY <1>6 DEF active
  <2>2. Due(read_start_armed)
    BY <2>1, <1>3, <1>6 DEF Due, EvenLine
  <2> QED  BY <2>1, <2>2, <1>4, <1>5 DEF Missed, rd_en_int
<1> QED  BY <1>1, <1>3, <1>4, <1>5, <1>6 DEF InStep

LEMMA ShutInSyncKept ==
  ASSUME Typed, ShutInSync, NEW test \in TestModes, Tick(test)
  PROVE  ShutInSync'
BY Gate DEF ShutInSync, VsyncFall

(* At the edge into the back porch, or in it, an open gate has been opened    *)
(* there.                                                                     *)
LEMMA BackPorchGate ==
  ASSUME Typed, ShutInSync, NEW test \in TestModes, Tick(test),
         read_start_armed', BackPorch'
  PROVE  BackPorch \/ ~read_start_armed
<1>1. CASE ~vsync
  BY <1>1, Gate DEF ShutInSync, VsyncFall
<1>2. CASE vsync
  <2>1. ~(vc >= V_ACTIVE + V_FP /\ vc < V_ACTIVE + V_FP + V_SYNC_W)
    BY <1>2, VsyncIs DEF Typed
  <2>2. vc' >= V_ACTIVE + V_FP + V_SYNC_W /\ CountersTyped /\ CoreEdge
    BY DEF BackPorch, Typed, Tick
  <2>3. vc >= V_ACTIVE + V_FP + V_SYNC_W
    BY <2>1, <2>2, CoreMoves, Sizes DEF CountersTyped
  <2> QED  BY <2>3 DEF BackPorch
<1> QED  BY <1>1, <1>2
-----------------------------------------------------------------------------
(* The FIFO as a run of words of the frame.                                   *)
LEMMA Pushed ==
  ASSUME NEW left \in Seq(Words), NEW n \in Nat, FifoTyped, Write(n, left)
  PROVE  /\ fifo' \in Seq(Words) /\ Len(fifo') = Len(left) + n
         /\ next' \in 0 .. FRAME_WORDS - 1 /\ frame' = frame
         /\ \A i \in 1 .. Len(left) : fifo'[i] = left[i]
         /\ \A j \in 1 .. n : fifo'[Len(left) + j] = Word(next + j - 1)
<1> DEFINE new == [i \in 1 .. n |-> Word(next + i - 1)]
<1>1. /\ FRAME_WORDS \in Nat /\ FRAME_WORDS > 0
      /\ Len(left) \in Nat /\ next \in Nat /\ frame \in {0, 1}
  BY WordInFrame DEF FifoTyped
<1>2. \A i \in 1 .. n : Word(next + i - 1) \in Words
  <2> TAKE i \in 1 .. n
  <2>1. next + i - 1 \in Nat
    BY <1>1
  <2>2. (next + i - 1) % FRAME_WORDS \in 0 .. FRAME_WORDS - 1
    BY <2>1, <1>1, ModIn
  <2> QED  BY <2>2, <1>1 DEF Word, Words
<1>3. new \in Seq(Words) /\ Len(new) = n
  BY <1>2
<1>4. fifo' = left \o new /\ frame' = frame
  BY DEF Write
<1>5. \A j \in 1 .. n : new[j] = Word(next + j - 1)
  OBVIOUS
<1> HIDE DEF new
<1>6. /\ left \o new \in Seq(Words)
      /\ Len(left \o new) = Len(left) + Len(new)
      /\ \A i \in 1 .. Len(left) : (left \o new)[i] = left[i]
      /\ \A j \in 1 .. Len(new) : (left \o new)[Len(left) + j] = new[j]
  BY <1>3
<1>7. next' \in 0 .. FRAME_WORDS - 1
  <2>1. next + n \in Nat  BY <1>1
  <2> QED  BY <2>1, <1>1, ModIn DEF Write
<1> QED  BY <1>3, <1>4, <1>5, <1>6, <1>7

LEMMA RunPushed ==
  ASSUME NEW left \in Seq(Words), NEW p \in Nat, NEW n \in Nat, FifoTyped,
         RunOf(left, p), Write(n, left)
  PROVE  HeadAt(p)'
<1>1. /\ FRAME_WORDS \in Nat /\ FRAME_WORDS > 0
      /\ Len(left) \in Nat /\ p + Len(left) \in Nat
  BY WordInFrame
<1>2. next = (p + Len(left)) % FRAME_WORDS
  BY DEF RunOf
<1>3. Len(fifo') = Len(left) + n /\ frame' = frame
  BY Pushed
<1>4. next' = (p + Len(fifo')) % FRAME_WORDS
  <2>1. next' = (((p + Len(left)) % FRAME_WORDS) + n) % FRAME_WORDS
    BY <1>2 DEF Write
  <2>2. (((p + Len(left)) % FRAME_WORDS) + n) % FRAME_WORDS
          = ((p + Len(left)) + n) % FRAME_WORDS
    BY <1>1, ModSum
  <2>3. p + (Len(left) + n) = (p + Len(left)) + n
    BY <1>1
  <2> QED  BY <2>1, <2>2, <2>3, <1>3
<1>5. \A i \in 1 .. Len(left) + n : fifo'[i] = Word(p + i - 1)
  <2> TAKE i \in 1 .. Len(left) + n
  <2>1. CASE i <= Len(left)
    <3>1. i \in 1 .. Len(left)
      BY <2>1, <1>1
    <3> QED  BY <3>1, Pushed DEF RunOf
  <2>2. CASE i > Len(left)
    <3>1. i - Len(left) \in 1 .. n
      BY <2>2, <1>1
    <3>2. PICK j \in 1 .. n : i = Len(left) + j
      BY <3>1, <1>1
    <3>3. fifo'[i] = Word(next + j - 1)
      BY <3>2, Pushed
    <3>4. (((p + Len(left)) % FRAME_WORDS) + (j - 1)) % FRAME_WORDS
            = ((p + Len(left)) + (j - 1)) % FRAME_WORDS
      BY <1>1, j - 1 \in Nat, ModSum
    <3>5. next \in Nat
      BY WordInFrame DEF FifoTyped
    <3>6. next + j - 1 = next + (j - 1) /\ (p + Len(left)) + (j - 1) = p + i - 1
      BY <3>2, <3>5, <1>1
    <3>7. (next + j - 1) % FRAME_WORDS = (p + i - 1) % FRAME_WORDS
      BY <3>4, <3>6, <1>2
    <3> QED  BY <3>3, <3>7 DEF Word
  <2> QED  BY <2>1, <2>2, <1>1
<1> QED  BY <1>3, <1>4, <1>5 DEF HeadAt, RunOf, Word

LEMMA RunPopped ==
  ASSUME NEW p \in Nat, FifoTyped, HeadAt(p), fifo # << >>
  PROVE  /\ Head(fifo) = Word(p) /\ Tail(fifo) \in Seq(Words)
         /\ Len(Tail(fifo)) = Len(fifo) - 1 /\ RunOf(Tail(fifo), p + 1)
<1>1. fifo \in Seq(Words) /\ Len(fifo) \in Nat /\ Len(fifo) > 0
  BY DEF FifoTyped
<1>2. Head(fifo) = fifo[1] /\ Tail(fifo) \in Seq(Words) /\ Len(Tail(fifo)) = Len(fifo) - 1
  BY <1>1
<1>3. \A i \in 1 .. Len(fifo) - 1 : Tail(fifo)[i] = fifo[i + 1]
  BY <1>1, <1>2
<1>4. /\ next = (p + Len(fifo)) % FRAME_WORDS
      /\ \A i \in 1 .. Len(fifo) : fifo[i] = Word(p + i - 1)
  BY DEF HeadAt, RunOf
<1>5. fifo[1] = Word(p)
  <2>1. p + 1 - 1 = p  OBVIOUS
  <2> QED  BY <2>1, <1>1, <1>4
<1>6. p + 1 + (Len(fifo) - 1) = p + Len(fifo)
  BY <1>1
<1>7. \A i \in 1 .. Len(fifo) - 1 : Tail(fifo)[i] = Word(p + 1 + i - 1)
  <2> TAKE i \in 1 .. Len(fifo) - 1
  <2>1. i + 1 \in 1 .. Len(fifo) /\ p + (i + 1) - 1 = p + 1 + i - 1
    BY <1>1
  <2> QED  BY <2>1, <1>3, <1>4
<1> QED  BY <1>2, <1>4, <1>5, <1>6, <1>7 DEF RunOf

(* The two ways of the FIFO at an edge: held in reset, or at work.            *)
Pop(test) == rd_en_int(read_start_armed, test, fifo_empty)
Left(test) == IF Pop(test) THEN Tail(fifo) ELSE fifo

LEMMA FifoMoves ==
  ASSUME FifoTyped, NEW test, Tick(test)
  PROVE  /\ rst_pulse_cnt_rd' \in Nat
         /\ \/ /\ rst_pulse_cnt_rd' # 0 /\ fifo' = << >> /\ unseen' = 0 /\ rd_data' = Black
               /\ IF VsyncFall THEN next' = 0 /\ frame' = 1 - frame
                  ELSE next' = next /\ frame' = frame /\ rst_pulse_cnt_rd # 0
            \/ /\ rst_pulse_cnt_rd' = 0 /\ ~VsyncFall
               /\ rd_data' = IF Pop(test) THEN Head(fifo) ELSE rd_data
               /\ \E n \in Amounts : Write(n, Left(test))
<1>1. Flush /\ Fifo(test)
  BY DEF Tick
<1>2. /\ rst_pulse_cnt_rd' \in Nat
      /\ VsyncFall => rst_pulse_cnt_rd' # 0
      /\ ~VsyncFall /\ rst_pulse_cnt_rd' # 0 => rst_pulse_cnt_rd # 0
  BY <1>1, Levels DEF Flush, FifoTyped
<1>3. CASE rst_pulse_cnt_rd' # 0
  BY <1>1, <1>2, <1>3 DEF Fifo, NewFrame
<1>4. CASE rst_pulse_cnt_rd' = 0
  BY <1>1, <1>2, <1>4 DEF Fifo, Pop, Left
<1> QED  BY <1>2, <1>3, <1>4

(* Only a word that is there is taken.                                        *)
LEMMA LeftTyped ==
  ASSUME FifoTyped, NEW test
  PROVE  /\ Left(test) \in Seq(Words) /\ Len(fifo) \in Nat
         /\ Pop(test) => fifo # << >> /\ Len(Left(test)) = Len(fifo) - 1
         /\ Pop(test) => unseen < Len(fifo) /\ Due(read_start_armed)
         /\ ~Pop(test) => Len(Left(test)) = Len(fifo)
<1>1. fifo \in Seq(Words) /\ Len(fifo) \in Nat /\ unseen \in Nat /\ unseen <= Len(fifo)
  BY DEF FifoTyped
<1>2. Pop(test) => Len(fifo) # unseen /\ Due(read_start_armed)
  BY DEF Pop, rd_en_int, fifo_empty
<1>3. Pop(test) => Len(fifo) > 0 /\ unseen < Len(fifo)
  BY <1>1, <1>2
<1>4. Len(fifo) > 0 => /\ fifo # << >> /\ Tail(fifo) \in Seq(Words)
                       /\ Len(Tail(fifo)) = Len(fifo) - 1
  BY <1>1
<1> QED  BY <1>1, <1>2, <1>3, <1>4 DEF Left

LEMMA AmountIs ==
  ASSUME NEW n \in Amounts
  PROVE  /\ n \in Nat /\ n <= MaxWords
         /\ n > 0 => Len(fifo) < FIFO_ALMOST_FULL_THRESH
<1>1. CASE Room
  BY <1>1, Levels DEF Amounts, Room
<1>2. CASE ~Room
  BY <1>2, Levels DEF Amounts
<1> QED  BY <1>1, <1>2

LEMMA FifoKept ==
  ASSUME FifoTyped, RoomLeft, NEW test, Tick(test)
  PROVE  FifoTyped' /\ RoomLeft'
<1>1. CASE rst_pulse_cnt_rd' # 0
  <2>1. /\ fifo' = << >> /\ unseen' = 0 /\ next' \in {0, next}
        /\ frame' \in {frame, 1 - frame} /\ rst_pulse_cnt_rd' \in Nat
    BY <1>1, FifoMoves
  <2> QED  BY <2>1, Levels, WordInFrame DEF FifoTyped, RoomLeft
<1>2. CASE rst_pulse_cnt_rd' = 0
  <2>1. PICK n \in Amounts : Write(n, Left(test))
    BY <1>2, FifoMoves
  <2>2. n \in Nat /\ n <= MaxWords /\ (n > 0 => Len(fifo) < FIFO_ALMOST_FULL_THRESH)
    BY AmountIs
  <2>3. /\ Left(test) \in Seq(Words) /\ Len(fifo) \in Nat /\ Len(Left(test)) <= Len(fifo)
        /\ Len(Left(test)) \in Nat /\ unseen <= Len(Left(test)) /\ unseen \in Nat
    BY LeftTyped DEF FifoTyped
  <2>4. /\ fifo' \in Seq(Words) /\ Len(fifo') = Len(Left(test)) + n
        /\ next' \in 0 .. FRAME_WORDS - 1 /\ frame' = frame
    BY <2>1, <2>2, <2>3, Pushed
  <2>5. unseen' \in Nat /\ unseen' <= unseen + n
    BY <2>1, <2>2, <2>3 DEF Write
  <2>6. unseen' <= Len(fifo') /\ Len(fifo') < FIFO_ALMOST_FULL_THRESH + MaxWords
    BY <2>2, <2>3, <2>4, <2>5, Levels DEF RoomLeft
  <2> QED  BY <1>2, <2>4, <2>5, <2>6 DEF FifoTyped, RoomLeft
<1> QED  BY <1>1, <1>2
-----------------------------------------------------------------------------
(* Which word is at the head.                                                 *)
LEMMA HeadMoves ==
  ASSUME FifoTyped, rst_pulse_cnt_rd # 0 => fifo = << >>, NEW test, Tick(test),
         ~VsyncFall, NEW p \in Nat, HeadAt(p)
  PROVE  IF Pop(test) THEN HeadAt(p + 1)' ELSE HeadAt(p)'
<1>1. CASE rst_pulse_cnt_rd' # 0
  <2>1. fifo' = fifo /\ next' = next /\ frame' = frame /\ fifo = << >>
    BY <1>1, FifoMoves
  <2>2. ~Pop(test)
    BY <2>1, LeftTyped
  <2> QED  BY <2>1, <2>2 DEF HeadAt, RunOf, Word
<1>2. CASE rst_pulse_cnt_rd' = 0
  <2>1. PICK n \in Amounts : Write(n, Left(test))
    BY <1>2, FifoMoves
  <2>2. n \in Nat
    BY AmountIs
  <2>3. CASE Pop(test)
    <3>1. Left(test) = Tail(fifo) /\ fifo # << >>
      BY <2>3, LeftTyped DEF Left
    <3>2. Left(test) \in Seq(Words) /\ RunOf(Left(test), p + 1)
      BY <3>1, RunPopped
    <3>3. p + 1 \in Nat
      OBVIOUS
    <3>4. HeadAt(p + 1)'
      BY <2>1, <2>2, <3>2, <3>3, RunPushed
    <3> QED  BY <2>3, <3>4
  <2>4. CASE ~Pop(test)
    <3>1. Left(test) \in Seq(Words) /\ RunOf(Left(test), p)
      BY <2>4, LeftTyped DEF Left, HeadAt
    <3>2. HeadAt(p)'
      BY <2>1, <2>2, <3>1, RunPushed
    <3> QED  BY <2>4, <3>2
  <2> QED  BY <2>3, <2>4
<1>3. rst_pulse_cnt_rd' = 0 \/ rst_pulse_cnt_rd' # 0
  OBVIOUS
<1> QED  BY <1>1, <1>2, <1>3

LEMMA HeadFlushed ==
  ASSUME fifo' = << >>, next' = 0
  PROVE  HeadAt(0)'
<1>1. 0 % FRAME_WORDS = 0
  BY WordInFrame, ModSmall
<1> QED  BY <1>1 DEF HeadAt, RunOf

LEMMA FifoAlignedKept ==
  ASSUME Typed, ShutInSync, FifoAligned, NEW test \in TestModes, Tick(test)
  PROVE  FifoAligned'
<1>1. FifoTyped /\ CountersTyped /\ CoreEdge /\ (rst_pulse_cnt_rd # 0 => fifo = << >>)
  BY DEF Typed, Tick, FifoAligned
<1>2. VsyncFall => HeadAt(0)'
  BY <1>1, FifoMoves, HeadFlushed
<1>3. ASSUME ~VsyncFall, HeadAt(0), ~Due(read_start_armed)
      PROVE  HeadAt(0)'
  <2>1. ~Pop(test)
    BY <1>1, <1>3, LeftTyped
  <2> QED  BY <1>1, <1>3, <2>1, HeadMoves
<1>4. ~read_start_armed' => HeadAt(0)'
  <2>1. CASE ~read_start_armed' /\ ~VsyncFall
    <3>1. ~read_start_armed
      BY <2>1, Gate
    <3>2. HeadAt(0) /\ ~Due(read_start_armed)
      BY <3>1 DEF FifoAligned, Due
    <3> QED  BY <2>1, <3>2, <1>3
  <2> QED  BY <2>1, <1>2
<1>5. ~(vc < V_ACTIVE) => ~Due(read_start_armed)
  BY DEF Due, active
<1>6. BackPorch => ~(vc < V_ACTIVE)
  BY <1>1, Sizes DEF BackPorch, CountersTyped
<1>7. read_start_armed' /\ BackPorch' => HeadAt(0)'
  <2>1. CASE read_start_armed' /\ BackPorch' /\ ~VsyncFall
    <3>1. BackPorch \/ ~read_start_armed
      BY <2>1, BackPorchGate
    <3>2. HeadAt(0)
      BY <3>1 DEF FifoAligned
    <3>3. ~Due(read_start_armed)
      BY <3>1, <1>5, <1>6 DEF Due
    <3> QED  BY <2>1, <3>2, <3>3, <1>3
  <2> QED  BY <2>1, <1>2
<1>8. InStep' /\ vc' < V_ACTIVE => HeadAt(WordsDue)'
  <2> SUFFICES ASSUME InStep', vc' < V_ACTIVE PROVE HeadAt(WordsDue)'
    OBVIOUS
  <2>0. PICK q : q = WordsDue'
    OBVIOUS
  <2>1. HeadAt(q)'
    <3>1. CASE vc < V_ACTIVE
      <4>1. InStep /\ ~VsyncFall
        BY <3>1, InStepBefore
      <4>2. PICK p \in Nat : p = WordsDue
        BY <1>1, <3>1, DueStep
      <4>3. HeadAt(p)
        BY <3>1, <4>1, <4>2 DEF FifoAligned
      <4>4. CASE hc < H_ACTIVE /\ vc % 2 = 0 /\ hc % 2 = 0
        <5>1. Pop(test)
          BY <3>1, <4>4, InStepBefore DEF Pop
        <5>2. HeadAt(p + 1)'
          BY <1>1, <4>1, <4>3, <5>1, HeadMoves
        <5>3. q = p + 1
          BY <2>0, <1>1, <3>1, <4>2, <4>4, DueStep
        <5> QED  BY <5>2, <5>3
      <4>5. CASE ~(hc < H_ACTIVE /\ vc % 2 = 0 /\ hc % 2 = 0)
        <5>1. ~Pop(test)
          BY <4>5 DEF Pop, rd_en_int, Due, active, EvenLine
        <5>2. HeadAt(p)'
          BY <1>1, <4>1, <4>3, <5>1, HeadMoves
        <5>3. q = p
          BY <2>0, <1>1, <3>1, <4>2, <4>5, DueStep
        <5> QED  BY <5>2, <5>3
      <4> QED  BY <4>4, <4>5
    <3>2. CASE ~(vc < V_ACTIVE)
      <4>1. hc' = 0 /\ vc' = 0 /\ BackPorch
        BY <1>1, <3>2, FrameEntered DEF BackPorch
      <4>2. q = 0
        BY <2>0, <4>1, Sizes DEF WordsDue, EvenLine, Capped
      <4>3. HeadAt(0)
        BY <4>1 DEF FifoAligned
      <4> QED  BY <3>2, <4>2, <4>3, <1>2, <1>3, <1>5
    <3> QED  BY <3>1, <3>2
  <2> QED  BY <2>0, <2>1 DEF HeadAt, RunOf
<1>9. rst_pulse_cnt_rd' # 0 => fifo' = << >>
  BY <1>1, FifoMoves
<1> QED  BY <1>4, <1>7, <1>8, <1>9 DEF FifoAligned
-----------------------------------------------------------------------------
(* The scaler.                                                                *)
LEMMA AskedKept ==
  ASSUME CountersTyped, FlagsTyped, NEW test \in TestModes, Tick(test)
  PROVE  AskedWhereDue'
<1> SUFFICES ASSUME rd_en_q'
             PROVE  /\ hc' % 2 = 1 /\ hc' < H_ACTIVE /\ vc' < V_ACTIVE /\ EvenLine'
                    /\ read_x_q' = hc' \div 2
  BY DEF AskedWhereDue
<1>1. rd_en_int(read_start_armed, test, fifo_empty) /\ read_x_q' = src_x /\ CoreEdge
  BY DEF Tick, IfaceEdge
<1>2. Due(read_start_armed)
  BY <1>1 DEF rd_en_int
<1>3. hc < H_ACTIVE /\ vc < V_ACTIVE /\ vc % 2 = 0 /\ hc % 2 = 0
  BY <1>2, DueIs DEF FlagsTyped
<1>4. hc \in Nat /\ W \in Nat /\ H_ACTIVE = W + W /\ H_ACTIVE + 2 < H_TOTAL
      /\ H_TOTAL \in Nat
  BY Sizes DEF CountersTyped
<1>5. hc' = hc + 1 /\ vc' = vc
  BY <1>1, <1>3, <1>4, CoreMoves
<1>6. hc + 1 < H_ACTIVE /\ (hc + 1) % 2 = 1 /\ (hc + 1) \div 2 = hc \div 2
  BY <1>3, <1>4
<1> QED  BY <1>1, <1>3, <1>5, <1>6 DEF EvenLine, src_x

LEMMA ActiveBeforeKept ==
  ASSUME CountersTyped, NEW test \in TestModes, Tick(test)
  PROVE  ActiveBefore'
<1> SUFFICES ASSUME active_d', hc' > 0 PROVE hc' <= H_ACTIVE /\ vc' < V_ACTIVE
  BY DEF ActiveBefore
<1>1. CoreEdge /\ active
  BY DEF Tick, IfaceEdge
<1>2. hc \in Nat /\ H_ACTIVE \in Nat /\ hc < H_ACTIVE /\ vc < V_ACTIVE
  BY <1>1, Sizes DEF active, CountersTyped
<1>3. hc' = hc + 1 /\ vc' = vc
  BY <1>1, CoreMoves
<1> QED  BY <1>2, <1>3

LEMMA PictureKept ==
  ASSUME FifoTyped, PictureTyped, CountersTyped, FlagsTyped,
         NEW test \in TestModes, Tick(test)
  PROVE  PictureTyped'
<1>1. IfaceEdge(read_start_armed, test, fifo_empty, rd_data)
  BY DEF Tick
<1>2. rd_data' \in Dots
  <2>1. CASE Pop(test)
    <3>1. fifo # << >> /\ fifo \in Seq(Words)
      BY <2>1, LeftTyped DEF FifoTyped
    <3>2. Head(fifo) \in Words
      BY <3>1
    <3> QED  BY <3>2, FifoMoves DEF PictureTyped, Dots
  <2>2. CASE ~Pop(test)
    BY <2>2, FifoMoves DEF PictureTyped, Dots
  <2> QED  BY <2>1, <2>2
<1>3. active => src_x \in 0 .. W - 1
  BY Sizes DEF active, src_x, CountersTyped
<1>4. read_x_q' \in 0 .. W - 1
  BY <1>1, <1>3 DEF IfaceEdge, rd_en_int, Due, PictureTyped
<1>5. line_buf' \in [0 .. W - 1 -> Dots] /\ fetch_pixel_q' \in Dots
  BY <1>1 DEF IfaceEdge, PictureTyped
<1>6. active => PixelNext \in Dots
  BY <1>3 DEF PixelNext, PictureTyped
<1>7. pixel' \in Dots
  BY <1>1, <1>6 DEF IfaceEdge, Dots
<1> QED  BY <1>2, <1>4, <1>5, <1>7 DEF PictureTyped

(* Along an even line, every pair of columns takes the next word, puts it     *)
(* into line_buf and shows the word before it.                                *)
LEMMA EvenGoesOn ==
  ASSUME Typed, FifoAligned, AskedWhereDue, EvenScaled, EvenLine,
         NEW test \in TestModes, Tick(test),
         InStep', vc < V_ACTIVE, hc' = hc + 1, vc' = vc, frame' = frame
  PROVE  EvenScaled'
<1>1. IfaceEdge(read_start_armed, test, fifo_empty, rd_data)
  BY DEF Tick
<1>2. /\ hc \in Nat /\ W \in Nat /\ W > 0 /\ H_ACTIVE = W + W /\ vc % 2 = 0
      /\ H_ACTIVE \in Nat
  BY Sizes DEF Typed, CountersTyped, EvenLine
<1>3. \A x : LineWord(x)' = LineWord(x)
  BY DEF LineWord
<1>4. ASSUME (hc + 1) % 2 = 1, hc + 1 < H_ACTIVE
      PROVE  rd_en_q' /\ rd_data' = LineWord((hc + 1) \div 2)
  <2>1. hc % 2 = 0 /\ hc < H_ACTIVE /\ (hc + 1) \div 2 = hc \div 2
    BY <1>2, <1>4
  <2>2. Pop(test) /\ InStep /\ ~VsyncFall
    BY <1>2, <2>1, InStepBefore DEF Pop
  <2>3. rd_en_q'
    BY <1>1, <2>2 DEF IfaceEdge, Pop
  <2>4. fifo # << >>
    BY <2>2, LeftTyped DEF Typed
  <2>5. rd_data' = Head(fifo)
    BY <2>2, <2>4, FifoMoves DEF FifoAligned, Typed
  <2>6. PICK p \in 0 .. FRAME_WORDS - 1 : p = WordsDue /\ p = (vc \div 2) * W + (hc \div 2)
    BY <1>2, <2>1, DuePlace DEF Typed
  <2>7. HeadAt(p)
    BY <2>2, <2>6 DEF FifoAligned
  <2>8. p \in Nat /\ p < FRAME_WORDS /\ FRAME_WORDS \in Nat
    BY <2>6, WordInFrame
  <2>9. Head(fifo) = Word(p)
    BY <2>4, <2>7, <2>8, RunPopped DEF Typed
  <2>10. Word(p) = <<frame, p>>
    BY <2>8, ModSmall DEF Word
  <2> QED  BY <2>1, <2>3, <2>5, <2>6, <2>9, <2>10 DEF LineWord
<1>5. ASSUME hc % 2 = 1, hc < H_ACTIVE
      PROVE  rd_en_q /\ rd_data = LineWord(hc \div 2) /\ read_x_q = hc \div 2
  BY <1>5 DEF EvenScaled, AskedWhereDue
<1>6. rd_en_q => hc % 2 = 1 /\ hc < H_ACTIVE /\ read_x_q = hc \div 2
  BY DEF AskedWhereDue
<1>7. ASSUME NEW x \in 0 .. W - 1, x < (hc + 1) \div 2
      PROVE  line_buf'[x] = LineWord(x)
  <2>1. line_buf \in [0 .. W - 1 -> Dots]
    BY DEF Typed, PictureTyped
  <2>2. line_buf' = IF rd_en_q THEN [line_buf EXCEPT ![read_x_q] = rd_data] ELSE line_buf
    BY <1>1 DEF IfaceEdge
  <2>3. CASE x < hc \div 2
    <3>1. line_buf[x] = LineWord(x)
      BY <2>3 DEF EvenScaled
    <3>2. rd_en_q => read_x_q # x
      BY <1>2, <1>6, <2>3
    <3> QED  BY <2>1, <2>2, <3>1, <3>2
  <2>4. CASE ~(x < hc \div 2)
    <3>1. x = hc \div 2 /\ hc % 2 = 1 /\ hc < H_ACTIVE
      BY <1>2, <1>7, <2>4
    <3> QED  BY <2>1, <2>2, <3>1, <1>5
  <2> QED  BY <2>3, <2>4
<1>8. ASSUME hc + 1 \in 2 .. H_ACTIVE + 1
      PROVE  fetch_pixel_q' = LineWord(((hc + 1) \div 2) - 1)
  <2>1. fetch_pixel_q' = IF rd_en_q THEN rd_data ELSE fetch_pixel_q
    BY <1>1 DEF IfaceEdge
  <2>2. CASE hc % 2 = 1
    <3>1. hc < H_ACTIVE /\ ((hc + 1) \div 2) - 1 = hc \div 2
      BY <1>2, <1>8, <2>2
    <3> QED  BY <2>1, <2>2, <3>1, <1>5
  <2>3. CASE hc % 2 # 1
    <3>1. hc \in 2 .. H_ACTIVE + 1 /\ (hc + 1) \div 2 = hc \div 2
      BY <1>2, <1>8, <2>3
    <3>2. ~rd_en_q
      BY <2>3, <1>6
    <3> QED  BY <2>1, <3>1, <3>2 DEF EvenScaled
  <2> QED  BY <2>2, <2>3
<1>9. ASSUME hc + 1 \in 3 .. H_ACTIVE
      PROVE  pixel' = LineWord(((hc + 1) - 3) \div 2)
  <2>1. hc \in 2 .. H_ACTIVE + 1 /\ hc < H_ACTIVE /\ ((hc + 1) - 3) \div 2 = (hc \div 2) - 1
    BY <1>2, <1>9
  <2>2. active /\ test = FALSE
    BY <2>1, InStepBefore DEF active
  <2>3. pixel' = fetch_pixel_q
    BY <1>1, <2>2 DEF IfaceEdge, PixelNext
  <2> QED  BY <2>1, <2>3 DEF EvenScaled
<1> QED  BY <1>3, <1>4, <1>7, <1>8, <1>9 DEF EvenScaled

(* Along an odd line, line_buf is shown and stays as it is.                   *)
LEMMA OddGoesOn ==
  ASSUME Typed, AskedWhereDue, OddScaled, ~EvenLine,
         NEW test \in TestModes, Tick(test),
         InStep', vc < V_ACTIVE, hc' = hc + 1, vc' = vc, frame' = frame
  PROVE  OddScaled'
<1>1. IfaceEdge(read_start_armed, test, fifo_empty, rd_data)
  BY DEF Tick
<1>2. /\ hc \in Nat /\ W \in Nat /\ W > 0 /\ H_ACTIVE = W + W /\ H_ACTIVE \in Nat
  BY Sizes DEF Typed, CountersTyped
<1>3. \A x : LineWord(x)' = LineWord(x)
  BY DEF LineWord
<1>4. line_buf' = line_buf
  BY <1>1 DEF IfaceEdge, AskedWhereDue
<1>5. ASSUME hc + 1 \in 1 .. H_ACTIVE
      PROVE  pixel' = LineWord(((hc + 1) - 1) \div 2)
  <2>1. hc < H_ACTIVE /\ hc \div 2 \in 0 .. W - 1 /\ ((hc + 1) - 1) \div 2 = hc \div 2
    BY <1>2, <1>5
  <2>2. active /\ test = FALSE
    BY <2>1, InStepBefore DEF active
  <2>3. pixel' = line_buf[hc \div 2]
    BY <1>1, <2>2 DEF IfaceEdge, PixelNext, src_x
  <2> QED  BY <2>1, <2>3 DEF OddScaled
<1> QED  BY <1>3, <1>4, <1>5 DEF OddScaled

LEMMA ScaledKept ==
  ASSUME Typed, FifoAligned, AskedWhereDue, Scaled,
         NEW test \in TestModes, Tick(test)
  PROVE  Scaled'
<1> SUFFICES ASSUME InStep', vc' < V_ACTIVE
             PROVE  IF EvenLine' THEN EvenScaled' ELSE OddScaled'
  BY DEF Scaled
<1>1. /\ CountersTyped /\ CoreEdge
      /\ IfaceEdge(read_start_armed, test, fifo_empty, rd_data)
  BY DEF Typed, Tick
<1>2. /\ hc \in Nat /\ vc \in Nat /\ W \in Nat /\ W > 0 /\ H_ACTIVE = W + W
      /\ H_ACTIVE \in Nat /\ H_ACTIVE + 2 < H_TOTAL /\ H_TOTAL \in Nat
  BY Sizes DEF Typed, CountersTyped
<1>3. ASSUME hc' = 0, EvenLine'
      PROVE  EvenScaled'
  <2>1. ~(0 % 2 = 1) /\ ~(0 \in 2 .. H_ACTIVE + 1) /\ ~(0 \in 3 .. H_ACTIVE)
    BY <1>2
  <2>2. \A x \in 0 .. W - 1 : ~(x < 0 \div 2)
    BY <1>2
  <2> QED  BY <1>3, <2>1, <2>2 DEF EvenScaled
<1>4. CASE ~(vc < V_ACTIVE)
  <2>1. hc' = 0 /\ vc' = 0
    BY <1>1, <1>4, FrameEntered
  <2>2. EvenLine'
    BY <2>1 DEF EvenLine
  <2> QED  BY <2>1, <2>2, <1>3
<1>5. CASE vc < V_ACTIVE
  <2>1. InStep /\ ~VsyncFall
    BY <1>5, InStepBefore
  <2>2. IF EvenLine THEN EvenScaled ELSE OddScaled
    BY <1>5, <2>1 DEF Scaled
  <2>3. frame' = frame
    <3>1. CASE rst_pulse_cnt_rd' # 0
      BY <2>1, <3>1, FifoMoves DEF Typed
    <3>2. CASE rst_pulse_cnt_rd' = 0
      BY <3>2, FifoMoves DEF Write, Typed
    <3> QED  BY <3>1, <3>2
  <2>4. CASE hc' = hc + 1 /\ vc' = vc
    <3>1. EvenLine' = EvenLine
      BY <2>4 DEF EvenLine
    <3> QED  BY <1>5, <2>2, <2>3, <2>4, <3>1, EvenGoesOn, OddGoesOn
  <2>5. CASE hc = H_TOTAL - 1 /\ hc' = 0 /\ vc' = vc + 1
    <3>1. CASE EvenLine'
      BY <2>5, <3>1, <1>3
    <3>2. CASE ~EvenLine'
      <4>1. vc % 2 = 0 /\ vc' \div 2 = vc \div 2
        BY <1>2, <2>5, <3>2 DEF EvenLine
      <4>2. ~(hc < H_ACTIVE) /\ \A x \in 0 .. W - 1 : x < hc \div 2
        BY <1>2, <2>5
      <4>3. line_buf' = line_buf
        BY <1>1, <4>2 DEF IfaceEdge, AskedWhereDue
      <4>4. \A x : LineWord(x)' = LineWord(x)
        BY <2>3, <4>1 DEF LineWord
      <4>5. \A x \in 0 .. W - 1 : line_buf[x] = LineWord(x)
        BY <2>2, <4>1, <4>2 DEF EvenLine, EvenScaled
      <4>6. ~(hc' \in 1 .. H_ACTIVE)
        BY <2>5, <1>2
      <4> QED  BY <3>2, <4>3, <4>4, <4>5, <4>6 DEF OddScaled
    <3> QED  BY <3>1, <3>2
  <2>6. ~(vc = V_TOTAL - 1)
    BY <1>5, Sizes DEF Typed, CountersTyped
  <2> QED  BY <1>1, <2>4, <2>5, <2>6, CoreMoves
<1> QED  BY <1>4, <1>5
-----------------------------------------------------------------------------
(* The level behind the gate: the reader sees no more than there is, and a    *)
(* word once seen stays seen until it is taken.                               *)
LEMMA LevelIs ==
  ASSUME FifoTyped, RoomLeft, ~VsyncFall
  PROVE  fifo_usedw = Len(fifo) - unseen
<1>1. /\ Len(fifo) - unseen \in Nat /\ Len(fifo) - unseen < DEPTH /\ DEPTH \in Nat
  BY Levels DEF FifoTyped, RoomLeft
<1>2. (Len(fifo) - unseen) % DEPTH = Len(fifo) - unseen
  BY <1>1, ModSmall
<1> QED  BY <1>2 DEF fifo_usedw

LEMMA ReadyKept ==
  ASSUME Typed, RoomLeft, FifoAligned, ReadyIsFilled, NEW test \in TestModes, Tick(test)
  PROVE  ReadyIsFilled'
<1> SUFFICES ASSUME USE_VENDOR_FIFO', read_start_ready', ~read_start_armed', ~VsyncFall',
                    vc' >= V_ACTIVE + V_FP
             PROVE  Len(fifo') - unseen' >= START_FILL_LEVEL
  BY DEF ReadyIsFilled
<1>1. /\ USE_VENDOR_FIFO /\ FifoTyped /\ CountersTyped /\ CoreEdge /\ vsync_d' = vsync
      /\ fifo_usedw >= START_FILL_LEVEL \/ (read_start_ready /\ ~VsyncFall)
  BY DEF Tick, setting, ReadStart, StillReady, Typed
<1>2. ~VsyncFall
  <2> SUFFICES ASSUME VsyncFall PROVE FALSE  OBVIOUS
  <2>1. fifo_usedw = 0
    BY <1>1 DEF fifo_usedw
  <2> QED  BY <1>1, <2>1, Levels
<1>3. ~read_start_armed
  BY <1>2, Gate
<1>4. vc >= V_ACTIVE + V_FP
  <2> SUFFICES ASSUME ~(vc >= V_ACTIVE + V_FP) PROVE FALSE  OBVIOUS
  <2>1. vc' = V_ACTIVE + V_FP
    BY <1>1, CoreMoves, Sizes DEF CountersTyped
  <2>2. vsync /\ ~vsync'
    <3>1. vsync
      BY <1>1, VsyncIs, Sizes DEF CountersTyped
    <3>2. vc' - V_ACTIVE - V_FP = 0 /\ 0 \in 0 .. V_SYNC_W - 1
      BY <2>1, Sizes
    <3>3. ~vsync'
      BY <3>2 DEF vsync
    <3> QED  BY <3>1, <3>3
  <2> QED  BY <2>2, <1>1 DEF VsyncFall
<1>5. Len(fifo) - unseen >= START_FILL_LEVEL
  <2>1. CASE fifo_usedw >= START_FILL_LEVEL
    BY <1>1, <1>2, <2>1, LevelIs
  <2>2. CASE read_start_ready
    BY <1>1, <1>2, <1>3, <1>4, <2>2 DEF ReadyIsFilled
  <2> QED  BY <1>1, <2>1, <2>2
<1>6. Len(fifo) \in Nat /\ unseen \in Nat
  BY <1>1 DEF FifoTyped
<1>7. fifo # << >>
  BY <1>5, <1>6, Levels
<1>8. rst_pulse_cnt_rd' = 0
  BY <1>1, <1>2, <1>7, FifoMoves DEF FifoAligned
<1>9. ~Pop(test)
  BY <1>3 DEF Pop, rd_en_int, Due
<1>10. PICK n \in Amounts : Write(n, Left(test))
  BY <1>1, <1>8, FifoMoves
<1>11. n \in Nat
  BY AmountIs
<1>12. unseen' \in 0 .. IF prompt THEN n ELSE unseen + n
  BY <1>10 DEF Write
<1>13. unseen' \in Nat /\ unseen' <= unseen + n
  BY <1>6, <1>11, <1>12
<1>14. Left(test) \in Seq(Words) /\ Len(Left(test)) = Len(fifo)
  BY <1>1, <1>9, LeftTyped
<1>15. Len(fifo') = Len(fifo) + n
  BY <1>1, <1>10, <1>11, <1>14, Pushed
<1> QED  BY <1>5, <1>6, <1>11, <1>13, <1>15, Levels

LEMMA FlagsKept ==
  ASSUME Typed, NEW test \in TestModes, Tick(test)
  PROVE  FlagsTyped'
<1>1. IfaceEdge(read_start_armed, test, fifo_empty, rd_data) /\ test \in BOOLEAN
  BY Levels DEF Tick
<1>2. rd_en_q' \in BOOLEAN /\ active_d' \in BOOLEAN
  BY <1>1 DEF IfaceEdge, rd_en_int, Due, active
<1>3. /\ read_start_armed' \in BOOLEAN /\ read_start_ready' \in BOOLEAN
      /\ vsync_d' \in BOOLEAN
  BY DEF Tick, ReadStart, StillReady, Typed, FlagsTyped, vsync
<1>4. skipped' \in BOOLEAN
  BY DEF Tick, Missed
<1>5. streaming' \in BOOLEAN
  <2>1. CASE rst_pulse_cnt_rd' # 0
    BY <2>1 DEF Tick, Fifo, NewFrame, Typed, FlagsTyped
  <2>2. CASE rst_pulse_cnt_rd' = 0
    BY <2>2 DEF Tick, Fifo, Write, Typed, FlagsTyped
  <2> QED  BY <2>1, <2>2
<1>6. USE_VENDOR_FIFO' \in BOOLEAN /\ prompt' \in BOOLEAN
  BY DEF Tick, setting, Typed, FlagsTyped
<1> QED  BY <1>2, <1>3, <1>4, <1>5, <1>6 DEF FlagsTyped
-----------------------------------------------------------------------------
LEMMA InitInv == Init => IInv
<1> SUFFICES ASSUME Init PROVE IInv  OBVIOUS
<1> USE DEF Init, CoreInit, IfaceInit
<1>1. CountersTyped
  BY Sizes DEF CountersTyped
<1>2. FlagsTyped
  BY Levels DEF FlagsTyped
<1>3. FifoTyped
  BY WordInFrame DEF FifoTyped
<1>4. PictureTyped
  BY Sizes DEF PictureTyped, Dots
<1>5. RoomLeft
  BY Levels DEF RoomLeft
<1>6. HeadAt(0)
  <2>1. 0 % FRAME_WORDS = 0
    BY WordInFrame, ModSmall
  <2> QED  BY <2>1 DEF HeadAt, RunOf
<1>7. FifoAligned
  BY <1>6 DEF FifoAligned, InStep
<1>8. ShutInSync /\ AskedWhereDue /\ ActiveBefore /\ Scaled /\ ReadyIsFilled
  BY DEF ShutInSync, AskedWhereDue, ActiveBefore, Scaled, InStep, ReadyIsFilled
<1> QED  BY <1>1, <1>2, <1>3, <1>4, <1>5, <1>7, <1>8 DEF IInv, Typed

LEMMA TickKept ==
  ASSUME IInv, NEW test \in TestModes, Tick(test)
  PROVE  IInv'
<1>1. /\ Typed /\ RoomLeft /\ ShutInSync /\ FifoAligned /\ AskedWhereDue
      /\ ActiveBefore /\ Scaled /\ ReadyIsFilled
  BY DEF IInv
<1>2. CountersTyped /\ FlagsTyped /\ FifoTyped /\ PictureTyped /\ CoreEdge
  BY <1>1 DEF Typed, Tick
<1>3. CountersTyped' /\ FlagsTyped' /\ FifoTyped' /\ RoomLeft' /\ PictureTyped'
  BY <1>1, <1>2, CountersKept, FlagsKept, FifoKept, PictureKept
<1>4. ShutInSync' /\ FifoAligned' /\ AskedWhereDue' /\ ActiveBefore'
  BY <1>1, <1>2, ShutInSyncKept, FifoAlignedKept, AskedKept, ActiveBeforeKept
<1>5. Scaled' /\ ReadyIsFilled'
  BY <1>1, ScaledKept, ReadyKept
<1> QED  BY <1>3, <1>4, <1>5 DEF IInv, Typed

(* A reset shuts the gate and empties the FIFO; the display starts anew.      *)
LEMMA ResetKept ==
  ASSUME IInv, Reset
  PROVE  IInv'
<1> USE DEF Reset, CoreReset, IfaceReset
<1>1. CountersTyped'
  BY Sizes DEF CountersTyped
<1>2. FlagsTyped'
  BY DEF FlagsTyped, IInv, Typed, setting
<1>3. FifoTyped'
  BY WordInFrame DEF FifoTyped, IInv, Typed
<1>4. PictureTyped'
  BY Sizes DEF PictureTyped, Dots, IInv, Typed
<1>5. RoomLeft'
  BY Levels DEF RoomLeft
<1>6. HeadAt(0)'
  BY HeadFlushed
<1>7. FifoAligned'
  BY <1>6 DEF FifoAligned, InStep
<1>8. ShutInSync' /\ AskedWhereDue' /\ ActiveBefore' /\ Scaled' /\ ReadyIsFilled'
  BY DEF ShutInSync, AskedWhereDue, ActiveBefore, Scaled, InStep, ReadyIsFilled
<1> QED  BY <1>1, <1>2, <1>3, <1>4, <1>5, <1>7, <1>8 DEF IInv, Typed

LEMMA StillKept ==
  ASSUME IInv, UNCHANGED vars
  PROVE  IInv'
<1> USE DEF vars, ifaceVars, startVars, fifoVars, setting
<1>1. Typed'
  BY DEF IInv, Typed, CountersTyped, FlagsTyped, FifoTyped, PictureTyped
<1>2. RoomLeft' /\ ShutInSync' /\ FifoAligned'
  BY DEF IInv, RoomLeft, ShutInSync, vsync, FifoAligned, HeadAt, RunOf, Word, InStep, BackPorch,
         WordsDue, EvenLine
<1>3. AskedWhereDue' /\ ActiveBefore' /\ Scaled'
  BY DEF IInv, AskedWhereDue, ActiveBefore, Scaled, EvenScaled, OddScaled, LineWord, InStep,
         EvenLine
<1>4. ReadyIsFilled'
  BY DEF IInv, ReadyIsFilled, VsyncFall, vsync
<1> QED  BY <1>1, <1>2, <1>3, <1>4 DEF IInv

(* The gate, the FIFO and the scaler keep in step with the display.           *)
THEOREM Inductive == Spec => []IInv
<1>1. IInv /\ [Next]_vars => IInv'
  BY TickKept, ResetKept, StillKept DEF Next
<1> QED  BY <1>1, InitInv, PTL DEF Spec

(* Every word read is the one of the place where the display is: a frame      *)
(* starts with its first word at (0, 0) and takes each word once (rd_en_int). *)
THEOREM FramesAlign == Spec => []FrameAligned
<1>1. IInv => FrameAligned
  <2> SUFFICES ASSUME IInv, InStep, Due(read_start_armed), ~fifo_empty
               PROVE  Head(fifo) = WordAt(hc)
    BY DEF FrameAligned
  <2>1. CountersTyped /\ FifoTyped /\ read_start_armed \in BOOLEAN
    BY DEF IInv, Typed, FlagsTyped
  <2>2. hc < H_ACTIVE /\ vc < V_ACTIVE /\ vc % 2 = 0 /\ hc % 2 = 0
    BY <2>1, DueIs
  <2>3. PICK p \in 0 .. FRAME_WORDS - 1 : p = WordsDue /\ p = (vc \div 2) * W + (hc \div 2)
    BY <2>1, <2>2, DuePlace
  <2>4. HeadAt(p)
    BY <2>2, <2>3 DEF IInv, FifoAligned
  <2>5. fifo # << >>
    BY <2>1 DEF FifoTyped, fifo_empty
  <2>6. p \in Nat /\ p < FRAME_WORDS /\ FRAME_WORDS \in Nat
    BY <2>3, WordInFrame
  <2>7. Head(fifo) = Word(p) /\ Word(p) = <<frame, p>>
    BY <2>1, <2>4, <2>5, <2>6, RunPopped, ModSmall DEF Word
  <2> QED  BY <2>3, <2>7 DEF WordAt
<1> QED  BY <1>1, Inductive, PTL

(* Every pixel shows the word of its place on the odd lines, and that of the  *)
(* pair of columns to the left of it on the even ones (fetch_pixel_q).        *)
THEOREM PictureIsShown == Spec => []PictureShown
<1>1. IInv => PictureShown
  <2> SUFFICES ASSUME IInv, Shown
               PROVE  /\ ~EvenLine => pixel = WordAt(hc - 1)
                      /\ EvenLine /\ hc > 2 => pixel = WordAt(hc - 3)
    BY DEF PictureShown
  <2>1. hc <= H_ACTIVE /\ vc < V_ACTIVE /\ hc > 0 /\ hc \in Nat /\ H_ACTIVE \in Nat
    BY Sizes DEF IInv, Shown, ActiveBefore, Typed, CountersTyped
  <2>2. IF EvenLine THEN EvenScaled ELSE OddScaled
    BY <2>1 DEF IInv, Scaled, Shown
  <2>3. hc \in 1 .. H_ACTIVE /\ (hc > 2 => hc \in 3 .. H_ACTIVE)
    BY <2>1
  <2> QED  BY <2>2, <2>3 DEF EvenScaled, OddScaled, LineWord, WordAt
<1> QED  BY <1>1, Inductive, PTL

(* The FIFO never comes near its depth, and with the vendor FIFO the gate     *)
(* opens only on words that came in after the flush (p_read_start).           *)
THEOREM StartIsFilled == Spec => StartsFilled
<1>1. IInv => Len(fifo) < DEPTH
  BY Levels DEF IInv, RoomLeft, Typed, FifoTyped
<1>2. IInv /\ [Next]_vars =>
        [USE_VENDOR_FIFO /\ ~read_start_armed /\ read_start_armed'
           /\ vc >= V_ACTIVE + V_FP => fifo_usedw >= START_FILL_LEVEL]_vars
  <2> SUFFICES ASSUME IInv, Next, USE_VENDOR_FIFO, ~read_start_armed, read_start_armed',
                      vc >= V_ACTIVE + V_FP
               PROVE  fifo_usedw >= START_FILL_LEVEL
    OBVIOUS
  <2>1. PICK test \in TestModes : Tick(test)
    BY DEF Next, Reset
  <2>2. read_start_ready /\ ~VsyncFall
    BY <2>1, Gate DEF IInv, VsyncFall
  <2>3. Len(fifo) - unseen >= START_FILL_LEVEL
    BY <2>2 DEF IInv, ReadyIsFilled
  <2> QED  BY <2>2, <2>3, LevelIs DEF IInv, Typed
<1> QED  BY <1>1, <1>2, Inductive, PTL DEF StartsFilled, Spec
============================================================================
