------------------------ MODULE SdramSubsystemProofs ------------------------
(* The properties of the arbiter on its own, with every input free, and of    *)
(* the frame store it makes with the controller and the camera FIFO, for      *)
(* every burst length and every frame size.                                   *)
EXTENDS SdramSubsystemProps, SdramArbiter, TLAPS

(* Where a burst may begin there is room for a whole burst before the end of  *)
(* the frame, and the next burst may begin right after it or there is no      *)
(* next one.  The pointers of the arbiter rest on this.                       *)
LEMMA BurstFits ==
  ASSUME NEW p \in Offsets
  PROVE  /\ p \in Nat /\ p + Burst <= FRAME_PIXELS /\ 0 \in Offsets
         /\ p + Burst < FRAME_PIXELS => p + Burst \in Offsets
<1>1. PICK k \in 0 .. FrameBursts - 1 : p = k * Burst
  BY DEF Offsets
<1>2. Burst \in Nat /\ Burst > 1 /\ FrameBursts \in Nat /\ k \in Nat
  BY GeometryAssumption
<1>3. p \in Nat /\ p + Burst = (k + 1) * Burst
  BY <1>1, <1>2
<1>4. k + 1 <= FrameBursts
  BY <1>2
<1>5. (k + 1) * Burst <= FrameBursts * Burst
  BY <1>2, <1>4
<1>6. p + Burst < FRAME_PIXELS => k + 1 \in 0 .. FrameBursts - 1
  BY <1>2, <1>3, <1>4 DEF FRAME_PIXELS
<1>7. 0 \in Offsets
  <2>1. 0 \in 0 .. FrameBursts - 1 /\ 0 = 0 * Burst
    BY <1>2, GeometryAssumption
  <2> QED  BY <2>1 DEF Offsets
<1> QED
  BY <1>3, <1>5, <1>6, <1>7 DEF Offsets, FRAME_PIXELS

(* Both addresses the arbiter sends are starts of bursts.                     *)
LEMMA AddressOfOffset ==
  ASSUME NEW bank \in {0, 1}, NEW p \in Offsets
  PROVE  BurstAddress(Base(bank) + p) /\ Base(bank) + p \in Nat
<1>1. p \in Nat /\ FRAME_PIXELS \in Nat
  BY BurstFits, GeometryAssumption DEF FRAME_PIXELS
<1>2. Base(bank) \in Nat
  BY <1>1 DEF Base, BANK_WORDS
<1> QED  BY <1>1, <1>2 DEF BurstAddress

THEOREM InitIInv == IfInit => IInv
<1> SUFFICES ASSUME IfInit PROVE IInv  OBVIOUS
<1>1. 0 \in Offsets
  <2>1. 0 \in 0 .. FrameBursts - 1 /\ 0 = 0 * Burst  BY GeometryAssumption
  <2> QED  BY <2>1 DEF Offsets
<1>2. ArbiterTypeOK
  <2>1. wr_data_latch \in [1 .. Burst -> Words \cup {NoWord}]
    BY DEF IfInit
  <2>2. 0 \in 0 .. Burst - 1  BY GeometryAssumption
  <2> QED  BY <1>1, <2>1, <2>2 DEF IfInit, ArbiterTypeOK, States
<1>3. AddressesInRange
  <2>1. BurstAddress(0)
    <3>1. Base(0) = 0  BY GeometryAssumption DEF Base, BANK_WORDS, FRAME_PIXELS
    <3>2. BurstAddress(Base(0) + 0)  BY <1>1, AddressOfOffset
    <3> QED  BY <3>1, <3>2
  <2>2. BurstAddress(RdAddr)
    BY <1>2, AddressOfOffset DEF ArbiterTypeOK, RdAddr
  <2> QED  BY <2>1, <2>2 DEF IfInit, AddressesInRange
<1> QED
  BY <1>2, <1>3 DEF IfInit, IInv, BanksApart, PopsAreCaptured

(* A reset leads back to the initial values.                                  *)
LEMMA ResetIInv == IfReset => IInv'
<1>1. IfReset => IfInit'  BY DEF IfReset, IfInit
<1> QED  BY <1>1, InitIInv, PTL

(* The invariant, taken apart by the registers an edge assigns together.      *)
BanksPart ==
  /\ write_bank \in {0, 1} /\ read_bank \in {0, 1}
  /\ new_frame_ready \in BOOLEAN /\ read_frame_valid \in BOOLEAN
  /\ frame_done_d \in BOOLEAN /\ vsync_d \in BOOLEAN
  /\ BanksApart
WritePart ==
  /\ wr_ptr \in Offsets /\ wr_burst_cnt \in 0 .. Burst - 1
  /\ wr_data_latch \in [1 .. Burst -> Words \cup {NoWord}]
  /\ wr_addr_latch \in Nat /\ BurstAddress(wr_addr_latch)
ReadPart ==
  /\ rd_ptr \in Offsets /\ rd_burst_cnt \in 0 .. Burst - 1
  /\ vga_wr_pending \in BOOLEAN /\ vga_wr_data_hold \in Words \cup {NoWord}
OutPart == vga_wr_en \in BOOLEAN /\ vga_wr_data \in Words \cup {NoWord}
ControlPart ==
  /\ state \in States
  /\ wr_req \in BOOLEAN /\ rd_req \in BOOLEAN /\ cam_rd \in BOOLEAN
  /\ cam_rd_pending \in BOOLEAN
  /\ PopsAreCaptured
Parts == BanksPart /\ WritePart /\ ReadPart /\ OutPart /\ ControlPart

LEMMA IInvParts == IInv <=> Parts
<1> USE DEF Parts, BanksPart, WritePart, ReadPart, OutPart, ControlPart
<1>1. IInv => Parts
  BY DEF IInv, ArbiterTypeOK, AddressesInRange
<1>2. Parts => IInv
  <2> SUFFICES ASSUME Parts PROVE IInv  OBVIOUS
  <2>1. BurstAddress(RdAddr)
    BY AddressOfOffset DEF RdAddr
  <2> QED  BY <2>1 DEF IInv, ArbiterTypeOK, AddressesInRange
<1> QED  BY <1>1, <1>2

(* The banks: frame_done and vsync may come together.                         *)
LEMMA BanksStep ==
  ASSUME BanksPart, NEW in \in AnyInputs, ShownBeforeNext(in), Banks(in)
  PROVE  BanksPart'
<1>1. in.frame_done \in BOOLEAN /\ in.vsync \in BOOLEAN
  BY DEF AnyInputs
<1>2. /\ frame_done_d' \in BOOLEAN /\ vsync_d' \in BOOLEAN
      /\ new_frame_ready' \in BOOLEAN /\ read_frame_valid' \in BOOLEAN
  BY <1>1 DEF BanksPart, Banks
<1>3. CASE Swap(in)
  <2>1. ~FrameDone(in)
    BY <1>3 DEF Swap, ShownBeforeNext
  <2>2. write_bank' = write_bank /\ read_bank' = 1 - write_bank
        /\ ~new_frame_ready'
    BY <1>3, <2>1 DEF Banks, FinishedBank
  <2>3. write_bank' \in {0, 1} /\ read_bank' \in {0, 1}
        /\ read_bank' # write_bank'
    BY <2>2 DEF BanksPart
  <2> QED  BY <1>2, <2>2, <2>3 DEF BanksPart, BanksApart
<1>4. CASE ~Swap(in) /\ FrameDone(in)
  <2>1. ~new_frame_ready
    BY <1>4 DEF ShownBeforeNext
  <2>2. write_bank' = 1 - write_bank /\ read_bank' = read_bank
        /\ new_frame_ready'
    BY <1>4 DEF Banks, FinishedBank
  <2>3. write_bank' \in {0, 1} /\ read_bank' \in {0, 1}
        /\ read_bank' = write_bank'
    BY <2>1, <2>2 DEF BanksPart, BanksApart
  <2> QED  BY <1>2, <2>2, <2>3 DEF BanksPart, BanksApart
<1>5. CASE ~Swap(in) /\ ~FrameDone(in)
  <2>1. write_bank' = write_bank /\ read_bank' = read_bank
    BY <1>5 DEF Banks
  <2>2. new_frame_ready' <=> new_frame_ready
    BY <1>5 DEF Banks
  <2> QED  BY <1>2, <2>1, <2>2 DEF BanksPart, BanksApart
<1> QED  BY <1>3, <1>4, <1>5

LEMMA NoCaptureStep ==
  ASSUME WritePart, NEW in \in AnyInputs, NoCapture(in)
  PROVE  WritePart'
<1>1. 0 \in Offsets /\ 0 \in 0 .. Burst - 1
  BY BurstFits, GeometryAssumption DEF WritePart
<1> QED
  BY <1>1 DEF WritePart, NoCapture, RewoundWrite, BurstAddress

(* A word is captured: the burst counter, the pointer and the address latch.  *)
LEMMA CaptureStep ==
  ASSUME WritePart, BanksPart, NEW in \in AnyInputs, Capture(in)
  PROVE  WritePart'
<1>1. in.cam_q \in Words \cup {NoWord}
  BY DEF AnyInputs
<1>2. Burst \in Nat /\ Burst > 1
  BY GeometryAssumption
<1>3. wr_ptr' \in Offsets
  BY BurstFits, <1>2 DEF WritePart, Capture, NextWrPtr, RewoundWrite
<1>4. wr_burst_cnt' \in 0 .. Burst - 1
  BY <1>2 DEF WritePart, Capture
<1>5. wr_addr_latch' \in Nat /\ BurstAddress(wr_addr_latch')
  BY AddressOfOffset DEF WritePart, BanksPart, Capture
<1>6. wr_data_latch' \in [1 .. Burst -> Words \cup {NoWord}]
  <2> DEFINE W == Words \cup {NoWord}
  <2>1. wr_data_latch \in Seq(W) /\ Len(wr_data_latch) = Burst
    BY <1>2 DEF WritePart
  <2>2. Tail(wr_data_latch) \in Seq(W) /\ Len(Tail(wr_data_latch)) = Burst - 1
    BY <1>2, <2>1
  <2>3. Append(Tail(wr_data_latch), in.cam_q) \in Seq(W)
    BY <1>1, <2>2
  <2>4. Len(Append(Tail(wr_data_latch), in.cam_q)) = Burst
    BY <1>1, <1>2, <2>2
  <2>5. \A s \in Seq(W) : s \in [1 .. Len(s) -> W]
    OBVIOUS
  <2> QED  BY <2>3, <2>4, <2>5 DEF Capture
<1> QED
  BY <1>3, <1>4, <1>5, <1>6 DEF WritePart, BurstAddress, Base, BANK_WORDS,
     FRAME_PIXELS, Offsets

LEMMA NoWordReadStep ==
  ASSUME ReadPart, NEW in \in AnyInputs, NoWordRead(in)
  PROVE  ReadPart'
<1>1. 0 \in Offsets /\ 0 \in 0 .. Burst - 1
  BY BurstFits, GeometryAssumption DEF ReadPart
<1> QED
  BY <1>1 DEF ReadPart, NoWordRead, RewoundRead

(* A word is read: rd_ptr starts again only after the last burst.             *)
LEMMA ReadWordStep ==
  ASSUME ReadPart, NEW in \in AnyInputs, ReadWord(in)
  PROVE  ReadPart'
<1>1. in.rd_data \in Words \cup {NoWord}
  BY DEF AnyInputs
<1>2. Burst \in Nat /\ Burst > 1 /\ FRAME_PIXELS \in Nat
  BY GeometryAssumption DEF FRAME_PIXELS
<1>3. rd_ptr \in Nat /\ 0 \in Offsets
      /\ (rd_ptr + Burst < FRAME_PIXELS => rd_ptr + Burst \in Offsets)
  BY BurstFits DEF ReadPart
<1>4. rd_ptr' \in Offsets
  BY <1>2, <1>3 DEF ReadPart, ReadWord, NextRdPtr, RewoundRead
<1>5. rd_burst_cnt' \in 0 .. Burst - 1
  BY <1>2 DEF ReadPart, ReadWord
<1> QED
  BY <1>1, <1>4, <1>5 DEF ReadPart, ReadWord

LEMMA VgaOutStep ==
  ASSUME OutPart, ReadPart, VgaOut
  PROVE  OutPart'
<1>1. vga_wr_en' \in BOOLEAN
  BY DEF VgaOut, ReadPart
<1>2. vga_wr_data' \in Words \cup {NoWord}
  BY DEF VgaOut, ReadPart, OutPart
<1> QED  BY <1>1, <1>2 DEF OutPart

(* The state and the strobes: only PopCamera asks for a word, and the next    *)
(* edge captures it.                                                          *)
LEMMA ControlStep ==
  ASSUME ControlPart, NEW in \in AnyInputs, Edge(in)
  PROVE  ControlPart'
<1> USE DEF Strobes, States
<1>1. CASE Capture(in)
  BY <1>1 DEF ControlPart, PopsAreCaptured, Capture
<1>2. CASE StartRead(in)
  BY <1>2 DEF ControlPart, PopsAreCaptured, StartRead
<1>3. CASE PopCamera(in)
  BY <1>3 DEF ControlPart, PopsAreCaptured, PopCamera
<1>4. CASE FillIdle(in)
  BY <1>4 DEF ControlPart, PopsAreCaptured, FillIdle
<1>5. CASE IssueWrite(in)
  BY <1>5 DEF ControlPart, PopsAreCaptured, IssueWrite
<1>6. CASE WaitWriteAck(in)
  BY <1>6 DEF ControlPart, PopsAreCaptured, WaitWriteAck
<1>7. CASE IssueRead(in)
  BY <1>7 DEF ControlPart, PopsAreCaptured, IssueRead
<1>8. CASE WaitReadAck(in)
  BY <1>8 DEF ControlPart, PopsAreCaptured, WaitReadAck
<1>9. CASE ReadWord(in)
  BY <1>9 DEF ControlPart, PopsAreCaptured, ReadWord
<1>10. CASE AwaitWord(in)
  BY <1>10 DEF ControlPart, PopsAreCaptured, AwaitWord
<1> QED
  BY <1>1, <1>2, <1>3, <1>4, <1>5, <1>6, <1>7, <1>8, <1>9, <1>10 DEF Edge

LEMMA EdgeIInv ==
  ASSUME Parts, NEW in \in AnyInputs, ShownBeforeNext(in), Edge(in)
  PROVE  Parts'
<1>1. BanksPart'
  BY BanksStep DEF Parts, Edge
<1>2. OutPart'
  BY VgaOutStep DEF Parts, Edge
<1>3. ControlPart'
  BY ControlStep DEF Parts
<1>4. WritePart'
  <2>1. CASE Capture(in)
    BY <2>1, CaptureStep DEF Parts
  <2>2. CASE ~Capture(in)
    <3>1. NoCapture(in)
      BY <2>2 DEF Edge, StartRead, PopCamera, FillIdle, IssueWrite,
         WaitWriteAck, IssueRead, WaitReadAck, ReadWord, AwaitWord
    <3> QED  BY <3>1, NoCaptureStep DEF Parts
  <2> QED  BY <2>1, <2>2
<1>5. ReadPart'
  <2>1. CASE ReadWord(in)
    BY <2>1, ReadWordStep DEF Parts
  <2>2. CASE ~ReadWord(in)
    <3>1. NoWordRead(in)
      BY <2>2 DEF Edge, Capture, StartRead, PopCamera, FillIdle, IssueWrite,
         WaitWriteAck, IssueRead, WaitReadAck, AwaitWord
    <3> QED  BY <3>1, NoWordReadStep DEF Parts
  <2> QED  BY <2>1, <2>2
<1> QED  BY <1>1, <1>2, <1>3, <1>4, <1>5 DEF Parts

(* The invariant survives an edge of the clock and a reset.                   *)
LEMMA NextIInv == IInv /\ [ArbiterNext]_ifVars => IInv'
<1> SUFFICES ASSUME IInv, [ArbiterNext]_ifVars PROVE IInv'
  OBVIOUS
<1>1. Parts
  BY IInvParts
<1>2. (IInv <=> Parts)'
  BY IInvParts, PTL
<1>3. CASE \E in \in AnyInputs : ShownBeforeNext(in) /\ Edge(in)
  BY <1>1, <1>2, <1>3, EdgeIInv
<1>4. CASE IfReset
  BY <1>4, ResetIInv
<1>5. CASE UNCHANGED ifVars
  <2>1. Parts'
    BY <1>1, <1>5 DEF ifVars, bankVars, wrVars, rdVars, vgaVars, Parts,
       BanksPart, WritePart, ReadPart, OutPart, ControlPart, BanksApart,
       PopsAreCaptured
  <2> QED  BY <1>2, <2>1
<1> QED  BY <1>3, <1>4, <1>5 DEF ArbiterNext

(* Type correctness, the address range, the alternation of the frame buffers  *)
(* and the capture of every word popped, for every burst length, every frame  *)
(* size and every behaviour of the camera, the display and the controller.    *)
THEOREM ArbiterInvariant == ArbiterSpec => []IInv
<1>1. IfInit => IInv
  BY InitIInv
<1>2. IInv /\ [ArbiterNext]_ifVars => IInv'
  BY NextIInv
<1> QED  BY <1>1, <1>2, PTL DEF ArbiterSpec

(* While a request is up, what the controller will take does not change.      *)
THEOREM RequestHeld == ArbiterSpec => HeldForController
<1>1. IInv /\ [ArbiterNext]_ifVars =>
        [wr_req => UNCHANGED <<wr_addr_latch, wr_data_latch>> \/ IfReset]_ifVars
  <2> SUFFICES ASSUME IInv, ArbiterNext, wr_req, ~IfReset
               PROVE  UNCHANGED <<wr_addr_latch, wr_data_latch>>
    BY DEF HeldForController
  <2>1. PICK in \in AnyInputs : Edge(in)
    BY DEF ArbiterNext
  <2>2. ~Capture(in)
    BY DEF IInv, PopsAreCaptured, Capture
  <2>3. NoCapture(in)
    BY <2>1, <2>2 DEF Edge, StartRead, PopCamera, FillIdle, IssueWrite,
       WaitWriteAck, IssueRead, WaitReadAck, ReadWord, AwaitWord
  <2> QED  BY <2>3 DEF NoCapture
<1> QED  BY <1>1, ArbiterInvariant, PTL DEF ArbiterSpec, HeldForController
-----------------------------------------------------------------------------
(* The frame store, with the camera FIFO and the controller around it.        *)

(* Sizes, and the whole bursts of a frame.                                    *)
Whole == {b * Burst : b \in 0 .. FrameBursts}

LEMMA Sizes ==
  /\ Burst \in Nat /\ Burst > 1 /\ FRAME_PIXELS \in Nat /\ Burst <= FRAME_PIXELS
  /\ 0 \in Offsets /\ 0 \in Whole /\ FRAME_PIXELS \in Whole
  /\ Base(0) = 0 /\ Base(1) = FRAME_PIXELS
<1>1. Burst \in Nat /\ Burst > 1 /\ FrameBursts \in Nat /\ FrameBursts >= 1
  BY GeometryAssumption
<1>2. FRAME_PIXELS \in Nat
  BY <1>1 DEF FRAME_PIXELS
<1>3. 1 * Burst <= FrameBursts * Burst
  BY <1>1
<1>4. 0 = 0 * Burst /\ 0 \in 0 .. FrameBursts - 1 /\ 0 \in 0 .. FrameBursts
  BY <1>1
<1>5. FrameBursts \in 0 .. FrameBursts
  BY <1>1
<1>6. Base(0) = 0 /\ Base(1) = FRAME_PIXELS
  BY <1>2 DEF Base, BANK_WORDS
<1> QED
  BY <1>1, <1>2, <1>3, <1>4, <1>5, <1>6 DEF FRAME_PIXELS, Offsets, Whole

(* Whole bursts are a burst apart; unless the frame is full, one more fits.   *)
LEMMA WholeFacts ==
  ASSUME NEW o \in Whole
  PROVE  /\ o \in Nat /\ o <= FRAME_PIXELS
         /\ o < FRAME_PIXELS =>
              o \in Offsets /\ o + Burst \in Whole /\ o + Burst <= FRAME_PIXELS
         /\ \A p \in Whole : o < p => o + Burst <= p
<1>1. PICK b \in 0 .. FrameBursts : o = b * Burst
  BY DEF Whole
<1>2. Burst \in Nat /\ Burst > 1 /\ FrameBursts \in Nat /\ b \in Nat
  BY GeometryAssumption
<1>3. o \in Nat /\ o + Burst = (b + 1) * Burst
  BY <1>1, <1>2
<1>4. b * Burst <= FrameBursts * Burst
  BY <1>2
<1>5. ASSUME o < FRAME_PIXELS
      PROVE  o \in Offsets /\ o + Burst \in Whole /\ o + Burst <= FRAME_PIXELS
  <2>1. b # FrameBursts
    BY <1>1, <1>5 DEF FRAME_PIXELS
  <2>2. b \in 0 .. FrameBursts - 1 /\ b + 1 \in 0 .. FrameBursts
    BY <1>2, <2>1
  <2>3. (b + 1) * Burst <= FrameBursts * Burst
    BY <1>2, <2>2
  <2> QED  BY <1>1, <1>3, <2>2, <2>3 DEF Offsets, Whole, FRAME_PIXELS
<1>6. ASSUME NEW p \in Whole, o < p
      PROVE  o + Burst <= p
  <2>1. PICK c \in 0 .. FrameBursts : p = c * Burst
    BY DEF Whole
  <2>2. c \in Nat
    BY <1>2
  <2>3. CASE c <= b
    <3>1. c * Burst <= b * Burst
      BY <1>2, <2>2, <2>3
    <3> QED  BY <1>1, <1>2, <1>3, <1>6, <2>1, <2>2, <3>1
  <2>4. CASE b + 1 <= c
    <3>1. (b + 1) * Burst <= c * Burst
      BY <1>2, <2>2, <2>4
    <3> QED  BY <1>3, <2>1, <3>1
  <2> QED  BY <1>2, <2>2, <2>3, <2>4
<1> QED  BY <1>1, <1>3, <1>4, <1>5, <1>6 DEF FRAME_PIXELS

(* The burst a pixel is in, and its place there.                              *)
Start(k) == k - (k % Burst)

LEMMA Place ==
  ASSUME NEW k \in 0 .. FRAME_PIXELS - 1
  PROVE  /\ k % Burst \in 0 .. Burst - 1
         /\ Start(k) \in Offsets /\ k = Start(k) + (k % Burst)
         /\ \A o \in Whole : Start(k) = o <=> o <= k /\ k < o + Burst
<1>1. Burst \in Nat /\ Burst > 1 /\ FrameBursts \in Nat /\ k \in Nat
  BY GeometryAssumption
<1>2. PICK q \in Nat : k = q * Burst + (k % Burst)
  <2>1. k \div Burst \in Nat /\ k = (k \div Burst) * Burst + (k % Burst)
    BY <1>1
  <2> QED  BY <2>1
<1>3. k % Burst \in 0 .. Burst - 1
  BY <1>1
<1>4. Start(k) = q * Burst
  <2>1. PICK r \in Nat : r = k % Burst
    BY <1>1, <1>3
  <2>2. PICK m \in Nat : m = q * Burst
    BY <1>1
  <2>3. k = m + r
    BY <1>2, <2>1, <2>2
  <2>4. k - r = m
    BY <1>1, <2>3
  <2> QED  BY <2>1, <2>2, <2>4 DEF Start
<1>5. q \in 0 .. FrameBursts - 1
  <2>1. CASE q >= FrameBursts
    <3>1. q * Burst >= FrameBursts * Burst
      BY <1>1, <2>1
    <3> QED  BY <1>1, <1>2, <1>3, <3>1 DEF FRAME_PIXELS
  <2> QED  BY <1>1, <2>1
<1>6. Start(k) \in Offsets
  BY <1>4, <1>5 DEF Offsets
<1>7. Start(k) \in Whole /\ Start(k) \in Nat
  <2>1. q \in 0 .. FrameBursts
    BY <1>1, <1>5
  <2> QED  BY <1>1, <1>4, <2>1 DEF Whole
<1>8. k = Start(k) + (k % Burst)
  BY <1>2, <1>4
<1>9. ASSUME NEW o \in Whole
      PROVE  Start(k) = o <=> o <= k /\ k < o + Burst
  <2>1. o \in Nat /\ (o < Start(k) => o + Burst <= Start(k))
        /\ (Start(k) < o => Start(k) + Burst <= o)
    BY <1>7, WholeFacts
  <2> QED  BY <1>1, <1>3, <1>7, <1>8, <2>1
<1> QED  BY <1>3, <1>6, <1>8, <1>9

(* The bursts of the two banks are the addresses of the memory, each of one   *)
(* burst only.                                                                *)
Addresses == {b * Burst : b \in 0 .. 2 * FrameBursts - 1}

LEMMA AddressOf ==
  ASSUME NEW bank \in {0, 1}, NEW o \in Offsets
  PROVE  Base(bank) + o \in Addresses
<1>1. PICK b \in 0 .. FrameBursts - 1 : o = b * Burst
  BY DEF Offsets
<1>2. Burst \in Nat /\ FrameBursts \in Nat /\ b \in Nat
  BY GeometryAssumption
<1>3. CASE bank = 0
  <2>1. Base(bank) + o = b * Burst /\ b \in 0 .. 2 * FrameBursts - 1
    BY <1>1, <1>2, <1>3, Sizes
  <2> QED  BY <2>1 DEF Addresses
<1>4. CASE bank = 1
  <2>1. Base(bank) + o = (FrameBursts + b) * Burst
    BY <1>1, <1>2, <1>4, Sizes DEF FRAME_PIXELS
  <2>2. FrameBursts + b \in 0 .. 2 * FrameBursts - 1
    BY <1>1, <1>2
  <2> QED  BY <2>1, <2>2 DEF Addresses
<1> QED  BY <1>3, <1>4

LEMMA OneBurst ==
  ASSUME NEW bank \in {0, 1}, NEW o \in Offsets, NEW other \in {0, 1}, NEW p \in Offsets,
         Base(bank) + o = Base(other) + p
  PROVE  bank = other /\ o = p
<1>1. /\ o \in Nat /\ o + Burst <= FRAME_PIXELS
      /\ p \in Nat /\ p + Burst <= FRAME_PIXELS
  BY BurstFits
<1> QED  BY <1>1, Sizes

(* A word late: the first place holds the last pixel of the frame before.     *)
Late(f, k) == IF k = 0 THEN {NoWord, <<(f + 2) % 3, FRAME_PIXELS - 1>>}
              ELSE {<<f, k - 1>>}

LEMMA LateFacts ==
  ASSUME NEW f \in Frames
  PROVE  /\ NextFrame(f) \in Frames
         /\ \A k \in 0 .. FRAME_PIXELS : Late(f, k) \subseteq Words \cup {NoWord}
         /\ Late(f, FRAME_PIXELS) \subseteq Late(NextFrame(f), 0)
         /\ (NextFrame(f) + 2) % 3 = f /\ (NextFrame(f) + 1) % 3 = (f + 2) % 3
<1>1. f \in {0, 1, 2}
  BY DEF Frames
<1>2. /\ NextFrame(f) \in Frames /\ (f + 2) % 3 \in Frames
      /\ (NextFrame(f) + 2) % 3 = f /\ (NextFrame(f) + 1) % 3 = (f + 2) % 3
  BY <1>1 DEF NextFrame, Frames
<1>3. FRAME_PIXELS \in Nat /\ FRAME_PIXELS # 0
  BY Sizes
<1>4. ASSUME NEW k \in 0 .. FRAME_PIXELS, NEW w \in Late(f, k)
      PROVE  w \in Words \cup {NoWord}
  <2>1. CASE k = 0
    <3>1. <<(f + 2) % 3, FRAME_PIXELS - 1>> \in Pixels
      BY <1>2, <1>3 DEF Pixels
    <3> QED  BY <1>4, <2>1, <3>1, PixelAssumption DEF Late
  <2>2. CASE k # 0
    <3>1. <<f, k - 1>> \in Pixels
      BY <1>3, <2>2 DEF Pixels
    <3> QED  BY <1>4, <2>2, <3>1, PixelAssumption DEF Late
  <2> QED  BY <2>1, <2>2
<1>5. Late(f, FRAME_PIXELS) \subseteq Late(NextFrame(f), 0)
  BY <1>2, <1>3 DEF Late
<1> QED  BY <1>2, <1>4, <1>5

(* OneLate is about the frame that was done last.                             *)
LEMMA OneLateIs ==
  ASSUME NEW k, frame \in Frames
  PROVE  OneLate(k) = Late(LastDone, k)
<1>1. frame \in {0, 1, 2}
  BY DEF Frames
<1>2. (((frame + 2) % 3) + 2) % 3 = (frame + 1) % 3
  BY <1>1
<1> QED  BY <1>2 DEF OneLate, Late, LastDone
-----------------------------------------------------------------------------
(* The inductive invariant of the frame store, in parts.                      *)

(* The camera side: the FIFO holds the pixels sent and not taken yet, in a    *)
(* row, and its output the one taken last.                                    *)
InRow(s, from, to) ==
  /\ s \in Seq(Pixels) /\ from \in Nat /\ to \in 0 .. FRAME_PIXELS
  /\ from <= to /\ Len(s) = to - from
  /\ \A i \in 1 .. Len(s) : s[i] = <<frame, from + i - 1>>

Taken == pix - Len(cam)
CameraPart ==
  /\ frame \in Frames
  /\ InRow(cam, Taken, pix)
  /\ cam_q \in Late(frame, Taken)
  /\ cam_rd => cam # << >>

(* The handshake with the controller: it acknowledges only what the arbiter   *)
(* is waiting for, and a request left up for one cycle more meets a port that *)
(* takes none.                                                                *)
HandshakePart ==
  /\ latching = IF wr_ack THEN {wr_addr_latch} ELSE {}
  /\ wr_ack \in BOOLEAN /\ rd_ack \in BOOLEAN /\ rd_valid \in BOOLEAN
  /\ rest \in {0, 1, 2} /\ (wr_ack \/ rd_ack => rest = 2)
  /\ wr_ack => state = "WAIT_WR_ACK"
  /\ rd_ack => state = "WAIT_RD_ACK"
  /\ rd_valid => state = "WAIT_RD_DATA"
  /\ wr_req => state = "WAIT_WR_ACK" \/ rest # 0
  /\ rd_req => state = "WAIT_RD_ACK" \/ rest # 0
  /\ pend # << >> => rd_ack \/ state = "WAIT_RD_DATA"

(* The burst being read: what is still to be answered is what the bank shown  *)
(* holds.                                                                     *)
Answered == rd_burst_cnt + (IF rd_valid THEN 1 ELSE 0)
Reading == rd_ack \/ state = "WAIT_RD_DATA"
BurstsKept == [1 .. Burst -> Words \cup {NoWord}]
AnswerPart ==
  /\ rd_data \in Words \cup {NoWord}
  /\ pend \in Seq(Words \cup {NoWord})
  /\ state # "WAIT_RD_DATA" => rd_burst_cnt = 0
  /\ Reading => Len(pend) + Answered = Burst
  /\ Reading => \A i \in 1 .. Len(pend) : pend[i] = mem[RdAddr][Answered + i]
  /\ rd_valid => rd_data = mem[RdAddr][rd_burst_cnt + 1]

(* The words on their way to the VGA FIFO: where in the frame each of them    *)
(* belongs, from the one written now to the one to be read next.              *)
After(k) == (k + 1) % FRAME_PIXELS
HeldPlace == IF vga_wr_en THEN After(sent) ELSE sent
ReadPlace == IF vga_wr_pending THEN After(HeldPlace) ELSE HeldPlace
StreamPart ==
  /\ sent \in 0 .. FRAME_PIXELS - 1
  /\ rd_ptr + rd_burst_cnt = ReadPlace
  /\ Showing /\ vga_wr_en => vga_wr_data \in OneLate(sent)
  /\ Showing /\ vga_wr_pending => vga_wr_data_hold \in OneLate(HeldPlace)

(* The frame being stored: whole bursts of it are in the memory, what follows *)
(* is in wr_data_latch.                                                       *)
Writing == state \in {"ISSUE_WR", "WAIT_WR_ACK"}
InLatch == IF Writing THEN Burst ELSE wr_burst_cnt
StoredWords == Taken - InLatch
StorePart ==
  /\ StoredWords \in Whole
  /\ wr_ptr = IF Taken - wr_burst_cnt < FRAME_PIXELS THEN Taken - wr_burst_cnt
              ELSE FRAME_PIXELS - Burst
  /\ Writing => wr_burst_cnt = 0
  /\ InLatch > 0 => wr_addr_latch = Base(write_bank) + StoredWords
  /\ \A j \in 1 .. InLatch :
       wr_data_latch[Burst - InLatch + j] \in Late(frame, StoredWords + j - 1)

(* What the two banks hold: the words of this frame that are stored, and the  *)
(* last frame that was done.                                                  *)
HoldsUpTo(n, bank, f) == \A k \in 0 .. n - 1 : Stored(bank, k) \in Late(f, k)
MemoryPart ==
  /\ mem \in [Addresses -> BurstsKept]
  /\ HoldsUpTo(StoredWords, write_bank, frame)
  /\ new_frame_ready \/ read_frame_valid =>
       HoldsUpTo(FRAME_PIXELS, 1 - write_bank, LastDone)

FrameParts ==
  /\ paced
  /\ CameraPart /\ HandshakePart /\ AnswerPart /\ StreamPart /\ StorePart /\ MemoryPart

(* What surrounds the arbiter stays in range, with the pace of the board or   *)
(* without it.                                                                *)
EnvTypes ==
  /\ paced \in BOOLEAN /\ frame \in Frames /\ pix \in 0 .. FRAME_PIXELS
  /\ ~paced => pix \in {0, 1}
  /\ cam \in Seq(Words) /\ cam_q \in Words \cup {NoWord}
  /\ cam_rd => cam # << >>
  /\ wr_ack \in BOOLEAN /\ rd_ack \in BOOLEAN /\ rd_valid \in BOOLEAN
  /\ rd_data \in Words \cup {NoWord} /\ pend \in Seq(Words \cup {NoWord})
  /\ mem \in [Addresses -> BurstsKept]

FrameInv == IInv /\ EnvTypes /\ (paced => FrameParts)
-----------------------------------------------------------------------------
(* A clock cycle at the pace of the board.                                    *)
LEMMA PacedClock ==
  ASSUME FrameParts, NEW in \in Inputs, Clock(in)
  PROVE  /\ FrameDone(in) => CameraQuiet /\ ~new_frame_ready
         /\ VsyncFall(in) => ReadQuiet
         /\ Port!PortClock(wr_req, wr_addr_latch, wr_data_latch, rd_req, RdAddr)
         /\ cam_q' = IF cam_rd THEN Head(cam) ELSE cam_q
         /\ SendPaced(in, IF cam_rd THEN Tail(cam) ELSE cam)
         /\ sent' = IF VsyncFall(in) THEN 0
                    ELSE IF vga_wr_en THEN (sent + 1) % FRAME_PIXELS ELSE sent
<1>1. paced
  BY DEF FrameParts
<1>2. DataFollowed = wr_data_latch
  BY <1>1 DEF DataFollowed
<1>3. Port!PortClock(wr_req, wr_addr_latch, DataFollowed, rd_req, RdAddr)
  BY DEF Clock
<1>4. Port!PortClock(wr_req, wr_addr_latch, wr_data_latch, rd_req, RdAddr)
  BY <1>2, <1>3
<1> QED
  BY <1>1, <1>4 DEF Clock, Pace, ShownBeforeNext, CameraFifo

(* The inputs are those of the arbiter on its own.                            *)
LEMMA InputsAreFree ==
  ASSUME Parts, EnvTypes, NEW in \in Inputs, Clock(in)
  PROVE  in \in AnyInputs /\ ShownBeforeNext(in) /\ Edge(in)
<1>1. in \in AnyInputs
  BY DEF Inputs, AnyInputs, EnvTypes
<1> QED  BY <1>1 DEF Clock, Pace

(* The ends of a frame meet a quiet arbiter.                                  *)
LEMMA InputsAre ==
  ASSUME Parts, FrameParts, NEW in \in Inputs, Clock(in)
  PROVE  /\ in \in AnyInputs /\ ShownBeforeNext(in) /\ Edge(in)
         /\ in.cam_empty = (cam = << >>) /\ in.cam_q = cam_q
         /\ in.wr_ack = wr_ack /\ in.rd_ack = rd_ack
         /\ in.rd_valid = rd_valid /\ in.rd_data = rd_data
<1>1. /\ in.frame_done \in BOOLEAN /\ in.vsync \in BOOLEAN /\ in.vga_full \in BOOLEAN
      /\ in.cam_empty = (cam = << >>) /\ in.cam_q = cam_q /\ in.wr_ack = wr_ack
      /\ in.rd_ack = rd_ack /\ in.rd_valid = rd_valid /\ in.rd_data = rd_data
  BY DEF Inputs
<1>2. cam_q \in Words \cup {NoWord}
  <2>1. Taken \in 0 .. FRAME_PIXELS /\ frame \in Frames /\ cam_q \in Late(frame, Taken)
    BY Sizes DEF FrameParts, CameraPart, InRow
  <2> QED  BY <2>1, LateFacts
<1>3. wr_ack \in BOOLEAN /\ rd_ack \in BOOLEAN /\ rd_valid \in BOOLEAN
      /\ rd_data \in Words \cup {NoWord}
  BY DEF FrameParts, HandshakePart, AnswerPart
<1>4. in \in AnyInputs
  BY <1>1, <1>2, <1>3 DEF Inputs, AnyInputs
<1> QED  BY <1>1, <1>4 DEF Clock, Pace, ShownBeforeNext

LEMMA WordsTaken ==
  ASSUME CameraPart
  PROVE  /\ Taken \in Nat /\ Taken <= FRAME_PIXELS /\ pix \in Nat
         /\ cam = << >> <=> Taken = pix
         /\ Taken < pix => cam # << >>
<1>1. cam \in Seq(Pixels) /\ Taken \in Nat /\ pix \in 0 .. FRAME_PIXELS
      /\ Taken <= pix /\ Len(cam) = pix - Taken /\ FRAME_PIXELS \in Nat
  BY Sizes DEF CameraPart, InRow
<1>2. cam = << >> <=> Len(cam) = 0
  BY <1>1
<1> QED  BY <1>1, <1>2

(* When the camera reports the end of a frame, all of it is stored.           *)
LEMMA FrameEnd ==
  ASSUME Parts, FrameParts, NEW in \in Inputs, Clock(in), FrameDone(in)
  PROVE  /\ pix = FRAME_PIXELS /\ cam = << >> /\ Taken = FRAME_PIXELS
         /\ ~cam_rd /\ ~cam_rd_pending /\ ~Writing /\ latching = {}
         /\ ~new_frame_ready /\ wr_burst_cnt = 0 /\ StoredWords = FRAME_PIXELS
         /\ ~VsyncFall(in) \/ ReadQuiet
<1>1. CameraQuiet /\ ~new_frame_ready /\ (VsyncFall(in) => ReadQuiet)
  BY PacedClock
<1>2. ~cam_rd
  BY <1>1 DEF CameraQuiet, Parts, ControlPart, PopsAreCaptured
<1>3. Taken = FRAME_PIXELS
  BY <1>1, WordsTaken DEF FrameParts, CameraQuiet
<1>4. ~Writing /\ InLatch = wr_burst_cnt
  BY <1>1 DEF CameraQuiet, Writing, InLatch
<1>5. StoredWords \in Whole /\ StoredWords = FRAME_PIXELS - wr_burst_cnt
      /\ wr_burst_cnt \in 0 .. Burst - 1
  BY <1>3, <1>4 DEF FrameParts, StorePart, StoredWords, Parts, WritePart
<1>6. wr_burst_cnt = 0
  <2>1. StoredWords < FRAME_PIXELS => StoredWords + Burst <= FRAME_PIXELS
    BY <1>5, WholeFacts
  <2> QED  BY <1>5, <2>1, Sizes
<1> QED  BY <1>1, <1>2, <1>3, <1>4, <1>5, <1>6, Sizes DEF CameraQuiet

(* A row of pixels grows at its end and is taken from at its front.           *)
LEMMA RowGrows ==
  ASSUME NEW s, NEW from, NEW to, InRow(s, from, to), frame \in Frames, to < FRAME_PIXELS
  PROVE  InRow(Append(s, <<frame, to>>), from, to + 1)
<1>1. s \in Seq(Pixels) /\ from \in Nat /\ to \in Nat /\ from <= to
      /\ Len(s) = to - from /\ FRAME_PIXELS \in Nat
  BY Sizes DEF InRow
<1>2. <<frame, to>> \in Pixels
  BY <1>1 DEF Pixels
<1>3. PICK x : x = <<frame, to>>
  OBVIOUS
<1>4. Append(s, x) \in Seq(Pixels) /\ Len(Append(s, x)) = Len(s) + 1
      /\ Append(s, x)[Len(s) + 1] = x
      /\ \A i \in 1 .. Len(s) : Append(s, x)[i] = s[i]
  BY <1>1, <1>2, <1>3
<1>5. ASSUME NEW i \in 1 .. Len(s) + 1
      PROVE  Append(s, x)[i] = <<frame, from + i - 1>>
  <2>1. CASE i = Len(s) + 1
    BY <1>1, <1>3, <1>4, <2>1
  <2>2. CASE i \in 1 .. Len(s)
    BY <1>4, <2>2 DEF InRow
  <2> QED  BY <1>1, <2>1, <2>2
<1> QED
  <2>1. to + 1 \in 0 .. FRAME_PIXELS /\ from <= to + 1
        /\ Len(Append(s, x)) = (to + 1) - from
    BY <1>1, <1>4
  <2> QED  BY <1>1, <1>3, <1>4, <1>5, <2>1 DEF InRow

LEMMA RowTaken ==
  ASSUME NEW s, NEW from, NEW to, InRow(s, from, to), s # << >>
  PROVE  InRow(Tail(s), from + 1, to) /\ Head(s) = <<frame, from>> /\ from < to
<1>1. s \in Seq(Pixels) /\ from \in Nat /\ to \in Nat /\ to \in 0 .. FRAME_PIXELS
      /\ from <= to /\ Len(s) = to - from
  BY Sizes DEF InRow
<1>2. Len(s) # 0 /\ Len(s) \in Nat
  BY <1>1
<1>3. Tail(s) \in Seq(Pixels) /\ Len(Tail(s)) = Len(s) - 1
      /\ \A i \in 1 .. Len(s) - 1 : Tail(s)[i] = s[i + 1]
  BY <1>1, <1>2
<1>4. ASSUME NEW i \in 1 .. Len(s) - 1
      PROVE  Tail(s)[i] = <<frame, (from + 1) + i - 1>>
  <2>1. i + 1 \in 1 .. Len(s) /\ from + (i + 1) - 1 = (from + 1) + i - 1
    BY <1>1, <1>2
  <2>2. s[i + 1] = <<frame, from + (i + 1) - 1>>
    BY <2>1 DEF InRow
  <2> QED  BY <1>3, <2>1, <2>2
<1>5. Head(s) = <<frame, from>>
  <2>1. 1 \in 1 .. Len(s) /\ from + 1 - 1 = from
    BY <1>1, <1>2
  <2>2. s[1] = <<frame, from + 1 - 1>>
    BY <2>1 DEF InRow
  <2> QED  BY <1>1, <2>1, <2>2
<1> QED
  BY <1>1, <1>2, <1>3, <1>4, <1>5 DEF InRow

(* The end of a frame empties nothing that is not empty, and starts a row.    *)
LEMMA CameraTurns ==
  ASSUME Parts, FrameParts, NEW in \in Inputs, Clock(in), FrameDone(in)
  PROVE  CameraPart' /\ Taken' = 0 /\ frame' = NextFrame(frame)
<1>1. pix = FRAME_PIXELS /\ cam = << >> /\ Taken = FRAME_PIXELS /\ ~cam_rd
      /\ ~cam_rd_pending
  BY FrameEnd
<1>2. pix' = 0 /\ cam' = << >> /\ frame' = NextFrame(frame) /\ cam_q' = cam_q
  <2>1. ~(pix < FRAME_PIXELS)
    BY <1>1, Sizes
  <2> QED  BY <1>1, <2>1, PacedClock DEF SendPaced, RewoundWrite
<1>3. Taken' = 0
  <2>1. Taken' = pix' - Len(cam')
    BY DEF Taken
  <2>2. Len(cam') = 0
    BY <1>2
  <2>3. pix' - Len(cam') = 0 - 0
    BY <1>2, <2>2
  <2> QED  BY <2>1, <2>3
<1>4. ~cam_rd'
  <2>1. in.cam_empty /\ Edge(in)
    BY <1>1, InputsAre
  <2>2. ~PopCamera(in) /\ ~Capture(in)
    BY <1>1, <2>1 DEF PopCamera, Capture
  <2> QED
    BY <2>1, <2>2 DEF Edge, StartRead, FillIdle, IssueWrite, WaitWriteAck,
       IssueRead, WaitReadAck, ReadWord, AwaitWord, Strobes
<1>5. frame' \in Frames /\ cam_q' \in Late(frame', 0)
  <2>1. frame \in Frames /\ cam_q \in Late(frame, FRAME_PIXELS)
    BY <1>1 DEF FrameParts, CameraPart
  <2> QED  BY <1>2, <2>1, LateFacts
<1>6. InRow(cam, Taken, pix)'
  <2>1. InRow(cam, Taken, pix)' <=>
          /\ cam' \in Seq(Pixels) /\ Taken' \in Nat /\ pix' \in 0 .. FRAME_PIXELS
          /\ Taken' <= pix' /\ Len(cam') = pix' - Taken'
          /\ \A i \in 1 .. Len(cam') : cam'[i] = <<frame', Taken' + i - 1>>
    BY DEF InRow
  <2> QED  BY <1>2, <1>3, <2>1, Sizes
<1> QED
  BY <1>2, <1>3, <1>4, <1>5, <1>6 DEF CameraPart

LEMMA RowFrom ==
  ASSUME NEW s, NEW from, NEW to, InRow(s, from, to)
  PROVE  from = to - Len(s)
<1>1. Len(s) = to - from /\ to \in Nat /\ from \in Nat
  BY Sizes DEF InRow
<1> QED  BY <1>1

(* The camera adds a pixel to what is left, or does not.                      *)
LEMMA CameraAdds ==
  ASSUME Parts, FrameParts, NEW in \in Inputs, Clock(in), ~FrameDone(in),
         NEW left, NEW from, InRow(left, from, pix),
         left = IF cam_rd THEN Tail(cam) ELSE cam
  PROVE  /\ frame' = frame /\ InRow(cam', from, pix') /\ Taken' = from
         /\ left # << >> => cam' # << >>
<1>1. CASE pix < FRAME_PIXELS /\ cam' = Append(left, <<frame, pix>>)
           /\ pix' = pix + 1 /\ frame' = frame
  <2>1. InRow(cam', from, pix')
    BY <1>1, RowGrows DEF FrameParts, CameraPart
  <2>2. Len(cam') = pix' - from /\ pix' \in Nat /\ from \in Nat
    BY <2>1, Sizes DEF InRow
  <2>3. Taken' = from
    <3>1. Taken' = pix' - Len(cam')
      BY DEF Taken
    <3>2. from = pix' - Len(cam')
      BY <2>1, RowFrom
    <3> QED  BY <3>1, <3>2
  <2>4. cam' # << >>
    <3>1. left \in Seq(Pixels) /\ from <= pix /\ pix \in Nat
      BY Sizes DEF InRow
    <3>2. Len(cam') # 0
      BY <1>1, <2>2, <3>1
    <3> QED  BY <3>2
  <2> QED  BY <1>1, <2>1, <2>3, <2>4
<1>2. CASE cam' = left /\ pix' = pix /\ frame' = frame
  <2>1. InRow(cam', from, pix')
    BY <1>2
  <2>3. Taken' = from
    <3>1. Taken' = pix' - Len(cam')
      BY DEF Taken
    <3>2. from = pix' - Len(cam')
      BY <2>1, RowFrom
    <3> QED  BY <3>1, <3>2
  <2> QED  BY <1>2, <2>1, <2>3
<1> QED
  BY <1>1, <1>2, PacedClock DEF SendPaced, RewoundWrite

LEMMA CameraGoesOn ==
  ASSUME Parts, FrameParts, NEW in \in Inputs, Clock(in), ~FrameDone(in)
  PROVE  /\ CameraPart' /\ frame' = frame
         /\ Taken' = IF Capture(in) THEN Taken + 1 ELSE Taken
         /\ Capture(in) => Taken < FRAME_PIXELS
<1>1. InRow(cam, Taken, pix) /\ frame \in Frames /\ Edge(in)
      /\ in.cam_empty = (cam = << >>)
  BY InputsAre DEF FrameParts, CameraPart
<1>2. CASE Capture(in)
  <2>1. cam_rd /\ cam # << >>
    BY <1>2 DEF Capture, Parts, ControlPart, PopsAreCaptured, FrameParts, CameraPart
  <2>2. InRow(Tail(cam), Taken + 1, pix) /\ Head(cam) = <<frame, Taken>> /\ Taken < pix
    BY <1>1, <2>1, RowTaken
  <2>3. Taken \in Nat /\ pix \in 0 .. FRAME_PIXELS
    BY <1>1 DEF InRow
  <2>4. frame' = frame /\ InRow(cam', Taken + 1, pix') /\ Taken' = Taken + 1
    BY <2>1, <2>2, CameraAdds
  <2>5. cam_q' = <<frame, Taken>>
    BY <2>1, <2>2, PacedClock
  <2>6. cam_q' \in Late(frame', Taken')
    BY <2>3, <2>4, <2>5 DEF Late
  <2>7. ~cam_rd'
    BY <1>2 DEF Capture, Strobes
  <2>8. InRow(cam, Taken, pix)'
    BY <2>4 DEF InRow
  <2> QED
    BY <1>1, <1>2, <2>2, <2>3, <2>4, <2>6, <2>7, <2>8, Sizes DEF CameraPart
<1>3. CASE ~Capture(in)
  <2>1. ~cam_rd
    BY <1>1, <1>3 DEF Parts, ControlPart, PopsAreCaptured, Edge, StartRead, PopCamera,
       FillIdle, IssueWrite, WaitWriteAck, IssueRead, WaitReadAck, ReadWord, AwaitWord
  <2>2. /\ frame' = frame /\ InRow(cam', Taken, pix') /\ Taken' = Taken
        /\ cam # << >> => cam' # << >>
    BY <1>1, <2>1, CameraAdds
  <2>3. cam_q' = cam_q
    BY <2>1, PacedClock
  <2>4. cam_q' \in Late(frame', Taken')
    BY <2>2, <2>3 DEF FrameParts, CameraPart
  <2>5. cam_rd' => cam # << >>
    BY <1>1, <1>3 DEF Edge, StartRead, PopCamera, FillIdle, IssueWrite, WaitWriteAck,
       IssueRead, WaitReadAck, ReadWord, AwaitWord, Strobes
  <2>6. InRow(cam, Taken, pix)'
    BY <2>2 DEF InRow
  <2> QED
    BY <1>1, <1>3, <2>2, <2>4, <2>5, <2>6 DEF CameraPart
<1> QED  BY <1>2, <1>3

(* Where the arbiter goes, and what it leaves alone, when neither end of a    *)
(* frame can cut it short.                                                    *)
LEMMA ArbiterMoves ==
  ASSUME Parts, FrameParts, NEW in \in Inputs, Clock(in)
  PROVE  /\ state = "ISSUE_WR" => state' = "WAIT_WR_ACK"
         /\ state = "WAIT_WR_ACK" /\ ~wr_ack => state' = "WAIT_WR_ACK"
         /\ state = "WAIT_WR_ACK" /\ wr_ack => ~Writing'
         /\ state' = "WAIT_WR_ACK" => Writing
         /\ wr_req' => Writing
         /\ state' = "ISSUE_WR" => Capture(in)
         /\ Capture(in) => state = "FILL_CAM"
         /\ state = "ISSUE_RD" => state' = "WAIT_RD_ACK"
         /\ state = "WAIT_RD_ACK" /\ ~rd_ack => state' = "WAIT_RD_ACK"
         /\ state = "WAIT_RD_ACK" /\ rd_ack => state' = "WAIT_RD_DATA"
         /\ state' = "WAIT_RD_ACK" => state \in {"ISSUE_RD", "WAIT_RD_ACK"}
         /\ rd_req' => state \in {"ISSUE_RD", "WAIT_RD_ACK"}
         /\ state' = "WAIT_RD_DATA" =>
              state = "WAIT_RD_DATA" \/ (state = "WAIT_RD_ACK" /\ rd_ack)
         /\ state = "WAIT_RD_DATA" /\ ~rd_valid =>
              state' = "WAIT_RD_DATA" /\ NoWordRead(in)
         /\ state = "WAIT_RD_DATA" /\ rd_valid => ReadWord(in)
         /\ state # "WAIT_RD_DATA" => NoWordRead(in)
         /\ ~Capture(in) => NoCapture(in)
<1>1. Edge(in) /\ in.wr_ack = wr_ack /\ in.rd_ack = rd_ack /\ in.rd_valid = rd_valid
  BY InputsAre
<1>2. FrameDone(in) => ~Writing
  BY FrameEnd
<1>3. VsyncFall(in) => state \notin {"ISSUE_RD", "WAIT_RD_ACK", "WAIT_RD_DATA"}
  BY PacedClock DEF ReadQuiet
<1> USE DEF Strobes, Writing
<1>4. CASE Capture(in)
  BY <1>4 DEF Capture
<1>5. CASE StartRead(in)
  BY <1>5 DEF StartRead, Capture
<1>6. CASE PopCamera(in)
  BY <1>6 DEF PopCamera, Capture
<1>7. CASE FillIdle(in)
  BY <1>7 DEF FillIdle, Capture
<1>8. CASE IssueWrite(in)
  BY <1>8 DEF IssueWrite, Capture
<1>9. CASE WaitWriteAck(in)
  BY <1>1, <1>2, <1>9 DEF WaitWriteAck, Capture
<1>10. CASE IssueRead(in)
  BY <1>10 DEF IssueRead, Capture
<1>11. CASE WaitReadAck(in)
  BY <1>1, <1>3, <1>11 DEF WaitReadAck, Capture
<1>12. CASE ReadWord(in)
  BY <1>1, <1>12 DEF ReadWord, Capture
<1>13. CASE AwaitWord(in)
  BY <1>1, <1>3, <1>13 DEF AwaitWord, Capture
<1> QED
  BY <1>1, <1>4, <1>5, <1>6, <1>7, <1>8, <1>9, <1>10, <1>11, <1>12, <1>13 DEF Edge

LEMMA EmptyIs ==
  ASSUME NEW S, NEW s \in Seq(S), Len(s) = 0
  PROVE  s = << >>
OBVIOUS

(* The last word of a burst is the one that ends the wait.                    *)
LEMMA LastWord ==
  ASSUME Parts, FrameParts, NEW in \in Inputs, Clock(in), ReadWord(in)
  PROVE  /\ pend # << >> => state' = "WAIT_RD_DATA" /\ rd_burst_cnt # Burst - 1
         /\ state' = "WAIT_RD_DATA" <=> rd_burst_cnt # Burst - 1
<1>1. state = "WAIT_RD_DATA" /\ rd_valid
  BY InputsAre DEF ReadWord
<1>2. ~VsyncFall(in)
  BY <1>1, PacedClock DEF ReadQuiet
<1>3. Len(pend) + (rd_burst_cnt + 1) = Burst /\ pend \in Seq(Words \cup {NoWord})
  BY <1>1 DEF FrameParts, AnswerPart, Reading, Answered
<1>4. rd_burst_cnt \in Nat
  BY Sizes DEF Parts, ReadPart
<1>5. pend # << >> => rd_burst_cnt # Burst - 1
  <2>1. PICK n \in Nat : n = Len(pend)
    BY <1>3
  <2>2. n + (rd_burst_cnt + 1) = Burst
    BY <1>3, <2>1
  <2>3. n # 0 => rd_burst_cnt # Burst - 1
    BY <1>4, <2>2, Sizes
  <2>4. n = 0 => pend = << >>
    BY <1>3, <2>1, EmptyIs
  <2> QED  BY <2>3, <2>4
<1> QED  BY <1>1, <1>2, <1>5 DEF ReadWord

LEMMA HandshakeStep ==
  ASSUME Parts, FrameParts, NEW in \in Inputs, Clock(in)
  PROVE  HandshakePart'
<1> DEFINE Write == Port!AcceptWrite(wr_req, wr_addr_latch)
           Take == Port!TakeData(wr_data_latch)
           Read == Port!AcceptRead(wr_req, rd_req, RdAddr)
<1>1. Port!Wait \/ Write \/ Take \/ Read \/ Port!Answer
  BY PacedClock DEF Port!PortClock
<1>2. HandshakePart /\ state \in States
  BY DEF FrameParts, Parts, ControlPart
<1>3. ~Capture(in) => wr_addr_latch' = wr_addr_latch
  BY ArbiterMoves DEF NoCapture
<1>4. pend # << >> /\ state = "WAIT_RD_DATA" => state' = "WAIT_RD_DATA"
  BY ArbiterMoves, LastWord
<1>5. pend # << >> => state' = "WAIT_RD_DATA"
  BY <1>2, <1>4, ArbiterMoves DEF HandshakePart
<1>6. ~wr_ack /\ wr_req' => state' = "WAIT_WR_ACK"
  BY ArbiterMoves DEF Writing
<1>7. ~rd_ack /\ rd_req' => state' = "WAIT_RD_ACK"
  BY ArbiterMoves
<1>8. /\ wr_req' => Writing
      /\ rd_req' => state \in {"ISSUE_RD", "WAIT_RD_ACK"}
      /\ Capture(in) => state = "FILL_CAM"
  BY ArbiterMoves
<1> USE DEF Port!NoStrobe, Port!CountDown, Port!Free
<1>9. CASE Port!Wait
  <2>1. /\ latching = {} /\ latching' = {} /\ pend' = pend
        /\ ~wr_ack' /\ ~rd_ack' /\ ~rd_valid'
        /\ wr_ack' \in BOOLEAN /\ rd_ack' \in BOOLEAN /\ rd_valid' \in BOOLEAN
        /\ rest' = IF rest = 0 THEN 0 ELSE rest - 1
    BY <1>9 DEF Port!Wait
  <2>2. ~wr_ack
    BY <1>2, <2>1 DEF HandshakePart
  <2>3. rest' \in {0, 1, 2} /\ (rd_ack => rest' # 0)
    BY <1>2, <2>1 DEF HandshakePart
  <2> QED  BY <1>5, <1>6, <1>7, <2>1, <2>2, <2>3 DEF HandshakePart
<1>10. CASE Write
  BY <1>2, <1>3, <1>5, <1>10, ArbiterMoves DEF HandshakePart, Port!AcceptWrite, Writing
<1>11. CASE Take
  <2>1. /\ latching # {} /\ latching' = {} /\ pend' = pend
        /\ ~wr_ack' /\ ~rd_ack' /\ ~rd_valid'
        /\ wr_ack' \in BOOLEAN /\ rd_ack' \in BOOLEAN /\ rd_valid' \in BOOLEAN
        /\ rest' = IF rest = 0 THEN 0 ELSE rest - 1
    BY <1>11 DEF Port!TakeData
  <2>2. wr_ack /\ state = "WAIT_WR_ACK" /\ rest = 2 /\ ~rd_ack
    BY <1>2, <2>1 DEF HandshakePart
  <2>3. rest' = 1
    BY <2>1, <2>2
  <2>4. pend = << >> /\ ~rd_req'
    BY <1>2, <1>8, <2>2 DEF HandshakePart
  <2> QED  BY <2>1, <2>3, <2>4 DEF HandshakePart
<1>12. CASE Read
  <2>1. /\ latching = {} /\ latching' = {} /\ rd_req /\ rest = 0
        /\ ~wr_ack' /\ rd_ack' /\ ~rd_valid' /\ rest' = 2
        /\ wr_ack' \in BOOLEAN /\ rd_ack' \in BOOLEAN /\ rd_valid' \in BOOLEAN
    BY <1>12 DEF Port!AcceptRead
  <2>2. state = "WAIT_RD_ACK" /\ ~rd_ack
    BY <1>2, <2>1 DEF HandshakePart
  <2>3. state' = "WAIT_RD_ACK" /\ ~wr_req'
    BY <1>8, <2>2, ArbiterMoves DEF Writing
  <2> QED  BY <2>1, <2>3 DEF HandshakePart
<1>13. CASE Port!Answer
  <2>1. /\ pend # << >> /\ latching' = latching
        /\ ~wr_ack' /\ ~rd_ack' /\ rd_valid'
        /\ wr_ack' \in BOOLEAN /\ rd_ack' \in BOOLEAN /\ rd_valid' \in BOOLEAN
        /\ rest' = IF rest = 0 THEN 0 ELSE rest - 1
    BY <1>13 DEF Port!Answer
  <2>2. rd_ack \/ state = "WAIT_RD_DATA"
    BY <1>2, <2>1 DEF HandshakePart
  <2>3. latching = {} /\ ~wr_req'
    BY <1>2, <1>8, <2>2 DEF HandshakePart, Writing
  <2>4. rest' \in {0, 1, 2} /\ (rd_req' => rest' # 0)
    BY <1>2, <1>8, <2>1, <2>2 DEF HandshakePart
  <2>5. state' = "WAIT_RD_DATA"
    BY <1>5, <2>1
  <2> QED  BY <2>1, <2>3, <2>4, <2>5 DEF HandshakePart
<1> QED  BY <1>1, <1>9, <1>10, <1>11, <1>12, <1>13

(* The memory changes in the cycle after the acknowledgement of a write.      *)
LEMMA MemoryMoves ==
  ASSUME Parts, FrameParts, NEW in \in Inputs, Clock(in)
  PROVE  /\ ~wr_ack => mem' = mem
         /\ wr_ack => mem' = [a \in Addresses |-> IF a = wr_addr_latch THEN wr_data_latch
                                                  ELSE mem[a]]
<1> DEFINE Write == Port!AcceptWrite(wr_req, wr_addr_latch)
           Take == Port!TakeData(wr_data_latch)
           Read == Port!AcceptRead(wr_req, rd_req, RdAddr)
<1>1. Port!Wait \/ Write \/ Take \/ Read \/ Port!Answer
  BY PacedClock DEF Port!PortClock
<1>2. HandshakePart
  BY DEF FrameParts
<1>3. latching = IF wr_ack THEN {wr_addr_latch} ELSE {}
  BY <1>2 DEF HandshakePart
<1>4. CASE Take
  BY <1>3, <1>4 DEF Port!TakeData, Addresses
<1>5. CASE Port!Answer
  <2>1. ~wr_ack
    BY <1>2, <1>5 DEF HandshakePart, Port!Answer
  <2> QED  BY <1>5, <2>1 DEF Port!Answer
<1>6. CASE Port!Wait \/ Write \/ Read
  BY <1>3, <1>6 DEF Port!Wait, Port!AcceptWrite, Port!AcceptRead, Port!Free
<1> QED  BY <1>1, <1>4, <1>5, <1>6

(* The address of a read stands while it is waited for.                       *)
LEMMA AddressStands ==
  ASSUME Parts, FrameParts, NEW in \in Inputs, Clock(in),
         \/ state \in {"ISSUE_RD", "WAIT_RD_ACK"}
         \/ state = "WAIT_RD_DATA" /\ state' = "WAIT_RD_DATA"
  PROVE  /\ RdAddr' = RdAddr /\ RdAddr \in Addresses
         /\ rd_burst_cnt' = IF ReadWord(in) THEN rd_burst_cnt + 1 ELSE rd_burst_cnt
<1>1. ~VsyncFall(in)
  BY PacedClock DEF ReadQuiet
<1>2. read_bank' = read_bank
  BY <1>1, InputsAre DEF Edge, Banks, Swap
<1>3. CASE ReadWord(in)
  <2>1. state = "WAIT_RD_DATA"
    BY <1>3 DEF ReadWord
  <2>2. rd_burst_cnt # Burst - 1
    BY <1>3, <2>1, LastWord
  <2>3. rd_ptr' = rd_ptr /\ rd_burst_cnt' = rd_burst_cnt + 1
    BY <1>1, <1>3, <2>2 DEF ReadWord, RewoundRead
  <2>4. RdAddr' = RdAddr
    BY <1>2, <2>3 DEF RdAddr, Base, BANK_WORDS, FRAME_PIXELS
  <2> QED  BY <1>3, <2>3, <2>4, AddressOf DEF RdAddr, Parts, BanksPart, ReadPart
<1>4. CASE ~ReadWord(in)
  <2>1. NoWordRead(in)
    BY <1>4, ArbiterMoves DEF FrameParts, HandshakePart
  <2>2. rd_ptr' = rd_ptr /\ rd_burst_cnt' = rd_burst_cnt
    BY <1>1, <2>1 DEF NoWordRead, RewoundRead
  <2>3. RdAddr' = RdAddr
    BY <1>2, <2>2 DEF RdAddr, Base, BANK_WORDS, FRAME_PIXELS
  <2> QED  BY <1>4, <2>2, <2>3, AddressOf DEF RdAddr, Parts, BanksPart, ReadPart
<1> QED  BY <1>3, <1>4

(* A burst as a sequence of words, and a sequence with its first word taken.  *)
LEMMA BurstIs ==
  ASSUME NEW m \in BurstsKept
  PROVE  m \in Seq(Words \cup {NoWord}) /\ Len(m) = Burst
BY Sizes DEF BurstsKept

LEMMA TailIs ==
  ASSUME NEW S, NEW s \in Seq(S), s # << >>
  PROVE  /\ Head(s) \in S /\ Head(s) = s[1] /\ 1 \in 1 .. Len(s)
         /\ Tail(s) \in Seq(S) /\ Len(Tail(s)) = Len(s) - 1 /\ Len(s) \in Nat
         /\ \A i \in 1 .. Len(Tail(s)) : i + 1 \in 1 .. Len(s) /\ Tail(s)[i] = s[i + 1]
<1>1. Len(s) \in Nat /\ Len(s) # 0
  BY EmptyIs
<1> QED  BY <1>1

(* What the port does while an answer is under way.                           *)
LEMMA AnswerGoesOn ==
  ASSUME Parts, FrameParts, NEW in \in Inputs, Clock(in), Reading, state' = "WAIT_RD_DATA"
  PROVE  AnswerPart'
<1> DEFINE W == Words \cup {NoWord}
<1>1. HandshakePart /\ AnswerPart /\ HandshakePart'
  BY HandshakeStep DEF FrameParts
<1>2. state = "WAIT_RD_DATA" \/ (state = "WAIT_RD_ACK" /\ rd_ack)
  BY <1>1 DEF Reading, HandshakePart
<1>3. ~wr_ack /\ (rd_req => rest # 0) /\ (wr_req => rest # 0) /\ latching = {}
  BY <1>1, <1>2 DEF HandshakePart
<1>4. Port!Wait \/ Port!Answer
  BY <1>3, PacedClock DEF Port!PortClock, Port!AcceptWrite, Port!AcceptRead,
     Port!TakeData, Port!Free
<1>5. mem' = mem
  BY <1>3, MemoryMoves
<1>6. RdAddr' = RdAddr
  BY <1>2, AddressStands
<1>7. rd_burst_cnt' = Answered
  <2>1. rd_valid <=> ReadWord(in)
    BY <1>1, <1>2, ArbiterMoves, InputsAre DEF ReadWord, HandshakePart
  <2>2. rd_burst_cnt \in Nat
    BY Sizes DEF Parts, ReadPart
  <2> QED  BY <1>2, <2>1, <2>2, AddressStands DEF Answered
<1>8. Answered \in Nat /\ pend \in Seq(W) /\ Len(pend) + Answered = Burst
      /\ (\A i \in 1 .. Len(pend) : pend[i] = mem[RdAddr][Answered + i])
  <2>1. rd_burst_cnt \in Nat
    BY Sizes DEF Parts, ReadPart
  <2> QED  BY <1>1, <2>1 DEF AnswerPart, Answered
<1>9. CASE Port!Wait
  <2>1. pend' = pend /\ ~rd_valid' /\ rd_data' = rd_data
    BY <1>9 DEF Port!Wait, Port!NoStrobe
  <2>2. Answered' = Answered
    BY <1>7, <1>8, <2>1 DEF Answered
  <2>3. rd_data' \in W
    BY <1>1, <2>1 DEF AnswerPart
  <2> QED  BY <1>5, <1>6, <1>8, <2>1, <2>2, <2>3 DEF AnswerPart
<1>10. CASE Port!Answer
  <2>1. pend # << >> /\ pend' = Tail(pend) /\ rd_valid' /\ rd_data' = Head(pend)
    BY <1>10 DEF Port!Answer
  <2>2. /\ Head(pend) \in W /\ Head(pend) = pend[1] /\ 1 \in 1 .. Len(pend)
        /\ Tail(pend) \in Seq(W) /\ Len(Tail(pend)) = Len(pend) - 1 /\ Len(pend) \in Nat
        /\ \A i \in 1 .. Len(Tail(pend)) :
             i + 1 \in 1 .. Len(pend) /\ Tail(pend)[i] = pend[i + 1]
    BY <1>8, <2>1, TailIs
  <2>3. Answered' = Answered + 1
    BY <1>7, <1>8, <2>1 DEF Answered
  <2>4. rd_data' = mem'[RdAddr'][rd_burst_cnt' + 1]
    BY <1>5, <1>6, <1>7, <1>8, <2>1, <2>2
  <2>5. Len(pend') + Answered' = Burst
    BY <1>8, <2>1, <2>2, <2>3
  <2>6. ASSUME NEW i \in 1 .. Len(pend')
        PROVE  pend'[i] = mem'[RdAddr'][Answered' + i]
    <3>1. i + 1 \in 1 .. Len(pend) /\ pend'[i] = pend[i + 1] /\ i \in Nat
      BY <2>1, <2>2
    <3>2. Answered + (i + 1) = Answered' + i
      BY <1>8, <2>3, <3>1
    <3>3. pend[i + 1] = mem[RdAddr][Answered + (i + 1)]
      BY <1>8, <3>1
    <3> QED  BY <1>5, <1>6, <3>1, <3>2, <3>3
  <2> QED  BY <2>1, <2>2, <2>4, <2>5, <2>6 DEF AnswerPart
<1> QED  BY <1>4, <1>9, <1>10

LEMMA AnswerStep ==
  ASSUME Parts, FrameParts, NEW in \in Inputs, Clock(in)
  PROVE  AnswerPart'
<1> DEFINE W == Words \cup {NoWord}
           Read == Port!AcceptRead(wr_req, rd_req, RdAddr)
<1>1. HandshakePart /\ AnswerPart /\ HandshakePart'
  BY HandshakeStep DEF FrameParts
<1>2. state' = "WAIT_RD_DATA" => Reading
  BY ArbiterMoves DEF Reading
<1>3. CASE state' # "WAIT_RD_DATA"
  <2>1. rd_burst_cnt' = 0
    <3>1. CASE state = "WAIT_RD_DATA"
      <4>1. ReadWord(in) /\ rd_burst_cnt = Burst - 1
        BY <1>1, <1>3, <3>1, ArbiterMoves, LastWord DEF HandshakePart
      <4> QED  BY <4>1 DEF ReadWord
    <3>2. CASE state # "WAIT_RD_DATA"
      BY <1>1, <3>2, ArbiterMoves DEF AnswerPart, NoWordRead, RewoundRead
    <3> QED  BY <3>1, <3>2
  <2>2. ~rd_valid'
    BY <1>1, <1>3 DEF HandshakePart
  <2>3. CASE Read
    <3>1. rd_req /\ rest = 0 /\ pend' = mem[RdAddr] /\ rd_data' = rd_data /\ mem' = mem
      BY <2>3 DEF Port!AcceptRead, Port!Free
    <3>2. state = "WAIT_RD_ACK"
      BY <1>1, <3>1 DEF HandshakePart
    <3>3. RdAddr' = RdAddr /\ RdAddr \in Addresses
      BY <3>2, AddressStands
    <3>4. mem[RdAddr] \in BurstsKept
      BY <3>3 DEF FrameParts, MemoryPart
    <3>5. pend' \in Seq(W) /\ Len(pend') = Burst
      BY <3>1, <3>4, BurstIs
    <3>6. Answered' = 0
      BY <2>1, <2>2 DEF Answered
    <3>7. \A i \in 1 .. Len(pend') : pend'[i] = mem'[RdAddr'][Answered' + i]
      BY <3>1, <3>3, <3>6
    <3> QED
      BY <1>1, <1>3, <2>1, <2>2, <3>1, <3>5, <3>6, <3>7, Sizes DEF AnswerPart
  <2>4. CASE ~Read
    <3>1. ~rd_ack' /\ ~Reading'
      BY <1>3, <2>4, PacedClock DEF Port!PortClock, Port!Wait, Port!AcceptWrite,
         Port!TakeData, Port!Answer, Port!NoStrobe, Reading
    <3>2. (pend' = pend /\ rd_data' = rd_data)
          \/ (pend # << >> /\ pend' = Tail(pend) /\ rd_data' = Head(pend))
      BY <2>4, PacedClock DEF Port!PortClock, Port!Wait, Port!AcceptWrite,
         Port!TakeData, Port!Answer
    <3>3. pend \in Seq(W) /\ rd_data \in W
      BY <1>1 DEF AnswerPart
    <3>4. pend' \in Seq(W) /\ rd_data' \in W
      BY <3>2, <3>3, TailIs
    <3> QED  BY <2>1, <2>2, <3>1, <3>4 DEF AnswerPart
  <2> QED  BY <2>3, <2>4
<1> QED  BY <1>2, <1>3, AnswerGoesOn
-----------------------------------------------------------------------------
(* The frame being stored.                                                    *)

(* A word is shifted into the latch: the words there move down by one.        *)
LEMMA LatchShift ==
  ASSUME Parts, NEW in \in Inputs, Capture(in)
  PROVE  /\ \A i \in 1 .. Burst - 1 : wr_data_latch'[i] = wr_data_latch[i + 1]
         /\ wr_data_latch'[Burst] = in.cam_q
<1>1. wr_data_latch \in BurstsKept
  BY DEF Parts, WritePart, BurstsKept
<1>2. wr_data_latch \in Seq(Words \cup {NoWord}) /\ Len(wr_data_latch) = Burst
  BY <1>1, BurstIs
<1>3. wr_data_latch # << >>
  <2>1. Len(<< >>) = 0
    OBVIOUS
  <2> QED  BY <1>2, <2>1, Sizes
<1>4. PICK t : t = Tail(wr_data_latch)
  OBVIOUS
<1>5. t \in Seq(Words \cup {NoWord}) /\ Len(t) = Burst - 1
      /\ \A i \in 1 .. Burst - 1 : t[i] = wr_data_latch[i + 1]
  BY <1>2, <1>3, <1>4, TailIs
<1>6. PICK q : q = in.cam_q
  OBVIOUS
<1>7. wr_data_latch' = Append(t, q)
  BY <1>4, <1>6 DEF Capture
<1>8. (\A i \in 1 .. Burst - 1 : Append(t, q)[i] = t[i]) /\ Append(t, q)[Burst] = q
  BY <1>5, Sizes
<1> QED  BY <1>5, <1>6, <1>7, <1>8

LEMMA StoreTurns ==
  ASSUME Parts, FrameParts, NEW in \in Inputs, Clock(in), FrameDone(in)
  PROVE  StorePart' /\ StoredWords' = 0
<1>1. ~Writing /\ ~cam_rd_pending
  BY FrameEnd
<1>2. ~Capture(in) /\ Taken' = 0
  BY <1>1, CameraTurns DEF Capture
<1>3. wr_ptr' = 0 /\ wr_burst_cnt' = 0
  BY <1>2, ArbiterMoves DEF NoCapture, RewoundWrite
<1>4. ~Writing'
  BY <1>1, <1>2, ArbiterMoves DEF Writing
<1>5. InLatch' = 0
  BY <1>3, <1>4 DEF InLatch
<1>6. StoredWords' = 0
  BY <1>2, <1>5 DEF StoredWords
<1> QED  BY <1>2, <1>3, <1>4, <1>5, <1>6, Sizes DEF StorePart

LEMMA StoreCaptures ==
  ASSUME Parts, FrameParts, NEW in \in Inputs, Clock(in), Capture(in)
  PROVE  StorePart' /\ StoredWords' = StoredWords
<1> DEFINE c == wr_burst_cnt
           D == StoredWords
<1>1. ~FrameDone(in) /\ state = "FILL_CAM" /\ ~Writing
  BY FrameEnd DEF Capture, Writing
<1>2. InLatch = c /\ c \in Nat /\ c < Burst /\ StorePart /\ CameraPart
  BY <1>1, Sizes DEF InLatch, Parts, WritePart, FrameParts
<1>3. Taken \in Nat /\ Taken < FRAME_PIXELS /\ Taken' = Taken + 1 /\ frame' = frame
  BY <1>1, <1>2, CameraGoesOn, WordsTaken
<1>4. D = Taken - c /\ D \in Whole
  BY <1>2 DEF StoredWords, StorePart
<1>5. D \in Nat /\ D < FRAME_PIXELS /\ D + Burst <= FRAME_PIXELS /\ D + c = Taken
  <2>1. D \in Nat
    BY <1>4, WholeFacts
  <2>2. D < FRAME_PIXELS /\ D + c = Taken
    BY <1>2, <1>3, <1>4, <2>1, Sizes
  <2> QED  BY <1>4, <2>1, <2>2, WholeFacts
<1>6. wr_ptr = D
  BY <1>2, <1>4, <1>5 DEF StorePart
<1>7. write_bank' = write_bank
  BY <1>1 DEF Clock, Edge, Banks
<1>8. wr_addr_latch' = Base(write_bank) + D
  <2>1. c = 0 => wr_addr_latch' = Base(write_bank) + wr_ptr
    BY DEF Capture
  <2>2. c # 0 => wr_addr_latch' = wr_addr_latch /\ InLatch > 0
    BY <1>2 DEF Capture
  <2>3. InLatch > 0 => wr_addr_latch = Base(write_bank) + D
    BY <1>2 DEF StorePart
  <2> QED  BY <1>6, <2>1, <2>2, <2>3
<1>9. in.cam_q \in Late(frame, D + c)
  BY <1>2, <1>5, InputsAre DEF CameraPart
<1>10. ASSUME NEW j \in 1 .. c + 1
       PROVE  wr_data_latch'[Burst - (c + 1) + j] \in Late(frame, D + j - 1)
  <2>1. CASE j = c + 1
    <3>1. Burst - (c + 1) + j = Burst /\ D + j - 1 = D + c
      BY <1>2, <1>5, <2>1, Sizes
    <3> QED  BY <1>9, <3>1, LatchShift
  <2>2. CASE j \in 1 .. c
    <3>1. /\ Burst - (c + 1) + j \in 1 .. Burst - 1
          /\ (Burst - (c + 1) + j) + 1 = Burst - c + j
      BY <1>2, <2>2, Sizes
    <3>2. wr_data_latch'[Burst - (c + 1) + j] = wr_data_latch[Burst - c + j]
      BY <3>1, LatchShift
    <3>3. wr_data_latch[Burst - c + j] \in Late(frame, D + j - 1)
      BY <1>2, <2>2 DEF StorePart
    <3> QED  BY <3>2, <3>3
  <2> QED  BY <1>2, <2>1, <2>2
<1>11. Taken' - (c + 1) = D
  BY <1>2, <1>3, <1>5
<1>12. CASE c = Burst - 1
  <2>1. wr_burst_cnt' = 0 /\ state' = "ISSUE_WR" /\ wr_ptr' = NextWrPtr(in)
    BY <1>12 DEF Capture
  <2>2. Writing' /\ InLatch' = Burst /\ c + 1 = Burst
    BY <1>2, <1>12, <2>1, Sizes DEF Writing, InLatch
  <2>3. StoredWords' = D
    BY <1>11, <2>2 DEF StoredWords
  <2>4. Taken' - wr_burst_cnt' = D + Burst
    <3>1. Taken' = D + (c + 1)
      BY <1>2, <1>3, <1>5
    <3>2. c + 1 = Burst
      BY <2>2
    <3>3. wr_burst_cnt' = 0
      BY <2>1
    <3> QED  BY <1>5, <3>1, <3>2, <3>3, Sizes
  <2>5. wr_ptr' = IF D + Burst < FRAME_PIXELS THEN D + Burst ELSE FRAME_PIXELS - Burst
    <3>1. wr_ptr' = IF D + Burst < FRAME_PIXELS THEN D + Burst ELSE D
      BY <1>1, <1>6, <2>1 DEF NextWrPtr, RewoundWrite
    <3>2. ~(D + Burst < FRAME_PIXELS) => D = FRAME_PIXELS - Burst
      BY <1>5, Sizes
    <3> QED  BY <3>1, <3>2
  <2>6. \A j \in 1 .. InLatch' :
          wr_data_latch'[Burst - InLatch' + j] \in Late(frame', StoredWords' + j - 1)
    BY <1>3, <1>10, <2>2, <2>3
  <2>7. wr_addr_latch' = Base(write_bank') + StoredWords'
    BY <1>7, <1>8, <2>3
  <2> QED  BY <1>4, <2>1, <2>3, <2>4, <2>5, <2>6, <2>7 DEF StorePart
<1>13. CASE c # Burst - 1
  <2>1. wr_burst_cnt' = c + 1 /\ state' = "FILL_CAM" /\ wr_ptr' = wr_ptr
    BY <1>1, <1>13 DEF Capture, RewoundWrite
  <2>2. ~Writing' /\ InLatch' = c + 1
    BY <2>1 DEF Writing, InLatch
  <2>3. StoredWords' = D
    BY <1>11, <2>2 DEF StoredWords
  <2>4. Taken' - wr_burst_cnt' = D
    BY <1>11, <2>1
  <2>5. wr_ptr' = D
    BY <1>6, <2>1
  <2>6. \A j \in 1 .. InLatch' :
          wr_data_latch'[Burst - InLatch' + j] \in Late(frame', StoredWords' + j - 1)
    BY <1>3, <1>10, <2>2, <2>3
  <2>7. wr_addr_latch' = Base(write_bank') + StoredWords'
    BY <1>7, <1>8, <2>3
  <2> QED  BY <1>4, <1>5, <2>2, <2>3, <2>4, <2>5, <2>6, <2>7 DEF StorePart
<1> QED  BY <1>12, <1>13

LEMMA StoreWaits ==
  ASSUME Parts, FrameParts, NEW in \in Inputs, Clock(in), ~FrameDone(in), ~Capture(in)
  PROVE  /\ StorePart'
         /\ StoredWords' = IF wr_ack THEN StoredWords + Burst ELSE StoredWords
<1>1. /\ wr_ptr' = wr_ptr /\ wr_burst_cnt' = wr_burst_cnt
      /\ wr_addr_latch' = wr_addr_latch /\ wr_data_latch' = wr_data_latch
  BY ArbiterMoves DEF NoCapture, RewoundWrite
<1>2. Taken' = Taken /\ frame' = frame /\ write_bank' = write_bank
  BY CameraGoesOn DEF Clock, Edge, Banks
<1>3. StorePart /\ (wr_ack => state = "WAIT_WR_ACK")
  BY DEF FrameParts, HandshakePart
<1>4. CASE wr_ack
  <2>1. Writing /\ ~Writing' /\ wr_burst_cnt = 0 /\ InLatch = Burst /\ InLatch' = 0
    BY <1>1, <1>3, <1>4, ArbiterMoves DEF Writing, InLatch, StorePart
  <2>2. StoredWords = Taken - Burst /\ StoredWords \in Whole /\ StoredWords' = Taken - 0
    BY <1>2, <1>3, <2>1 DEF StoredWords, StorePart
  <2>3. Taken \in Nat /\ Taken <= FRAME_PIXELS
    BY WordsTaken DEF FrameParts
  <2>4. StoredWords' = StoredWords + Burst /\ StoredWords < FRAME_PIXELS
    BY <2>2, <2>3, Sizes
  <2>5. StoredWords' \in Whole
    BY <2>2, <2>4, WholeFacts
  <2> QED  BY <1>1, <1>2, <1>3, <1>4, <2>1, <2>4, <2>5 DEF StorePart
<1>5. CASE ~wr_ack
  <2>1. Writing' <=> Writing
    BY <1>5, ArbiterMoves DEF Writing
  <2>2. InLatch' = InLatch
    BY <1>1, <2>1 DEF InLatch
  <2>3. StoredWords' = StoredWords
    BY <1>2, <2>2 DEF StoredWords
  <2> QED  BY <1>1, <1>2, <1>3, <1>5, <2>1, <2>2, <2>3 DEF StorePart
<1> QED  BY <1>4, <1>5

LEMMA StoreStep ==
  ASSUME Parts, FrameParts, NEW in \in Inputs, Clock(in)
  PROVE  /\ StorePart'
         /\ StoredWords' = IF FrameDone(in) THEN 0
                           ELSE IF wr_ack THEN StoredWords + Burst ELSE StoredWords
<1>1. Capture(in) => ~wr_ack /\ ~FrameDone(in)
  BY FrameEnd DEF Capture, FrameParts, HandshakePart
<1> QED  BY <1>1, StoreTurns, StoreCaptures, StoreWaits

(* What the banks hold.                                                       *)
LEMMA StoredIs ==
  ASSUME NEW bank \in {0, 1}, NEW k \in 0 .. FRAME_PIXELS - 1
  PROVE  Stored(bank, k) = mem[Base(bank) + Start(k)][(k % Burst) + 1]
         /\ Stored(bank, k)' = mem'[Base(bank) + Start(k)][(k % Burst) + 1]
<1>1. Start(k) \in Nat /\ k % Burst \in Nat /\ k = Start(k) + (k % Burst)
  BY Place, BurstFits, Sizes
<1>2. PICK x \in Nat, y \in Nat : x = Start(k) /\ y = k % Burst
  BY <1>1
<1>3. PICK z \in Nat : z = Base(bank)
  BY Sizes
<1>4. k \in Nat /\ k - y = x /\ z + k - y = z + x
  BY <1>1, <1>2, <1>3
<1>5. Base(bank) + k - (k % Burst) = Base(bank) + Start(k)
  BY <1>2, <1>3, <1>4
<1> QED  BY <1>5 DEF Stored

(* A burst is taken: its words come from the latch, all others stay.          *)
LEMMA TakenIn ==
  ASSUME NEW bank \in {0, 1}, NEW o \in Offsets, wr_addr_latch = Base(bank) + o,
         mem' = [a \in Addresses |-> IF a = wr_addr_latch THEN wr_data_latch ELSE mem[a]]
  PROVE  \A other \in {0, 1}, k \in 0 .. FRAME_PIXELS - 1 :
           Stored(other, k)' = IF other = bank /\ o <= k /\ k < o + Burst
                               THEN wr_data_latch[(k % Burst) + 1] ELSE Stored(other, k)
<1> SUFFICES ASSUME NEW other \in {0, 1}, NEW k \in 0 .. FRAME_PIXELS - 1
             PROVE  Stored(other, k)' =
                      IF other = bank /\ o <= k /\ k < o + Burst
                      THEN wr_data_latch[(k % Burst) + 1] ELSE Stored(other, k)
  OBVIOUS
<1>1. Start(k) \in Offsets /\ Base(other) + Start(k) \in Addresses
  BY Place, AddressOf
<1>2. o \in Whole
  <2>1. PICK b \in 0 .. FrameBursts - 1 : o = b * Burst
    BY DEF Offsets
  <2>2. b \in 0 .. FrameBursts
    BY GeometryAssumption
  <2> QED  BY <2>1, <2>2 DEF Whole
<1>3. Base(other) + Start(k) = wr_addr_latch
        <=> other = bank /\ o <= k /\ k < o + Burst
  <2>1. Base(other) + Start(k) = Base(bank) + o <=> other = bank /\ Start(k) = o
    BY <1>1, OneBurst
  <2>2. Start(k) = o <=> o <= k /\ k < o + Burst
    BY <1>2, Place
  <2> QED  BY <2>1, <2>2
<1>4. mem'[Base(other) + Start(k)] = IF Base(other) + Start(k) = wr_addr_latch
                                     THEN wr_data_latch ELSE mem[Base(other) + Start(k)]
  BY <1>1
<1> QED  BY <1>3, <1>4, StoredIs

LEMMA MemoryStep ==
  ASSUME Parts, FrameParts, NEW in \in Inputs, Clock(in)
  PROVE  MemoryPart'
<1>1. MemoryPart /\ StorePart /\ CameraPart /\ HandshakePart
  BY DEF FrameParts
<1>2. write_bank \in {0, 1} /\ 1 - write_bank \in {0, 1}
      /\ 1 - (1 - write_bank) = write_bank /\ 1 - write_bank # write_bank
  BY DEF Parts, BanksPart
<1>3. frame \in Frames /\ LastDone = (frame + 2) % 3
  BY <1>1 DEF CameraPart, LastDone
<1>4. CASE wr_ack
  <2>2. Writing /\ ~FrameDone(in) /\ wr_burst_cnt = 0 /\ InLatch = Burst
    BY <1>1, <1>4, FrameEnd DEF HandshakePart, Writing, StorePart, InLatch
  <2>1. PICK wb \in {0, 1} : wb = write_bank
    BY <1>2
  <2>3. PICK D : D = StoredWords
    OBVIOUS
  <2>4. D \in Whole /\ D + Burst = Taken /\ D < FRAME_PIXELS
    <3>1. D \in Whole /\ D = Taken - Burst
      BY <1>1, <2>2, <2>3 DEF StorePart, StoredWords
    <3>2. Taken \in Nat /\ Taken <= FRAME_PIXELS
      BY <1>1, WordsTaken
    <3> QED  BY <3>1, <3>2, Sizes
  <2>5. D \in Offsets /\ D + Burst <= FRAME_PIXELS /\ D \in Nat
    BY <2>4, WholeFacts
  <2>6. wr_addr_latch = Base(write_bank) + D
        /\ \A j \in 1 .. Burst : wr_data_latch[Burst - Burst + j] \in Late(frame, D + j - 1)
    BY <1>1, <2>2, <2>3, Sizes DEF StorePart
  <2>7. mem' = [a \in Addresses |-> IF a = wr_addr_latch THEN wr_data_latch ELSE mem[a]]
    BY <1>4, MemoryMoves
  <2>8. \A other \in {0, 1}, k \in 0 .. FRAME_PIXELS - 1 :
           Stored(other, k)' = IF other = wb /\ D <= k /\ k < D + Burst
                               THEN wr_data_latch[(k % Burst) + 1] ELSE Stored(other, k)
    <3>1. wb \in {0, 1} /\ D \in Offsets /\ wr_addr_latch = Base(wb) + D
      BY <2>1, <2>5, <2>6
    <3> QED  BY <2>7, <3>1, TakenIn
  <2>9. mem' \in [Addresses -> BurstsKept]
    <3>1. wr_data_latch \in BurstsKept
      BY DEF Parts, WritePart, BurstsKept
    <3> QED  BY <1>1, <2>7, <3>1 DEF MemoryPart
  <2>10. frame' = frame /\ write_bank' = write_bank /\ LastDone' = LastDone
    BY <2>2, CameraGoesOn DEF Clock, Edge, Banks, LastDone
  <2>11. StoredWords' = D + Burst
    BY <1>4, <2>2, <2>3, StoreStep
  <2>12. ASSUME NEW k \in 0 .. StoredWords' - 1
         PROVE  Stored(wb, k)' \in Late(frame, k)
    <3>1. k \in 0 .. FRAME_PIXELS - 1 /\ k < D + Burst
      BY <2>5, <2>11, Sizes
    <3>2. CASE D <= k
      <4>1. Start(k) = D /\ k = Start(k) + (k % Burst) /\ k % Burst \in 0 .. Burst - 1
        BY <2>4, <3>1, <3>2, Place
      <4>2. PICK j \in 0 .. Burst - 1 : j = k % Burst
        BY <4>1
      <4>3. k = D + j /\ j + 1 \in 1 .. Burst /\ Burst - Burst + (j + 1) = j + 1
            /\ D + (j + 1) - 1 = k
        BY <2>5, <4>1, <4>2, Sizes
      <4>4. wr_data_latch[j + 1] \in Late(frame, k)
        BY <2>6, <4>3
      <4>5. Stored(wb, k)' = wr_data_latch[j + 1]
        BY <2>8, <3>1, <3>2, <4>2
      <4> QED  BY <4>4, <4>5
    <3>3. CASE ~(D <= k)
      <4>1. k \in 0 .. D - 1
        BY <2>5, <3>1, <3>3
      <4>2. Stored(wb, k) \in Late(frame, k)
        BY <1>1, <2>1, <2>3, <4>1 DEF MemoryPart, HoldsUpTo
      <4>3. Stored(wb, k)' = Stored(wb, k)
        BY <2>8, <3>1, <3>3
      <4> QED  BY <4>2, <4>3
    <3> QED  BY <3>2, <3>3
  <2>13. ASSUME NEW k \in 0 .. FRAME_PIXELS - 1
         PROVE  Stored(1 - wb, k)' = Stored(1 - wb, k)
    BY <1>2, <2>1, <2>8
  <2>14. new_frame_ready' \/ read_frame_valid' => new_frame_ready \/ read_frame_valid
    BY <2>2 DEF Clock, Edge, Banks, Swap
  <2>15. HoldsUpTo(StoredWords, write_bank, frame)'
    BY <2>1, <2>10, <2>12 DEF HoldsUpTo, Stored
  <2>16. new_frame_ready \/ read_frame_valid =>
           HoldsUpTo(FRAME_PIXELS, 1 - write_bank, LastDone)'
    BY <1>1, <2>1, <2>10, <2>13 DEF MemoryPart, HoldsUpTo, Stored
  <2> QED  BY <2>9, <2>14, <2>15, <2>16 DEF MemoryPart
<1>5. CASE ~wr_ack
  <2>1. mem' = mem
    BY <1>5, MemoryMoves
  <2>2. mem' \in [Addresses -> BurstsKept]
    BY <1>1, <2>1 DEF MemoryPart
  <2>3. CASE FrameDone(in)
    <3>1. StoredWords = FRAME_PIXELS /\ StoredWords' = 0 /\ frame' = NextFrame(frame)
          /\ write_bank' = 1 - write_bank
      BY <2>3, FrameEnd, StoreStep, CameraTurns DEF Clock, Edge, Banks
    <3>2. LastDone' = frame
      BY <1>3, <3>1, LateFacts DEF LastDone
    <3>3. HoldsUpTo(FRAME_PIXELS, write_bank, frame)
      BY <1>1, <3>1 DEF MemoryPart
    <3>4. HoldsUpTo(FRAME_PIXELS, 1 - write_bank, LastDone)'
      BY <1>2, <2>1, <3>1, <3>2, <3>3 DEF HoldsUpTo, Stored
    <3>5. HoldsUpTo(StoredWords, write_bank, frame)'
      BY <3>1 DEF HoldsUpTo
    <3> QED  BY <2>2, <3>4, <3>5 DEF MemoryPart
  <2>4. CASE ~FrameDone(in)
    <3>1. StoredWords' = StoredWords /\ frame' = frame /\ write_bank' = write_bank
          /\ LastDone' = LastDone
      BY <1>5, <2>4, StoreStep, CameraGoesOn DEF Clock, Edge, Banks, LastDone
    <3>2. new_frame_ready' \/ read_frame_valid' => new_frame_ready \/ read_frame_valid
      BY <2>4 DEF Clock, Edge, Banks, Swap
    <3>3. HoldsUpTo(StoredWords, write_bank, frame)'
      BY <1>1, <2>1, <3>1 DEF MemoryPart, HoldsUpTo, Stored
    <3>4. new_frame_ready \/ read_frame_valid =>
            HoldsUpTo(FRAME_PIXELS, 1 - write_bank, LastDone)'
      BY <1>1, <2>1, <3>1 DEF MemoryPart, HoldsUpTo, Stored
    <3> QED  BY <2>2, <3>2, <3>3, <3>4 DEF MemoryPart
  <2> QED  BY <2>3, <2>4
<1> QED  BY <1>4, <1>5
-----------------------------------------------------------------------------
(* The words on their way to the VGA FIFO.                                    *)

(* What is shown is the other bank.                                           *)
LEMMA ShownIsStored ==
  ASSUME Parts, FrameParts, Showing, NEW k \in 0 .. FRAME_PIXELS - 1
  PROVE  Stored(read_bank, k) \in OneLate(k)
<1>1. read_bank = 1 - write_bank
  BY DEF Showing, Parts, BanksPart, BanksApart
<1>2. HoldsUpTo(FRAME_PIXELS, 1 - write_bank, LastDone) /\ frame \in Frames
  BY DEF Showing, FrameParts, MemoryPart, CameraPart
<1>3. OneLate(k) = Late(LastDone, k)
  BY <1>2, OneLateIs
<1> QED  BY <1>1, <1>2, <1>3 DEF HoldsUpTo

(* Between two vsyncs nothing new is shown, and of the same frame.            *)
LEMMA ShowingStays ==
  ASSUME Parts, FrameParts, NEW in \in Inputs, Clock(in), ~VsyncFall(in), Showing'
  PROVE  Showing /\ frame' = frame
<1>1. ~FrameDone(in) /\ Showing
  BY DEF Clock, Edge, Banks, Swap, Showing
<1> QED  BY <1>1, CameraGoesOn

(* The word read is the one at rd_ptr and rd_burst_cnt.                       *)
LEMMA WordRead ==
  ASSUME Parts, FrameParts, rd_valid
  PROVE  /\ rd_ptr + rd_burst_cnt \in 0 .. FRAME_PIXELS - 1
         /\ rd_data = Stored(read_bank, rd_ptr + rd_burst_cnt)
<1>1. /\ rd_ptr \in Offsets /\ rd_burst_cnt \in 0 .. Burst - 1
      /\ read_bank \in {0, 1}
      /\ rd_data = mem[RdAddr][rd_burst_cnt + 1]
  BY DEF Parts, ReadPart, BanksPart, FrameParts, AnswerPart
<1>2. rd_ptr \in Nat /\ rd_ptr + Burst <= FRAME_PIXELS /\ rd_burst_cnt \in Nat
  BY <1>1, BurstFits, Sizes
<1>3. rd_ptr \in Whole
  <2>1. PICK b \in 0 .. FrameBursts - 1 : rd_ptr = b * Burst
    BY <1>1 DEF Offsets
  <2>2. b \in 0 .. FrameBursts
    BY GeometryAssumption
  <2> QED  BY <2>1, <2>2 DEF Whole
<1>4. PICK k \in 0 .. FRAME_PIXELS - 1 : k = rd_ptr + rd_burst_cnt
  BY <1>1, <1>2, Sizes
<1>5. Start(k) = rd_ptr
  <2>1. rd_ptr <= k /\ k < rd_ptr + Burst
    BY <1>1, <1>2, <1>4, Sizes
  <2> QED  BY <1>3, <2>1, Place
<1>6. k % Burst = rd_burst_cnt
  <2>1. PICK r \in 0 .. Burst - 1 : r = k % Burst
    BY Place
  <2>2. k = rd_ptr + r
    BY <1>5, <2>1, Place
  <2> QED  BY <1>2, <1>4, <2>1, <2>2, Sizes
<1>7. Stored(read_bank, k) = mem[Base(read_bank) + rd_ptr][rd_burst_cnt + 1]
  BY <1>1, <1>5, <1>6, StoredIs
<1> QED  BY <1>1, <1>4, <1>7 DEF RdAddr

LEMMA PlaceMoves ==
  ASSUME Parts, FrameParts, NEW in \in Inputs, Clock(in), ReadWord(in)
  PROVE  rd_ptr' + rd_burst_cnt' = After(rd_ptr + rd_burst_cnt)
<1>1. state = "WAIT_RD_DATA" /\ ~VsyncFall(in)
  BY PacedClock DEF ReadWord, ReadQuiet
<1>2. rd_ptr \in Nat /\ rd_ptr + Burst <= FRAME_PIXELS
      /\ rd_burst_cnt \in Nat /\ rd_burst_cnt <= Burst - 1
      /\ Burst \in Nat /\ Burst > 1 /\ FRAME_PIXELS \in Nat
  BY BurstFits, Sizes DEF Parts, ReadPart
<1>3. \A n \in Nat : /\ n + 1 < FRAME_PIXELS => (n + 1) % FRAME_PIXELS = n + 1
                     /\ n + 1 = FRAME_PIXELS => (n + 1) % FRAME_PIXELS = 0
  BY <1>2
<1>4. CASE rd_burst_cnt = Burst - 1
  <2>1. rd_burst_cnt' = 0 /\ rd_ptr' = NextRdPtr
    BY <1>4 DEF ReadWord
  <2>2. CASE rd_ptr >= FRAME_PIXELS - Burst
    <3>1. (rd_ptr + rd_burst_cnt) + 1 = FRAME_PIXELS /\ rd_ptr' = 0
      BY <1>2, <1>4, <2>1, <2>2 DEF NextRdPtr
    <3> QED  BY <1>2, <1>3, <2>1, <3>1 DEF After
  <2>3. CASE ~(rd_ptr >= FRAME_PIXELS - Burst)
    <3>1. (rd_ptr + rd_burst_cnt) + 1 = rd_ptr + Burst /\ rd_ptr' = rd_ptr + Burst
          /\ rd_ptr + Burst < FRAME_PIXELS
      BY <1>2, <1>4, <2>1, <2>3 DEF NextRdPtr
    <3> QED  BY <1>2, <1>3, <2>1, <3>1 DEF After
  <2> QED  BY <2>2, <2>3
<1>5. CASE rd_burst_cnt # Burst - 1
  <2>1. rd_burst_cnt' = rd_burst_cnt + 1 /\ rd_ptr' = rd_ptr
    BY <1>1, <1>5 DEF ReadWord, RewoundRead
  <2>2. (rd_ptr + rd_burst_cnt) + 1 < FRAME_PIXELS
        /\ rd_ptr + (rd_burst_cnt + 1) = (rd_ptr + rd_burst_cnt) + 1
    BY <1>2, <1>5
  <2> QED  BY <1>2, <1>3, <2>1, <2>2 DEF After
<1> QED  BY <1>4, <1>5

LEMMA StreamStep ==
  ASSUME Parts, FrameParts, NEW in \in Inputs, Clock(in)
  PROVE  StreamPart'
<1>1. /\ vga_wr_en' = vga_wr_pending
      /\ vga_wr_data' = IF vga_wr_pending THEN vga_wr_data_hold ELSE vga_wr_data
  BY DEF Clock, Edge, VgaOut
<1>2. StreamPart /\ FRAME_PIXELS \in Nat /\ FRAME_PIXELS > 0
  BY Sizes DEF FrameParts
<1>3. CASE VsyncFall(in)
  <2>1. ~vga_wr_pending /\ ~vga_wr_en /\ NoWordRead(in)
    BY <1>3, ArbiterMoves, PacedClock DEF ReadQuiet
  <2>2. sent' = 0 /\ rd_ptr' = 0 /\ rd_burst_cnt' = 0
        /\ ~vga_wr_pending' /\ ~vga_wr_en'
    BY <1>1, <1>3, <2>1, PacedClock DEF NoWordRead, RewoundRead
  <2> QED  BY <1>2, <2>2 DEF StreamPart, ReadPlace, HeldPlace
<1>4. CASE ~VsyncFall(in)
  <2>1. sent' = HeldPlace
    BY <1>4, PacedClock DEF HeldPlace, After
  <2>2. sent' \in 0 .. FRAME_PIXELS - 1
    <3>1. After(sent) \in 0 .. FRAME_PIXELS - 1
      BY <1>2 DEF StreamPart, After
    <3> QED  BY <1>2, <2>1, <3>1 DEF StreamPart, HeldPlace
  <2>3. HeldPlace' = ReadPlace
    BY <1>1, <2>1 DEF HeldPlace, ReadPlace, After
  <2>4. Showing' /\ vga_wr_en' => vga_wr_data' \in OneLate(sent)'
    <3> SUFFICES ASSUME Showing', vga_wr_en' PROVE vga_wr_data' \in OneLate(sent)'
      OBVIOUS
    <3>1. Showing /\ frame' = frame
      BY <1>4, ShowingStays
    <3>2. vga_wr_data' \in OneLate(HeldPlace)
      BY <1>1, <1>2, <3>1 DEF StreamPart
    <3> QED  BY <2>1, <3>1, <3>2 DEF OneLate, LastDone
  <2>5. CASE ReadWord(in)
    <3>1. vga_wr_pending' /\ vga_wr_data_hold' = rd_data /\ rd_valid
      BY <2>5, InputsAre DEF ReadWord
    <3>2. rd_ptr' + rd_burst_cnt' = After(ReadPlace)
      BY <1>2, <2>5, PlaceMoves DEF StreamPart
    <3>3. ReadPlace' = After(ReadPlace)
      BY <2>3, <3>1 DEF ReadPlace, After
    <3>4. Showing' => vga_wr_data_hold' \in OneLate(HeldPlace)'
      <4> SUFFICES ASSUME Showing' PROVE vga_wr_data_hold' \in OneLate(HeldPlace)'
        OBVIOUS
      <4>1. Showing /\ frame' = frame
        BY <1>4, ShowingStays
      <4>2. rd_data \in OneLate(rd_ptr + rd_burst_cnt)
        BY <3>1, <4>1, WordRead, ShownIsStored
      <4>3. vga_wr_data_hold' \in OneLate(ReadPlace)
        BY <1>2, <3>1, <4>2 DEF StreamPart
      <4> QED  BY <2>3, <4>1, <4>3 DEF OneLate, LastDone
    <3> QED  BY <2>2, <2>4, <3>2, <3>3, <3>4 DEF StreamPart
  <2>6. CASE ~ReadWord(in)
    <3>1. NoWordRead(in)
      BY <2>6, ArbiterMoves
    <3>2. ~vga_wr_pending' /\ rd_ptr' = rd_ptr /\ rd_burst_cnt' = rd_burst_cnt
      BY <1>4, <3>1 DEF NoWordRead, RewoundRead
    <3>3. ReadPlace' = ReadPlace
      BY <2>3, <3>2 DEF ReadPlace
    <3> QED  BY <1>2, <2>2, <2>4, <3>2, <3>3 DEF StreamPart
  <2> QED  BY <2>5, <2>6
<1> QED  BY <1>3, <1>4
-----------------------------------------------------------------------------
LEMMA InitTypes == Init => IInv /\ EnvTypes
<1> SUFFICES ASSUME Init PROVE IInv /\ EnvTypes
  OBVIOUS
<1>1. IfInit /\ Port!PortInit /\ cam = << >> /\ cam_q = NoWord /\ frame = 0 /\ pix = 0
      /\ sent = 0 /\ paced \in BOOLEAN
  BY DEF Init
<1>2. IInv
  BY <1>1, InitIInv
<1>3. mem \in [Addresses -> BurstsKept]
  <2>1. [i \in 1 .. Burst |-> NoWord] \in BurstsKept
    BY DEF BurstsKept
  <2> QED  BY <1>1, <2>1 DEF Port!PortInit, Addresses
<1>4. wr_ack = FALSE /\ rd_ack = FALSE /\ rd_valid = FALSE /\ rd_data = NoWord
      /\ pend = << >> /\ cam_rd = FALSE
  BY <1>1 DEF Port!PortInit, IfInit
<1>5. pend \in Seq(Words \cup {NoWord}) /\ cam \in Seq(Words)
  BY <1>1, <1>4
<1>6. frame \in Frames /\ pix \in 0 .. FRAME_PIXELS /\ pix \in {0, 1}
  BY <1>1, Sizes DEF Frames
<1> QED
  <2>1. wr_ack \in BOOLEAN /\ rd_ack \in BOOLEAN /\ rd_valid \in BOOLEAN
        /\ rd_data \in Words \cup {NoWord} /\ cam_q \in Words \cup {NoWord}
        /\ (cam_rd => cam # << >>)
    BY <1>1, <1>4
  <2> QED  BY <1>1, <1>2, <1>3, <1>5, <1>6, <2>1 DEF EnvTypes

LEMMA InitFrameInv == Init => FrameInv
<1> SUFFICES ASSUME Init, paced PROVE FrameParts
  BY InitTypes DEF FrameInv
<1>1. IfInit /\ Port!PortInit /\ cam = << >> /\ cam_q = NoWord /\ frame = 0 /\ pix = 0
      /\ sent = 0
  BY DEF Init
<1>3. Taken = 0
  <2>1. Len(cam) = 0
    BY <1>1
  <2>2. pix = 0
    BY <1>1
  <2>3. pix - Len(cam) = 0 - 0
    BY <2>1, <2>2
  <2> QED  BY <2>3 DEF Taken
<1>4. CameraPart
  <2>1. InRow(cam, 0, 0)
    BY <1>1, Sizes DEF InRow
  <2> QED  BY <1>1, <1>3, <2>1 DEF CameraPart, Late, Frames, IfInit
<1>5. HandshakePart
  BY <1>1 DEF HandshakePart, Port!PortInit, IfInit
<1>6. AnswerPart
  <2>1. pend \in Seq(Words \cup {NoWord}) /\ rd_data \in Words \cup {NoWord}
    BY InitTypes DEF EnvTypes
  <2> QED  BY <1>1, <2>1 DEF AnswerPart, Reading, Port!PortInit, IfInit
<1>7. StreamPart
  BY <1>1, Sizes DEF StreamPart, ReadPlace, HeldPlace, IfInit
<1>8. StoredWords = 0 /\ InLatch = 0 /\ ~Writing
  BY <1>1, <1>3 DEF StoredWords, InLatch, Writing, IfInit
<1>9. StorePart
  BY <1>1, <1>3, <1>8, Sizes DEF StorePart, IfInit
<1>10. MemoryPart
  <2>1. mem \in [Addresses -> BurstsKept]
    BY InitTypes DEF EnvTypes
  <2>2. HoldsUpTo(StoredWords, write_bank, frame)
    BY <1>8 DEF HoldsUpTo
  <2> QED  BY <1>1, <2>1, <2>2 DEF MemoryPart, IfInit
<1> QED
  BY <1>4, <1>5, <1>6, <1>7, <1>9, <1>10 DEF FrameParts

(* The surroundings stay in range.                                            *)
LEMMA EnvStep ==
  ASSUME Parts, EnvTypes, NEW in \in Inputs, Clock(in)
  PROVE  EnvTypes'
<1> DEFINE W == Words \cup {NoWord}
           left == IF cam_rd THEN Tail(cam) ELSE cam
<1>1. paced' = paced /\ paced \in BOOLEAN
  BY DEF Clock, EnvTypes
<1>2. left \in Seq(Words) /\ cam_q' \in W
  BY TailIs DEF Clock, CameraFifo, EnvTypes
<1>3. frame \in Frames /\ pix \in 0 .. FRAME_PIXELS /\ NextFrame(frame) \in Frames
  BY LateFacts DEF EnvTypes
<1>4. FRAME_PIXELS \in Nat /\ FRAME_PIXELS > 1
  BY BurstFits, Sizes, GeometryAssumption
<1>5. pix < FRAME_PIXELS => <<frame, pix>> \in Words
  BY <1>3, <1>4, PixelAssumption DEF Pixels
<1>6. /\ frame' \in Frames /\ pix' \in 0 .. FRAME_PIXELS /\ (~paced => pix' \in {0, 1})
      /\ cam' = left \/ (cam' = Append(left, <<frame, pix>>) /\ pix < FRAME_PIXELS)
  <2>1. CASE paced
    <3>1. SendPaced(in, left)
      BY <2>1 DEF Clock, CameraFifo
    <3>2. CASE pix < FRAME_PIXELS /\ cam' = Append(left, <<frame, pix>>)
               /\ pix' = pix + 1 /\ frame' = frame
      BY <1>3, <1>4, <2>1, <3>2
    <3>3. CASE cam' = left /\ pix' = RewoundWrite(in, pix)
               /\ frame' = IF FrameDone(in) THEN NextFrame(frame) ELSE frame
      BY <1>3, <1>4, <2>1, <3>3 DEF RewoundWrite
    <3> QED  BY <3>1, <3>2, <3>3 DEF SendPaced
  <2>2. CASE ~paced
    <3>1. SendAny(left) /\ pix \in {0, 1}
      BY <2>2 DEF Clock, CameraFifo, EnvTypes
    <3>2. frame' = frame /\ pix' \in {0, 1}
          /\ (cam' = left \/ cam' = Append(left, <<frame, pix>>))
      BY <3>1 DEF SendAny
    <3> QED  BY <1>3, <1>4, <2>2, <3>1, <3>2
  <2> QED  BY <1>1, <2>1, <2>2
<1>7. cam' \in Seq(Words) /\ (left # << >> => cam' # << >>)
  <2>1. CASE cam' = left
    BY <1>2, <2>1
  <2>2. CASE cam' = Append(left, <<frame, pix>>) /\ pix < FRAME_PIXELS
    <3>1. PICK x \in Words : x = <<frame, pix>>
      BY <1>5, <2>2
    <3>2. cam' = Append(left, x)
      BY <2>2, <3>1
    <3>3. cam' \in Seq(Words) /\ Len(cam') = Len(left) + 1 /\ Len(left) \in Nat
      BY <1>2, <3>2
    <3>4. Len(cam') # 0
      BY <3>3
    <3> QED  BY <3>3, <3>4
  <2> QED  BY <1>6, <2>1, <2>2
<1>8. cam_rd' => cam' # << >>
  <2> SUFFICES ASSUME cam_rd' PROVE cam' # << >>
    OBVIOUS
  <2>1. PopCamera(in) /\ ~cam_rd_pending /\ ~in.cam_empty
    BY DEF Clock, Edge, Capture, StartRead, PopCamera, FillIdle, IssueWrite, WaitWriteAck,
       IssueRead, WaitReadAck, ReadWord, AwaitWord, Strobes
  <2>2. ~cam_rd /\ cam # << >>
    BY <2>1 DEF Inputs, Parts, ControlPart, PopsAreCaptured
  <2> QED  BY <1>7, <2>2
<1>9. /\ wr_ack' \in BOOLEAN /\ rd_ack' \in BOOLEAN /\ rd_valid' \in BOOLEAN
      /\ rd_data' \in W /\ pend' \in Seq(W)
      /\ mem' \in [Addresses -> BurstsKept]
  <2>1. RdAddr \in Addresses
    BY AddressOf DEF RdAddr, Parts, BanksPart, ReadPart
  <2>2. mem \in [Addresses -> BurstsKept] /\ pend \in Seq(W) /\ rd_data \in W
    BY DEF EnvTypes
  <2>3. DataFollowed \in BurstsKept
    BY DEF DataFollowed, BurstsKept, Parts, WritePart
  <2>4. mem[RdAddr] \in Seq(W)
    BY <2>1, <2>2, BurstIs
  <2>5. Port!PortClock(wr_req, wr_addr_latch, DataFollowed, rd_req, RdAddr)
    BY DEF Clock
  <2> USE DEF Port!NoStrobe
  <2>6. CASE Port!Wait
    BY <2>2, <2>6 DEF Port!Wait
  <2>7. CASE Port!AcceptWrite(wr_req, wr_addr_latch)
    BY <2>2, <2>7 DEF Port!AcceptWrite
  <2>8. CASE Port!TakeData(DataFollowed)
    <3>1. mem' = [a \in Addresses |-> IF a \in latching THEN DataFollowed ELSE mem[a]]
      BY <2>8 DEF Port!TakeData, Addresses
    <3>2. mem' \in [Addresses -> BurstsKept]
      BY <2>2, <2>3, <3>1
    <3> QED  BY <2>2, <2>8, <3>2 DEF Port!TakeData
  <2>9. CASE Port!AcceptRead(wr_req, rd_req, RdAddr)
    BY <2>2, <2>4, <2>9 DEF Port!AcceptRead
  <2>10. CASE Port!Answer
    <3>1. rd_data' = Head(pend) /\ pend' = Tail(pend) /\ pend # << >>
          /\ mem' = mem /\ wr_ack' = FALSE /\ rd_ack' = FALSE /\ rd_valid' = TRUE
      BY <2>10 DEF Port!Answer
    <3>2. rd_data' \in W /\ pend' \in Seq(W)
      BY <2>2, <3>1, TailIs
    <3> QED  BY <2>2, <3>1, <3>2
  <2> QED  BY <2>5, <2>6, <2>7, <2>8, <2>9, <2>10 DEF Port!PortClock
<1> QED  BY <1>1, <1>2, <1>3, <1>6, <1>7, <1>8, <1>9 DEF EnvTypes

(* One edge of the clock.                                                     *)
LEMMA ClockFrameInv ==
  ASSUME FrameInv, NEW in \in Inputs, Clock(in)
  PROVE  FrameInv'
<1>1. Parts /\ EnvTypes /\ (paced => FrameParts)
  BY IInvParts DEF FrameInv
<1>2. Parts'
  BY <1>1, EdgeIInv, InputsAreFree
<1>3. IInv'
  <2>1. (IInv <=> Parts)'
    BY IInvParts, PTL
  <2> QED  BY <1>2, <2>1
<1>4. EnvTypes'
  BY <1>1, EnvStep
<1>5. paced' = paced
  BY DEF Clock
<1>6. ASSUME paced PROVE FrameParts'
  <2>1. FrameParts
    BY <1>1, <1>6
  <2>2. CameraPart'
    BY <1>1, <2>1, CameraTurns, CameraGoesOn
  <2>3. HandshakePart' /\ AnswerPart' /\ StreamPart' /\ StorePart' /\ MemoryPart'
    BY <1>1, <2>1, HandshakeStep, AnswerStep, StreamStep, StoreStep, MemoryStep
  <2> QED  BY <1>5, <1>6, <2>2, <2>3 DEF FrameParts
<1> QED  BY <1>3, <1>4, <1>5, <1>6 DEF FrameInv

LEMMA StillFrameInv == FrameInv /\ UNCHANGED vars => FrameInv'
<1> SUFFICES ASSUME FrameInv, UNCHANGED vars PROVE FrameInv'
  OBVIOUS
<1> USE DEF vars, ifVars, bankVars, wrVars, rdVars, vgaVars, envVars, Port!portVars
<1>1. IInv'
  BY DEF FrameInv, IInv, ArbiterTypeOK, AddressesInRange, BanksApart, PopsAreCaptured,
     RdAddr, Base, BANK_WORDS, FRAME_PIXELS, BurstAddress, Offsets
<1>2. EnvTypes'
  BY DEF FrameInv, EnvTypes
<1>9. paced' = paced
  OBVIOUS
<1>10. ASSUME paced PROVE FrameParts'
  <2>1. FrameParts
    BY <1>10 DEF FrameInv
  <2>2. CameraPart'
    BY <2>1 DEF FrameParts, CameraPart, InRow, Taken, Late
  <2>3. HandshakePart'
    BY <2>1 DEF FrameParts, HandshakePart
  <2>4. AnswerPart'
    <3>1. Answered' = Answered /\ RdAddr' = RdAddr /\ (Reading' <=> Reading)
      BY DEF Answered, RdAddr, Reading
    <3> QED  BY <2>1, <3>1 DEF FrameParts, AnswerPart
  <2>5. StreamPart'
    BY <2>1 DEF FrameParts, StreamPart, ReadPlace, HeldPlace, After, Showing,
       OneLate, LastDone
  <2>6. StoredWords' = StoredWords /\ InLatch' = InLatch /\ Taken' = Taken
        /\ (Writing' <=> Writing)
    BY DEF StoredWords, InLatch, Taken, Writing
  <2>7. StorePart'
    BY <2>1, <2>6 DEF FrameParts, StorePart
  <2>8. MemoryPart'
    BY <2>1, <2>6 DEF FrameParts, MemoryPart, HoldsUpTo, Stored, LastDone
  <2> QED
    BY <1>9, <1>10, <2>2, <2>3, <2>4, <2>5, <2>7, <2>8 DEF FrameParts
<1> QED
  BY <1>1, <1>2, <1>9, <1>10 DEF FrameInv

(* The frame store's invariant, for every burst length, frame size and depth  *)
(* of the camera FIFO: what is in the FIFO, in the latch, in the memory, on   *)
(* its way from the memory, and in the two words before the VGA FIFO.         *)
THEOREM FrameInvariant == Spec => []FrameInv
<1>1. Init => FrameInv
  BY InitFrameInv
<1>2. FrameInv /\ [Next]_vars => FrameInv'
  BY ClockFrameInv, StillFrameInv DEF Next
<1> QED  BY <1>1, <1>2, PTL DEF Spec

(* While a frame is shown and no newer one is ready, the bank shown holds the *)
(* last frame the camera completed, whole and in order, one place late.       *)
THEOREM FrameIsStored == Spec => []FrameStored
<1>1. FrameInv => FrameStored
  <2> SUFFICES ASSUME FrameInv PROVE FrameStored
    OBVIOUS
  <2>1. Parts /\ (paced => FrameParts)
    BY IInvParts DEF FrameInv
  <2> QED  BY <2>1, ShownIsStored DEF FrameStored, Showing
<1> QED  BY <1>1, FrameInvariant, PTL

(* The words that go to the VGA FIFO after vsync are those of that frame,     *)
(* each once and in order.                                                    *)
THEOREM StreamIsInOrder == Spec => []StreamInOrder
<1>1. FrameInv => StreamInOrder
  BY DEF FrameInv, FrameParts, StreamPart, StreamInOrder, Showing
<1> QED  BY <1>1, FrameInvariant, PTL

(* In the frame store the arbiter meets only what it may meet on its own, so  *)
(* what is proved of it there (ArbiterInvariant, RequestHeld) holds here.     *)
THEOREM ArbiterWithin == Spec => ArbiterSpec
<1>1. Init => IfInit
  BY DEF Init
<1>2. FrameInv /\ [Next]_vars => [ArbiterNext]_ifVars
  <2> SUFFICES ASSUME FrameInv, [Next]_vars PROVE [ArbiterNext]_ifVars
    OBVIOUS
  <2>1. CASE Next
    <3>1. PICK in \in Inputs : Clock(in)
      BY <2>1 DEF Next
    <3>2. Parts /\ EnvTypes
      BY IInvParts DEF FrameInv
    <3> QED  BY <3>1, <3>2, InputsAreFree DEF ArbiterNext
  <2>2. CASE UNCHANGED vars
    BY <2>2 DEF vars
  <2> QED  BY <2>1, <2>2
<1> QED  BY <1>1, <1>2, FrameInvariant, PTL DEF Spec, ArbiterSpec
==============================================================================
