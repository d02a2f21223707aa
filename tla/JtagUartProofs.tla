--------------------------- MODULE JtagUartProofs ----------------------------
(* Of the JTAG UART, for every length of the buffers, depth of the FIFOs and  *)
(* time-out, and whatever program and host do: nothing waits with its         *)
(* interrupt off, and the driver implements the two streams of ByteStreams.   *)
EXTENDS JtagUartProps, SequenceTheorems, TLAPS

(* Indices stay in their buffers, and streams are streams of characters.      *)
Typed ==
  /\ tx_in \in Slots /\ tx_out \in Slots /\ rx_in \in Slots /\ rx_out \in Slots
  /\ tx_buf \in [Slots -> Int]
  /\ tx_fifo \in Seq(Int) /\ rx_fifo \in Seq(Int)
  /\ n \in Int /\ todo \in Int /\ written \in Int /\ sent \in Int
  /\ boot \in Seq({"JTAG_UART", "INTEL_NIOSV_M"})

RxFull == Plus(rx_in, 1) = rx_out
ToBeStarted == pc = "boot" /\ \E i \in DOMAIN boot : boot[i] = "JTAG_UART"

(* InterruptsArmed says of a read only where it is.  What makes it inductive  *)
(* is that a read which has moved characters does not return before it has    *)
(* turned the interrupt on, and that the UART is among the devices started.   *)
ReadArmed ==
  \/ "RE" \in irq_enable
  \/ RxFull
  \/ moved /\ pc \in {"r_snap", "r_copy", "r_publish", "r_enable"}
  \/ ToBeStarted

WriteArmed ==
  \/ tx_in = tx_out
  \/ "WE" \in irq_enable
  \/ pc \in {"w_snap", "w_copy", "w_publish", "w_kick"}

IInv ==
  /\ Typed /\ ReadArmed /\ WriteArmed
  /\ pc = "boot" => tx_in = tx_out /\ boot # << >>
  /\ pc = "r_publish" => moved

(* The fill of a ring, without the modulo.                                    *)
LEMMA FillFacts ==
  ASSUME NEW out \in Slots, NEW in \in Slots
  PROVE  /\ Fill(out, in) = IF out <= in THEN in - out ELSE in - out + BUF_LEN
         /\ Fill(out, in) \in Slots /\ (Fill(out, in) = 0 <=> out = in)
         /\ BUF_LEN - 1 - Fill(out, in) \in Slots
  BY BufLenAssumption DEF Fill, Slots

(* An index steps over the end of its ring once at most.                      *)
LEMMA PlusFacts ==
  ASSUME NEW i \in Slots, NEW k \in Slots
  PROVE  /\ Plus(i, k) = IF i + k < BUF_LEN THEN i + k ELSE i + k - BUF_LEN
         /\ Plus(i, k) \in Slots
  BY BufLenAssumption DEF Plus, Slots

(* Taking all there is empties a ring; filling the room leaves one slot.      *)
LEMMA RingEnds ==
  ASSUME NEW out \in Slots, NEW in \in Slots
  PROVE  /\ Plus(out, Fill(out, in)) = in
         /\ Plus(Plus(in, BUF_LEN - 1 - Fill(out, in)), 1) = out
<1>1. PICK fill \in Slots : fill = Fill(out, in)
  BY FillFacts
<1>2. fill = IF out <= in THEN in - out ELSE in - out + BUF_LEN
  BY <1>1, FillFacts
<1>3. Plus(out, fill) = in
  <2>1. Plus(out, fill) = IF out + fill < BUF_LEN THEN out + fill ELSE out + fill - BUF_LEN
    BY PlusFacts
  <2> QED BY <1>2, <2>1, BufLenAssumption DEF Slots
<1>4. Plus(Plus(in, BUF_LEN - 1 - fill), 1) = out
  <2>1. PICK room \in Slots : room = BUF_LEN - 1 - fill
    BY BufLenAssumption DEF Slots
  <2>2. PICK next \in Slots : next = Plus(in, room)
    BY PlusFacts
  <2>3. next = IF in + room < BUF_LEN THEN in + room ELSE in + room - BUF_LEN
    BY <2>2, PlusFacts
  <2>4. 1 \in Slots
    BY BufLenAssumption DEF Slots
  <2>5. Plus(next, 1) = IF next + 1 < BUF_LEN THEN next + 1 ELSE next + 1 - BUF_LEN
    BY <2>4, PlusFacts
  <2> QED BY <1>2, <2>1, <2>2, <2>3, <2>5, BufLenAssumption DEF Slots
<1> QED BY <1>1, <1>3, <1>4

(* Before the first call nothing waits, and the UART is still to be started.  *)
LEMMA InitIInv == Init => IInv
<1> SUFFICES ASSUME Init PROVE IInv
  OBVIOUS
<1>1. Typed
  BY BufLenAssumption, BootAssumption DEF Init, Typed, Slots
<1>2. ToBeStarted /\ boot # << >>
  BY BootAssumption DEF Init, Range, ToBeStarted
<1> QED BY <1>1, <1>2 DEF Init, IInv, ReadArmed, WriteArmed

(* A full buffer stays full until an index moves; calls come after the boot.  *)
LEMMA Stays ==
  /\ UNCHANGED <<rx_in, rx_out>> => RxFull' = RxFull
  /\ UNCHANGED <<pc, boot>> => ToBeStarted' = ToBeStarted
  /\ ToBeStarted => pc = "boot"
  BY DEF RxFull, Plus, ToBeStarted

(* A device started: with the UART, its receive interrupt is on.              *)
LEMMA BootIInv == IInv /\ SysInit => IInv'
<1> SUFFICES ASSUME IInv, SysInit PROVE IInv'
  OBVIOUS
<1>1. boot # << >>
  BY DEF SysInit, IInv
<1>2. Tail(boot) \in Seq({"JTAG_UART", "INTEL_NIOSV_M"})
  BY <1>1 DEF IInv, Typed
<1>3. Typed'
  BY <1>2 DEF SysInit, hostVars, IInv, Typed
<1>4. ReadArmed'
  <2>1. CASE Head(boot) = "JTAG_UART"
    BY <2>1 DEF SysInit, ReadArmed
  <2>2. CASE Head(boot) # "JTAG_UART" /\ ToBeStarted
    <3>1. PICK i \in 1 .. Len(boot) : boot[i] = "JTAG_UART"
      BY <2>2 DEF ToBeStarted, IInv, Typed
    <3>2. boot \in Seq({"JTAG_UART", "INTEL_NIOSV_M"}) /\ i # 1
      BY <1>1, <2>2, <3>1 DEF IInv, Typed
    <3>3. i - 1 \in 1 .. Len(Tail(boot)) /\ Tail(boot)[i - 1] = "JTAG_UART"
      BY <1>1, <3>1, <3>2
    <3>4. i - 1 \in DOMAIN Tail(boot) /\ Tail(boot) # << >>
      <4>1. PICK rest \in Seq({"JTAG_UART", "INTEL_NIOSV_M"}) : rest = Tail(boot)
        BY <1>2
      <4>2. i - 1 \in 1 .. Len(rest)
        BY <3>3, <4>1
      <4>3. i - 1 \in DOMAIN rest /\ rest # << >>
        BY <4>2
      <4> QED BY <4>1, <4>3
    <3> QED BY <3>3, <3>4 DEF SysInit, ReadArmed, ToBeStarted
  <2>3. CASE Head(boot) # "JTAG_UART" /\ ~ToBeStarted
    BY <2>3 DEF SysInit, IInv, ReadArmed, RxFull
  <2> QED BY <2>1, <2>2, <2>3
<1>5. WriteArmed' /\ (pc' = "boot" => tx_in' = tx_out' /\ boot' # << >>) /\ pc' # "r_publish"
  BY DEF SysInit, IInv, WriteArmed
<1> QED BY <1>3, <1>4, <1>5 DEF IInv

(* A call that begins has nothing moved yet; ioctl is over at once.           *)
LEMMA StartIInv == IInv /\ StartCall => IInv'
<1> SUFFICES ASSUME IInv, StartCall PROVE IInv'
  OBVIOUS
<1>1. ASSUME NEW count \in Counts \cup {0}, NEW flag \in BOOLEAN,
             NEW place \in {"w_snap", "r_snap", "c_drain"}, Call(place, count, flag)
      PROVE  IInv'
  <2>1. count \in Int
    BY CharsAssumption
  <2> QED BY <1>1, <2>1, Stays
          DEF Call, IInv, Typed, ReadArmed, WriteArmed, driverVars, hostVars
<1>2. ASSUME NEW request \in Requests, SetTimeout(request) PROVE IInv'
  BY <1>2, Stays DEF SetTimeout, IInv, Typed, ReadArmed, WriteArmed, callVars, hostVars
<1> QED BY <1>1, <1>2 DEF StartCall

(* The steps of a write, and close.                                           *)
LEMMA WriteIInv ==
  ASSUME IInv, \/ WriteSnap \/ WriteCopy \/ WritePublish
               \/ WriteKick \/ WriteWait \/ WriteCheck \/ Close
  PROVE  IInv'
<1> USE Stays DEF IInv, ReadArmed, WriteArmed, Return, Goto, driverVars, hostVars
<1>1. CASE WriteSnap
  <2>1. TxRoom(tx_in, tx_out) \in Int
    BY BufLenAssumption DEF Typed, TxRoom, Slots
  <2>2. n' \in Int
    BY <1>1, <2>1 DEF WriteSnap, Lesser, Typed
  <2> QED BY <1>1, <2>2 DEF WriteSnap, Typed
<1>2. CASE WriteCopy
  <2>1. tx_buf' \in [Slots -> Int] /\ todo' \in Int
    BY <1>2, BufLenAssumption, CharsAssumption DEF WriteCopy, Typed, Number, Slots
  <2> QED BY <1>2, <2>1 DEF WriteCopy, Typed
<1>3. CASE WritePublish
  <2>1. tx_in' \in Slots /\ written' \in Int
    BY <1>3, BufLenAssumption, CharsAssumption DEF WritePublish, Typed, Plus, Number, Slots
  <2> QED BY <1>3, <2>1 DEF WritePublish, Typed
<1>4. CASE WriteKick
  BY <1>4 DEF WriteKick, AskForTransmit, Typed
<1>5. CASE WriteWait \/ WriteCheck \/ Close
  BY <1>5 DEF WriteWait, WriteCheck, Close, Typed
<1> QED BY <1>1, <1>2, <1>3, <1>4, <1>5

(* The steps of a read.                                                       *)
LEMMA ReadIInv ==
  ASSUME IInv, \/ ReadSnap \/ ReadCopy \/ ReadPublish
               \/ ReadWait \/ ReadCheck \/ ReadEnable
  PROVE  IInv'
<1> USE Stays DEF IInv, ReadArmed, WriteArmed, Return, Goto, driverVars, hostVars
<1>1. CASE ReadSnap
  <2>1. RxHeld(rx_in, rx_out) \in Int
    BY BufLenAssumption DEF Typed, RxHeld, Slots
  <2>2. n' \in Int
    BY <1>1, <2>1 DEF ReadSnap, Lesser, Typed
  <2> QED BY <1>1, <2>2 DEF ReadSnap, Typed
<1>2. CASE ReadCopy
  BY <1>2 DEF ReadCopy, Typed
<1>3. CASE ReadPublish
  <2>1. rx_out' \in Slots
    BY <1>3, BufLenAssumption DEF ReadPublish, Typed, Plus, Slots
  <2> QED BY <1>3, <2>1 DEF ReadPublish, Typed
<1>4. CASE ReadWait \/ ReadCheck
  BY <1>4 DEF ReadWait, ReadCheck, Typed
<1>5. CASE ReadEnable
  BY <1>5 DEF ReadEnable, Typed
<1> QED BY <1>1, <1>2, <1>3, <1>4, <1>5

(* The interrupt routine turns an interrupt off when the buffer has run empty *)
(* or full, and not otherwise.                                                *)
LEMMA IsrIInv == IInv /\ Isr => IInv'
<1> SUFFICES ASSUME IInv, Isr PROVE IInv'
  OBVIOUS
<1> DEFINE room  == BUF_LEN - 1 - Fill(rx_out, rx_in)
           space == WriteDepth - Len(tx_fifo)
           take  == IF ReadPending THEN Lesser(room, Len(rx_fifo)) ELSE 0
           give  == IF WritePending THEN Lesser(space, Fill(tx_out, tx_in)) ELSE 0
<1>1. /\ Receive(take) /\ Transmit(give)
      /\ irq_enable' = irq_enable
           \ ((IF ReadPending /\ Len(rx_fifo) > room THEN {"RE"} ELSE {})
              \cup (IF WritePending /\ space > give THEN {"WE"} ELSE {}))
      /\ UNCHANGED <<tx_buf, tx_in, rx_out, pc, todo, n, moved, written, boot, sent>>
  BY DEF Isr, callVars
<1>2. Len(rx_fifo) \in Nat /\ Len(tx_fifo) \in Nat
  BY DEF IInv, Typed
<1>3. /\ room \in Slots /\ Fill(tx_out, tx_in) \in Slots
      /\ Fill(tx_out, tx_in) = 0 <=> tx_in = tx_out
  BY FillFacts DEF IInv, Typed
<1>4. /\ take \in Slots /\ take <= Len(rx_fifo)
      /\ ReadPending /\ Len(rx_fifo) > room => take = room
      /\ ~ReadPending => take = 0
  BY <1>2, <1>3, BufLenAssumption DEF Lesser, Slots
<1>5. space \in Int /\ (WritePending => space > 0)
  BY <1>2, DeviceAssumption DEF WritePending
<1>6. /\ give \in Slots /\ give <= Fill(tx_out, tx_in)
      /\ WritePending /\ space > give => give = Fill(tx_out, tx_in)
      /\ ~WritePending => give = 0
  BY <1>3, <1>5, BufLenAssumption DEF Lesser, Slots
<1> HIDE DEF room, space, take, give
<1>7. Typed'
  <2>1. rx_in' \in Slots /\ tx_out' \in Slots
    BY <1>1, <1>4, <1>6, PlusFacts DEF Receive, Transmit, IInv, Typed
  <2>2. rx_fifo' \in Seq(Int)
    BY <1>1, <1>4, <1>2 DEF Receive, IInv, Typed, Slots
  <2>3. Ring(tx_buf, tx_out, tx_in) \in Seq(Int)
         /\ Len(Ring(tx_buf, tx_out, tx_in)) = Fill(tx_out, tx_in)
    <3>1. \A k \in 1 .. Fill(tx_out, tx_in) : k - 1 \in Slots
      BY <1>3, BufLenAssumption DEF Slots
    <3>2. \A k \in 1 .. Fill(tx_out, tx_in) : tx_buf[Plus(tx_out, k - 1)] \in Int
      BY <3>1, PlusFacts DEF IInv, Typed
    <3> QED BY <1>3, <3>2, BufLenAssumption DEF Ring, Slots
  <2>4. SubSeq(Ring(tx_buf, tx_out, tx_in), 1, give) \in Seq(Int)
    BY <2>3, <1>6, <1>3 DEF Slots
  <2>5. tx_fifo' \in Seq(Int)
    BY <1>1, <2>4 DEF Transmit, IInv, Typed
  <2> QED BY <1>1, <2>1, <2>2, <2>5 DEF IInv, Typed
<1>8. ReadArmed'
  <2>1. CASE "RE" \in irq_enable'
    BY <2>1 DEF ReadArmed
  <2>2. CASE "RE" \notin irq_enable
    <3>1. take = 0
      BY <1>4, <2>2 DEF ReadPending
    <3>2. rx_in' = rx_in
      BY <1>1, <3>1, BufLenAssumption, PlusFacts DEF Receive, IInv, Typed, Slots
    <3> QED BY <1>1, <2>2, <3>2, Stays DEF IInv, ReadArmed
  <2>3. CASE "RE" \in irq_enable /\ "RE" \notin irq_enable'
    <3>1. ReadPending /\ Len(rx_fifo) > room
      BY <1>1, <2>3
    <3>2. Plus(rx_in', 1) = rx_out'
      BY <1>1, <1>4, <3>1, RingEnds DEF Receive, IInv, Typed, room
    <3> QED BY <3>2 DEF ReadArmed, RxFull, Plus
  <2> QED BY <2>1, <2>2, <2>3
<1>9. WriteArmed' /\ (tx_in = tx_out => tx_in' = tx_out')
  <2>1. CASE give = 0
    <3>1. tx_out' = tx_out
      BY <1>1, <2>1, BufLenAssumption, PlusFacts DEF Transmit, IInv, Typed, Slots
    <3>2. "WE" \in irq_enable => "WE" \in irq_enable' \/ tx_in = tx_out
      <4>1. CASE WritePending /\ space > give
        <5>1. Fill(tx_out, tx_in) = 0
          BY <1>6, <2>1, <4>1
        <5> QED BY <5>1, <1>3
      <4>2. CASE ~(WritePending /\ space > give)
        BY <1>1, <4>2
      <4> QED BY <4>1, <4>2
    <3> QED BY <1>1, <3>1, <3>2 DEF IInv, WriteArmed
  <2>2. CASE give # 0
    <3>1. WritePending /\ "WE" \in irq_enable
      BY <1>6, <2>2 DEF WritePending
    <3>2. tx_in # tx_out
      BY <1>3, <1>6, <2>2, BufLenAssumption DEF Slots
    <3>3. CASE space > give
      <4>1. tx_out' = tx_in'
        BY <1>1, <1>6, <3>1, <3>3, RingEnds DEF Transmit, IInv, Typed
      <4> QED BY <3>2, <4>1 DEF WriteArmed
    <3>4. CASE ~(space > give)
      <4>1. "WE" \in irq_enable'
        BY <1>1, <3>1, <3>4
      <4> QED BY <3>2, <4>1 DEF WriteArmed
    <3> QED BY <3>3, <3>4
  <2> QED BY <2>1, <2>2
<1> QED BY <1>1, <1>7, <1>8, <1>9 DEF IInv

(* The seconds and the host touch neither the interrupts nor the buffers.     *)
LEMMA OutsideIInv == IInv /\ (Second \/ HostPolls \/ HostSends) => IInv'
<1> SUFFICES ASSUME IInv, Second \/ HostPolls \/ HostSends PROVE IInv'
  OBVIOUS
<1> USE Stays DEF IInv, Typed, ReadArmed, WriteArmed, callVars, driverVars
<1>1. CASE Second
  BY <1>1 DEF Second
<1>2. CASE HostPolls
  <2>1. tx_fifo' \in Seq(Int)
    <3>1. CASE tx_fifo = << >>
      BY <1>2, <3>1 DEF HostPolls
    <3>2. CASE tx_fifo # << >>
      <4>1. Tail(tx_fifo) \in Seq(Int)
        BY <3>2
      <4> QED BY <1>2, <3>2, <4>1 DEF HostPolls
    <3> QED BY <3>1, <3>2
  <2> QED BY <1>2, <2>1 DEF HostPolls
<1>3. CASE HostSends
  <2>1. sent' \in Int /\ rx_fifo' \in Seq(Int)
    BY <1>3, CharsAssumption, BufLenAssumption, DeviceAssumption DEF HostSends, Number
  <2> QED BY <1>3, <2>1 DEF HostSends
<1> QED BY <1>1, <1>2, <1>3

(* No step of program, interrupt, alarm or host breaks the invariant.         *)
THEOREM Inductive == Spec => []IInv
<1>1. IInv /\ [Next]_vars => IInv'
  <2> SUFFICES ASSUME IInv, [Next]_vars PROVE IInv'
    OBVIOUS
  <2>1. CASE UNCHANGED vars
    BY <2>1, Stays DEF vars, driverVars, callVars, hostVars,
                       IInv, Typed, ReadArmed, WriteArmed
  <2> QED BY <2>1, BootIInv, StartIInv, WriteIInv, ReadIInv, IsrIInv, OutsideIInv
          DEF Next, InCall
<1> QED BY <1>1, InitIInv, PTL DEF Spec

(* Text that waits has its transmit interrupt on, and the receive interrupt   *)
(* is on while there is room, or the call that is under way turns it on.      *)
THEOREM AlwaysArmed == Spec => []InterruptsArmed
<1>1. IInv => InterruptsArmed
  BY DEF IInv, ReadArmed, WriteArmed, RxFull, ToBeStarted, InterruptsArmed
<1> QED BY <1>1, Inductive, PTL
-----------------------------------------------------------------------------
(* The rings, as streams.                                                     *)

(* What a ring buffer and a stream hold.                                      *)
Buffers == [Slots -> Int]
Texts == Seq(Int)

(* The characters of a ring, one by one.                                      *)
LEMMA RingFacts ==
  ASSUME NEW out \in Slots, NEW in \in Slots, NEW buf \in Buffers
  PROVE  /\ Ring(buf, out, in) \in Texts
         /\ Len(Ring(buf, out, in)) = Fill(out, in)
         /\ \A k \in 1 .. Fill(out, in) :
              /\ Plus(out, k - 1) \in Slots
              /\ Ring(buf, out, in)[k] = buf[Plus(out, k - 1)]
<1>1. PICK fill \in Slots : fill = Fill(out, in)
  BY FillFacts
<1>2. \A k \in 1 .. fill : Plus(out, k - 1) \in Slots
  <2>1. \A k \in 1 .. fill : k - 1 \in Slots
    BY BufLenAssumption DEF Slots
  <2> QED BY <2>1, PlusFacts
<1>3. \A k \in 1 .. fill : buf[Plus(out, k - 1)] \in Int
  BY <1>2 DEF Buffers
<1>4. fill \in Nat
  BY BufLenAssumption DEF Slots
<1>5. Ring(buf, out, in) = [k \in 1 .. fill |-> buf[Plus(out, k - 1)]]
  BY <1>1 DEF Ring
<1> QED BY <1>1, <1>2, <1>3, <1>4, <1>5 DEF Buffers, Texts

(* Two steps along a ring are one.                                            *)
LEMMA PlusPlus ==
  ASSUME NEW i \in Slots, NEW a \in Slots, NEW b \in Slots, a + b < BUF_LEN
  PROVE  a + b \in Slots /\ Plus(Plus(i, a), b) = Plus(i, a + b)
<1>1. a + b \in Slots
  BY BufLenAssumption DEF Slots
<1>2. PICK next \in Slots : next = Plus(i, a)
  BY PlusFacts
<1>3. next = IF i + a < BUF_LEN THEN i + a ELSE i + a - BUF_LEN
  BY <1>2, PlusFacts
<1>4. Plus(next, b) = IF next + b < BUF_LEN THEN next + b ELSE next + b - BUF_LEN
  BY PlusFacts
<1>5. PICK c \in Slots : c = a + b
  BY <1>1
<1>6. Plus(i, c) = IF i + c < BUF_LEN THEN i + c ELSE i + c - BUF_LEN
  BY PlusFacts
<1> QED BY <1>1, <1>2, <1>3, <1>4, <1>5, <1>6, BufLenAssumption DEF Slots

(* A ring gives and takes the characters its indices step over.               *)
LEMMA FillMoves ==
  ASSUME NEW out \in Slots, NEW in \in Slots, NEW k \in Slots
  PROVE  /\ k <= Fill(out, in) => Fill(Plus(out, k), in) = Fill(out, in) - k
         /\ Fill(out, in) + k < BUF_LEN => Fill(out, Plus(in, k)) = Fill(out, in) + k
<1>1. PICK fill \in Slots : fill = Fill(out, in)
  BY FillFacts
<1>2. fill = IF out <= in THEN in - out ELSE in - out + BUF_LEN
  BY <1>1, FillFacts
<1>3. ASSUME k <= fill PROVE Fill(Plus(out, k), in) = fill - k
  <2>1. PICK next \in Slots : next = Plus(out, k)
    BY PlusFacts
  <2>2. next = IF out + k < BUF_LEN THEN out + k ELSE out + k - BUF_LEN
    BY <2>1, PlusFacts
  <2>3. Fill(next, in) = IF next <= in THEN in - next ELSE in - next + BUF_LEN
    BY FillFacts
  <2>4. CASE out <= in
    BY <1>2, <1>3, <2>1, <2>2, <2>3, <2>4, BufLenAssumption DEF Slots
  <2>5. CASE ~(out <= in)
    BY <1>2, <1>3, <2>1, <2>2, <2>3, <2>5, BufLenAssumption DEF Slots
  <2> QED BY <2>1, <2>4, <2>5
<1>4. ASSUME fill + k < BUF_LEN PROVE Fill(out, Plus(in, k)) = fill + k
  <2>1. PICK next \in Slots : next = Plus(in, k)
    BY PlusFacts
  <2>2. next = IF in + k < BUF_LEN THEN in + k ELSE in + k - BUF_LEN
    BY <2>1, PlusFacts
  <2>3. Fill(out, next) = IF out <= next THEN next - out ELSE next - out + BUF_LEN
    BY FillFacts
  <2>4. CASE out <= in
    BY <1>2, <1>4, <2>1, <2>2, <2>3, <2>4, BufLenAssumption DEF Slots
  <2>5. CASE ~(out <= in)
    BY <1>2, <1>4, <2>1, <2>2, <2>3, <2>5, BufLenAssumption DEF Slots
  <2> QED BY <2>1, <2>4, <2>5
<1> QED BY <1>1, <1>3, <1>4

(* Streams in three parts.                                                    *)
LEMMA Regroup == \A s, t, u \in Texts : (s \o t) \o u = s \o (t \o u)
<1> SUFFICES ASSUME NEW s \in Seq(Int), NEW t \in Seq(Int), NEW u \in Seq(Int)
             PROVE  (s \o t) \o u = s \o (t \o u)
  BY Zenon DEF Texts
<1> QED BY SMTT(60), ConcatAssociative

(* The first k characters taken, the others are left.                         *)
LEMMA RingRest ==
  ASSUME NEW out \in Slots, NEW in \in Slots, NEW buf \in Buffers,
         NEW k \in 0 .. Fill(out, in)
  PROVE  /\ Plus(out, k) \in Slots
         /\ Fill(Plus(out, k), in) = Fill(out, in) - k
         /\ Ring(buf, Plus(out, k), in) = SubSeq(Ring(buf, out, in), k + 1, Fill(out, in))
<1>1. PICK fill \in Slots : fill = Fill(out, in)
  BY FillFacts
<1>2. k \in Slots /\ k <= fill
  BY <1>1, BufLenAssumption DEF Slots
<1>3. PICK next \in Slots : next = Plus(out, k)
  BY <1>2, PlusFacts
<1>4. Fill(next, in) = fill - k
  BY <1>1, <1>2, <1>3, FillMoves
<1> DEFINE ring == Ring(buf, out, in)
           rest == Ring(buf, next, in)
<1>5. /\ ring \in Texts /\ Len(ring) = fill
      /\ \A j \in 1 .. fill : ring[j] = buf[Plus(out, j - 1)]
  <2>1. /\ ring \in Texts /\ Len(ring) = Fill(out, in)
        /\ \A j \in 1 .. Fill(out, in) : ring[j] = buf[Plus(out, j - 1)]
    BY RingFacts
  <2> HIDE DEF ring
  <2> QED BY <1>1, <2>1
<1>6. /\ rest \in Texts /\ Len(rest) = fill - k
      /\ \A j \in 1 .. fill - k : rest[j] = buf[Plus(next, j - 1)]
  BY <1>4, RingFacts
<1> HIDE DEF ring, rest
<1>7. \A j \in 1 .. fill - k : rest[j] = ring[j + k]
  <2> SUFFICES ASSUME NEW j \in 1 .. fill - k PROVE rest[j] = ring[j + k]
    OBVIOUS
  <2>1. /\ j - 1 \in Slots /\ k + (j - 1) < BUF_LEN
        /\ j + k \in 1 .. fill /\ j + k - 1 = k + (j - 1)
    BY <1>2, BufLenAssumption DEF Slots
  <2>2. Plus(next, j - 1) = Plus(out, k + (j - 1))
    BY <1>2, <1>3, <2>1, PlusPlus
  <2>3. rest[j] = buf[Plus(next, j - 1)]
    BY <1>6
  <2>4. ring[j + k] = buf[Plus(out, j + k - 1)]
    BY <1>5, <2>1
  <2> QED BY <2>1, <2>2, <2>3, <2>4
<1>8. rest = SubSeq(ring, k + 1, fill)
  <2>1. fill \in Int /\ k \in Int
    BY <1>2, BufLenAssumption DEF Slots
  <2>2. \A j \in k + 1 .. fill : ring[j] \in Int
    BY <1>5, <2>1, <1>2 DEF Texts
  <2>3. PICK part : part = SubSeq(ring, k + 1, fill)
    OBVIOUS
  <2>4. /\ part \in Texts
        /\ Len(part) = IF k + 1 <= fill THEN fill - (k + 1) + 1 ELSE 0
        /\ \A j \in 1 .. fill - (k + 1) + 1 : part[j] = ring[(k + 1) + j - 1]
    BY <2>1, <2>2, <2>3, SubSeqProperties DEF Texts
  <2>5. Len(part) = fill - k /\ \A j \in 1 .. fill - k : part[j] = ring[j + k]
    BY <1>2, <2>1, <2>4
  <2>6. rest = part
    BY <1>6, <1>7, <2>4, <2>5, SeqEqual DEF Texts
  <2> QED BY <2>3, <2>6
<1> QED BY <1>1, <1>3, <1>4, <1>8 DEF ring, rest

(* Two buffers agree on a ring; a buffer holds a text from an index on.       *)
Same(new, buf, out, in) ==
  \A k \in 1 .. Fill(out, in) : new[Plus(out, k - 1)] = buf[Plus(out, k - 1)]
Holds(new, in, more) ==
  \A k \in 1 .. Len(more) : new[Plus(in, k - 1)] = more[k]

(* More characters put down behind those of a ring, and the others kept.      *)
LEMMA RingGrown ==
  ASSUME NEW out \in Slots, NEW in \in Slots,
         NEW buf \in Buffers, NEW new \in Buffers,
         NEW more \in Texts, Fill(out, in) + Len(more) < BUF_LEN,
         Same(new, buf, out, in), Holds(new, in, more)
  PROVE  /\ Fill(out, Plus(in, Len(more))) = Fill(out, in) + Len(more)
         /\ Ring(new, out, Plus(in, Len(more))) = Ring(buf, out, in) \o more
<1>1. PICK fill \in Slots : fill = Fill(out, in)
  BY FillFacts
<1>2. PICK len \in Slots : len = Len(more)
  BY <1>1, BufLenAssumption DEF Slots
<1>3. PICK next \in Slots : next = Plus(in, len)
  BY PlusFacts
<1>4. fill + len \in Slots /\ Fill(out, next) = fill + len
  <2>1. fill + len < BUF_LEN
    BY <1>1, <1>2
  <2>2. fill + len \in Slots
    BY <2>1, BufLenAssumption DEF Slots
  <2>3. Fill(out, Plus(in, len)) = fill + len
    BY <1>1, <2>1, FillMoves
  <2> QED BY <1>3, <2>2, <2>3
<1> DEFINE ring  == Ring(buf, out, in)
           grown == Ring(new, out, next)
<1>5. /\ ring \in Texts /\ Len(ring) = fill
      /\ \A j \in 1 .. fill : ring[j] = buf[Plus(out, j - 1)]
  <2>1. /\ ring \in Texts /\ Len(ring) = Fill(out, in)
        /\ \A j \in 1 .. Fill(out, in) : ring[j] = buf[Plus(out, j - 1)]
    BY RingFacts
  <2> HIDE DEF ring
  <2> QED BY <1>1, <2>1
<1>6. /\ grown \in Texts /\ Len(grown) = fill + len
      /\ \A j \in 1 .. fill + len : grown[j] = new[Plus(out, j - 1)]
  <2>1. PICK total \in Slots : total = fill + len
    BY <1>4
  <2>2. Fill(out, next) = total
    BY <1>4, <2>1
  <2>3. /\ grown \in Texts /\ Len(grown) = total
        /\ \A j \in 1 .. total : grown[j] = new[Plus(out, j - 1)]
    <3>1. /\ grown \in Texts /\ Len(grown) = Fill(out, next)
          /\ \A j \in 1 .. Fill(out, next) : grown[j] = new[Plus(out, j - 1)]
      BY RingFacts
    <3> HIDE DEF grown
    <3> QED BY <2>2, <3>1
  <2> HIDE DEF grown
  <2> QED BY <2>1, <2>3
<1> HIDE DEF ring, grown
<1>7. \A j \in 1 .. fill + len : grown[j] = IF j <= fill THEN ring[j] ELSE more[j - fill]
  <2> SUFFICES ASSUME NEW j \in 1 .. fill + len
               PROVE  grown[j] = IF j <= fill THEN ring[j] ELSE more[j - fill]
    OBVIOUS
  <2>1. CASE j <= fill
    <3>1. j \in 1 .. fill
      BY <2>1, BufLenAssumption DEF Slots
    <3> QED BY <1>1, <1>5, <1>6, <2>1, <3>1 DEF Same
  <2>2. CASE ~(j <= fill)
    <3>1. /\ j - fill \in 1 .. len /\ j - fill - 1 \in Slots
          /\ fill + (j - fill - 1) < BUF_LEN /\ fill + (j - fill - 1) = j - 1
      BY SMTT(30), <1>4, <2>2, BufLenAssumption DEF Slots
    <3>2. Plus(out, fill) = in
      BY <1>1, RingEnds
    <3>3. Plus(in, j - fill - 1) = Plus(out, j - 1)
      BY <3>1, <3>2, PlusPlus
    <3>4. new[Plus(in, j - fill - 1)] = more[j - fill]
      BY <1>2, <3>1 DEF Holds
    <3> QED BY <1>6, <2>2, <3>3, <3>4
  <2> QED BY <2>1, <2>2
<1>8. grown = ring \o more
  <2>1. PICK both : both = ring \o more
    OBVIOUS
  <2>2. /\ both \in Texts /\ Len(both) = Len(ring) + Len(more)
        /\ \A j \in 1 .. Len(ring) + Len(more) :
             both[j] = IF j <= Len(ring) THEN ring[j] ELSE more[j - Len(ring)]
    BY <1>5, <2>1, ConcatProperties DEF Texts
  <2>3. grown = both
    BY <1>2, <1>5, <1>6, <1>7, <2>2, SeqEqual DEF Texts
  <2> QED BY <2>1, <2>3
<1> QED BY <1>1, <1>2, <1>3, <1>4, <1>8 DEF ring, grown

(* What is left of a text when its first k characters have gone.              *)
Rest(text, k) == SubSeq(text, k + 1, Len(text))

(* The ring buffer when k characters of the FIFO have been put behind in.     *)
Put(buf, in, fifo, k) ==
  [i \in Slots |-> IF Fill(in, i) < k THEN fifo[Fill(in, i) + 1] ELSE buf[i]]

(* What the interrupt routine puts down behind a ring leaves the ring itself, *)
(* and with the rest of the FIFO is the stream there was.                     *)
LEMMA Received ==
  ASSUME NEW out \in Slots, NEW in \in Slots, NEW buf \in Buffers,
         NEW fifo \in Texts, NEW k \in Slots, k <= Len(fifo), Fill(out, in) + k < BUF_LEN
  PROVE  /\ Put(buf, in, fifo, k) \in Buffers
         /\ Ring(Put(buf, in, fifo, k), out, Plus(in, k)) \o Rest(fifo, k)
              = Ring(buf, out, in) \o fifo
<1> DEFINE new == Put(buf, in, fifo, k)
<1>0. PICK len \in Nat : len = Len(fifo) /\ k <= len
  BY LenProperties
<1>1. \A i \in Slots : Fill(in, i) \in Slots
  BY FillFacts
<1>2. new \in Buffers
  <2>1. \A i \in Slots : Fill(in, i) < k => fifo[Fill(in, i) + 1] \in Int
    <3> SUFFICES ASSUME NEW i \in Slots, Fill(in, i) < k PROVE fifo[Fill(in, i) + 1] \in Int
      OBVIOUS
    <3>1. PICK m \in Slots : m = Fill(in, i)
      BY <1>1
    <3>2. m < k
      BY <3>1
    <3>3. m + 1 \in 1 .. len
      BY <1>0, <3>2, BufLenAssumption DEF Slots
    <3>4. fifo[m + 1] \in Int
      BY <1>0, <3>3, ElementOfSeq DEF Texts
    <3> QED BY <3>1, <3>4
  <2> QED BY <2>1 DEF Put, Buffers
<1> HIDE DEF new
<1>3. PICK more \in Texts : /\ more = SubSeq(fifo, 1, k) /\ Len(more) = k
                               /\ \A j \in 1 .. k : more[j] = fifo[j]
  <2>1. k \in Int /\ 1 \in Int /\ \A j \in 1 .. k : fifo[j] \in Int
    BY BufLenAssumption DEF Slots, Texts
  <2>2. /\ SubSeq(fifo, 1, k) \in Texts
        /\ Len(SubSeq(fifo, 1, k)) = IF 1 <= k THEN k - 1 + 1 ELSE 0
        /\ \A j \in 1 .. k - 1 + 1 : SubSeq(fifo, 1, k)[j] = fifo[1 + j - 1]
    BY <2>1, SubSeqProperties DEF Texts
  <2>3. PICK part : part = SubSeq(fifo, 1, k)
    OBVIOUS
  <2>4. part \in Texts /\ Len(part) = k /\ \A j \in 1 .. k : part[j] = fifo[j]
    BY <2>2, <2>3, BufLenAssumption DEF Slots
  <2> QED BY <2>3, <2>4
<1>4. \A j \in 1 .. k : new[Plus(in, j - 1)] = more[j]
  <2> SUFFICES ASSUME NEW j \in 1 .. k PROVE new[Plus(in, j - 1)] = more[j]
    OBVIOUS
  <2>1. j - 1 \in Slots /\ j - 1 < k
    BY BufLenAssumption DEF Slots
  <2>2. Fill(in, in) = 0
    BY FillFacts
  <2>3. PICK i \in Slots : i = Plus(in, j - 1)
    BY <2>1, PlusFacts
  <2>4. Fill(in, i) = j - 1
    <3>1. PICK m \in Slots : m = j - 1
      BY <2>1
    <3>2. 0 + m < BUF_LEN /\ 0 + m = m
      BY BufLenAssumption DEF Slots
    <3>3. Fill(in, Plus(in, m)) = 0 + m
      BY <2>2, <3>2, FillMoves
    <3> QED BY <2>3, <3>1, <3>2, <3>3
  <2>5. new[i] = fifo[(j - 1) + 1]
    BY <2>1, <2>4 DEF Put, new
  <2>6. (j - 1) + 1 = j
    OBVIOUS
  <2> QED BY <1>3, <2>3, <2>5, <2>6
<1>5. \A j \in 1 .. Fill(out, in) : new[Plus(out, j - 1)] = buf[Plus(out, j - 1)]
  <2> SUFFICES ASSUME NEW j \in 1 .. Fill(out, in)
               PROVE  new[Plus(out, j - 1)] = buf[Plus(out, j - 1)]
    OBVIOUS
  <2>1. PICK fill \in Slots : fill = Fill(out, in)
    BY FillFacts
  <2>2. j - 1 \in Slots /\ j - 1 < fill
    BY <2>1, BufLenAssumption DEF Slots
  <2>3. PICK i \in Slots : i = Plus(out, j - 1)
    BY <2>2, PlusFacts
  <2>4. PICK m \in Slots : m = j - 1
    BY <2>2
  <2>5. Fill(Plus(out, m), in) = fill - m
    BY <2>1, <2>2, <2>4, FillMoves
  <2>6. PICK before \in Slots, after \in Slots : before = Fill(i, in) /\ after = Fill(in, i)
    BY FillFacts
  <2>7. /\ before = fill - m /\ m < fill /\ fill + k < BUF_LEN
        /\ before = IF i <= in THEN in - i ELSE in - i + BUF_LEN
        /\ after = IF in <= i THEN i - in ELSE i - in + BUF_LEN
    BY <2>1, <2>2, <2>3, <2>4, <2>5, <2>6, FillFacts
  <2>8. ~(after < k)
    <3>1. after = BUF_LEN - before
      BY <2>7, BufLenAssumption DEF Slots
    <3> QED BY <2>7, <3>1, BufLenAssumption DEF Slots
  <2> QED BY <2>3, <2>6, <2>8 DEF Put, new
<1>6. Ring(new, out, Plus(in, k)) = Ring(buf, out, in) \o more
  <2>1. /\ Fill(out, in) + Len(more) < BUF_LEN
        /\ Same(new, buf, out, in) /\ Holds(new, in, more)
    BY <1>3, <1>4, <1>5 DEF Same, Holds
  <2>2. Ring(new, out, Plus(in, Len(more))) = Ring(buf, out, in) \o more
    BY <1>2, <2>1, RingGrown
  <2> QED BY <1>3, <2>2
<1>7. PICK rest \in Texts : rest = SubSeq(fifo, k + 1, len)
  <2>1. len \in Int /\ k + 1 \in Int /\ \A j \in k + 1 .. len : fifo[j] \in Int
    BY <1>0, BufLenAssumption DEF Slots, Texts
  <2> QED BY <2>1, SubSeqProperties DEF Texts
<1>8. more \o rest = fifo
  <2>1. 1 \in 1 .. len + 1 /\ k \in 1 - 1 .. len /\ len \in k .. len
    BY <1>0, BufLenAssumption DEF Slots
  <2>2. SubSeq(fifo, 1, k) \o SubSeq(fifo, k + 1, len) = SubSeq(fifo, 1, len)
    BY <1>0, <2>1, ConcatAdjacentSubSeq DEF Texts
  <2> QED BY <1>0, <1>3, <1>7, <2>2, SubSeqFull DEF Texts
<1>9. PICK ring \in Texts : ring = Ring(buf, out, in)
  BY RingFacts
<1>10. (ring \o more) \o rest = ring \o (more \o rest)
  BY Regroup
<1> QED BY <1>0, <1>2, <1>6, <1>7, <1>8, <1>9, <1>10 DEF new, Rest

(* The characters left of a stream, one by one.                               *)
LEMMA Left ==
  ASSUME NEW s \in Texts, NEW len, len = Len(s), NEW k \in 0 .. len
  PROVE  /\ len \in Nat
         /\ SubSeq(s, k + 1, len) \in Texts /\ Len(SubSeq(s, k + 1, len)) = len - k
         /\ \A i \in 1 .. len - k : SubSeq(s, k + 1, len)[i] = s[k + i]
<1>1. len \in Nat
  BY LenProperties
<1>2. k + 1 \in Int /\ len \in Int /\ \A i \in k + 1 .. len : s[i] \in Int
  BY <1>1 DEF Texts
<1>3. PICK part : part = SubSeq(s, k + 1, len)
  OBVIOUS
<1>4. /\ part \in Texts /\ Len(part) = IF k + 1 <= len THEN len - (k + 1) + 1 ELSE 0
      /\ \A i \in 1 .. len - (k + 1) + 1 : part[i] = s[k + 1 + i - 1]
  BY <1>2, <1>3, SubSeqProperties DEF Texts
<1>5. Len(part) = len - k /\ \A i \in 1 .. len - k : part[i] = s[k + i]
  BY <1>1, <1>4
<1> QED BY <1>1, <1>3, <1>4, <1>5

(* The first characters of a stream in two parts, and the others.             *)
LEMMA DropFront ==
  ASSUME NEW s \in Texts, NEW t \in Texts, NEW k \in 1 .. Len(s)
  PROVE  /\ SubSeq(s \o t, 1, k) = SubSeq(s, 1, k)
         /\ SubSeq(s \o t, k + 1, Len(s \o t)) = SubSeq(s, k + 1, Len(s)) \o t
         /\ k <= Len(s \o t)
<1>1. PICK a \in Nat, b \in Nat : a = Len(s) /\ b = Len(t)
  BY LenProperties DEF Texts
<1>2. PICK both : both = s \o t
  OBVIOUS
<1>3. /\ both \in Texts /\ Len(both) = a + b
      /\ \A i \in 1 .. a + b : both[i] = IF i <= a THEN s[i] ELSE t[i - a]
  BY <1>1, <1>2, ConcatProperties DEF Texts
<1>4. SubSeq(both, 1, k) = SubSeq(s, 1, k)
  <2>1. 1 \in 1 .. Len(s) /\ k \in 1 .. Len(s)
    BY <1>1
  <2> QED BY <1>2, <2>1, SubSeqOfConcat1
<1>5. k \in 0 .. a /\ k \in 0 .. a + b
  BY <1>1
<1>6. PICK rest : rest = SubSeq(s, k + 1, a)
  OBVIOUS
<1>7. rest \in Texts /\ Len(rest) = a - k /\ \A i \in 1 .. a - k : rest[i] = s[k + i]
  BY <1>1, <1>5, <1>6, Left
<1>8. PICK left : left = SubSeq(both, k + 1, a + b)
  OBVIOUS
<1>9. /\ left \in Texts /\ Len(left) = a + b - k
      /\ \A i \in 1 .. a + b - k : left[i] = both[k + i]
  BY <1>3, <1>5, <1>8, Left
<1>10. PICK sum : sum = rest \o t
  OBVIOUS
<1>11. /\ sum \in Texts /\ Len(sum) = Len(rest) + Len(t)
       /\ \A i \in 1 .. Len(rest) + Len(t) :
            sum[i] = IF i <= Len(rest) THEN rest[i] ELSE t[i - Len(rest)]
  BY <1>7, <1>10, ConcatProperties DEF Texts
<1>12. \A i \in 1 .. a + b - k : left[i] = sum[i]
  <2> SUFFICES ASSUME NEW i \in 1 .. a + b - k PROVE left[i] = sum[i]
    OBVIOUS
  <2>1. left[i] = both[k + i] /\ k + i \in 1 .. a + b /\ i \in 1 .. Len(rest) + Len(t)
    BY <1>1, <1>5, <1>7, <1>9
  <2>2. CASE i <= a - k
    <3>1. i \in 1 .. a - k /\ k + i <= a /\ i <= Len(rest)
      BY <1>5, <1>7, <2>2
    <3>2. sum[i] = rest[i] /\ rest[i] = s[k + i]
      BY <1>7, <1>11, <2>1, <3>1
    <3>3. both[k + i] = s[k + i]
      BY <1>3, <2>1, <3>1
    <3> QED BY <2>1, <3>2, <3>3
  <2>3. CASE ~(i <= a - k)
    <3>1. ~(i <= Len(rest)) /\ ~(k + i <= a) /\ k + i - a = i - Len(rest)
      BY <1>5, <1>7, <2>3
    <3>2. sum[i] = t[i - Len(rest)]
      BY <1>11, <2>1, <3>1
    <3>3. both[k + i] = t[k + i - a]
      <4>1. PICK m \in 1 .. a + b : m = k + i
        BY <2>1
      <4>2. both[m] = IF m <= a THEN s[m] ELSE t[m - a]
        BY <1>3
      <4> QED BY <3>1, <4>1, <4>2
    <3> QED BY <2>1, <3>1, <3>2, <3>3
  <2> QED BY <2>2, <2>3
<1>13. Len(left) = Len(sum) /\ Len(left) = a + b - k
  BY <1>1, <1>5, <1>7, <1>9, <1>11
<1>14. left = sum
  BY <1>9, <1>11, <1>12, <1>13, SeqEqual DEF Texts
<1>15. Len(s \o t) = a + b /\ k <= a + b
  BY <1>2, <1>3, <1>5
<1>16. SubSeq(both, k + 1, a + b) = SubSeq(s, k + 1, a) \o t
  BY <1>6, <1>8, <1>10, <1>14
<1>17. SubSeq(s \o t, k + 1, Len(s \o t)) = SubSeq(s, k + 1, Len(s)) \o t
  BY <1>1, <1>2, <1>15, <1>16
<1> QED BY <1>2, <1>4, <1>15, <1>17
-----------------------------------------------------------------------------
(* What a call under way may still rely on, whatever the interrupt routine    *)
(* has done since it looked: the slots it is about to fill are free, those it *)
(* is about to read are held, and neither go round the end of the buffer.     *)
CallInv ==
  /\ todo \in Nat /\ sent \in 0 .. Chars - 1 /\ rx_buf \in Buffers
  /\ pc \in {"w_copy", "w_publish"} =>
       /\ n \in 1 .. BUF_LEN - 1 /\ tx_in + n <= BUF_LEN
       /\ Fill(tx_out, tx_in) + n < BUF_LEN
  /\ pc \in {"r_copy", "r_publish"} =>
       /\ n \in 1 .. BUF_LEN - 1 /\ rx_out + n <= BUF_LEN
       /\ n <= Fill(rx_out, rx_in)
  /\ pc \in {"w_copy", "r_copy"} => n <= todo
  /\ pc = "w_publish" => \A k \in 0 .. n - 1 : tx_buf[tx_in + k] = Number(written, k)

(* What one pass of the interrupt routine moves: no more than waits, and no   *)
(* more than there is room for.                                               *)
LEMMA IsrMoves ==
  ASSUME IInv, Isr
  PROVE  \E take \in Slots, give \in Slots, len \in Nat :
           /\ len = Len(rx_fifo) /\ take <= len
           /\ Fill(rx_out, rx_in) + take < BUF_LEN /\ give <= Fill(tx_out, tx_in)
           /\ Receive(take) /\ Transmit(give)
           /\ UNCHANGED <<tx_buf, tx_in, rx_out, callVars, seen, sent>>
<1>1. PICK len \in Nat : len = Len(rx_fifo)
  BY LenProperties DEF IInv, Typed
<1>2. PICK room \in Slots : room = BUF_LEN - 1 - Fill(rx_out, rx_in)
  BY FillFacts DEF IInv, Typed
<1>3. PICK held \in Slots, waits \in Slots :
        held = Fill(rx_out, rx_in) /\ waits = Fill(tx_out, tx_in)
  BY FillFacts DEF IInv, Typed
<1>4. PICK used \in Nat : used = Len(tx_fifo)
  BY LenProperties DEF IInv, Typed
<1> DEFINE take == IF ReadPending THEN Lesser(room, len) ELSE 0
           give == IF WritePending THEN Lesser(WriteDepth - used, waits) ELSE 0
<1>5. /\ Receive(take) /\ Transmit(give)
      /\ UNCHANGED <<tx_buf, tx_in, rx_out, callVars, seen, sent>>
  BY <1>1, <1>2, <1>3, <1>4 DEF Isr
<1>6. take \in Slots /\ take <= len /\ take <= room
  BY BufLenAssumption DEF Lesser, Slots
<1>7. WritePending => WriteDepth - used \in Nat
  BY <1>4, DeviceAssumption DEF WritePending
<1>8. give \in Slots /\ give <= waits
  BY <1>7, BufLenAssumption DEF Lesser, Slots
<1>9. held + take < BUF_LEN
  BY <1>2, <1>3, <1>6, BufLenAssumption DEF Slots
<1> HIDE DEF take, give
<1> QED BY <1>1, <1>3, <1>5, <1>6, <1>8, <1>9

(* No call is under way at first.                                             *)
LEMMA InitCallInv == Init => CallInv
  BY BufLenAssumption, CharsAssumption DEF Init, CallInv, Slots, Buffers

(* Between two looks of the program at the rings, only the interrupt routine  *)
(* moves an index, and only to the advantage of the call.                     *)
LEMMA IsrCallInv == IInv /\ CallInv /\ Isr => CallInv'
<1> SUFFICES ASSUME IInv, CallInv, Isr PROVE CallInv'
  OBVIOUS
<1>1. PICK take \in Slots, give \in Slots, len \in Nat :
           /\ len = Len(rx_fifo) /\ take <= len
           /\ Fill(rx_out, rx_in) + take < BUF_LEN /\ give <= Fill(tx_out, tx_in)
           /\ Receive(take) /\ Transmit(give)
           /\ UNCHANGED <<tx_buf, tx_in, rx_out, callVars, seen, sent>>
  BY IsrMoves
<1>2. rx_in' = Plus(rx_in, take) /\ tx_out' = Plus(tx_out, give)
  BY <1>1 DEF Receive, Transmit
<1>3. tx_in \in Slots /\ tx_out \in Slots /\ rx_in \in Slots /\ rx_out \in Slots
  BY DEF IInv, Typed
<1>4. /\ Fill(rx_out', rx_in') = Fill(rx_out, rx_in) + take
      /\ Fill(tx_out', tx_in') = Fill(tx_out, tx_in) - give
  BY <1>1, <1>2, <1>3, FillMoves
<1>5. rx_buf' \in Buffers
  <2>1. rx_buf' = Put(rx_buf, rx_in, rx_fifo, take)
    BY <1>1 DEF Receive, Put
  <2>2. rx_fifo \in Texts /\ rx_buf \in Buffers
    BY DEF IInv, Typed, CallInv, Texts
  <2>3. take <= Len(rx_fifo) /\ Fill(rx_out, rx_in) + take < BUF_LEN
    BY <1>1
  <2> QED BY <1>3, <2>1, <2>2, <2>3, Received
<1>6. PICK held \in Slots, waits \in Slots :
        held = Fill(rx_out, rx_in) /\ waits = Fill(tx_out, tx_in)
  BY <1>3, FillFacts
<1>7. /\ n <= held => n <= Fill(rx_out', rx_in')
      /\ waits + n < BUF_LEN => Fill(tx_out', tx_in') + n < BUF_LEN
  <2>1. n \in Int
    BY DEF IInv, Typed
  <2> QED BY <1>4, <1>6, <2>1, BufLenAssumption DEF Slots
<1>8. /\ UNCHANGED <<tx_buf, tx_in, rx_out, pc, todo, n, written, sent>>
  BY <1>1 DEF callVars
<1> QED BY <1>5, <1>6, <1>7, <1>8 DEF CallInv

(* A write that finds room will fill free slots, up to the end of the buffer. *)
LEMMA WriteCallInv ==
  ASSUME IInv, CallInv, \/ WriteSnap \/ WriteCopy \/ WritePublish
                        \/ WriteKick \/ WriteWait \/ WriteCheck \/ Close
  PROVE  CallInv'
<1> USE DEF CallInv, Return, Goto, driverVars, hostVars
<1>0. tx_in \in Slots /\ tx_out \in Slots
  BY DEF IInv, Typed
<1>1. CASE WriteSnap
  <2>1. PICK fill \in Slots : fill = Fill(tx_out, tx_in)
    BY <1>0, FillFacts
  <2>2. fill = IF tx_out <= tx_in THEN tx_in - tx_out ELSE tx_in - tx_out + BUF_LEN
    BY <1>0, <2>1, FillFacts
  <2>3. PICK room : room = TxRoom(tx_in, tx_out)
    OBVIOUS
  <2>4. room \in 0 .. BUF_LEN - 1 /\ tx_in + room <= BUF_LEN /\ fill + room < BUF_LEN
    BY <1>0, <2>2, <2>3, BufLenAssumption DEF TxRoom, Slots
  <2>5. n' = IF room <= todo THEN room ELSE todo
    BY <1>1, <2>3 DEF WriteSnap, Lesser
  <2>6. n' \in 0 .. BUF_LEN - 1 /\ tx_in + n' <= BUF_LEN /\ fill + n' < BUF_LEN /\ n' <= todo
    BY <1>0, <2>4, <2>5, BufLenAssumption DEF Slots
  <2> QED BY <1>1, <2>1, <2>6 DEF WriteSnap
<1>2. CASE WriteCopy
  <2>1. todo' \in Nat
    BY <1>2 DEF WriteCopy
  <2>2. \A k \in 0 .. n - 1 : tx_buf'[tx_in + k] = Number(written, k)
    <3> SUFFICES ASSUME NEW k \in 0 .. n - 1 PROVE tx_buf'[tx_in + k] = Number(written, k)
      OBVIOUS
    <3>1. PICK i \in Slots : i = tx_in + k
      BY <1>0, <1>2, BufLenAssumption DEF WriteCopy, Slots
    <3>2. i \in tx_in .. tx_in + n - 1 /\ i - tx_in = k
      BY <1>0, <1>2, <3>1 DEF WriteCopy, Slots
    <3> QED BY <1>2, <3>1, <3>2 DEF WriteCopy
  <2> QED BY <1>2, <2>1, <2>2 DEF WriteCopy
<1>3. CASE WritePublish
  BY <1>3 DEF WritePublish
<1>4. CASE WriteKick
  BY <1>4 DEF WriteKick
<1>5. CASE WriteWait \/ WriteCheck \/ Close
  BY <1>5 DEF WriteWait, WriteCheck, Close
<1> QED BY <1>1, <1>2, <1>3, <1>4, <1>5

(* A read that finds characters takes those up to the end of the buffer.      *)
LEMMA ReadCallInv ==
  ASSUME IInv, CallInv, \/ ReadSnap \/ ReadCopy \/ ReadPublish
                        \/ ReadWait \/ ReadCheck \/ ReadEnable
  PROVE  CallInv'
<1> USE DEF CallInv, Return, Goto, driverVars, hostVars
<1>0. rx_in \in Slots /\ rx_out \in Slots
  BY DEF IInv, Typed
<1>1. CASE ReadSnap
  <2>1. PICK fill \in Slots : fill = Fill(rx_out, rx_in)
    BY <1>0, FillFacts
  <2>2. fill = IF rx_out <= rx_in THEN rx_in - rx_out ELSE rx_in - rx_out + BUF_LEN
    BY <1>0, <2>1, FillFacts
  <2>3. PICK held : held = RxHeld(rx_in, rx_out)
    OBVIOUS
  <2>4. held \in 0 .. BUF_LEN - 1 /\ rx_out + held <= BUF_LEN /\ held <= fill
    BY <1>0, <2>2, <2>3, BufLenAssumption DEF RxHeld, Slots
  <2>5. n' = IF held <= todo THEN held ELSE todo
    BY <1>1, <2>3 DEF ReadSnap, Lesser
  <2>6. n' \in 0 .. BUF_LEN - 1 /\ rx_out + n' <= BUF_LEN /\ n' <= fill /\ n' <= todo
    BY <1>0, <2>4, <2>5, BufLenAssumption DEF Slots
  <2> QED BY <1>1, <2>1, <2>6 DEF ReadSnap
<1>2. CASE ReadCopy
  BY <1>2 DEF ReadCopy
<1>3. CASE ReadPublish
  BY <1>3 DEF ReadPublish
<1>4. CASE ReadWait \/ ReadCheck
  BY <1>4 DEF ReadWait, ReadCheck
<1>5. CASE ReadEnable
  BY <1>5 DEF ReadEnable
<1> QED BY <1>1, <1>2, <1>3, <1>4, <1>5

(* Nothing else touches what a call relies on.                                *)
LEMMA OtherCallInv ==
  ASSUME IInv, CallInv, SysInit \/ StartCall \/ Second \/ HostPolls \/ HostSends
  PROVE  CallInv'
<1> USE DEF CallInv, driverVars, callVars, hostVars
<1>1. CASE SysInit
  BY <1>1 DEF SysInit
<1>2. CASE StartCall
  <2>1. ASSUME NEW count \in Counts \cup {0}, NEW flag \in BOOLEAN,
               NEW place \in {"w_snap", "r_snap", "c_drain"}, Call(place, count, flag)
        PROVE  CallInv'
    <3>1. count \in Nat
      BY CharsAssumption
    <3> QED BY <2>1, <3>1 DEF Call
  <2>2. ASSUME NEW request \in Requests, SetTimeout(request) PROVE CallInv'
    BY <2>2 DEF SetTimeout
  <2> QED BY <1>2, <2>1, <2>2 DEF StartCall
<1>3. CASE Second
  BY <1>3 DEF Second
<1>4. CASE HostPolls
  BY <1>4 DEF HostPolls
<1>5. CASE HostSends
  <2>1. sent' \in 0 .. Chars - 1
    BY <1>5, CharsAssumption, BufLenAssumption, DeviceAssumption DEF HostSends, Number
  <2> QED BY <1>5, <2>1 DEF HostSends
<1> QED BY <1>1, <1>2, <1>3, <1>4, <1>5

(* Every step keeps what a call under way relies on.                          *)
LEMMA CallInvKept == IInv /\ CallInv /\ [Next]_vars => CallInv'
<1> SUFFICES ASSUME IInv, CallInv, [Next]_vars PROVE CallInv'
  OBVIOUS
<1>1. CASE UNCHANGED vars
  BY <1>1 DEF vars, driverVars, callVars, hostVars, CallInv
<1> QED BY <1>1, IsrCallInv, WriteCallInv, ReadCallInv, OtherCallInv DEF Next, InCall
-----------------------------------------------------------------------------
(* The two streams, as the abstract specification sees them.                  *)
ToHost == tx_fifo \o Ring(tx_buf, tx_out, tx_in)
Held == Plus(rx_out, Taken)
FromHost == Ring(rx_buf, Held, rx_in) \o rx_fifo
StreamVars == <<written, ToHost, seen, sent, FromHost, dest>>

(* What the proofs below rest on, of any state.                               *)
LEMMA Pieces ==
  ASSUME IInv, CallInv
  PROVE  /\ tx_in \in Slots /\ tx_out \in Slots /\ rx_in \in Slots /\ rx_out \in Slots
         /\ tx_buf \in Buffers /\ rx_buf \in Buffers /\ tx_fifo \in Texts /\ rx_fifo \in Texts
         /\ Ring(tx_buf, tx_out, tx_in) \in Texts
         /\ Len(Ring(tx_buf, tx_out, tx_in)) = Fill(tx_out, tx_in)
         /\ Taken \in Slots /\ Taken <= Fill(rx_out, rx_in) /\ Held \in Slots
         /\ Fill(Held, rx_in) = Fill(rx_out, rx_in) - Taken
         /\ Ring(rx_buf, Held, rx_in) \in Texts
<1>1. /\ tx_in \in Slots /\ tx_out \in Slots /\ rx_in \in Slots /\ rx_out \in Slots
      /\ tx_buf \in Buffers /\ rx_buf \in Buffers /\ tx_fifo \in Texts /\ rx_fifo \in Texts
  BY DEF IInv, Typed, CallInv, Texts, Buffers
<1>2. Taken \in Slots /\ Taken <= Fill(rx_out, rx_in)
  <2>1. PICK fill \in Slots : fill = Fill(rx_out, rx_in)
    BY <1>1, FillFacts
  <2>2. pc = "r_publish" => n \in 1 .. BUF_LEN - 1 /\ n <= fill
    BY <2>1 DEF CallInv
  <2> QED BY <2>1, <2>2, BufLenAssumption DEF Taken, Slots
<1>3. Held \in Slots /\ Fill(Held, rx_in) = Fill(rx_out, rx_in) - Taken
  BY <1>1, <1>2, PlusFacts, FillMoves DEF Held
<1> QED BY <1>1, <1>2, <1>3, RingFacts

(* Nothing is seen of a step that leaves rings and FIFOs alone.               *)
LEMMA Unseen ==
  ASSUME UNCHANGED <<tx_fifo, tx_buf, tx_out, tx_in, rx_buf, rx_in, rx_fifo>>, Held' = Held
  PROVE  ToHost' = ToHost /\ FromHost' = FromHost
  BY DEF ToHost, FromHost, Ring, Fill, Plus

(* Nor of one that has no part in a read.                                     *)
LEMMA HeldStays ==
  /\ UNCHANGED <<rx_out, pc, n>> => Held' = Held
  /\ rx_out' = rx_out /\ pc # "r_publish" /\ pc' # "r_publish" => Held' = Held
  BY DEF Held, Taken, Plus

(* Zero steps along a ring.                                                   *)
LEMMA PlusZero == \A i \in Slots : Plus(i, 0) = i /\ 0 \in Slots
  BY BufLenAssumption DEF Plus, Slots

(* A call returns, or does nothing that is seen.                              *)
LEMMA ReturnRefines ==
  ASSUME Return \/ dest' = dest, ToHost' = ToHost, FromHost' = FromHost,
         UNCHANGED <<written, seen, sent>>
  PROVE  Streams!Consume \/ UNCHANGED StreamVars
  BY DEF Return, Streams!Consume, ToHost, FromHost, Held, StreamVars

(* Characters are put down behind those that wait, then published.            *)
LEMMA WriteRefines ==
  ASSUME IInv, CallInv, WriteCopy \/ WritePublish
  PROVE  UNCHANGED StreamVars \/ \E k \in 1 .. BUF_LEN - 1 : Streams!Accept(k)
<1>0. /\ tx_in \in Slots /\ tx_out \in Slots /\ tx_buf \in Buffers /\ tx_fifo \in Texts
      /\ Ring(tx_buf, tx_out, tx_in) \in Texts
  BY Pieces
<1>1. PICK fill \in Slots : fill = Fill(tx_out, tx_in)
  BY <1>0, FillFacts
<1>2. n \in 1 .. BUF_LEN - 1 /\ tx_in + n <= BUF_LEN /\ fill + n < BUF_LEN
  BY <1>1 DEF WriteCopy, WritePublish, CallInv
<1>3. CASE WriteCopy
  <2>1. tx_buf' \in Buffers
    <3>1. \A k \in Int : Number(written, k) \in Int
      BY CharsAssumption DEF Number, IInv, Typed
    <3>2. \A i \in Slots : i \in Int /\ tx_in \in Int
      BY <1>0, BufLenAssumption DEF Slots
    <3> QED BY <1>0, <1>3, <3>1, <3>2 DEF WriteCopy, Buffers
  <2>2. Same(tx_buf', tx_buf, tx_out, tx_in)
    <3> SUFFICES ASSUME NEW k \in 1 .. fill
                 PROVE  tx_buf'[Plus(tx_out, k - 1)] = tx_buf[Plus(tx_out, k - 1)]
      BY <1>1 DEF Same
    <3>1. PICK m \in Slots : m = k - 1
      BY BufLenAssumption DEF Slots
    <3>2. PICK i \in Slots : i = Plus(tx_out, m)
      BY <1>0, PlusFacts
    <3>3. i = IF tx_out + m < BUF_LEN THEN tx_out + m ELSE tx_out + m - BUF_LEN
      BY <1>0, <3>2, PlusFacts
    <3>4. fill = IF tx_out <= tx_in THEN tx_in - tx_out ELSE tx_in - tx_out + BUF_LEN
      BY <1>0, <1>1, FillFacts
    <3>5. m < fill
      BY <3>1, BufLenAssumption DEF Slots
    <3>6. i \notin tx_in .. tx_in + n - 1
      BY <1>0, <1>2, <3>3, <3>4, <3>5, BufLenAssumption DEF Slots
    <3> QED BY <1>3, <3>1, <3>2, <3>6 DEF WriteCopy
  <2>3. PICK none, new : none = << >> /\ new = tx_buf'
    OBVIOUS
  <2>4. none \in Texts /\ Len(none) = 0
    BY <2>3 DEF Texts
  <2>5. Ring(new, tx_out, Plus(tx_in, Len(none))) = Ring(tx_buf, tx_out, tx_in) \o none
    <3>1. new \in Buffers /\ Same(new, tx_buf, tx_out, tx_in)
      BY <2>1, <2>2, <2>3
    <3>2. Holds(new, tx_in, none)
      BY <2>4 DEF Holds
    <3>3. Fill(tx_out, tx_in) + Len(none) < BUF_LEN
      BY <1>1, <2>4, BufLenAssumption DEF Slots
    <3>4. none \in Texts
      BY <2>4
    <3> QED BY <1>0, <3>1, <3>2, <3>3, <3>4, RingGrown
  <2>6. Ring(tx_buf', tx_out, tx_in) = Ring(tx_buf, tx_out, tx_in)
    BY <1>0, <2>3, <2>4, <2>5, PlusZero, ConcatEmptySeq DEF Texts
  <2>7. ToHost' = ToHost
    BY <1>3, <2>6 DEF WriteCopy, ToHost, hostVars
  <2>8. Held' = Held
    BY <1>3, HeldStays DEF WriteCopy
  <2>9. FromHost' = FromHost
    BY <1>3, <2>8 DEF WriteCopy, FromHost, hostVars, Ring, Fill, Plus
  <2> QED BY <1>3, <2>7, <2>9 DEF WriteCopy, StreamVars, hostVars
<1>4. CASE WritePublish
  <2>1. PICK more : more = Streams!Text(written, n)
    OBVIOUS
  <2>2. /\ more \in Texts /\ Len(more) = n
        /\ \A k \in 1 .. n : more[k] = (written + k - 1) % Chars
    <3>1. \A k \in 1 .. n : (written + k - 1) % Chars \in Int
      BY <1>2, CharsAssumption, BufLenAssumption DEF IInv, Typed
    <3>2. n \in Nat
      BY <1>2
    <3>3. more = [k \in 1 .. n |-> (written + k - 1) % Chars]
      BY <2>1 DEF Streams!Text
    <3> QED BY <3>1, <3>2, <3>3 DEF Texts
  <2>3. Holds(tx_buf, tx_in, more)
    <3> SUFFICES ASSUME NEW k \in 1 .. n PROVE tx_buf[Plus(tx_in, k - 1)] = more[k]
      BY <2>2 DEF Holds
    <3>1. PICK m \in Slots : m = k - 1 /\ m \in 0 .. n - 1
      BY <1>2, BufLenAssumption DEF Slots
    <3>2. tx_in + m < BUF_LEN
      BY <1>0, <1>2, <3>1, BufLenAssumption DEF Slots
    <3>3. Plus(tx_in, m) = tx_in + m
      BY <1>0, <3>2, PlusFacts
    <3>4. tx_buf[tx_in + m] = Number(written, m)
      BY <1>4, <3>1 DEF WritePublish, CallInv
    <3>5. written + k - 1 = written + m
      BY <3>1, BufLenAssumption DEF Slots, IInv, Typed
    <3> QED BY <2>2, <3>1, <3>3, <3>4, <3>5 DEF Number
  <2>4. Fill(tx_out, tx_in) + Len(more) < BUF_LEN /\ Same(tx_buf, tx_buf, tx_out, tx_in)
    BY <1>1, <1>2, <2>2 DEF Same
  <2>5. Ring(tx_buf, tx_out, Plus(tx_in, n)) = Ring(tx_buf, tx_out, tx_in) \o more
    BY <1>0, <2>2, <2>3, <2>4, RingGrown
  <2>6. ToHost' = ToHost \o more
    <3>1. ToHost' = tx_fifo \o (Ring(tx_buf, tx_out, tx_in) \o more)
      BY <1>4, <2>5 DEF WritePublish, ToHost, hostVars
    <3> QED BY <1>0, <2>2, <3>1, Regroup DEF ToHost
  <2>7. Held' = Held
    BY <1>4, HeldStays DEF WritePublish
  <2>8. FromHost' = FromHost
    BY <1>4, <2>7 DEF WritePublish, FromHost, hostVars, Ring, Fill, Plus
  <2>9. Streams!Accept(n)
    BY <1>4, <2>1, <2>6, <2>8
    DEF Streams!Accept, WritePublish, Number, hostVars, ToHost, FromHost, Held
  <2> QED BY <1>2, <2>9
<1> QED BY <1>3, <1>4

(* A memcpy hands over the oldest characters; giving up their slots is unseen.*)
LEMMA ReadRefines ==
  ASSUME IInv, CallInv, ReadCopy \/ ReadPublish
  PROVE  UNCHANGED StreamVars \/ \E k \in 1 .. BUF_LEN - 1 : Streams!Deliver(k)
<1>0. /\ rx_in \in Slots /\ rx_out \in Slots /\ rx_buf \in Buffers /\ rx_fifo \in Texts
  BY Pieces
<1>1. PICK fill \in Slots : fill = Fill(rx_out, rx_in)
  BY <1>0, FillFacts
<1>2. n \in 1 .. BUF_LEN - 1 /\ rx_out + n <= BUF_LEN /\ n <= fill
  BY <1>1 DEF ReadCopy, ReadPublish, CallInv
<1>3. CASE ReadCopy
  <2>1. Held = rx_out /\ Held' = Plus(rx_out, n)
    BY <1>0, <1>3, PlusZero DEF ReadCopy, Held, Taken, driverVars, Plus
  <2>2. PICK ring \in Texts : ring = Ring(rx_buf, rx_out, rx_in)
    BY <1>0, RingFacts
  <2>3. /\ Len(ring) = fill
        /\ \A k \in 1 .. fill : ring[k] = rx_buf[Plus(rx_out, k - 1)]
    BY <1>0, <1>1, <2>2, RingFacts
  <2>4. n \in 0 .. Fill(rx_out, rx_in) /\ n \in 1 .. Len(ring)
    BY <1>1, <1>2, <2>3, BufLenAssumption DEF Slots
  <2>5. Ring(rx_buf, Plus(rx_out, n), rx_in) = SubSeq(ring, n + 1, Len(ring))
    BY <1>0, <1>1, <2>2, <2>3, <2>4, RingRest
  <2>6. dest' = SubSeq(ring, 1, n)
    <3>1. PICK text : text = SubSeq(ring, 1, n)
      OBVIOUS
    <3>2. 1 \in Int /\ n \in Int /\ \A k \in 1 .. n : ring[k] \in Int
      BY <1>2, <2>2, <2>4 DEF Texts
    <3>3. /\ text \in Seq(Int) /\ Len(text) = IF 1 <= n THEN n - 1 + 1 ELSE 0
          /\ \A k \in 1 .. n - 1 + 1 : text[k] = ring[1 + k - 1]
      BY <3>1, <3>2, SubSeqProperties
    <3>4. Len(text) = n /\ \A k \in 1 .. n : text[k] = ring[k]
      BY <1>2, <3>3
    <3>5. \A k \in 1 .. n : rx_buf[rx_out + k - 1] = ring[k]
      <4> SUFFICES ASSUME NEW k \in 1 .. n PROVE rx_buf[rx_out + k - 1] = ring[k]
        OBVIOUS
      <4>1. PICK m \in Slots : m = k - 1
        BY <1>2, BufLenAssumption DEF Slots
      <4>2. /\ rx_out + m < BUF_LEN /\ k \in 1 .. fill
            /\ rx_out + k - 1 = rx_out + m
        BY <1>0, <1>2, <4>1, BufLenAssumption DEF Slots
      <4>3. Plus(rx_out, m) = rx_out + m
        BY <1>0, <4>2, PlusFacts
      <4> QED BY <2>3, <4>1, <4>2, <4>3
    <3>6. dest' = [k \in 1 .. n |-> rx_buf[rx_out + k - 1]]
      BY <1>3 DEF ReadCopy
    <3>7. n \in Nat
      BY <1>2
    <3>8. dest' = [k \in 1 .. n |-> ring[k]]
      BY <3>5, <3>6
    <3>9. text = [k \in 1 .. n |-> ring[k]]
      BY <3>3, <3>4, <3>7
    <3> QED BY <3>1, <3>8, <3>9
  <2>7. FromHost = ring \o rx_fifo /\ FromHost' = SubSeq(ring, n + 1, Len(ring)) \o rx_fifo
    BY <1>3, <2>1, <2>2, <2>5 DEF ReadCopy, FromHost, driverVars, hostVars, Ring, Fill
  <2>8. /\ n <= Len(FromHost) /\ dest' = SubSeq(FromHost, 1, n)
        /\ FromHost' = SubSeq(FromHost, n + 1, Len(FromHost))
    BY <1>0, <2>2, <2>4, <2>6, <2>7, DropFront
  <2>9. ToHost' = ToHost
    BY <1>3 DEF ReadCopy, ToHost, driverVars, hostVars
  <2>10. Streams!Deliver(n)
    BY <1>3, <2>8, <2>9 DEF Streams!Deliver, ReadCopy, hostVars, ToHost, FromHost, Held
  <2> QED BY <1>2, <2>10
<1>4. CASE ReadPublish
  <2>1. Held = Plus(rx_out, n) /\ Held' = Plus(Plus(rx_out, n), 0)
    BY <1>4 DEF ReadPublish, Held, Taken, Plus
  <2>2. n \in Slots
    BY <1>2, BufLenAssumption DEF Slots
  <2>3. Held' = Held
    BY <1>0, <2>1, <2>2, PlusZero, PlusFacts
  <2>4. ToHost' = ToHost /\ FromHost' = FromHost
    BY <1>4, <2>3, Unseen DEF ReadPublish, hostVars
  <2> QED BY <1>4, <2>4 DEF ReadPublish, StreamVars, hostVars
<1> QED BY <1>3, <1>4

(* The interrupt routine moves characters from one place of a stream to the   *)
(* next, and the streams stay as they are.                                    *)
LEMMA IsrRefines == IInv /\ CallInv /\ Isr => UNCHANGED StreamVars
<1> SUFFICES ASSUME IInv, CallInv, Isr PROVE UNCHANGED StreamVars
  OBVIOUS
<1>1. PICK take \in Slots, give \in Slots, len \in Nat :
           /\ len = Len(rx_fifo) /\ take <= len
           /\ Fill(rx_out, rx_in) + take < BUF_LEN /\ give <= Fill(tx_out, tx_in)
           /\ Receive(take) /\ Transmit(give)
           /\ UNCHANGED <<tx_buf, tx_in, rx_out, callVars, seen, sent>>
  BY IsrMoves
<1>2. /\ tx_in \in Slots /\ tx_out \in Slots /\ rx_in \in Slots /\ rx_out \in Slots
      /\ tx_buf \in Buffers /\ rx_buf \in Buffers /\ tx_fifo \in Texts /\ rx_fifo \in Texts
      /\ Taken \in Slots /\ Held \in Slots
      /\ Fill(Held, rx_in) = Fill(rx_out, rx_in) - Taken
  BY Pieces
<1>3. Held' = Held
  BY <1>1, HeldStays DEF callVars
<1>4. FromHost' = FromHost
  <2>1. /\ rx_buf' = Put(rx_buf, rx_in, rx_fifo, take) /\ rx_in' = Plus(rx_in, take)
        /\ rx_fifo' = Rest(rx_fifo, take)
    BY <1>1 DEF Receive, Put, Rest
  <2>2. PICK held \in Slots : held = Held
    BY <1>2
  <2>3. Fill(held, rx_in) + take < BUF_LEN
    <3>1. PICK fill \in Slots : fill = Fill(rx_out, rx_in)
      BY <1>2, FillFacts
    <3> QED BY <1>1, <1>2, <2>2, <3>1, BufLenAssumption DEF Slots
  <2>4. Ring(Put(rx_buf, rx_in, rx_fifo, take), held, Plus(rx_in, take))
          \o Rest(rx_fifo, take) = Ring(rx_buf, held, rx_in) \o rx_fifo
    <3>1. take <= Len(rx_fifo)
      BY <1>1
    <3>2. rx_in \in Slots /\ rx_buf \in Buffers /\ rx_fifo \in Texts
      BY <1>2
    <3> QED BY <2>3, <3>1, <3>2, Received
  <2>5. FromHost' = Ring(Put(rx_buf, rx_in, rx_fifo, take), held, Plus(rx_in, take))
                      \o Rest(rx_fifo, take)
    BY <1>3, <2>1, <2>2 DEF FromHost
  <2> QED BY <2>2, <2>4, <2>5 DEF FromHost
<1>5. ToHost' = ToHost
  <2>1. PICK fill \in Slots : fill = Fill(tx_out, tx_in)
    BY <1>2, FillFacts
  <2>2. PICK ring \in Texts : ring = Ring(tx_buf, tx_out, tx_in)
    BY <1>2, RingFacts
  <2>3. Len(ring) = fill /\ give \in 0 .. fill /\ give \in 0 .. Fill(tx_out, tx_in)
    BY <1>1, <1>2, <2>1, <2>2, RingFacts, BufLenAssumption DEF Slots
  <2>4. PICK rest \in Texts : rest = SubSeq(ring, give + 1, fill)
    BY <2>3, Left
  <2>5. Ring(tx_buf, Plus(tx_out, give), tx_in) = rest
    <3>1. Ring(tx_buf, Plus(tx_out, give), tx_in)
            = SubSeq(Ring(tx_buf, tx_out, tx_in), give + 1, Fill(tx_out, tx_in))
      BY <1>2, <2>3, RingRest
    <3> QED BY <2>1, <2>2, <2>4, <3>1
  <2>6. PICK front \in Texts : front = SubSeq(ring, 1, give)
    <3>1. 1 \in Int /\ give \in Int /\ \A k \in 1 .. give : ring[k] \in Int
      BY <2>3, <2>2, BufLenAssumption DEF Texts, Slots
    <3> QED BY <3>1, SubSeqProperties DEF Texts
  <2>7. front \o rest = ring
    <3>1. /\ 1 \in 1 .. Len(ring) + 1 /\ give \in 1 - 1 .. Len(ring)
          /\ Len(ring) \in give .. Len(ring)
      BY <2>3, BufLenAssumption DEF Slots
    <3>2. ring \in Seq(Int)
      BY DEF Texts
    <3>3. SubSeq(ring, 1, give) \o SubSeq(ring, give + 1, Len(ring))
            = SubSeq(ring, 1, Len(ring))
      BY <3>1, <3>2, ConcatAdjacentSubSeq
    <3> QED BY <2>3, <2>4, <2>6, <3>2, <3>3, SubSeqFull
  <2>8. tx_fifo' = tx_fifo \o front /\ tx_out' = Plus(tx_out, give)
    BY <1>1, <2>2, <2>6 DEF Transmit
  <2>9. ToHost' = (tx_fifo \o front) \o rest
    BY <1>1, <2>5, <2>8 DEF ToHost
  <2>10. (tx_fifo \o front) \o rest = tx_fifo \o (front \o rest)
    BY <1>2, Regroup
  <2> QED BY <2>2, <2>7, <2>9, <2>10 DEF ToHost
<1> QED BY <1>1, <1>4, <1>5 DEF StreamVars, callVars

(* The host takes the oldest character, or sends its next one.                *)
LEMMA HostRefines ==
  ASSUME IInv, CallInv, HostPolls \/ HostSends
  PROVE  UNCHANGED StreamVars \/ Streams!HostTakes \/ Streams!HostSends
<1>0. /\ tx_fifo \in Texts /\ rx_fifo \in Texts
      /\ Ring(tx_buf, tx_out, tx_in) \in Texts /\ Ring(rx_buf, Held, rx_in) \in Texts
  BY Pieces
<1>1. Held' = Held
  BY HeldStays DEF HostPolls, HostSends, driverVars, callVars
<1>2. CASE HostPolls
  <2>1. FromHost' = FromHost
    BY <1>1, <1>2 DEF HostPolls, FromHost, driverVars, Ring, Fill
  <2>2. CASE tx_fifo = << >>
    <3>1. ToHost' = ToHost
      BY <1>2, <2>2 DEF HostPolls, ToHost, driverVars, Ring, Fill
    <3> QED BY <1>2, <2>1, <2>2, <3>1 DEF HostPolls, StreamVars, driverVars, callVars
  <2>3. CASE tx_fifo # << >>
    <3>1. PICK ring \in Texts : ring = Ring(tx_buf, tx_out, tx_in)
      BY <1>0
    <3>2. tx_fifo \o ring # << >> /\ Head(tx_fifo \o ring) = Head(tx_fifo)
          /\ Tail(tx_fifo \o ring) = Tail(tx_fifo) \o ring
      BY <1>0, <2>3 DEF Texts
    <3>3. ToHost = tx_fifo \o ring /\ ToHost' = Tail(tx_fifo) \o ring
      BY <1>2, <2>3, <3>1 DEF HostPolls, ToHost, driverVars, Ring, Fill
    <3>4. ToHost # << >> /\ seen' = <<Head(ToHost)>> /\ ToHost' = Tail(ToHost)
      BY <1>2, <2>3, <3>2, <3>3 DEF HostPolls
    <3>5. Streams!HostTakes
      BY <1>2, <2>1, <3>4
      DEF Streams!HostTakes, HostPolls, driverVars, callVars, ToHost, FromHost, Held
    <3> QED BY <3>5
  <2> QED BY <2>2, <2>3
<1>3. CASE HostSends
  <2>1. ToHost' = ToHost
    BY <1>3 DEF HostSends, ToHost, driverVars, Ring, Fill
  <2>2. PICK ring \in Texts : ring = Ring(rx_buf, Held, rx_in)
    BY <1>0
  <2>3. Streams!Text(sent, 1) = <<sent>>
    <3>1. sent \in 0 .. Chars - 1 /\ Chars \in Nat
      BY CharsAssumption DEF CallInv
    <3>2. (sent + 1 - 1) % Chars = sent
      BY <3>1
    <3>3. Streams!Text(sent, 1) = [k \in 1 .. 1 |-> (sent + k - 1) % Chars]
      BY DEF Streams!Text
    <3> QED BY <3>2, <3>3
  <2>4. rx_fifo' = rx_fifo \o <<sent>>
    BY <1>0, <1>3, AppendIsConcat DEF HostSends, CallInv, Texts
  <2>5. <<sent>> \in Texts
    BY CharsAssumption DEF CallInv, Texts
  <2>6. FromHost = ring \o rx_fifo /\ FromHost' = ring \o (rx_fifo \o <<sent>>)
    BY <1>1, <1>3, <2>2, <2>4 DEF HostSends, FromHost, driverVars, Ring, Fill
  <2>7. FromHost' = FromHost \o Streams!Text(sent, 1)
    <3>1. PICK one \in Texts : one = <<sent>>
      BY <2>5
    <3>2. (ring \o rx_fifo) \o one = ring \o (rx_fifo \o one)
      BY <1>0, Regroup
    <3> QED BY <2>3, <2>6, <3>1, <3>2
  <2>8. Streams!HostSends
    BY <1>3, <2>1, <2>7
    DEF Streams!HostSends, HostSends, driverVars, callVars, ToHost, FromHost, Held, Number
  <2> QED BY <2>8
<1> QED BY <1>2, <1>3

(* Every other step of the program is unseen, or a call returns.              *)
LEMMA QuietRefines ==
  ASSUME IInv, CallInv,
         \/ SysInit \/ StartCall \/ Second
         \/ WriteSnap \/ WriteKick \/ WriteWait \/ WriteCheck
         \/ ReadSnap \/ ReadWait \/ ReadCheck \/ ReadEnable \/ Close
  PROVE  Streams!Consume \/ UNCHANGED StreamVars
<1>1. UNCHANGED <<written, seen, sent, tx_fifo, tx_buf, tx_out, tx_in,
                  rx_buf, rx_in, rx_out, rx_fifo>>
  BY DEF SysInit, StartCall, Call, SetTimeout, Second, WriteSnap, WriteKick, WriteWait,
         WriteCheck, ReadSnap, ReadWait, ReadCheck, ReadEnable, Close,
         hostVars, callVars, driverVars
<1>2. \/ Second \/ UNCHANGED <<pc, n>>
      \/ pc # "r_publish" /\ pc' # "r_publish"
  BY DEF SysInit, StartCall, Call, SetTimeout, WriteSnap, WriteKick, WriteWait,
         WriteCheck, ReadSnap, ReadWait, ReadCheck, ReadEnable, Close, Return, Goto,
         hostVars, callVars, driverVars
<1>3. Held' = Held
  BY <1>1, <1>2, HeldStays DEF Second, callVars
<1>4. ToHost' = ToHost /\ FromHost' = FromHost
  BY <1>1, <1>3, Unseen
<1>5. Return \/ dest' = dest
  BY DEF SysInit, StartCall, Call, SetTimeout, Second, WriteSnap, WriteKick, WriteWait,
         WriteCheck, ReadSnap, ReadWait, ReadCheck, ReadEnable, Close, Goto, callVars
<1> QED BY <1>1, <1>4, <1>5, ReturnRefines

(* Every step is a step of the streams, or is not seen.                       *)
LEMMA StepRefines == IInv /\ CallInv /\ [Next]_vars => [Streams!Next]_(Streams!vars)
<1> SUFFICES ASSUME IInv, CallInv, [Next]_vars PROVE [Streams!Next]_(Streams!vars)
  OBVIOUS
<1>1. UNCHANGED StreamVars => UNCHANGED Streams!vars
  BY DEF StreamVars, Streams!vars, ToHost, FromHost, Held
<1>2. CASE UNCHANGED vars
  <2>1. Held' = Held
    BY <1>2, HeldStays DEF vars, driverVars, callVars
  <2>2. ToHost' = ToHost /\ FromHost' = FromHost
    BY <1>2, <2>1, Unseen DEF vars, driverVars, hostVars
  <2> QED BY <1>1, <1>2, <2>2 DEF vars, callVars, hostVars, StreamVars
<1>3. \/ Streams!Consume \/ Streams!HostTakes \/ Streams!HostSends
      \/ \E k \in 1 .. BUF_LEN - 1 : Streams!Accept(k) \/ Streams!Deliver(k)
      => Streams!Next
  BY DEF Streams!Next
<1> QED BY <1>1, <1>2, <1>3, QuietRefines, WriteRefines, ReadRefines, IsrRefines, HostRefines
        DEF Next, InCall

(* No character is lost, repeated, overwritten or put out of order in either  *)
(* direction, whenever the interrupt routine cuts into a read or a write.     *)
THEOREM RefinesStreams == Spec => ImplementsByteStreams
<1>1. Init => Streams!Init
  <2> SUFFICES ASSUME Init PROVE Streams!Init
    OBVIOUS
  <2>1. Plus(0, 0) = 0 /\ Fill(0, 0) = 0
    BY BufLenAssumption DEF Plus, Fill
  <2>2. \A buf : Ring(buf, 0, 0) = << >>
    BY <2>1 DEF Ring
  <2>3. Taken = 0
    BY DEF Init, Taken
  <2> QED BY <2>1, <2>2, <2>3 DEF Init, Streams!Init
<1>2. IInv /\ CallInv /\ [Next]_vars => [Streams!Next]_(Streams!vars)
  BY StepRefines
<1> QED BY <1>1, <1>2, InitCallInv, CallInvKept, Inductive, PTL
        DEF Spec, ImplementsByteStreams, Streams!Spec
==============================================================================
