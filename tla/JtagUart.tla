------------------------------ MODULE JtagUart ------------------------------
(* The interrupt-driven HAL driver altera_avalon_jtag_uart, which carries     *)
(* stdin, stdout and stderr of every program on the Nios V.  The processor    *)
(* runs one program; the interrupt routine and, once a second, the time-out   *)
(* routine of the alarm may run between any two accesses the program makes to *)
(* the state they share, except where it has interrupts disabled.             *)
(*                                                                            *)
(* Steps of the program are the stretches between such accesses.  One pass of *)
(* the loop of the interrupt routine is one step: the program cannot run in   *)
(* it, and what the host does meanwhile might as well happen before or after. *)
(* irq_enable stands for the variable and for the enable bits of the control  *)
(* register, which are written together with interrupts off.                  *)
EXTENDS Integers, Sequences, Functions

CONSTANTS
  BUF_LEN,          \* slots of each ring buffer; 2048 in the code
  DEFAULT_TIMEOUT,  \* missed seconds after which the host counts as gone; 10
  INT_MAX,          \* 2^31 - 1 in the code
  WriteDepth,       \* the UART's FIFO towards the host
  WriteThreshold,   \* it asks for more when no more than this is left in it
  ReadDepth,        \* the UART's FIFO from the host
  Chars,            \* characters are numbered modulo Chars, in the order written
  HostText,         \* bound: the most characters the host sends
  Counts,           \* lengths the program passes to read and write
  Requests,         \* time-outs the program sets with ioctl
  BootOrders        \* orders in which alt_sys_init may start its devices

ASSUME BufLenAssumption == BUF_LEN \in Nat /\ BUF_LEN >= 2
ASSUME TimeoutAssumption ==
  /\ INT_MAX \in Nat /\ DEFAULT_TIMEOUT \in 1 .. INT_MAX - 2
  /\ Requests \subseteq Nat
ASSUME DeviceAssumption ==
  /\ WriteDepth \in Nat \ {0} /\ ReadDepth \in Nat \ {0}
  /\ WriteThreshold \in 0 .. WriteDepth - 1
ASSUME CharsAssumption ==
  /\ Chars \in Nat /\ Chars > BUF_LEN + WriteDepth /\ HostText \in 0 .. Chars - 1
  /\ Counts \subseteq Nat \ {0}
ASSUME BootAssumption ==
  /\ BootOrders \subseteq Seq({"JTAG_UART", "INTEL_NIOSV_M"})
  /\ \A order \in BootOrders : "JTAG_UART" \in Range(order)

VARIABLES
  timeout, host_inactive, irq_enable,
  tx_buf, tx_in, tx_out, rx_buf, rx_in, rx_out,
  tx_fifo, rx_fifo, ac,         \* external: the UART core
  seen, sent,                   \* external: the host; sent numbers what it sends
  pc, todo, n, snap, nonblock,  \* the call under way: its place and its locals
  moved, dest,                  \* of a read: ptr # buffer, and what memcpy last put there
  written,                      \* number of the next character to be written
  boot                          \* what alt_sys_init has still to start

driverVars == <<timeout, host_inactive, irq_enable,
                tx_buf, tx_in, tx_out, rx_buf, rx_in, rx_out>>
callVars == <<pc, todo, n, snap, nonblock, moved, dest, written, boot>>
hostVars == <<tx_fifo, rx_fifo, ac, seen, sent>>
vars == <<driverVars, callVars, hostVars>>

Slots == 0 .. BUF_LEN - 1
Plus(i, k) == (i + k) % BUF_LEN
Number(i, k) == (i + k) % Chars
Lesser(a, b) == IF a <= b THEN a ELSE b

(* The characters between two indices of a ring, oldest first.                *)
Fill(out, in) == (in - out + BUF_LEN) % BUF_LEN
Ring(buf, out, in) == [k \in 1 .. Fill(out, in) |-> buf[Plus(out, k - 1)]]
-----------------------------------------------------------------------------
Init ==
  /\ timeout = DEFAULT_TIMEOUT /\ host_inactive = 0 /\ irq_enable = {}
  /\ tx_buf = [i \in Slots |-> 0] /\ tx_in = 0 /\ tx_out = 0
  /\ rx_buf = [i \in Slots |-> 0] /\ rx_in = 0 /\ rx_out = 0
  /\ tx_fifo = << >> /\ rx_fifo = << >> /\ ac = FALSE
  /\ seen = << >> /\ sent = 0
  /\ pc = "boot" /\ todo = 0 /\ n = 0 /\ snap = 0 /\ nonblock = FALSE
  /\ moved = FALSE /\ dest = << >> /\ written = 0
  /\ boot \in BootOrders

(* alt_sys_init starts one device after the other.  The UART asks for the     *)
(* receive interrupt, and its alarm can be registered only if the timer has   *)
(* been started: before that the tick rate is 0 and alt_alarm_start refuses.  *)
SysInit ==
  /\ pc = "boot"
  /\ boot' = Tail(boot) /\ pc' = IF boot' = << >> THEN "idle" ELSE "boot"
  /\ IF Head(boot) = "JTAG_UART"
       THEN /\ irq_enable' = {"RE"} /\ host_inactive' = 0
            /\ timeout' = IF "INTEL_NIOSV_M" \in Range(boot) THEN INT_MAX ELSE timeout
       ELSE UNCHANGED <<irq_enable, host_inactive, timeout>>
  /\ UNCHANGED <<tx_buf, tx_in, tx_out, rx_buf, rx_in, rx_out,
                 hostVars, todo, n, snap, nonblock, moved, dest, written>>

(* A call begins at one of the places named by what it does there.            *)
Call(place, count, flag) ==
  /\ pc = "idle"
  /\ pc' = place /\ todo' = count /\ nonblock' = flag
  /\ UNCHANGED <<driverVars, hostVars, n, snap, moved, dest, written, boot>>

Return ==
  /\ pc' = "idle" /\ todo' = 0 /\ n' = 0 /\ snap' = 0 /\ nonblock' = FALSE
  /\ moved' = FALSE /\ dest' = << >>

Goto(place) == pc' = place /\ UNCHANGED <<todo, n, snap, nonblock, moved, dest>>
-----------------------------------------------------------------------------
(* altera_avalon_jtag_uart_write.  One slot stays free, and memcpy does not   *)
(* go round the end of the buffer.                                            *)
TxRoomToTheEnd(in, out) ==   \* a slip: no slot stays free when out is 0
  IF in < out THEN out - 1 - in ELSE BUF_LEN - in
TxRoom(in, out) ==
  IF in < out THEN out - 1 - in
  ELSE IF out > 0 THEN BUF_LEN - in
  ELSE BUF_LEN - 1 - in

WriteSnap ==
  /\ pc = "w_snap"
  /\ n' = Lesser(TxRoom(tx_in, tx_out), todo)
  /\ snap' = IF n' = 0 THEN tx_out ELSE 0
  /\ pc' = IF n' = 0 THEN "w_kick" ELSE "w_copy"
  /\ UNCHANGED <<driverVars, hostVars, todo, nonblock, moved, dest, written, boot>>

WriteCopy ==
  /\ pc = "w_copy"
  /\ tx_buf' = [i \in Slots |-> IF i \in tx_in .. tx_in + n - 1
                                  THEN Number(written, i - tx_in) ELSE tx_buf[i]]
  /\ todo' = todo - n /\ pc' = "w_publish"
  /\ UNCHANGED <<timeout, host_inactive, irq_enable, tx_in, tx_out, rx_buf, rx_in, rx_out,
                 hostVars, n, snap, nonblock, moved, dest, written, boot>>

WritePublish ==
  /\ pc = "w_publish"
  /\ tx_in' = Plus(tx_in, n) /\ written' = Number(written, n)
  /\ n' = 0 /\ pc' = IF todo > 0 THEN "w_snap" ELSE "w_kick"
  /\ UNCHANGED <<timeout, host_inactive, irq_enable, tx_buf, tx_out, rx_buf, rx_in, rx_out,
                 hostVars, todo, snap, nonblock, moved, dest, boot>>

(* With interrupts off, ask for the transmit interrupt.                       *)
AskOnlyToWait ==   \* a slip: the interrupt is asked for only to wait for it
  irq_enable' = irq_enable \cup (IF todo = 0 THEN {} ELSE {"WE"})
AskForTransmit == irq_enable' = irq_enable \cup {"WE"}
WriteKick ==
  /\ pc = "w_kick"
  /\ AskForTransmit
  /\ IF todo = 0 \/ nonblock THEN Return ELSE Goto("w_wait")
  /\ UNCHANGED <<timeout, host_inactive, tx_buf, tx_in, tx_out, rx_buf, rx_in, rx_out,
                 hostVars, written, boot>>

(* The spin loop ends when a character has left or the host counts as gone.   *)
WriteWait ==
  /\ pc = "w_wait"
  /\ snap # tx_out \/ host_inactive >= timeout
  /\ Goto("w_check")
  /\ UNCHANGED <<driverVars, hostVars, written, boot>>

(* The test after it asks whether the host missed the last second.            *)
WriteCheck ==
  /\ pc = "w_check"
  /\ IF host_inactive # 0 THEN Return ELSE Goto("w_snap")
  /\ UNCHANGED <<driverVars, hostVars, written, boot>>
-----------------------------------------------------------------------------
(* altera_avalon_jtag_uart_read: copy what there is, up to the end of the     *)
(* buffer at a time; wait only when there is nothing at all.                  *)
RxHeld(in, out) == IF in >= out THEN in - out ELSE BUF_LEN - out

ReadSnap ==
  /\ pc = "r_snap"
  /\ n' = Lesser(RxHeld(rx_in, rx_out), todo)
  /\ IF n' # 0 THEN pc' = "r_copy" /\ snap' = 0 /\ UNCHANGED <<todo, nonblock, moved, dest>>
     ELSE IF moved THEN pc' = "r_enable" /\ UNCHANGED <<todo, snap, nonblock, moved, dest>>
     ELSE IF nonblock THEN Return
     ELSE pc' = "r_wait" /\ snap' = rx_in /\ UNCHANGED <<todo, nonblock, moved, dest>>
  /\ UNCHANGED <<driverVars, hostVars, written, boot>>

ReadCopy ==
  /\ pc = "r_copy"
  /\ dest' = [k \in 1 .. n |-> rx_buf[rx_out + k - 1]]
  /\ todo' = todo - n /\ moved' = TRUE /\ pc' = "r_publish"
  /\ UNCHANGED <<driverVars, hostVars, n, snap, nonblock, written, boot>>

ReadPublish ==
  /\ pc = "r_publish"
  /\ rx_out' = Plus(rx_out, n)
  /\ n' = 0 /\ pc' = IF todo > 0 THEN "r_snap" ELSE "r_enable"
  /\ UNCHANGED <<timeout, host_inactive, irq_enable, tx_buf, tx_in, tx_out, rx_buf, rx_in,
                 hostVars, todo, snap, nonblock, moved, dest, written, boot>>

ReadWait ==
  /\ pc = "r_wait"
  /\ snap # rx_in \/ host_inactive >= timeout
  /\ Goto("r_check")
  /\ UNCHANGED <<driverVars, hostVars, written, boot>>

ReadCheck ==
  /\ pc = "r_check"
  /\ IF snap = rx_in THEN Return ELSE Goto("r_snap")
  /\ UNCHANGED <<driverVars, hostVars, written, boot>>

(* With interrupts off, there is room again: ask for the receive interrupt.   *)
ReadEnable ==
  /\ pc = "r_enable"
  /\ irq_enable' = irq_enable \cup {"RE"}
  /\ Return
  /\ UNCHANGED <<timeout, host_inactive, tx_buf, tx_in, tx_out, rx_buf, rx_in, rx_out,
                 hostVars, written, boot>>

-----------------------------------------------------------------------------
(* altera_avalon_jtag_uart_close: wait until the text has left, or the host   *)
(* counts as gone.                                                            *)
Drained == tx_out = tx_in   \* a slip: no time-out
DrainedOrGone == tx_out = tx_in \/ host_inactive >= timeout
Close ==
  /\ pc = "c_drain"
  /\ DrainedOrGone \/ nonblock
  /\ Return
  /\ UNCHANGED <<driverVars, hostVars, written, boot>>

(* ioctl TIOCSTIMEOUT; refused when there is no alarm to count the seconds.   *)
SetTimeout(request) ==
  /\ pc = "idle" /\ timeout # INT_MAX
  /\ timeout' = IF request >= 2 /\ request < INT_MAX THEN request ELSE INT_MAX - 1
  /\ UNCHANGED <<host_inactive, irq_enable, tx_buf, tx_in, tx_out, rx_buf, rx_in, rx_out,
                 callVars, hostVars>>

StartCall ==
  \/ \E count \in Counts, flag \in BOOLEAN :
       Call("w_snap", count, flag) \/ Call("r_snap", count, flag)
  \/ \E flag \in BOOLEAN : Call("c_drain", 0, flag)
  \/ \E request \in Requests : SetTimeout(request)

InCall ==
  \/ WriteSnap \/ WriteCopy \/ WritePublish \/ WriteKick \/ WriteWait \/ WriteCheck
  \/ ReadSnap \/ ReadCopy \/ ReadPublish \/ ReadWait \/ ReadCheck \/ ReadEnable
  \/ Close
-----------------------------------------------------------------------------
(* altera_avalon_jtag_uart_irq: RI and WI as the UART core raises them.       *)
ReadPending == "RE" \in irq_enable /\ rx_fifo # << >>
WritePending == "WE" \in irq_enable /\ Len(tx_fifo) <= WriteThreshold

Receive(k) ==
  /\ rx_buf' = [i \in Slots |-> IF Fill(rx_in, i) < k THEN rx_fifo[Fill(rx_in, i) + 1]
                                                       ELSE rx_buf[i]]
  /\ rx_in' = Plus(rx_in, k)
  /\ rx_fifo' = SubSeq(rx_fifo, k + 1, Len(rx_fifo))

Transmit(k) ==
  /\ tx_fifo' = tx_fifo \o SubSeq(Ring(tx_buf, tx_out, tx_in), 1, k)
  /\ tx_out' = Plus(tx_out, k)

(* Receiving stops at a full buffer, and is turned off if more is waiting;    *)
(* sending stops at an empty buffer, and is turned off if more would fit.     *)
Isr ==
  LET room  == BUF_LEN - 1 - Fill(rx_out, rx_in)
      space == WriteDepth - Len(tx_fifo)
      take  == IF ReadPending THEN Lesser(room, Len(rx_fifo)) ELSE 0
      give  == IF WritePending THEN Lesser(space, Fill(tx_out, tx_in)) ELSE 0
  IN  /\ ReadPending \/ WritePending
      /\ Receive(take) /\ Transmit(give)
      /\ irq_enable' = irq_enable
           \ ((IF ReadPending /\ Len(rx_fifo) > room THEN {"RE"} ELSE {})
              \cup (IF WritePending /\ space > give THEN {"WE"} ELSE {}))
      /\ UNCHANGED <<timeout, host_inactive, tx_buf, tx_in, rx_out, callVars,
                     ac, seen, sent>>

(* altera_avalon_jtag_uart_timeout, every second while there is an alarm: the *)
(* UART has been started, and the alarm was not refused.                      *)
Second ==
  /\ "JTAG_UART" \notin Range(boot) /\ timeout # INT_MAX
  /\ host_inactive' = IF ac THEN 0
                      ELSE IF host_inactive < INT_MAX - 2 THEN host_inactive + 1
                      ELSE host_inactive
  /\ ac' = FALSE
  /\ UNCHANGED <<timeout, irq_enable, tx_buf, tx_in, tx_out, rx_buf, rx_in, rx_out, callVars,
                 tx_fifo, rx_fifo, seen, sent>>

(* The host polls the UART, takes characters one by one and sends its own.    *)
HostPolls ==
  /\ ac' = TRUE
  /\ IF tx_fifo = << >> THEN UNCHANGED <<tx_fifo, seen>>
     ELSE seen' = <<Head(tx_fifo)>> /\ tx_fifo' = Tail(tx_fifo)
  /\ UNCHANGED <<driverVars, callVars, rx_fifo, sent>>

HostSends ==
  /\ sent < HostText /\ Len(rx_fifo) < ReadDepth
  /\ ac' = TRUE
  /\ rx_fifo' = Append(rx_fifo, sent) /\ sent' = Number(sent, 1)
  /\ UNCHANGED <<driverVars, callVars, tx_fifo, seen>>

Next ==
  \/ SysInit \/ StartCall \/ InCall
  \/ Isr \/ Second
  \/ HostPolls \/ HostSends

(* A call under way runs on, a pending interrupt is taken, seconds pass.      *)
(* Nothing makes the program call, or the host poll.                          *)
Fairness == WF_vars(SysInit \/ InCall) /\ WF_vars(Isr) /\ WF_vars(Second)

Spec == Init /\ [][Next]_vars /\ Fairness
==============================================================================
