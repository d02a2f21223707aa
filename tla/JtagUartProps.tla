---------------------------- MODULE JtagUartProps ----------------------------
(* What the users of the JTAG UART driver rely on.                            *)
EXTENDS JtagUart

(* Between its memcpy and the update of rx_out, a read has taken the          *)
(* characters but still holds their slots.                                    *)
Taken == IF pc = "r_publish" THEN n ELSE 0

Streams == INSTANCE ByteStreams WITH
             Chunk <- BUF_LEN - 1,
             toHost <- tx_fifo \o Ring(tx_buf, tx_out, tx_in),
             fromHost <- Ring(rx_buf, Plus(rx_out, Taken), rx_in) \o rx_fifo

(* No character is lost, repeated, overwritten or put out of order in either  *)
(* direction, whenever the interrupt routine cuts into a read or a write.     *)
ImplementsByteStreams == Streams!Spec

(* Text that waits has its transmit interrupt on, or the write that put it    *)
(* there is about to turn it on; the receive interrupt is off only while      *)
(* there is no room, or the read that made some is about to turn it on.       *)
InterruptsArmed ==
  /\ tx_in # tx_out =>
       "WE" \in irq_enable \/ pc \in {"w_snap", "w_copy", "w_publish", "w_kick"}
  /\ "RE" \notin irq_enable =>
       \/ Plus(rx_in, 1) = rx_out
       \/ pc \in {"boot", "r_snap", "r_copy", "r_publish", "r_enable"}

(* A host that keeps polling gets the text written, one character after the   *)
(* other, and every call comes back but a read of a silent host; when the     *)
(* host stays away, every call comes back once the time-out, if there is one, *)
(* has passed.                                                                *)
NothingStuck ==
  /\ WF_vars(HostPolls) =>
       /\ []<>(tx_in = tx_out) \/ []<><<tx_out' # tx_out>>_vars
       /\ []<>(\/ pc = "idle"
               \/ pc \in {"r_snap", "r_wait", "r_check"} /\ rx_in = rx_out /\ rx_fifo = << >>)
  /\ <>[][~(HostPolls \/ HostSends)]_vars /\ <>[](timeout < INT_MAX - 1) => []<>(pc = "idle")

(* Comments of the driver: an alarm goes off every second to check for the    *)
(* presence of the host, and a call waits for it no longer than the time-out. *)
CallsGiveUp == <>[][~(HostPolls \/ HostSends)]_vars => []<>(pc = "idle")
==============================================================================
