----------------------------- MODULE ByteStreams -----------------------------
(* What the driver of the JTAG UART promises program and host, its buffers,   *)
(* interrupts and time-outs forgotten: two queues of characters.  What a      *)
(* write accepts is appended for the host, the host takes it in that order,   *)
(* and a read hands the program the oldest characters the host has sent.      *)
(* The program's text and the host's are the numbers 0, 1, 2, ... modulo      *)
(* Chars, so that each character tells which one it is.                       *)
EXTENDS Naturals, Sequences

CONSTANTS Chars,    \* characters told apart
          Chunk     \* the most characters moved by one memcpy

VARIABLES written,  \* the character of its text the program has accepted next
          toHost,   \* accepted from the program, not yet seen by the host
          seen,     \* the character the host took last, << >> before the first
          sent,     \* the character the host sends next
          fromHost, \* sent by the host, not yet handed to the program
          dest      \* what the last memcpy of the current read put down

vars == <<written, toHost, seen, sent, fromHost, dest>>

Text(first, k) == [i \in 1 .. k |-> (first + i - 1) % Chars]

Init == /\ written = 0 /\ toHost = << >> /\ seen = << >>
        /\ sent = 0 /\ fromHost = << >> /\ dest = << >>

Accept(k) ==
  /\ toHost' = toHost \o Text(written, k) /\ written' = (written + k) % Chars
  /\ UNCHANGED <<seen, sent, fromHost, dest>>

HostTakes ==
  /\ toHost # << >>
  /\ seen' = <<Head(toHost)>> /\ toHost' = Tail(toHost)
  /\ UNCHANGED <<written, sent, fromHost, dest>>

HostSends ==
  /\ fromHost' = fromHost \o Text(sent, 1) /\ sent' = (sent + 1) % Chars
  /\ UNCHANGED <<written, toHost, seen, dest>>

Deliver(k) ==
  /\ k <= Len(fromHost)
  /\ dest' = SubSeq(fromHost, 1, k)
  /\ fromHost' = SubSeq(fromHost, k + 1, Len(fromHost))
  /\ UNCHANGED <<written, toHost, seen, sent>>

(* The call returns and the program uses what it was given.                   *)
Consume == dest' = << >> /\ UNCHANGED <<written, toHost, seen, sent, fromHost>>

Next ==
  \/ \E k \in 1 .. Chunk : Accept(k) \/ Deliver(k)
  \/ HostTakes \/ HostSends \/ Consume

Spec == Init /\ [][Next]_vars
==============================================================================
