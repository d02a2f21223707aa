----------------------------- MODULE MemoryPort -----------------------------
(* What sdram_controller promises the arbiter in front of it, with refresh,   *)
(* command timing and CAS latency forgotten: a memory of bursts, one request  *)
(* at a time.  A write is acknowledged first and its data taken one cycle     *)
(* later; a read is acknowledged and then answers with the words of its       *)
(* burst, in order and once each, as the memory was at the acknowledgement.   *)
(* No request is accepted in the two cycles after an acknowledgement, so a    *)
(* user that lowers its request one cycle late is not served twice.           *)
EXTENDS Naturals, Sequences

CONSTANTS Addrs,     \* burst addresses
          Bursts,    \* the contents a burst can be written with
          Blank,     \* the contents before the first write
          NoWord     \* the read register after reset

VARIABLES mem,       \* mem[a] is the burst last written at a
          latching,  \* {a} while the data of a write to a is being taken
          pend,      \* the words still to be answered
          rest,      \* cycles before the next request can be accepted
          wr_ack, rd_ack, rd_valid, rd_data

portVars == <<mem, latching, pend, rest, wr_ack, rd_ack, rd_valid, rd_data>>

PortInit ==
  /\ mem = [a \in Addrs |-> Blank] /\ latching = {} /\ pend = << >> /\ rest = 0
  /\ wr_ack = FALSE /\ rd_ack = FALSE /\ rd_valid = FALSE /\ rd_data = NoWord

NoStrobe == wr_ack' = FALSE /\ rd_ack' = FALSE /\ rd_valid' = FALSE
Free == latching = {} /\ pend = << >> /\ rest = 0
CountDown == rest' = IF rest = 0 THEN 0 ELSE rest - 1

(* Refreshing, counting latency, or nothing asked for.                        *)
Wait ==
  /\ latching = {} /\ NoStrobe /\ CountDown
  /\ UNCHANGED <<mem, latching, pend, rd_data>>

AcceptWrite(wr_req, wr_addr) ==
  /\ Free /\ wr_req
  /\ latching' = {wr_addr} /\ rest' = 2
  /\ wr_ack' = TRUE /\ rd_ack' = FALSE /\ rd_valid' = FALSE
  /\ UNCHANGED <<mem, pend, rd_data>>

TakeData(wr_data) ==
  /\ latching # {}
  /\ mem' = [a \in Addrs |-> IF a \in latching THEN wr_data ELSE mem[a]]
  /\ latching' = {}
  /\ NoStrobe /\ CountDown /\ UNCHANGED <<pend, rd_data>>

AcceptRead(wr_req, rd_req, rd_addr) ==
  /\ Free /\ rd_req /\ ~wr_req
  /\ pend' = mem[rd_addr] /\ rest' = 2
  /\ wr_ack' = FALSE /\ rd_ack' = TRUE /\ rd_valid' = FALSE
  /\ UNCHANGED <<mem, latching, rd_data>>

Answer ==
  /\ pend # << >>
  /\ rd_valid' = TRUE /\ rd_data' = Head(pend) /\ pend' = Tail(pend)
  /\ wr_ack' = FALSE /\ rd_ack' = FALSE /\ CountDown
  /\ UNCHANGED <<mem, latching>>

PortClock(wr_req, wr_addr, wr_data, rd_req, rd_addr) ==
  \/ Wait
  \/ AcceptWrite(wr_req, wr_addr)
  \/ TakeData(wr_data)
  \/ AcceptRead(wr_req, rd_req, rd_addr)
  \/ Answer

(* A reset ends the request in progress, and may spoil its burst; no other    *)
(* burst of the memory changes.                                               *)
PortReset ==
  /\ latching' = {} /\ pend' = << >> /\ rest' = 0 /\ NoStrobe /\ rd_data' = NoWord
  /\ \E a \in Addrs : \A other \in Addrs \ {a} : mem'[other] = mem[other]

(* Any user: requests may come and go from one cycle to the next.             *)
PortNext ==
  \/ \E wr_req, rd_req \in BOOLEAN, wr_addr, rd_addr \in Addrs, wr_data \in Bursts :
       PortClock(wr_req, wr_addr, wr_data, rd_req, rd_addr)
  \/ PortReset

PortSpec == PortInit /\ [][PortNext]_portVars
==============================================================================
