----------------------------- MODULE SdramDevice -----------------------------
(* The SDRAM chip (IS42S16320F), as far as sdram_controller relies on it: the *)
(* external device at the other end of the command pins.  It keeps the time   *)
(* that must pass before each kind of command, receives write bursts, and     *)
(* drives a read burst CAS-latency cycles after the command.  Its clock leads *)
(* the controller's, so it samples a command one controller edge later.       *)
EXTENDS Naturals

CONSTANTS T_RFC, T_RCD, T_RP, T_CL, T_MRD, T_WR, BURST,
          Addrs, NoWord

VARIABLES
  dmem,    \* dmem[a][i] is word i of the burst at a
  open,    \* {a} while the row of a is open
  tRow,    \* cycles before READ or WRITE may come
  tBusy,   \* cycles before ACTIVE, PRECHARGE, REFRESH or MRS may come
  wcnt,    \* words of a write burst received, 0 when none is in progress
  rcnt,    \* cycles since a READ, 0 when no read is in progress
  daddr,   \* the burst being written or read
  setup    \* the power-up commands received so far

devVars == <<dmem, open, tRow, tBusy, wcnt, rcnt, daddr, setup>>

PowerUp == <<"PRECHARGE", "REFRESH", "REFRESH", "MRS">>

DevInit ==
  /\ dmem = [a \in Addrs |-> [i \in 1 .. BURST |-> NoWord]]
  /\ open = {} /\ tRow = 0 /\ tBusy = 0
  /\ wcnt = 0 /\ rcnt = 0 /\ daddr = 0
  /\ setup = 0

(* The chip drives the bus from CAS latency on, one word a cycle.             *)
Driving == rcnt >= T_CL
Dq == IF Driving THEN dmem[daddr][rcnt - T_CL + 1] ELSE NoWord

(* The commands the data sheet allows now.                                    *)
Legal(cmd, addr) ==
  /\ cmd \in {"PRECHARGE", "REFRESH", "MRS", "ACTIVE"} => tBusy = 0
  /\ cmd \in {"REFRESH", "MRS", "ACTIVE"} => open = {}
  /\ cmd = "ACTIVE" => setup = 4
  /\ cmd \in {"READ", "WRITE"} =>
       open = {addr} /\ tRow = 0 /\ wcnt = 0 /\ rcnt = 0

(* Cycles a command keeps the banks busy; READ and WRITE precharge            *)
(* automatically when their burst is over.                                    *)
BusyAfter(cmd) ==
  CASE cmd = "PRECHARGE" -> T_RP - 1
    [] cmd = "REFRESH" -> T_RFC - 1
    [] cmd = "MRS" -> T_MRD - 1
    [] cmd = "WRITE" -> BURST - 1 + T_WR + T_RP - 1
    [] cmd = "READ" -> BURST + T_RP - 1
    [] OTHER -> IF tBusy = 0 THEN 0 ELSE tBusy - 1

(* One clock of the chip: a command, and the data pins of a write.            *)
DevClock(cmd, addr, dq) ==
  /\ open' = IF cmd = "ACTIVE" THEN {addr}
             ELSE IF cmd \in {"READ", "WRITE", "PRECHARGE"} THEN {} ELSE open
  /\ tRow' = IF cmd = "ACTIVE" THEN T_RCD - 1
             ELSE IF tRow = 0 THEN 0 ELSE tRow - 1
  /\ tBusy' = BusyAfter(cmd)
  /\ daddr' = IF cmd \in {"READ", "WRITE"} THEN addr ELSE daddr
  /\ wcnt' = IF cmd = "WRITE" THEN 1
             ELSE IF wcnt \in {0, BURST} THEN 0 ELSE wcnt + 1
  /\ rcnt' = IF cmd = "READ" THEN 1
             ELSE IF rcnt \in {0, T_CL + BURST - 1} THEN 0 ELSE rcnt + 1
  /\ dmem' = IF wcnt' = 0 THEN dmem ELSE [dmem EXCEPT ![daddr'][wcnt'] = dq]
  /\ setup' = IF setup < 4 /\ cmd = PowerUp[setup + 1] THEN setup + 1 ELSE setup

(* The controller is held in reset for many cycles: the chip is deselected,   *)
(* finishes its burst with whatever is on the bus, and comes to rest.  A row  *)
(* opened without READ or WRITE stays open.                                   *)
DevRest ==
  /\ tRow' = 0 /\ tBusy' = 0 /\ wcnt' = 0 /\ rcnt' = 0
  /\ dmem' = IF wcnt \in 1 .. BURST - 1
             THEN [dmem EXCEPT ![daddr] =
                     [i \in 1 .. BURST |-> IF i <= wcnt THEN @[i] ELSE NoWord]]
             ELSE dmem
  /\ UNCHANGED <<open, daddr, setup>>
==============================================================================
