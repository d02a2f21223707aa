------------------------------ MODULE MCRunTime ------------------------------
(* Two parts of the HAL that share no state, clock and descriptors, checked   *)
(* in one run: a behaviour runs one of them, chosen at the start, and the     *)
(* other stays as it was at power-on.                                         *)
EXTENDS SysClockProps, HalFilesProps, TLC

VARIABLE running   \* "clock" or "files"

allVars == <<vars, filesVars, running>>

MCInit == Init /\ FilesInit /\ running \in {"clock", "files"}
MCNext ==
  \/ running = "clock" /\ Next /\ UNCHANGED <<filesVars, running>>
  \/ running = "files" /\ FilesNext /\ UNCHANGED <<vars, running>>
MCSpec == MCInit /\ [][MCNext]_allVars

(* Microseconds at both ends of a second of four; alarms may be exchanged,    *)
(* since nothing tells one from another.                                      *)
TwoSettings == {<<0, 1>>, <<1, 3>>}
AlarmSymmetry == Permutations(Alarm)

(* Modes of a descriptor: reading and writing or only writing, blocking or    *)
(* not, and a program that passes the bits the HAL keeps for itself.          *)
SomeModes == {{"RDWR"}, {"WRONLY", "NONBLOCK", "EXCL", "DEV"}}
==============================================================================
