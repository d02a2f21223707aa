---------------------------- MODULE HalFilesProps ----------------------------
(* What a program may take its descriptors for.                               *)
EXTENDS HalFiles

(* What the program sees of the pool: the descriptors in use, without the     *)
(* bits the HAL keeps for itself, and those that hold their device.           *)
Seen(entry) == [dev |-> entry.dev, flags |-> entry.flags \ ALT_FD_FLAGS_MASK]
Files == [f \in InUse |-> Seen(alt_fd_list[f])]
Holders == {f \in InUse : "EXCL" \in alt_fd_list[f].flags}

Table == INSTANCE FileTable WITH
           Descriptor <- Fd, Flag <- {"WRONLY", "RDWR", "APPEND", "NONBLOCK"},
           files <- Files, exclusive <- Holders, running <- redirected = 3

(* However opening, closing and redirecting fail, the pool holds the streams  *)
(* and the descriptors the program has been given, and no more; none refers   *)
(* to a device that another one has locked before.                            *)
ImplementsFileTable == Table!Spec
==============================================================================
