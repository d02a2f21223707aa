------------------------------- MODULE HalFiles ------------------------------
(* The file descriptors of the HAL: the pool alt_fd_list with its high-water  *)
(* mark, the redirection of the standard streams by alt_main, and the calls   *)
(* of a program.  The HAL of the BSPs runs a single thread, so each call is   *)
(* one step; drivers may refuse to open, fail to transfer, and report an      *)
(* error when they close.  The name given to open stands for what it finds in *)
(* the lists of devices and file systems.                                     *)
EXTENDS Integers

CONSTANTS
  ALT_MAX_FD,   \* size of the pool; 32 in the code
  Device,       \* character devices, alt_dev_null and the console among them
  FileSystem,   \* file systems
  alt_dev_null, \* the device that swallows everything
  Console,      \* the device that alt_main redirects the standard streams to
  Nothing,      \* no device: the dev of a free descriptor
  Modes         \* flags a program passes to open and fcntl; the access mode is
                \* "WRONLY", "RDWR" or, as O_RDONLY is 0, neither of them

ASSUME FilesAssumption ==
  /\ ALT_MAX_FD \in Nat /\ ALT_MAX_FD >= 3
  /\ {alt_dev_null, Console} \subseteq Device
  /\ Nothing \notin Device \cup FileSystem
  /\ \A flags \in Modes :
       flags \subseteq {"WRONLY", "RDWR", "APPEND", "NONBLOCK", "EXCL", "DEV"}

VARIABLES
  alt_fd_list,  \* the pool
  alt_max_fd,   \* the highest descriptor ever allocated
  redirected,   \* how many of the standard streams alt_main has redirected
  result        \* history: what the last call of the program returned; -1 for an error

filesVars == <<alt_fd_list, alt_max_fd, redirected, result>>

Fd == 0 .. ALT_MAX_FD - 1
Std == 0 .. 2
ALT_FD_FLAGS_MASK == {"EXCL", "DEV"}
ALT_FCNTL_FLAGS_MASK == {"APPEND", "NONBLOCK"}

Free == [dev |-> Nothing, flags |-> {}]
InUse == {f \in Fd : alt_fd_list[f].dev # Nothing}

FilesInit ==
  /\ alt_fd_list =
       [f \in Fd |-> IF f \in Std THEN [dev |-> alt_dev_null, flags |-> {}] ELSE Free]
  /\ alt_max_fd = -1 /\ redirected = 0 /\ result = 0
-----------------------------------------------------------------------------
(* alt_get_fd takes the first free descriptor; a device remembers that it is  *)
(* one, and must not be held by another descriptor (alt_file_locked).         *)
FirstFree == {f \in Fd \ InUse : \A e \in Fd \ InUse : f <= e}

OldMark(index) == alt_max_fd   \* a slip: the mark does not rise
HighWater(index) == IF index > alt_max_fd THEN index ELSE alt_max_fd

Locked(dev) ==
  \E f \in Fd : /\ f <= alt_max_fd
                /\ alt_fd_list[f].dev = dev /\ "EXCL" \in alt_fd_list[f].flags

OpenedAs(dev, flags) ==
  [dev   |-> dev,
   flags |-> (flags \ ALT_FD_FLAGS_MASK) \cup (IF dev \in Device THEN {"DEV"} ELSE {})]

(* No match, or no descriptor left: nothing has been taken.                   *)
OpenFindsNothing ==
  /\ result' = -1
  /\ UNCHANGED <<alt_fd_list, alt_max_fd>>

(* Refused by a lock or by the driver: the descriptor is released again, but  *)
(* the high-water mark stays.                                                 *)
Released(f) == IF f \in Std THEN alt_fd_list[f] ELSE Free

OpenRefused(index) ==
  /\ alt_max_fd' = HighWater(index) /\ result' = -1
  /\ alt_fd_list' = [alt_fd_list EXCEPT ![index] = Released(index)]

OpenSucceeds(index, dev, flags) ==
  /\ dev \in Device => ~Locked(dev)
  /\ alt_fd_list' = [alt_fd_list EXCEPT ![index] = OpenedAs(dev, flags)]
  /\ alt_max_fd' = HighWater(index) /\ result' = index

Open ==
  \/ OpenFindsNothing
  \/ \E index \in FirstFree :
       \/ OpenRefused(index)
       \/ \E dev \in Device \cup FileSystem, flags \in Modes :
            OpenSucceeds(index, dev, flags)

(* The descriptor is released whatever the driver says of the close.          *)
Close(f) ==
  /\ result' \in {0, -1}
  /\ alt_fd_list' = [alt_fd_list EXCEPT ![f] = Released(f)]
  /\ UNCHANGED alt_max_fd
-----------------------------------------------------------------------------
(* alt_io_redirect opens the console for one stream after the other, copies   *)
(* the descriptor it got and releases it; what cannot be opened stays as it   *)
(* is.  This comes before the program runs.                                   *)
Redirected(index, f, flags) ==
  /\ ~Locked(Console)
  /\ alt_fd_list' = [alt_fd_list EXCEPT ![index] = Free, ![f] = OpenedAs(Console, flags)]
  /\ alt_max_fd' = HighWater(index)

NotRedirected ==
  /\ alt_max_fd' \in {alt_max_fd} \cup {HighWater(index) : index \in FirstFree}
  /\ UNCHANGED alt_fd_list

AltIoRedirect ==
  /\ redirected < 3 /\ redirected' = redirected + 1
  /\ \/ \E index \in FirstFree :
          \/ redirected = 0 /\ Redirected(index, 1, {"WRONLY"})
          \/ redirected = 1 /\ Redirected(index, 0, {})
          \/ redirected = 2 /\ Redirected(index, 2, {"WRONLY"})
     \/ NotRedirected
  /\ UNCHANGED result
-----------------------------------------------------------------------------
(* alt_read and alt_write pass on to the driver, if the access mode allows;   *)
(* a driver may lack the function, or fail.                                   *)
O_ACCMODE == {"WRONLY", "RDWR"}
MayRead(flags) == flags \cap O_ACCMODE # {"WRONLY"}
MayWrite(flags) == flags \cap O_ACCMODE # {}

Transfer(may) ==
  /\ \/ result' = -1
     \/ may /\ result' = 0
  /\ UNCHANGED <<alt_fd_list, alt_max_fd>>

(* alt_fcntl changes two flags and no other.                                  *)
SetFlags(f, flags) ==
  /\ alt_fd_list' = [alt_fd_list EXCEPT ![f].flags =
                       (@ \ ALT_FCNTL_FLAGS_MASK) \cup (flags \cap ALT_FCNTL_FLAGS_MASK)]
  /\ result' = 0
  /\ UNCHANGED alt_max_fd

(* alt_fd_lock looks for other users of the device, short of the highest      *)
(* descriptor ever allocated.                                                 *)
OtherUser(f) ==
  \E i \in Fd : i < alt_max_fd /\ i # f /\ alt_fd_list[i].dev = alt_fd_list[f].dev

Lock(f) ==
  /\ "DEV" \in alt_fd_list[f].flags
  /\ IF OtherUser(f) THEN result' = -1 /\ UNCHANGED alt_fd_list
     ELSE /\ alt_fd_list' = [alt_fd_list EXCEPT ![f].flags = @ \cup {"EXCL"}]
          /\ result' = 0
  /\ UNCHANGED alt_max_fd

Unlock(f) ==
  /\ "DEV" \in alt_fd_list[f].flags
  /\ alt_fd_list' = [alt_fd_list EXCEPT ![f].flags = @ \ {"EXCL"}]
  /\ result' = 0
  /\ UNCHANGED alt_max_fd

(* Any other request, and those two on a file system, go to the driver.       *)
DriverIoctl ==
  /\ result' \in {0, -1}
  /\ UNCHANGED <<alt_fd_list, alt_max_fd>>

(* Programs use the descriptors they have.                                    *)
Program ==
  /\ redirected = 3
  /\ \/ Open
     \/ \E f \in InUse :
          \/ Close(f)
          \/ Transfer(MayRead(alt_fd_list[f].flags))
          \/ Transfer(MayWrite(alt_fd_list[f].flags))
          \/ \E flags \in Modes : SetFlags(f, flags)
          \/ Lock(f) \/ Unlock(f) \/ DriverIoctl
  /\ UNCHANGED redirected

FilesNext == AltIoRedirect \/ Program

FilesSpec == FilesInit /\ [][FilesNext]_filesVars
=============================================================================
