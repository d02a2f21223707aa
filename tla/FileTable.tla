------------------------------ MODULE FileTable ------------------------------
(* What open, close, ioctl and fcntl promise a program on the HAL, the pool   *)
(* of descriptors forgotten: a table of open files, of which the standard     *)
(* streams can be redirected but not closed.                                  *)
EXTENDS Integers

CONSTANTS Descriptor,  \* numbers of descriptors
          Std,         \* stdin, stdout and stderr
          Device,      \* character devices, which can be held by a descriptor
          FileSystem,  \* file systems, which look after that themselves
          Flag         \* "WRONLY", "RDWR", "APPEND", "NONBLOCK"

VARIABLES files,       \* open descriptors, with what each refers to and how
          exclusive,   \* descriptors that hold their device
          running,     \* the program runs
          result       \* what its last call returned; -1 is an error

vars == <<files, exclusive, running, result>>

File == [dev : Device \cup FileSystem, flags : SUBSET Flag]

Init ==
  /\ files \in [Std -> File] /\ exclusive = {} /\ ~running /\ result = 0

(* alt_io_redirect, before the program runs.                                  *)
Redirect(f, file) ==
  /\ ~running /\ files' = [files EXCEPT ![f] = file]
  /\ running' \in BOOLEAN
  /\ UNCHANGED <<exclusive, result>>

Start == ~running /\ running' = TRUE /\ UNCHANGED <<files, exclusive, result>>

Held(dev) == \E f \in exclusive : files[f].dev = dev

(* A descriptor that was not open, never for a device that another one holds. *)
Open(f, file) ==
  /\ f \in Descriptor \ DOMAIN files
  /\ file.dev \in Device => ~Held(file.dev)
  /\ files' = [e \in DOMAIN files \cup {f} |-> IF e = f THEN file ELSE files[e]]
  /\ result' = f
  /\ UNCHANGED exclusive

(* A call that fails changes nothing.                                         *)
Fail == result' = -1 /\ UNCHANGED <<files, exclusive>>

(* Any descriptor but a standard stream is gone after the call, also when the *)
(* driver reports an error; a standard stream stays open and keeps its device.*)
Close(f) ==
  /\ files' = [e \in DOMAIN files \ ({f} \ Std) |-> files[e]]
  /\ exclusive' = exclusive \ ({f} \ Std)
  /\ result' \in {0, -1}

Quiet == result' = 0 /\ UNCHANGED <<files, exclusive>>

SetFlags(f, flags) ==
  /\ flags \ {"APPEND", "NONBLOCK"} = files[f].flags \ {"APPEND", "NONBLOCK"}
  /\ files' = [files EXCEPT ![f].flags = flags]
  /\ result' = 0
  /\ UNCHANGED exclusive

Hold(f) ==
  /\ files[f].dev \in Device
  /\ exclusive' = exclusive \cup {f} /\ result' = 0
  /\ UNCHANGED files

LetGo(f) ==
  /\ exclusive' = exclusive \ {f} /\ result' = 0
  /\ UNCHANGED files

(* A file that is new, or has changed, is what is found there afterwards.     *)
Next ==
  \/ Start
  \/ \E f \in Std : files'[f] \in File /\ Redirect(f, files'[f])
  \/ /\ running /\ UNCHANGED running
     /\ \/ Fail \/ Quiet
        \/ \E f \in DOMAIN files' : files'[f] \in File /\ Open(f, files'[f])
        \/ \E f \in DOMAIN files : Close(f) \/ Hold(f) \/ LetGo(f)
        \/ \E f \in DOMAIN files \cap DOMAIN files' :
             files'[f].flags \in SUBSET Flag /\ SetFlags(f, files'[f].flags)

Spec == Init /\ [][Next]_vars
==============================================================================
