------------------------- MODULE SdramInterfaceProps -------------------------
(* What holds of the arbiter whatever surrounds it.                           *)
EXTENDS SdramInterface

(* Where a burst of a frame may begin.                                        *)
Offsets == {k * Burst : k \in 0 .. FrameBursts - 1}

(* The registers stay in range: an address is the start of a burst of a bank. *)
ArbiterTypeOK ==
  /\ state \in States
  /\ wr_req \in BOOLEAN /\ rd_req \in BOOLEAN /\ cam_rd \in BOOLEAN
  /\ write_bank \in {0, 1} /\ read_bank \in {0, 1}
  /\ new_frame_ready \in BOOLEAN /\ read_frame_valid \in BOOLEAN
  /\ frame_done_d \in BOOLEAN /\ vsync_d \in BOOLEAN
  /\ wr_ptr \in Offsets /\ rd_ptr \in Offsets
  /\ wr_burst_cnt \in 0 .. Burst - 1 /\ rd_burst_cnt \in 0 .. Burst - 1
  /\ wr_data_latch \in [1 .. Burst -> Words \cup {NoWord}]
  /\ wr_addr_latch \in Nat
  /\ cam_rd_pending \in BOOLEAN
  /\ vga_wr_en \in BOOLEAN /\ vga_wr_pending \in BOOLEAN
  /\ vga_wr_data \in Words \cup {NoWord} /\ vga_wr_data_hold \in Words \cup {NoWord}

(* Every address sent to the controller is the start of a burst of one of the *)
(* two frame buffers, at whatever moment frame_done and vsync rewind the      *)
(* pointers: no burst runs over the end of a buffer into the next one.        *)
BurstAddress(a) == \E bank \in {0, 1} : \E p \in Offsets : a = Base(bank) + p
AddressesInRange == BurstAddress(wr_addr_latch) /\ BurstAddress(RdAddr)

(* The camera writes into the bank that is not shown, except from the end of  *)
(* a frame to the next vsync, when that bank holds the frame to show next.    *)
BanksApart == new_frame_ready <=> read_bank = write_bank

(* A word is asked of the camera FIFO exactly when it will be captured at the *)
(* next edge, and never while a write is being requested: no word is lost,    *)
(* not even when frame_done comes in between and clears cam_rd_pending.       *)
PopsAreCaptured ==
  /\ cam_rd <=> cam_rd_pending
  /\ cam_rd_pending => state = "FILL_CAM" /\ ~wr_req

(* The inductive invariant behind the properties of the arbiter.              *)
IInv == ArbiterTypeOK /\ AddressesInRange /\ BanksApart /\ PopsAreCaptured

(* The controller takes the address when it accepts a request and the data    *)
(* one edge later: neither changes while the request is up, also when         *)
(* frame_done has made the arbiter forget that it asked.                      *)
HeldForController == [][ wr_req => UNCHANGED <<wr_addr_latch, wr_data_latch>>
                         \/ IfReset ]_ifVars
==============================================================================
