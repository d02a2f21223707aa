---------------------------- MODULE CdcFifoProofs ----------------------------
(* The dual-clock FIFO is safe at every depth, for every set of words and     *)
(* every interleaving of the two clocks.                                      *)
EXTENDS CdcFifoProps, TLAPS

(* The power-on state satisfies the inductive invariant.                      *)
LEMMA InitIInv ==
  ASSUME DepthAssumption PROVE Init => IInv
  BY DEF DepthAssumption,
      Init, IInv, TypeOK, SyncConservative, WriterBound, Dist, Pointer

(* A write edge preserves it: the write pointer advances only when the oldest *)
(* copy of the read pointer leaves room.                                      *)
LEMMA WriteIInv ==
  ASSUME DepthAssumption, IInv, NEW d \in Data, Write(d)
  PROVE  IInv'
<1>1. TypeOK'
  BY DEF DepthAssumption,
      IInv, TypeOK, Write, SampleRd, rdSide, Pointer, Succ, Slot
<1>2. SyncConservative' /\ WriterBound'
  BY DEF DepthAssumption,
      IInv, TypeOK, SyncConservative, WriterBound, Write, SampleRd, rdSide,
      Pointer, Succ, Dist, Full
<1> QED BY <1>1, <1>2 DEF IInv

(* A write-clock edge without a write only moves the synchroniser on.         *)
LEMMA WrIdleIInv ==
  ASSUME DepthAssumption PROVE IInv /\ WrIdle => IInv'
  BY DEF DepthAssumption,
      IInv, TypeOK, SyncConservative, WriterBound, WrIdle, SampleRd, rdSide,
      Pointer, Dist

(* A read edge preserves it: the read pointer never passes the oldest copy of *)
(* the write pointer.                                                         *)
LEMMA ReadIInv ==
  ASSUME DepthAssumption PROVE IInv /\ Read => IInv'
<1> SUFFICES ASSUME IInv, Read PROVE IInv'
  OBVIOUS
<1>1. TypeOK'
  BY DEF DepthAssumption,
      IInv, TypeOK, Read, SampleWr, wrSide, Pointer, Succ, Slot
<1>2. SyncConservative' /\ WriterBound'
  BY DEF DepthAssumption,
      IInv, TypeOK, SyncConservative, WriterBound, Read, SampleWr, wrSide,
      Pointer, Succ, Dist, Empty
<1> QED BY <1>1, <1>2 DEF IInv

(* A read-clock edge without a read only moves the synchroniser on.           *)
LEMMA RdIdleIInv ==
  ASSUME DepthAssumption PROVE IInv /\ RdIdle => IInv'
  BY DEF DepthAssumption,
      IInv, TypeOK, SyncConservative, WriterBound, RdIdle, SampleWr, wrSide,
      Pointer, Dist

(* A reset of both sides re-establishes it.                                   *)
LEMMA ResetIInv ==
  ASSUME DepthAssumption PROVE IInv /\ Reset => IInv'
  BY DEF DepthAssumption,
      IInv, TypeOK, SyncConservative, WriterBound, Reset, Pointer, Dist

(* The pointers and their synchronised copies are always in the order IInv    *)
(* states, in every behaviour of the FIFO.                                    *)
THEOREM Inductive ==
  ASSUME DepthAssumption PROVE Spec => []IInv
<1>1. IInv /\ [Next]_vars => IInv'
  <2> SUFFICES ASSUME IInv, [Next]_vars PROVE IInv'
    OBVIOUS
  <2>1. CASE \E d \in Data : Write(d)
    BY <2>1, WriteIInv
  <2>2. CASE WrIdle
    BY <2>2, WrIdleIInv
  <2>3. CASE Read
    BY <2>3, ReadIInv
  <2>4. CASE RdIdle
    BY <2>4, RdIdleIInv
  <2>5. CASE Reset
    BY <2>5, ResetIInv
  <2>6. CASE UNCHANGED vars
    BY <2>6
    DEF IInv, TypeOK, SyncConservative, WriterBound, vars, wrSide, rdSide, Dist
  <2> QED
    BY <2>1, <2>2, <2>3, <2>4, <2>5, <2>6 DEF Next, WrEdge, RdEdge
<1> QED BY InitIInv, <1>1, PTL DEF Spec

(* No write ever lands on a word that has not been read, and no read takes a  *)
(* slot that has not been written.                                            *)
THEOREM NeverCross ==
  ASSUME DepthAssumption PROVE Spec => []PointersNeverCross
<1>1. IInv => NoOverrun
  BY DEF DepthAssumption,
      IInv, TypeOK, SyncConservative, WriterBound, NoOverrun, Occupancy,
      Pointer, Dist
<1>2. IInv => NoUnderrun
  BY DEF DepthAssumption,
      IInv, TypeOK, SyncConservative, NoUnderrun, Occupancy, Empty, Pointer, Dist
<1>3. IInv => PointersNeverCross
  BY <1>1, <1>2 DEF PointersNeverCross
<1> QED BY Inductive, <1>3, PTL

(* Under the invariant, the words stored form a sequence as long as the       *)
(* occupancy.                                                                 *)
StoredFacts ==
  /\ Occupancy \in 0 .. Depth
  /\ Stored \in Seq(Data \cup {NoData})
  /\ Len(Stored) = Occupancy
  /\ \A i \in 1 .. Occupancy : Stored[i] = ram[Slot(Nth(i - 1))]

(* The sequence the refinement mapping names is well formed.                  *)
LEMMA StoredIsSeq ==
  ASSUME DepthAssumption PROVE IInv => StoredFacts
<1> SUFFICES ASSUME IInv PROVE StoredFacts
  OBVIOUS
<1>1. Occupancy \in 0 .. Depth
  BY DEF DepthAssumption,
      IInv, TypeOK, SyncConservative, WriterBound, Occupancy, Pointer, Dist
<1>2. ASSUME NEW i \in 1 .. Occupancy
      PROVE  ram[Slot(Nth(i - 1))] \in Data \cup {NoData}
  <2>1. Slot(Nth(i - 1)) \in 0 .. Depth - 1
    BY <1>1 DEF DepthAssumption, IInv, TypeOK, Pointer, Slot, Nth
  <2> QED BY <2>1 DEF IInv, TypeOK
<1>3. Stored \in [1 .. Occupancy -> Data \cup {NoData}]
  BY <1>2 DEF Stored
<1>4. Occupancy \in Nat
  BY <1>1 DEF DepthAssumption
<1> QED BY <1>1, <1>3, <1>4 DEF Stored, StoredFacts

(* A write edge appends its word to the words stored.                         *)
LEMMA WriteAppends ==
  ASSUME DepthAssumption, IInv, NEW d \in Data, Write(d)
  PROVE  Abstract!Put(d)
<1>1. StoredFacts /\ StoredFacts'
  BY WriteIInv, StoredIsSeq, PTL
<1>2. Occupancy < Depth /\ Occupancy' = Occupancy + 1
  BY DEF DepthAssumption,
      IInv, TypeOK, SyncConservative, WriterBound, Write, SampleRd, rdSide,
      Occupancy, Pointer, Succ, Dist, Full
<1>3. Slot(Nth(Occupancy)) = Slot(wr_ptr) /\ Slot(wr_ptr) \in 0 .. Depth - 1
  BY <1>2 DEF DepthAssumption,
      IInv, TypeOK, Occupancy, Pointer, Dist, Nth, Slot
<1>4. ASSUME NEW i \in 1 .. Occupancy
      PROVE  /\ Slot(Nth(i - 1)) # Slot(wr_ptr)
             /\ Slot(Nth(i - 1)) \in 0 .. Depth - 1
  BY <1>2 DEF DepthAssumption,
      IInv, TypeOK, Occupancy, Pointer, Dist, Nth, Slot
<1>5. \A i \in Nat : Slot(Nth(i))' = Slot(Nth(i))
  BY DEF Write, rdSide, Nth, Slot
<1>6. ram' = [ram EXCEPT ![Slot(wr_ptr)] = d] /\ rd_data' = rd_data
  BY DEF Write, rdSide
<1>7. ASSUME NEW i \in 1 .. Occupancy + 1
      PROVE  Stored'[i] = Append(Stored, d)[i]
  <2>1. Stored'[i] = ram'[Slot(Nth(i - 1))]
    BY <1>1, <1>2, <1>5 DEF StoredFacts
  <2>2. CASE i \in 1 .. Occupancy
    <3>1. ram'[Slot(Nth(i - 1))] = ram[Slot(Nth(i - 1))]
      BY <2>2, <1>4, <1>6 DEF IInv, TypeOK
    <3> QED BY <2>1, <2>2, <3>1, <1>1 DEF StoredFacts
  <2>3. CASE i = Occupancy + 1
    <3>1. ram'[Slot(Nth(i - 1))] = d
      BY <2>3, <1>1, <1>3, <1>6 DEF IInv, TypeOK, StoredFacts
    <3> QED BY <2>1, <2>3, <3>1, <1>1 DEF StoredFacts
  <2> QED BY <2>2, <2>3, <1>1 DEF StoredFacts
<1>8. Stored' = Append(Stored, d)
  BY <1>1, <1>2, <1>7 DEF DepthAssumption, StoredFacts
<1> QED BY <1>1, <1>2, <1>6, <1>8 DEF Abstract!Put, StoredFacts

(* A read edge takes the oldest word of those stored.                         *)
LEMMA ReadTakes ==
  ASSUME DepthAssumption PROVE IInv /\ Read => Abstract!Get
<1> SUFFICES ASSUME IInv, Read PROVE Abstract!Get
  OBVIOUS
<1>1. StoredFacts /\ StoredFacts'
  BY ReadIInv, StoredIsSeq, PTL
<1>2. Occupancy > 0 /\ Occupancy' = Occupancy - 1
  BY DEF DepthAssumption,
      IInv, TypeOK, SyncConservative, WriterBound, Read, SampleWr, wrSide,
      Occupancy, Pointer, Succ, Dist, Empty
<1>3. Slot(Nth(0)) = Slot(rd_ptr)
  BY DEF DepthAssumption, IInv, TypeOK, Pointer, Nth
<1>4. ASSUME NEW i \in 1 .. Occupancy - 1
      PROVE  Slot(Nth(i - 1))' = Slot(Nth(i))
  BY <1>1 DEF DepthAssumption,
      IInv, TypeOK, Pointer, Nth, Slot, Read, Succ, StoredFacts
<1>5. ram' = ram /\ rd_data' = ram[Slot(rd_ptr)]
  BY DEF Read, wrSide
<1>6. rd_data' = Head(Stored)
  BY <1>1, <1>2, <1>3, <1>5 DEF StoredFacts
<1>7. ASSUME NEW i \in 1 .. Occupancy - 1
      PROVE  Stored'[i] = Tail(Stored)[i]
  <2>1. Stored'[i] = ram[Slot(Nth(i))]
    BY <1>1, <1>2, <1>4, <1>5 DEF StoredFacts
  <2>2. Stored[i + 1] = ram[Slot(Nth(i))]
    BY <1>1 DEF DepthAssumption, StoredFacts
  <2> QED BY <2>1, <2>2, <1>1, <1>2 DEF StoredFacts
<1>8. Stored' = Tail(Stored)
  BY <1>1, <1>2, <1>7 DEF DepthAssumption, StoredFacts
<1> QED BY <1>1, <1>2, <1>6, <1>8 DEF Abstract!Get, StoredFacts

(* An edge of either clock that moves no word leaves the queue as it was.     *)
LEMMA IdleStutters ==
  (WrIdle \/ RdIdle \/ UNCHANGED vars) => UNCHANGED Abstract!vars
<1> SUFFICES ASSUME WrIdle \/ RdIdle \/ UNCHANGED vars
             PROVE  UNCHANGED Abstract!vars
  OBVIOUS
<1>1. ram' = ram /\ wr_ptr' = wr_ptr /\ rd_ptr' = rd_ptr /\ rd_data' = rd_data
  BY DEF WrIdle, RdIdle, vars, wrSide, rdSide
<1>2. Stored' = Stored
  BY <1>1 DEF Stored, Occupancy, Dist, Nth, Slot
<1> QED BY <1>1, <1>2 DEF Abstract!vars

(* After both resets, and at power-on, the queue is empty.                    *)
LEMMA EmptyStored ==
  ASSUME wr_ptr = 0, rd_ptr = 0
  PROVE  Stored = << >>
<1>1. Occupancy = 0
  BY DEF Occupancy, Dist
<1> QED BY <1>1 DEF Stored

(* Likewise after a reset.                                                    *)
LEMMA ResetEmpties == Reset => Abstract!Reset
<1> SUFFICES ASSUME Reset PROVE Abstract!Reset
  OBVIOUS
<1>1. wr_ptr' = 0 /\ rd_ptr' = 0 /\ rd_data' = NoData
  BY DEF Reset
<1>2. Occupancy' = 0
  BY <1>1 DEF Occupancy, Dist
<1>3. Stored' = << >>
  BY <1>2 DEF Stored
<1> QED BY <1>1, <1>3 DEF Abstract!Reset

(* The dual-clock FIFO implements the bounded queue: seen by its users it     *)
(* loses, repeats and reorders nothing, at any depth.                         *)
THEOREM Refinement ==
  ASSUME DepthAssumption PROVE Spec => ImplementsQueue
<1>1. Init => Abstract!Init
  BY EmptyStored DEF Init, Abstract!Init
<1>2. IInv /\ [Next]_vars => [Abstract!Next]_(Abstract!vars)
  <2> SUFFICES ASSUME IInv, [Next]_vars
               PROVE  [Abstract!Next]_(Abstract!vars)
    OBVIOUS
  <2>1. CASE \E d \in Data : Write(d)
    BY <2>1, WriteAppends DEF Abstract!Next
  <2>2. CASE Read
    BY <2>2, ReadTakes DEF Abstract!Next
  <2>3. CASE Reset
    BY <2>3, ResetEmpties DEF Abstract!Next
  <2>4. CASE WrIdle \/ RdIdle \/ UNCHANGED vars
    BY <2>4, IdleStutters
  <2> QED
    BY <2>1, <2>2, <2>3, <2>4 DEF Next, WrEdge, RdEdge
<1> QED BY <1>1, <1>2, Inductive, PTL DEF Spec, ImplementsQueue, Abstract!Spec
==============================================================================
