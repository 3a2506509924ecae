----------------------------- MODULE MonitorProofs -----------------------------
(***************************************************************************)
(* The outlet's safety, for every capacity, set of lengths and bound: what *)
(* the client is handed and what acquire_stop's flush leaves behind.       *)
(* MonitorIInv of Monitor.tla is inductive; the invariants that the model  *)
(* checker runs on a small queue follow from it.  The writer's and the     *)
(* readers' steps are those of Channel, so most of what they do to the     *)
(* queue is taken from ChannelProofs and ChannelRefinement.                *)
(***************************************************************************)
EXTENDS Monitor, ChannelRefinement

-------------------------------------------------------------------------------
(* The channel's invariant and the outlet's.                               *)

LEMMA BothReaders == Sink \in Readers /\ Monitor \in Readers /\ Sink # Monitor
  BY TwoReadersAssumption

\* But for a misused reader, all that the channel's proofs rest on holds.
LEMMA OutletIInv == OutletInv /\ ~Misused => IInv
<1> SUFFICES ASSUME OutletInv, ~Misused, NEW r \in Readers
             PROVE  SliceOf(r)
  BY DEF OutletInv, IInv, SliceInv
<1>. QED
  BY TwoReadersAssumption DEF OutletInv

\* A reader with a slice of its own is not misused.
LEMMA IInvOutlet ==
  /\ IInv => OutletInv /\ ~Misused
  /\ IInv' => OutletInv'
<1>1. IInv => SliceOf(Sink) /\ SliceOf(Monitor) /\ BaseInv
  BY BothReaders DEF IInv, SliceInv
<1>2. IInv => ~Misused
  BY BothReaders DEF Misused, IInv, SliceInv, SliceOf, BaseInv, TypeOK
<1>3. IInv' => SliceOf(Sink)' /\ SliceOf(Monitor)' /\ BaseInv'
  BY BothReaders DEF IInv, SliceInv
<1>4. IInv' => ~Misused'
  BY BothReaders DEF Misused, IInv, SliceInv, SliceOf, BaseInv, TypeOK
<1>. QED
  BY <1>1, <1>2, <1>3, <1>4 DEF OutletInv

LEMMA ConsumedByOf ==
  \A r \in Readers : ConsumedBy[r] = Consumed(r) /\ ConsumedBy'[r] = Consumed(r)'
  BY DEF ConsumedBy

\* The writer's steps leave the readers as they are.
LEMMA WriterKeepsReaders ==
  ASSUME IInv, Writer
  PROVE  /\ UNCHANGED <<readerVars, holders>>
         /\ \A r \in Readers : Consumed(r)' = Consumed(r)
<1>1. UNCHANGED readerVars
  BY DEF Writer, WriteMap, Park, SpuriousWake, WriteRetry, WriteData, WriteUnmap,
    WriteAbort, WriteAbandon
<1>2. UNCHANGED <<holders, ConsumedBy>>
  BY WriterSteps DEF StreamFrame
<1>. QED
  BY <1>1, <1>2, ConsumedByOf

\* Whoever maps or unmaps, the queue and the other readers stay as they are.
LEMMA ReaderKeepsOthers ==
  ASSUME BaseInv, NEW r \in Readers,
         ReadMap(r) \/ (r \in holders /\ \E k \in Nat : ReadUnmap(r, k))
  PROVE  /\ OthersKeep(r) /\ holders' = holders \cup {r}
         /\ UNCHANGED <<data, channelVars, is_accepting_writes, writer, nbytes,
                        written>>
<1>. USE DEF SetHold, SetMarks, SetSlice, OthersKeep, BaseInv, TypeOK, markVars
<1>1. CASE ReadMap(r)
  <2>1. CASE ReadNothing(r)
    BY <1>1, <2>1 DEF ReadMap, ReadNothing
  <2>2. CASE ReadHandOut(r)
    BY <1>1, <2>2 DEF ReadMap, ReadHandOut
  <2>3. CASE ReadAdvance(r)
    BY <1>1, <2>3 DEF ReadMap, ReadAdvance
  <2>. QED
    BY <1>1, <2>1, <2>2, <2>3 DEF ReadMap
<1>2. ASSUME NEW k \in Nat, ReadUnmap(r, k), r \in holders
      PROVE  /\ OthersKeep(r) /\ holders' = holders \cup {r}
             /\ UNCHANGED <<data, channelVars, is_accepting_writes, writer, nbytes,
                            written>>
  BY <1>2 DEF ReadUnmap
<1>. QED
  BY <1>1, <1>2

-------------------------------------------------------------------------------
(* What the calls on one reader leave behind.                              *)

\* A reader whose hold stands still while another is called has consumed what
\* it had, and has the slice it had.
LEMMA OtherReaderStands ==
  ASSUME BaseInv, NEW r \in Readers, NEW q \in Readers, q # r,
         ReadMap(r) \/ (r \in holders /\ \E k \in Nat : ReadUnmap(r, k))
  PROVE  /\ q \in holders' <=> q \in holders
         /\ Consumed(q)' = Consumed(q)
         /\ rd_state'[q] = rd_state[q]
         /\ SliceOf(q) => SliceOf(q)'
         /\ slice_beg'[q] = slice_beg[q] /\ slice_len'[q] = slice_len[q]
<1>1. /\ OthersKeep(r) /\ holders' = holders \cup {r} /\ UNCHANGED channelVars
      /\ UNCHANGED written
  BY ReaderKeepsOthers
<1>2. SliceOf(q) => SliceOf(q)'
  BY <1>1, OthersSlicesStand
<1>. QED
  BY <1>1, <1>2 DEF OthersKeep, Consumed, Unread, channelVars

\* Mapping an unmapped reader: an empty slice leaves it at the head, any other
\* ends at the head or at the end of the lap before.
LEMMA MapReaches ==
  ASSUME IInv, NEW r \in Readers, rd_state[r] = "Unmapped", ReadMap(r)
  PROVE  /\ r \in holders'
         /\ slice_len'[r] = 0 => AtHead(r)'
         /\ slice_len'[r] # 0 =>
              /\ rd_cycle'[r] = cycle' /\ ~CaughtUp(r)
              /\ \/ rd_pos'[r] = head'
                 \/ rd_pos'[r] = 0 /\ Cyc(r) # cycle
<1>. USE DEF SetHold, SetMarks, SetSlice
<1>1. /\ Pos(r) \in 0 .. Capacity /\ Cyc(r) \in Nat
      /\ head \in 0 .. Capacity /\ high \in 0 .. Capacity /\ cycle \in Nat
      /\ Capacity \in Nat
      /\ hold_pos \in [Readers -> 0 .. Capacity]
      /\ hold_cycle \in [Readers -> Nat]
      /\ rd_pos \in [Readers -> 0 .. Capacity]
      /\ rd_cycle \in [Readers -> Nat]
      /\ slice_len \in [Readers -> 0 .. Capacity]
  BY ReaderStands, CapacityAssumption DEF IInv, BaseInv, TypeOK
<1>2. /\ r \in holders' /\ UNCHANGED <<head, high, cycle>>
      /\ ReadNothing(r) \/ ReadHandOut(r) \/ ReadAdvance(r)
  BY DEF ReadMap, channelVars
<1>3. CASE ReadNothing(r)
  BY <1>1, <1>2, <1>3 DEF ReadNothing, CaughtUp, AtHead
<1>4. CASE ReadHandOut(r) /\ SameLap(r)
  <2>1. /\ slice_len'[r] = head - Pos(r) /\ Pos(r) < head /\ ~CaughtUp(r)
        /\ rd_pos'[r] = head /\ rd_cycle'[r] = cycle
    BY <1>1, <1>4 DEF ReadHandOut, SameLap, PrevLap
  <2>. QED
    BY <1>1, <1>2, <2>1
<1>5. CASE ReadHandOut(r) /\ PrevLap(r)
  <2>1. /\ slice_len'[r] = Minus(high, Pos(r)) /\ Pos(r) # high /\ ~CaughtUp(r)
        /\ rd_pos'[r] = 0 /\ rd_cycle'[r] = Cyc(r) + 1 /\ Cyc(r) + 1 = cycle
    BY <1>1, <1>5 DEF ReadHandOut, SameLap, PrevLap
  <2>2. Minus(high, Pos(r)) # 0
    BY <1>1, <2>1, ModulusAssumption DEF Minus
  <2>. QED
    BY <1>1, <1>2, <2>1, <2>2
<1>6. CASE ReadAdvance(r)
  BY <1>1, <1>2, <1>6 DEF ReadAdvance, AtHead
<1>. QED
  BY <1>2, <1>3, <1>4, <1>5, <1>6 DEF ReadHandOut

\* Unmapping all of a slice that ends at the head or at the lap's end takes the
\* reader there.
LEMMA UnmapReaches ==
  ASSUME IInv, NEW r \in Readers, ReadUnmap(r, slice_len[r]),
         rd_cycle[r] = cycle, rd_pos[r] = head \/ rd_pos[r] = 0
  PROVE  /\ r \in holders' /\ rd_state'[r] = "Unmapped"
         /\ hold_pos'[r] = rd_pos[r] /\ hold_cycle'[r] = cycle'
         /\ UNCHANGED head
<1>1. rd_state[r] = "Mapped" /\ r \in holders
  BY DEF ReadUnmap, IInv, SliceInv, SliceOf
<1>2. slice_len[r] \in Nat /\ Available(r) = slice_len[r] /\ head \in Nat
  BY <1>1, AvailableIsSlice DEF IInv, BaseInv, TypeOK
<1>3. HoldAfter(r, slice_len[r]) = <<rd_pos[r], cycle>>
  BY <1>2 DEF HoldAfter
<1>. QED
  BY <1>1, <1>3 DEF ReadUnmap, SetHold, channelVars, IInv, BaseInv, TypeOK

\* The flush maps with a reader that the client has mapped: the reader is taken
\* to the head, as if all had been consumed.
LEMMA MisuseReaches ==
  ASSUME IInv, NEW r \in Readers, rd_state[r] = "Mapped", ReadMap(r)
  PROVE  /\ BaseInv' /\ AtHead(r)'
         /\ rd_state'[r] = "Mapped" /\ slice_len'[r] = 0
         /\ \/ (Available(r) > 0)'
            \/ (rd_pos[r] = head /\ rd_cycle[r] = cycle)'
<1>. USE DEF SetHold, SetSlice, channelVars
<1>1. /\ SetHold(r, head, cycle) /\ SetSlice(r, 0, 0)
      /\ rd_status' = [rd_status EXCEPT ![r] = "Expected_Unmapped_Reader"]
      /\ UNCHANGED <<rd_pos, rd_cycle, rd_state, data, channelVars,
                     is_accepting_writes, writer, nbytes, notifying, written>>
      /\ holders' = holders \cup {r}
  BY DEF ReadMap, ReadNothing, ReadHandOut, ReadAdvance
<1>2. /\ head \in 0 .. Capacity /\ high \in 0 .. Capacity /\ cycle \in Nat
      /\ Capacity \in Nat /\ rd_pos[r] \in 0 .. Capacity
      /\ hold_pos \in [Readers -> 0 .. Capacity]
      /\ hold_cycle \in [Readers -> Nat]
      /\ slice_len \in [Readers -> 0 .. Capacity]
  BY CapacityAssumption DEF IInv, BaseInv, TypeOK
<1>3. TypeOK'
  <2>1. /\ hold_pos' \in [Readers -> 0 .. Capacity]
        /\ hold_cycle' \in [Readers -> Nat]
    BY <1>1, <1>2
  <2>2. /\ slice_beg' \in [Readers -> 0 .. Capacity]
        /\ slice_len' \in [Readers -> 0 .. Capacity]
        /\ rd_status' \in [Readers -> ChannelStatus]
    BY <1>1, <1>2 DEF IInv, BaseInv, TypeOK, ChannelStatus
  <2>. QED
    BY <1>1, <2>1, <2>2, ReaderTypes DEF IInv, BaseInv, TypeOK
<1>4. hold_pos'[r] = head /\ hold_cycle'[r] = cycle /\ slice_len'[r] = 0
  BY <1>1, <1>2
<1>5. BaseInv'
  <2>1. HoldMovesOn(r)
    BY <1>2, <1>4 DEF HoldMovesOn
  <2>. QED
    BY <1>1, <1>3, <2>1, ReaderStepBase, ReaderKeepsOthers DEF IInv
<1>6. AtHead(r)'
  BY <1>1, <1>4 DEF AtHead
<1>7. \/ (Available(r) > 0)'
      \/ (rd_pos[r] = head /\ rd_cycle[r] = cycle)'
  <2>1. SliceOf(r) /\ r \in holders
    BY DEF IInv, SliceInv, SliceOf
  <2>2. \/ ~Lagging(r) /\ hold_cycle[r] = cycle /\ hold_pos[r] <= head
        \/ /\ Lagging(r) /\ hold_cycle[r] + 1 = cycle
           /\ head <= hold_pos[r] /\ hold_pos[r] <= high
    BY <1>2, <2>1 DEF IInv, BaseInv, HoldsInv, Lagging
  <2>3. Available(r)' = IF rd_pos[r] = head /\ rd_cycle[r] = cycle THEN 0
                        ELSE IF rd_pos[r] = 0 THEN Minus(high, head)
                        ELSE Minus(rd_pos[r], head)
    BY <1>1, <1>4 DEF Available, Minus
  <2>4. rd_pos[r] = 0 => head < high
    BY <1>2, <2>1, <2>2 DEF SliceOf
  <2>5. rd_pos[r] # 0 /\ ~(rd_pos[r] = head /\ rd_cycle[r] = cycle) =>
          rd_pos[r] # head
    BY <1>2, <2>1, <2>2 DEF SliceOf
  <2>. QED
    BY <1>1, <1>2, <2>3, <2>4, <2>5, ModulusAssumption DEF Minus
<1>. QED
  BY <1>1, <1>4, <1>5, <1>6, <1>7

\* ... and unmapping nothing of it leaves it there.
LEMMA MisuseEnds ==
  ASSUME BaseInv, NEW r \in Readers, AtHead(r), ReadUnmap(r, 0),
         Available(r) > 0 \/ (rd_pos[r] = head /\ rd_cycle[r] = cycle)
  PROVE  /\ BaseInv' /\ AtHead(r)' /\ SliceOf(r)'
         /\ rd_state'[r] = "Unmapped"
<1>. USE DEF SetHold, SetSlice, channelVars
<1>1. /\ SetHold(r, HoldAfter(r, 0)[1], HoldAfter(r, 0)[2]) /\ SetSlice(r, 0, 0)
      /\ rd_state' = [rd_state EXCEPT ![r] = "Unmapped"]
      /\ notifying' = notifying \cup {r}
      /\ UNCHANGED <<data, channelVars, is_accepting_writes, holders, rd_pos,
                     rd_cycle, rd_status, writer, nbytes, written>>
  BY DEF ReadUnmap
<1>2. /\ head \in 0 .. Capacity /\ high \in 0 .. Capacity /\ cycle \in Nat
      /\ Capacity \in Nat /\ r \in holders
      /\ hold_pos[r] = head /\ hold_cycle[r] = cycle
      /\ hold_pos \in [Readers -> 0 .. Capacity]
      /\ hold_cycle \in [Readers -> Nat]
  BY CapacityAssumption DEF BaseInv, TypeOK, AtHead
<1>3. HoldAfter(r, 0) = <<head, cycle>>
  <2>1. Available(r) \in Int
    BY <1>2, ModulusAssumption DEF Available, Minus, BaseInv, TypeOK
  <2>2. CASE Available(r) > 0
    BY <1>2, <2>1, <2>2 DEF HoldAfter
  <2>3. CASE rd_pos[r] = head /\ rd_cycle[r] = cycle
    BY <1>2, <2>3 DEF HoldAfter
  <2>. QED
    BY <2>2, <2>3
<1>4. /\ hold_pos'[r] = head /\ hold_cycle'[r] = cycle /\ slice_len'[r] = 0
      /\ rd_state'[r] = "Unmapped"
  BY <1>1, <1>2, <1>3 DEF BaseInv, TypeOK
<1>5. TypeOK'
  <2>1. /\ hold_pos' \in [Readers -> 0 .. Capacity]
        /\ hold_cycle' \in [Readers -> Nat]
    BY <1>1, <1>2, <1>3
  <2>2. /\ slice_beg' \in [Readers -> 0 .. Capacity]
        /\ slice_len' \in [Readers -> 0 .. Capacity]
        /\ rd_state' \in [Readers -> ChannelState]
        /\ notifying' \in SUBSET (Readers \cup {Controller})
    BY <1>1, <1>2 DEF BaseInv, TypeOK, ChannelState
  <2>. QED
    BY <1>1, <1>2, <2>1, <2>2, ReaderTypes DEF BaseInv, TypeOK
<1>6. BaseInv'
  <2>1. HoldMovesOn(r)
    BY <1>2, <1>4 DEF HoldMovesOn
  <2>. QED
    BY <1>1, <1>2, <1>5, <2>1, ReaderStepBase, ReaderKeepsOthers
<1>. QED
  BY <1>1, <1>2, <1>4, <1>6 DEF AtHead, SliceOf

-------------------------------------------------------------------------------
(* The bound on what is written.                                           *)

LEMMA MapKeepsBound ==
  ASSUME IInv, NEW n \in Nat, written + n <= MaxWritten, UNCHANGED written,
         MapUnheld(n) \/ MapLoop(n)
  PROVE  BoundInv'
<1>1. /\ written \in Nat /\ head \in Nat /\ MaxWritten \in Nat
  BY BoundAssumption DEF IInv, BaseInv, TypeOK
<1>2. ASSUME NEW beg \in Nat, Reserve(beg, n)
      PROVE  BoundInv'
  BY <1>1, <1>2 DEF Reserve, BoundInv
<1>3. CASE MapUnheld(n)
  BY <1>1, <1>2, <1>3 DEF MapUnheld, BoundInv
<1>4. CASE MapHeld(n)
  BY <1>1, <1>2, <1>4 DEF MapHeld
<1>5. CASE MapRefused \/ MapBlocked(n)
  BY <1>1, <1>5 DEF MapRefused, MapBlocked, BoundInv
<1>. QED
  BY <1>3, <1>4, <1>5 DEF MapLoop

LEMMA WriterKeepsBound == IInv /\ BoundInv /\ Writer => BoundInv'
<1> SUFFICES ASSUME IInv, BoundInv, Writer PROVE BoundInv'
  OBVIOUS
<1>1. /\ written \in Nat /\ head \in Nat /\ mapped \in Nat /\ nbytes \in Nat
      /\ MaxWritten \in Nat /\ writer \in {"Reserved", "Filled"} => head <= mapped
  BY BoundAssumption DEF IInv, BaseInv, TypeOK, RegionInv
<1>2. ASSUME NEW n \in Sizes, written + n <= MaxWritten, WriteMap(n)
      PROVE  BoundInv'
  BY <1>2, MapKeepsBound, SizesAssumption DEF WriteMap
<1>3. CASE WriteRetry
  BY <1>1, <1>3, MapKeepsBound DEF WriteRetry, BoundInv
<1>4. CASE Park \/ SpuriousWake \/ WriteData \/ WriteAbandon
  BY <1>1, <1>4 DEF Park, SpuriousWake, WriteData, WriteAbandon, BoundInv, channelVars
<1>5. CASE WriteUnmap
  BY <1>1, <1>5 DEF WriteUnmap, BoundInv
<1>6. CASE WriteAbort
  BY <1>1, <1>6 DEF WriteAbort, BoundInv
<1>. QED
  BY <1>2, <1>3, <1>4, <1>5, <1>6 DEF Writer

-------------------------------------------------------------------------------
(* The inductive invariant: the threads' steps.                            *)

LEMMA MonitorInitIInv == MonitorInit => MonitorIInv
<1> SUFFICES ASSUME MonitorInit PROVE MonitorIInv
  OBVIOUS
<1>1. OutletInv
  BY InitIInv, IInvOutlet DEF MonitorInit
<1>2. MonitorTypeOK
  <2>1. NoSlice \in [beg : 0 .. Capacity, len : 0 .. Capacity,
                      first : 0 .. MaxWritten, lost : BOOLEAN]
    BY CapacityAssumption, BoundAssumption DEF NoSlice
  <2>2. 0 \in 0 .. Capacity /\ 0 \in 0 .. MaxRounds /\ 0 \in 0 .. MaxWritten
    BY CapacityAssumption, BoundAssumption DEF MaxRounds
  <2>. QED
    BY <2>1, <2>2 DEF MonitorInit, MonitorTypeOK, Phase
<1>3. BoundInv /\ ThreadsInv /\ RunInv
  BY BothReaders, BoundAssumption DEF MonitorInit, Init, BoundInv, ThreadsInv, RunInv
<1>4. ClientInv /\ FlushInv
  BY DEF MonitorInit, ClientInv, FlushInv
<1>. QED
  BY <1>1, <1>2, <1>3, <1>4 DEF MonitorIInv

LEMMA TypeFacts ==
  ASSUME MonitorIInv
  PROVE  /\ BaseInv /\ TypeOK /\ written \in 0 .. MaxWritten /\ MaxWritten \in Nat
         /\ head \in 0 .. Capacity /\ high \in 0 .. Capacity /\ Capacity \in Nat
         /\ cycle \in Nat
  BY CapacityAssumption, BoundAssumption DEF MonitorIInv, OutletInv, BoundInv, BaseInv,
    TypeOK

\* While the threads of the stream run, the flush does not.
LEMMA RunningIInv ==
  ASSUME MonitorIInv, phase # "Unmapping" \/ writing \/ reading
  PROVE  IInv
  BY OutletIInv DEF MonitorIInv, ThreadsInv, Misused

LEMMA WriteMonitor == MonitorIInv /\ Write => MonitorIInv'
<1> SUFFICES ASSUME MonitorIInv, Write PROVE MonitorIInv'
  OBVIOUS
<1>. USE DEF monitorVars
<1>1. /\ writing /\ Writer /\ UNCHANGED monitorVars
      /\ phase \notin {"Armed", "Mapping", "Unmapping"} /\ IInv
  BY RunningIInv DEF Write, MonitorIInv, ThreadsInv
<1>2. IInv' /\ OutletInv'
  BY <1>1, WriterInv, IInvOutlet
<1>3. /\ UNCHANGED <<readerVars, holders>> /\ Consumed(Monitor)' = Consumed(Monitor)
  BY <1>1, WriterKeepsReaders, BothReaders
<1>4. MonitorTypeOK' /\ BoundInv'
  BY <1>1, WriterKeepsBound DEF MonitorIInv, MonitorTypeOK
<1>5. ThreadsInv' /\ RunInv'
  BY <1>1, <1>3 DEF MonitorIInv, ThreadsInv, RunInv, readerVars, markVars
<1>6. ClientInv' /\ FlushInv'
  BY <1>1, <1>3 DEF MonitorIInv, ClientInv, FlushInv, readerVars, markVars, sliceVars
<1>. QED
  BY <1>2, <1>4, <1>5, <1>6 DEF MonitorIInv

\* A step of the sink's: the monitor is where it was.
LEMMA SinkMonitor ==
  ASSUME MonitorIInv, reading,
         (rd_state[Sink] = "Unmapped" /\ ReadMap(Sink))
           \/ (\E k \in Nat : ReadUnmap(Sink, k)),
         UNCHANGED <<phase, writing, client, flushed, rounds, run_start>>,
         reading' \in BOOLEAN, ~reading' => rd_state'[Sink] = "Unmapped"
  PROVE  MonitorIInv'
<1>1. phase \notin {"Armed", "Mapping", "Unmapping"} /\ IInv
  BY RunningIInv DEF MonitorIInv, ThreadsInv
<1>2. IInv' /\ OutletInv'
  BY <1>1, ReadMapInv, ReadUnmapInv, IInvOutlet, BothReaders
<1>3. ReadMap(Sink) \/ (Sink \in holders /\ \E k \in Nat : ReadUnmap(Sink, k))
  BY <1>1, BothReaders DEF IInv, SliceInv, SliceOf, ReadUnmap
<1>4. /\ Monitor \in holders' <=> Monitor \in holders
      /\ Consumed(Monitor)' = Consumed(Monitor)
      /\ rd_state'[Monitor] = rd_state[Monitor]
      /\ slice_beg'[Monitor] = slice_beg[Monitor]
      /\ slice_len'[Monitor] = slice_len[Monitor]
      /\ UNCHANGED <<head, mapped, writer, nbytes, written>>
  <2>1. BaseInv /\ Sink \in Readers /\ Monitor \in Readers /\ Monitor # Sink
    BY BothReaders, TypeFacts
  <2>2. UNCHANGED <<head, mapped, writer, nbytes, written>>
    BY <1>3, <2>1, ReaderKeepsOthers DEF channelVars
  <2>. QED
    BY <1>3, <2>1, <2>2, OtherReaderStands
<1>5. MonitorTypeOK' /\ BoundInv'
  BY <1>4 DEF MonitorIInv, MonitorTypeOK, BoundInv
<1>6. ThreadsInv' /\ RunInv'
  BY <1>1, <1>4 DEF MonitorIInv, ThreadsInv, RunInv
<1>7. ClientInv' /\ FlushInv'
  BY <1>1, <1>4 DEF MonitorIInv, ClientInv, FlushInv
<1>. QED
  BY <1>2, <1>5, <1>6, <1>7 DEF MonitorIInv

LEMMA SinkReadsMonitor == MonitorIInv /\ SinkReads => MonitorIInv'
  BY SinkMonitor, AmountsAssumption DEF SinkReads, monitorVars, MonitorIInv,
    MonitorTypeOK

LEMMA SinkFailsMonitor == MonitorIInv /\ SinkFails => MonitorIInv'
<1> SUFFICES ASSUME MonitorIInv, SinkFails PROVE MonitorIInv'
  OBVIOUS
<1>1. rd_state'[Sink] = "Unmapped"
  BY BothReaders, TypeFacts DEF SinkFails, ReadUnmap, TypeOK
<1>. QED
  BY <1>1, SinkMonitor DEF SinkFails

\* A thread's last step, and what the client does with its hands off the queue.
LEMMA QueueStands ==
  ASSUME MonitorIInv, UNCHANGED vars
  PROVE  /\ BaseInv' /\ BoundInv' /\ Consumed(Monitor)' = Consumed(Monitor)
         /\ UNCHANGED <<head, cycle, written, holders, hold_pos, hold_cycle, rd_pos,
                        rd_cycle, rd_state, slice_beg, slice_len, writer>>
         /\ Available(Monitor)' = Available(Monitor)
         /\ \A r \in Readers : SliceOf(r) => SliceOf(r)'
         /\ IInv => IInv'
<1>. USE DEF vars, channelVars, holdVars, readerVars, markVars, sliceVars
<1>1. BaseInv'
  BY WriterOnlyBase, TypeFacts DEF TypeOK
<1>2. \A r \in Readers : SliceOf(r) => SliceOf(r)'
  BY SlicesStand
<1>. QED
  BY <1>1, <1>2 DEF MonitorIInv, BoundInv, Consumed, Unread, Available, Minus, IInv,
    SliceInv

LEMMA NotifyMonitor ==
  ASSUME MonitorIInv, NEW t, NotifyWriter(t)
  PROVE  MonitorIInv'
<1>. USE DEF NotifyWriter, Notify, monitorVars, channelVars, holdVars, readerVars,
       markVars, sliceVars
<1>1. /\ BaseInv' /\ \A r \in Readers : SliceOf(r) => SliceOf(r)'
  BY NotifyBase, TypeFacts DEF NotifyWriter
<1>2. OutletInv'
  BY <1>1, BothReaders DEF MonitorIInv, OutletInv, Misused, AtHead, Available, Minus
<1>3. MonitorTypeOK' /\ BoundInv' /\ ThreadsInv'
  BY DEF MonitorIInv, MonitorTypeOK, BoundInv, ThreadsInv
<1>4. RunInv' /\ ClientInv' /\ FlushInv'
  BY DEF MonitorIInv, RunInv, ClientInv, FlushInv, AtHead, Consumed, Unread
<1>. QED
  BY <1>2, <1>3, <1>4 DEF MonitorIInv

LEMMA ExitsMonitor ==
  ASSUME MonitorIInv, WriterExits \/ SinkExits \/ UNCHANGED allVars
  PROVE  MonitorIInv'
<1>1. /\ UNCHANGED <<vars, phase, client, flushed, rounds, run_start>>
      /\ UNCHANGED writing \/ (writing' = FALSE /\ writer = "Idle")
      /\ UNCHANGED reading \/ (reading' = FALSE /\ rd_state[Sink] = "Unmapped")
  BY DEF WriterExits, SinkExits, allVars, monitorVars
<1>2. OutletInv'
  BY <1>1, QueueStands, BothReaders DEF MonitorIInv, OutletInv, Misused, AtHead
<1>3. MonitorTypeOK'
  BY <1>1 DEF MonitorIInv, MonitorTypeOK
<1>4. BoundInv' /\ ThreadsInv'
  <2>1. BoundInv' /\ UNCHANGED <<writer, rd_state>>
    BY <1>1, QueueStands
  <2>. QED
    BY <1>1, <2>1 DEF MonitorIInv, ThreadsInv
<1>5. RunInv' /\ ClientInv' /\ FlushInv'
  BY <1>1, QueueStands DEF MonitorIInv, RunInv, ClientInv, FlushInv, AtHead
<1>. QED
  BY <1>2, <1>3, <1>4, <1>5 DEF MonitorIInv

-------------------------------------------------------------------------------
(* The inductive invariant: the client's calls.                            *)

\* Opening or closing the channel moves nothing.
LEMMA AcceptKeeps ==
  ASSUME MonitorIInv, IInv, NEW tf \in BOOLEAN, AcceptWrites(tf), tf => writer = "Idle"
  PROVE  /\ IInv' /\ OutletInv' /\ BoundInv' /\ Consumed(Monitor)' = Consumed(Monitor)
         /\ UNCHANGED <<head, cycle, written, holders, hold_pos, hold_cycle, rd_state,
                        slice_beg, slice_len, writer>>
<1>. USE DEF channelVars, holdVars, readerVars, markVars, sliceVars
<1>1. IInv' /\ OutletInv'
  BY AcceptWritesInv, IInvOutlet
<1>. QED
  BY <1>1 DEF AcceptWrites, MonitorIInv, BoundInv, Consumed, Unread

\* Between acquisitions the monitor has consumed all there is.
LEMMA ArmedConsumed ==
  ASSUME MonitorIInv, phase = "Armed"
  PROVE  Monitor \in holders => Consumed(Monitor) = written
  BY TypeFacts DEF MonitorIInv, RunInv, AtHead, Consumed, Unread

LEMMA StartRunMonitor == MonitorIInv /\ StartRun => MonitorIInv'
<1> SUFFICES ASSUME MonitorIInv, StartRun PROVE MonitorIInv'
  OBVIOUS
<1>1. /\ phase = "Armed" /\ phase' = "Running" /\ writing' = TRUE /\ reading' = TRUE
      /\ AcceptWrites(TRUE) /\ run_start' = written
      /\ UNCHANGED <<client, flushed, rounds>>
  BY DEF StartRun
<1>2. IInv /\ writer = "Idle"
  BY <1>1, RunningIInv DEF MonitorIInv, ThreadsInv
<1>3. /\ OutletInv' /\ BoundInv' /\ Consumed(Monitor)' = Consumed(Monitor)
      /\ UNCHANGED <<written, holders>>
  BY <1>1, <1>2, AcceptKeeps
<1>4. MonitorTypeOK' /\ ThreadsInv'
  BY <1>1, TypeFacts DEF MonitorIInv, MonitorTypeOK, ThreadsInv, Phase
<1>5. RunInv'
  <2>1. Monitor \in holders => written <= Consumed(Monitor)
    BY <1>1, ArmedConsumed, TypeFacts
  <2>2. Monitor \notin holders => written = 0
    BY <1>1 DEF MonitorIInv, RunInv
  <2>. QED
    BY <1>1, <1>3, <2>1, <2>2 DEF RunInv
<1>6. ClientInv' /\ FlushInv'
  BY <1>1 DEF MonitorIInv, ClientInv, FlushInv
<1>. QED
  BY <1>3, <1>4, <1>5, <1>6 DEF MonitorIInv

\* acquire_stop and acquire_abort up to the joins.
LEMMA StopMonitor == MonitorIInv /\ (CallStop \/ CallAbort \/ AbortStops) => MonitorIInv'
<1> SUFFICES ASSUME MonitorIInv, CallStop \/ CallAbort \/ AbortStops PROVE MonitorIInv'
  OBVIOUS
<1>1. /\ phase \in {"Running", "Aborting"} /\ phase' \in {"Aborting", "Joining"}
      /\ UNCHANGED <<writing, reading, client, flushed, rounds, run_start>>
      /\ UNCHANGED vars \/ AcceptWrites(FALSE)
  BY DEF CallStop, CallAbort, AbortStops
<1>2. IInv
  BY <1>1, RunningIInv
<1>3. /\ OutletInv' /\ BoundInv' /\ Consumed(Monitor)' = Consumed(Monitor)
      /\ UNCHANGED <<holders, rd_state, slice_beg, slice_len, writer>>
  BY <1>1, <1>2, QueueStands, AcceptKeeps, IInvOutlet
<1>4. MonitorTypeOK' /\ ThreadsInv' /\ RunInv'
  BY <1>1, <1>3 DEF MonitorIInv, MonitorTypeOK, ThreadsInv, RunInv, Phase
<1>5. ClientInv' /\ FlushInv'
  BY <1>1, <1>3 DEF MonitorIInv, ClientInv, FlushInv
<1>. QED
  BY <1>3, <1>4, <1>5 DEF MonitorIInv

LEMMA JoinedMonitor == MonitorIInv /\ Joined => MonitorIInv'
<1> SUFFICES ASSUME MonitorIInv, Joined PROVE MonitorIInv'
  OBVIOUS
<1>1. /\ phase = "Joining" /\ phase' = "Mapping" /\ rounds' = 0
      /\ ~writing /\ ~reading /\ AcceptWrites(TRUE)
      /\ UNCHANGED <<writing, reading, client, flushed, run_start>>
  BY DEF Joined
<1>2. IInv /\ writer = "Idle"
  BY <1>1, RunningIInv DEF MonitorIInv, ThreadsInv
<1>3. /\ OutletInv' /\ BoundInv' /\ Consumed(Monitor)' = Consumed(Monitor)
      /\ UNCHANGED <<holders, rd_state, slice_beg, slice_len, writer>>
  BY <1>1, <1>2, AcceptKeeps
<1>4. MonitorTypeOK' /\ ThreadsInv' /\ RunInv'
  BY <1>1, <1>3
  DEF MonitorIInv, MonitorTypeOK, ThreadsInv, RunInv, Phase, MaxRounds
<1>5. ClientInv' /\ FlushInv'
  BY <1>1, <1>3 DEF MonitorIInv, ClientInv, FlushInv
<1>. QED
  BY <1>3, <1>4, <1>5 DEF MonitorIInv

LEMMA SliceIntegrityNext == IInv' => SliceIntegrity'
  BY IInvSliceIntegrity, PTL

LEMMA MapReadMonitor == MonitorIInv /\ MapRead => MonitorIInv'
<1> SUFFICES ASSUME MonitorIInv, MapRead PROVE MonitorIInv'
  OBVIOUS
<1>. DEFINE r == Monitor
<1>1. /\ phase \in {"Armed", "Running", "Aborting", "Joining"} /\ client = NoSlice
      /\ rd_state[r] = "Unmapped" /\ ReadMap(r) /\ r \in Readers
      /\ client' = IF rd_status'[r] = "Ok" /\ slice_len'[r] > 0
                   THEN [beg |-> slice_beg'[r], len |-> slice_len'[r],
                         first |-> data[slice_beg'[r]], lost |-> FALSE]
                   ELSE NoSlice
      /\ UNCHANGED <<phase, writing, reading, flushed, rounds, run_start>>
  BY BothReaders DEF MapRead, MayCall
<1>2. IInv
  BY <1>1, RunningIInv
<1>3. IInv' /\ OutletInv'
  BY <1>1, <1>2, ReadMapInv, IInvOutlet
<1>4. /\ UNCHANGED <<data, head, cycle, mapped, writer, nbytes, written>>
      /\ rd_state'[Sink] = rd_state[Sink]
      /\ slice_len'[r] \in 0 .. Capacity /\ slice_beg'[r] \in 0 .. Capacity
  BY <1>1, <1>2, <1>3, ReaderKeepsOthers, BothReaders
  DEF OthersKeep, channelVars, IInv, BaseInv, TypeOK
<1>5. /\ r \in holders' /\ Consumed(r)' \in Int
      /\ phase # "Armed" => run_start <= Consumed(r)'
      /\ slice_len'[r] > 0 => Consumed(r)' + 1 <= written
      /\ phase = "Armed" => slice_len'[r] = 0
  <2>1. /\ holders' = holders \cup {r}
        /\ Consumed(r)' \in Int
        /\ \/ /\ r \in holders => Consumed(r)' = Consumed(r)
              /\ r \notin holders => Consumed(r)' \in 0 .. written
              /\ slice_len'[r] <= written - Consumed(r)'
           \/ r \in holders /\ Consumed(r)' = written /\ slice_len'[r] = 0
    BY <1>1, <1>2, ReadMapHandsOut
  <2>2. r \in holders => Consumed(r) <= written /\ Consumed(r) \in Int
    BY <1>2, UnreadIsNat DEF Consumed
  <2>3. /\ r \notin holders => run_start = 0
        /\ r \in holders /\ phase # "Armed" => run_start <= Consumed(r)
        /\ r \in holders /\ phase = "Armed" => Consumed(r) = written
        /\ r \notin holders /\ phase = "Armed" => written = 0
    BY <1>1, ArmedConsumed DEF MonitorIInv, RunInv
  <2>4. run_start \in Nat /\ written \in Nat
    BY TypeFacts DEF MonitorIInv, MonitorTypeOK
  <2>. QED
    BY <1>4, <2>1, <2>2, <2>3, <2>4
<1>6. BoundInv' /\ ThreadsInv'
  BY <1>1, <1>4 DEF MonitorIInv, BoundInv, ThreadsInv
<1>7. RunInv'
  <2>1. phase = "Armed" => rd_state'[r] = "Unmapped" /\ AtHead(r)'
    <3>1. SliceOf(r)' /\ rd_state' \in [Readers -> ChannelState]
      BY <1>1, <1>3 DEF IInv, BaseInv, TypeOK, SliceInv
    <3>2. ASSUME slice_len'[r] = 0, rd_state'[r] # "Unmapped" PROVE FALSE
      BY <1>1, <1>3, <3>1, <3>2 DEF SliceOf, IInv, BaseInv, TypeOK
    <3>. QED
      BY <1>1, <1>2, <1>5, <3>2, MapReaches
  <2>. QED
    BY <1>1, <1>5, <2>1 DEF RunInv
<1>8. FlushInv'
  BY <1>1 DEF MonitorIInv, FlushInv
<1>9. CASE client' = NoSlice
  BY <1>1, <1>3, <1>6, <1>7, <1>8, <1>9 DEF MonitorIInv, MonitorTypeOK, ClientInv
<1>10. CASE /\ slice_len'[r] > 0
            /\ client' = [beg |-> slice_beg'[r], len |-> slice_len'[r],
                          first |-> data[slice_beg'[r]], lost |-> FALSE]
  <2>1. rd_state'[r] = "Mapped"
    BY <1>1, <1>3, <1>10 DEF IInv, BaseInv, TypeOK, SliceInv, SliceOf, ChannelState
  <2>2. data[slice_beg'[r]] = Consumed(r)' + 1
    <3>1. SliceIntegrity'
      BY <1>3, SliceIntegrityNext
    <3>2. data'[slice_beg'[r] + 0] = Consumed(r)' + 0 + 1
      BY <1>1, <1>4, <1>10, <2>1, <3>1 DEF SliceIntegrity
    <3>. QED
      BY <1>4, <1>5, <3>2
  <2>3. phase # "Armed" /\ run_start < Consumed(r)' + 1 /\ Consumed(r)' + 1 <= written
        /\ run_start \in Nat
    BY <1>5, <1>10 DEF MonitorIInv, MonitorTypeOK
  <2>4. client' \in [beg : 0 .. Capacity, len : 0 .. Capacity,
                     first : 0 .. MaxWritten, lost : BOOLEAN]
    BY <1>4, <1>5, <1>10, <2>2, <2>3, TypeFacts
  <2>5. MonitorTypeOK'
    BY <1>1, <2>4 DEF MonitorIInv, MonitorTypeOK
  <2>6. ClientInv'
    BY <1>1, <1>10, <2>1, <2>2, <2>3 DEF ClientInv
  <2>. QED
    BY <1>3, <1>6, <1>7, <1>8, <2>5, <2>6 DEF MonitorIInv
<1>. QED
  BY <1>1, <1>9, <1>10

\* Unmapping with the client's reader never takes it back.
LEMMA UnmapMonitor ==
  ASSUME MonitorIInv, IInv, NEW k \in Nat, ReadUnmap(Monitor, k)
  PROVE  /\ IInv' /\ OutletInv' /\ BoundInv'
         /\ Monitor \in holders /\ Monitor \in holders'
         /\ rd_state'[Monitor] = "Unmapped" /\ rd_state'[Sink] = rd_state[Sink]
         /\ Consumed(Monitor) <= Consumed(Monitor)'
         /\ Consumed(Monitor) \in Int /\ Consumed(Monitor)' \in Int
         /\ UNCHANGED <<head, cycle, writer, rd_pos, rd_cycle>>
<1>1. /\ rd_state[Monitor] = "Mapped" /\ Monitor \in Readers
      /\ UNCHANGED <<head, cycle, mapped, holders, rd_pos, rd_cycle, writer, nbytes,
                     written>>
      /\ rd_state' = [rd_state EXCEPT ![Monitor] = "Unmapped"]
  BY BothReaders DEF ReadUnmap, channelVars
<1>2. IInv' /\ OutletInv'
  BY <1>1, ReadUnmapInv, IInvOutlet
<1>3. Monitor \in holders /\ Consumed(Monitor) \in Int
  BY <1>1, UnreadIsNat DEF IInv, SliceInv, SliceOf, Consumed
<1>4. /\ Consumed(Monitor)' = Consumed(Monitor) + IF k < slice_len[Monitor] THEN k
                                                   ELSE slice_len[Monitor]
      /\ slice_len[Monitor] \in Nat
  BY <1>1, UnmapConsumes, CapacityAssumption
<1>5. rd_state'[Monitor] = "Unmapped" /\ rd_state'[Sink] = rd_state[Sink]
  BY <1>1, BothReaders, TypeFacts DEF TypeOK
<1>6. BoundInv'
  BY <1>1 DEF MonitorIInv, BoundInv
<1>. QED
  BY <1>1, <1>2, <1>3, <1>4, <1>5, <1>6

LEMMA UnmapReadMonitor ==
  ASSUME MonitorIInv, NEW k \in Amounts, UnmapRead(k)
  PROVE  MonitorIInv'
<1>1. /\ phase \in {"Armed", "Running", "Aborting", "Joining"} /\ client' = NoSlice
      /\ UNCHANGED <<phase, writing, reading, flushed, rounds, run_start>>
      /\ ReadUnmap(Monitor, k) \/ UNCHANGED vars
  BY DEF UnmapRead, MayCall
<1>2. IInv /\ k \in Nat
  BY <1>1, RunningIInv, AmountsAssumption
<1>3. MonitorTypeOK'
  <2>1. NoSlice \in [beg : 0 .. Capacity, len : 0 .. Capacity,
                     first : 0 .. MaxWritten, lost : BOOLEAN]
    BY CapacityAssumption, BoundAssumption DEF NoSlice
  <2>. QED
    BY <1>1, <2>1 DEF MonitorIInv, MonitorTypeOK
<1>4. ClientInv' /\ FlushInv'
  BY <1>1 DEF MonitorIInv, ClientInv, FlushInv
<1>5. CASE ReadUnmap(Monitor, k)
  <2>1. phase # "Armed"
    BY <1>5 DEF ReadUnmap, MonitorIInv, RunInv
  <2>2. ThreadsInv' /\ RunInv'
    <3>1. run_start \in Nat
      BY DEF MonitorIInv, MonitorTypeOK
    <3>. QED
      BY <1>1, <1>2, <1>5, <2>1, <3>1, UnmapMonitor DEF MonitorIInv, ThreadsInv, RunInv
  <2>. QED
    BY <1>2, <1>3, <1>4, <1>5, <2>2, UnmapMonitor DEF MonitorIInv
<1>6. CASE UNCHANGED vars
  <2>1. OutletInv' /\ BoundInv'
    BY <1>2, <1>6, QueueStands, IInvOutlet
  <2>2. ThreadsInv' /\ RunInv'
    BY <1>1, <1>6, QueueStands DEF MonitorIInv, ThreadsInv, RunInv, AtHead
  <2>. QED
    BY <1>3, <1>4, <2>1, <2>2 DEF MonitorIInv
<1>. QED
  BY <1>1, <1>5, <1>6

LEMMA FlushMapMonitor == MonitorIInv /\ FlushMap => MonitorIInv'
<1> SUFFICES ASSUME MonitorIInv, FlushMap PROVE MonitorIInv'
  OBVIOUS
<1>. DEFINE r == Monitor
<1>1. /\ phase = "Mapping" /\ phase' = "Unmapping" /\ ReadMap(r) /\ r \in Readers
      /\ flushed' = slice_len'[r]
      /\ rounds' = CountRound
      /\ client' = [client EXCEPT !.lost = client # NoSlice]
      /\ UNCHANGED <<writing, reading, run_start>>
      /\ ~writing /\ ~reading
  BY BothReaders DEF FlushMap, ClientLosesSlice, MonitorIInv, ThreadsInv
<1>2. IInv
  BY <1>1, RunningIInv
<1>3. /\ UNCHANGED <<head, cycle, mapped, writer, nbytes, written>>
      /\ rd_state'[Sink] = rd_state[Sink] /\ SliceOf(Sink)' /\ r \in holders'
  <2>1. SliceOf(Sink) /\ BaseInv
    BY TypeFacts DEF MonitorIInv, OutletInv
  <2>. QED
    BY <1>1, <2>1, ReaderKeepsOthers, OtherReaderStands, BothReaders DEF channelVars
<1>4. /\ rounds \in 0 .. 2 /\ rounds' = rounds + 1
  BY <1>1 DEF MonitorIInv, MonitorTypeOK, FlushInv, CountRound, MaxRounds
<1>5. /\ OutletInv'
      /\ slice_len'[r] = 0 => AtHead(r)'
      /\ slice_len'[r] # 0 =>
           /\ rd_cycle'[r] = cycle' /\ rounds <= 1
           /\ rd_pos'[r] = head' \/ (rounds = 0 /\ rd_pos'[r] = 0)
  <2>1. CASE rd_state[r] = "Unmapped"
    <3>1. OutletInv'
      BY <1>1, <1>2, <2>1, ReadMapInv, IInvOutlet
    <3>2. /\ slice_len'[r] = 0 => AtHead(r)'
          /\ slice_len'[r] # 0 =>
               /\ rd_cycle'[r] = cycle' /\ ~CaughtUp(r)
               /\ rd_pos'[r] = head' \/ (rd_pos'[r] = 0 /\ Cyc(r) # cycle)
      BY <1>1, <1>2, <2>1, MapReaches
    <3>3. /\ rounds >= 1 => Cyc(r) = cycle
          /\ rounds = 2 => CaughtUp(r)
      BY <1>1 DEF MonitorIInv, FlushInv, AtHead, CaughtUp, Pos, Cyc
    <3>. QED
      BY <1>4, <3>1, <3>2, <3>3
  <2>2. CASE rd_state[r] = "Mapped"
    <3>1. /\ BaseInv' /\ AtHead(r)'
          /\ rd_state'[r] = "Mapped" /\ slice_len'[r] = 0
          /\ \/ (Available(r) > 0)'
             \/ (rd_pos[r] = head /\ rd_cycle[r] = cycle)'
      BY <1>1, <1>2, <2>2, MisuseReaches
    <3>2. OutletInv'
      BY <1>1, <1>3, <3>1 DEF OutletInv, Misused
    <3>. QED
      BY <3>1, <3>2
  <2>. QED
    BY <1>1, <2>1, <2>2, TypeFacts DEF TypeOK, ChannelState
<1>6. client' \in [beg : 0 .. Capacity, len : 0 .. Capacity, first : 0 .. MaxWritten,
                   lost : BOOLEAN]
  BY <1>1 DEF MonitorIInv, MonitorTypeOK
<1>7. MonitorTypeOK'
  <2>1. slice_len'[r] \in 0 .. Capacity
    BY <1>1, <1>5 DEF OutletInv, BaseInv, TypeOK
  <2>. QED
    BY <1>1, <1>4, <1>6, <2>1 DEF MonitorIInv, MonitorTypeOK, Phase, MaxRounds
<1>8. BoundInv' /\ ThreadsInv' /\ RunInv'
  BY <1>1, <1>3 DEF MonitorIInv, BoundInv, ThreadsInv, RunInv
<1>9. ClientInv'
  <2>1. client' = NoSlice \/ client'.lost
    <3>1. CASE client = NoSlice
      BY <1>1, <3>1 DEF NoSlice
    <3>2. CASE client # NoSlice
      BY <1>1, <3>2 DEF MonitorIInv, MonitorTypeOK
    <3>. QED
      BY <3>1, <3>2
  <2>. QED
    BY <2>1 DEF ClientInv
<1>10. FlushInv'
  BY <1>1, <1>4, <1>5 DEF FlushInv
<1>. QED
  BY <1>5, <1>7, <1>8, <1>9, <1>10 DEF MonitorIInv

LEMMA FlushUnmapMonitor == MonitorIInv /\ FlushUnmap => MonitorIInv'
<1> SUFFICES ASSUME MonitorIInv, FlushUnmap PROVE MonitorIInv'
  OBVIOUS
<1>. DEFINE r == Monitor
<1>1. /\ phase = "Unmapping" /\ r \in Readers
      /\ IF rd_state[r] = "Mapped" THEN ReadUnmap(r, flushed) ELSE UNCHANGED vars
      /\ phase' = IF flushed = 0 THEN "Armed" ELSE "Mapping"
      /\ UNCHANGED <<writing, reading, client, flushed, rounds, run_start>>
      /\ ~writing /\ ~reading
      /\ flushed = slice_len[r]
      /\ flushed = 0 => AtHead(r)
      /\ flushed # 0 => /\ rounds <= 2 /\ rd_cycle[r] = cycle
                        /\ rd_pos[r] = head \/ (rounds = 1 /\ rd_pos[r] = 0)
      /\ rounds \in 1 .. 3
  BY BothReaders DEF FlushUnmap, MonitorIInv, FlushInv, ThreadsInv, MonitorTypeOK
<1>2. ClientInv'
  BY <1>1 DEF MonitorIInv, ClientInv
<1>3. MonitorTypeOK'
  BY <1>1 DEF MonitorIInv, MonitorTypeOK, Phase
<1>4. ASSUME /\ OutletInv' /\ BoundInv' /\ rd_state'[r] = "Unmapped"
             /\ r \in holders' /\ UNCHANGED writer /\ rd_state'[Sink] = rd_state[Sink]
             /\ IF flushed = 0 THEN AtHead(r)'
                ELSE /\ hold_cycle'[r] = cycle'
                     /\ rd_pos[r] = head => AtHead(r)'
      PROVE  MonitorIInv'
  <2>1. ThreadsInv' /\ RunInv'
    BY <1>1, <1>4 DEF MonitorIInv, ThreadsInv, RunInv
  <2>2. FlushInv'
    BY <1>1, <1>4 DEF FlushInv
  <2>. QED
    BY <1>2, <1>3, <1>4, <2>1, <2>2 DEF MonitorIInv
<1>5. CASE rd_state[r] # "Mapped"
  <2>1. IInv /\ flushed = 0 /\ rd_state[r] = "Unmapped"
    <3>1. ~Misused /\ rd_state[r] = "Unmapped"
      BY <1>1, <1>5, TypeFacts DEF Misused, TypeOK, ChannelState
    <3>2. IInv
      BY <3>1, OutletIInv DEF MonitorIInv
    <3>. QED
      BY <1>1, <3>1, <3>2 DEF IInv, SliceInv, SliceOf
  <2>2. /\ OutletInv' /\ BoundInv' /\ AtHead(r)'
        /\ UNCHANGED <<writer, rd_state>>
    BY <1>1, <1>5, <2>1, QueueStands, IInvOutlet DEF AtHead
  <2>. QED
    BY <1>4, <2>1, <2>2 DEF AtHead
<1>6. CASE rd_state[r] = "Mapped" /\ flushed # 0
  <2>1. IInv
    BY <1>1, <1>6, OutletIInv DEF MonitorIInv, Misused
  <2>2. flushed \in Nat
    BY DEF MonitorIInv, MonitorTypeOK
  <2>3. ReadUnmap(r, slice_len[r])
    BY <1>1, <1>6
  <2>4. /\ hold_pos'[r] = rd_pos[r] /\ hold_cycle'[r] = cycle' /\ UNCHANGED head
    BY <1>1, <1>6, <2>1, <2>3, UnmapReaches
  <2>5. /\ OutletInv' /\ BoundInv' /\ r \in holders'
        /\ rd_state'[r] = "Unmapped" /\ rd_state'[Sink] = rd_state[Sink]
        /\ UNCHANGED writer
    BY <1>1, <2>1, <2>2, <2>3, UnmapMonitor
  <2>. QED
    BY <1>4, <1>6, <2>4, <2>5 DEF AtHead
<1>7. CASE rd_state[r] = "Mapped" /\ flushed = 0
  <2>1. ReadUnmap(r, 0) /\ Misused /\ AtHead(r) /\ BaseInv /\ SliceOf(Sink)
    BY <1>1, <1>7, TypeFacts DEF Misused, MonitorIInv, OutletInv
  <2>2. /\ BaseInv' /\ AtHead(r)' /\ SliceOf(r)' /\ rd_state'[r] = "Unmapped"
    BY <1>1, <2>1, MisuseEnds DEF MonitorIInv, OutletInv
  <2>3. /\ SliceOf(Sink)' /\ rd_state'[Sink] = rd_state[Sink]
        /\ UNCHANGED <<head, mapped, writer, nbytes, written>>
    <3>1. r \in holders /\ \E k \in Nat : ReadUnmap(r, k)
      BY <2>1 DEF AtHead
    <3>. QED
      BY <1>1, <2>1, <3>1, ReaderKeepsOthers, OtherReaderStands, BothReaders
      DEF channelVars
  <2>4. OutletInv' /\ BoundInv'
    BY <2>2, <2>3 DEF OutletInv, Misused, MonitorIInv, BoundInv
  <2>. QED
    BY <1>4, <1>7, <2>2, <2>3, <2>4 DEF AtHead
<1>. QED
  BY <1>5, <1>6, <1>7

-------------------------------------------------------------------------------
(* The theorems.                                                           *)

LEMMA MonitorNextIInv == MonitorIInv /\ [MonitorNext]_allVars => MonitorIInv'
<1> SUFFICES ASSUME MonitorIInv, [MonitorNext]_allVars PROVE MonitorIInv'
  OBVIOUS
<1>1. CASE Threads
  BY <1>1, WriteMonitor, ExitsMonitor, SinkReadsMonitor, SinkFailsMonitor,
     NotifyMonitor DEF Threads
<1>2. CASE Client
  BY <1>2, StartRunMonitor, MapReadMonitor, StopMonitor, JoinedMonitor,
     FlushMapMonitor, FlushUnmapMonitor, UnmapReadMonitor DEF Client
<1>3. CASE UNCHANGED allVars
  BY <1>3, ExitsMonitor
<1>. QED
  BY <1>1, <1>2, <1>3 DEF MonitorNext

\* Through any number of acquisitions, with the client reading in a thread of
\* its own and stopping when it likes, the outlet's invariant holds.
THEOREM MonitorInvariance == MonitorSpec => []MonitorIInv
  BY MonitorInitIInv, MonitorNextIInv, PTL DEF MonitorSpec

\* The outlet's own variables keep their types: acquire_stop's flush maps no
\* more often than the model counts.
THEOREM MonitorTypeCorrect == MonitorSpec => []MonitorTypeOK
<1>1. MonitorIInv => MonitorTypeOK
  BY DEF MonitorIInv
<1>. QED
  BY <1>1, MonitorInvariance, PTL

\* However the client left its region, acquire_stop returns with the monitor
\* unmapped and with nothing left to read.
THEOREM FlushEmpties == MonitorSpec => []FlushEmptiesMonitor
<1>1. MonitorIInv => FlushEmptiesMonitor
  BY TypeFacts DEF MonitorIInv, RunInv, AtHead, FlushEmptiesMonitor, Unread
<1>. QED
  BY <1>1, MonitorInvariance, PTL

\* acquire_map_read never hands out bytes of an earlier acquisition.
THEOREM ClientSeesThisRun == MonitorSpec => []ClientSeesOnlyThisRun
<1>1. MonitorIInv => ClientSeesOnlyThisRun
  BY DEF MonitorIInv, ClientInv, MonitorTypeOK, ClientSeesOnlyThisRun
<1>. QED
  BY <1>1, MonitorInvariance, PTL

\* acquire_stop's flush loop ends after three iterations at the latest.
THEOREM FlushIsBounded == MonitorSpec => []FlushIsShort
<1>1. MonitorIInv => FlushIsShort
  BY DEF MonitorIInv, FlushInv, FlushIsShort
<1>. QED
  BY <1>1, MonitorInvariance, PTL

LEMMA IInvClientSliceStaysValid == MonitorIInv => ClientSliceStaysValid
<1> SUFFICES ASSUME MonitorIInv, ~client.lost, NEW i \in 0 .. client.len - 1
             PROVE  data[client.beg + i] = client.first + i
  BY DEF ClientSliceStaysValid
<1>1. CASE client = NoSlice
  BY <1>1 DEF NoSlice
<1>2. CASE client # NoSlice
  <2>1. /\ rd_state[Monitor] = "Mapped" /\ phase # "Unmapping"
        /\ client.beg = slice_beg[Monitor] /\ client.len = slice_len[Monitor]
        /\ client.first = Consumed(Monitor) + 1
    BY <1>2 DEF MonitorIInv, ClientInv
  <2>2. SliceIntegrity /\ IInv
    BY <2>1, RunningIInv, IInvSliceIntegrity
  <2>3. data[slice_beg[Monitor] + i] = Consumed(Monitor) + i + 1
    BY <2>1, <2>2, BothReaders DEF SliceIntegrity
  <2>4. Consumed(Monitor) \in Int
    BY <2>1, <2>2, BothReaders, UnreadIsNat DEF IInv, SliceInv, SliceOf, Consumed
  <2>. QED
    BY <2>1, <2>3, <2>4
<1>. QED
  BY <1>1, <1>2

\* The interval acquire_map_read returned holds its bytes until it is unmapped
\* or flushed, whatever the writer, the sink and acquire_stop do meanwhile.
THEOREM ClientSliceStays == MonitorSpec => []ClientSliceStaysValid
  BY IInvClientSliceStaysValid, MonitorInvariance, PTL

===============================================================================
