----------------------------- MODULE ChannelProofs -----------------------------
(***************************************************************************)
(* The channel's safety, for every capacity, set of readers and set of     *)
(* lengths.  IInv of Channel.tla is inductive; the invariants that the     *)
(* model checker runs on small channels follow from it.                    *)
(***************************************************************************)
EXTENDS Channel, TLAPS

USE DEF Cells, ChannelState, ChannelStatus, WriterState

LEMMA InitIInv == Init => IInv
<1> SUFFICES ASSUME Init PROVE IInv
  OBVIOUS
<1>1. TypeOK
  BY CapacityAssumption DEF Init, TypeOK
<1>2. HoldsInv /\ RegionInv /\ FilledData /\ SliceInv
  BY DEF Init, HoldsInv, RegionInv, FilledData, SliceInv, SliceOf
<1>3. head <= written /\ LapData /\ OldLapData
  BY DEF Init, LapData, OldLapData, Lagging
<1>. QED
  BY <1>1, <1>2, <1>3 DEF IInv, BaseInv

\* The reader next_write looks at: if it lags, the writer is behind it; if not,
\* nobody lags, and it is the last in the writer's lap.
LEMMA LastReader ==
  ASSUME TypeOK, HoldsInv, NEW t \in ReaderMin
  PROVE  /\ t \in holders
         /\ Behind(t) =>
              /\ Lagging(t) /\ hold_pos[t] <= high
              /\ \A q \in holders : Lagging(q) => hold_pos[t] <= hold_pos[q]
         /\ ~Behind(t) /\ ~Full(t) =>
              \A q \in holders :
                /\ hold_cycle[q] = cycle
                /\ hold_pos[t] <= hold_pos[q] /\ hold_pos[q] <= head
<1>1. t \in holders /\ t \in Readers
  BY DEF ReaderMin, TypeOK
<1>2. ASSUME Behind(t)
      PROVE  Lagging(t) /\ hold_pos[t] <= high /\ hold_cycle[t] + 1 = cycle
  BY <1>1, <1>2 DEF Behind, Lagging, HoldsInv, TypeOK
<1>3. ASSUME Behind(t), NEW q \in holders, Lagging(q)
      PROVE  hold_pos[t] <= hold_pos[q]
  BY <1>1, <1>2, <1>3, SMTT(30)
  DEF ReaderMin, CursorLeq, Lagging, HoldsInv, TypeOK
<1>4. ASSUME ~Behind(t), ~Full(t)
      PROVE  hold_cycle[t] = cycle
  BY <1>1, <1>4 DEF Behind, Full, HoldsInv, TypeOK
<1>5. ASSUME ~Behind(t), ~Full(t), NEW q \in holders
      PROVE  /\ hold_cycle[q] = cycle
             /\ hold_pos[t] <= hold_pos[q] /\ hold_pos[q] <= head
  BY <1>1, <1>4, <1>5, SMTT(30) DEF ReaderMin, CursorLeq, HoldsInv, TypeOK
<1>. QED
  BY <1>1, <1>2, <1>3, <1>5

\* What the steps of channel_write_map leave alone.
MapFrame ==
  UNCHANGED <<data, is_accepting_writes, readerVars, notifying, written>>

\* A region after the head, with nobody behind it in the lap before or room
\* up to the one that is.
LEMMA ReserveAheadInv ==
  ASSUME IInv, NEW n \in Nat, MapFrame, UNCHANGED holdVars, Reserve(head, n),
         head + n <= Capacity,
         \A q \in Readers : Lagging(q) => head + n <= hold_pos[q]
  PROVE  IInv'
<1>. USE DEF MapFrame, holdVars, readerVars, markVars, sliceVars
<1>1. /\ mapped' = head + n /\ writer' = "Reserved" /\ nbytes' = 0
      /\ UNCHANGED <<head, high, cycle>>
  BY DEF Reserve
<1>2. TypeOK'
  BY <1>1 DEF IInv, BaseInv, TypeOK
<1>3. HoldsInv'
  BY <1>1 DEF IInv, BaseInv, HoldsInv
<1>4. RegionInv'
  BY <1>1 DEF IInv, BaseInv, RegionInv, Lagging, TypeOK
<1>5. (head <= written)' /\ LapData' /\ OldLapData' /\ FilledData'
  BY <1>1 DEF IInv, BaseInv, LapData, OldLapData, FilledData, Lagging
<1>6. SliceInv'
  BY <1>1 DEF IInv, SliceInv, SliceOf, Lagging
<1>. QED
  BY <1>2, <1>3, <1>4, <1>5, <1>6 DEF IInv, BaseInv

\* A new lap that everybody enters later: the old one is all in reach, from
\* each hold to the old head.
LEMMA ReserveAtStartInv ==
  ASSUME IInv, NEW n \in Nat, MapFrame, UNCHANGED holdVars,
         high' = head, head' = 0, cycle' = cycle + 1, mapped' = n,
         writer' = "Reserved", nbytes' = 0, n <= Capacity,
         \A q \in holders : hold_cycle[q] = cycle /\ n <= hold_pos[q]
  PROVE  IInv'
<1>. USE DEF MapFrame, holdVars, readerVars, markVars, sliceVars
<1>1. TypeOK'
  BY CapacityAssumption DEF IInv, BaseInv, TypeOK
<1>2. HoldsInv'
  BY DEF IInv, BaseInv, HoldsInv, TypeOK
<1>3. RegionInv'
  BY DEF IInv, BaseInv, RegionInv, Lagging, TypeOK
<1>4. (head <= written)' /\ LapData' /\ FilledData'
  BY DEF IInv, BaseInv, LapData, FilledData, TypeOK
<1>5. OldLapData'
  <2> SUFFICES ASSUME NEW r \in Readers, Lagging(r)',
                      NEW i \in hold_pos[r] .. head - 1
               PROVE  data[i] = written - (head - i) + 1
    BY DEF OldLapData, IInv, BaseInv, TypeOK
  <2>1. i \in 0 .. head - 1
    BY DEF IInv, BaseInv, TypeOK
  <2>. QED
    BY <2>1 DEF IInv, BaseInv, LapData, TypeOK
<1>6. SliceInv'
  <2> SUFFICES ASSUME NEW r \in Readers, rd_state[r] # "Unmapped"
               PROVE  /\ r \in holders /\ slice_beg[r] = hold_pos[r]
                      /\ hold_pos[r] < rd_pos[r] /\ rd_cycle[r] = hold_cycle[r]
                      /\ rd_pos[r] <= head
                      /\ slice_len[r] = rd_pos[r] - hold_pos[r]
                      /\ Lagging(r)'
    BY DEF IInv, SliceInv, SliceOf
  <2>1. r \in holders /\ ~Lagging(r)
    BY DEF IInv, SliceInv, SliceOf, Lagging
  <2>. QED
    BY <2>1 DEF IInv, BaseInv, SliceInv, SliceOf, Lagging, TypeOK
<1>. QED
  BY <1>1, <1>2, <1>3, <1>4, <1>5, <1>6 DEF IInv, BaseInv

\* A new lap that everybody enters with the writer: nobody has anything left,
\* so nobody is mapped.
LEMMA ReserveByWrappingInv ==
  ASSUME IInv, NEW n \in Nat, MapFrame, UNCHANGED holders,
         high' = head, head' = 0, cycle' = cycle + 1, mapped' = n,
         writer' = "Reserved", nbytes' = 0, n <= Capacity,
         \A q \in holders : hold_cycle[q] = cycle /\ hold_pos[q] = head,
         RewindHolds
  PROVE  IInv'
<1>. USE DEF MapFrame, readerVars, markVars, sliceVars
<1>1. TypeOK'
  BY CapacityAssumption DEF IInv, BaseInv, TypeOK, RewindHolds
<1>2. \A q \in Readers :
        q \in holders => hold_pos'[q] = 0 /\ hold_cycle'[q] = cycle'
  BY DEF RewindHolds
<1>3. HoldsInv' /\ RegionInv'
  <2>1. holders' \subseteq Readers
    BY DEF IInv, BaseInv, TypeOK
  <2>2. HoldsInv'
    BY <1>2, <2>1 DEF HoldsInv
  <2>3. RegionInv'
    BY <1>2 DEF RegionInv, Lagging
  <2>. QED
    BY <2>2, <2>3
<1>4. (head <= written)' /\ LapData' /\ FilledData'
  <2>1. head' = 0 /\ written' \in Nat /\ writer' = "Reserved"
    BY DEF IInv, BaseInv, TypeOK
  <2>2. LapData'
    BY <2>1 DEF LapData
  <2>. QED
    BY <2>1, <2>2 DEF FilledData
<1>5. OldLapData'
  <2>1. \A q \in Readers : ~Lagging(q)'
    BY <1>2 DEF Lagging
  <2>. QED
    BY <2>1 DEF OldLapData
<1>6. \A r \in Readers : rd_state[r] = "Unmapped"
  BY DEF IInv, BaseInv, SliceInv, SliceOf, Lagging, TypeOK
<1>7. SliceInv'
  BY <1>6 DEF IInv, SliceInv, SliceOf
<1>. QED
  BY <1>1, <1>3, <1>4, <1>5, <1>7 DEF IInv, BaseInv

LEMMA MapUnheldInv ==
  ASSUME IInv, NEW n \in Nat, n < Capacity, MapFrame, MapUnheld(n)
  PROVE  IInv'
<1>1. CASE head + n >= Capacity
  <2>1. /\ high' = head /\ head' = 0 /\ cycle' = cycle + 1 /\ mapped' = n
        /\ writer' = "Reserved" /\ nbytes' = 0
        /\ UNCHANGED holdVars /\ holders = {}
    BY <1>1 DEF MapUnheld
  <2>2. n <= Capacity /\ \A q \in holders : hold_cycle[q] = cycle /\ n <= hold_pos[q]
    BY <2>1, CapacityAssumption
  <2>. QED
    BY <2>1, <2>2, ReserveAtStartInv
<1>2. CASE ~(head + n >= Capacity)
  <2>1. Reserve(head, n) /\ UNCHANGED holdVars /\ holders = {}
    BY <1>2 DEF MapUnheld
  <2>2. head + n <= Capacity /\ \A q \in Readers : ~Lagging(q)
    BY <1>2, <2>1, CapacityAssumption DEF IInv, BaseInv, TypeOK, Lagging
  <2>. QED
    BY <2>1, <2>2, ReserveAheadInv
<1>. QED
  BY <1>1, <1>2

LEMMA MapHeldInv ==
  ASSUME IInv, NEW n \in Nat, MapFrame, MapHeld(n)
  PROVE  IInv'
<1>. PICK t \in ReaderMin :
       /\ \/ /\ FitsBelow(t, n) \/ FitsAhead(t, n)
             /\ Reserve(head, n) /\ UNCHANGED <<hold_pos, hold_cycle>>
          \/ /\ FitsAtStart(t, n)
             /\ Reserve(0, n) /\ UNCHANGED <<hold_pos, hold_cycle>>
          \/ /\ FitsByWrapping(t, n)
             /\ Reserve(0, n) /\ RewindHolds
       /\ UNCHANGED holders
  BY DEF MapHeld
<1>1. TypeOK /\ HoldsInv
  BY DEF IInv, BaseInv
<1>2. t \in Readers /\ hold_pos[t] \in Nat /\ head \in Nat /\ high \in 0 .. Capacity
  BY <1>1, LastReader DEF TypeOK
<1>3. CASE FitsBelow(t, n) /\ Reserve(head, n) /\ UNCHANGED <<hold_pos, hold_cycle>>
  <2>1. head + n <= hold_pos[t] /\ hold_pos[t] <= high /\ Behind(t)
    BY <1>1, <1>2, <1>3, LastReader DEF FitsBelow
  <2>. \A q \in Readers : hold_pos[q] \in Nat
    BY <1>1 DEF TypeOK
  <2>2. ASSUME NEW q \in Readers, Lagging(q) PROVE head + n <= hold_pos[q]
    <3>1. hold_pos[t] <= hold_pos[q]
      BY <1>1, <2>1, <2>2, LastReader DEF Lagging
    <3>. QED
      BY <1>2, <2>1, <3>1
  <2>3. head + n <= Capacity
    BY <1>2, <2>1, CapacityAssumption
  <2>. QED
    BY <1>3, <2>2, <2>3, ReserveAheadInv DEF holdVars
<1>4. CASE FitsAhead(t, n) /\ Reserve(head, n) /\ UNCHANGED <<hold_pos, hold_cycle>>
  <2>1. \A q \in Readers : ~Lagging(q)
    BY <1>1, <1>4, LastReader DEF FitsAhead, Lagging
  <2>2. head + n <= Capacity
    BY <1>2, <1>4, CapacityAssumption DEF FitsAhead
  <2>. QED
    BY <1>4, <2>1, <2>2, ReserveAheadInv DEF holdVars
<1>5. CASE FitsAtStart(t, n) /\ Reserve(0, n) /\ UNCHANGED <<hold_pos, hold_cycle>>
  <2>1. \A q \in holders : hold_cycle[q] = cycle /\ hold_pos[t] <= hold_pos[q]
    BY <1>1, <1>5, LastReader DEF FitsAtStart
  <2>2. head # 0 /\ n <= hold_pos[t] /\ n <= Capacity
    BY <1>1, <1>2, <1>5, CapacityAssumption DEF FitsAtStart, TypeOK
  <2>3. \A q \in holders : hold_cycle[q] = cycle /\ n <= hold_pos[q]
    BY <1>1, <1>2, <2>1, <2>2, SMTT(30) DEF TypeOK
  <2>4. /\ high' = head /\ head' = 0 /\ cycle' = cycle + 1 /\ mapped' = n
        /\ writer' = "Reserved" /\ nbytes' = 0
    BY <1>5, <2>2 DEF Reserve
  <2>. QED
    BY <1>5, <2>2, <2>3, <2>4, ReserveAtStartInv DEF holdVars
<1>6. CASE FitsByWrapping(t, n) /\ Reserve(0, n) /\ RewindHolds
  <2>1. head # 0 /\ hold_pos[t] = head /\ n <= Capacity
    BY <1>2, <1>6, CapacityAssumption DEF FitsByWrapping
  <2>2. \A q \in holders : /\ hold_cycle[q] = cycle
                           /\ hold_pos[t] <= hold_pos[q] /\ hold_pos[q] <= head
    BY <1>1, <1>6, LastReader DEF FitsByWrapping
  <2>3. \A q \in holders : hold_cycle[q] = cycle /\ hold_pos[q] = head
    BY <1>1, <2>1, <2>2 DEF TypeOK
  <2>4. /\ high' = head /\ head' = 0 /\ cycle' = cycle + 1 /\ mapped' = n
        /\ writer' = "Reserved" /\ nbytes' = 0
    BY <1>6, <2>1 DEF Reserve
  <2>. QED
    BY <1>6, <2>1, <2>3, <2>4, ReserveByWrappingInv
<1>. QED
  BY <1>3, <1>4, <1>5, <1>6

\* A step that only moves the writer between states in which it has no region.
LEMMA WriterOnlyBase ==
  ASSUME BaseInv, UNCHANGED <<data, channelVars, is_accepting_writes, holdVars,
                              readerVars, written>>,
         writer' \in WriterState, nbytes' \in Nat,
         notifying' \in SUBSET (Readers \cup {Controller}),
         writer' \in {"Reserved", "Filled"} => writer' = writer
  PROVE  BaseInv'
<1>. USE DEF channelVars, holdVars, readerVars, markVars, sliceVars
<1>1. TypeOK' /\ HoldsInv'
  BY DEF BaseInv, TypeOK, HoldsInv
<1>2. RegionInv' /\ (head <= written)'
  BY DEF BaseInv, RegionInv, Lagging
<1>3. LapData' /\ OldLapData' /\ FilledData'
  BY DEF BaseInv, LapData, OldLapData, FilledData, Lagging
<1>. QED
  BY <1>1, <1>2, <1>3 DEF BaseInv

LEMMA SlicesStand ==
  ASSUME UNCHANGED <<channelVars, holdVars, readerVars>>, NEW r \in Readers, SliceOf(r)
  PROVE  SliceOf(r)'
  BY DEF SliceOf, Lagging, channelVars, holdVars, readerVars, markVars, sliceVars

LEMMA WriterOnlyInv ==
  ASSUME IInv, UNCHANGED <<data, channelVars, is_accepting_writes, holdVars,
                           readerVars, written>>,
         writer' \in WriterState, nbytes' \in Nat,
         notifying' \in SUBSET (Readers \cup {Controller}),
         writer' \in {"Reserved", "Filled"} => writer' = writer
  PROVE  IInv'
  BY WriterOnlyBase, SlicesStand DEF IInv, SliceInv

LEMMA MapLoopInv ==
  ASSUME IInv, NEW n \in Nat, MapFrame, MapLoop(n)
  PROVE  IInv'
<1>1. CASE MapHeld(n)
  BY <1>1, MapHeldInv
<1>2. CASE MapRefused
  BY <1>2, WriterOnlyInv DEF MapRefused, MapFrame, IInv, BaseInv, TypeOK
<1>3. CASE MapBlocked(n)
  BY <1>3, WriterOnlyInv DEF MapBlocked, MapFrame, IInv, BaseInv, TypeOK
<1>. QED
  BY <1>1, <1>2, <1>3 DEF MapLoop

LEMMA WriteMapInv ==
  ASSUME IInv, NEW n \in Sizes, WriteMap(n)
  PROVE  IInv'
<1>1. n \in Nat /\ n < Capacity /\ MapFrame
  BY SizesAssumption DEF WriteMap, MapFrame
<1>. QED
  BY <1>1, MapUnheldInv, MapLoopInv DEF WriteMap

LEMMA WriteRetryInv == IInv /\ WriteRetry => IInv'
  BY MapLoopInv DEF WriteRetry, MapFrame, IInv, BaseInv, TypeOK

LEMMA SleepInv == IInv /\ (Park \/ SpuriousWake) => IInv'
  BY WriterOnlyInv DEF Park, SpuriousWake, IInv, BaseInv, TypeOK

LEMMA WriteDataInv == IInv /\ WriteData => IInv'
<1> SUFFICES ASSUME IInv, WriteData PROVE IInv'
  OBVIOUS
<1>. USE DEF channelVars, holdVars, readerVars, markVars, sliceVars
<1>1. /\ writer = "Reserved" /\ writer' = "Filled"
      /\ data' = [i \in Cells |-> IF head <= i /\ i < mapped
                                  THEN written + 1 + (i - head)
                                  ELSE data[i]]
      /\ UNCHANGED <<channelVars, is_accepting_writes, holdVars, readerVars,
                     nbytes, notifying, written>>
  BY DEF WriteData
<1>2. /\ head \in 0 .. Capacity /\ high \in 0 .. Capacity
      /\ mapped \in 0 .. Capacity /\ written \in Nat /\ Capacity \in Nat
      /\ hold_pos \in [Readers -> 0 .. Capacity]
      /\ head <= mapped
  BY <1>1, CapacityAssumption DEF IInv, BaseInv, TypeOK, RegionInv
<1>3. TypeOK'
  <2>1. data' \in [Cells -> Nat]
    BY <1>1, <1>2 DEF IInv, BaseInv, TypeOK
  <2>. QED
    BY <1>1, <2>1 DEF IInv, BaseInv, TypeOK
<1>4. HoldsInv' /\ RegionInv' /\ (head <= written)'
  BY <1>1 DEF IInv, BaseInv, HoldsInv, RegionInv, Lagging
<1>5. LapData'
  BY <1>1, <1>2 DEF IInv, BaseInv, LapData
<1>6. OldLapData'
  <2> SUFFICES ASSUME NEW r \in Readers, Lagging(r),
                      NEW i \in hold_pos[r] .. high - 1
               PROVE  data'[i] = (written - head) - (high - i) + 1
    BY <1>1 DEF OldLapData, Lagging
  <2>1. mapped <= hold_pos[r]
    BY <1>1 DEF IInv, BaseInv, RegionInv
  <2>2. i \in Cells /\ ~(i < mapped)
    BY <1>2, <2>1
  <2>3. data'[i] = data[i]
    BY <1>1, <2>2
  <2>. QED
    BY <2>3 DEF IInv, BaseInv, OldLapData
<1>7. FilledData'
  BY <1>1, <1>2 DEF FilledData
<1>8. SliceInv'
  BY <1>1 DEF IInv, SliceInv, SliceOf, Lagging
<1>. QED
  BY <1>3, <1>4, <1>5, <1>6, <1>7, <1>8 DEF IInv, BaseInv

LEMMA WriteUnmapInv == IInv /\ WriteUnmap => IInv'
<1> SUFFICES ASSUME IInv, WriteUnmap PROVE IInv'
  OBVIOUS
<1>. USE DEF holdVars, readerVars, markVars, sliceVars
<1>1. CASE ~is_accepting_writes
  BY <1>1, WriterOnlyInv DEF WriteUnmap, channelVars, IInv, BaseInv, TypeOK
<1>2. CASE is_accepting_writes
  <2>1. /\ writer = "Filled" /\ writer' = "Idle"
        /\ head' = mapped /\ written' = written + (mapped - head)
        /\ UNCHANGED <<data, high, cycle, mapped, is_accepting_writes, holdVars,
                       readerVars, nbytes, notifying>>
    BY <1>2 DEF WriteUnmap
  <2>2. /\ head \in Nat /\ mapped \in Nat /\ written \in Nat /\ high \in Nat
        /\ head <= mapped /\ head <= written
    BY <2>1 DEF IInv, BaseInv, TypeOK, RegionInv
  <2>3. TypeOK' /\ (head <= written)'
    BY <2>1, <2>2 DEF IInv, BaseInv, TypeOK
  <2>4. written' - head' = written - head
    BY <2>1, <2>2
  <2>5. HoldsInv'
    <3> SUFFICES ASSUME NEW r \in holders
                 PROVE  \/ hold_cycle[r] = cycle /\ hold_pos[r] <= mapped
                        \/ /\ hold_cycle[r] + 1 = cycle
                           /\ mapped <= hold_pos[r] /\ hold_pos[r] <= high
      BY <2>1 DEF IInv, BaseInv, HoldsInv
    <3>. r \in Readers
      BY DEF IInv, BaseInv, TypeOK
    <3>. QED
      BY <2>1, <2>2 DEF IInv, BaseInv, HoldsInv, RegionInv, Lagging, TypeOK
  <2>6. RegionInv' /\ FilledData'
    BY <2>1 DEF RegionInv, FilledData
  <2>7. LapData'
    <3> SUFFICES ASSUME NEW i \in 0 .. mapped - 1
                 PROVE  data[i] = (written - head) + i + 1
      BY <2>1, <2>4 DEF LapData
    <3>1. CASE i < head
      BY <2>2, <3>1 DEF IInv, BaseInv, LapData
    <3>2. CASE head <= i
      BY <1>2, <2>1, <2>2, <3>2 DEF IInv, BaseInv, FilledData
    <3>. QED
      BY <2>2, <3>1, <3>2
  <2>8. OldLapData'
    BY <2>1, <2>4 DEF IInv, BaseInv, OldLapData, Lagging
  <2>9. SliceInv'
    <3> SUFFICES ASSUME NEW r \in Readers, rd_state[r] # "Unmapped", ~Lagging(r)
                 PROVE  /\ rd_pos[r] <= head => rd_pos[r] <= mapped
      BY <2>1 DEF IInv, SliceInv, SliceOf, Lagging
    <3>. QED
      BY <2>2 DEF IInv, BaseInv, TypeOK
  <2>. QED
    BY <2>3, <2>5, <2>6, <2>7, <2>8, <2>9 DEF IInv, BaseInv
<1>. QED
  BY <1>1, <1>2

LEMMA WriteAbortInv == IInv /\ WriteAbort => IInv'
<1> SUFFICES ASSUME IInv, WriteAbort PROVE IInv'
  OBVIOUS
<1>. USE DEF holdVars, readerVars, markVars, sliceVars
<1>1. /\ writer = "Reserved" /\ writer' \in {"Filled", "Idle"}
      /\ mapped' = IF is_accepting_writes THEN head ELSE mapped
      /\ UNCHANGED <<data, head, high, cycle, is_accepting_writes, holdVars,
                     readerVars, nbytes, notifying, written>>
  BY DEF WriteAbort
<1>2. TypeOK' /\ HoldsInv'
  BY <1>1 DEF IInv, BaseInv, TypeOK, HoldsInv
<1>3. RegionInv'
  <2> SUFFICES /\ head <= mapped'
               /\ \A r \in Readers : Lagging(r) => mapped' <= hold_pos[r]
    BY <1>1 DEF RegionInv, Lagging
  <2>. QED
    BY <1>1 DEF IInv, BaseInv, RegionInv, HoldsInv, Lagging, TypeOK
<1>4. (head <= written)' /\ LapData' /\ OldLapData'
  BY <1>1 DEF IInv, BaseInv, LapData, OldLapData, Lagging
<1>5. FilledData'
  BY <1>1 DEF IInv, BaseInv, FilledData, TypeOK
<1>6. SliceInv'
  BY <1>1 DEF IInv, SliceInv, SliceOf, Lagging
<1>. QED
  BY <1>2, <1>3, <1>4, <1>5, <1>6 DEF IInv, BaseInv

LEMMA WriteAbandonInv == IInv /\ WriteAbandon => IInv'
  BY WriterOnlyInv DEF WriteAbandon, IInv, BaseInv, TypeOK

LEMMA NotifyBase ==
  ASSUME BaseInv, NEW t, Notify(t)
  PROVE  BaseInv' /\ \A r \in Readers : SliceOf(r) => SliceOf(r)'
<1>1. notifying' \in SUBSET (Readers \cup {Controller})
  BY DEF Notify, BaseInv, TypeOK
<1>2. BaseInv'
  BY <1>1, WriterOnlyBase DEF Notify, BaseInv, TypeOK
<1>. QED
  BY <1>2, SlicesStand DEF Notify

LEMMA NotifyInv ==
  ASSUME IInv, NEW t, Notify(t)
  PROVE  IInv'
  BY NotifyBase DEF IInv, SliceInv

\* Opening the channel is safe because no write is in progress.
LEMMA AcceptWritesInv ==
  ASSUME IInv, NEW tf \in BOOLEAN, AcceptWrites(tf), tf => writer = "Idle"
  PROVE  IInv'
<1>. USE DEF AcceptWrites, channelVars, holdVars, readerVars, markVars, sliceVars
<1>1. TypeOK' /\ HoldsInv'
  BY DEF IInv, BaseInv, TypeOK, HoldsInv
<1>2. RegionInv' /\ (head <= written)' /\ LapData' /\ OldLapData' /\ FilledData'
  BY DEF IInv, BaseInv, RegionInv, LapData, OldLapData, FilledData, Lagging
<1>3. SliceInv'
  BY DEF IInv, SliceInv, SliceOf, Lagging
<1>. QED
  BY <1>1, <1>2, <1>3 DEF IInv, BaseInv

OthersKeep(r) ==
  \A q \in Readers \ {r} :
    /\ hold_pos'[q] = hold_pos[q] /\ hold_cycle'[q] = hold_cycle[q]
    /\ rd_pos'[q] = rd_pos[q] /\ rd_cycle'[q] = rd_cycle[q]
    /\ rd_state'[q] = rd_state[q]
    /\ slice_beg'[q] = slice_beg[q] /\ slice_len'[q] = slice_len[q]

HoldMovesOn(r) ==
  \/ hold_cycle'[r] = cycle /\ hold_pos'[r] <= head
  \/ /\ Lagging(r) /\ hold_cycle'[r] = hold_cycle[r]
     /\ hold_pos[r] <= hold_pos'[r] /\ hold_pos'[r] <= high

LEMMA ReaderTypes ==
  ASSUME TypeOK, NEW r \in Readers,
         UNCHANGED <<data, channelVars, is_accepting_writes, writer, nbytes,
                     written>>,
         holders' = holders \cup {r},
         notifying' \in SUBSET (Readers \cup {Controller}),
         hold_pos' \in [Readers -> 0 .. Capacity],
         hold_cycle' \in [Readers -> Nat],
         rd_pos' \in [Readers -> 0 .. Capacity],
         rd_cycle' \in [Readers -> Nat],
         rd_state' \in [Readers -> ChannelState],
         rd_status' \in [Readers -> ChannelStatus],
         slice_beg' \in [Readers -> 0 .. Capacity],
         slice_len' \in [Readers -> 0 .. Capacity]
  PROVE  TypeOK'
  BY DEF TypeOK, channelVars

\* A step of one reader that moves its hold forward: into the writer's lap,
\* or further along the lap before, if that is where it was.
LEMMA ReaderStepBase ==
  ASSUME BaseInv, NEW r \in Readers,
         UNCHANGED <<data, channelVars, is_accepting_writes, writer, nbytes,
                     written>>,
         TypeOK', holders' = holders \cup {r}, OthersKeep(r), HoldMovesOn(r)
  PROVE  BaseInv'
<1>. USE DEF channelVars, OthersKeep, HoldMovesOn
<1>1. \A q \in Readers \ {r} :
        /\ hold_pos'[q] = hold_pos[q] /\ hold_cycle'[q] = hold_cycle[q]
        /\ q \in holders' <=> q \in holders
        /\ Lagging(q)' <=> Lagging(q)
  BY DEF Lagging
<1>2. HoldsInv'
  <2> SUFFICES ASSUME NEW q \in holders'
               PROVE  \/ hold_cycle'[q] = cycle /\ hold_pos'[q] <= head
                      \/ /\ hold_cycle'[q] + 1 = cycle
                         /\ head <= hold_pos'[q] /\ hold_pos'[q] <= high
    BY DEF HoldsInv
  <2>. q \in Readers
    BY DEF BaseInv, TypeOK
  <2>1. CASE q = r
    <3>1. Lagging(r) => /\ hold_cycle[r] + 1 = cycle
                        /\ head <= hold_pos[r] /\ hold_pos[r] <= high
      BY DEF BaseInv, HoldsInv, Lagging
    <3>2. /\ hold_pos[r] \in Nat /\ hold_pos'[r] \in Nat
          /\ head \in Nat /\ high \in Nat
      BY DEF BaseInv, TypeOK
    <3>. QED
      BY <2>1, <3>1, <3>2
  <2>2. CASE q # r
    BY <1>1, <2>2 DEF BaseInv, HoldsInv
  <2>. QED
    BY <2>1, <2>2
<1>3. ASSUME Lagging(r)'
      PROVE  Lagging(r) /\ hold_pos[r] <= hold_pos'[r]
  BY <1>3 DEF Lagging
<1>4. RegionInv'
  <2> SUFFICES ASSUME writer \in {"Reserved", "Filled"}, NEW q \in Readers, Lagging(q)'
               PROVE  mapped <= hold_pos'[q]
    BY DEF BaseInv, RegionInv
  <2>1. mapped \in Nat /\ hold_pos[q] \in Nat /\ hold_pos'[q] \in Nat
    BY DEF BaseInv, TypeOK
  <2>. QED
    BY <1>1, <1>3, <2>1 DEF BaseInv, RegionInv
<1>5. (head <= written)' /\ LapData' /\ FilledData'
  BY DEF BaseInv, LapData, FilledData
<1>6. OldLapData'
  <2> SUFFICES ASSUME NEW q \in Readers, Lagging(q)', NEW i \in hold_pos'[q] .. high - 1
               PROVE  data[i] = (written - head) - (high - i) + 1
    BY DEF OldLapData
  <2>1. hold_pos[q] \in Nat /\ hold_pos'[q] \in Nat /\ high \in Nat
    BY DEF BaseInv, TypeOK
  <2>2. Lagging(q) /\ hold_pos[q] <= hold_pos'[q]
    BY <1>1, <1>3, <2>1
  <2>3. i \in hold_pos[q] .. high - 1
    BY <2>1, <2>2
  <2>. QED
    BY <2>2, <2>3 DEF BaseInv, OldLapData
<1>. QED
  BY <1>2, <1>4, <1>5, <1>6 DEF BaseInv

\* The slices of the others stand.
LEMMA OthersSlicesStand ==
  ASSUME NEW r \in Readers, UNCHANGED channelVars,
         holders' = holders \cup {r}, OthersKeep(r),
         NEW q \in Readers, q # r, SliceOf(q)
  PROVE  SliceOf(q)'
  BY DEF SliceOf, Lagging, OthersKeep, channelVars

LEMMA ReaderStepInv ==
  ASSUME IInv, NEW r \in Readers,
         UNCHANGED <<data, channelVars, is_accepting_writes, writer, nbytes,
                     written>>,
         TypeOK', holders' = holders \cup {r}, OthersKeep(r), HoldMovesOn(r),
         SliceOf(r)'
  PROVE  IInv'
  BY ReaderStepBase, OthersSlicesStand DEF IInv, SliceInv

\* Where a reader that maps stands, registered or not: channel_read_map never
\* takes its Overflow branch.
LEMMA ReaderStands ==
  ASSUME IInv, NEW r \in Readers
  PROVE  /\ Pos(r) \in 0 .. Capacity /\ Cyc(r) \in Nat
         /\ \/ Cyc(r) = cycle /\ Pos(r) <= head
            \/ /\ Lagging(r) /\ Cyc(r) = hold_cycle[r] /\ Cyc(r) + 1 = cycle
               /\ Pos(r) = hold_pos[r] /\ head <= Pos(r) /\ Pos(r) <= high
  BY CapacityAssumption DEF IInv, BaseInv, TypeOK, HoldsInv, Lagging, Pos, Cyc

LEMMA ReadMapInv ==
  ASSUME IInv, NEW r \in Readers, rd_state[r] = "Unmapped", ReadMap(r)
  PROVE  IInv'
<1>. USE DEF channelVars, markVars
<1>1. /\ holders' = holders \cup {r}
      /\ ReadNothing(r) \/ ReadHandOut(r) \/ ReadAdvance(r)
      /\ UNCHANGED <<data, channelVars, is_accepting_writes, writer, nbytes,
                     notifying, written>>
  BY DEF ReadMap
<1>2. /\ Pos(r) \in 0 .. Capacity /\ Cyc(r) \in Nat
      /\ head \in 0 .. Capacity /\ high \in 0 .. Capacity /\ cycle \in Nat
      /\ Capacity \in Nat
  BY ReaderStands, CapacityAssumption DEF IInv, BaseInv, TypeOK, HoldsInv
<1>3. \/ Cyc(r) = cycle /\ Pos(r) <= head
      \/ /\ Lagging(r) /\ Cyc(r) = hold_cycle[r] /\ Cyc(r) + 1 = cycle
         /\ Pos(r) = hold_pos[r] /\ head <= Pos(r) /\ Pos(r) <= high
  BY ReaderStands
<1>4. CASE ReadNothing(r)
  <2>1. SetHold(r, Pos(r), Cyc(r)) /\ SetSlice(r, Pos(r), 0) /\ UNCHANGED markVars
    BY <1>4 DEF ReadNothing
  <2>2. TypeOK'
    <3>1. /\ hold_pos' \in [Readers -> 0 .. Capacity]
          /\ hold_cycle' \in [Readers -> Nat]
      BY <1>2, <2>1 DEF IInv, BaseInv, TypeOK, SetHold
    <3>2. /\ slice_beg' \in [Readers -> 0 .. Capacity]
          /\ slice_len' \in [Readers -> 0 .. Capacity]
      BY <1>2, <2>1 DEF IInv, BaseInv, TypeOK, SetSlice
    <3>. QED
      BY <1>1, <2>1, <3>1, <3>2, ReaderTypes DEF IInv, BaseInv, TypeOK
  <2>3. SliceOf(r)'
    BY <2>1 DEF SliceOf, SetSlice, IInv, BaseInv, TypeOK
  <2>4. HoldMovesOn(r)
    BY <1>2, <1>3, <2>1 DEF HoldMovesOn, SetHold, IInv, BaseInv, TypeOK
  <2>5. OthersKeep(r)
    BY <1>2, <2>1 DEF SetHold, SetSlice, OthersKeep, IInv, BaseInv, TypeOK
  <2>. QED
    BY <1>1, <2>1, <2>2, <2>3, <2>4, <2>5, ReaderStepInv
<1>5. CASE ReadHandOut(r) /\ SameLap(r)
  <2>1. /\ SetHold(r, Pos(r), Cyc(r)) /\ SetMarks(r, head, cycle)
        /\ SetSlice(r, Pos(r), head - Pos(r))
        /\ rd_state' = [rd_state EXCEPT ![r] = "Mapped"] /\ UNCHANGED rd_status
        /\ Cyc(r) = cycle /\ Pos(r) < head
    BY <1>2, <1>5 DEF ReadHandOut, SameLap, PrevLap
  <2>2. TypeOK'
    <3>1. /\ hold_pos' \in [Readers -> 0 .. Capacity]
          /\ hold_cycle' \in [Readers -> Nat]
      BY <1>2, <2>1 DEF IInv, BaseInv, TypeOK, SetHold
    <3>2. /\ rd_pos' \in [Readers -> 0 .. Capacity]
          /\ rd_cycle' \in [Readers -> Nat]
      BY <1>2, <2>1 DEF IInv, BaseInv, TypeOK, SetMarks
    <3>3. /\ slice_beg' \in [Readers -> 0 .. Capacity]
          /\ slice_len' \in [Readers -> 0 .. Capacity]
      BY <1>2, <2>1, SMTT(30) DEF IInv, BaseInv, TypeOK, SetSlice
    <3>4. /\ rd_state' \in [Readers -> ChannelState]
          /\ rd_status' \in [Readers -> ChannelStatus]
      BY <1>2, <2>1 DEF IInv, BaseInv, TypeOK
    <3>. QED
      BY <1>1, <3>1, <3>2, <3>3, <3>4, ReaderTypes DEF IInv, BaseInv, TypeOK
  <2>3. SliceOf(r)'
    BY <1>1, <1>2, <2>1
    DEF SliceOf, SetHold, SetMarks, SetSlice, IInv, BaseInv, TypeOK, Lagging
  <2>4. HoldMovesOn(r)
    BY <1>2, <2>1 DEF HoldMovesOn, SetHold, IInv, BaseInv, TypeOK
  <2>5. OthersKeep(r)
    BY <1>2, <2>1
    DEF SetHold, SetMarks, SetSlice, OthersKeep, IInv, BaseInv, TypeOK
  <2>. QED
    BY <1>1, <2>1, <2>2, <2>3, <2>4, <2>5, ReaderStepInv
<1>6. CASE ReadHandOut(r) /\ ~SameLap(r)
  <2>1. /\ SetHold(r, Pos(r), Cyc(r)) /\ SetMarks(r, 0, Cyc(r) + 1)
        /\ SetSlice(r, Pos(r), Minus(high, Pos(r)))
        /\ rd_state' = [rd_state EXCEPT ![r] = "Mapped"] /\ UNCHANGED rd_status
        /\ PrevLap(r) /\ Pos(r) # high
    BY <1>6 DEF ReadHandOut
  <2>2. /\ Lagging(r) /\ Cyc(r) = hold_cycle[r] /\ Cyc(r) + 1 = cycle
        /\ Pos(r) = hold_pos[r] /\ Pos(r) < high
    BY <1>2, <1>3, <2>1 DEF PrevLap
  <2>3. Minus(high, Pos(r)) = high - Pos(r) /\ high - Pos(r) \in 0 .. Capacity
    BY <1>2, <2>2 DEF Minus
  <2>4. TypeOK'
    <3>1. /\ hold_pos' \in [Readers -> 0 .. Capacity]
          /\ hold_cycle' \in [Readers -> Nat]
      BY <1>2, <2>1, <2>2, <2>3 DEF IInv, BaseInv, TypeOK, SetHold
    <3>2. /\ rd_pos' \in [Readers -> 0 .. Capacity]
          /\ rd_cycle' \in [Readers -> Nat]
      BY <1>2, <2>1, <2>2, <2>3, SMTT(30) DEF IInv, BaseInv, TypeOK, SetMarks
    <3>3. /\ slice_beg' \in [Readers -> 0 .. Capacity]
          /\ slice_len' \in [Readers -> 0 .. Capacity]
      BY <1>2, <2>1, <2>2, <2>3 DEF IInv, BaseInv, TypeOK, SetSlice
    <3>4. /\ rd_state' \in [Readers -> ChannelState]
          /\ rd_status' \in [Readers -> ChannelStatus]
      BY <1>2, <2>1, <2>2, <2>3 DEF IInv, BaseInv, TypeOK
    <3>. QED
      BY <1>1, <3>1, <3>2, <3>3, <3>4, ReaderTypes DEF IInv, BaseInv, TypeOK
  <2>5. SliceOf(r)'
    BY <1>1, <1>2, <2>1, <2>2, <2>3
    DEF SliceOf, SetHold, SetMarks, SetSlice, IInv, BaseInv, TypeOK, Lagging
  <2>6. HoldMovesOn(r)
    BY <1>2, <2>1, <2>2 DEF HoldMovesOn, SetHold, IInv, BaseInv, TypeOK
  <2>7. OthersKeep(r)
    BY <1>2, <2>1
    DEF SetHold, SetMarks, SetSlice, OthersKeep, IInv, BaseInv, TypeOK
  <2>. QED
    BY <1>1, <2>1, <2>4, <2>5, <2>6, <2>7, ReaderStepInv
<1>7. CASE ReadAdvance(r)
  <2>1. PrevLap(r) /\ Pos(r) = high
    BY <1>2, <1>3, <1>7 DEF ReadAdvance, CaughtUp, SameLap, PrevLap
  <2>2. /\ rd_status' = [rd_status EXCEPT ![r] = @] /\ UNCHANGED rd_state
        /\ SetMarks(r, 0, Cyc(r) + 1) /\ SetHold(r, head, cycle) /\ SetSlice(r, 0, 0)
    BY <1>7, <2>1 DEF ReadAdvance
  <2>3. TypeOK'
    <3>1. /\ hold_pos' \in [Readers -> 0 .. Capacity]
          /\ hold_cycle' \in [Readers -> Nat]
      BY <1>2, <2>2 DEF IInv, BaseInv, TypeOK, SetHold
    <3>2. /\ rd_pos' \in [Readers -> 0 .. Capacity]
          /\ rd_cycle' \in [Readers -> Nat]
      BY <1>2, <2>2 DEF IInv, BaseInv, TypeOK, SetMarks
    <3>3. /\ slice_beg' \in [Readers -> 0 .. Capacity]
          /\ slice_len' \in [Readers -> 0 .. Capacity]
      BY <1>2, <2>2 DEF IInv, BaseInv, TypeOK, SetSlice
    <3>4. /\ rd_state' \in [Readers -> ChannelState]
          /\ rd_status' \in [Readers -> ChannelStatus]
      BY <1>2, <2>2 DEF IInv, BaseInv, TypeOK
    <3>. QED
      BY <1>1, <3>1, <3>2, <3>3, <3>4, ReaderTypes DEF IInv, BaseInv, TypeOK
  <2>4. SliceOf(r)'
    BY <2>2 DEF SliceOf, SetSlice, IInv, BaseInv, TypeOK
  <2>5. rd_status' = rd_status
    BY <2>2 DEF IInv, BaseInv, TypeOK
  <2>6. HoldMovesOn(r)
    BY <1>2, <2>2 DEF HoldMovesOn, SetHold, IInv, BaseInv, TypeOK
  <2>7. OthersKeep(r)
    BY <1>2, <2>2, <2>5
    DEF SetHold, SetMarks, SetSlice, OthersKeep, IInv, BaseInv, TypeOK
  <2>. QED
    BY <1>1, <2>2, <2>3, <2>4, <2>6, <2>7, ReaderStepInv
<1>. QED
  BY <1>1, <1>4, <1>5, <1>6, <1>7

\* What get_available_byte_count works out is the length that was handed out.
LEMMA AvailableIsSlice ==
  ASSUME IInv, NEW r \in Readers, rd_state[r] # "Unmapped"
  PROVE  Available(r) = slice_len[r] /\ slice_len[r] \in Nat
<1>1. /\ hold_pos[r] \in Nat /\ rd_pos[r] \in Nat /\ high \in Nat
      /\ hold_cycle[r] \in Nat /\ cycle \in Nat
  BY DEF IInv, BaseInv, TypeOK
<1>2. SliceOf(r)
  BY DEF IInv, SliceInv, SliceOf
<1>3. CASE hold_pos[r] < rd_pos[r] /\ slice_len[r] = rd_pos[r] - hold_pos[r]
  BY <1>1, <1>3 DEF Available, Minus
<1>4. CASE /\ Lagging(r) /\ rd_pos[r] = 0 /\ rd_cycle[r] = cycle
           /\ hold_pos[r] < high /\ slice_len[r] = high - hold_pos[r]
  BY <1>1, <1>4 DEF Available, Minus, Lagging
<1>. QED
  BY <1>2, <1>3, <1>4 DEF SliceOf

\* channel_read_unmap's cursor arithmetic, from any hold a mapped reader may
\* have: the new hold is in reach, whatever is said to be consumed.
LEMMA HoldAfterMovesOn ==
  ASSUME IInv, NEW r \in Readers, NEW k \in Nat, rd_state[r] # "Unmapped"
  PROVE  /\ HoldAfter(r, k)[1] \in 0 .. Capacity
         /\ HoldAfter(r, k)[2] \in Nat
         /\ \/ HoldAfter(r, k)[2] = cycle /\ HoldAfter(r, k)[1] <= head
            \/ /\ Lagging(r) /\ HoldAfter(r, k)[2] = hold_cycle[r]
               /\ hold_pos[r] <= HoldAfter(r, k)[1] /\ HoldAfter(r, k)[1] <= high
<1>1. /\ hold_pos[r] \in 0 .. Capacity /\ rd_pos[r] \in 0 .. Capacity
      /\ head \in 0 .. Capacity /\ high \in 0 .. Capacity /\ Capacity \in Nat
      /\ hold_cycle[r] \in Nat /\ cycle \in Nat /\ rd_cycle[r] \in Nat
  BY CapacityAssumption DEF IInv, BaseInv, TypeOK
<1>2. SliceOf(r) /\ r \in holders
  BY DEF IInv, SliceInv, SliceOf
<1>3. \/ ~Lagging(r) /\ hold_cycle[r] = cycle /\ hold_pos[r] <= head
      \/ /\ Lagging(r) /\ hold_cycle[r] + 1 = cycle
         /\ head <= hold_pos[r] /\ hold_pos[r] <= high
  BY <1>1, <1>2 DEF IInv, BaseInv, HoldsInv, Lagging
<1>4. Available(r) = slice_len[r] /\ slice_len[r] \in Nat
  BY AvailableIsSlice
<1>5. CASE ~(k >= slice_len[r])
  <2>1. /\ hold_pos[r] + k < IF Lagging(r) THEN high ELSE head
    BY <1>1, <1>2, <1>5 DEF SliceOf
  <2>2. HoldAfter(r, k) = <<hold_pos[r] + k, hold_cycle[r]>>
    BY <1>1, <1>3, <1>4, <1>5, <2>1 DEF HoldAfter
  <2>. QED
    BY <1>1, <1>3, <2>1, <2>2
<1>6. CASE k >= slice_len[r] /\ rd_pos[r] = 0
  <2>1. Lagging(r) /\ rd_cycle[r] = cycle
    BY <1>1, <1>2, <1>6 DEF SliceOf
  <2>2. HoldAfter(r, k) = <<0, cycle>>
    BY <1>1, <1>4, <1>6, <2>1 DEF HoldAfter
  <2>. QED
    BY <1>1, <2>2
<1>7. CASE k >= slice_len[r] /\ rd_pos[r] # 0
  <2>1. /\ hold_pos[r] < rd_pos[r] /\ rd_cycle[r] = hold_cycle[r]
        /\ rd_pos[r] <= IF Lagging(r) THEN high ELSE head
    BY <1>1, <1>2, <1>7 DEF SliceOf
  <2>2. HoldAfter(r, k) = IF head < rd_pos[r] /\ rd_pos[r] = high
                          THEN <<0, hold_cycle[r] + 1>>
                          ELSE <<rd_pos[r], hold_cycle[r]>>
    BY <1>4, <1>7, <2>1 DEF HoldAfter
  <2>3. CASE head < rd_pos[r] /\ rd_pos[r] = high
    BY <1>1, <1>3, <2>1, <2>2, <2>3
  <2>4. CASE ~(head < rd_pos[r] /\ rd_pos[r] = high)
    BY <1>1, <1>3, <2>1, <2>2, <2>4
  <2>. QED
    BY <2>3, <2>4
<1>. QED
  BY <1>5, <1>6, <1>7

LEMMA ReadUnmapInv ==
  ASSUME IInv, NEW r \in Readers, NEW k \in Nat, ReadUnmap(r, k)
  PROVE  IInv'
<1>1. /\ rd_state[r] = "Mapped"
      /\ SetHold(r, HoldAfter(r, k)[1], HoldAfter(r, k)[2])
      /\ rd_state' = [rd_state EXCEPT ![r] = "Unmapped"]
      /\ SetSlice(r, 0, 0)
      /\ notifying' = notifying \cup {r}
      /\ UNCHANGED <<data, channelVars, is_accepting_writes, holders, rd_pos,
                     rd_cycle, rd_status, writer, nbytes, written>>
  BY DEF ReadUnmap
<1>2. /\ HoldAfter(r, k)[1] \in 0 .. Capacity
      /\ HoldAfter(r, k)[2] \in Nat
      /\ \/ HoldAfter(r, k)[2] = cycle /\ HoldAfter(r, k)[1] <= head
         \/ /\ Lagging(r) /\ HoldAfter(r, k)[2] = hold_cycle[r]
            /\ hold_pos[r] <= HoldAfter(r, k)[1] /\ HoldAfter(r, k)[1] <= high
  BY <1>1, HoldAfterMovesOn
<1>3. holders' = holders \cup {r}
  BY <1>1 DEF IInv, SliceInv, SliceOf
<1>4. TypeOK'
  <2>1. /\ hold_pos' \in [Readers -> 0 .. Capacity]
        /\ hold_cycle' \in [Readers -> Nat]
    BY <1>1, <1>2 DEF IInv, BaseInv, TypeOK, SetHold
  <2>2. /\ slice_beg' \in [Readers -> 0 .. Capacity]
        /\ slice_len' \in [Readers -> 0 .. Capacity]
    BY <1>1, CapacityAssumption DEF IInv, BaseInv, TypeOK, SetSlice
  <2>3. rd_state' \in [Readers -> ChannelState]
    BY <1>1 DEF IInv, BaseInv, TypeOK
  <2>4. notifying' \in SUBSET (Readers \cup {Controller})
    BY <1>1 DEF IInv, BaseInv, TypeOK
  <2>. QED
    BY <1>1, <1>3, <2>1, <2>2, <2>3, <2>4, ReaderTypes DEF IInv, BaseInv, TypeOK
<1>5. HoldMovesOn(r)
  BY <1>1, <1>2 DEF HoldMovesOn, SetHold, IInv, BaseInv, TypeOK
<1>6. OthersKeep(r)
  BY <1>1 DEF OthersKeep, SetHold, SetSlice, IInv, BaseInv, TypeOK, HoldsInv
<1>7. SliceOf(r)'
  BY <1>1 DEF SliceOf, SetSlice, IInv, BaseInv, TypeOK
<1>. QED
  BY <1>1, <1>3, <1>4, <1>5, <1>6, <1>7, ReaderStepInv

LEMMA WriterInv == IInv /\ Writer => IInv'
  BY WriteMapInv, SleepInv, WriteRetryInv, WriteDataInv, WriteUnmapInv,
     WriteAbortInv, WriteAbandonInv DEF Writer

LEMMA NextIInv == IInv /\ [Next]_vars => IInv'
<1> SUFFICES ASSUME IInv, [Next]_vars PROVE IInv'
  OBVIOUS
<1>1. CASE Writer
  BY <1>1, WriterInv
<1>2. ASSUME NEW r \in Readers, Reader(r) PROVE IInv'
  BY <1>2, ReadMapInv, ReadUnmapInv, NotifyInv, CapacityAssumption DEF Reader
<1>3. CASE Control
  BY <1>3, AcceptWritesInv, NotifyInv DEF Control
<1>4. CASE UNCHANGED vars
  BY <1>4, WriterOnlyInv DEF vars, IInv, BaseInv, TypeOK
<1>. QED
  BY <1>1, <1>2, <1>3, <1>4 DEF Next

\* Whatever the writer, the readers and the controller do, and in whatever
\* order, the invariant of the channel holds.
THEOREM Invariance == Spec => []IInv
  BY InitIInv, NextIInv, PTL DEF Spec

\* Every field of the channel and of its readers stays in its range: no cursor
\* leaves the buffer.
THEOREM TypeCorrect == Spec => []TypeOK
<1>1. IInv => TypeOK
  BY DEF IInv, BaseInv
<1>. QED
  BY <1>1, Invariance, PTL

\* channel_read_map has nothing to report to a reader that is not mapped.
LEMMA NextStatus ==
  ASSUME IInv, [Next]_vars, \A r \in Readers : rd_status[r] = "Ok"
  PROVE  \A r \in Readers : rd_status'[r] = "Ok"
<1>1. ASSUME NEW r \in Readers, rd_state[r] = "Unmapped", ReadMap(r)
      PROVE  \A q \in Readers : rd_status'[q] = "Ok"
  <2>1. rd_status \in [Readers -> ChannelStatus]
    BY DEF IInv, BaseInv, TypeOK
  <2>2. CASE UNCHANGED rd_status
    BY <2>2
  <2>3. CASE ReadAdvance(r)
    <3>1. /\ \/ Cyc(r) = cycle /\ Pos(r) <= head
             \/ Cyc(r) + 1 = cycle /\ head <= Pos(r)
          /\ Pos(r) \in 0 .. Capacity /\ Cyc(r) \in Nat
      BY ReaderStands
    <3>4. head \in 0 .. Capacity /\ cycle \in Nat
      BY DEF IInv, BaseInv, TypeOK
    <3>2. /\ ~CaughtUp(r) /\ ~SameLap(r)
          /\ PrevLap(r) => Pos(r) = high
      BY <1>1, <2>3 DEF ReadAdvance
    <3>3. PrevLap(r)
      BY <3>1, <3>2, <3>4 DEF CaughtUp, SameLap, PrevLap
    <3>. QED
      BY <1>1, <2>1, <2>3, <3>2, <3>3 DEF ReadAdvance
  <2>. QED
    BY <1>1, <2>2, <2>3 DEF ReadMap, ReadNothing, ReadHandOut, markVars
<1>2. CASE Writer \/ Control \/ (\E r \in Readers : Notify(r)) \/ UNCHANGED vars
  <2>1. UNCHANGED rd_status
    BY <1>2 DEF Writer, WriteMap, Park, SpuriousWake, WriteRetry, WriteData,
      WriteUnmap, WriteAbort, WriteAbandon, Control, AcceptWrites, Notify, vars,
      readerVars, markVars
  <2>. QED
    BY <2>1
<1>3. ASSUME NEW r \in Readers, NEW k \in 0 .. Capacity, ReadUnmap(r, k)
      PROVE  UNCHANGED rd_status
  BY <1>3 DEF ReadUnmap
<1>. QED
  BY <1>1, <1>2, <1>3 DEF Next, Reader

\* No reader is lapped, so channel_read_map never reports an overflow.
THEOREM NeverLapped == Spec => []CursorInv
<1>1. Init => CursorInv
  BY InitIInv DEF Init, CursorInv, IInv, BaseInv
<1>2. IInv /\ CursorInv /\ [Next]_vars => CursorInv'
  BY NextIInv, NextStatus DEF CursorInv, IInv, BaseInv
<1>. QED
  BY <1>1, <1>2, Invariance, PTL DEF Spec

LEMMA IInvRegionIsFree == IInv => RegionIsFree
<1> SUFFICES ASSUME IInv, writer \in {"Reserved", "Filled"}, NEW r \in holders,
                    NEW i \in UnreadCells(r), i \in head .. mapped - 1
             PROVE  FALSE
  BY DEF RegionIsFree
<1>1. /\ r \in Readers /\ head \in Nat /\ mapped \in Nat /\ high \in Nat
      /\ hold_pos[r] \in Nat
  BY DEF IInv, BaseInv, TypeOK
<1>2. CASE hold_cycle[r] = cycle
  BY <1>1, <1>2 DEF UnreadCells
<1>3. CASE hold_cycle[r] # cycle
  <2>1. mapped <= hold_pos[r]
    BY <1>1, <1>3 DEF IInv, BaseInv, RegionInv, Lagging
  <2>. QED
    BY <1>1, <1>3, <2>1 DEF UnreadCells
<1>. QED
  BY <1>2, <1>3

LEMMA IInvSliceIntegrity == IInv => SliceIntegrity
<1> SUFFICES ASSUME IInv, NEW r \in Readers, rd_state[r] = "Mapped"
             PROVE  /\ slice_len[r] = Available(r)
                    /\ \A i \in 0 .. slice_len[r] - 1 :
                         data[slice_beg[r] + i] = Consumed(r) + i + 1
  BY DEF SliceIntegrity
<1>1. slice_len[r] = Available(r) /\ slice_len[r] \in Nat
  BY AvailableIsSlice
<1>2. SliceOf(r) /\ r \in holders /\ slice_beg[r] = hold_pos[r]
  BY DEF IInv, SliceInv, SliceOf
<1>3. /\ head \in Nat /\ high \in Nat /\ written \in Nat /\ cycle \in Nat
      /\ hold_pos[r] \in Nat /\ rd_pos[r] \in Nat
  BY DEF IInv, BaseInv, TypeOK
<1>4. SUFFICES ASSUME NEW i \in 0 .. slice_len[r] - 1
               PROVE  data[hold_pos[r] + i] = Consumed(r) + i + 1
  BY <1>1, <1>2
<1>5. CASE hold_cycle[r] = cycle
  <2>1. hold_pos[r] + i \in 0 .. head - 1
    BY <1>1, <1>2, <1>3, <1>5 DEF SliceOf, Lagging
  <2>2. data[hold_pos[r] + i] = (written - head) + (hold_pos[r] + i) + 1
    BY <2>1 DEF IInv, BaseInv, LapData
  <2>. QED
    BY <1>1, <1>2, <1>3, <1>5, <2>2 DEF Consumed, Unread
<1>6. CASE hold_cycle[r] # cycle
  <2>1. Lagging(r)
    BY <1>2, <1>6 DEF Lagging
  <2>2. hold_pos[r] + i \in hold_pos[r] .. high - 1
    BY <1>1, <1>2, <1>3, <2>1 DEF SliceOf
  <2>3. data[hold_pos[r] + i] = (written - head) - (high - (hold_pos[r] + i)) + 1
    BY <2>1, <2>2 DEF IInv, BaseInv, OldLapData
  <2>. QED
    BY <1>1, <1>2, <1>3, <1>6, <2>3 DEF Consumed, Unread
<1>. QED
  BY <1>5, <1>6

\* The region handed to the writer never overlaps bytes that a reader has yet
\* to consume.
THEOREM WriterKeepsClear == Spec => []RegionIsFree
  BY IInvRegionIsFree, Invariance, PTL

\* A mapped slice holds the bytes of the stream that follow those consumed, in
\* order, until it is unmapped.
THEOREM SlicesStayIntact == Spec => []SliceIntegrity
  BY IInvSliceIntegrity, Invariance, PTL

LEMMA IInvBytesWaitingIsUnread == IInv => BytesWaitingIsUnread
<1> SUFFICES ASSUME IInv, NEW r \in holders
             PROVE  BytesWaiting(r) = IF Full(r) THEN 0 ELSE Unread(r)
  BY DEF BytesWaitingIsUnread
<1>1. /\ r \in Readers /\ head \in Nat /\ high \in Nat /\ cycle \in Nat
      /\ hold_pos[r] \in Nat /\ hold_cycle[r] \in Nat
  BY DEF IInv, BaseInv, TypeOK
<1>2. CASE hold_cycle[r] = cycle /\ hold_pos[r] <= head
  BY <1>1, <1>2 DEF BytesWaiting, Minus, Full, Unread
<1>3. CASE /\ cycle = hold_cycle[r] + 1
           /\ head <= hold_pos[r] /\ hold_pos[r] <= high
  BY <1>1, <1>3 DEF BytesWaiting, Minus, Full, Unread
<1>4. \/ hold_cycle[r] = cycle /\ hold_pos[r] <= head
      \/ cycle = hold_cycle[r] + 1 /\ head <= hold_pos[r] /\ hold_pos[r] <= high
  BY <1>1 DEF IInv, BaseInv, HoldsInv
<1>. QED
  BY <1>2, <1>3, <1>4

\* video_sink_bytes_waiting says how much a reader has left to read, whatever
\* the laps, or says 0 if the queue is full.
THEOREM BytesWaitingCounts == Spec => []BytesWaitingIsUnread
  BY IInvBytesWaitingIsUnread, Invariance, PTL

===============================================================================
