--------------------------- MODULE ChannelRefinement ---------------------------
(***************************************************************************)
(* Channel implements ByteStream: under the mapping joined = holders,      *)
(* consumed = written - unread and held = the length of the mapped slice,  *)
(* every step of the channel is one of the byte stream or a stutter.  The  *)
(* action properties of Channel follow the same case distinction.          *)
(***************************************************************************)
EXTENDS ChannelProofs

\* Nothing a user of the byte stream could see has happened.
StreamFrame == UNCHANGED <<written, holders, ConsumedBy, slice_len>>

-------------------------------------------------------------------------------
(* The mapping.                                                            *)

LEMMA UnreadIsNat ==
  ASSUME IInv, NEW r \in holders
  PROVE  /\ Unread(r) \in Nat
         /\ hold_cycle[r] = cycle \/ (hold_cycle[r] + 1 = cycle /\ Lagging(r))
         /\ r \in Readers /\ written \in Nat /\ head \in 0 .. Capacity
         /\ high \in 0 .. Capacity /\ hold_pos[r] \in 0 .. Capacity
         /\ hold_cycle[r] \in Nat /\ cycle \in Nat /\ Capacity \in Nat
<1>1. /\ r \in Readers /\ written \in Nat /\ head \in 0 .. Capacity
      /\ high \in 0 .. Capacity /\ hold_pos[r] \in 0 .. Capacity
      /\ hold_cycle[r] \in Nat /\ cycle \in Nat /\ Capacity \in Nat
  BY CapacityAssumption DEF IInv, BaseInv, TypeOK
<1>2. \/ hold_cycle[r] = cycle /\ hold_pos[r] <= head
      \/ /\ hold_cycle[r] + 1 = cycle
         /\ head <= hold_pos[r] /\ hold_pos[r] <= high
  BY <1>1 DEF IInv, BaseInv, HoldsInv
<1>. QED
  BY <1>1, <1>2 DEF Unread, Lagging

\* A step that moves neither the cursors nor the holds.
LEMMA CursorsStand ==
  ASSUME UNCHANGED <<head, high, cycle, written>>, UNCHANGED holdVars
  PROVE  UNCHANGED <<written, holders, ConsumedBy>>
  BY DEF holdVars, ConsumedBy, Consumed, Unread

\* A reader whose hold stands has consumed what it had.
LEMMA HoldStands ==
  ASSUME NEW q \in Readers, UNCHANGED <<head, high, cycle, written>>,
         hold_pos'[q] = hold_pos[q], hold_cycle'[q] = hold_cycle[q],
         q \in holders' <=> q \in holders
  PROVE  Consumed(q)' = Consumed(q)
  BY DEF Consumed, Unread

-------------------------------------------------------------------------------
(* The writer.                                                             *)

\* Starting a lap hides nothing from a reader and shows it nothing.
LEMMA LapHidesNothing ==
  ASSUME IInv, MapFrame, UNCHANGED holders, head' = 0,
         \/ UNCHANGED <<head, high, cycle>>
         \/ high' = head /\ cycle' = cycle + 1,
         \A q \in holders : hold_cycle[q] = cycle,
         \/ UNCHANGED <<hold_pos, hold_cycle>>
         \/ RewindHolds /\ \A q \in holders : hold_pos[q] = head
  PROVE  StreamFrame
<1>1. ASSUME NEW q \in holders PROVE Unread(q)' = Unread(q)
  <2>1. /\ q \in Readers /\ head \in 0 .. Capacity /\ hold_pos[q] \in 0 .. Capacity
        /\ cycle \in Nat /\ Capacity \in Nat /\ hold_cycle[q] = cycle
        /\ Unread(q) = head - hold_pos[q]
    BY UnreadIsNat DEF Unread
  <2>2. CASE UNCHANGED <<hold_pos, hold_cycle>>
    BY <2>1, <2>2 DEF Unread
  <2>3. CASE RewindHolds /\ hold_pos[q] = head
    <3>1. hold_pos'[q] = 0 /\ hold_cycle'[q] = cycle'
      BY <2>1, <2>3 DEF RewindHolds
    <3>. QED
      BY <2>1, <2>3, <3>1 DEF Unread
  <2>. QED
    BY <2>2, <2>3
<1>2. UNCHANGED <<written, slice_len>>
  BY DEF MapFrame, readerVars, sliceVars
<1>. QED
  BY <1>1, <1>2 DEF StreamFrame, ConsumedBy, Consumed

LEMMA MapUnheldStutters ==
  ASSUME MapFrame, NEW n \in Nat, MapUnheld(n)
  PROVE  StreamFrame
<1>1. holders = {} /\ holders' = {} /\ UNCHANGED <<written, slice_len>>
  BY DEF MapUnheld, MapFrame, holdVars, readerVars, sliceVars
<1>. QED
  BY <1>1 DEF StreamFrame, ConsumedBy, Consumed

LEMMA MapHeldStutters ==
  ASSUME IInv, MapFrame, NEW n \in Nat, MapHeld(n)
  PROVE  StreamFrame
<1>. PICK t \in ReaderMin :
       /\ \/ /\ FitsBelow(t, n) \/ FitsAhead(t, n)
             /\ Reserve(head, n) /\ UNCHANGED <<hold_pos, hold_cycle>>
          \/ /\ FitsAtStart(t, n)
             /\ Reserve(0, n) /\ UNCHANGED <<hold_pos, hold_cycle>>
          \/ /\ FitsByWrapping(t, n)
             /\ Reserve(0, n) /\ RewindHolds
       /\ UNCHANGED holders
  BY DEF MapHeld
<1>1. CASE Reserve(head, n) /\ UNCHANGED <<hold_pos, hold_cycle>>
  <2>1. UNCHANGED <<head, high, cycle, written, slice_len>> /\ UNCHANGED holdVars
    BY <1>1 DEF Reserve, MapFrame, readerVars, sliceVars, holdVars
  <2>. QED
    BY <2>1, CursorsStand DEF StreamFrame
<1>2. ASSUME FitsAtStart(t, n) \/ FitsByWrapping(t, n), Reserve(0, n),
             UNCHANGED <<hold_pos, hold_cycle>> \/ (RewindHolds /\ hold_pos[t] = head)
      PROVE  StreamFrame
  <2>1. /\ \A q \in holders : /\ hold_cycle[q] = cycle
                              /\ hold_pos[t] <= hold_pos[q] /\ hold_pos[q] <= head
    BY <1>2, LastReader DEF IInv, BaseInv, FitsAtStart, FitsByWrapping
  <2>2. /\ head' = 0
        /\ \/ UNCHANGED <<head, high, cycle>>
           \/ high' = head /\ cycle' = cycle + 1
    BY <1>2 DEF Reserve
  <2>3. \A q \in holders : hold_pos[q] \in Nat /\ head \in Nat
    BY UnreadIsNat
  <2>. QED
    BY <1>2, <2>1, <2>2, <2>3, LapHidesNothing
<1>. QED
  BY <1>1, <1>2 DEF FitsByWrapping

\* channel_write_map is no step of the byte stream.
LEMMA MapStutters ==
  ASSUME IInv, MapFrame, NEW n \in Nat, MapUnheld(n) \/ MapLoop(n)
  PROVE  StreamFrame
<1>1. CASE MapRefused \/ MapBlocked(n)
  <2>1. UNCHANGED <<head, high, cycle, written, slice_len>> /\ UNCHANGED holdVars
    BY <1>1
    DEF MapRefused, MapBlocked, MapFrame, channelVars, readerVars, sliceVars
  <2>. QED
    BY <2>1, CursorsStand DEF StreamFrame
<1>. QED
  BY <1>1, MapUnheldStutters, MapHeldStutters DEF MapLoop

\* channel_write_unmap commits what was mapped, which leaves no reader more
\* than Capacity behind.
LEMMA WriteUnmapCommits ==
  ASSUME IInv, WriteUnmap
  PROVE  /\ UNCHANGED <<holders, ConsumedBy, slice_len>>
         /\ written' = written \/ \E n \in 1 .. Capacity : Stream!Commit(n)
<1>1. UNCHANGED <<high, cycle, slice_len, holders, hold_pos, hold_cycle>>
  BY DEF WriteUnmap, holdVars, readerVars, sliceVars
<1>2. /\ head \in 0 .. Capacity /\ mapped \in 0 .. Capacity /\ Capacity \in Nat
      /\ written \in Nat /\ head <= mapped
  BY CapacityAssumption DEF IInv, BaseInv, TypeOK, RegionInv, WriteUnmap
<1>3. CASE UNCHANGED <<head, written>>
  <2>1. UNCHANGED holdVars
    BY <1>1 DEF holdVars
  <2>. QED
    BY <1>1, <1>3, <2>1, CursorsStand
<1>4. CASE head' = mapped /\ written' = written + (mapped - head)
  <2>1. ASSUME NEW r \in holders
        PROVE  /\ Consumed(r)' = Consumed(r)
               /\ written' - Consumed(r) <= Capacity
    <3>1. /\ Unread(r)' = Unread(r) + (mapped - head)
          /\ Unread(r) + (mapped - head) <= Capacity
      <4>1. CASE hold_cycle[r] = cycle
        BY <1>1, <1>2, <1>4, <4>1, UnreadIsNat DEF Unread
      <4>2. CASE Lagging(r)
        <5>1. mapped <= hold_pos[r]
          BY <4>2, UnreadIsNat DEF IInv, BaseInv, RegionInv, WriteUnmap
        <5>. QED
          BY <1>1, <1>2, <1>4, <4>2, <5>1, UnreadIsNat DEF Unread, Lagging
      <4>. QED
        BY <4>1, <4>2, UnreadIsNat
    <3>. QED
      BY <1>1, <1>2, <1>4, <3>1, UnreadIsNat DEF Consumed
  <2>2. UNCHANGED ConsumedBy
    BY <1>1, <2>1 DEF ConsumedBy, Consumed
  <2>3. ASSUME mapped # head PROVE Stream!Commit(mapped - head)
    <3>1. ASSUME NEW r \in holders
          PROVE  written + (mapped - head) - ConsumedBy[r] <= Capacity
      <4>1. ConsumedBy[r] = Consumed(r)
        BY UnreadIsNat DEF ConsumedBy
      <4>2. Consumed(r) \in Int /\ mapped \in Int /\ head \in Int
        BY <1>2, UnreadIsNat DEF Consumed
      <4>. QED
        BY <1>2, <1>4, <2>1, <4>1, <4>2
    <3>. QED
      BY <1>1, <1>4, <2>2, <3>1 DEF Stream!Commit
  <2>. QED
    BY <1>1, <1>2, <1>4, <2>2, <2>3
<1>. QED
  BY <1>3, <1>4 DEF WriteUnmap

LEMMA WriterSteps ==
  ASSUME IInv, Writer
  PROVE  StreamFrame
         \/ ((\E n \in 1 .. Capacity : Stream!Commit(n))
             /\ UNCHANGED <<holders, ConsumedBy, slice_len>>)
<1>1. ASSUME NEW n \in Sizes, WriteMap(n) PROVE StreamFrame
  <2>1. n \in Nat
    BY SizesAssumption
  <2>. QED
    BY <1>1, <2>1, MapStutters DEF WriteMap, MapFrame
<1>2. CASE WriteRetry
  <2>1. nbytes \in Nat
    BY DEF IInv, BaseInv, TypeOK
  <2>. QED
    BY <1>2, <2>1, MapStutters DEF WriteRetry, MapFrame
<1>3. CASE Park \/ SpuriousWake \/ WriteData \/ WriteAbort \/ WriteAbandon
  <2>1. UNCHANGED <<head, high, cycle, written, slice_len>> /\ UNCHANGED holdVars
    BY <1>3
    DEF Park, SpuriousWake, WriteData, WriteAbort, WriteAbandon, channelVars, readerVars, sliceVars
  <2>. QED
    BY <2>1, CursorsStand DEF StreamFrame
<1>. QED
  BY <1>1, <1>2, <1>3, WriteUnmapCommits DEF Writer, StreamFrame

-------------------------------------------------------------------------------
(* The readers.                                                            *)

\* What channel_read_map does to an unmapped reader: it starts where it left
\* off, a new one at the start of the lap, and is handed n of its unread bytes,
\* none only if there are none; or it is moved past the unread ones.
LEMMA ReadMapHandsOut ==
  ASSUME IInv, NEW r \in Readers, rd_state[r] = "Unmapped", ReadMap(r)
  PROVE  /\ holders' = holders \cup {r}
         /\ UNCHANGED written
         /\ slice_len[r] = 0
         /\ \E n \in Nat : slice_len' = [slice_len EXCEPT ![r] = n]
         /\ \A q \in Readers \ {r} : Consumed(q)' = Consumed(q)
         /\ Consumed(r)' \in Int
         /\ \/ /\ r \in holders => Consumed(r)' = Consumed(r)
               /\ r \notin holders => Consumed(r)' \in 0 .. written
               /\ slice_len'[r] <= written - Consumed(r)'
               /\ slice_len'[r] = 0 => Consumed(r)' = written
            \/ /\ r \in holders /\ PrevLap(r) /\ Pos(r) = high
               /\ Consumed(r)' = written /\ slice_len'[r] = 0
<1>1. /\ holders' = holders \cup {r}
      /\ UNCHANGED <<head, high, cycle, written>>
      /\ ReadNothing(r) \/ ReadHandOut(r) \/ ReadAdvance(r)
  BY DEF ReadMap, channelVars
<1>2. /\ slice_len[r] = 0 /\ written \in Nat /\ head \in 0 .. Capacity
      /\ head <= written
      /\ high \in 0 .. Capacity /\ cycle \in Nat /\ Capacity \in Nat
  BY CapacityAssumption DEF IInv, BaseInv, TypeOK, SliceInv, SliceOf
<1>3. /\ hold_pos \in [Readers -> 0 .. Capacity]
      /\ hold_cycle \in [Readers -> Nat]
      /\ slice_len \in [Readers -> 0 .. Capacity]
  BY DEF IInv, BaseInv, TypeOK
<1>4. /\ Pos(r) \in 0 .. Capacity /\ Cyc(r) \in Nat
      /\ \/ Cyc(r) = cycle /\ Pos(r) <= head
         \/ /\ Lagging(r) /\ Cyc(r) = hold_cycle[r] /\ Cyc(r) + 1 = cycle
            /\ Pos(r) = hold_pos[r] /\ head <= Pos(r) /\ Pos(r) <= high
  BY ReaderStands
<1>5. ASSUME NEW pos, NEW cyc, SetHold(r, pos, cyc)
      PROVE  /\ \A q \in Readers \ {r} : Consumed(q)' = Consumed(q)
             /\ Consumed(r)' = written - IF cyc = cycle THEN head - pos
                                         ELSE (high - pos) + head
  <2>1. \A q \in Readers \ {r} :
          hold_pos'[q] = hold_pos[q] /\ hold_cycle'[q] = hold_cycle[q]
    BY <1>3, <1>5 DEF SetHold
  <2>2. hold_pos'[r] = pos /\ hold_cycle'[r] = cyc
    BY <1>3, <1>5 DEF SetHold
  <2>. QED
    BY <1>1, <2>1, <2>2, HoldStands DEF Consumed, Unread
<1>6. r \in holders => Consumed(r) = written - IF Cyc(r) = cycle THEN head - Pos(r)
                                              ELSE (high - Pos(r)) + head
  BY DEF Consumed, Unread, Pos, Cyc
<1>7. r \notin holders => Cyc(r) = cycle /\ Pos(r) = 0
  BY DEF Pos, Cyc
<1>8. ASSUME NEW n \in Nat, SetHold(r, Pos(r), Cyc(r)), slice_len'[r] = n,
             n <= IF Cyc(r) = cycle THEN head - Pos(r) ELSE (high - Pos(r)) + head,
             n = 0 => CaughtUp(r)
      PROVE  /\ r \in holders => Consumed(r)' = Consumed(r)
             /\ r \notin holders => Consumed(r)' \in 0 .. written
             /\ slice_len'[r] <= written - Consumed(r)'
             /\ slice_len'[r] = 0 => Consumed(r)' = written
             /\ Consumed(r)' \in Int
  BY <1>2, <1>4, <1>5, <1>6, <1>7, <1>8 DEF CaughtUp
<1>9. ASSUME NEW beg, NEW n \in Nat, SetSlice(r, beg, n)
      PROVE  /\ \E m \in Nat : slice_len' = [slice_len EXCEPT ![r] = m]
             /\ slice_len'[r] = n
  BY <1>3, <1>9 DEF SetSlice
<1>10. CASE ReadNothing(r)
  <2>1. SetHold(r, Pos(r), Cyc(r)) /\ SetSlice(r, Pos(r), 0) /\ CaughtUp(r)
    BY <1>10 DEF ReadNothing
  <2>2. 0 <= IF Cyc(r) = cycle THEN head - Pos(r) ELSE (high - Pos(r)) + head
    BY <1>2, <1>4
  <2>3. /\ \E m \in Nat : slice_len' = [slice_len EXCEPT ![r] = m]
        /\ slice_len'[r] = 0
    BY <1>9, <2>1
  <2>. QED
    BY <1>1, <1>2, <1>5, <1>8, <2>1, <2>2, <2>3
<1>11. CASE ReadHandOut(r)
  <2>1. SetHold(r, Pos(r), Cyc(r)) /\ ~CaughtUp(r)
    BY <1>11 DEF ReadHandOut
  <2>2. PICK n : /\ SetSlice(r, Pos(r), n)
                 /\ \/ SameLap(r) /\ n = head - Pos(r)
                    \/ PrevLap(r) /\ Pos(r) # high /\ n = Minus(high, Pos(r))
    BY <1>11 DEF ReadHandOut
  <2>3. /\ n \in Nat /\ n > 0
        /\ n <= IF Cyc(r) = cycle THEN head - Pos(r) ELSE (high - Pos(r)) + head
    BY <1>2, <1>4, <2>2 DEF SameLap, PrevLap, Minus
  <2>4. /\ \E m \in Nat : slice_len' = [slice_len EXCEPT ![r] = m]
        /\ slice_len'[r] = n
    BY <1>9, <2>2, <2>3
  <2>5. /\ r \in holders => Consumed(r)' = Consumed(r)
        /\ r \notin holders => Consumed(r)' \in 0 .. written
        /\ slice_len'[r] <= written - Consumed(r)'
        /\ slice_len'[r] = 0 => Consumed(r)' = written
        /\ Consumed(r)' \in Int
    BY <1>8, <2>1, <2>3, <2>4
  <2>6. \A q \in Readers \ {r} : Consumed(q)' = Consumed(q)
    BY <1>5, <2>1
  <2>. QED
    BY <1>1, <1>2, <2>4, <2>5, <2>6
<1>12. CASE ReadAdvance(r)
  <2>1. /\ SetHold(r, head, cycle) /\ SetSlice(r, 0, 0)
        /\ ~CaughtUp(r) /\ ~SameLap(r) /\ (PrevLap(r) => Pos(r) = high)
    BY <1>12 DEF ReadAdvance
  <2>2. r \in holders /\ PrevLap(r) /\ Pos(r) = high
    BY <1>2, <1>4, <2>1 DEF CaughtUp, SameLap, PrevLap, Lagging
  <2>3. /\ Consumed(r)' = written
        /\ \A q \in Readers \ {r} : Consumed(q)' = Consumed(q)
    BY <1>2, <1>5, <2>1
  <2>4. /\ \E m \in Nat : slice_len' = [slice_len EXCEPT ![r] = m]
        /\ slice_len'[r] = 0
    BY <1>9, <2>1
  <2>5. Consumed(r)' \in Int /\ slice_len[r] = 0
    BY <1>2, <2>3
  <2>. QED
    BY <1>1, <2>2, <2>3, <2>4, <2>5
<1>. QED
  BY <1>1, <1>10, <1>11, <1>12

LEMMA ReadMapSteps ==
  ASSUME IInv, NEW r \in Readers, rd_state[r] = "Unmapped", ReadMap(r)
  PROVE  Stream!Read(r) \/ Stream!Drop(r)
<1>. PICK n \in Nat : slice_len' = [slice_len EXCEPT ![r] = n]
  BY ReadMapHandsOut
<1>1. slice_len'[r] = n
  BY DEF IInv, BaseInv, TypeOK
<1>2. ConsumedBy' = [ConsumedBy EXCEPT ![r] = Consumed(r)']
  BY ReadMapHandsOut DEF ConsumedBy
<1>3. ConsumedBy[r] = Consumed(r) /\ written \in Nat
  BY DEF ConsumedBy, IInv, BaseInv, TypeOK
<1>4. holders' = holders \cup {r} /\ UNCHANGED written /\ slice_len[r] = 0
  BY ReadMapHandsOut
<1>5. CASE /\ r \in holders => Consumed(r)' = Consumed(r)
           /\ r \notin holders => Consumed(r)' \in 0 .. written
           /\ n <= written - Consumed(r)'
           /\ n = 0 => Consumed(r)' = written
  <2>1. Consumed(r)' \in IF r \in holders THEN {ConsumedBy[r]} ELSE 0 .. written
    BY <1>3, <1>5
  <2>2. n \in 0 .. written - Consumed(r)'
    BY <1>3, <1>5, ReadMapHandsOut
  <2>. QED
    BY <1>2, <1>4, <1>5, <2>1, <2>2 DEF Stream!Read
<1>6. CASE r \in holders /\ Consumed(r)' = written /\ n = 0
  <2>1. slice_len' = slice_len /\ holders' = holders
    BY <1>4, <1>6 DEF IInv, BaseInv, TypeOK
  <2>. QED
    BY <1>2, <1>4, <1>6, <2>1 DEF Stream!Drop
<1>. QED
  BY <1>1, <1>5, <1>6, ReadMapHandsOut

\* channel_read_unmap moves the reader on by what it said it consumed, and by
\* no more than it held, whatever the writer did since it mapped.
LEMMA UnmapConsumes ==
  ASSUME IInv, NEW r \in Readers, NEW k \in Nat, ReadUnmap(r, k)
  PROVE  /\ Consumed(r)' = Consumed(r) + IF k < slice_len[r] THEN k ELSE slice_len[r]
         /\ \A q \in Readers \ {r} : Consumed(q)' = Consumed(q)
         /\ slice_len' = [slice_len EXCEPT ![r] = 0]
         /\ slice_len[r] \in 1 .. Capacity
         /\ UNCHANGED <<written, holders>>
<1>1. /\ rd_state[r] = "Mapped"
      /\ SetHold(r, HoldAfter(r, k)[1], HoldAfter(r, k)[2])
      /\ SetSlice(r, 0, 0)
      /\ UNCHANGED <<head, high, cycle, written, holders>>
  BY DEF ReadUnmap, channelVars
<1>2. /\ SliceOf(r) /\ r \in holders
  BY <1>1 DEF IInv, SliceInv, SliceOf
<1>3. /\ head \in 0 .. Capacity /\ high \in 0 .. Capacity /\ Capacity \in Nat
      /\ cycle \in Nat /\ written \in Nat /\ hold_pos[r] \in 0 .. Capacity
      /\ rd_pos[r] \in 0 .. Capacity /\ rd_cycle[r] \in Nat
      /\ hold_cycle[r] \in Nat /\ slice_len[r] \in 0 .. Capacity /\ k \in Nat
  BY CapacityAssumption DEF IInv, BaseInv, TypeOK
<1>4. \/ ~Lagging(r) /\ hold_cycle[r] = cycle /\ hold_pos[r] <= head
      \/ /\ Lagging(r) /\ hold_cycle[r] + 1 = cycle
         /\ head <= hold_pos[r] /\ hold_pos[r] <= high
  BY <1>2, <1>3 DEF IInv, BaseInv, HoldsInv, Lagging
<1>5. Available(r) = slice_len[r]
  BY <1>1, AvailableIsSlice
<1>6. /\ hold_pos'[r] = HoldAfter(r, k)[1] /\ hold_cycle'[r] = HoldAfter(r, k)[2]
      /\ \A q \in Readers \ {r} :
           hold_pos'[q] = hold_pos[q] /\ hold_cycle'[q] = hold_cycle[q]
      /\ slice_len' = [slice_len EXCEPT ![r] = 0]
  BY <1>1 DEF SetHold, SetSlice, IInv, BaseInv, TypeOK
<1>7. \A q \in Readers \ {r} : Consumed(q)' = Consumed(q)
  BY <1>1, <1>6, HoldStands
<1>8. slice_len[r] > 0
  BY <1>1, <1>2, <1>3 DEF SliceOf
<1>9. Unread(r)' = Unread(r) - IF k < slice_len[r] THEN k ELSE slice_len[r]
  <2>1. CASE k < slice_len[r]
    <3>1. HoldAfter(r, k) = <<hold_pos[r] + k, hold_cycle[r]>>
      BY <1>1, <1>2, <1>3, <1>4, <1>5, <2>1 DEF HoldAfter, SliceOf
    <3>. QED
      BY <1>1, <1>3, <1>4, <1>6, <2>1, <3>1 DEF Unread
  <2>2. CASE k >= slice_len[r] /\ rd_pos[r] = 0
    <3>1. /\ Lagging(r) /\ rd_cycle[r] = cycle
          /\ slice_len[r] = high - hold_pos[r]
      BY <1>1, <1>2, <1>3, <2>2 DEF SliceOf
    <3>2. HoldAfter(r, k) = <<0, cycle>>
      BY <1>3, <1>5, <2>2, <3>1 DEF HoldAfter
    <3>. QED
      BY <1>1, <1>3, <1>4, <1>6, <2>2, <3>1, <3>2 DEF Unread
  <2>3. CASE k >= slice_len[r] /\ rd_pos[r] # 0
    <3>1. /\ hold_pos[r] < rd_pos[r] /\ rd_cycle[r] = hold_cycle[r]
          /\ rd_pos[r] <= IF Lagging(r) THEN high ELSE head
          /\ slice_len[r] = rd_pos[r] - hold_pos[r]
      BY <1>1, <1>2, <1>3, <2>3 DEF SliceOf
    <3>2. HoldAfter(r, k) = IF head < rd_pos[r] /\ rd_pos[r] = high
                            THEN <<0, hold_cycle[r] + 1>>
                            ELSE <<rd_pos[r], hold_cycle[r]>>
      BY <1>5, <2>3, <3>1 DEF HoldAfter
    <3>3. CASE head < rd_pos[r] /\ rd_pos[r] = high
      BY <1>1, <1>3, <1>4, <1>6, <2>3, <3>1, <3>2, <3>3 DEF Unread
    <3>4. CASE ~(head < rd_pos[r] /\ rd_pos[r] = high)
      BY <1>1, <1>3, <1>4, <1>6, <2>3, <3>1, <3>2, <3>4 DEF Unread
    <3>. QED
      BY <3>3, <3>4
  <2>. QED
    BY <1>3, <2>1, <2>2, <2>3
<1>10. Consumed(r)' = Consumed(r) + IF k < slice_len[r] THEN k ELSE slice_len[r]
  <2>1. Unread(r) \in Nat
    BY <1>2, UnreadIsNat
  <2>. QED
    BY <1>1, <1>2, <1>3, <1>9, <2>1 DEF Consumed
<1>. QED
  BY <1>1, <1>3, <1>6, <1>7, <1>8, <1>10

LEMMA ReadUnmapSteps ==
  ASSUME IInv, NEW r \in Readers, NEW k \in 0 .. Capacity, ReadUnmap(r, k)
  PROVE  \E n \in 0 .. Capacity : Stream!Release(r, n)
<1>. DEFINE n == IF k < slice_len[r] THEN k ELSE slice_len[r]
<1>1. /\ Consumed(r)' = Consumed(r) + n
      /\ \A q \in Readers \ {r} : Consumed(q)' = Consumed(q)
      /\ slice_len' = [slice_len EXCEPT ![r] = 0]
      /\ slice_len[r] \in 1 .. Capacity
      /\ UNCHANGED <<written, holders>>
  BY UnmapConsumes
<1>2. n \in 0 .. Capacity /\ n \in 0 .. slice_len[r] /\ slice_len[r] > 0
  BY <1>1, CapacityAssumption
<1>3. ConsumedBy' = [ConsumedBy EXCEPT ![r] = @ + n]
  BY <1>1 DEF ConsumedBy
<1>4. Stream!Release(r, n)
  BY <1>1, <1>2, <1>3 DEF Stream!Release
<1>. QED
  BY <1>2, <1>4

-------------------------------------------------------------------------------
(* The refinement.                                                         *)

LEMMA OtherSteps ==
  ASSUME \/ \E t \in Readers \cup {Controller} : Notify(t)
         \/ \E tf \in BOOLEAN : AcceptWrites(tf)
         \/ UNCHANGED vars
  PROVE  StreamFrame
<1>1. UNCHANGED <<head, high, cycle, written, slice_len>> /\ UNCHANGED holdVars
  BY DEF Notify, AcceptWrites, vars, channelVars, readerVars, sliceVars
<1>. QED
  BY <1>1, CursorsStand DEF StreamFrame

LEMMA StreamInit == Init => Stream!Init
  BY DEF Init, Stream!Init, ConsumedBy, Consumed

LEMMA StreamNext == IInv /\ [Next]_vars => [Stream!Next]_(Stream!vars)
<1> SUFFICES ASSUME IInv, [Next]_vars
             PROVE  Stream!Next \/ StreamFrame
  BY DEF Stream!vars, StreamFrame
<1>1. CASE Writer
  BY <1>1, WriterSteps DEF Stream!Next
<1>2. ASSUME NEW r \in Readers, Reader(r)
      PROVE  Stream!Next \/ StreamFrame
  BY <1>2, ReadMapSteps, ReadUnmapSteps, OtherSteps DEF Reader, Stream!Next
<1>3. CASE Control \/ UNCHANGED vars
  BY <1>3, OtherSteps DEF Control
<1>. QED
  BY <1>1, <1>2, <1>3 DEF Next

\* The channel is a byte stream: readers are handed what was committed, in
\* order, without gaps but where a caught-up reader skips, and the writer is
\* never more than Capacity ahead of any of them.
THEOREM Implements == Spec => StreamSpec
  BY StreamInit, StreamNext, Invariance, PTL DEF Spec, StreamSpec, Stream!Spec

-------------------------------------------------------------------------------
(* The action properties.                                                  *)

LEMMA StepSkipsOnlyAtLapEnd ==
  ASSUME IInv, [Next]_vars, NEW r \in holders, Consumed(r)' > Consumed(r) + slice_len[r]
  PROVE  PrevLap(r) /\ Pos(r) = high /\ slice_len'[r] = 0
<1>1. /\ r \in Readers /\ slice_len[r] \in Nat /\ Consumed(r) \in Int
      /\ ConsumedBy[r] = Consumed(r) /\ ConsumedBy'[r] = Consumed(r)'
  BY UnreadIsNat, CapacityAssumption
  DEF IInv, BaseInv, TypeOK, Consumed, ConsumedBy
<1>2. ~(UNCHANGED ConsumedBy)
  BY <1>1
<1>3. ASSUME NEW q \in Readers, rd_state[q] = "Unmapped", ReadMap(q)
      PROVE  PrevLap(r) /\ Pos(r) = high /\ slice_len'[r] = 0
  BY <1>1, <1>3, ReadMapHandsOut
<1>4. ASSUME NEW q \in Readers, NEW k \in 0 .. Capacity, ReadUnmap(q, k)
      PROVE  FALSE
  BY <1>1, <1>4, UnmapConsumes, CapacityAssumption
<1>5. ~Writer /\ ~Control /\ ~UNCHANGED vars
  BY <1>2, WriterSteps, OtherSteps DEF Control, StreamFrame
<1>6. \A q \in Readers : ~Notify(q)
  BY <1>2, OtherSteps DEF StreamFrame
<1>. QED
  BY <1>3, <1>4, <1>5, <1>6 DEF Next, Reader

\* A reader never skips a byte but where channel_read_map finds it at the end
\* of a finished lap.
THEOREM SkipsOnlyHere == Spec => SkipsOnlyAtLapEnd
<1>1. IInv /\ [Next]_vars =>
        [\A r \in holders :
           Consumed(r)' > Consumed(r) + slice_len[r] =>
             PrevLap(r) /\ Pos(r) = high /\ slice_len'[r] = 0]_vars
  BY StepSkipsOnlyAtLapEnd
<1>. QED
  BY <1>1, Invariance, PTL DEF Spec, SkipsOnlyAtLapEnd

\* channel_read_unmap consumes what it is told, and no more than was mapped.
THEOREM UnmapIsExact == Spec => UnmapConsumesAsTold
<1>1. IInv /\ [Next]_vars =>
        [\A r \in Readers : \A k \in 0 .. Capacity :
           ReadUnmap(r, k) =>
             Consumed(r)' = Consumed(r) + (IF k < slice_len[r] THEN k
                                           ELSE slice_len[r])]_vars
  BY UnmapConsumes
<1>. QED
  BY <1>1, Invariance, PTL DEF Spec, UnmapConsumesAsTold

===============================================================================
