-------------------------------- MODULE Channel --------------------------------
(***************************************************************************)
(* `struct channel` (channel.h, channel.c): a bipartite circular queue     *)
(* with one writer thread, up to eight readers and a controller thread     *)
(* that opens and closes it to writes.                                     *)
(*                                                                         *)
(* The writer maps a region, fills it and unmaps it, which commits it.  A  *)
(* reader maps a slice and unmaps it, saying how much of it it consumed;   *)
(* its hold is the cursor (cycle, position) up to which it is done.  Each  *)
(* critical section of the lock is one action.  What happens outside the   *)
(* lock is an action of its own: the notification after channel_read_unmap *)
(* and after channel_accept_writes, the store to is_accepting_writes, and  *)
(* the writer going to sleep after it found no room.                       *)
(*                                                                         *)
(* The byte committed as the k-th of the stream is represented by k, so    *)
(* data[i] says which byte is in cell i.                                   *)
(***************************************************************************)
EXTENDS Integers, FiniteSets

CONSTANTS
  Capacity,     \* bytes in the buffer
  Readers,      \* the channel_reader structs used with this channel
  Controller,   \* the thread that calls channel_accept_writes
  Sizes,        \* the lengths the writer asks for
  MaxWritten,   \* bound: the writer commits at most this many bytes
  SizeModulus   \* 2^w for a w-bit size_t

MAX_READERS == 8

ASSUME CapacityAssumption == Capacity \in Nat \ {0}
ASSUME ReadersAssumption ==
  IsFiniteSet(Readers) /\ Cardinality(Readers) <= MAX_READERS
ASSUME ControllerAssumption == Controller \notin Readers
ASSUME SizesAssumption == Sizes \subseteq Nat \ {0}
ASSUME BoundAssumption == MaxWritten \in Nat
ASSUME ModulusAssumption == SizeModulus \in Nat /\ Capacity < SizeModulus

VARIABLES
  data,                   \* data[i]: the stream byte stored in cell i
  head, high, cycle,      \* where the next write goes, the end of the last lap
  mapped,                 \* end of the region the writer reserved
  is_accepting_writes,
  holders,                \* readers registered in holds (their id is not 0)
  hold_pos, hold_cycle,   \* holds.pos, holds.cycles
  rd_pos, rd_cycle,       \* channel_reader.pos and .cycle
  rd_state, rd_status,    \* channel_reader.state and .status
  slice_beg, slice_len,   \* the slice each reader was last handed
  writer,                 \* where the writer thread is
  nbytes,                 \* the length it is asking for
  notifying,              \* threads about to call notify_all
  written                 \* history: number of bytes committed so far

channelVars == <<head, high, cycle, mapped>>
holdVars == <<holders, hold_pos, hold_cycle>>
markVars == <<rd_pos, rd_cycle, rd_state, rd_status>>
sliceVars == <<slice_beg, slice_len>>
readerVars == <<markVars, sliceVars>>
vars == <<data, channelVars, is_accepting_writes, holdVars, readerVars,
          writer, nbytes, notifying, written>>

-------------------------------------------------------------------------------
(* The type of every variable.  "Parking" holds the lock: the writer found *)
(* no room and is about to release the lock and sleep, in one step.        *)

Cells == 0 .. Capacity - 1
ChannelState == {"Unmapped", "Mapped"}
ChannelStatus == {"Ok", "Error", "Expected_Unmapped_Reader"}
WriterState == {"Idle", "Parking", "Waiting", "Woken", "Reserved", "Filled"}

\* Type invariant of channel.h's structs.
TypeOK ==
  /\ data \in [Cells -> Nat]
  /\ head \in 0 .. Capacity
  /\ high \in 0 .. Capacity
  /\ cycle \in Nat
  /\ mapped \in 0 .. Capacity
  /\ is_accepting_writes \in BOOLEAN
  /\ holders \in SUBSET Readers
  /\ hold_pos \in [Readers -> 0 .. Capacity]
  /\ hold_cycle \in [Readers -> Nat]
  /\ rd_pos \in [Readers -> 0 .. Capacity]
  /\ rd_cycle \in [Readers -> Nat]
  /\ rd_state \in [Readers -> ChannelState]
  /\ rd_status \in [Readers -> ChannelStatus]
  /\ slice_beg \in [Readers -> 0 .. Capacity]
  /\ slice_len \in [Readers -> 0 .. Capacity]
  /\ writer \in WriterState
  /\ nbytes \in Nat
  /\ notifying \in SUBSET (Readers \cup {Controller})
  /\ written \in Nat

\* channel_new, with the zero-initialised readers of the runtime.
Init ==
  /\ data = [i \in Cells |-> 0]
  /\ head = 0 /\ high = 0 /\ cycle = 0 /\ mapped = 0
  /\ is_accepting_writes = TRUE
  /\ holders = {}
  /\ hold_pos = [r \in Readers |-> 0]
  /\ hold_cycle = [r \in Readers |-> 0]
  /\ rd_pos = [r \in Readers |-> 0]
  /\ rd_cycle = [r \in Readers |-> 0]
  /\ rd_state = [r \in Readers |-> "Unmapped"]
  /\ rd_status = [r \in Readers |-> "Ok"]
  /\ slice_beg = [r \in Readers |-> 0]
  /\ slice_len = [r \in Readers |-> 0]
  /\ writer = "Idle"
  /\ nbytes = 0
  /\ notifying = {}
  /\ written = 0

-------------------------------------------------------------------------------
(* Cursors.                                                                *)

\* a - b in size_t.
Minus(a, b) == IF b <= a THEN a - b ELSE a - b + SizeModulus

LockIsFree == writer # "Parking"

\* Mutant: positions compared, laps forgotten.
CursorLeqByPos(r, q) == hold_pos[r] <= hold_pos[q]

\* cursor_cmp(r, q) is not 1.
CursorLeq(r, q) ==
  \/ hold_cycle[r] < hold_cycle[q]
  \/ hold_cycle[r] = hold_cycle[q] /\ hold_pos[r] <= hold_pos[q]

\* The holds reader_min may pick: they are all at the same cursor.
ReaderMin == {r \in holders : \A q \in holders : CursorLeq(r, q)}

\* Mutant: a full channel is taken for an empty one.
NeverFull(t) == FALSE

\* The writer is a whole lap ahead of t.
Full(t) == hold_pos[t] = head /\ cycle = hold_cycle[t] + 1

Behind(t) == head < hold_pos[t]   \* t has yet to finish the previous lap

\* Mutants: one byte too many below the last reader, and at the buffer's end.
FitsBelowByOneLess(t, n) == Behind(t) /\ n <= hold_pos[t] - head + 1
FitsAheadByOneLess(t, n) == ~Behind(t) /\ ~Full(t) /\ n <= Capacity - head + 1

\* Mutant: starts a lap for all readers while some have bytes to read.
FitsByWrappingEarly(t, n) ==
  /\ ~Behind(t) /\ ~Full(t) /\ n > Capacity - head /\ n > hold_pos[t]
  /\ n < Capacity

\* The four ways next_write finds room for n bytes with t the last reader.
FitsBelow(t, n) == Behind(t) /\ n <= hold_pos[t] - head
FitsAhead(t, n) == ~Behind(t) /\ ~Full(t) /\ n <= Capacity - head
FitsAtStart(t, n) ==
  ~Behind(t) /\ ~Full(t) /\ n > Capacity - head /\ n <= hold_pos[t]
FitsByWrapping(t, n) ==
  /\ ~Behind(t) /\ ~Full(t) /\ n > Capacity - head /\ n > hold_pos[t]
  /\ hold_pos[t] = head
  /\ n < Capacity

\* next_write returns 1.
HasRoom(n) ==
  /\ is_accepting_writes
  /\ \E t \in ReaderMin :
       \/ FitsBelow(t, n) \/ FitsAhead(t, n)
       \/ FitsAtStart(t, n) \/ FitsByWrapping(t, n)

-------------------------------------------------------------------------------
(* The writer.                                                             *)

\* The region from beg for n bytes is the writer's.  Moving beg starts a lap.
Reserve(beg, n) ==
  /\ mapped' = beg + n
  /\ IF beg = head
     THEN UNCHANGED <<head, high, cycle>>
     ELSE high' = head /\ head' = beg /\ cycle' = cycle + 1
  /\ writer' = "Reserved"
  /\ nbytes' = 0

\* channel_write_map with nobody to wait for: a full buffer starts a lap.
\* Neither the holds nor is_accepting_writes are looked at.
MapUnheld(n) ==
  /\ holders = {}
  /\ IF head + n >= Capacity
     THEN /\ high' = head /\ head' = 0 /\ cycle' = cycle + 1 /\ mapped' = n
          /\ writer' = "Reserved" /\ nbytes' = 0
     ELSE Reserve(head, n)
  /\ UNCHANGED holdVars

\* All readers are done with the old lap and start the new one with the writer.
RewindHolds ==
  /\ hold_pos' = [r \in Readers |-> IF r \in holders THEN 0 ELSE hold_pos[r]]
  /\ hold_cycle' =
       [r \in Readers |-> IF r \in holders THEN cycle' ELSE hold_cycle[r]]

\* channel_write_map, its loop left with next_write satisfied.
MapHeld(n) ==
  \E t \in ReaderMin :
    /\ is_accepting_writes
    /\ \/ /\ FitsBelow(t, n) \/ FitsAhead(t, n)
          /\ Reserve(head, n) /\ UNCHANGED <<hold_pos, hold_cycle>>
       \/ /\ FitsAtStart(t, n)
          /\ Reserve(0, n) /\ UNCHANGED <<hold_pos, hold_cycle>>
       \/ /\ FitsByWrapping(t, n)
          /\ Reserve(0, n) /\ RewindHolds
    /\ UNCHANGED holders

\* channel_write_map, its loop left because the channel is closed.
MapRefused ==
  /\ ~is_accepting_writes
  /\ writer' = "Idle" /\ nbytes' = 0
  /\ UNCHANGED <<channelVars, holdVars>>

\* channel_write_map, its loop entered: no room for n.
MapBlocked(n) ==
  /\ is_accepting_writes /\ ~HasRoom(n)
  /\ writer' = "Parking" /\ nbytes' = n
  /\ UNCHANGED <<channelVars, holdVars>>

\* The test at the top of channel_write_map's loop.
MapLoop(n) ==
  /\ holders # {}
  /\ MapHeld(n) \/ MapRefused \/ MapBlocked(n)

\* channel_write_map.  A length of Capacity or more gets nothing, at once.
WriteMap(n) ==
  /\ writer = "Idle"
  /\ n < Capacity
  /\ MapUnheld(n) \/ MapLoop(n)
  /\ UNCHANGED <<data, is_accepting_writes, readerVars, notifying, written>>

\* condition_variable_wait, first half: release the lock and sleep.
Park ==
  /\ writer = "Parking"
  /\ writer' = "Waiting"
  /\ UNCHANGED <<data, channelVars, is_accepting_writes, holdVars, readerVars,
                 nbytes, notifying, written>>

\* A condition variable may wake its waiter for no reason.
SpuriousWake ==
  /\ writer = "Waiting"
  /\ writer' = "Woken"
  /\ UNCHANGED <<data, channelVars, is_accepting_writes, holdVars, readerVars,
                 nbytes, notifying, written>>

\* condition_variable_wait, second half: with the lock again, test again.
WriteRetry ==
  /\ writer = "Woken"
  /\ MapLoop(nbytes)
  /\ UNCHANGED <<data, is_accepting_writes, readerVars, notifying, written>>

\* The thread that owns the region puts the next bytes of the stream there.
WriteData ==
  /\ writer = "Reserved"
  /\ data' = [i \in Cells |-> IF head <= i /\ i < mapped
                              THEN written + 1 + (i - head)
                              ELSE data[i]]
  /\ writer' = "Filled"
  /\ UNCHANGED <<channelVars, is_accepting_writes, holdVars, readerVars,
                 nbytes, notifying, written>>

\* channel_write_unmap.
WriteUnmap ==
  /\ writer = "Filled"
  /\ IF is_accepting_writes
     THEN head' = mapped /\ written' = written + (mapped - head)
     ELSE UNCHANGED <<head, written>>
  /\ writer' = "Idle"
  /\ UNCHANGED <<data, high, cycle, mapped, is_accepting_writes, holdVars,
                 readerVars, nbytes, notifying>>

\* channel_abort_write.  The source unmaps as well, the filter does not.
WriteAbort ==
  /\ writer = "Reserved"
  /\ mapped' = IF is_accepting_writes THEN head ELSE mapped
  /\ writer' \in {"Filled", "Idle"}
  /\ UNCHANGED <<data, head, high, cycle, is_accepting_writes, holdVars,
                 readerVars, nbytes, notifying, written>>

\* A writer that fails between map and unmap: the source's camera error.
WriteAbandon ==
  /\ writer = "Reserved"
  /\ writer' = "Idle"
  /\ UNCHANGED <<data, channelVars, is_accepting_writes, holdVars, readerVars,
                 nbytes, notifying, written>>

-------------------------------------------------------------------------------
(* The readers.                                                            *)

\* The hold of r; reader_initialize puts a new one at the start of the lap.
Pos(r) == IF r \in holders THEN hold_pos[r] ELSE 0
Cyc(r) == IF r \in holders THEN hold_cycle[r] ELSE cycle

\* Mutant: a writer one lap ahead at the same position looks like no news.
CaughtUpByPos(r) == Pos(r) = head

CaughtUp(r) == Pos(r) = head /\ Cyc(r) = cycle
SameLap(r) == Pos(r) < head /\ Cyc(r) = cycle
PrevLap(r) == Pos(r) >= head /\ cycle = Cyc(r) + 1

SetHold(r, pos, cyc) ==
  /\ hold_pos' = [hold_pos EXCEPT ![r] = pos]
  /\ hold_cycle' = [hold_cycle EXCEPT ![r] = cyc]

SetMarks(r, pos, cyc) ==
  /\ rd_pos' = [rd_pos EXCEPT ![r] = pos]
  /\ rd_cycle' = [rd_cycle EXCEPT ![r] = cyc]

SetSlice(r, beg, len) ==
  /\ slice_beg' = [slice_beg EXCEPT ![r] = beg]
  /\ slice_len' = [slice_len EXCEPT ![r] = len]

\* Nothing new: an empty slice, and the reader stays unmapped.
ReadNothing(r) ==
  /\ rd_state[r] = "Unmapped"
  /\ CaughtUp(r)
  /\ SetHold(r, Pos(r), Cyc(r)) /\ SetSlice(r, Pos(r), 0)
  /\ UNCHANGED markVars

\* The rest of the current lap, or else of the previous one.
ReadHandOut(r) ==
  /\ rd_state[r] = "Unmapped"
  /\ ~CaughtUp(r)
  /\ \/ /\ SameLap(r)
        /\ SetMarks(r, head, cycle)
        /\ SetSlice(r, Pos(r), head - Pos(r))
     \/ /\ PrevLap(r) /\ Pos(r) # high
        /\ SetMarks(r, 0, Cyc(r) + 1)
        /\ SetSlice(r, Pos(r), Minus(high, Pos(r)))
  /\ SetHold(r, Pos(r), Cyc(r))
  /\ rd_state' = [rd_state EXCEPT ![r] = "Mapped"]
  /\ UNCHANGED rd_status

\* AdvanceToWriterHead: the reader is mapped already, or has overflowed, or
\* the lap it is in has nothing left.  It is handed nothing.
ReadAdvance(r) ==
  LET drained == PrevLap(r) /\ Pos(r) = high
      misused == rd_state[r] = "Mapped"
  IN /\ misused \/ (~CaughtUp(r) /\ ~SameLap(r) /\ (PrevLap(r) => drained))
     /\ rd_status' = [rd_status EXCEPT ![r] =
                        IF misused THEN "Expected_Unmapped_Reader"
                        ELSE IF drained THEN @ ELSE "Error"]
     /\ IF drained /\ ~misused
        THEN SetMarks(r, 0, Cyc(r) + 1)
        ELSE UNCHANGED <<rd_pos, rd_cycle>>
     /\ SetHold(r, head, cycle) /\ SetSlice(r, 0, 0)
     /\ UNCHANGED rd_state

\* channel_read_map, which registers the reader the first time.
ReadMap(r) ==
  /\ LockIsFree
  /\ r \notin notifying
  /\ holders' = holders \cup {r}
  /\ ReadNothing(r) \/ ReadHandOut(r) \/ ReadAdvance(r)
  /\ UNCHANGED <<data, channelVars, is_accepting_writes, writer, nbytes,
                 notifying, written>>

\* get_available_byte_count.
Available(r) ==
  IF rd_pos[r] = hold_pos[r] /\ rd_cycle[r] = hold_cycle[r] THEN 0
  ELSE IF rd_pos[r] = 0 THEN Minus(high, hold_pos[r])
  ELSE Minus(rd_pos[r], hold_pos[r])

\* Mutant: all but one byte counts as all of them.
HoldAfterRounded(r, k) ==
  LET all == k + 1 >= Available(r)
      pos == IF all THEN rd_pos[r] ELSE hold_pos[r] + k
      cyc == IF all THEN rd_cycle[r] ELSE hold_cycle[r]
  IN IF head < pos /\ pos = high THEN <<0, cyc + 1>> ELSE <<pos, cyc>>

\* Mutant: a reader that finished the lap starts it again.
HoldAfterSameLap(r, k) ==
  LET all == k >= Available(r)
      pos == IF all THEN rd_pos[r] ELSE hold_pos[r] + k
      cyc == IF all THEN rd_cycle[r] ELSE hold_cycle[r]
  IN IF head < pos /\ pos = high THEN <<0, cyc>> ELSE <<pos, cyc>>

\* Where r's hold ends up when k bytes of what it maps are consumed: at the
\* marks, or k bytes on; and at the next lap's start if that ends the lap.
HoldAfter(r, k) ==
  LET all == k >= Available(r)
      pos == IF all THEN rd_pos[r] ELSE hold_pos[r] + k
      cyc == IF all THEN rd_cycle[r] ELSE hold_cycle[r]
  IN IF head < pos /\ pos = high THEN <<0, cyc + 1>> ELSE <<pos, cyc>>

\* channel_read_unmap up to the release of the lock.
ReadUnmap(r, k) ==
  /\ LockIsFree
  /\ rd_state[r] = "Mapped"
  /\ SetHold(r, HoldAfter(r, k)[1], HoldAfter(r, k)[2])
  /\ rd_state' = [rd_state EXCEPT ![r] = "Unmapped"]
  /\ SetSlice(r, 0, 0)
  /\ notifying' = notifying \cup {r}
  /\ UNCHANGED <<data, channelVars, is_accepting_writes, holders, rd_pos,
                 rd_cycle, rd_status, writer, nbytes, written>>

-------------------------------------------------------------------------------
(* Notifications, and the controller.                                      *)

\* Mutant: the notification is lost.
NotifyNobody(t) ==
  /\ t \in notifying
  /\ notifying' = notifying \ {t}
  /\ UNCHANGED <<data, channelVars, is_accepting_writes, holdVars, readerVars,
                 writer, nbytes, written>>

\* condition_variable_notify_all, which only a writer already asleep hears.
Notify(t) ==
  /\ t \in notifying
  /\ notifying' = notifying \ {t}
  /\ writer' = IF writer = "Waiting" THEN "Woken" ELSE writer
  /\ UNCHANGED <<data, channelVars, is_accepting_writes, holdVars, readerVars,
                 nbytes, written>>

\* channel_accept_writes up to its notification.  It takes no lock.
AcceptWrites(tf) ==
  /\ Controller \notin notifying
  /\ is_accepting_writes' = tf
  /\ notifying' = notifying \cup {Controller}
  /\ UNCHANGED <<data, channelVars, holdVars, readerVars, writer, nbytes,
                 written>>

-------------------------------------------------------------------------------
(* Who calls what.  A reader maps once before it unmaps; the channel is    *)
(* opened again only when no write is in progress (acquire_stop joins the  *)
(* writing threads first); the writer commits at most MaxWritten bytes.    *)

Writer ==
  \/ \E n \in Sizes : written + n <= MaxWritten /\ WriteMap(n)
  \/ Park \/ SpuriousWake \/ WriteRetry
  \/ WriteData \/ WriteUnmap \/ WriteAbort \/ WriteAbandon

Reader(r) ==
  \/ rd_state[r] = "Unmapped" /\ ReadMap(r)
  \/ \E k \in 0 .. Capacity : ReadUnmap(r, k)
  \/ Notify(r)

Control ==
  \/ AcceptWrites(FALSE)
  \/ writer = "Idle" /\ AcceptWrites(TRUE)
  \/ Notify(Controller)

Next == Writer \/ (\E r \in Readers : Reader(r)) \/ Control

Spec == Init /\ [][Next]_vars

\* Mutant: the lap the writer may have started is left out.
BytesWaitingThisLap(r) == IF r \in holders THEN Minus(head, hold_pos[r]) ELSE 0

\* video_sink_bytes_waiting, of reader r: how far head is ahead, by position.
BytesWaiting(r) ==
  IF r \notin holders THEN 0
  ELSE IF hold_pos[r] > head THEN Minus(high, hold_pos[r]) + head
  ELSE Minus(head, hold_pos[r])

-------------------------------------------------------------------------------
(* Safety.                                                                 *)

\* Bytes committed that r has not consumed, and the cells they are in.
Unread(r) ==
  IF hold_cycle[r] = cycle THEN head - hold_pos[r]
  ELSE (high - hold_pos[r]) + head

UnreadCells(r) ==
  IF hold_cycle[r] = cycle THEN hold_pos[r] .. head - 1
  ELSE (hold_pos[r] .. high - 1) \cup (0 .. head - 1)

Consumed(r) == IF r \in holders THEN written - Unread(r) ELSE 0

\* What video_sink_bytes_waiting tells the client is what the reader has not
\* consumed, in whatever laps reader and writer are; unless the writer has come
\* to stand at the reader's position again: a full queue is taken for an empty
\* one.  (It is called without the lock; here it reads everything at once.)
BytesWaitingIsUnread ==
  \A r \in holders : BytesWaiting(r) = IF Full(r) THEN 0 ELSE Unread(r)

\* Every hold is in the writer's lap and behind it, or in the lap before and
\* ahead of it.
HoldsInv ==
  \A r \in holders :
    \/ hold_cycle[r] = cycle /\ hold_pos[r] <= head
    \/ /\ hold_cycle[r] + 1 = cycle
       /\ head <= hold_pos[r] /\ hold_pos[r] <= high

\* The writer laps no reader, so no reader ever sees Channel_Error.
CursorInv == HoldsInv /\ \A r \in Readers : rd_status[r] = "Ok"

\* The region channel_write_map returned overlaps no byte that some reader,
\* mapped or not, has yet to consume; what the reader holds up to channel_read_
\* unmap is what the writer can not touch.
RegionIsFree ==
  writer \in {"Reserved", "Filled"} =>
    \A r \in holders : UnreadCells(r) \cap (head .. mapped - 1) = {}

\* As long as a reader is mapped, its slice holds the bytes that follow those
\* it consumed, in order, whatever the writer did since; and its length is the
\* one that get_available_byte_count works out again from the cursors.
SliceIntegrity ==
  \A r \in Readers : rd_state[r] = "Mapped" =>
    /\ slice_len[r] = Available(r)
    /\ \A i \in 0 .. slice_len[r] - 1 :
         data[slice_beg[r] + i] = Consumed(r) + i + 1

ConsumedBy == [r \in Readers |-> Consumed(r)]

Stream == INSTANCE ByteStream WITH
  MayDrop <- TRUE, joined <- holders, consumed <- ConsumedBy, held <- slice_len

Lossless == INSTANCE ByteStream WITH
  MayDrop <- FALSE, joined <- holders, consumed <- ConsumedBy, held <- slice_len

\* The channel is a byte stream with backpressure (ByteStream), but for bytes
\* that a reader who was caught up may miss.
StreamSpec == Stream!Spec

\* ... and without that exception: every reader gets every byte.
LosslessSpec == Lossless!Spec

\* Bytes are skipped by a reader only where channel_read_map finds it at the
\* very end of a finished lap, and a call that skips hands nothing out.
SkipsOnlyAtLapEnd ==
  [][\A r \in holders :
       Consumed(r)' > Consumed(r) + slice_len[r] =>
         PrevLap(r) /\ Pos(r) = high /\ slice_len'[r] = 0]_vars

\* However far the writer went since the slice was mapped, unmapping it moves
\* the reader on by the bytes it said it consumed, and by no more than it held.
UnmapConsumesAsTold ==
  [][\A r \in Readers : \A k \in 0 .. Capacity :
       ReadUnmap(r, k) =>
         Consumed(r)' = Consumed(r) + (IF k < slice_len[r] THEN k
                                       ELSE slice_len[r])]_vars

-------------------------------------------------------------------------------
(* Progress.  The writer thread runs when it can; a thread that must notify *)
(* does; a reader polls, and now and then consumes all it was handed, as    *)
(* the sink and the filter do.  The lock lets a reader that keeps asking    *)
(* for it in eventually (strong fairness: the writer takes it over and over *)
(* while it waits).  Nobody has to close the channel, abort or wake up      *)
(* spuriously.                                                              *)

WriterFairness == WF_vars(Park \/ WriteRetry \/ WriteData \/ WriteUnmap)

PollingReader(r) ==
  /\ WF_vars(Notify(r))
  /\ SF_vars(rd_state[r] = "Unmapped" /\ ReadMap(r))
  /\ SF_vars(ReadUnmap(r, Available(r)))

FairSpec ==
  /\ Spec
  /\ WriterFairness /\ WF_vars(Notify(Controller))
  /\ \A r \in Readers : PollingReader(r)

\* The readers may stop for good (a client that keeps its region), the other
\* threads do not.
StalledReadersSpec ==
  /\ Spec
  /\ WriterFairness /\ WF_vars(Notify(Controller))
  /\ \A r \in Readers : WF_vars(Notify(r))

WantsRoom == writer \in {"Parking", "Waiting", "Woken"}
AtLapEnd(r) == PrevLap(r) /\ Pos(r) = high

\* A writer that found no room in channel_write_map gets its region or is
\* refused, unless a reader has come to stand at the very end of a finished
\* lap: channel_read_map takes it to the head from there and tells nobody.
WriterProceedsUnlessAtLapEnd ==
  writer = "Parking" ~> (~WantsRoom \/ \E r \in holders : AtLapEnd(r))

\* Every committed byte ends up consumed (or skipped) by every reader.
EveryByteIsPassed ==
  \A r \in Readers : \A k \in 1 .. MaxWritten :
    (r \in holders /\ written >= k) ~> (Consumed(r) >= k)

\* channel_accept_writes(0) frees a writer that waits, whatever readers do.
ClosingFreesTheWriter == ~is_accepting_writes ~> ~WantsRoom

-------------------------------------------------------------------------------
(* The inductive invariant behind the safety properties (ChannelProofs).   *)

\* r has yet to finish the lap before the writer's.
Lagging(r) == r \in holders /\ hold_cycle[r] # cycle

\* The region in use ends within the buffer and before the laggards.
RegionInv ==
  writer \in {"Reserved", "Filled"} =>
    /\ head <= mapped
    /\ \A r \in Readers : Lagging(r) => mapped <= hold_pos[r]

\* The cells below the head hold the bytes committed in this lap ...
LapData == \A i \in 0 .. head - 1 : data[i] = (written - head) + i + 1

\* ... those from a laggard's hold to the end of the lap before, what follows
\* for it, just before this lap's bytes ...
OldLapData ==
  \A r \in Readers : Lagging(r) =>
    \A i \in hold_pos[r] .. high - 1 :
      data[i] = (written - head) - (high - i) + 1

\* ... and the filled region the bytes about to be committed.
FilledData ==
  writer = "Filled" /\ is_accepting_writes =>
    \A i \in head .. mapped - 1 : data[i] = (written - head) + i + 1

\* A mapped reader holds the slice from its hold to its marks, which lie in
\* its lap or, for the rest of a finished lap, at the start of the next.
SliceOf(r) ==
  IF rd_state[r] = "Unmapped" THEN slice_len[r] = 0
  ELSE /\ r \in holders
       /\ slice_beg[r] = hold_pos[r]
       /\ \/ /\ hold_pos[r] < rd_pos[r]
             /\ rd_cycle[r] = hold_cycle[r]
             /\ rd_pos[r] <= IF Lagging(r) THEN high ELSE head
             /\ slice_len[r] = rd_pos[r] - hold_pos[r]
          \/ /\ Lagging(r)
             /\ rd_pos[r] = 0
             /\ rd_cycle[r] = cycle
             /\ hold_pos[r] < high
             /\ slice_len[r] = high - hold_pos[r]

SliceInv == \A r \in Readers : SliceOf(r)

\* What holds of the buffer and the cursors, whatever the readers' marks ...
BaseInv ==
  /\ TypeOK /\ HoldsInv /\ RegionInv
  /\ head <= written
  /\ LapData /\ OldLapData /\ FilledData

\* ... and with the readers' slices, as long as they only map when unmapped.
IInv == BaseInv /\ SliceInv

===============================================================================
