-------------------------------- MODULE Monitor --------------------------------
(***************************************************************************)
(* The video stream's outlet: sink.in, a channel with the sink thread and  *)
(* the client's monitor as its readers, through acquisitions that are      *)
(* started and stopped (acquire.c).  The client calls acquire_start,       *)
(* acquire_stop and acquire_abort in one thread, and acquire_map_read and  *)
(* acquire_unmap_read in that thread or in another, which may go on        *)
(* reading while acquire_stop waits.  acquire_stop ends by flushing what   *)
(* the monitor has not read, with the client's reader.                     *)
(***************************************************************************)
EXTENDS Channel

CONSTANTS
  Sink, Monitor,   \* the two readers
  Amounts,         \* what a reader may say it consumed
  MayStopHolding   \* whether the client may call acquire_stop while mapped

ASSUME TwoReadersAssumption == Readers = {Sink, Monitor} /\ Sink # Monitor
ASSUME AmountsAssumption == Amounts \subseteq Nat
ASSUME MayStopHoldingAssumption == MayStopHolding \in BOOLEAN

VARIABLES
  phase,       \* where the client thread is in start, stop and abort
  writing,     \* the thread that writes to sink.in has not exited
  reading,     \* the sink thread has not exited
  client,      \* the slice the client has: first cell, length, first byte,
               \* and (history) whether a flush has released it
  flushed,     \* the length of the slice acquire_stop's loop last mapped
  rounds,      \* history: iterations of that loop
  run_start    \* history: bytes written before this acquisition

monitorVars == <<phase, writing, reading, client, flushed, rounds, run_start>>
allVars == <<vars, monitorVars>>

Phase == {"Armed", "Running", "Aborting", "Joining", "Opening", "Mapping",
          "Unmapping"}
MaxRounds == 4   \* bound: more iterations of the flush are not told apart
NoSlice == [beg |-> 0, len |-> 0, first |-> 0, lost |-> FALSE]

\* Type invariant of what this module adds.
MonitorTypeOK ==
  /\ phase \in Phase
  /\ writing \in BOOLEAN /\ reading \in BOOLEAN
  /\ client \in [beg : 0 .. Capacity, len : 0 .. Capacity, first : 0 .. MaxWritten,
                 lost : BOOLEAN]
  /\ flushed \in 0 .. Capacity
  /\ rounds \in 0 .. MaxRounds
  /\ run_start \in 0 .. MaxWritten

MonitorInit ==
  /\ Init
  /\ phase = "Armed"
  /\ writing = FALSE /\ reading = FALSE
  /\ client = NoSlice
  /\ flushed = 0 /\ rounds = 0 /\ run_start = 0

\* No call of the client's has yet to notify.
ClientIsFree == notifying \cap {Monitor, Controller} = {}

-------------------------------------------------------------------------------
(* The threads of the stream.                                              *)

\* The thread that writes to sink.in: the source or, averaging, the filter.
Write ==
  /\ writing
  /\ Writer
  /\ UNCHANGED monitorVars

\* It leaves its loop: max_frame_count, is_stopping or an error.
WriterExits ==
  /\ writing /\ writer = "Idle"
  /\ writing' = FALSE
  /\ UNCHANGED <<vars, phase, reading, client, flushed, rounds, run_start>>

\* The sink thread maps, appends, and unmaps as much as is old enough.
SinkReads ==
  /\ reading
  /\ Sink \notin notifying
  /\ \/ rd_state[Sink] = "Unmapped" /\ ReadMap(Sink)
     \/ \E k \in Amounts : ReadUnmap(Sink, k)
  /\ UNCHANGED monitorVars

\* It exits once it is told to stop, or storage stops, and it found no more.
SinkExits ==
  /\ reading
  /\ Sink \in holders /\ rd_state[Sink] = "Unmapped" /\ Sink \notin notifying
  /\ Unread(Sink) = 0
  /\ reading' = FALSE
  /\ UNCHANGED <<vars, phase, writing, client, flushed, rounds, run_start>>

\* storage_append failed: it exits, and consumes nothing of what it mapped.
SinkFails ==
  /\ reading
  /\ ReadUnmap(Sink, 0)
  /\ reading' = FALSE
  /\ UNCHANGED <<phase, writing, client, flushed, rounds, run_start>>

\* The notification with which channel_read_unmap and channel_accept_writes
\* end, the client's or the sink's.
NotifyWriter(t) == Notify(t) /\ UNCHANGED monitorVars

-------------------------------------------------------------------------------
(* The client.                                                             *)

\* The client reads in another thread, too: while acquire_stop joins the threads
\* of the stream.  It does not while acquire_stop flushes.
MayCall == phase \in {"Armed", "Running", "Aborting", "Joining"} /\ ClientIsFree

\* acquire_start, which opens the channel again.
StartRun ==
  /\ phase = "Armed" /\ ClientIsFree
  /\ AcceptWrites(TRUE)
  /\ phase' = "Running" /\ writing' = TRUE /\ reading' = TRUE
  /\ run_start' = written
  /\ UNCHANGED <<client, flushed, rounds>>

\* acquire_map_read.  It fails, handing out nothing, unless the reader is
\* unmapped and channel_read_map leaves its status at Ok.
MapRead ==
  /\ MayCall /\ client = NoSlice
  /\ rd_state[Monitor] = "Unmapped"
  /\ ReadMap(Monitor)
  /\ client' = IF rd_status'[Monitor] = "Ok" /\ slice_len'[Monitor] > 0
               THEN [beg |-> slice_beg'[Monitor], len |-> slice_len'[Monitor],
                     first |-> data[slice_beg'[Monitor]], lost |-> FALSE]
               ELSE NoSlice
  /\ UNCHANGED <<phase, writing, reading, flushed, rounds, run_start>>

\* acquire_unmap_read, which does nothing if the reader is not mapped.
UnmapRead(k) ==
  /\ MayCall /\ client # NoSlice
  /\ IF rd_state[Monitor] = "Mapped" THEN ReadUnmap(Monitor, k) ELSE UNCHANGED vars
  /\ client' = NoSlice
  /\ UNCHANGED <<phase, writing, reading, flushed, rounds, run_start>>

\* Mutant: the client's region is released before the threads are joined.
CallStopReleasesFirst ==
  /\ phase = "Running" /\ Controller \notin notifying
  /\ MayStopHolding \/ client = NoSlice
  /\ IF rd_state[Monitor] = "Mapped"
     THEN ReadUnmap(Monitor, slice_len[Monitor])
     ELSE UNCHANGED vars
  /\ phase' = "Joining"
  /\ UNCHANGED <<writing, reading, client, flushed, rounds, run_start>>

\* acquire_stop is called: it joins the threads of the stream first.
CallStop ==
  /\ phase = "Running" /\ Controller \notin notifying
  /\ MayStopHolding \/ client = NoSlice
  /\ phase' = "Joining"
  /\ UNCHANGED <<vars, writing, reading, client, flushed, rounds, run_start>>

\* acquire_abort closes the channel, then stops.
CallAbort ==
  /\ phase = "Running" /\ Controller \notin notifying
  /\ MayStopHolding \/ client = NoSlice
  /\ AcceptWrites(FALSE)
  /\ phase' = "Aborting"
  /\ UNCHANGED <<writing, reading, client, flushed, rounds, run_start>>

AbortStops ==
  /\ phase = "Aborting" /\ Controller \notin notifying
  /\ phase' = "Joining"
  /\ UNCHANGED <<vars, writing, reading, client, flushed, rounds, run_start>>

\* The threads have exited: open the channel again.
Joined ==
  /\ phase = "Joining"
  /\ ~writing /\ ~reading /\ Sink \notin notifying
  /\ AcceptWrites(TRUE)
  /\ phase' = "Mapping" /\ rounds' = 0
  /\ UNCHANGED <<writing, reading, client, flushed, run_start>>

CountRound == IF rounds < MaxRounds THEN rounds + 1 ELSE rounds

\* The flush maps with the client's reader, whatever the client has mapped.
ClientLosesSlice == client' = [client EXCEPT !.lost = client # NoSlice]

\* Mutant: the flush reads once.
FlushMapOnce ==
  /\ phase = "Mapping" /\ ClientIsFree
  /\ ReadMap(Monitor)
  /\ flushed' = 0
  /\ phase' = "Unmapping" /\ rounds' = CountRound
  /\ ClientLosesSlice
  /\ UNCHANGED <<writing, reading, run_start>>

\* Mutant: the length of the slice is worked out one short.
FlushMapOneShort ==
  /\ phase = "Mapping" /\ ClientIsFree
  /\ ReadMap(Monitor)
  /\ flushed' = Minus(slice_len'[Monitor], 1)
  /\ phase' = "Unmapping" /\ rounds' = CountRound
  /\ ClientLosesSlice
  /\ UNCHANGED <<writing, reading, run_start>>

\* acquire_stop's flush, first half of an iteration.
FlushMap ==
  /\ phase = "Mapping" /\ ClientIsFree
  /\ ReadMap(Monitor)
  /\ flushed' = slice_len'[Monitor]
  /\ phase' = "Unmapping" /\ rounds' = CountRound
  /\ ClientLosesSlice
  /\ UNCHANGED <<writing, reading, run_start>>

\* Mutant: the last byte is kept back.
FlushUnmapAllButOne ==
  /\ phase = "Unmapping"
  /\ IF rd_state[Monitor] = "Mapped"
     THEN ReadUnmap(Monitor, flushed - 1)
     ELSE UNCHANGED vars
  /\ phase' = IF flushed = 0 THEN "Armed" ELSE "Mapping"
  /\ UNCHANGED <<writing, reading, client, flushed, rounds, run_start>>

\* acquire_stop's flush, second half: again unless there was nothing.
FlushUnmap ==
  /\ phase = "Unmapping"
  /\ IF rd_state[Monitor] = "Mapped"
     THEN ReadUnmap(Monitor, flushed)
     ELSE UNCHANGED vars
  /\ phase' = IF flushed = 0 THEN "Armed" ELSE "Mapping"
  /\ UNCHANGED <<writing, reading, client, flushed, rounds, run_start>>

Threads ==
  \/ Write \/ WriterExits \/ SinkReads \/ SinkExits \/ SinkFails
  \/ \E t \in {Sink, Monitor, Controller} : NotifyWriter(t)
Client ==
  \/ StartRun \/ MapRead \/ CallStop \/ CallAbort \/ AbortStops
  \/ Joined \/ FlushMap \/ FlushUnmap
  \/ \E k \in Amounts : UnmapRead(k)

MonitorNext == Threads \/ Client
MonitorSpec == MonitorInit /\ [][MonitorNext]_allVars

-------------------------------------------------------------------------------
(* Safety.                                                                 *)

\* Between acquisitions the monitor has nothing mapped and nothing unread:
\* the flush at the end of acquire_stop has passed it everything.
FlushEmptiesMonitor ==
  phase = "Armed" /\ Monitor \in holders =>
    rd_state[Monitor] = "Unmapped" /\ Unread(Monitor) = 0

\* Whatever acquire_map_read hands out was written in this acquisition, in
\* spite of a run that failed, was aborted or left a lap half read.
ClientSeesOnlyThisRun == client # NoSlice /\ ~client.lost => client.first > run_start

\* The flush maps at most three times: the rest of the previous lap, this lap,
\* and nothing.  (The comment in acquire_stop says at most two.)
FlushIsShort == rounds <= 3

\* The interval acquire_map_read returned holds the same bytes until the
\* client calls acquire_unmap_read or the flush at the end of acquire_stop takes
\* it away; while acquire_stop waits for the threads too.
ClientSliceStaysValid ==
  ~client.lost =>
    \A i \in 0 .. client.len - 1 : data[client.beg + i] = client.first + i

\* Nothing is left on the queue, for any reader, when a run begins.
QueueIsEmptyBetweenRuns ==
  phase = "Armed" => \A r \in holders : Unread(r) = 0

-------------------------------------------------------------------------------
(* Progress.  The threads run and leave their loops (max_frame_count frames *)
(* arrive, or abort made the source stop), the sink polls, now and then     *)
(* consumes all it mapped and exits when it finds nothing, and a client     *)
(* inside a call goes on.  Weak fairness will do for what stays enabled.    *)

FairMonitorSpec ==
  /\ MonitorSpec
  /\ WriterFairness /\ SF_allVars(WriterExits)
  /\ WF_allVars(SinkReads /\ rd_state[Sink] = "Unmapped")
  /\ SF_allVars(SinkReads /\ rd_state[Sink] = "Mapped"
                           /\ Unread(Sink)' = Unread(Sink) - slice_len[Sink])
  /\ SF_allVars(SinkExits)
  /\ \A t \in {Sink, Monitor, Controller} : WF_allVars(NotifyWriter(t))
  /\ WF_allVars(AbortStops \/ Joined \/ FlushMap \/ FlushUnmap)

\* acquire_stop and acquire_abort return, unless the writing thread sleeps for
\* ever in channel_write_map, where it waits for a monitor nobody reads.
StopReturnsUnlessWriterSleeps ==
  phase = "Joining" ~> (phase = "Armed" \/ []WantsRoom)

-------------------------------------------------------------------------------
(* The inductive invariant behind the safety properties (MonitorProofs).   *)

\* r has been passed all that was committed, and is in the writer's lap.
AtHead(r) == r \in holders /\ hold_pos[r] = head /\ hold_cycle[r] = cycle

\* The flush mapped with a reader that the client had mapped: the reader is
\* taken to the head but stays mapped, with the client's marks and no slice.
Misused ==
  phase = "Unmapping" /\ rd_state[Monitor] = "Mapped" /\ slice_len[Monitor] = 0

\* The channel's invariant, but for a misused reader's slice.  Unmapping that
\* reader with nothing consumed leaves it at the head: its old marks do not
\* look used up, unless they are at the head as well.
OutletInv ==
  /\ BaseInv
  /\ SliceOf(Sink)
  /\ ~Misused => SliceOf(Monitor)
  /\ Misused => /\ AtHead(Monitor)
                /\ \/ Available(Monitor) > 0
                   \/ rd_pos[Monitor] = head /\ rd_cycle[Monitor] = cycle

\* What the writer asks for, or has, stays within the bound.
BoundInv ==
  /\ written <= MaxWritten
  /\ writer \in {"Parking", "Waiting", "Woken"} => written + nbytes <= MaxWritten
  /\ writer \in {"Reserved", "Filled"} =>
       written + (mapped - head) <= MaxWritten

\* A thread leaves nothing half done, and both are gone when the flush begins.
ThreadsInv ==
  /\ ~writing => writer = "Idle"
  /\ ~reading => rd_state[Sink] = "Unmapped"
  /\ phase \in {"Armed", "Mapping", "Unmapping"} => ~writing /\ ~reading

\* The monitor has passed all of the earlier acquisitions.
RunInv ==
  /\ Monitor \notin holders => run_start = 0
  /\ phase = "Armed" =>
       /\ rd_state[Monitor] = "Unmapped"
       /\ Monitor \in holders => AtHead(Monitor)
       /\ Monitor \notin holders => written = 0 /\ head = 0 /\ cycle = 0
  /\ phase \in {"Running", "Aborting", "Joining"} /\ Monitor \in holders =>
       run_start <= Consumed(Monitor)

\* The client's slice is the reader's, up to the flush.
ClientInv ==
  client # NoSlice /\ ~client.lost =>
    /\ phase \in {"Running", "Aborting", "Joining", "Mapping"}
    /\ phase = "Mapping" => rounds = 0
    /\ rd_state[Monitor] = "Mapped"
    /\ client.beg = slice_beg[Monitor] /\ client.len = slice_len[Monitor]
    /\ client.first = Consumed(Monitor) + 1
    /\ run_start < client.first

\* How far the flush has come: one round to enter the writer's lap, one to
\* reach the head, and one to find nothing.
FlushInv ==
  /\ rounds <= 3
  /\ phase = "Mapping" =>
       /\ rounds <= 2
       /\ rounds >= 1 => /\ rd_state[Monitor] = "Unmapped"
                         /\ Monitor \in holders /\ hold_cycle[Monitor] = cycle
       /\ rounds = 2 => AtHead(Monitor)
  /\ phase = "Unmapping" =>
       /\ rounds >= 1
       /\ flushed = slice_len[Monitor]
       /\ flushed = 0 => AtHead(Monitor)
       /\ flushed # 0 => /\ rounds <= 2
                         /\ rd_cycle[Monitor] = cycle
                         /\ \/ rd_pos[Monitor] = head
                            \/ rounds = 1 /\ rd_pos[Monitor] = 0

MonitorIInv ==
  /\ MonitorTypeOK /\ OutletInv /\ BoundInv /\ ThreadsInv /\ RunInv
  /\ ClientInv /\ FlushInv

===============================================================================
