# Verification of acquire-video-runtime

TLA+ modules, TLC runs and TLAPS proofs about the video runtime in `src/`
(2400 lines of C): the queue that carries frames from a camera to storage and
to a client, the three threads of a video stream, and the calls that start and
stop them. Paths below are relative to the repository unless they end in
`.tla` or `.cfg`.

## 1. The system

A *runtime* holds two video streams. Each stream is a camera, an optional
averaging filter and a storage device, each driven by a thread of its own, with
a queue in front of the filter and one in front of the sink:

    camera -> source thread -> sink.in --------------------> sink thread -> storage
                   \                ^ \
                    `-> filter.in -> filter thread          monitor -> client thread

| Component | State | Operations | Source |
|---|---|---|---|
| channel | buffer, `head`, `high`, `cycle`, `mapped`, holds of up to 8 readers, `is_accepting_writes`, lock, condition variable; per reader `pos`, `cycle`, `state`, `status` | `channel_write_map / write_unmap / abort_write`, `channel_read_map / read_unmap`, `channel_accept_writes` | `src/runtime/channel.c` |
| source | `is_running`, `is_stopping`, `enable_filter`, `max_frame_count`; in the thread `iframe`, `last_stream` | the thread, `video_source_start / configure / init` | `src/runtime/source.c` |
| filter | flags, `sig_accumulator_reset`, an event; in the thread the accumulator and `frame_count` | `process_data`, the thread, start, configure | `src/runtime/filter.c` |
| sink | flags, storage, identifier, write delay | the thread, start, configure, `video_sink_bytes_waiting` | `src/runtime/sink.c` |
| slices | none | `vfslice_split_at_delay_ms`, `frame_iterator_next` | `src/runtime/vfslice.c`, `frame_iterator.c` |
| runtime (client api) | `state`, `valid_video_streams`, two `video_s`, one monitor reader per stream | `acquire_configure / start / stop / abort / get_state / map_read / unmap_read / shutdown` | `src/acquire.c` |
| devices, platform, logger | external: git submodules whose content is not in the repository | camera, storage, threads, locks, condition variables, events | - |

How they interact. The source writes each frame to `filter.in` or `sink.in`;
the filter reads `filter.in` and writes `sink.in`; the sink and the client read
`sink.in`, and a reader that does not read holds the writers back. The threads
tell each other to stop by storing to each other's `is_stopping` without a lock:
the source, when it ends, stops the filter and the sink; the sink, when storage
fails, stops the source; `acquire_abort` stops the source and closes `sink.in`.
`acquire_stop` joins the three threads and flushes what the client has not read.

What is hard. (a) The channel: a writer and several readers at different places
of two successive laps, readers that unmap long after they mapped, and waits,
wake-ups and a close that are not all under the lock. (b) Stopping: the order in
which flags are set, tested and cleared by four threads, and which thread may
then be left waiting for which. (c) Failures: a camera, a storage device or a
filter that fails in the middle, a start that fails halfway, and what that
leaves on the queues for the next acquisition. (d) Averaging switched on or off
while frames are under way. `PROJECT.json` lists each such hazard at its line
with the properties that watch over it.

What makes each component correct:

- channel: no reader is lapped; the writer never touches what is unread; a
  mapped slice keeps its bytes; readers get the stream in order; who waits is
  woken;
- stream: frames reach storage in order, once, and all of them unless something
  failed; averages add up whole windows; one thread at a time writes `sink.in`;
  stop signals are not lost; stop returns;
- runtime: the client sees frames of the current acquisition only, what it has
  mapped stays valid, nothing is left over for the next acquisition, and start,
  stop, abort and configure leave the streams in a state that agrees with
  `acquire_get_state`.

## 2. The modules

| Module | What it is | Models |
|---|---|---|
| `ByteStream` | abstract specification: numbered bytes committed in order, readers that are handed the next interval and hold the writer back by at most `Capacity` unread bytes | what `channel.h` promises |
| `Channel` | the channel, one action per critical section of its lock and one for each thing that happens outside it; the distance `video_sink_bytes_waiting` reads off it | `channel.c` whole, but for allocation and release |
| `ChannelProofs` | theorems about `Channel` | |
| `ChannelRefinement` | theorems: `Channel` implements `ByteStream`; its action properties | |
| `Monitor` | `Channel` composed with the threads that use `sink.in` and the client's start, read, stop and abort | `acquire.c` 84-127, 481-582 |
| `MonitorProofs` | theorems about `Monitor`, on top of the channel's | |
| `VideoStream` | the three threads of a stream and the client that starts, stops, aborts and reconfigures it, over the queues `Channel` implements | `source.c`, `filter.c`, `sink.c`, `acquire.c` |
| `StreamProofs` | theorems about `VideoStream` | |
| `Runtime` | the api over all streams: configure, start, stop, abort, get_state, shutdown, with the devices and the flags and threads of each stream | `acquire.c` 146-327, 481-637 and the `_configure`, `_start`, `_destroy` of the three stages |
| `RuntimeProofs` | theorems about `Runtime` | |
| `Frames` | what is in the frames: headers, sums, averages, shapes, and the write delay | `process_data`, `accumulate`, `normalize`, `frame_iterator.c`, `vfslice.c` |
| `FramesProofs` | theorems about `Frames` | |
| `MC*` | constants for TLC | |

The modules see one system at different distances: `Channel` counts bytes, `Monitor`
adds a client to it, `VideoStream` counts frames in queues that behave as `ByteStream`
says, `Runtime` follows the flags and devices of several streams and leaves out what
is on the queues, `Frames` looks into the frames and leaves out how the threads
interleave within a pass.

**Channel.** Variables carry the names of the C fields: `head`, `high`, `cycle`,
`mapped`, `is_accepting_writes`; `hold_pos`/`hold_cycle` are `holds.pos` and
`holds.cycles`, `holders` the readers whose id is not 0; `rd_pos`, `rd_cycle`,
`rd_state`, `rd_status` are the fields of `struct channel_reader`. The k-th byte
committed is represented by k, so `data` says which byte of the stream lies in
which cell. `WriteMap` is the first pass of `channel_write_map`; when it finds no
room the writer is "Parking", still with the lock; `Park` releases the lock and
sleeps in one step as a condition variable does; `WriteRetry` is every later
pass. `next_write` is the four operators `FitsBelow`, `FitsAhead`, `FitsAtStart`,
`FitsByWrapping`, for the reader `ReaderMin` picks. The notification of
`channel_read_unmap` comes after its unlock and so is an action of its own;
`channel_accept_writes` takes no lock, so its store and its notification can fall
between the writer's test and its sleep. Arithmetic is `size_t`'s (`Minus`, modulo
`SizeModulus`). `BytesWaiting` is what `video_sink_bytes_waiting` computes from one
look at `head`, `high` and the hold.

**Monitor** extends `Channel`: the sink's reader and the client's (`monitor`) are
its two readers, the client thread its controller. `phase` says where the thread
that starts and stops is; the flush in `acquire_stop` is `FlushMap` and `FlushUnmap`
in turn. The client reads in that thread or in another: it may map and unmap at any
time, while `acquire_stop` waits for the threads too (`MayCall`), and may call
`acquire_stop` with a region mapped, but does not read while the flush itself runs,
which would be two threads in one `channel_reader` without a lock, a data race of the
caller's. `client.lost` records that a flush took the client's region away. The
writing thread may be the source or the filter; here they are one writer.

**VideoStream** counts in frames. Its queues are what `ByteStream` leaves of a
channel with one reader: first in first out, bounded, a reader may be handed less
than there is (the part up to the buffer's end) and may skip what is unread (finding
1 below). Which frames are added up is kept as a set of frame numbers, their
pixels are not. The sink's map, append and unmap are one step, because
what it appends cannot change while it is mapped (`SliceIntegrity`, proved) and
only the writer could see the difference, as a queue that is full a little longer.
The event behind `await_filter_reset` is external; it is taken to stay signalled
until one waiter has seen it, and a platform whose event is forgotten when nobody
waits could only wait longer.

Two threads may write to `sink.in` once averaging is switched. `channel_write_map`
does not know of writers: it gives each of them the bytes at `head`, and keeps one
mark, `mapped`, of how far the last region reaches, to which `channel_write_unmap`
moves `head` whoever calls it. In `VideoStream`, `Holding(q)` are the writers that have
such a region, and `mapped[q]` those that had one when the mark was set; nobody, when
the mark is at the head, where a commit and `channel_abort_write` put it. A commit appends
what its writer wrote if it was alone in the region, a frame nobody can say the content of
(`Torn`, of no images) if it was not, and nothing if the other has committed it already.
The source unmaps after it has given up a region too (`SourceUnmaps`), which commits what
the filter has mapped in between. That a torn region counts as one frame is a
simplification: the data properties say nothing of streams that were switched.

**Runtime.** `camera` and `storage` are each stream's device and its state,
`is_running` and `is_stopping` the sets of roles (source, filter, sink) whose flag is
set. `thread_create` overwrites the handle of the thread created before it: each role
has a `"new"` thread, which `thread_join` waits for, and an `"old"` one, forgotten and
perhaps still running. `call` is the api call in progress; starting is one step per
stage of a stream, as the code does it, and threads move in between. `mishaps` is
history: "early" (`acquire_start` called while a flag says a thread runs),
"reconfigure" (`acquire_configure` called then), "start" (a start failed halfway),
"replace" (`acquire_configure` named another camera while a source thread used the
stream's), "orphan" (a thread was forgotten). Nothing keeps `acquire_configure` from a
stream that runs: it closes the camera and opens another, which may fail, and the source
thread goes on with what `self->camera` is then. Coarser than the code: `acquire_abort`'s loop over
the streams and the joins of `acquire_stop` are one step each; a thread's last store to
a device and its first to a flag are merged where nothing in between can tell; the
two clears with which the source ends are one. A source whose camera has been replaced
stops the one it finds, as the code does if the old one was not in use at that moment;
what a call on a camera that has just been freed does is not defined and not modelled.

**Frames.** A pass of `process_data` over a slice is one step, the recursive function
`PassOver`; the sink's split at the write delay is `SplitAtDelay`. An averaged frame
has one size, so `sink.in` is a ring of regions, and `region` keeps what each was last
written with, because `accumulate` adds to what is there. An image is one pixel,
`Pixel[id]`, a constant: any numbers that every number of images divides, so that no
average is rounded. TLC takes one power of two per image, so that a sum tells which
images are in it; the proofs leave them open. Averaging is always on, the type of the camera's samples is fixed in
a behaviour, its shape and `filter_window_frames` may change at any time. `clock_cmp`
is external; its sign is taken from its use in `src/tests`, where
`clock_cmp_now(&clock) < 0` loops until a deadline has passed.

## 3. The runs

| Run | What it asks | Bounds |
|---|---|---|
| `channel_safety` | no lapping, no overlap, intact slices, bytes waiting, and `Channel` implements `ByteStream` (refinement) | 2 readers, 5 cells, frames of 2 and 3, 8 bytes |
| `channel_progress` | a writer without room gets it, or is refused at once, unless a reader stands at the end of a finished lap; every byte is passed by every reader | 2 readers, 3 cells, frames of 2 and of 3 (as long as the buffer), 6 bytes |
| `channel_skip` * | every reader gets every byte | 1 reader |
| `channel_lost_close` * | closing frees a waiting writer | 1 reader that may stall |
| `monitor` | the flush empties the monitor, in at most three rounds; the client sees this acquisition only and what it has mapped stays; stop returns | 4 cells, frames of 2, 6 bytes; the client may stop while mapped and read while another thread stops |
| `monitor_leftover` * | nothing is left for the next acquisition | storage may fail |
| `stream` | order, completeness, whole averages, stop signals, one writer of `sink.in`, stop returns | 2 acquisitions of 2 frames, windows and queues of 2, any one kind of mishap in the first, and an abort |
| `stream_partial_start` * | stop returns after a failed start | 1 acquisition |
| `runtime` | Armed means ready, devices outlive threads, loops are exclusive, every thread is told | 2 streams, the first with a choice of 2 cameras, 1 storage device each, 4 calls of configure or start or failures, any number of the other calls |
| `runtime_storage` * | the storage device in use is the one named | 1 stream, 2 devices of each kind |
| `frames` | averages, last sums, shapes, write delay | 2 acquisitions of up to 3 frames, windows of 2 and 3, 2 regions, 2 shapes, a sample type that is not supported, 5 images |
| `average_stale` * | every average is the mean of its images | 1 acquisition of 6 frames, windows of 2, 2 regions |

Runs marked * check what a comment, a document or a test of the repository says,
and find the code doing otherwise; each is a finding in `PROJECT.json`:

1. A reader that is caught up when the writer starts a new lap is moved to the
   writer's head by its next `channel_read_map` and loses what was committed
   meanwhile (`channel.c:200`). `SkipsOnlyAtLapEnd` shows this is the only way.
2. `channel_accept_writes(0)` can fall between the writer's test and its sleep
   (`channel.c:145`).
3. What is written after the sink thread left stays on the queue and is stored
   in the next acquisition (`acquire.c:549`). The source stops filter and sink at
   the same time (`source.c:109-110`), so the filter's last frames can meet the
   same fate.
4. An `acquire_start` that fails halfway leaves threads nobody stops, and
   `acquire_shutdown` waits for them (`acquire.c:516`).
5. `video_sink_configure` assigns the storage identifier before it compares it with
   the one asked for: a stream that has storage open keeps it, under the new name
   (`sink.c:172`).
6. The first image of a window is *added* to a region of `sink.in` of which only
   the header was written (`filter.c:127`): once the queue has gone round, averages
   include what the region held before.

Other disagreements need no run of their own; a passing property states what does
hold, with the exception in its name or its comment:

- the path of finding 1 also frees space without a notification, and the writer
  sleeps on (`channel.c:211`; `acquire.h:137` promises the region is freed):
  `WriterProceedsUnlessAtLapEnd` shows it is the only way to sleep for ever;
- `acquire_stop` flushes a region the client still has mapped, whose reader's status
  is never Ok again (`acquire.c:551`): `ClientSliceStaysValid` up to `client.lost`;
- the filter answers a reset after one slice. With frames left behind it, it starts a new
  sum, in the region of `sink.in` that the source, back from `await_filter_reset`, is given
  as well (`filter.c:152`; `source.h:36` says the call blocks until the reset is
  completed); and a source that starts without averaging while the filter has frames of an
  earlier run asks for no reset at all. `OneWriterOfSink` says these two are the only ways
  in which filter and source write to `sink.in` at once;
- `acquire_abort` closes `sink.in` only. A source that waits for room in `filter.in`, or for
  a reset, after the filter has failed is never woken, and `acquire_abort` never returns
  (`acquire.c:577`; `abort-or-stop.cpp:1` says it terminates acquisition immediately).
  `StopReturnsUnlessDeserted` excepts a failed filter, and says `acquire_abort` returns
  after any other failure of a thread;
- a filter that fails keeps its slice on `filter.in`, where the filter of the next
  acquisition finds it (`filter.c:164`; `client-queue-is-flushed-after-abort.cpp:1` says
  nothing remains): `StoredInOrder` excepts "filter";
- the flush of `acquire_stop` registers the monitor's reader, for which the writer of the
  next run has to wait though the client has never read (`acquire.c:551`). The unit test
  that checks the contrary (`acquire.c:698`) is commented out in `unit-tests.cpp:77`. In
  `Monitor`, `FlushMap` registers it, and `StopReturnsUnlessWriterSleeps` excepts the writer
  that sleeps for it;
- `repeat-start-no-stop.cpp:1` says that `acquire_start` called twice without a stop returns
  an error, and the test calls it while the acquisition runs, when storage is not armed and
  it fails. When the run has ended by itself (`max_frame_count`) it succeeds, over threads
  that were not joined (`acquire.c:482`): `LoopsAreExclusive` says what that keeps. The
  old sink or filter may then still have its last flag, `is_stopping`, to clear, and clears
  the new thread's: the exception "orphan" of `EveryThreadIsTold`;
- the comment at `acquire.c:546` says the flush takes at most two iterations;
  `FlushIsShort` is three, and three are reached (the rest of the previous lap, this
  lap, and an empty slice);
- `video_sink_bytes_waiting` says 0 of a full queue whose head stands at the hold:
  `BytesWaitingIsUnread` excepts it;
- `acquire_configure` closes a camera its source thread uses (`source.c:227`), the
  exception "replace" of `DevicesOutliveThreads`;
- `acquire_stop` and `acquire_abort` say Armed of a runtime that was never configured:
  `ArmedMeansReady` speaks of the valid streams only.

**Why the bounds are enough.** The channel's case distinctions are on the order of
`head`, `high`, a hold and the end of the buffer, and on whether a reader is in the
writer's lap. Five cells with frames of two and three give every order, frames that
end exactly at the buffer's end and at a hold, laps of different lengths and (8
bytes) a third lap while a reader is still in the second. Two readers are what the
runtime registers. The proofs then drop all the bounds. In
`Monitor` 6 bytes over 4 cells are enough for a wrap within a run and across two
runs. In `VideoStream` a second acquisition is needed to see what a first leaves
behind, queues of two to be full and partly read, windows of two to straddle a
slice's end. In `Runtime` two streams tell a stream that is valid from one that was;
four events are a configuration, a start, and two more of either or of failures, which
is what it takes to start over a thread, drop a stream that runs, or fail in the second
stream. Two cameras for the first stream (`Requests`) let another
one be named while it runs. The proofs drop these bounds too. In `Frames` three frames and windows of two
and three let a window end before, at and after a slice, change in the middle, and be
left over; two acquisitions let one begin in regions the other wrote.

**Fairness.** Each thread runs when it can (weak fairness). The lock is assumed to
let in, eventually, a reader that keeps asking (strong fairness, because the writer
takes it over and over). A reader "polls": it keeps mapping and now and then
consumes all it mapped; the sink's and the filter's loops do. The client is never
assumed to read, to stop or to abort, only to go on inside a call. A camera asked
over and over gives a frame (`SF` on `SourceWrites`), and frames get old enough for
the sink's write delay. No spurious wake-up is assumed. In `Monitor` the sink's
polling, the notifications and the steps of `acquire_stop` stay enabled until taken
and get weak fairness; the sink's consumption, its exit and the writer's leaving its
loop compete with other steps and get strong fairness. `Runtime` and `Frames` state
safety only: that their threads' waits end is the subject of the other modules.

`CHECK_DEADLOCK FALSE` in the `Monitor`, `VideoStream`, `Runtime` and `Frames` runs:
when the bounds are used up, or the runtime is shut down, the system is at rest.

## 4. What is proved

`ChannelProofs` (TLAPS), for every capacity, every set of at most eight readers,
every set of frame lengths:

- `Invariance`: `Spec => []IInv`;
- `TypeCorrect`, `NeverLapped` (`CursorInv`), `WriterKeepsClear` (`RegionIsFree`),
  `SlicesStayIntact` (`SliceIntegrity`) and `BytesWaitingCounts`
  (`BytesWaitingIsUnread`) from it.

`ChannelRefinement`:

- `Implements`: `Spec => StreamSpec`, each step of the channel is a step of
  `ByteStream` or a stutter, under the mapping consumed = written - unread;
- `SkipsOnlyHere` and `UnmapIsExact`: the action properties `SkipsOnlyAtLapEnd`
  and `UnmapConsumesAsTold`.

The inductive invariant is needed because `CursorInv` alone says nothing of where
a region ends: that the writer stays clear of a reader in the lap before it
(`RegionInv`) follows from the test in `next_write` and has to be carried to the
unmap; and that a slice is intact needs to know what *every* cell between a hold and
the head contains (`LapData`, `OldLapData`, `FilledData`), and where a mapped
reader's marks can be (`SliceInv`). `LastReader` is the heart of the writer's half:
if the reader `next_write` looks at is not behind, nobody is in an earlier lap.
`HoldAfterMovesOn` is that of the reader's: whatever the writer did since the map,
the new hold is in the writer's lap and behind it or in the lap before.

`RuntimeProofs`, for every number of streams, every set of cameras and storage
devices and any number of events:

- `Invariance`: `Spec => []IInv`;
- `TypeCorrect`, `ArmedIsReady` (`ArmedMeansReady`), `DevicesStayOpen`
  (`DevicesOutliveThreads`; of cameras, unless one was replaced during a run),
  `OneLoopPerRole` (`LoopsAreExclusive`) and
  `NobodyIsLeftBehind` (`EveryThreadIsTold`) from it.

Its inductive invariant has a part for each thing the safety properties take for
granted: which stream a call has got to (`CallInv`); that a thread in its loop has its
`is_running` set and that `acquire_start` launches only roles that have none
(`FlagsInv`), from which follows that a thread it forgets has left its loop (`OldInv`);
that a running device has its thread and a thread its device (`UseInv`); that a filter
or sink whose source is gone was told or has just been launched (`ToldInv`); and that
streams that are not valid are quiet (`ReadyInv`), without which `acquire_get_state`,
which looks at the valid ones only, could say Armed of a runtime at work. `ThreadLeaves`,
`ThreadFlags` and `ThreadDevices` say once what any thread's step can do, `LaunchOne`
what creating one does.

`MonitorProofs`, for every capacity, set of lengths, set of amounts the client
consumes and bound on the bytes:

- `MonitorInvariance`: `MonitorSpec => []MonitorIInv`;
- `MonitorTypeCorrect`, `FlushEmpties` (`FlushEmptiesMonitor`), `ClientSeesThisRun`
  (`ClientSeesOnlyThisRun`), `ClientSliceStays` (`ClientSliceStaysValid`) and
  `FlushIsBounded` (`FlushIsShort`) from it.

The channel's `IInv` cannot be carried over as it is: `acquire_stop` maps with a reader
that may still be mapped, and `channel_read_map` then moves that reader to the head and
hands out nothing, but leaves it mapped with the client's marks. `Misused` is that state,
`OutletInv` the channel's invariant but for the slice of such a reader, and says why
unmapping it does no harm: either its marks are not used up, or they are at the head.
`FlushInv` says how far the flush has come after each round (into the writer's lap, to
the head, nothing found), which is why three rounds are enough and the reader is at the
head after them; `RunInv` carries that to the next acquisition, and `ClientInv` ties what
the client holds to the reader's slice. To say what may be assumed of readers without
`rd_status`, which a misused reader loses, `CursorInv` of `Channel` is `HoldsInv` (the
laps) and the status apart.

`StreamProofs`, for every number of frames per run, window, length of queue and number of
runs, and any of the mishaps in any of them:

- `StreamInvariance`: `Spec => []StreamIInv`;
- `StreamTypeCorrect`, `StorageIsInOrder` (`StoredInOrder`), `NoFrameIsLost`
  (`EveryFrameIsStored`), `WindowsAreWhole` (`AveragesAreWhole`), `SignalsAreKept`
  (`StopSignalsAreKept`) and `ResetFreesSink` (`OneWriterOfSink`) from it.

None of these is inductive. That storage is in order needs the order of everything still
on its way: the sink's queue, the filter's sum, and what is left of the filter's slice,
in that order (`OrderInv`), and that what the source writes next is newer than all of it
(`NumbersInv`). That nothing is lost needs to know where each frame sent is (stored,
queued, or skipped by the reader) and that the sink, once told to stop, empties a queue
its writer has left (`DeliveryInv`). Stop signals are kept because a thread that has
cleared its flag has seen it (`SignalsInv`); that only one thread writes `sink.in` rests on
the handshake of the filter's reset (`ResetInv`). No queue is overfilled by two writers
because what they share is one region, and `RegionInv` says that wherever the mark is
beyond the head there is room for it; it also says that until averaging is switched each
queue has one writer, whose mark it is, so that what is committed is what was written.
`PhaseInv` and `SliceInv` say who is at work
when, and what the filter has of its queue.

`FramesProofs`, for every number of images and their pixels, set of windows, ring of
regions, set of shapes and sample types, delay and number of runs:

- `FramesInvariance`: `Spec => []FramesIInv`;
- `FramesTypeCorrect`, `MeansRight` (`MeansAreRight`), `LastIsASum`
  (`OnlyTheLastIsASum`), `OneShape` (`OneShapePerAverage`) and `DelayKept`
  (`WriteDelayIsKept`) from it.

What a pass over a slice does is a recursive function, of whatever length the slice is.
The library's induction theorems cannot be used, but induction over a *set* of numbers
can: `LeastOf` (from the well-foundedness of `<`) gives `FromZero`, that a set with 0 and
the successor of each of its members holds all numbers. `PassOverIs` so gets the equations
of the pass from its CHOOSE, and `PassKeeps` the rule the rest goes by: what
`AddImage` keeps, from one frame of the slice to the next, the pass keeps. `GoodPass(i)` is
what holds after i frames: the accumulator adds images of one shape, each of them once and
earlier than those of the frames to come (else the sum of a union would not be the sum of
the sums), and what was published is averages but for a last one after a failure. The sum
over a set of images, a fold that chooses which is next, is shown not to depend on the
choice (`SumIs`) and to be divisible by their number (`SumDivides`), which makes `Normalized`
exact. `SplitIs` says what the split at the write delay consumes is old enough.
`ImagesInv` and `SumInv` carry this from pass to pass, `PublishedInv` that while a filter
runs it has published averages only.

Assumed: the named ASSUMEs of `Channel` (a positive capacity smaller than 2^w, at
most eight readers, positive lengths, a controller that is no reader), of `Monitor` (its
two readers), of `Runtime` (at least one stream, a number of events,
any set of configurations a client may ask for), of `VideoStream`
(windows of two or more, a queue of at least one frame) and of `Frames`
(windows of two or more, a region at least, pixels that numbers of images divide); that
the lock excludes; that cursors' cycle counters do not overflow (2^64 laps).

Only model-checked: all liveness (`WriterProceedsUnlessAtLapEnd` and its like, fairness and
ENABLED are beyond the prover). That the queues of `VideoStream` do what `ByteStream`
promises is argued above, not proved.

## 5. What is not modelled

- cameras, storage devices, the logger and the platform, which are submodules;
  they appear as their effects (a frame, no frame, an error; a lock, a sleep);
- device selection and the copying of properties in and out
  (`acquire_get_configuration`, `acquire_get_configuration_metadata`,
  `acquire_get_shape`), `acquire_execute_trigger`, null arguments and the error path
  of `acquire_configure` they lead to;
- a `thread_create` or an allocation that fails;
- the throttler, which delays a thread and does nothing else;
- `check_frame_id`, which logs;
- the bytes of a frame: an element of a slice is a whole frame, `bytes_of_frame` is
  its boundary, and rounding of floating point pixels is left out;
- what a region written by two threads contains, and what a reader makes of it and of the
  frame boundaries after it; what a thread does with a camera that was closed under it;
- queues of different lengths in frames: `filter.in` and `sink.in` have as many bytes, and
  an averaged frame has more than a raw one. With windows shorter than their ratio a filter
  that is far behind may find `sink.in` full when the sink has already left;
- reads of `video_sink_bytes_waiting` torn by a write between its three loads, and a
  client that reads while another of its threads is inside the flush of
  `acquire_stop`: data races of the caller, whose outcome the code does not define;
- more than one forgotten thread at a time in `Runtime`, and one forgotten after an
  "early" start.

## 6. Plan

Done, in this order: `ByteStream`, `Channel`, `ChannelProofs`, `ChannelRefinement`,
`Monitor`, `VideoStream`, `Runtime`, `Frames`, `RuntimeProofs`, `MonitorProofs`,
`StreamProofs`, `FramesProofs`. Every invariant the passing runs check is a theorem.

Next:

1. A composition of `VideoStream` with `Channel`'s promise: an abstract queue of frames
   that `ByteStream` implements when it commits a frame at a time, and whose operations
   the queue actions of `VideoStream` are.
2. A length of its own for each queue of `VideoStream`, and what then becomes of a filter
   that still publishes when the sink has left.
3. Action properties about what a step may never do in `VideoStream` and `Runtime` (who
   may take a frame from a queue, who may close a device), from the same invariants.
4. The safety half of the liveness properties: that whoever waits in a state that is not
   one of the excepted ones has somebody who can wake it.
