-------------------------------- MODULE Frames --------------------------------
(***************************************************************************)
(* What is in the frames of a video stream whose frames are averaged: the  *)
(* headers the source thread writes (source.c), the sums and averages      *)
(* process_data builds in regions of sink.in (filter.c), and which frames  *)
(* the sink takes for old enough to write (vfslice.c, sink.c).             *)
(*                                                                         *)
(* A pass of a thread over the slice it has mapped is one step; how passes *)
(* interleave, stop and wait is the subject of VideoStream.  An averaged   *)
(* frame has one size, so sink.in's buffer is a ring of regions; what a    *)
(* region contains stays there until it is written to again.  An image is  *)
(* one pixel: a number that every number of images divides, so that no     *)
(* average is rounded.                                                     *)
(***************************************************************************)
EXTENDS Integers, Sequences, FiniteSets, FiniteSetsExt

CONSTANTS
  MaxFrames,     \* max_frame_count
  Windows,       \* values of filter_window_frames
  Regions,       \* of sink.in's buffer
  Shapes,        \* dims and strides of an image
  SampleTypes,
  Supported,     \* those accumulate can read
  WriteDelay,    \* write_delay_ms; 0 for less than a microsecond
  Pixel,         \* of each image the camera takes
  MaxTicks,      \* bound: readings of the clock
  MaxGrabbed,    \* bound: images the camera takes
  MaxRuns        \* bound: acquisitions

ASSUME SizesAssumption ==
  /\ MaxFrames \in Nat /\ Regions \in Nat \ {0} /\ WriteDelay \in Nat
  /\ Windows \subseteq Nat \ {0, 1}
  /\ Supported \subseteq SampleTypes
ASSUME TicksAssumption ==
  MaxTicks \in Nat /\ MaxGrabbed \in Nat /\ MaxRuns \in Nat
ASSUME PixelAssumption ==
  /\ Pixel \in [1 .. MaxGrabbed -> Nat]
  /\ \A id, n \in 1 .. MaxGrabbed : Pixel[id] % n = 0

VARIABLES
  now,                   \* the clock
  running,               \* the threads that have not returned
  iframe,                \* source: frames written in this run
  grabbed,               \* images the camera has given
  camera,                \* the type and shape of its images
  filter_in,             \* queues
  sink_in,
  region,                \* the value in each region of sink.in
  head,                  \* the region that is next
  accumulator,           \* filter: the frame it adds to, or NoFrame
  filter_window_frames,
  stored,
  run                    \* history: the number of this acquisition

queues == <<filter_in, sink_in>>
sums == <<region, head, accumulator>>
source == <<iframe, grabbed, camera>>
vars == <<now, running, source, queues, sums, filter_window_frames, stored, run>>

Threads == {"source", "filter", "sink"}

Images == [id : 1 .. MaxGrabbed, shape : Shapes]

\* A frame: its header, its pixels, and as history the images it adds up, how
\* it was published and by which run, and whether its region was blank.
NoFrame == [frame_id |-> 0, acq_thread |-> 0, shape |-> CHOOSE s \in Shapes : TRUE,
            pixels |-> 0, of |-> {}, as |-> "none", by |-> 0, blank |-> TRUE]

AnyFrame ==
  [frame_id : 0 .. MaxFrames - 1, acq_thread : 0 .. MaxTicks, shape : Shapes,
   pixels : Nat, of : SUBSET Images, as : {"image", "sum", "mean", "failure"},
   by : 1 .. MaxRuns, blank : BOOLEAN]

AnyStored == [frame : AnyFrame, at : 0 .. MaxTicks, flush : BOOLEAN]

Elements(s) == {s[i] : i \in DOMAIN s}

\* Type invariant.
TypeOK ==
  /\ now \in 0 .. MaxTicks /\ run \in 0 .. MaxRuns
  /\ running \subseteq Threads
  /\ iframe \in 0 .. MaxFrames /\ grabbed \in 0 .. MaxGrabbed
  /\ camera \in [type : SampleTypes, shape : Shapes]
  /\ filter_in \in Seq(AnyFrame) /\ sink_in \in Seq(AnyFrame)
  /\ Len(sink_in) + (IF accumulator = NoFrame THEN 0 ELSE 1) <= Regions
  /\ region \in [0 .. Regions - 1 -> Nat] /\ head \in 0 .. Regions - 1
  /\ accumulator \in AnyFrame \cup {NoFrame}
  /\ filter_window_frames \in Windows
  /\ stored \in Seq(AnyStored)

\* acquire_init; channel_new clears the buffer.
Init ==
  /\ now = 0 /\ running = {} /\ run = 0
  /\ iframe = 0 /\ grabbed = 0
  /\ camera \in [type : SampleTypes, shape : Shapes]
  /\ filter_in = <<>> /\ sink_in = <<>>
  /\ region = [r \in 0 .. Regions - 1 |-> 0] /\ head = 0
  /\ accumulator = NoFrame
  /\ filter_window_frames \in Windows
  /\ stored = <<>>

-------------------------------------------------------------------------------
(* The source.                                                             *)

\* camera_get_frame gives an image; it is written to filter.in.
SourceWrites ==
  LET id == grabbed + 1
  IN /\ "source" \in running /\ iframe < MaxFrames /\ id <= MaxGrabbed
     /\ filter_in' = Append(filter_in,
          [frame_id |-> iframe, acq_thread |-> now, shape |-> camera.shape,
           pixels |-> Pixel[id], of |-> {[id |-> id, shape |-> camera.shape]},
           as |-> "image", by |-> run, blank |-> TRUE])
     /\ iframe' = iframe + 1 /\ grabbed' = id
  /\ UNCHANGED <<now, running, camera, sink_in, sums, filter_window_frames, stored, run>>

\* It returns.
SourceExits ==
  /\ "source" \in running
  /\ running' = running \ {"source"}
  /\ UNCHANGED <<now, source, queues, sums, filter_window_frames, stored, run>>

-------------------------------------------------------------------------------
(* process_data.  Its state while it goes over a slice: the regions, the   *)
(* accumulator, what it has published, whether it has failed, and whether  *)
(* it has to wait for a region that the sink has not read.                 *)

Pass == [region |-> region, head |-> head, acc |-> accumulator, out |-> <<>>,
         failed |-> FALSE, waits |-> FALSE]

\* channel_write_unmap: the accumulator is published.
Publish(p, acc, as) ==
  [p EXCEPT !.acc = NoFrame,
            !.head = (@ + 1) % Regions,
            !.region[p.head] = acc.pixels,
            !.out = Append(@, [acc EXCEPT !.as = as])]

\* The accumulator's region is written, and kept.
Keep(p, acc) == [p EXCEPT !.acc = acc, !.region[p.head] = acc.pixels]

\* accumulate of a further image.
Sum(acc, in) == [acc EXCEPT !.pixels = @ + in.pixels, !.of = @ \cup in.of]

\* Mutant: what a full window is divided by.
NormalizedByWindow(acc) == [acc EXCEPT !.pixels = @ \div filter_window_frames]

\* normalize; frame_count is the number of images added.
Normalized(acc) == [acc EXCEPT !.pixels = @ \div Cardinality(acc.of)]

\* The header of a new accumulator, in a region of sink.in that is not cleared.
NewAccumulator(p, in) ==
  [in EXCEPT !.pixels = p.region[p.head], !.of = {}, !.as = "sum", !.by = run,
             !.blank = p.region[p.head] = 0]

\* Mutant: a region that the sink has not read is taken.
MappedAnyway(p) == p

\* channel_write_map, unless there is an accumulator.
Mapped(p) ==
  [p EXCEPT !.waits = @ \/ (p.acc = NoFrame /\ Len(sink_in) + Len(p.out) >= Regions)]

\* Mutant: an average of images of different shapes.
AddAnyImage(p, in) ==
  LET acc == IF p.acc = NoFrame THEN NewAccumulator(p, in) ELSE p.acc
      sum == Sum(acc, in)
  IN IF Cardinality(sum.of) >= filter_window_frames
     THEN Publish(p, Normalized(sum), "mean") ELSE Keep(Mapped(p), sum)

\* A frame of the slice.  One of another shape is dropped, and the accumulator
\* with it; if accumulate fails the region is published as it is.
AddImage(p, in) ==
  LET acc == IF p.acc = NoFrame THEN NewAccumulator(p, in) ELSE p.acc
      sum == Sum(acc, in)
  IN CASE p.failed -> p
       [] ~p.failed /\ acc.shape # in.shape -> [p EXCEPT !.acc = NoFrame]
       [] ~p.failed /\ acc.shape = in.shape /\ camera.type \notin Supported ->
            [Publish(Mapped(p), acc, "failure") EXCEPT !.failed = TRUE]
       [] OTHER ->
            IF p.acc # NoFrame /\ Cardinality(sum.of) >= filter_window_frames
            THEN Publish(p, Normalized(sum), "mean") ELSE Keep(Mapped(p), sum)

\* Over the first n frames of filter.in.
PassOver(n) ==
  LET Over[i \in 0 .. n] == IF i = 0 THEN Pass ELSE AddImage(Over[i - 1], filter_in[i])
  IN Over[n]

\* The end of a pass: unless it failed, the slice is consumed.
Ends(p, n) ==
  /\ region' = p.region /\ head' = p.head /\ accumulator' = p.acc
  /\ sink_in' = sink_in \o p.out
  /\ filter_in' = IF p.failed THEN filter_in ELSE SubSeq(filter_in, n + 1, Len(filter_in))

\* Mutant: a window ends with the slice.
FilterPassesWindow ==
  /\ "filter" \in running
  /\ \E n \in 1 .. Len(filter_in) :
       LET p == PassOver(n)
           q == IF p.acc = NoFrame THEN p ELSE Publish(p, p.acc, "sum")
       IN ~q.waits /\ Ends(q, n) /\ running' = running \ {t \in {"filter"} : p.failed}
  /\ UNCHANGED <<now, source, filter_window_frames, stored, run>>

\* The slice may end before the queue does.
FilterPasses ==
  /\ "filter" \in running
  /\ \E n \in 1 .. Len(filter_in) :
       LET p == PassOver(n)
       IN ~p.waits /\ Ends(p, n) /\ running' = running \ {t \in {"filter"} : p.failed}
  /\ UNCHANGED <<now, source, filter_window_frames, stored, run>>

\* Told to stop it makes one more pass, and publishes the sum it has.
FilterExits ==
  /\ "filter" \in running /\ "source" \notin running
  /\ \E n \in 0 .. Len(filter_in) :
       LET p == PassOver(n)
           last == IF p.acc = NoFrame THEN p ELSE Publish(p, p.acc, "sum")
       IN ~p.waits /\ Ends(last, n)
  /\ running' = running \ {"filter"}
  /\ UNCHANGED <<now, source, filter_window_frames, stored, run>>

-------------------------------------------------------------------------------
(* The sink.                                                               *)

\* Mutant: the wrong side of the delay.
TooYoungWhenOld(f) == f.acq_thread < now - WriteDelay

\* clock_cmp, of a clock set back by the delay, with a frame's timestamp.
TooYoung(f) == f.acq_thread > now - WriteDelay

\* vfslice_split_at_delay_ms: how many frames are consumed.
SplitAtDelay(slice) ==
  LET Cur[i \in 1 .. Len(slice) + 1] ==
        IF i > Len(slice) \/ TooYoung(slice[i]) THEN i - 1 ELSE Cur[i + 1]
  IN IF WriteDelay = 0 THEN Len(slice) ELSE Cur[1]

\* storage_append, and channel_read_unmap.
Stores(n, flush) ==
  /\ stored' = stored \o [i \in 1 .. n |-> [frame |-> sink_in[i], at |-> now, flush |-> flush]]
  /\ sink_in' = SubSeq(sink_in, n + 1, Len(sink_in))

\* A slice is mapped, and as much of it as is old enough is appended.
SinkPolls ==
  /\ "sink" \in running
  /\ \E n \in 1 .. Len(sink_in) : Stores(SplitAtDelay(SubSeq(sink_in, 1, n)), FALSE)
  /\ UNCHANGED <<now, running, source, filter_in, sums, filter_window_frames, run>>

\* Told to stop it appends all there is, and returns.  The filter may have more
\* to publish then.
SinkExits ==
  /\ "sink" \in running /\ "source" \notin running
  /\ Stores(Len(sink_in), TRUE)
  /\ running' = running \ {"sink"}
  /\ UNCHANGED <<now, source, filter_in, sums, filter_window_frames, run>>

-------------------------------------------------------------------------------
(* The client and the clock.                                               *)

\* acquire_start.  The accumulator is a variable of the thread.
Start ==
  /\ running = {} /\ run < MaxRuns
  /\ run' = run + 1 /\ running' = Threads
  /\ iframe' = 0 /\ accumulator' = NoFrame /\ stored' = <<>>
  /\ UNCHANGED <<now, grabbed, camera, queues, region, head,
                 filter_window_frames>>

\* acquire_configure, at any time: the camera's shape or the window is another.
Configure ==
  /\ \/ camera' \in [type : {camera.type}, shape : Shapes] /\ UNCHANGED filter_window_frames
     \/ filter_window_frames' \in Windows /\ UNCHANGED camera
  /\ UNCHANGED <<now, running, iframe, grabbed, queues, sums, stored, run>>

Tick ==
  /\ now < MaxTicks /\ now' = now + 1
  /\ UNCHANGED <<running, source, queues, sums, filter_window_frames, stored, run>>

Next ==
  \/ SourceWrites \/ SourceExits \/ FilterPasses \/ FilterExits
  \/ SinkPolls \/ SinkExits \/ Start \/ Configure \/ Tick

Spec == Init /\ [][Next]_vars

-------------------------------------------------------------------------------
(* Safety.                                                                 *)

Frames == Elements(filter_in) \cup Elements(sink_in) \cup {s.frame : s \in Elements(stored)}
SumOf(images) == MapThenSumSet(LAMBDA im : Pixel[im.id], images)
IsMean(f) == f.pixels * Cardinality(f.of) = SumOf(f.of)

\* What the filter has published in this run, and what earlier ones left.
Published == [i \in DOMAIN stored |-> stored[i].frame] \o sink_in

\* What is published as an average is the mean of the images it adds up,
\* whatever the slices and changes of the window, if it was built in a region
\* nothing had been written to.
MeansAreRight == \A f \in Frames : f.as = "mean" /\ f.blank => IsMean(f)

\* Every averaged frame is the mean of its images.
AveragesAreMeans == \A f \in Frames : f.as = "mean" => IsMean(f)

\* A frame that was not normalised, because its window was not full or because
\* accumulate failed, is the last the filter thread published in its run.
OnlyTheLastIsASum ==
  \A i, j \in DOMAIN Published :
    i < j /\ Published[i].by = Published[j].by => Published[i].as = "mean"

\* An average adds images of one shape, that of its header, though the shape
\* may change in the middle of a window.
OneShapePerAverage == \A f \in Frames : \A im \in f.of : im.shape = f.shape

\* Nothing is appended to storage before write_delay_ms has passed since the
\* source wrote (the first image of) it, but by the flush at the end.
WriteDelayIsKept ==
  \A s \in Elements(stored) : s.flush \/ s.frame.acq_thread + WriteDelay <= s.at

-------------------------------------------------------------------------------
(* The inductive invariant behind these (FramesProofs).                    *)

OfOneShape(f) == \A im \in f.of : im.shape = f.shape
Earlier(f, g) == \A im \in f.of, jm \in g.of : im.id < jm.id

\* What the source writes is one image each, in the order they were taken.
IsImage(f) ==
  \E id \in 1 .. grabbed :
    /\ f.of = {[id |-> id, shape |-> f.shape]} /\ f.pixels = Pixel[id]
    /\ f.as = "image" /\ f.acq_thread <= now

ImagesInv ==
  /\ \A f \in Elements(filter_in) : IsImage(f)
  /\ \A i, j \in DOMAIN filter_in : i < j => Earlier(filter_in[i], filter_in[j])

\* The accumulator adds up images that the filter has done with, each once.
SumInv ==
  accumulator # NoFrame =>
    /\ accumulator.by = run /\ accumulator.acq_thread <= now
    /\ OfOneShape(accumulator) /\ \A im \in accumulator.of : im.id <= grabbed
    /\ \A f \in Elements(filter_in) : Earlier(accumulator, f)
    /\ accumulator.blank => accumulator.pixels = SumOf(accumulator.of)

\* While the filter runs all it has published is averages.
PublishedInv ==
  /\ running # {} => run >= 1
  /\ \A f \in Elements(sink_in) : f.acq_thread <= now
  /\ \A f \in Elements(Published) :
       f.by <= run /\ (f.by = run /\ "filter" \in running => f.as = "mean")

FramesIInv ==
  /\ TypeOK /\ ImagesInv /\ SumInv /\ PublishedInv
  /\ MeansAreRight /\ OnlyTheLastIsASum /\ OneShapePerAverage /\ WriteDelayIsKept

===============================================================================
