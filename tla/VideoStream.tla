------------------------------ MODULE VideoStream ------------------------------
(***************************************************************************)
(* One video stream (video.h): the source, filter and sink threads, the    *)
(* two queues between them and the client thread that starts, stops and    *)
(* aborts it.  The threads are coordinated by flags that any of them may   *)
(* store to without a lock (source.c, filter.c, sink.c, acquire.c).        *)
(*                                                                         *)
(* The queues are the ByteStream that Channel implements, in units of      *)
(* frames: in order, bounded by the reader's unread frames, a reader that  *)
(* may be handed less than all there is, and that may skip what is unread  *)
(* (Channel: ReadAdvance).  The sink's map, append and unmap are one step: *)
(* what it appends is committed and does not change while it is mapped,    *)
(* and how much of what is there it takes is chosen anyway.                *)
(*                                                                         *)
(* Once averaging is switched, source and filter may both write to sink.in *)
(* (OneWriterOfSink).  Both are then given the bytes at head, and the mark *)
(* that says how far they go is one for both: whoever commits moves head   *)
(* to it, for the other too.  What such a region contains is not told      *)
(* (Torn), nor what its reader makes of it.                                *)
(***************************************************************************)
EXTENDS Integers, Sequences, FiniteSets

CONSTANTS
  MaxFrames,    \* max_frame_count
  Window,       \* filter_window_frames while averaging is enabled
  QueueFrames,  \* frames that fit in a queue
  MaxRuns,      \* bound: acquisitions
  Faults,       \* what may go wrong or be done in a run
  MaxMishaps,   \* bound: of how many kinds, an abort not counted,
  MishapRuns    \* bound: and in the first how many runs

MishapKinds ==
  {"camera", "storage", "filter", "shape", "start", "switch", "abort"}

Lasting == {"switch", "filter"}   \* those that later runs may feel

ASSUME FramesAssumption == MaxFrames \in Nat
ASSUME WindowAssumption == Window \in Nat /\ Window > 1
ASSUME QueueAssumption == QueueFrames \in Nat \ {0}
ASSUME RunsAssumption == MaxRuns \in Nat
ASSUME FaultsAssumption == Faults \subseteq MishapKinds
ASSUME MishapsAssumption == MaxMishaps \in Nat /\ MishapRuns \in Nat

VARIABLES
  phase,                  \* where the client thread is in start, stop and abort
  is_stopping,            \* the flags of each thread
  is_running,
  src,                    \* source: pc, iframe, out, its last_stream, and
                          \* (history) whether it started with sink.in while
                          \* the filter had frames
  flt,                    \* filter: pc, frames mapped, done with how many of
                          \* them, ids summed up in acc (none: no region held),
                          \* whether this is the last pass, and (history)
                          \* whether its last reset left frames in filter.in
  snk,                    \* sink: pc
  enable_filter,
  sig_accumulator_reset,
  reset_event,            \* accumulator_reset_event is signalled
  queue,                  \* filter.in and sink.in
  mapped,                 \* the writers that had bytes beyond head when the
                          \* queue's mapped mark was set; none: it is at head
  readers,                \* threads that have mapped their queue once
  is_accepting_writes,    \* of sink.in; filter.in is never closed
  stored,                 \* frames appended to storage in this run
  skipped,                \* history: frames committed that no reader got
  mishaps,                \* history: what went wrong or was done in this run
                          \* (what is Lasting: or before)
  run                     \* history: the number of this run

flags == <<is_stopping, is_running>>
reset == <<sig_accumulator_reset, reset_event>>
queues == <<queue, mapped, readers, skipped>>
setup == <<phase, enable_filter, is_accepting_writes, run>>
vars == <<flags, src, flt, snk, reset, queues, setup, stored, mishaps>>

Threads == {"source", "filter", "sink"}
Queues == {"filter", "sink"}

\* The frames of the camera are numbered through all runs.  What travels is
\* the set of those it adds up.
RunIds(r) == (r - 1) * MaxFrames .. r * MaxFrames - 1
Ids == 0 .. MaxRuns * MaxFrames - 1
Frames == SUBSET Ids
Torn == {}
ThisFrame == {(run - 1) * MaxFrames + src.iframe}

Elements(s) == {s[i] : i \in DOMAIN s}

\* Type invariant.  No queue has more frames than it holds, whoever writes.
TypeOK ==
  /\ phase \in {"Armed", "StartFilter", "StartSource", "Started", "Closing",
                "Joining"}
  /\ is_stopping \in [Threads -> BOOLEAN] /\ is_running \in [Threads -> BOOLEAN]
  /\ src \in [pc : {"Exited", "Top", "Await", "Map", "Camera", "Unmap",
                    "SigFilter", "SigSink", "Clear"},
              iframe : 0 .. MaxFrames, out : Queues \cup {"none"},
              early : BOOLEAN]
  /\ flt \in [pc : {"Exited", "Top", "Map", "Frames", "Reset", "Publish"},
              mapped : 0 .. QueueFrames, done : 0 .. QueueFrames,
              acc : Frames, last : BOOLEAN, left : BOOLEAN]
  /\ snk \in {"Exited", "Top", "Poll", "Flush", "Stop"}
  /\ enable_filter \in BOOLEAN /\ is_accepting_writes \in BOOLEAN
  /\ sig_accumulator_reset \in BOOLEAN /\ reset_event \in BOOLEAN
  /\ queue \in [Queues -> Seq(Frames)] /\ stored \in Seq(Frames)
  /\ \A q \in Queues : Len(queue[q]) <= QueueFrames
  /\ mapped \in [Queues -> SUBSET {"source", "filter"}]
  /\ readers \subseteq Queues /\ skipped \subseteq Frames
  /\ mishaps \subseteq Faults /\ run \in 0 .. MaxRuns

\* acquire_init, and a first acquire_configure.
Init ==
  /\ phase = "Armed"
  /\ is_stopping = [t \in Threads |-> FALSE]
  /\ is_running = [t \in Threads |-> FALSE]
  /\ src = [pc |-> "Exited", iframe |-> 0, out |-> "none", early |-> FALSE]
  /\ flt = [pc |-> "Exited", mapped |-> 0, done |-> 0, acc |-> {}, last |-> FALSE,
            left |-> FALSE]
  /\ snk = "Exited"
  /\ enable_filter \in BOOLEAN
  /\ sig_accumulator_reset = FALSE /\ reset_event = FALSE
  /\ queue = [q \in Queues |-> <<>>] /\ mapped = [q \in Queues |-> {}]
  /\ readers = {}
  /\ is_accepting_writes = TRUE
  /\ stored = <<>> /\ skipped = {} /\ mishaps = {} /\ run = 0

-------------------------------------------------------------------------------
(* Queues and flags.                                                       *)

Store(flag, t, value) == flag' = [flag EXCEPT ![t] = value]
\* A thread clears its flags when it returns.  It alone reads is_stopping, and
\* no thread reads is_running, so the order of the two stores is not seen here.
Finish(t) == Store(is_stopping, t, FALSE) /\ Store(is_running, t, FALSE)

Happens(what) ==
  /\ what \in Faults /\ run <= MishapRuns
  /\ mishaps' = mishaps \cup {what}
  /\ Cardinality(mishaps' \ {"abort"}) <= MaxMishaps

Accepts(q) == q = "sink" => is_accepting_writes
Refused(q) == q \in readers /\ ~Accepts(q)   \* channel_write_map returns NULL

\* All that is unread in q is lost to its reader.
Skip(q) ==
  /\ queue' = [queue EXCEPT ![q] = <<>>]
  /\ skipped' = skipped \cup Elements(queue[q])

\* The writers that have a region of q, which is at head or was.
Holding(q) ==
  {w \in {"source", "filter"} :
     IF w = "source" THEN src.pc = "Camera" /\ src.out = q
                     ELSE q = "sink" /\ flt.acc # {}}

\* channel_write_map gives w the bytes at head, whoever else has them, and sets
\* the mark.  With nobody reading q it does so at once, and starts over if q is
\* full.
MapRegion(w, q) ==
  /\ \/ Len(queue[q]) < QueueFrames /\ ~Refused(q) /\ UNCHANGED <<queue, skipped>>
     \/ Len(queue[q]) >= QueueFrames /\ q \notin readers /\ Skip(q)
  /\ mapped' = [mapped EXCEPT ![q] = {w} \cup Holding(q)]

\* channel_write_unmap, by w with f written: head moves to the mark, unless q is
\* closed.  That commits f if w alone had a region, and nothing if the mark is
\* at head.
Commit(w, q, f) ==
  IF Accepts(q) /\ mapped[q] # {}
  THEN /\ queue' = [queue EXCEPT ![q] = Append(@, IF mapped[q] = {w} THEN f ELSE Torn)]
       /\ mapped' = [mapped EXCEPT ![q] = {}]
  ELSE UNCHANGED <<queue, mapped>>

\* channel_abort_write: the mark moves back to head, unless q is closed.
AbortWrite(q) == mapped' = IF Accepts(q) THEN [mapped EXCEPT ![q] = {}] ELSE mapped

\* channel_read_map hands out nothing: all is read, or is skipped.
ReadNothing(q) == Skip(q) /\ readers' = readers \cup {q}

\* The first n frames of q are consumed.
Consume(q, n) == queue' = [queue EXCEPT ![q] = SubSeq(@, n + 1, Len(@))]

-------------------------------------------------------------------------------
(* video_source_thread.                                                    *)

Goto(pc) == src' = [src EXCEPT !.pc = pc]

\* Mutant: one frame more than max_frame_count.
OneFrameMore == ~is_stopping["source"] /\ src.iframe <= MaxFrames

MoreFrames == ~is_stopping["source"] /\ src.iframe < MaxFrames
LeavesFilter == src.out = "filter" /\ ~enable_filter

FilterHasFrames == queue["filter"] # <<>>
SinkFirst ==
  ~enable_filter /\ (src.early \/ (src.out = "none" /\ (FilterHasFrames \/ flt.acc # {})))

\* Mutant: the source does not wait for the filter.
SourceLoopsOn ==
  /\ src.pc = "Top" /\ MoreFrames
  /\ src' = [src EXCEPT !.pc = "Map",
                        !.out = IF enable_filter THEN "filter" ELSE "sink",
                        !.early = SinkFirst]
  /\ sig_accumulator_reset' = (sig_accumulator_reset \/ LeavesFilter)
  /\ UNCHANGED <<flags, reset_event, queues, mishaps>>

\* The loop's test, the camera's shape, and the queue this frame goes to.
\* Leaving the filter's, the source asks for a reset first.
SourceLoops ==
  /\ src.pc = "Top" /\ MoreFrames
  /\ src' = [src EXCEPT !.pc = IF LeavesFilter THEN "Await" ELSE "Map",
                        !.out = IF enable_filter THEN "filter" ELSE "sink",
                        !.early = SinkFirst]
  /\ sig_accumulator_reset' = (sig_accumulator_reset \/ LeavesFilter)
  /\ UNCHANGED <<flags, reset_event, queues, mishaps>>

\* event_wait in await_filter_reset.
SourceAwaits ==
  /\ src.pc = "Await" /\ reset_event
  /\ reset_event' = FALSE
  /\ Goto("Map")
  /\ UNCHANGED <<flags, sig_accumulator_reset, queues, mishaps>>

\* channel_write_map, once it does not block.
SourceMaps ==
  /\ src.pc = "Map"
  /\ \/ MapRegion("source", src.out) /\ Goto("Camera")
     \/ Refused(src.out) /\ Goto("Top") /\ UNCHANGED <<queue, mapped, skipped>>
  /\ UNCHANGED <<flags, reset, readers, mishaps>>

\* camera_get_frame gives a frame: it is committed.
SourceWrites ==
  /\ src.pc = "Camera"
  /\ Commit("source", src.out, ThisFrame)
  /\ src' = [src EXCEPT !.pc = "Top", !.iframe = @ + 1]
  /\ UNCHANGED <<flags, reset, readers, skipped, mishaps>>

\* It gives nothing: the region is given up,
SourceAborts ==
  /\ src.pc = "Camera"
  /\ AbortWrite(src.out)
  /\ Goto("Unmap")
  /\ UNCHANGED <<flags, reset, queue, readers, skipped, mishaps>>

\* and unmapped all the same, with what the filter may have mapped meanwhile.
SourceUnmaps ==
  /\ src.pc = "Unmap"
  /\ Commit("source", src.out, Torn)
  /\ Goto("Top")
  /\ UNCHANGED <<flags, reset, readers, skipped, mishaps>>

\* The camera fails, asked for its shape or for a frame, by itself or because
\* acquire_abort has stopped it.
SourceFails ==
  /\ (src.pc = "Top" /\ MoreFrames) \/ src.pc = "Camera"
  /\ Happens("camera")
     \/ ("abort" \in mishaps /\ phase = "Joining" /\ UNCHANGED mishaps)
  /\ Goto("SigFilter")
  /\ UNCHANGED <<flags, reset, queues>>

\* The loop ends.
SourceFinishes ==
  /\ src.pc = "Top" /\ ~MoreFrames
  /\ Goto("SigFilter")
  /\ UNCHANGED <<flags, reset, queues, mishaps>>

\* Mutant: the filter is not told to stop.
SignalsSinkOnly ==
  /\ \/ src.pc = "SigFilter" /\ UNCHANGED is_stopping /\ Goto("SigSink")
     \/ src.pc = "SigSink" /\ Store(is_stopping, "sink", TRUE) /\ Goto("Clear")
  /\ UNCHANGED <<is_running, reset, queues, mishaps>>

\* sig_stop_filter and then, the filter still at work or not, sig_stop_sink.
SourceSignals ==
  /\ \/ src.pc = "SigFilter" /\ Store(is_stopping, "filter", TRUE) /\ Goto("SigSink")
     \/ src.pc = "SigSink" /\ Store(is_stopping, "sink", TRUE) /\ Goto("Clear")
  /\ UNCHANGED <<is_running, reset, queues, mishaps>>

\* It clears its flags and returns.
SourceExits ==
  /\ src.pc = "Clear" /\ Goto("Exited")
  /\ Finish("source")
  /\ UNCHANGED <<reset, queues, mishaps>>

Source ==
  /\ SourceLoops \/ SourceAwaits \/ SourceMaps \/ SourceWrites \/ SourceAborts
     \/ SourceUnmaps \/ SourceFails \/ SourceFinishes \/ SourceSignals \/ SourceExits
  /\ UNCHANGED <<flt, snk, setup, stored>>

-------------------------------------------------------------------------------
(* video_filter_thread.  While acc is not empty, a region of sink.in is held. *)

FilterGoto(pc) == flt' = [flt EXCEPT !.pc = pc]

\* The loop's test; once it fails, process_data is called one more time.
FilterLoops ==
  /\ flt.pc = "Top"
  /\ flt' = [flt EXCEPT !.pc = "Map", !.last = is_stopping["filter"]]
  /\ UNCHANGED <<flags, reset, queues, mishaps>>

\* process_data maps what there is, or the part before the queue's end.
FilterMaps ==
  /\ flt.pc = "Map"
  /\ \/ ReadNothing("filter") /\ FilterGoto("Frames")
     \/ \E n \in 1 .. Len(queue["filter"]) :
          /\ flt' = [flt EXCEPT !.pc = "Frames", !.mapped = n]
          /\ readers' = readers \cup {"filter"} /\ UNCHANGED <<queue, skipped>>
  /\ UNCHANGED <<flags, reset, mapped, mishaps>>

HasFrame == flt.pc = "Frames" /\ flt.done < flt.mapped
NextFrame == queue["filter"][flt.done + 1]
Seen(acc) == flt' = [flt EXCEPT !.done = @ + 1, !.acc = acc]

\* The first frame of a window: a region of sink.in holds the sum.  The frame
\* is dropped if there is none to be had.
FilterStartsWindow ==
  /\ HasFrame /\ flt.acc = {}
  /\ \/ MapRegion("filter", "sink") /\ Seen(NextFrame)
     \/ Refused("sink") /\ Seen({}) /\ UNCHANGED <<queue, mapped, skipped>>
  /\ UNCHANGED <<flags, reset, readers, mishaps>>

\* A further frame: the average is published when the window is full.
FilterAdds ==
  LET sum == flt.acc \cup NextFrame
  IN /\ HasFrame /\ flt.acc # {}
     /\ IF Cardinality(sum) >= Window
        THEN Seen({}) /\ Commit("filter", "sink", sum)
        ELSE Seen(sum) /\ UNCHANGED <<queue, mapped>>
     /\ UNCHANGED <<flags, reset, readers, skipped, mishaps>>

\* A frame of another shape: it is dropped, and the sum with it.
FilterDropsWindow ==
  /\ HasFrame /\ flt.acc # {}
  /\ Happens("shape")
  /\ Seen({}) /\ AbortWrite("sink")
  /\ UNCHANGED <<flags, reset, queue, readers, skipped>>

\* accumulate fails, for the first frame of a window or a later one: the region
\* is published as it is, and the slice is kept.
FilterFails ==
  /\ flt.pc = "Frames" /\ flt.mapped > 0 /\ flt.acc # {}
  /\ Happens("filter")
  /\ Commit("filter", "sink", flt.acc)
  /\ flt' = [flt EXCEPT !.pc = "Publish", !.mapped = 0, !.done = 0, !.acc = {}]
  /\ UNCHANGED <<flags, reset, readers, skipped>>

\* Mutant: a window ends with the slice.
SliceEndsWindow ==
  /\ flt.pc = "Frames" /\ flt.done = flt.mapped
  /\ queue' = [filter |-> SubSeq(queue["filter"], flt.mapped + 1, Len(queue["filter"])),
               sink |-> IF flt.acc = {} \/ ~is_accepting_writes THEN queue["sink"]
                        ELSE Append(queue["sink"], flt.acc)]
  /\ mapped' = IF flt.acc = {} \/ ~is_accepting_writes THEN mapped
               ELSE [mapped EXCEPT !["sink"] = {}]
  /\ flt' = [flt EXCEPT !.pc = "Reset", !.mapped = 0, !.done = 0, !.acc = {}]
  /\ UNCHANGED <<flags, reset, readers, skipped, mishaps>>

\* All frames of the slice are seen: channel_read_unmap.
FilterUnmaps ==
  /\ flt.pc = "Frames" /\ flt.done = flt.mapped
  /\ Consume("filter", flt.mapped)
  /\ flt' = [flt EXCEPT !.pc = "Reset", !.mapped = 0, !.done = 0]
  /\ UNCHANGED <<flags, reset, mapped, readers, skipped, mishaps>>

\* The end of process_data: a reset asked for meanwhile gives up the sum.
FilterResets ==
  /\ flt.pc = "Reset"
  /\ flt' = [flt EXCEPT !.pc = IF flt.last THEN "Publish" ELSE "Top",
                        !.acc = IF sig_accumulator_reset THEN {} ELSE @,
                        !.left = IF sig_accumulator_reset THEN FilterHasFrames ELSE @]
  /\ IF sig_accumulator_reset /\ flt.acc # {} THEN AbortWrite("sink")
                                              ELSE UNCHANGED mapped
  /\ reset_event' = (reset_event \/ sig_accumulator_reset)
  /\ sig_accumulator_reset' = FALSE
  /\ UNCHANGED <<flags, queue, readers, skipped, mishaps>>

\* Finalize publishes a window that is not full, clears the flags and returns.
FilterExits ==
  /\ flt.pc = "Publish"
  /\ IF flt.acc = {} THEN UNCHANGED <<queue, mapped>>
                     ELSE Commit("filter", "sink", flt.acc)
  /\ flt' = [flt EXCEPT !.pc = "Exited", !.acc = {}]
  /\ Finish("filter")
  /\ UNCHANGED <<reset, readers, skipped, mishaps>>

Filter ==
  /\ FilterLoops \/ FilterMaps \/ FilterStartsWindow \/ FilterAdds
     \/ FilterDropsWindow \/ FilterFails \/ FilterUnmaps \/ FilterResets
     \/ FilterExits
  /\ UNCHANGED <<src, snk, setup, stored>>

-------------------------------------------------------------------------------
(* video_sink_thread.                                                      *)

Reading == snk \in {"Poll", "Flush"}

\* The loop's test.  Storage may have stopped by itself.
SinkLoops ==
  /\ snk = "Top"
  /\ \/ snk' = (IF is_stopping["sink"] THEN "Flush" ELSE "Poll") /\ UNCHANGED mishaps
     \/ Happens("storage") /\ snk' = "Flush"
  /\ UNCHANGED <<flags, queues, stored>>

\* Mutant: all of the slice is appended, less of it is consumed.
SinkAppendsTooMuch ==
  /\ Reading
  /\ \E n, m \in 1 .. Len(queue["sink"]) :
       stored' = stored \o SubSeq(queue["sink"], 1, m) /\ Consume("sink", n)
  /\ readers' = readers \cup {"sink"}
  /\ UNCHANGED <<flags, snk, mapped, skipped, mishaps>>

\* A slice is mapped, and as many of its frames as are old enough, or all of
\* them when it flushes, are appended and consumed.
SinkAppends ==
  /\ Reading
  /\ \E n \in 1 .. Len(queue["sink"]) :
       stored' = stored \o SubSeq(queue["sink"], 1, n) /\ Consume("sink", n)
  /\ readers' = readers \cup {"sink"}
  /\ UNCHANGED <<flags, snk, mapped, skipped, mishaps>>

\* Mutant: no flush.
SinkLeavesFrames ==
  /\ Reading
  /\ \/ snk = "Poll" /\ snk' = "Top" /\ ReadNothing("sink")
     \/ snk = "Flush" /\ snk' = "Stop" /\ UNCHANGED <<queue, readers, skipped>>
  /\ UNCHANGED <<flags, mapped, stored, mishaps>>

\* An empty slice ends the inner loop, and the flush.
SinkFindsNothing ==
  /\ Reading
  /\ ReadNothing("sink")
  /\ snk' = IF snk = "Poll" THEN "Top" ELSE "Stop"
  /\ UNCHANGED <<flags, mapped, stored, mishaps>>

\* storage_append fails: the source is told to stop, the slice is kept.
SinkFails ==
  /\ Reading /\ queue["sink"] # <<>>
  /\ Happens("storage")
  /\ Store(is_stopping, "source", TRUE)
  /\ readers' = readers \cup {"sink"}
  /\ snk' = "Stop"
  /\ UNCHANGED <<is_running, queue, mapped, skipped, stored>>

\* storage_stop; it clears its flags and returns.
SinkExits ==
  /\ snk = "Stop" /\ snk' = "Exited"
  /\ Finish("sink")
  /\ UNCHANGED <<queues, stored, mishaps>>

Sink ==
  /\ SinkLoops \/ SinkAppends \/ SinkFindsNothing \/ SinkFails \/ SinkExits
  /\ UNCHANGED <<src, flt, reset, setup>>

-------------------------------------------------------------------------------
(* The client thread.                                                      *)

\* The flags of a thread that is created.
Launch(t) == Store(is_stopping, t, FALSE) /\ Store(is_running, t, TRUE)

\* acquire_start: video_sink_start, with storage started afresh,
StartSink ==
  /\ phase = "Armed" /\ run < MaxRuns
  /\ Launch("sink") /\ snk' = "Top"
  /\ is_accepting_writes' = TRUE
  /\ phase' = "StartFilter"
  /\ run' = run + 1 /\ stored' = <<>> /\ mishaps' = mishaps \cap Lasting
  /\ UNCHANGED <<src, flt, enable_filter>>

\* video_filter_start,
StartFilter ==
  /\ phase = "StartFilter"
  /\ Launch("filter") /\ flt' = [flt EXCEPT !.pc = "Top", !.last = FALSE, !.left = FALSE]
  /\ phase' = "StartSource"
  /\ UNCHANGED <<src, snk, enable_filter, is_accepting_writes, run, stored, mishaps>>

\* and video_source_start.
StartSource ==
  /\ phase = "StartSource"
  /\ Launch("source") /\ src' = [pc |-> "Top", iframe |-> 0, out |-> "none", early |-> FALSE]
  /\ phase' = "Started"
  /\ UNCHANGED <<flt, snk, enable_filter, is_accepting_writes, run, stored, mishaps>>

\* The camera has no shape to reserve, or does not start: acquire_start fails,
\* and leaves the threads it created running.
StartFails ==
  /\ phase \in {"StartFilter", "StartSource"}
  /\ Happens("start")
  /\ phase' = "Started"
  /\ UNCHANGED <<flags, src, flt, snk, enable_filter, is_accepting_writes, run, stored>>

\* acquire_configure, between runs or during one (bound: once).
Configure ==
  /\ phase \in {"Armed", "Started"}
  /\ "switch" \notin mishaps /\ Happens("switch")
  /\ enable_filter' = ~enable_filter
  /\ UNCHANGED <<flags, src, flt, snk, phase, is_accepting_writes, run, stored>>

\* acquire_stop, or acquire_abort, which sets the source's flag first,
CallStop ==
  /\ phase = "Started"
  /\ \/ phase' = "Joining" /\ UNCHANGED <<is_stopping, mishaps>>
     \/ /\ phase' = "Closing"
        /\ Happens("abort") /\ Store(is_stopping, "source", TRUE)
  /\ UNCHANGED <<is_running, src, flt, snk, enable_filter, is_accepting_writes,
                 run, stored>>

\* then calls channel_accept_writes(&sink.in, 0), then acquire_stop.
AbortCloses ==
  /\ phase = "Closing" /\ phase' = "Joining"
  /\ is_accepting_writes' = FALSE
  /\ UNCHANGED <<flags, src, flt, snk, enable_filter, run, stored, mishaps>>

\* The three threads are joined, and sink.in is opened again.
Joined ==
  /\ phase = "Joining" /\ phase' = "Armed"
  /\ src.pc = "Exited" /\ flt.pc = "Exited" /\ snk = "Exited"
  /\ is_accepting_writes' = TRUE
  /\ UNCHANGED <<flags, src, flt, snk, enable_filter, run, stored, mishaps>>

Client ==
  /\ StartSink \/ StartFilter \/ StartSource \/ StartFails \/ Configure
     \/ CallStop \/ AbortCloses \/ Joined
  /\ UNCHANGED <<reset, queues>>

Next == Source \/ Filter \/ Sink \/ Client

Spec == Init /\ [][Next]_vars

-------------------------------------------------------------------------------
(* Safety.                                                                 *)

Before(f, g) == \A i \in f, j \in g : i < j

\* Frames reach storage in the order they were acquired and none twice, those
\* an earlier run left on a queue first, whether or not something failed; unless
\* averaging was switched after the first start, or the filter failed, which
\* publishes what it has and keeps the slice for its next run.
StoredInOrder ==
  mishaps \cap Lasting = {} =>
    \A i, j \in DOMAIN stored : i < j => Before(stored[i], stored[j])

\* An acquisition that was not averaged, not aborted and in which nothing
\* failed has stored every frame, but those a queue skipped, when it stops.
EveryFrameIsStored ==
  phase = "Armed" /\ mishaps = {} /\ src.out = "sink" =>
    \A i \in RunIds(run) : {i} \in Elements(stored) \cup skipped

\* Every averaged frame in storage adds up Window frames, but for the last of
\* its run: video_filter_thread publishes what it has when it exits.
AveragesAreWhole ==
  src.out = "filter" /\ "switch" \notin mishaps =>
    \A i \in DOMAIN stored : stored[i] \subseteq RunIds(run) =>
      \/ Cardinality(stored[i]) = Window
      \/ /\ i = Len(stored) /\ Cardinality(stored[i]) < Window
         /\ flt.pc \in {"Publish", "Exited"}

\* The signals with which the source ends are not lost: once it has exited,
\* the filter and the sink are stopping, or past the loop that looks.
StopSignalsAreKept ==
  phase \in {"Started", "Closing", "Joining"} /\ "start" \notin mishaps
  /\ src.pc = "Exited" =>
    /\ \/ is_stopping["filter"] \/ flt.last
       \/ flt.pc \in {"Publish", "Exited"}
    /\ is_stopping["sink"] \/ snk \in {"Flush", "Stop", "Exited"}

\* The source and the filter do not write to sink.in at the same time: when
\* await_filter_reset has returned, the filter has let go of it; unless frames
\* were left in filter.in then, or when the source started without averaging.
\* (process_data handles the reset after one slice, and reads one slice at the
\* end of a run.)
OneWriterOfSink ==
  src.pc = "Camera" /\ src.out = "sink" /\ ~src.early /\ ~flt.left => flt.acc = {}

-------------------------------------------------------------------------------
(* Progress.  Each thread runs, the camera gives a frame if it is asked     *)
(* often enough, frames get old enough for the sink, and a call the client  *)
(* is in goes on.                                                           *)

FairSpec ==
  /\ Spec
  /\ WF_vars(Source) /\ SF_vars(Source /\ src'.iframe > src.iframe)
  /\ WF_vars(Filter) /\ WF_vars(Sink)
  /\ WF_vars(Client /\ phase # "Armed" /\ phase # "Started")

\* The filter has failed and exited, and the source waits for it; or storage has,
\* nobody called acquire_abort, and a writer waits for the sink.
Deserted ==
  \/ /\ "filter" \in mishaps /\ flt.pc = "Exited"
     /\ src.pc = "Await" \/ (src.pc = "Map" /\ src.out = "filter")
  \/ /\ "storage" \in mishaps /\ "abort" \notin mishaps /\ snk = "Exited"
     /\ flt.pc = "Frames" \/ (src.pc = "Map" /\ src.out = "sink")

\* acquire_stop returns, but after a failed start, or if a filter or storage that
\* failed has left a thread waiting; acquire_abort returns when storage failed too.
StopReturnsUnlessDeserted ==
  phase = "Joining" ~>
    (phase = "Armed" \/ "start" \in mishaps \/ []Deserted)

\* acquire_stop, acquire_abort and acquire_shutdown return.
StopReturns == phase = "Joining" ~> phase = "Armed"

-------------------------------------------------------------------------------
(* The inductive invariant behind the safety properties (StreamProofs).    *)

\* Who is at work in which phase.
PhaseInv ==
  /\ phase \in {"Armed", "StartFilter", "StartSource"} => src.pc = "Exited"
  /\ phase \in {"Armed", "StartFilter"} => flt.pc = "Exited"
  /\ phase = "Armed" => snk = "Exited"
  /\ phase # "Armed" \/ src.pc # "Exited" => run >= 1
  /\ src.pc \in {"Await", "Map", "Camera", "Unmap"} =>
       src.iframe < MaxFrames /\ src.out # "none"
  /\ src.out = "none" => src.iframe = 0
  /\ flt.pc = "Top" => ~flt.last

\* The filter is within its slice, which nobody takes from it.
SliceInv ==
  /\ flt.done <= flt.mapped /\ flt.mapped <= Len(queue["filter"])
  /\ flt.mapped > 0 => flt.pc = "Frames" /\ "filter" \in readers
  /\ flt.pc = "Exited" => flt.acc = {}

\* Where the mark is beyond head there is room.  The filter's queue has one
\* writer, and until averaging is switched the sink's has: what they commit is
\* what they wrote.
RegionInv ==
  /\ \A q \in Queues : mapped[q] # {} => Len(queue[q]) < QueueFrames
  /\ src.out = "filter" =>
       /\ src.pc = "Camera" => mapped["filter"] = {"source"}
       /\ src.pc = "Unmap" => mapped["filter"] = {}
  /\ "switch" \notin mishaps =>
       /\ src.pc = "Camera" /\ src.out = "sink" => mapped["sink"] = {"source"}
       /\ src.pc = "Unmap" /\ src.out = "sink" /\ is_accepting_writes =>
            mapped["sink"] = {}
       /\ flt.acc # {} => mapped["sink"] = {"filter"}

\* The source's frames are single, and none that travels is empty.
FramesInv ==
  /\ \A f \in Elements(queue["filter"]) : \E i \in Ids : f = {i}
  /\ "switch" \notin mishaps => Torn \notin Elements(queue["sink"]) \cup Elements(stored)

\* What the source writes next is numbered higher than all there is.
NextId ==
  (run - 1) * MaxFrames +
    IF phase \in {"StartFilter", "StartSource"} THEN 0 ELSE src.iframe

NumbersInv ==
  \A f \in Elements(stored) \cup Elements(queue["sink"])
             \cup Elements(queue["filter"]) \cup {flt.acc} :
    \A i \in f : i < NextId

\* Until averaging is switched, the source writes to one queue only.
UnswitchedInv ==
  "switch" \notin mishaps =>
    IF enable_filter THEN src.out \in {"none", "filter"}
    ELSE /\ src.out \in {"none", "sink"}
         /\ queue["filter"] = <<>> /\ flt.acc = {}

\* A stop signal is seen by the thread it is for.
SignalsInv ==
  phase \in {"Started", "Closing", "Joining"} /\ "start" \notin mishaps =>
    /\ src.pc \in {"SigSink", "Clear", "Exited"} =>
         is_stopping["filter"] \/ flt.last \/ flt.pc \in {"Publish", "Exited"}
    /\ src.pc \in {"Clear", "Exited"} =>
         is_stopping["sink"] \/ snk \in {"Flush", "Stop", "Exited"}

\* A reset is asked for and answered while the source waits; answered, with
\* nothing left to read, it leaves the filter idle for as long as the source
\* writes to the sink.
ResetInv ==
  /\ sig_accumulator_reset \/ reset_event => src.pc = "Await"
  /\ src.pc = "Await" => src.out = "sink"
  /\ ~(sig_accumulator_reset /\ reset_event)
  /\ \/ reset_event
     \/ /\ src.pc \in {"Top", "Map", "Camera", "Unmap"}
        /\ src.out = "sink" /\ ~src.early
     => (flt.left \/ (flt.acc = {} /\ queue["filter"] = <<>>))

\* Windows are whole, in storage and on their way to it, but for the last.
WholeOrLast(s, i) ==
  Cardinality(s[i]) = Window \/ (/\ i = Len(s) /\ Cardinality(s[i]) < Window
                                /\ flt.acc = {} /\ flt.pc \in {"Publish", "Exited"})

WindowsInv ==
  /\ flt.acc # {} => Cardinality(flt.acc) < Window
  /\ enable_filter /\ "switch" \notin mishaps =>
       /\ \A i \in DOMAIN queue["sink"] : queue["sink"][i] \subseteq RunIds(run) =>
            WholeOrLast(queue["sink"], i)
       /\ \A i \in DOMAIN stored : stored[i] \subseteq RunIds(run) =>
            WholeOrLast(stored, i)
            /\ (queue["sink"] = <<>> \/ Cardinality(stored[i]) = Window)

\* Frames are in order all the way from storage back to the filter's queue.
InOrder(s) == \A i, j \in DOMAIN s : i < j => Before(s[i], s[j])
AllBefore(S, T) == \A f \in S, g \in T : Before(f, g)
Unseen == SubSeq(queue["filter"], flt.done + 1, Len(queue["filter"]))

OrderInv ==
  mishaps \cap Lasting = {} =>
    /\ InOrder(stored) /\ InOrder(queue["sink"]) /\ InOrder(Unseen)
    /\ AllBefore(Elements(stored), Elements(queue["sink"]))
    /\ AllBefore(Elements(stored) \cup Elements(queue["sink"]),
                 {flt.acc} \cup Elements(Unseen))
    /\ AllBefore({flt.acc}, Elements(Unseen))

\* Without a mishap no frame is lost on its way to the sink, which exits last.
Started == phase \in {"Started", "Closing", "Joining"}
Sent(k) == {(run - 1) * MaxFrames + k}

DeliveryInv ==
  mishaps = {} =>
    /\ phase \in {"StartFilter", "StartSource"} =>
         ~is_stopping["sink"] /\ snk \in {"Top", "Poll"}
    /\ phase # "Armed" => is_accepting_writes /\ phase # "Closing"
    /\ Started =>
         /\ ~is_stopping["source"]
         /\ is_stopping["sink"] \/ snk \in {"Flush", "Stop", "Exited"} =>
              src.pc \in {"Clear", "Exited"}
    /\ (Started \/ phase = "Armed") /\ src.out = "sink" =>
         /\ \A k \in 0 .. src.iframe - 1 :
              Sent(k) \in Elements(stored) \cup Elements(queue["sink"]) \cup skipped
         /\ src.pc \in {"SigFilter", "SigSink", "Clear", "Exited"} =>
              src.iframe = MaxFrames
         /\ snk \in {"Stop", "Exited"} => queue["sink"] = <<>>

StreamIInv ==
  /\ TypeOK /\ PhaseInv /\ SliceInv /\ RegionInv /\ FramesInv /\ NumbersInv
  /\ UnswitchedInv /\ SignalsInv /\ ResetInv /\ WindowsInv /\ OrderInv
  /\ DeliveryInv

===============================================================================
