-------------------------------- MODULE Runtime --------------------------------
(***************************************************************************)
(* The runtime over all its video streams (acquire.c): acquire_configure,  *)
(* acquire_start, acquire_stop, acquire_abort, acquire_get_state and       *)
(* acquire_shutdown, called one after the other by one client thread, with *)
(* the devices of each stream and its source, filter and sink threads.     *)
(*                                                                         *)
(* A thread is followed from its loop to its return: which flags it stores *)
(* and which device it stops, in which order.  What goes on in the loops,  *)
(* and how a thread in its loop may have to wait for another, is the       *)
(* subject of VideoStream.  thread_create forgets the thread created       *)
(* before it, which may still be running: each role has a "new" thread,    *)
(* the one thread_join waits for, and an "old" one.                        *)
(*                                                                         *)
(* Devices are external: opening, setting or starting one may fail, and    *)
(* storage may stop by itself.                                             *)
(***************************************************************************)
EXTENDS Integers, FiniteSets

CONSTANTS
  NumStreams,     \* video streams of the runtime
  Cameras,        \* identifiers a client may ask for
  Storages,
  Requests,       \* what it may ask of the streams, together
  MaxEvents       \* bound: calls of acquire_configure and acquire_start,
                  \* failures of devices and threads, together

ASSUME NumStreamsAssumption == NumStreams \in Nat \ {0}
ASSUME EventsAssumption == MaxEvents \in Nat

VARIABLES
  state,                  \* self->state
  valid_video_streams,
  camera,                 \* per stream: last_camera_id and the camera's state
  storage,                \* per stream: identifier, the device that is open,
                          \* and its state
  is_running,             \* per stream: the roles whose flag is set
  is_stopping,
  pc,                     \* per stream, role and generation: the thread
  call,                   \* the api call in progress: which, at which stream,
                          \* which thread it creates next, whether it is made
                          \* by acquire_abort, and by acquire_shutdown
  events,                 \* history: how many there were
  mishaps                 \* history: what was done or went wrong

devices == <<camera, storage>>
threads == <<is_running, is_stopping, pc>>
history == <<events, mishaps>>
vars == <<state, valid_video_streams, devices, threads, call, history>>

Streams == 0 .. NumStreams - 1
Roles == {"source", "filter", "sink"}
Generations == {"new", "old"}
Unset == "unset"          \* the identifier of no device: DeviceKind_None

Idle == [op |-> "none", at |-> 0, role |-> "sink", abort |-> FALSE, final |-> FALSE]

\* Type invariant.
TypeOK ==
  /\ state \in {"AwaitingConfiguration", "Armed", "Running"}
  /\ valid_video_streams \subseteq Streams
  /\ camera \in [Streams -> [id : Cameras \cup {Unset},
                             state : {"Closed", "AwaitingConfiguration", "Armed",
                                      "Running"}]]
  /\ storage \in [Streams -> [identifier : Storages \cup {Unset},
                              device : Storages \cup {Unset},
                              state : {"Closed", "AwaitingConfiguration", "Armed",
                                       "Running"}]]
  /\ is_running \in [Streams -> SUBSET Roles]
  /\ is_stopping \in [Streams -> SUBSET Roles]
  /\ pc \in [Streams -> [Roles -> [Generations ->
               {"Loop", "StopCamera", "ClearRunning", "ClearStopping", "Exited"}]]]
  /\ call \in [op : {"none", "start", "stop", "destroy", "closed"},
               at : 0 .. NumStreams, role : Roles, abort : BOOLEAN, final : BOOLEAN]
  /\ events \in 0 .. MaxEvents
  /\ mishaps \subseteq {"early", "reconfigure", "replace", "orphan", "start"}

\* acquire_init.
Init ==
  /\ state = "AwaitingConfiguration"
  /\ valid_video_streams = {}
  /\ camera = [i \in Streams |-> [id |-> Unset, state |-> "Closed"]]
  /\ storage = [i \in Streams |->
                  [identifier |-> Unset, device |-> Unset, state |-> "Closed"]]
  /\ is_running = [i \in Streams |-> {}]
  /\ is_stopping = [i \in Streams |-> {}]
  /\ pc = [i \in Streams |-> [r \in Roles |-> [g \in Generations |-> "Exited"]]]
  /\ call = Idle
  /\ events = 0 /\ mishaps = {}

-------------------------------------------------------------------------------
(* Devices, flags and threads.                                             *)

\* camera_stop and storage_stop.
Stopped(device) == IF device.state = "Running"
                   THEN [device EXCEPT !.state = "Armed"] ELSE device
StopCamera(i) == camera' = [camera EXCEPT ![i] = Stopped(@)]
StopCameras(S) ==
  camera' = [i \in Streams |-> IF i \in S THEN Stopped(camera[i]) ELSE camera[i]]

Set(flag, i, roles) == flag' = [flag EXCEPT ![i] = @ \cup roles]
Clear(flag, i, r) == flag' = [flag EXCEPT ![i] = @ \ {r}]

At(i, r, g, step) == pc[i][r][g] = step
Moves(i, r, g, step) == pc' = [pc EXCEPT ![i][r][g] = step]

Notes(kind, cond) == mishaps' = IF cond THEN mishaps \cup {kind} ELSE mishaps
Counts(n) == events + n <= MaxEvents /\ events' = events + n

-------------------------------------------------------------------------------
(* The threads.                                                            *)

\* Out of its loop, the filter clears its flags, is_running first; so does the
\* sink, once it has stopped storage.
FilterLeaves(i, g) ==
  /\ Clear(is_running, i, "filter")
  /\ Moves(i, "filter", g, "ClearStopping")
  /\ UNCHANGED devices

SinkLeaves(i, g) ==
  /\ storage' = [storage EXCEPT ![i] = Stopped(@)]
  /\ Moves(i, "sink", g, "ClearRunning")
  /\ UNCHANGED <<camera, is_running>>

Told(i, r, g) ==
  At(i, r, g, "Loop") /\ r \in is_stopping[i] /\ UNCHANGED <<is_stopping, events>>

\* video_source_thread leaves its loop, told to or by itself (max_frame_count,
\* or the camera fails), and tells filter and sink to stop,
SourceLeaves(i, g) ==
  /\ At(i, "source", g, "Loop")
  /\ Set(is_stopping, i, {"filter", "sink"})
  /\ Moves(i, "source", g, "StopCamera")
  /\ UNCHANGED <<devices, is_running, events>>

\* Mutant: the source is done before it stops the camera.
SourceStopsCameraLast(i, g) ==
  \/ /\ At(i, "source", g, "StopCamera")
     /\ Clear(is_stopping, i, "source") /\ Clear(is_running, i, "source")
     /\ Moves(i, "source", g, "ClearRunning")
     /\ UNCHANGED <<devices, events>>
  \/ /\ At(i, "source", g, "ClearRunning")
     /\ StopCamera(i)
     /\ Moves(i, "source", g, "Exited")
     /\ UNCHANGED <<storage, is_running, is_stopping, events>>

\* stops the camera, clears its flags and returns.
SourceExits(i, g) ==
  \/ /\ At(i, "source", g, "StopCamera")
     /\ StopCamera(i)
     /\ Moves(i, "source", g, "ClearRunning")
     /\ UNCHANGED <<storage, is_running, is_stopping, events>>
  \/ /\ At(i, "source", g, "ClearRunning")
     /\ Clear(is_stopping, i, "source") /\ Clear(is_running, i, "source")
     /\ Moves(i, "source", g, "Exited")
     /\ UNCHANGED <<devices, events>>

\* video_filter_thread is told to stop, or process_data fails.
FilterStops(i, g) == Told(i, "filter", g) /\ FilterLeaves(i, g)
FilterFails(i, g) ==
  /\ At(i, "filter", g, "Loop") /\ Counts(1)
  /\ FilterLeaves(i, g)
  /\ UNCHANGED is_stopping

\* video_sink_thread is told to stop.
SinkStops(i, g) == Told(i, "sink", g) /\ SinkLeaves(i, g)

\* Storage stops by itself, or an old thread has stopped it.
SinkFindsStopped(i, g) ==
  /\ At(i, "sink", g, "Loop")
  /\ IF storage[i].state = "Running" THEN Counts(1) ELSE UNCHANGED events
  /\ SinkLeaves(i, g)
  /\ UNCHANGED is_stopping

\* storage_append fails: the source is told to stop.
SinkFails(i, g) ==
  /\ At(i, "sink", g, "Loop") /\ Counts(1)
  /\ Set(is_stopping, i, {"source"})
  /\ SinkLeaves(i, g)

\* What is left of the two: is_running, and then is_stopping.
ClearsFlags(i, r, g) ==
  \/ /\ At(i, r, g, "ClearRunning") /\ r = "sink"
     /\ Clear(is_running, i, r)
     /\ Moves(i, r, g, "ClearStopping")
     /\ UNCHANGED <<devices, is_stopping, events>>
  \/ /\ At(i, r, g, "ClearStopping")
     /\ Clear(is_stopping, i, r)
     /\ Moves(i, r, g, "Exited")
     /\ UNCHANGED <<devices, is_running, events>>

Thread(i, r, g) ==
  /\ CASE r = "source" -> SourceLeaves(i, g) \/ SourceExits(i, g)
       [] r = "filter" -> FilterStops(i, g) \/ FilterFails(i, g) \/ ClearsFlags(i, r, g)
       [] r = "sink" -> \/ SinkStops(i, g) \/ SinkFindsStopped(i, g) \/ SinkFails(i, g)
                        \/ ClearsFlags(i, r, g)
  /\ UNCHANGED <<state, valid_video_streams, call, mishaps>>

-------------------------------------------------------------------------------
(* acquire_configure.                                                      *)

NoDevices == [camera |-> Unset, storage |-> Unset]
Settings == {NoDevices} \cup [camera : Cameras, storage : Storages]

ASSUME RequestsAssumption == Requests \subseteq [Streams -> Settings]

Results == {"ok", "not set", "not open"}

\* The state of a device that is kept, or opened anew, when its properties are
\* set, or cannot be, or when it does not open.
StateAfter(was, kept, result) ==
  CASE kept /\ was = "Running" -> "Running"
    [] ~kept /\ result = "not open" -> "Closed"
    [] result = "ok" -> "Armed"
    [] OTHER -> "AwaitingConfiguration"

\* video_source_configure: a camera other than the one asked for is closed, one
\* is opened if none is open, and its properties are set (try_camera_set tries
\* twice).
SourceConfigured(i, id, result) ==
  LET kept == camera[i].state # "Closed" /\ camera[i].id = id
  IN [id |-> IF ~kept /\ result = "not open" THEN camera[i].id ELSE id,
      state |-> StateAfter(camera[i].state, kept, result)]

\* video_sink_configure: the identifier is assigned before it is compared with
\* the one asked for, so that a storage device that is open stays.
SinkConfigured(i, id, result) ==
  LET kept == storage[i].state # "Closed"
  IN [identifier |-> id,
      device |-> IF kept \/ result = "not open" THEN storage[i].device ELSE id,
      state |-> StateAfter(storage[i].state, kept, result)]

\* An open camera is closed, for another, under a source that still uses it:
\* nothing looks at what the threads do.  The source goes on with what
\* self->camera is next.
UsesCamera(i, g) == pc[i]["source"][g] \in {"Loop", "StopCamera"}
Replaces(settings) ==
  \E i \in Streams, g \in Generations :
    /\ settings[i] # NoDevices /\ camera[i].state # "Closed"
    /\ settings[i].camera # camera[i].id /\ UsesCamera(i, g)

\* Every stream asked for is configured, camera and storage, whether or not
\* one fails; those for which all went well are valid.
Configure(settings, asked) ==
  \E src, snk \in [asked -> Results] :
    LET good == {i \in asked : src[i] = "ok" /\ snk[i] = "ok"}
    IN /\ Counts(1 + Cardinality(asked \ good))
       /\ valid_video_streams' = good
       /\ camera' = [i \in Streams |->
            IF i \in asked THEN SourceConfigured(i, settings[i].camera, src[i]) ELSE camera[i]]
       /\ storage' = [i \in Streams |->
            IF i \in asked THEN SinkConfigured(i, settings[i].storage, snk[i]) ELSE storage[i]]
       /\ state' = IF good # {} THEN "Armed" ELSE "AwaitingConfiguration"

CallConfigure ==
  /\ call = Idle /\ events < MaxEvents
  /\ \E settings \in Requests :
       /\ Configure(settings, {i \in Streams : settings[i] # NoDevices})
       /\ mishaps' = mishaps
            \cup (IF \E i \in Streams : is_running[i] # {} THEN {"reconfigure"} ELSE {})
            \cup (IF Replaces(settings) THEN {"replace"} ELSE {})
  /\ UNCHANGED <<threads, call>>

-------------------------------------------------------------------------------
(* acquire_start.                                                          *)

Least(S) == CHOOSE i \in S : \A j \in S : i <= j

\* Mutant: the stream after the last one is counted in.
NextValidPastEnd(i) ==
  Least({j \in valid_video_streams \cup {NumStreams + 1} : j >= i})

\* The first valid stream from i on; NumStreams if there is none.
NextValid(i) == Least({j \in valid_video_streams \cup {NumStreams} : j >= i})

\* Mutant: only the sources are asked.
SourcesRunning == \E i \in valid_video_streams : "source" \in is_running[i]

\* Some valid stream has a flag that says a thread is running.
SomeRunning == \E i \in valid_video_streams : is_running[i] # {}

\* It fails at once if no stream is valid.
CallStart ==
  /\ call = Idle
  /\ Counts(1) /\ Notes("early", SomeRunning)
  /\ IF valid_video_streams = {}
     THEN state' = "AwaitingConfiguration" /\ UNCHANGED call
     ELSE call' = [Idle EXCEPT !.op = "start", !.at = NextValid(0)] /\ UNCHANGED state
  /\ UNCHANGED <<valid_video_streams, devices, threads>>

\* thread_create, after the flags are stored.  The thread created before it is
\* forgotten (bound: one that is alive at a time, and none if the
\* client knew that the acquisition was running).
Launch(i, r) ==
  /\ Clear(is_stopping, i, r)
  /\ Set(is_running, i, {r})
  /\ \/ At(i, r, "new", "Exited") /\ UNCHANGED mishaps
        /\ pc' = [pc EXCEPT ![i][r].new = "Loop"]
     \/ ~At(i, r, "new", "Exited") /\ "early" \notin mishaps
        /\ \A j \in Streams, q \in Roles : At(j, q, "old", "Exited")
        /\ mishaps' = mishaps \cup {"orphan"}
        /\ pc' = [pc EXCEPT ![i][r].old = pc[i][r].new, ![i][r].new = "Loop"]

Starting(i, r) == call.op = "start" /\ call.at = i /\ call.role = r

\* video_sink_start: storage has to be armed.
StartSink(i) ==
  /\ Starting(i, "sink")
  /\ storage[i].state = "Armed"
  /\ storage' = [storage EXCEPT ![i].state = "Running"]
  /\ Launch(i, "sink")
  /\ call' = [call EXCEPT !.role = "filter"]
  /\ UNCHANGED <<state, valid_video_streams, camera, events>>

\* reserve_image_shape, and video_filter_start.
StartFilter(i) ==
  /\ Starting(i, "filter")
  /\ Launch(i, "filter")
  /\ call' = [call EXCEPT !.role = "source"]
  /\ UNCHANGED <<state, valid_video_streams, devices, events>>

\* video_source_start: the camera has to be armed.  Then the next stream.
StartSource(i) ==
  /\ Starting(i, "source")
  /\ camera[i].state = "Armed"
  /\ camera' = [camera EXCEPT ![i].state = "Running"]
  /\ Launch(i, "source")
  /\ IF NextValid(i + 1) = NumStreams
     THEN call' = Idle /\ state' = "Running"
     ELSE call' = [Idle EXCEPT !.op = "start", !.at = NextValid(i + 1)] /\ UNCHANGED state
  /\ UNCHANGED <<valid_video_streams, storage, events>>

DeviceIsReady ==
  CASE call.role = "sink" -> storage[call.at].state = "Armed"
    [] call.role = "filter" -> TRUE
    [] call.role = "source" -> camera[call.at].state = "Armed"

\* A device is not armed, does not start or has no shape: the cameras of the
\* valid streams are stopped.  Threads already created are left as they are.
StartFails ==
  /\ call.op = "start"
  /\ IF DeviceIsReady THEN Counts(1) ELSE UNCHANGED events
  /\ StopCameras(valid_video_streams)
  /\ state' = "AwaitingConfiguration"
  /\ call' = Idle
  /\ mishaps' = IF call.at = NextValid(0) /\ call.role = "sink" THEN mishaps
                ELSE mishaps \cup {"start"}
  /\ UNCHANGED <<valid_video_streams, storage, threads>>

-------------------------------------------------------------------------------
(* acquire_stop, acquire_abort and acquire_shutdown.                        *)

\* acquire_stop is called, alone or
CallStop ==
  /\ call = Idle
  /\ call' = [Idle EXCEPT !.op = "stop"]
  /\ UNCHANGED <<state, valid_video_streams, devices, threads, history>>

\* Mutant: the cameras are stopped, the sources are not told.
AbortStopsCamerasOnly(shutdown) ==
  /\ call = Idle
  /\ StopCameras(valid_video_streams)
  /\ call' = [Idle EXCEPT !.op = "stop", !.final = shutdown, !.abort = TRUE]
  /\ UNCHANGED <<state, valid_video_streams, storage, threads, history>>

\* by acquire_abort, itself called alone or by acquire_shutdown: in each valid
\* stream the source is told to stop and its camera is stopped.
CallAbort(shutdown) ==
  /\ call = Idle
  /\ is_stopping' = [i \in Streams |-> IF i \in valid_video_streams
                      THEN is_stopping[i] \cup {"source"} ELSE is_stopping[i]]
  /\ StopCameras(valid_video_streams)
  /\ call' = [Idle EXCEPT !.op = "stop", !.final = shutdown, !.abort = TRUE]
  /\ UNCHANGED <<state, valid_video_streams, storage, is_running, pc, history>>

\* thread_join of the three threads of stream i that were created last.
Joined(i) == \A r \in Roles : At(i, r, "new", "Exited")

\* acquire_stop has joined the threads of the valid streams (and flushed:
\* Monitor).  It returns, to the client or to acquire_shutdown.
StopReturns ==
  /\ call.op = "stop"
  /\ \A i \in valid_video_streams : Joined(i)
  /\ state' = "Armed"
  /\ call' = IF call.final THEN [Idle EXCEPT !.op = "destroy"] ELSE Idle
  /\ UNCHANGED <<valid_video_streams, devices, threads, history>>

\* Mutant: only valid streams have threads to join.
DestroyTrustsAbort ==
  /\ call.op = "destroy" /\ call.at < NumStreams
  /\ camera' = [camera EXCEPT ![call.at].state = "Closed"]
  /\ storage' = [storage EXCEPT ![call.at].state = "Closed"]
  /\ call' = [call EXCEPT !.at = @ + 1]
  /\ UNCHANGED <<state, valid_video_streams, threads, history>>

\* video_source_destroy, video_filter_destroy and video_sink_destroy, of every
\* stream: the threads are joined, the devices closed.
DestroyStream ==
  /\ call.op = "destroy" /\ call.at < NumStreams
  /\ Joined(call.at)
  /\ camera' = [camera EXCEPT ![call.at].state = "Closed"]
  /\ storage' = [storage EXCEPT ![call.at].state = "Closed"]
  /\ call' = [call EXCEPT !.at = @ + 1]
  /\ UNCHANGED <<state, valid_video_streams, threads, history>>

\* The runtime's memory is freed.
ShutdownReturns ==
  /\ call.op = "destroy" /\ call.at = NumStreams
  /\ call' = [Idle EXCEPT !.op = "closed"]
  /\ UNCHANGED <<state, valid_video_streams, devices, threads, history>>

\* acquire_get_state of a runtime that is Running looks at the flags, and keeps
\* what it infers from them.
GetState ==
  /\ call = Idle /\ state = "Running"
  /\ state' = IF SomeRunning THEN "Running" ELSE "Armed"
  /\ UNCHANGED <<valid_video_streams, devices, threads, call, history>>

Client ==
  \/ CallConfigure \/ CallStart \/ StartFails
  \/ \E i \in Streams : StartSink(i) \/ StartFilter(i) \/ StartSource(i)
  \/ CallStop \/ StopReturns \/ \E shutdown \in BOOLEAN : CallAbort(shutdown)
  \/ DestroyStream \/ ShutdownReturns \/ GetState

Next ==
  \/ Client
  \/ \E i \in Streams, r \in Roles, g \in Generations : Thread(i, r, g)

Spec == Init /\ [][Next]_vars

-------------------------------------------------------------------------------
(* Safety.                                                                 *)

\* When acquire_stop has returned, or acquire_get_state says Armed, a new
\* acquisition may begin: no thread of any stream is in its loop or has a
\* device to stop, and the devices of the valid streams are armed; unless
\* acquire_configure was called during a run, which says Armed at once, or a
\* thread was started over another.
ArmedMeansReady ==
  call = Idle /\ state = "Armed" /\ mishaps \cap {"reconfigure", "early"} = {} =>
    /\ \A i \in Streams, r \in Roles, g \in Generations :
         pc[i][r][g] \in {"ClearStopping", "Exited"}
    /\ \A i \in valid_video_streams :
         camera[i].state = "Armed" /\ storage[i].state = "Armed"

\* A device stays open while a thread may still use it, and a runtime that has
\* been shut down has no threads, though acquire_abort passes over the streams
\* that are not valid and acquire_start may have failed halfway; but for the
\* camera of a source when acquire_configure has asked for another during a
\* run: it is closed at once, and the other may not open.
DevicesOutliveThreads ==
  "orphan" \notin mishaps =>
    \A i \in Streams, g \in Generations :
      /\ UsesCamera(i, g) => camera[i].state # "Closed" \/ "replace" \in mishaps
      /\ pc[i]["sink"][g] = "Loop" => storage[i].state # "Closed"
      /\ call.op = "closed" => \A r \in Roles : pc[i][r][g] = "Exited"

\* Two threads never share a queue's reader: one that acquire_start forgets has
\* left its loop, if acquire_start is called when acquire_get_state would not
\* say Running.
LoopsAreExclusive ==
  "early" \notin mishaps =>
    \A i \in Streams, r \in Roles : pc[i][r]["old"] \in {"ClearStopping", "Exited"}

\* The storage device acquire_get_configuration names is the one in use.
StorageIsTheOneNamed ==
  \A i \in Streams :
    storage[i].state # "Closed" => storage[i].identifier = storage[i].device

\* Nobody is left behind: when acquire_abort waits for the threads of a stream,
\* its source has been told to stop, and when the source is done the filter and
\* the sink have been told; unless a start failed halfway or put one thread over
\* another.
EveryThreadIsTold ==
  mishaps \cap {"start", "orphan"} = {} =>
    \A i \in valid_video_streams :
      /\ call.abort /\ At(i, "source", "new", "Loop") => "source" \in is_stopping[i]
      /\ call.op # "start" /\ ~At(i, "source", "new", "Loop") =>
           \A r \in {"filter", "sink"} : At(i, r, "new", "Loop") => r \in is_stopping[i]

===============================================================================
