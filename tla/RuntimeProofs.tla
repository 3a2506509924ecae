----------------------------- MODULE RuntimeProofs -----------------------------
(***************************************************************************)
(* The safety of Runtime, for every number of streams, set of devices and  *)
(* number of events.  IInv is inductive; the invariants the model checker  *)
(* runs on two streams follow from it.                                     *)
(***************************************************************************)
EXTENDS Runtime, FiniteSetTheorems, WellFoundedInduction, TLAPS

-------------------------------------------------------------------------------
(* The inductive invariant.                                                *)

\* The roles of a stream that acquire_start has yet to launch.
RolesFrom(role) ==
  {r \in Roles : \/ role = "sink" \/ r = "source" \/ r = role}

\* A thread that is out of its loop and has stopped its device.
IsOut(step) == step \in {"ClearStopping", "Exited"}

\* Where a call is: in acquire_start at a valid stream; acquire_shutdown has
\* joined the threads of the streams it has passed.
CallInv ==
  /\ call.op = "none" => call = Idle
  /\ call.op = "start" => call.at \in valid_video_streams
  /\ call.abort => call.op = "stop"
  /\ call.op = "destroy" => \A i \in Streams : i < call.at => Joined(i)
  /\ call.op = "closed" => \A i \in Streams : Joined(i)

\* An old thread is there only if it was forgotten, and leaves its loop before.
OldInv ==
  /\ "orphan" \notin mishaps =>
       \A i \in Streams, r \in Roles : pc[i][r]["old"] = "Exited"
  /\ LoopsAreExclusive

\* A thread that has not left has its flag, and acquire_start, unless it is
\* called early, launches threads that have none.
FlagsInv ==
  "early" \notin mishaps =>
    /\ \A i \in Streams, r \in Roles :
         ~IsOut(pc[i][r]["new"]) => r \in is_running[i]
    /\ call.op = "start" =>
         \A i \in valid_video_streams, r \in Roles :
           (i > call.at \/ (i = call.at /\ r \in RolesFrom(call.role)))
             => r \notin is_running[i]

\* A device that runs has its thread, a thread has its device, or had until its
\* camera was replaced, and valid streams have both devices.
UseInv ==
  /\ \A i \in Streams :
       /\ camera[i].state = "Running" => pc[i]["source"]["new"] \in {"Loop", "StopCamera"}
       /\ storage[i].state = "Running" => pc[i]["sink"]["new"] = "Loop"
       /\ "orphan" \notin mishaps =>
            /\ UsesCamera(i, "new") => camera[i].state # "Closed" \/ "replace" \in mishaps
            /\ pc[i]["sink"]["new"] = "Loop" => storage[i].state # "Closed"
  /\ call.op \notin {"destroy", "closed"} =>
       \A i \in valid_video_streams :
         /\ camera[i].state \in {"Armed", "Running"}
         /\ storage[i].state \in {"Armed", "Running"}

\* A filter or sink whose source has left, or is not yet launched, has been told
\* to stop or was launched by the acquire_start in progress.
ToldInv ==
  mishaps \cap {"start", "orphan"} = {} =>
    \A i \in Streams :
      /\ call.abort /\ i \in valid_video_streams /\ pc[i]["source"]["new"] = "Loop"
           => "source" \in is_stopping[i]
      /\ \A r \in {"filter", "sink"} :
           pc[i][r]["new"] = "Loop" /\ pc[i]["source"]["new"] # "Loop" =>
             \/ r \in is_stopping[i]
             \/ call.op = "start" /\ call.at = i /\ r \notin RolesFrom(call.role)

\* Nothing is at work in the streams that are not valid, nor in the others when
\* the runtime says Armed.
ReadyInv ==
  mishaps \cap {"reconfigure", "early"} = {} =>
    \A i \in Streams, r \in Roles :
      i \notin valid_video_streams \/ (call = Idle /\ state = "Armed")
        => IsOut(pc[i][r]["new"])

IInv ==
  TypeOK /\ CallInv /\ OldInv /\ FlagsInv /\ UseInv /\ ToldInv /\ ReadyInv

USE DEF Roles, Generations

-------------------------------------------------------------------------------
(* Operators of the model.                                                 *)

\* A set of natural numbers that is not empty has a least element, and Least
\* picks it.
LEMMA LeastIsLeast ==
  ASSUME NEW S \in SUBSET Nat, S # {}
  PROVE  Least(S) \in S /\ \A j \in S : Least(S) <= j
<1>. DEFINE R == {ss \in Nat \X Nat : ss[1] < ss[2]}
<1>1. IsWellFoundedOn(R, Nat)
  BY NatLessThanWellFounded, Zenon DEF OpToRel
<1>2. PICK i \in S : \A j \in S : ~ (<<j, i>> \in R)
  <2>. HIDE DEF R
  <2>. QED
    BY <1>1, WFMin
<1>3. ASSUME NEW j \in S, j < i PROVE <<j, i>> \in R
  <2>1. <<j, i>> \in Nat \X Nat /\ <<j, i>>[1] < <<j, i>>[2]
    BY <1>3
  <2>. QED
    BY <2>1, Zenon
<1>. HIDE DEF R
<1>4. ASSUME NEW j \in S PROVE i <= j
  <2>1. ~ (j < i)
    BY <1>2, <1>3
  <2>2. j \in Nat /\ i \in Nat
    OBVIOUS
  <2>. QED
    BY <2>1, <2>2
<1>. QED
  BY <1>4 DEF Least

\* The next valid stream is one, or there is none; it is not before i.
LEMMA NextValidIsNext ==
  ASSUME NEW i \in 0 .. NumStreams, TypeOK
  PROVE  /\ NextValid(i) \in valid_video_streams \cup {NumStreams}
         /\ NextValid(i) \in 0 .. NumStreams
         /\ NextValid(i) >= i
         /\ i = 0 /\ valid_video_streams # {} => NextValid(i) \in valid_video_streams
<1>. DEFINE S == {j \in valid_video_streams \cup {NumStreams} : j >= i}
<1>0. NumStreams \in Nat /\ \A j \in valid_video_streams : j \in 0 .. NumStreams - 1
  BY NumStreamsAssumption DEF TypeOK, Streams
<1>1. S \in SUBSET Nat /\ NumStreams \in S
  BY <1>0
<1>2. Least(S) \in S /\ \A j \in S : Least(S) <= j
  BY <1>1, LeastIsLeast
<1>3. NextValid(i) = Least(S)
  BY DEF NextValid
<1>. HIDE DEF S
<1>4. Least(S) \in valid_video_streams \cup {NumStreams} /\ Least(S) >= i
  BY <1>2 DEF S
<1>5. ASSUME i = 0, NEW k \in valid_video_streams
      PROVE  Least(S) \in valid_video_streams
  <2>1. k \in S /\ k < NumStreams
    BY <1>0, <1>5 DEF S
  <2>2. Least(S) <= k
    BY <1>2, <2>1
  <2>. QED
    BY <1>0, <1>4, <2>1, <2>2
<1>6. Least(S) \in 0 .. NumStreams
  BY <1>0, <1>4
<1>. QED
  BY <1>3, <1>4, <1>5, <1>6

\* Moves sets one counter.
LEMMA MovesOne ==
  ASSUME TypeOK, NEW i \in Streams, NEW r \in Roles, NEW g \in Generations, NEW step,
         step \in {"Loop", "StopCamera", "ClearRunning", "ClearStopping", "Exited"},
         Moves(i, r, g, step)
  PROVE  /\ pc' \in [Streams -> [Roles -> [Generations ->
               {"Loop", "StopCamera", "ClearRunning", "ClearStopping", "Exited"}]]]
         /\ pc'[i][r][g] = step
         /\ \A j \in Streams, q \in Roles, h \in Generations :
              j # i \/ q # r \/ h # g => pc'[j][q][h] = pc[j][q][h]
<1>1. pc \in [Streams -> [Roles -> [Generations ->
               {"Loop", "StopCamera", "ClearRunning", "ClearStopping", "Exited"}]]]
  BY DEF TypeOK
<1>. QED
  BY <1>1 DEF Moves

\* What the step of a thread does, whichever it is: it touches its own counter
\* only, never goes back to its loop, and once out stays out.
LEMMA ThreadLeaves ==
  ASSUME TypeOK, NEW i \in Streams, NEW r \in Roles, NEW g \in Generations,
         Thread(i, r, g)
  PROVE  /\ UNCHANGED <<state, valid_video_streams, call, mishaps>>
         /\ pc' \in [Streams -> [Roles -> [Generations ->
               {"Loop", "StopCamera", "ClearRunning", "ClearStopping", "Exited"}]]]
         /\ \A j \in Streams, q \in Roles, h \in Generations :
              j # i \/ q # r \/ h # g => pc'[j][q][h] = pc[j][q][h]
         /\ pc[i][r][g] # "Exited" /\ pc'[i][r][g] # "Loop"
         /\ pc'[i][r][g] = "StopCamera" => pc[i][r][g] = "Loop"
         /\ pc'[i][r][g] = "ClearRunning" => pc[i][r][g] \in {"Loop", "StopCamera"}
         /\ IsOut(pc[i][r][g]) => IsOut(pc'[i][r][g])
<1>1. PICK step \in {"StopCamera", "ClearRunning", "ClearStopping", "Exited"} :
        /\ Moves(i, r, g, step)
        /\ pc[i][r][g] # "Exited"
        /\ step = "StopCamera" => pc[i][r][g] = "Loop"
        /\ step = "ClearRunning" => pc[i][r][g] \in {"Loop", "StopCamera"}
        /\ IsOut(pc[i][r][g]) => step = "Exited"
  <2>. USE DEF Thread, At, IsOut
  <2>1. CASE r = "source"
    BY <2>1 DEF SourceLeaves, SourceExits
  <2>2. CASE r = "filter"
    BY <2>2 DEF FilterStops, FilterFails, ClearsFlags, FilterLeaves, Told
  <2>3. CASE r = "sink"
    BY <2>3 DEF SinkStops, SinkFindsStopped, SinkFails, ClearsFlags, SinkLeaves, Told
  <2>. QED
    BY <2>1, <2>2, <2>3
<1>2. UNCHANGED <<state, valid_video_streams, call, mishaps>>
  BY DEF Thread
<1>. QED
  BY <1>1, <1>2, MovesOne DEF IsOut

-------------------------------------------------------------------------------
(* Type correctness.                                                       *)

LEMMA InitType == Init => TypeOK
  BY NumStreamsAssumption, EventsAssumption DEF Init, TypeOK, Idle

\* The conjuncts of TypeOK about devices, flags and threads.
CameraType(c) ==
  c \in [Streams -> [id : Cameras \cup {Unset},
              state : {"Closed", "AwaitingConfiguration", "Armed", "Running"}]]
StorageType(s) ==
  s \in [Streams -> [identifier : Storages \cup {Unset},
              device : Storages \cup {Unset},
              state : {"Closed", "AwaitingConfiguration", "Armed", "Running"}]]
FlagType(flag) == flag \in [Streams -> SUBSET Roles]
PcType(p) ==
  p \in [Streams -> [Roles -> [Generations ->
         {"Loop", "StopCamera", "ClearRunning", "ClearStopping", "Exited"}]]]
CallType(c) ==
  c \in [op : {"none", "start", "stop", "destroy", "closed"},
          at : 0 .. NumStreams, role : Roles, abort : BOOLEAN, final : BOOLEAN]

LEMMA TypeParts ==
  /\ TypeOK => /\ state \in {"AwaitingConfiguration", "Armed", "Running"}
               /\ valid_video_streams \subseteq Streams
               /\ CameraType(camera) /\ StorageType(storage)
               /\ FlagType(is_running) /\ FlagType(is_stopping)
               /\ PcType(pc) /\ CallType(call)
               /\ events \in 0 .. MaxEvents
               /\ mishaps \subseteq {"early", "reconfigure", "replace", "orphan", "start"}
  /\ /\ state' \in {"AwaitingConfiguration", "Armed", "Running"}
     /\ valid_video_streams' \subseteq Streams
     /\ CameraType(camera') /\ StorageType(storage')
     /\ FlagType(is_running') /\ FlagType(is_stopping')
     /\ PcType(pc') /\ CallType(call')
     /\ events' \in 0 .. MaxEvents
     /\ mishaps' \subseteq {"early", "reconfigure", "replace", "orphan", "start"}
     => TypeOK'
  BY DEF TypeOK, CameraType, StorageType, FlagType, PcType, CallType

\* A device that is stopped is armed.
LEMMA StopKeepsType ==
  ASSUME TypeOK, NEW i \in Streams
  PROVE  /\ Stopped(camera[i]).id = camera[i].id
         /\ Stopped(camera[i]).state =
              IF camera[i].state = "Running" THEN "Armed" ELSE camera[i].state
         /\ Stopped(camera[i]) \in [id : Cameras \cup {Unset},
              state : {"Closed", "AwaitingConfiguration", "Armed", "Running"}]
         /\ Stopped(storage[i]).state =
              IF storage[i].state = "Running" THEN "Armed" ELSE storage[i].state
         /\ Stopped(storage[i]) \in [identifier : Storages \cup {Unset},
              device : Storages \cup {Unset},
              state : {"Closed", "AwaitingConfiguration", "Armed", "Running"}]
<1>1. /\ camera[i] \in [id : Cameras \cup {Unset},
              state : {"Closed", "AwaitingConfiguration", "Armed", "Running"}]
      /\ storage[i] \in [identifier : Storages \cup {Unset},
              device : Storages \cup {Unset},
              state : {"Closed", "AwaitingConfiguration", "Armed", "Running"}]
  BY DEF TypeOK
<1>. QED
  BY <1>1 DEF Stopped

\* Closing a device keeps its type.
LEMMA CloseKeepsType ==
  ASSUME NEW i
  PROVE  /\ CameraType(camera) => CameraType([camera EXCEPT ![i].state = "Closed"])
         /\ StorageType(storage) => StorageType([storage EXCEPT ![i].state = "Closed"])
<1>1. CameraType(camera) => CameraType([camera EXCEPT ![i].state = "Closed"])
  BY DEF CameraType
<1>2. StorageType(storage) => StorageType([storage EXCEPT ![i].state = "Closed"])
  BY DEF StorageType
<1>. QED
  BY <1>1, <1>2

\* What a thread's step does to the devices and the flags.
LEMMA ThreadType ==
  ASSUME TypeOK, NEW i \in Streams, NEW r \in Roles, NEW g \in Generations,
         Thread(i, r, g)
  PROVE  TypeOK'
<1>1. /\ state' = state /\ valid_video_streams' = valid_video_streams
      /\ call' = call /\ mishaps' = mishaps
      /\ pc' \in [Streams -> [Roles -> [Generations ->
               {"Loop", "StopCamera", "ClearRunning", "ClearStopping", "Exited"}]]]
  BY ThreadLeaves
<1>2. events' = events \/ Counts(1)
  BY DEF Thread, SourceLeaves, SourceExits, FilterStops, FilterFails, SinkStops,
         SinkFindsStopped, SinkFails, ClearsFlags, Told
<1>3. events' \in 0 .. MaxEvents
  BY <1>2, EventsAssumption DEF Counts, TypeOK
<1>4. camera' = camera \/ StopCamera(i)
  BY DEF Thread, SourceLeaves, SourceExits, FilterStops, FilterFails, SinkStops,
         SinkFindsStopped, SinkFails, ClearsFlags, SinkLeaves, FilterLeaves, devices
<1>5. storage' = storage \/ storage' = [storage EXCEPT ![i] = Stopped(@)]
  BY DEF Thread, SourceLeaves, SourceExits, FilterStops, FilterFails, SinkStops,
         SinkFindsStopped, SinkFails, ClearsFlags, SinkLeaves, FilterLeaves, devices
<1>6. /\ CameraType(camera')
      /\ StorageType(storage')
  <2>1. CameraType(camera) /\ StorageType(storage)
    BY DEF TypeOK, CameraType, StorageType
  <2>2. CameraType(camera')
    BY <1>4, <2>1, StopKeepsType DEF StopCamera, CameraType
  <2>3. StorageType(storage')
    BY <1>5, <2>1, StopKeepsType DEF StorageType
  <2>. QED
    BY <2>2, <2>3
<1>7. \/ is_running' = is_running
      \/ \E q \in Roles : Clear(is_running, i, q)
  BY DEF Thread, SourceLeaves, SourceExits, FilterStops, FilterFails, SinkStops,
         SinkFindsStopped, SinkFails, ClearsFlags, SinkLeaves, FilterLeaves
<1>8. \/ is_stopping' = is_stopping
      \/ \E q \in Roles : Clear(is_stopping, i, q)
      \/ \E roles \in SUBSET Roles : Set(is_stopping, i, roles)
  <2>1. CASE r = "source"
    BY <2>1 DEF Thread, SourceLeaves, SourceExits
  <2>2. CASE r # "source"
    BY <2>2 DEF Thread, FilterStops, FilterFails, SinkStops,
         SinkFindsStopped, SinkFails, ClearsFlags, Told
  <2>. QED
    BY <2>1, <2>2
<1>9. FlagType(is_running')
  BY <1>7, TypeParts DEF Clear, FlagType
<1>10. FlagType(is_stopping')
  BY <1>8, TypeParts DEF Set, Clear, FlagType
<1>. QED
  BY <1>1, <1>3, <1>6, <1>9, <1>10, TypeParts DEF PcType

\* thread_create: the new thread is in its loop, one that has not exited becomes
\* the old one.
LEMMA LaunchOne ==
  ASSUME TypeOK, NEW i \in Streams, NEW r \in Roles, Launch(i, r)
  PROVE  /\ FlagType(is_stopping') /\ FlagType(is_running') /\ PcType(pc')
         /\ mishaps' \subseteq {"early", "reconfigure", "replace", "orphan", "start"}
         /\ mishaps \subseteq mishaps'
         /\ "early" \in mishaps' <=> "early" \in mishaps
         /\ "start" \in mishaps' <=> "start" \in mishaps
         /\ "reconfigure" \in mishaps' <=> "reconfigure" \in mishaps
         /\ \A j \in Streams, q \in Roles :
              /\ q \in is_stopping'[j] <=> q \in is_stopping[j] /\ ~(j = i /\ q = r)
              /\ q \in is_running'[j] <=> q \in is_running[j] \/ (j = i /\ q = r)
              /\ pc'[j][q]["new"] = IF j = i /\ q = r THEN "Loop" ELSE pc[j][q]["new"]
              /\ \/ pc'[j][q]["old"] = pc[j][q]["old"]
                 \/ /\ j = i /\ q = r /\ pc'[j][q]["old"] = pc[j][q]["new"]
                    /\ "orphan" \in mishaps'
         /\ "orphan" \notin mishaps' => pc[i][r]["new"] = "Exited"
<1>1. FlagType(is_stopping) /\ FlagType(is_running) /\ PcType(pc)
      /\ mishaps \subseteq {"early", "reconfigure", "replace", "orphan", "start"}
  BY TypeParts
<1>2. /\ FlagType(is_stopping')
      /\ \A j \in Streams, q \in Roles :
           q \in is_stopping'[j] <=> q \in is_stopping[j] /\ ~(j = i /\ q = r)
  BY <1>1 DEF Launch, Clear, FlagType
<1>3. /\ FlagType(is_running')
      /\ \A j \in Streams, q \in Roles :
           q \in is_running'[j] <=> q \in is_running[j] \/ (j = i /\ q = r)
  BY <1>1 DEF Launch, Set, FlagType
<1>4. \/ /\ pc[i][r]["new"] = "Exited" /\ mishaps' = mishaps
         /\ pc' = [pc EXCEPT ![i][r].new = "Loop"]
      \/ /\ mishaps' = mishaps \cup {"orphan"}
         /\ pc' = [pc EXCEPT ![i][r].old = pc[i][r].new, ![i][r].new = "Loop"]
  BY DEF Launch, At
<1>5. CASE /\ pc[i][r]["new"] = "Exited" /\ mishaps' = mishaps
           /\ pc' = [pc EXCEPT ![i][r].new = "Loop"]
  <2>1. PcType(pc') /\ \A j \in Streams, q \in Roles :
          /\ pc'[j][q]["new"] = IF j = i /\ q = r THEN "Loop" ELSE pc[j][q]["new"]
          /\ pc'[j][q]["old"] = pc[j][q]["old"]
    BY <1>1, <1>5 DEF PcType
  <2>. QED
    BY <1>1, <1>2, <1>3, <1>5, <2>1
<1>6. CASE /\ mishaps' = mishaps \cup {"orphan"}
           /\ pc' = [pc EXCEPT ![i][r].old = pc[i][r].new, ![i][r].new = "Loop"]
  <2>. DEFINE kept == [pc EXCEPT ![i][r].old = pc[i][r].new]
  <2>1. PcType(kept) /\ \A j \in Streams, q \in Roles :
          /\ kept[j][q]["new"] = pc[j][q]["new"]
          /\ kept[j][q]["old"] = IF j = i /\ q = r THEN pc[j][q]["new"] ELSE pc[j][q]["old"]
    BY <1>1 DEF PcType
  <2>2. pc' = [kept EXCEPT ![i][r].new = "Loop"]
    BY <1>6
  <2>. HIDE DEF kept
  <2>3. PcType(pc') /\ \A j \in Streams, q \in Roles :
          /\ pc'[j][q]["new"] = IF j = i /\ q = r THEN "Loop" ELSE pc[j][q]["new"]
          /\ pc'[j][q]["old"] = IF j = i /\ q = r THEN pc[j][q]["new"] ELSE pc[j][q]["old"]
    BY <2>1, <2>2 DEF PcType
  <2>4. /\ mishaps' \subseteq {"early", "reconfigure", "replace", "orphan", "start"}
        /\ "orphan" \in mishaps' /\ mishaps \subseteq mishaps'
        /\ "early" \in mishaps' <=> "early" \in mishaps
        /\ "start" \in mishaps' <=> "start" \in mishaps
        /\ "reconfigure" \in mishaps' <=> "reconfigure" \in mishaps
    BY <1>1, <1>6
  <2>. QED
    BY <1>2, <1>3, <2>3, <2>4
<1>. QED
  BY <1>4, <1>5, <1>6

\* acquire_configure: each device is kept running, armed, or left unset.
LEMMA ConfigureType ==
  ASSUME TypeOK, CallConfigure
  PROVE  /\ TypeOK'
         /\ \A i \in Streams :
              /\ camera'[i].state = "Running" => camera[i].state = "Running"
              /\ storage'[i].state = "Running" => storage[i].state = "Running"
              /\ i \in valid_video_streams' =>
                   /\ camera'[i].state \in {"Armed", "Running"}
                   /\ storage'[i].state \in {"Armed", "Running"}
              /\ camera[i].state # "Closed" /\ camera'[i].state = "Closed"
                   => "replace" \in mishaps' \/ ~UsesCamera(i, "new")
              /\ storage[i].state # "Closed" => storage'[i].state # "Closed"
<1>1. PICK settings \in [Streams -> Settings] :
        /\ Configure(settings, {i \in Streams : settings[i] # NoDevices})
        /\ mishaps' = mishaps
             \cup (IF \E i \in Streams : is_running[i] # {} THEN {"reconfigure"} ELSE {})
             \cup (IF Replaces(settings) THEN {"replace"} ELSE {})
  BY RequestsAssumption DEF CallConfigure
<1>. DEFINE asked == {i \in Streams : settings[i] # NoDevices}
<1>2. PICK src \in [asked -> Results], snk \in [asked -> Results] :
        LET good == {i \in asked : src[i] = "ok" /\ snk[i] = "ok"}
        IN /\ Counts(1 + Cardinality(asked \ good))
           /\ valid_video_streams' = good
           /\ camera' = [i \in Streams |->
                IF i \in asked THEN SourceConfigured(i, settings[i].camera, src[i])
                ELSE camera[i]]
           /\ storage' = [i \in Streams |->
                IF i \in asked THEN SinkConfigured(i, settings[i].storage, snk[i])
                ELSE storage[i]]
           /\ state' = IF good # {} THEN "Armed" ELSE "AwaitingConfiguration"
  BY <1>1 DEF Configure
<1>. DEFINE good == {i \in asked : src[i] = "ok" /\ snk[i] = "ok"}
<1>3. Cardinality(asked \ good) \in Nat
  <2>1. IsFiniteSet(Streams)
    BY FS_Interval, NumStreamsAssumption DEF Streams
  <2>. QED
    BY <2>1, FS_Subset, FS_CardinalityType
<1>4. events' \in 0 .. MaxEvents
  <2>1. Counts(1 + Cardinality(asked \ good))
    BY <1>2
  <2>. HIDE DEF asked, good
  <2>2. events \in 0 .. MaxEvents
    BY TypeParts
  <2>. QED
    BY <1>3, <2>1, <2>2, EventsAssumption DEF Counts
<1>5. \A i \in asked : settings[i].camera \in Cameras /\ settings[i].storage \in Storages
  BY DEF Settings
<1>6. CameraType(camera) /\ StorageType(storage)
  BY TypeParts
<1>7. ASSUME NEW i \in asked
      PROVE  LET c == SourceConfigured(i, settings[i].camera, src[i])
             IN /\ c \in [id : Cameras \cup {Unset},
                     state : {"Closed", "AwaitingConfiguration", "Armed", "Running"}]
                /\ c.state = "Running" => camera[i].state = "Running"
                /\ src[i] = "ok" => c.state \in {"Armed", "Running"}
                /\ camera[i].state # "Closed" /\ c.state = "Closed"
                     => camera[i].id # settings[i].camera
  BY <1>5, <1>6, <1>7 DEF SourceConfigured, StateAfter, CameraType, Results
<1>8. ASSUME NEW i \in asked
      PROVE  LET s == SinkConfigured(i, settings[i].storage, snk[i])
             IN /\ s \in [identifier : Storages \cup {Unset},
                     device : Storages \cup {Unset},
                     state : {"Closed", "AwaitingConfiguration", "Armed", "Running"}]
                /\ s.state = "Running" => storage[i].state = "Running"
                /\ snk[i] = "ok" => s.state \in {"Armed", "Running"}
                /\ storage[i].state # "Closed" => s.state # "Closed"
  BY <1>5, <1>6, <1>8 DEF SinkConfigured, StateAfter, StorageType, Results
<1>9. /\ valid_video_streams' = good
      /\ camera' = [i \in Streams |->
           IF i \in asked THEN SourceConfigured(i, settings[i].camera, src[i])
           ELSE camera[i]]
      /\ storage' = [i \in Streams |->
           IF i \in asked THEN SinkConfigured(i, settings[i].storage, snk[i])
           ELSE storage[i]]
      /\ state' \in {"AwaitingConfiguration", "Armed"}
  BY <1>2
<1>10. \A i \in Streams : camera[i].state # "Closed" /\ i \in asked
          /\ settings[i].camera # camera[i].id
            => "replace" \in mishaps' \/ ~UsesCamera(i, "new")
  BY <1>1 DEF Replaces
<1>11. /\ mishaps' \subseteq {"early", "reconfigure", "replace", "orphan", "start"}
       /\ UNCHANGED <<threads, call>>
  BY <1>1, TypeParts DEF CallConfigure
<1>. HIDE DEF asked
<1>12. CameraType(camera') /\ StorageType(storage')
  BY <1>6, <1>7, <1>8, <1>9 DEF CameraType, StorageType
<1>13. TypeOK'
  <2>1. good \subseteq Streams
    BY DEF asked
  <2>. QED
    BY <1>4, <1>9, <1>11, <1>12, <2>1, TypeParts DEF threads
<1>14. \A i \in good : i \in asked /\ src[i] = "ok" /\ snk[i] = "ok"
  OBVIOUS
<1>. HIDE DEF good
<1>. QED
  BY <1>7, <1>8, <1>9, <1>10, <1>13, <1>14

LEMMA ClientType ==
  ASSUME TypeOK, Client
  PROVE  TypeOK'
<1>. USE DEF CallType, Idle
<1>0. CameraType(camera) /\ StorageType(storage) /\ CallType(call) /\ CallType(Idle)
  BY TypeParts, NumStreamsAssumption
<1>1. CASE CallConfigure
  BY <1>1, ConfigureType
<1>2. CASE CallStart
  <2>1. NextValid(0) \in 0 .. NumStreams
    BY NextValidIsNext, NumStreamsAssumption
  <2>2. CallType(call') /\ state' \in {"AwaitingConfiguration", "Armed", "Running"}
    BY <1>0, <1>2, <2>1, TypeParts DEF CallStart
  <2>3. events' \in 0 .. MaxEvents
    BY <1>2, EventsAssumption, TypeParts DEF CallStart, Counts
  <2>. QED
    BY <1>2, <2>2, <2>3, TypeParts DEF CallStart, Notes, devices, threads
<1>3. CASE StartFails
  <2>1. events' \in 0 .. MaxEvents
    BY <1>3, EventsAssumption, TypeParts DEF StartFails, Counts
  <2>2. CameraType(camera')
    BY <1>0, <1>3, StopKeepsType DEF StartFails, StopCameras, CameraType
  <2>. QED
    BY <1>0, <1>3, <2>1, <2>2, TypeParts DEF StartFails, threads
<1>4. ASSUME NEW i \in Streams, StartSink(i) PROVE TypeOK'
  <2>1. Launch(i, "sink") /\ UNCHANGED <<state, valid_video_streams, camera, events>>
    BY <1>4 DEF StartSink
  <2>2. CallType(call') /\ StorageType(storage')
    BY <1>0, <1>4 DEF StartSink, StorageType
  <2>. QED
    BY <2>1, <2>2, LaunchOne, TypeParts
<1>5. ASSUME NEW i \in Streams, StartFilter(i) PROVE TypeOK'
  <2>1. Launch(i, "filter") /\ UNCHANGED <<state, valid_video_streams, camera, storage, events>>
    BY <1>5 DEF StartFilter, devices
  <2>2. CallType(call')
    BY <1>0, <1>5 DEF StartFilter
  <2>. QED
    BY <2>1, <2>2, LaunchOne, TypeParts
<1>6. ASSUME NEW i \in Streams, StartSource(i) PROVE TypeOK'
  <2>1. Launch(i, "source") /\ UNCHANGED <<valid_video_streams, storage, events>>
    BY <1>6 DEF StartSource
  <2>2. CameraType(camera')
    BY <1>0, <1>6 DEF StartSource, CameraType
  <2>3. i + 1 \in 0 .. NumStreams
    BY NumStreamsAssumption DEF Streams
  <2>4. NextValid(i + 1) \in 0 .. NumStreams
    BY <2>3, NextValidIsNext
  <2>5. CallType(call') /\ state' \in {"AwaitingConfiguration", "Armed", "Running"}
    BY <1>0, <1>6, <2>4, TypeParts DEF StartSource
  <2>. QED
    BY <2>1, <2>2, <2>5, LaunchOne, TypeParts
<1>7. CASE CallStop
  BY <1>0, <1>7, TypeParts DEF CallStop, devices, threads, history
<1>8. CASE StopReturns
  BY <1>0, <1>8, TypeParts DEF StopReturns, devices, threads, history
<1>9. ASSUME NEW shutdown \in BOOLEAN, CallAbort(shutdown) PROVE TypeOK'
  <2>1. CameraType(camera')
    BY <1>0, <1>9, StopKeepsType DEF CallAbort, StopCameras, CameraType
  <2>2. FlagType(is_stopping')
    BY <1>9, TypeParts DEF CallAbort, FlagType
  <2>3. CallType(call')
    BY <1>0, <1>9 DEF CallAbort
  <2>. QED
    BY <1>9, <2>1, <2>2, <2>3, TypeParts DEF CallAbort, history
<1>10. CASE DestroyStream
  <2>1. CameraType(camera')
    BY <1>0, <1>10, CloseKeepsType DEF DestroyStream
  <2>2. StorageType(storage')
    BY <1>0, <1>10, CloseKeepsType DEF DestroyStream
  <2>3. CallType(call')
    BY <1>0, <1>10, NumStreamsAssumption DEF DestroyStream
  <2>. QED
    BY <1>10, <2>1, <2>2, <2>3, TypeParts DEF DestroyStream, threads, history
<1>11. CASE ShutdownReturns
  BY <1>0, <1>11, TypeParts DEF ShutdownReturns, devices, threads, history
<1>12. CASE GetState
  BY <1>12, TypeParts DEF GetState, devices, threads, history
<1>. QED
  BY <1>1, <1>2, <1>3, <1>4, <1>5, <1>6, <1>7, <1>8, <1>9, <1>10, <1>11, <1>12
     DEF Client

\* The flags a thread's step changes: it clears its own is_running as it gets
\* out, its own is_stopping as it exits, and a source that leaves its loop tells
\* the other two to stop.
LEMMA ThreadFlags ==
  ASSUME TypeOK, NEW i \in Streams, NEW r \in Roles, NEW g \in Generations,
         Thread(i, r, g)
  PROVE  /\ \A j \in Streams, q \in Roles :
              /\ q \in is_running'[j] => q \in is_running[j]
              /\ q \in is_running[j] =>
                   \/ q \in is_running'[j]
                   \/ j = i /\ q = r /\ IsOut(pc'[i][r][g]) /\ ~IsOut(pc[i][r][g])
              /\ q \in is_stopping[j] =>
                   \/ q \in is_stopping'[j]
                   \/ j = i /\ q = r /\ pc'[i][r][g] = "Exited"
         /\ r = "source" /\ pc[i][r][g] = "Loop" =>
              {"filter", "sink"} \subseteq is_stopping'[i]
<1>. USE DEF Thread, At, IsOut
<1>1. FlagType(is_running) /\ FlagType(is_stopping) /\ PcType(pc)
  BY TypeParts
<1>2. CASE SourceLeaves(i, g) /\ r = "source"
  BY <1>1, <1>2 DEF SourceLeaves, Set, FlagType
<1>3. CASE SourceExits(i, g) /\ r = "source"
  <2>1. \/ UNCHANGED <<is_running, is_stopping>>
        \/ /\ pc[i][r][g] = "ClearRunning" /\ Moves(i, r, g, "Exited")
           /\ Clear(is_stopping, i, r) /\ Clear(is_running, i, r)
    BY <1>3 DEF SourceExits
  <2>2. pc[i][r][g] # "Loop"
    BY <1>3 DEF SourceExits
  <2>. QED
    BY <1>1, <2>1, <2>2, MovesOne DEF Clear, FlagType
<1>4. CASE r = "filter" /\ (FilterStops(i, g) \/ FilterFails(i, g))
  <2>1. /\ pc[i][r][g] = "Loop" /\ Moves(i, r, g, "ClearStopping")
        /\ Clear(is_running, i, r) /\ is_stopping' = is_stopping
    BY <1>4 DEF FilterStops, FilterFails, FilterLeaves, Told
  <2>. QED
    BY <1>1, <1>4, <2>1, MovesOne DEF Clear, FlagType
<1>5. CASE r = "sink" /\ (SinkStops(i, g) \/ SinkFindsStopped(i, g) \/ SinkFails(i, g))
  <2>1. /\ is_running' = is_running
        /\ is_stopping' = is_stopping \/ Set(is_stopping, i, {"source"})
    BY <1>5 DEF SinkStops, SinkFindsStopped, SinkFails, SinkLeaves, Told
  <2>. QED
    BY <1>1, <1>5, <2>1 DEF Set, FlagType
<1>6. CASE ClearsFlags(i, r, g) /\ r \in {"filter", "sink"}
  <2>1. \/ /\ pc[i][r][g] = "ClearRunning" /\ Moves(i, r, g, "ClearStopping")
           /\ Clear(is_running, i, r) /\ is_stopping' = is_stopping
        \/ /\ pc[i][r][g] = "ClearStopping" /\ Moves(i, r, g, "Exited")
           /\ Clear(is_stopping, i, r) /\ is_running' = is_running
    BY <1>6 DEF ClearsFlags
  <2>. QED
    BY <1>1, <1>6, <2>1, MovesOne DEF Clear, FlagType
<1>. QED
  BY <1>2, <1>3, <1>4, <1>5, <1>6

\* The devices a thread's step changes: a source past its loop stops the camera,
\* a sink that leaves its loop stops storage.
LEMMA ThreadDevices ==
  ASSUME TypeOK, NEW i \in Streams, NEW r \in Roles, NEW g \in Generations,
         Thread(i, r, g)
  PROVE  /\ \A j \in Streams :
              /\ camera'[j].state = camera[j].state \/ camera'[j].state = "Armed"
              /\ storage'[j].state = storage[j].state \/ storage'[j].state = "Armed"
         /\ r = "source" /\ pc[i][r][g] = "Loop" => pc'[i][r][g] = "StopCamera"
         /\ r = "source" /\ pc[i][r][g] = "StopCamera" => camera'[i].state # "Running"
         /\ r = "sink" /\ pc[i][r][g] = "Loop" => storage'[i].state # "Running"
         /\ \A j \in Streams :
              /\ camera[j].state = "Closed" => camera'[j].state = "Closed"
              /\ storage[j].state = "Closed" => storage'[j].state = "Closed"
<1>. USE DEF At
<1>1. CameraType(camera) /\ StorageType(storage)
  BY TypeParts
<1>2. CASE r = "source"
  <2>1. storage' = storage
        /\ \/ camera' = camera /\ pc[i][r][g] = "Loop" /\ Moves(i, r, g, "StopCamera")
           \/ camera' = camera /\ pc[i][r][g] = "ClearRunning"
           \/ StopCamera(i) /\ pc[i][r][g] = "StopCamera"
    BY <1>2 DEF Thread, SourceLeaves, SourceExits, devices
  <2>2. CASE camera' = camera /\ pc[i][r][g] # "StopCamera"
    BY <1>2, <2>1, <2>2, MovesOne
  <2>3. CASE StopCamera(i) /\ pc[i][r][g] = "StopCamera"
    BY <1>1, <1>2, <2>1, <2>3, StopKeepsType DEF StopCamera, CameraType
  <2>. QED
    BY <2>1, <2>2, <2>3
<1>3. CASE r = "filter"
  <2>1. UNCHANGED devices
    BY <1>3 DEF Thread, FilterStops, FilterFails, FilterLeaves, ClearsFlags
  <2>. QED
    BY <1>3, <2>1 DEF devices
<1>4. CASE r = "sink"
  <2>1. camera' = camera
        /\ \/ storage' = storage /\ pc[i][r][g] # "Loop"
           \/ storage' = [storage EXCEPT ![i] = Stopped(@)]
    BY <1>4 DEF Thread, SinkStops, SinkFindsStopped, SinkFails, SinkLeaves, ClearsFlags,
                devices
  <2>2. CASE storage' = storage /\ pc[i][r][g] # "Loop"
    BY <1>4, <2>1, <2>2
  <2>3. CASE storage' = [storage EXCEPT ![i] = Stopped(@)]
    <3>1. \A j \in Streams :
            storage'[j] = IF j = i THEN Stopped(storage[i]) ELSE storage[j]
      BY <1>1, <2>3 DEF StorageType
    <3>. QED
      BY <1>4, <2>1, <3>1, StopKeepsType
  <2>. QED
    BY <2>1, <2>2, <2>3
<1>. QED
  BY <1>2, <1>3, <1>4

-------------------------------------------------------------------------------
(* The parts of the inductive invariant, one lemma each.                   *)

\* The thread of a role that was joined stays so, unless one is launched.
LEMMA JoinedStays ==
  ASSUME TypeOK, NEW i \in Streams, NEW r \in Roles, NEW g \in Generations,
         Thread(i, r, g), NEW j \in Streams, Joined(j)
  PROVE  Joined(j)'
  BY ThreadLeaves DEF Joined, At

LEMMA CallStep ==
  ASSUME TypeOK, TypeOK', CallInv, Next
  PROVE  CallInv'
<1>. USE DEF CallInv, Idle
<1>0. CallType(call)
  BY TypeParts
<1>. USE DEF CallType
<1>1. CASE CallConfigure
  BY <1>1 DEF CallConfigure, threads
<1>2. CASE CallStart
  <2>1. CASE valid_video_streams = {}
    BY <1>2, <2>1 DEF CallStart
  <2>2. CASE valid_video_streams # {}
    <3>1. NextValid(0) \in valid_video_streams
      BY <2>2, NextValidIsNext, NumStreamsAssumption
    <3>. QED
      BY <1>2, <2>2, <3>1 DEF CallStart
  <2>. QED
    BY <2>1, <2>2
<1>3. CASE StartFails
  BY <1>3 DEF StartFails
<1>4. ASSUME NEW i \in Streams, StartSink(i) \/ StartFilter(i) PROVE CallInv'
  BY <1>0, <1>4 DEF StartSink, StartFilter, Starting
<1>5. ASSUME NEW i \in Streams, StartSource(i) PROVE CallInv'
  <2>1. i + 1 \in 0 .. NumStreams
    BY NumStreamsAssumption DEF Streams
  <2>2. NextValid(i + 1) # NumStreams => NextValid(i + 1) \in valid_video_streams
    BY <2>1, NextValidIsNext
  <2>3. call' = Idle \/ (NextValid(i + 1) # NumStreams
                          /\ call'.op = "start" /\ call'.at = NextValid(i + 1)
                          /\ ~call'.abort)
    <3>1. CASE NextValid(i + 1) = NumStreams
      BY <1>5, <3>1 DEF StartSource
    <3>2. CASE NextValid(i + 1) # NumStreams
      BY <1>5, <3>2 DEF StartSource
    <3>. QED
      BY <3>1, <3>2
  <2>4. valid_video_streams' = valid_video_streams
    BY <1>5 DEF StartSource
  <2>. QED
    BY <2>2, <2>3, <2>4
<1>6. CASE CallStop \/ StopReturns \/ \E shutdown \in BOOLEAN : CallAbort(shutdown)
  <2>1. call'.op \in {"none", "stop", "destroy"} /\ (call'.op = "none" => call' = Idle)
        /\ (call'.abort => call'.op = "stop") /\ (call'.op = "destroy" => call'.at = 0)
    <3>1. CASE CallStop
      BY <3>1 DEF CallStop
    <3>2. CASE StopReturns
      BY <3>2 DEF StopReturns
    <3>3. ASSUME NEW shutdown \in BOOLEAN, CallAbort(shutdown)
          PROVE  call'.op = "stop"
      BY <3>3 DEF CallAbort
    <3>. QED
      BY <1>6, <3>1, <3>2, <3>3
  <2>2. \A i \in Streams : ~(i < 0)
    BY NumStreamsAssumption DEF Streams
  <2>. QED
    BY <2>1, <2>2
<1>7. CASE DestroyStream
  <2>1. call.op = "destroy" /\ Joined(call.at) /\ call' = [call EXCEPT !.at = @ + 1]
        /\ UNCHANGED <<valid_video_streams, pc>>
    BY <1>7 DEF DestroyStream, threads
  <2>2. \A i \in Streams : i < call.at + 1 => i < call.at \/ i = call.at
    BY <1>0 DEF Streams
  <2>3. \A i \in Streams : Joined(i)' <=> Joined(i)
    BY <2>1 DEF Joined, At
  <2>. QED
    BY <1>0, <2>1, <2>2, <2>3
<1>8. CASE ShutdownReturns
  <2>1. call.op = "destroy" /\ call.at = NumStreams /\ call'.op = "closed"
        /\ call'.abort = FALSE /\ UNCHANGED pc
    BY <1>8 DEF ShutdownReturns, threads
  <2>2. \A i \in Streams : i < NumStreams
    BY NumStreamsAssumption DEF Streams
  <2>3. \A i \in Streams : Joined(i)' <=> Joined(i)
    BY <2>1 DEF Joined, At
  <2>. QED
    BY <2>1, <2>2, <2>3
<1>9. CASE GetState
  BY <1>9 DEF GetState, threads
<1>10. ASSUME NEW i \in Streams, NEW r \in Roles, NEW g \in Generations, Thread(i, r, g)
       PROVE  CallInv'
  <2>1. UNCHANGED <<call, valid_video_streams>>
    BY <1>10, ThreadLeaves
  <2>2. \A j \in Streams : Joined(j) => Joined(j)'
    BY <1>10, JoinedStays
  <2>. QED
    BY <2>1, <2>2
<1>. QED
  BY <1>1, <1>2, <1>3, <1>4, <1>5, <1>6, <1>7, <1>8, <1>9, <1>10 DEF Next, Client

\* Only a Launch moves a thread to the loop or makes it old.
LEMMA OldStep ==
  ASSUME IInv, TypeOK', Next
  PROVE  OldInv'
<1>. USE DEF OldInv, LoopsAreExclusive
<1>0. TypeOK /\ OldInv /\ FlagsInv /\ CallInv
  BY DEF IInv
<1>1. ASSUME NEW i \in Streams, NEW r \in Roles, Launch(i, r), Starting(i, r)
      PROVE  OldInv'
  <2>1. ASSUME "early" \notin mishaps'
        PROVE  pc[i][r]["new"] \in {"ClearStopping", "Exited"}
    <3>1. "early" \notin mishaps /\ i \in valid_video_streams /\ r \in RolesFrom(r)
      BY <1>0, <1>1, <2>1, LaunchOne DEF CallInv, Starting, RolesFrom
    <3>2. r \notin is_running[i]
      BY <1>0, <1>1, <3>1 DEF FlagsInv, Starting
    <3>. QED
      BY <1>0, <3>1, <3>2 DEF FlagsInv, IsOut
  <2>. QED
    BY <1>0, <1>1, <2>1, LaunchOne
<1>2. ASSUME UNCHANGED pc, mishaps \subseteq mishaps'
      PROVE  OldInv'
  BY <1>0, <1>2
<1>3. CASE CallConfigure \/ CallStart \/ StartFails
  BY <1>2, <1>3 DEF CallConfigure, CallStart, StartFails, Notes, threads
<1>4. CASE CallStop \/ StopReturns \/ \E shutdown \in BOOLEAN : CallAbort(shutdown)
  BY <1>2, <1>4 DEF CallStop, StopReturns, CallAbort, threads, history
<1>5. CASE DestroyStream \/ ShutdownReturns \/ GetState
  BY <1>2, <1>5 DEF DestroyStream, ShutdownReturns, GetState, threads, history
<1>6. ASSUME NEW i \in Streams, StartSink(i) \/ StartFilter(i) \/ StartSource(i)
      PROVE  OldInv'
  BY <1>1, <1>6 DEF StartSink, StartFilter, StartSource
<1>7. ASSUME NEW i \in Streams, NEW r \in Roles, NEW g \in Generations, Thread(i, r, g)
      PROVE  OldInv'
  <2>1. /\ \A j \in Streams, q \in Roles, h \in Generations :
             pc[j][q][h] = "Exited" => pc'[j][q][h] = "Exited"
        /\ \A j \in Streams, q \in Roles, h \in Generations :
             IsOut(pc[j][q][h]) => IsOut(pc'[j][q][h])
        /\ mishaps' = mishaps
    BY <1>0, <1>7, ThreadLeaves
  <2>. QED
    BY <1>0, <2>1 DEF IsOut
<1>. QED
  BY <1>3, <1>4, <1>5, <1>6, <1>7 DEF Next, Client

LEMMA FlagsStep ==
  ASSUME IInv, TypeOK', Next
  PROVE  FlagsInv'
<1>. USE DEF FlagsInv
<1>0. TypeOK /\ OldInv /\ FlagsInv /\ CallInv
  BY DEF IInv
<1>1. ASSUME UNCHANGED <<pc, is_running>>, mishaps \subseteq mishaps', call'.op # "start"
      PROVE  FlagsInv'
  BY <1>0, <1>1
<1>2. CASE CallConfigure \/ StartFails
  <2>1. UNCHANGED <<pc, is_running>> /\ call'.op # "start"
    BY <1>0, <1>2 DEF CallConfigure, StartFails, threads, CallInv, Idle
  <2>2. mishaps \subseteq mishaps'
    BY <1>2 DEF CallConfigure, StartFails
  <2>. QED
    BY <1>1, <2>1, <2>2
<1>3. CASE CallStart
  <2>1. UNCHANGED <<pc, is_running, valid_video_streams>> /\ mishaps \subseteq mishaps'
    BY <1>3 DEF CallStart, threads, Notes
  <2>2. ASSUME "early" \notin mishaps'
        PROVE  \A i \in valid_video_streams : is_running[i] = {}
    BY <1>3, <2>2 DEF CallStart, Notes, SomeRunning
  <2>. QED
    BY <1>0, <2>1, <2>2
<1>4. ASSUME NEW i \in Streams, NEW r \in Roles, Launch(i, r),
             UNCHANGED valid_video_streams,
             \A j \in valid_video_streams, q \in Roles :
               call'.op = "start"
               /\ (j > call'.at \/ (j = call'.at /\ q \in RolesFrom(call'.role)))
               => /\ call.op = "start" /\ ~(j = i /\ q = r)
                  /\ j > call.at \/ (j = call.at /\ q \in RolesFrom(call.role))
      PROVE  FlagsInv'
  <2>1. \A j \in Streams, q \in Roles :
          /\ q \in is_running'[j] <=> q \in is_running[j] \/ (j = i /\ q = r)
          /\ pc'[j][q]["new"] = IF j = i /\ q = r THEN "Loop" ELSE pc[j][q]["new"]
    BY <1>0, <1>4, LaunchOne
  <2>2. "early" \in mishaps' <=> "early" \in mishaps
    BY <1>0, <1>4, LaunchOne
  <2>3. valid_video_streams \subseteq Streams
    BY <1>0, TypeParts
  <2>. QED
    BY <1>0, <1>4, <2>1, <2>2, <2>3
<1>5. ASSUME NEW i \in Streams, StartSink(i) PROVE FlagsInv'
  <2>1. Launch(i, "sink") /\ UNCHANGED valid_video_streams /\ call.op = "start"
        /\ call.at = i /\ call.role = "sink" /\ call' = [call EXCEPT !.role = "filter"]
    BY <1>5 DEF StartSink, Starting
  <2>2. CallType(call) /\ valid_video_streams \subseteq Streams
    BY <1>0, TypeParts
  <2>3. call'.op = "start" /\ call'.at = i /\ call'.role = "filter"
    BY <2>1, <2>2 DEF CallType
  <2>4. \A q \in Roles :
          q \in RolesFrom("filter") => q # "sink" /\ q \in RolesFrom("sink")
    BY DEF RolesFrom
  <2>5. i \in Int /\ \A j \in valid_video_streams : j > i => j # i
    BY <2>2, NumStreamsAssumption DEF Streams
  <2>6. \A j \in valid_video_streams, q \in Roles :
          (j > call'.at \/ (j = call'.at /\ q \in RolesFrom(call'.role)))
          => /\ ~(j = i /\ q = "sink")
             /\ j > call.at \/ (j = call.at /\ q \in RolesFrom(call.role))
    BY <2>1, <2>3, <2>4, <2>5
  <2>. QED
    BY <1>4, <2>1, <2>6
<1>6. ASSUME NEW i \in Streams, StartFilter(i) PROVE FlagsInv'
  <2>1. Launch(i, "filter") /\ UNCHANGED valid_video_streams /\ call.op = "start"
        /\ call.at = i /\ call.role = "filter" /\ call' = [call EXCEPT !.role = "source"]
    BY <1>6 DEF StartFilter, Starting
  <2>2. CallType(call) /\ valid_video_streams \subseteq Streams
    BY <1>0, TypeParts
  <2>3. call'.op = "start" /\ call'.at = i /\ call'.role = "source"
    BY <2>1, <2>2 DEF CallType
  <2>4. \A q \in Roles :
          q \in RolesFrom("source") => q # "filter" /\ q \in RolesFrom("filter")
    BY DEF RolesFrom
  <2>5. i \in Int /\ \A j \in valid_video_streams : j > i => j # i
    BY <2>2, NumStreamsAssumption DEF Streams
  <2>6. \A j \in valid_video_streams, q \in Roles :
          (j > call'.at \/ (j = call'.at /\ q \in RolesFrom(call'.role)))
          => /\ ~(j = i /\ q = "filter")
             /\ j > call.at \/ (j = call.at /\ q \in RolesFrom(call.role))
    BY <2>1, <2>3, <2>4, <2>5
  <2>. QED
    BY <1>4, <2>1, <2>6
<1>7. ASSUME NEW i \in Streams, StartSource(i) PROVE FlagsInv'
  <2>1. Launch(i, "source") /\ UNCHANGED valid_video_streams /\ call.op = "start"
        /\ call.at = i /\ call.role = "source"
    BY <1>7 DEF StartSource, Starting
  <2>2. valid_video_streams \subseteq Streams /\ i \in Nat /\ i + 1 \in 0 .. NumStreams
    BY <1>0, TypeParts, NumStreamsAssumption DEF Streams
  <2>3. call'.op = "none" \/ call'.at = NextValid(i + 1)
    <3>1. CASE NextValid(i + 1) = NumStreams
      BY <1>7, <3>1 DEF StartSource, Idle
    <3>2. CASE NextValid(i + 1) # NumStreams
      BY <1>7, <3>2 DEF StartSource, Idle
    <3>. QED
      BY <3>1, <3>2
  <2>4. NextValid(i + 1) >= i + 1 /\ NextValid(i + 1) \in Nat
    BY <1>0, <2>2, NextValidIsNext, NumStreamsAssumption
  <2>5. \A j \in valid_video_streams :
          j \in Nat /\ (j >= NextValid(i + 1) => j > i /\ j # i)
    BY <2>2, <2>4, NumStreamsAssumption DEF Streams
  <2>6. \A j \in valid_video_streams :
          j > NextValid(i + 1) \/ j = NextValid(i + 1) => j >= NextValid(i + 1)
    BY <2>4, <2>5
  <2>. QED
    BY <1>4, <2>1, <2>3, <2>5, <2>6
<1>8. CASE CallStop \/ StopReturns \/ \E shutdown \in BOOLEAN : CallAbort(shutdown)
  <2>1. UNCHANGED <<pc, is_running, mishaps>> /\ call'.op # "start"
    <3>1. CASE CallStop
      BY <3>1 DEF CallStop, Idle, threads, history
    <3>2. CASE StopReturns
      BY <3>2 DEF StopReturns, Idle, threads, history
    <3>3. ASSUME NEW shutdown \in BOOLEAN, CallAbort(shutdown)
          PROVE  UNCHANGED <<pc, is_running, mishaps>> /\ call'.op # "start"
      BY <3>3 DEF CallAbort, Idle, history
    <3>. QED
      BY <1>8, <3>1, <3>2, <3>3
  <2>. QED
    BY <1>1, <2>1
<1>9. CASE DestroyStream \/ ShutdownReturns \/ GetState
  <2>1. UNCHANGED <<pc, is_running, mishaps>> /\ call'.op # "start"
    BY <1>0, <1>9, TypeParts DEF DestroyStream, ShutdownReturns, GetState, threads, history,
       Idle, CallType
  <2>. QED
    BY <1>1, <2>1
<1>10. ASSUME NEW i \in Streams, NEW r \in Roles, NEW g \in Generations, Thread(i, r, g)
       PROVE  FlagsInv'
  <2>1. UNCHANGED <<call, valid_video_streams, mishaps>>
        /\ valid_video_streams \subseteq Streams
    BY <1>0, <1>10, ThreadLeaves, TypeParts
  <2>2. \A j \in Streams, q \in Roles : q \in is_running'[j] => q \in is_running[j]
    BY <1>0, <1>10, ThreadFlags
  <2>3. ASSUME "early" \notin mishaps, NEW j \in Streams, NEW q \in Roles,
               ~IsOut(pc'[j][q]["new"])
        PROVE  q \in is_running'[j]
    <3>1. ~IsOut(pc[j][q]["new"])
      BY <1>0, <1>10, <2>3, ThreadLeaves
    <3>2. q \in is_running[j]
      BY <1>0, <2>3, <3>1
    <3>3. ~(j = i /\ q = r /\ IsOut(pc'[i][r][g]) /\ ~IsOut(pc[i][r][g]))
      BY <1>0, <2>3 DEF OldInv, LoopsAreExclusive, IsOut
    <3>. QED
      BY <1>0, <1>10, <3>2, <3>3, ThreadFlags
  <2>. QED
    BY <1>0, <2>1, <2>2, <2>3
<1>. QED
  BY <1>2, <1>3, <1>5, <1>6, <1>7, <1>8, <1>9, <1>10 DEF Next, Client

LEMMA UseStep ==
  ASSUME IInv, TypeOK', Next
  PROVE  UseInv'
<1>. USE DEF UseInv, UsesCamera
<1>0. /\ TypeOK /\ OldInv /\ UseInv /\ CallInv
      /\ CameraType(camera) /\ StorageType(storage) /\ CallType(call)
      /\ valid_video_streams \subseteq Streams
  BY TypeParts DEF IInv
<1>1. ASSUME UNCHANGED <<pc, valid_video_streams>>, mishaps \subseteq mishaps',
             call'.op \notin {"destroy", "closed"} => call.op \notin {"destroy", "closed"},
             \A i \in Streams :
               /\ \/ camera'[i].state = camera[i].state
                  \/ camera[i].state = "Running" /\ camera'[i].state = "Armed"
               /\ storage'[i].state = storage[i].state
      PROVE  UseInv'
  BY <1>0, <1>1
<1>2. CASE CallConfigure
  <2>1. UNCHANGED <<pc, call>> /\ mishaps \subseteq mishaps' /\ call.op = "none"
    BY <1>2 DEF CallConfigure, threads, Idle
  <2>2. valid_video_streams' \subseteq Streams
    BY TypeParts DEF TypeOK
  <2>3. ASSUME NEW i \in Streams
        PROVE  /\ camera'[i].state = "Running" => camera[i].state = "Running"
               /\ storage'[i].state = "Running" => storage[i].state = "Running"
               /\ i \in valid_video_streams' =>
                    /\ camera'[i].state \in {"Armed", "Running"}
                    /\ storage'[i].state \in {"Armed", "Running"}
               /\ camera[i].state # "Closed" /\ camera'[i].state = "Closed"
                    => "replace" \in mishaps' \/ ~UsesCamera(i, "new")
               /\ storage[i].state # "Closed" => storage'[i].state # "Closed"
    BY <1>0, <1>2, ConfigureType
  <2>. QED
    BY <1>0, <2>1, <2>2, <2>3
<1>3. CASE CallStart
  BY <1>1, <1>3 DEF CallStart, Notes, devices, threads, Idle
<1>4. CASE StartFails
  <2>1. \A i \in Streams :
          \/ camera'[i].state = camera[i].state
          \/ camera[i].state = "Running" /\ camera'[i].state = "Armed"
    BY <1>0, <1>4, StopKeepsType DEF StartFails, StopCameras
  <2>. QED
    BY <1>1, <1>4, <2>1 DEF StartFails, threads
<1>5. ASSUME NEW i \in Streams, StartSink(i) PROVE UseInv'
  <2>1. /\ Launch(i, "sink") /\ UNCHANGED <<camera, valid_video_streams>>
        /\ call.op = "start" /\ storage' = [storage EXCEPT ![i].state = "Running"]
    BY <1>5 DEF StartSink, Starting
  <2>2. \A j \in Streams :
          storage'[j].state = IF j = i THEN "Running" ELSE storage[j].state
    BY <1>0, <2>1 DEF StorageType
  <2>3. \A j \in Streams, q \in Roles :
          pc'[j][q]["new"] = IF j = i /\ q = "sink" THEN "Loop" ELSE pc[j][q]["new"]
    BY <1>0, <2>1, LaunchOne
  <2>4. mishaps \subseteq mishaps'
    BY <1>0, <2>1, LaunchOne
  <2>. QED
    BY <1>0, <2>1, <2>2, <2>3, <2>4
<1>6. ASSUME NEW i \in Streams, StartFilter(i) PROVE UseInv'
  <2>1. /\ Launch(i, "filter") /\ UNCHANGED <<camera, storage, valid_video_streams>>
        /\ call.op = "start"
    BY <1>6 DEF StartFilter, Starting, devices
  <2>2. \A j \in Streams, q \in Roles :
          pc'[j][q]["new"] = IF j = i /\ q = "filter" THEN "Loop" ELSE pc[j][q]["new"]
    BY <1>0, <2>1, LaunchOne
  <2>3. mishaps \subseteq mishaps'
    BY <1>0, <2>1, LaunchOne
  <2>. QED
    BY <1>0, <2>1, <2>2, <2>3
<1>7. ASSUME NEW i \in Streams, StartSource(i) PROVE UseInv'
  <2>1. /\ Launch(i, "source") /\ UNCHANGED <<storage, valid_video_streams>>
        /\ call.op = "start" /\ camera' = [camera EXCEPT ![i].state = "Running"]
    BY <1>7 DEF StartSource, Starting
  <2>2. \A j \in Streams :
          camera'[j].state = IF j = i THEN "Running" ELSE camera[j].state
    BY <1>0, <2>1 DEF CameraType
  <2>3. \A j \in Streams, q \in Roles :
          pc'[j][q]["new"] = IF j = i /\ q = "source" THEN "Loop" ELSE pc[j][q]["new"]
    BY <1>0, <2>1, LaunchOne
  <2>4. mishaps \subseteq mishaps'
    BY <1>0, <2>1, LaunchOne
  <2>. QED
    BY <1>0, <2>1, <2>2, <2>3, <2>4
<1>8. CASE CallStop \/ StopReturns \/ ShutdownReturns \/ GetState
  <2>1. UNCHANGED <<pc, valid_video_streams, mishaps, camera, storage>>
    BY <1>8 DEF CallStop, StopReturns, ShutdownReturns, GetState, devices, threads, history
  <2>2. call'.op \notin {"destroy", "closed"} => call.op \notin {"destroy", "closed"}
    BY <1>0, <1>8 DEF CallStop, StopReturns, ShutdownReturns, GetState, Idle
  <2>. QED
    BY <1>1, <2>1, <2>2
<1>9. ASSUME NEW shutdown \in BOOLEAN, CallAbort(shutdown) PROVE UseInv'
  <2>1. \A i \in Streams :
          \/ camera'[i].state = camera[i].state
          \/ camera[i].state = "Running" /\ camera'[i].state = "Armed"
    BY <1>0, <1>9, StopKeepsType DEF CallAbort, StopCameras
  <2>. QED
    BY <1>1, <1>9, <2>1 DEF CallAbort, Idle, history
<1>10. CASE DestroyStream
  <2>1. /\ call.at \in Streams /\ Joined(call.at) /\ UNCHANGED <<pc, mishaps>>
        /\ camera' = [camera EXCEPT ![call.at].state = "Closed"]
        /\ storage' = [storage EXCEPT ![call.at].state = "Closed"]
    BY <1>0, <1>10, NumStreamsAssumption
       DEF DestroyStream, threads, history, CallType, Streams
  <2>2. call'.op = "destroy"
    BY <1>0, <1>10 DEF DestroyStream, CallType
  <2>3. \A j \in Streams :
          /\ camera'[j].state = IF j = call.at THEN "Closed" ELSE camera[j].state
          /\ storage'[j].state = IF j = call.at THEN "Closed" ELSE storage[j].state
    BY <1>0, <2>1 DEF CameraType, StorageType
  <2>4. \A r \in Roles : pc[call.at][r]["new"] = "Exited"
    BY <2>1 DEF Joined, At
  <2>. QED
    BY <1>0, <2>1, <2>2, <2>3, <2>4
<1>11. ASSUME NEW i \in Streams, NEW r \in Roles, NEW g \in Generations, Thread(i, r, g)
       PROVE  UseInv'
  <2>1. UNCHANGED <<call, valid_video_streams, mishaps>>
    BY <1>0, <1>11, ThreadLeaves
  <2>2. ASSUME NEW j \in Streams
        PROVE  /\ camera'[j].state = "Running"
                    => pc'[j]["source"]["new"] \in {"Loop", "StopCamera"}
               /\ storage'[j].state = "Running" => pc'[j]["sink"]["new"] = "Loop"
    <3>1. /\ camera'[j].state = "Running" => camera[j].state = "Running"
          /\ storage'[j].state = "Running" => storage[j].state = "Running"
      BY <1>0, <1>11, ThreadDevices
    <3>2. /\ r = "source" /\ j = i /\ g = "new" /\ camera'[j].state = "Running"
             /\ pc[j]["source"]["new"] \in {"Loop", "StopCamera"}
               => pc'[j]["source"]["new"] = "StopCamera"
          /\ r = "sink" /\ j = i /\ storage'[j].state = "Running" => pc[i][r][g] # "Loop"
      BY <1>0, <1>11, ThreadDevices
    <3>3. /\ ~(r = "source" /\ j = i /\ g = "new") =>
               pc'[j]["source"]["new"] = pc[j]["source"]["new"]
          /\ ~(r = "sink" /\ j = i /\ g = "new") =>
               pc'[j]["sink"]["new"] = pc[j]["sink"]["new"]
      BY <1>0, <1>11, ThreadLeaves
    <3>. QED
      BY <1>0, <3>1, <3>2, <3>3
  <2>3. ASSUME NEW j \in Streams
        PROVE  /\ pc'[j]["source"]["new"] \in {"Loop", "StopCamera"}
                    => pc[j]["source"]["new"] \in {"Loop", "StopCamera"}
               /\ pc'[j]["sink"]["new"] = "Loop" => pc[j]["sink"]["new"] = "Loop"
    BY <1>0, <1>11, ThreadLeaves
  <2>4. \A j \in Streams :
          /\ camera'[j].state = camera[j].state \/ camera'[j].state = "Armed"
          /\ storage'[j].state = storage[j].state \/ storage'[j].state = "Armed"
    BY <1>0, <1>11, ThreadDevices
  <2>. QED
    BY <1>0, <2>1, <2>2, <2>3, <2>4
<1>. QED
  BY <1>2, <1>3, <1>4, <1>5, <1>6, <1>7, <1>8, <1>9, <1>10, <1>11 DEF Next, Client

LEMMA ToldStep ==
  ASSUME IInv, TypeOK', Next
  PROVE  ToldInv'
<1>. USE DEF ToldInv
<1>0. /\ TypeOK /\ OldInv /\ ToldInv /\ CallInv /\ CallType(call)
      /\ FlagType(is_stopping) /\ valid_video_streams \subseteq Streams
  BY TypeParts DEF IInv
<1>1. ASSUME UNCHANGED pc, mishaps \subseteq mishaps',
             \A i \in Streams : is_stopping[i] \subseteq is_stopping'[i],
             call.op # "start",
             call'.abort => call.abort /\ UNCHANGED valid_video_streams
      PROVE  ToldInv'
  BY <1>0, <1>1
<1>2. CASE CallConfigure
  BY <1>0, <1>1, <1>2 DEF CallConfigure, threads, Idle
<1>3. CASE CallStart
  <2>1. ~call'.abort /\ call.op = "none" /\ mishaps \subseteq mishaps'
        /\ UNCHANGED <<pc, is_stopping>>
    <3>1. CASE valid_video_streams = {}
      BY <1>3, <3>1 DEF CallStart, Notes, threads, Idle
    <3>2. CASE valid_video_streams # {}
      BY <1>3, <3>2 DEF CallStart, Notes, threads, Idle
    <3>. QED
      BY <3>1, <3>2
  <2>. HIDE DEF ToldInv
  <2>. QED
    BY <1>1, <2>1
<1>4. CASE StartFails
  <2>1. UNCHANGED <<pc, is_stopping>> /\ ~call'.abort /\ mishaps \subseteq mishaps'
    BY <1>4 DEF StartFails, threads, Idle
  <2>2. "start" \notin mishaps' => call.role = "sink"
    BY <1>4 DEF StartFails
  <2>3. \A r \in Roles : r \in RolesFrom("sink")
    BY DEF RolesFrom
  <2>. QED
    BY <1>0, <2>1, <2>2, <2>3
<1>5. ASSUME NEW i \in Streams, NEW r \in {"sink", "filter"}, Launch(i, r), Starting(i, r),
             call' = [call EXCEPT !.role = IF r = "sink" THEN "filter" ELSE "source"],
             UNCHANGED valid_video_streams
      PROVE  ToldInv'
  <2>1. /\ call'.op = "start" /\ call'.at = i /\ ~call'.abort
        /\ call'.role = IF r = "sink" THEN "filter" ELSE "source"
        /\ call.at = i /\ call.role = r /\ call.op = "start"
    BY <1>0, <1>5 DEF Starting, CallType, CallInv
  <2>2. mishaps \subseteq mishaps'
    BY <1>0, <1>5, LaunchOne
  <2>3. ASSUME NEW j \in Streams, NEW q \in Roles
        PROVE  /\ q \in is_stopping'[j] <=> q \in is_stopping[j] /\ ~(j = i /\ q = r)
               /\ pc'[j][q]["new"] = IF j = i /\ q = r THEN "Loop" ELSE pc[j][q]["new"]
    BY <1>0, <1>5, LaunchOne
  <2>4. r \notin RolesFrom(call'.role)
        /\ \A q \in Roles : q \notin RolesFrom(call.role) => q \notin RolesFrom(call'.role)
    BY <2>1 DEF RolesFrom
  <2>. QED
    BY <1>0, <2>1, <2>2, <2>3, <2>4
<1>6. ASSUME NEW i \in Streams, StartSink(i) \/ StartFilter(i) PROVE ToldInv'
  BY <1>5, <1>6 DEF StartSink, StartFilter, Starting
<1>7. ASSUME NEW i \in Streams, StartSource(i) PROVE ToldInv'
  <2>1. /\ Launch(i, "source") /\ call.at = i /\ UNCHANGED valid_video_streams
    BY <1>7 DEF StartSource, Starting
  <2>2. ~call'.abort
    <3>1. CASE NextValid(i + 1) = NumStreams
      BY <1>7, <3>1 DEF StartSource, Idle
    <3>2. CASE NextValid(i + 1) # NumStreams
      BY <1>7, <3>2 DEF StartSource, Idle
    <3>. QED
      BY <3>1, <3>2
  <2>3. mishaps \subseteq mishaps'
    BY <1>0, <2>1, LaunchOne
  <2>4. ASSUME NEW j \in Streams, NEW q \in Roles
        PROVE  /\ q \in is_stopping'[j] <=> q \in is_stopping[j] /\ ~(j = i /\ q = "source")
               /\ pc'[j][q]["new"] =
                    IF j = i /\ q = "source" THEN "Loop" ELSE pc[j][q]["new"]
    BY <1>0, <2>1, LaunchOne
  <2>. QED
    BY <1>0, <2>1, <2>2, <2>3, <2>4
<1>8. CASE CallStop \/ StopReturns
  <2>1. UNCHANGED <<pc, is_stopping, mishaps>> /\ call.op # "start" /\ ~call'.abort
    <3>1. CASE CallStop
      BY <3>1 DEF CallStop, Idle, threads, history
    <3>2. CASE StopReturns
      BY <3>2 DEF StopReturns, Idle, threads, history
    <3>. QED
      BY <1>8, <3>1, <3>2
  <2>. HIDE DEF ToldInv
  <2>. QED
    BY <1>1, <2>1
<1>9. CASE DestroyStream \/ ShutdownReturns \/ GetState
  <2>1. UNCHANGED <<pc, is_stopping, mishaps>> /\ call.op # "start" /\ ~call'.abort
    BY <1>0, <1>9
       DEF DestroyStream, ShutdownReturns, GetState, Idle, CallType, CallInv, threads, history
  <2>. HIDE DEF ToldInv
  <2>. QED
    BY <1>1, <2>1
<1>10. ASSUME NEW shutdown \in BOOLEAN, CallAbort(shutdown) PROVE ToldInv'
  <2>1. UNCHANGED <<pc, mishaps, valid_video_streams>> /\ call.op # "start"
    BY <1>10 DEF CallAbort, Idle, history
  <2>2. \A i \in Streams :
          is_stopping'[i] = IF i \in valid_video_streams
                            THEN is_stopping[i] \cup {"source"} ELSE is_stopping[i]
    BY <1>10 DEF CallAbort
  <2>. QED
    BY <1>0, <2>1, <2>2
<1>11. ASSUME NEW i \in Streams, NEW r \in Roles, NEW g \in Generations, Thread(i, r, g)
       PROVE  ToldInv'
  <2>1. UNCHANGED <<call, valid_video_streams, mishaps>>
    BY <1>0, <1>11, ThreadLeaves
  <2>2. SUFFICES ASSUME mishaps \cap {"start", "orphan"} = {}
                 PROVE  ToldInv'
    BY <2>1
  <2>3. g = "new"
    BY <1>0, <1>11, <2>2, ThreadLeaves DEF OldInv
  <2>4. ASSUME NEW j \in Streams, NEW q \in Roles, pc'[j][q]["new"] = "Loop"
        PROVE  /\ pc[j][q]["new"] = "Loop"
               /\ q \in is_stopping[j] => q \in is_stopping'[j]
    BY <1>0, <1>11, <2>3, <2>4, ThreadLeaves, ThreadFlags
  <2>5. ASSUME NEW j \in Streams, pc[j]["source"]["new"] = "Loop",
               pc'[j]["source"]["new"] # "Loop"
        PROVE  {"filter", "sink"} \subseteq is_stopping'[j]
    <3>1. j = i /\ r = "source"
      BY <1>0, <1>11, <2>5, ThreadLeaves
    <3>. QED
      BY <1>0, <1>11, <2>3, <2>5, <3>1, ThreadFlags
  <2>. QED
    BY <1>0, <2>1, <2>2, <2>4, <2>5
<1>. QED
  BY <1>2, <1>3, <1>4, <1>6, <1>7, <1>8, <1>9, <1>10, <1>11 DEF Next, Client

LEMMA ReadyStep ==
  ASSUME IInv, TypeOK', Next
  PROVE  ReadyInv'
<1>. USE DEF ReadyInv
<1>0. /\ TypeOK /\ OldInv /\ FlagsInv /\ ReadyInv /\ CallInv /\ CallType(call)
      /\ FlagType(is_running) /\ valid_video_streams \subseteq Streams
  BY TypeParts DEF IInv
<1>1. ASSUME UNCHANGED <<pc, valid_video_streams>>, mishaps \subseteq mishaps',
             call' = Idle /\ state' = "Armed" => call = Idle /\ state = "Armed"
      PROVE  ReadyInv'
  BY <1>0, <1>1
<1>2. CASE CallConfigure
  <2>1. ASSUME mishaps' \cap {"reconfigure", "early"} = {}
        PROVE  \A i \in Streams, r \in Roles : IsOut(pc[i][r]["new"])
    <3>1. "early" \notin mishaps /\ \A i \in Streams : is_running[i] = {}
      BY <1>2, <2>1 DEF CallConfigure
    <3>. QED
      BY <1>0, <3>1 DEF FlagsInv
  <2>2. UNCHANGED pc
    BY <1>2 DEF CallConfigure, threads
  <2>. QED
    BY <2>1, <2>2
<1>3. CASE CallStart
  <2>1. UNCHANGED <<pc, valid_video_streams>> /\ mishaps \subseteq mishaps'
        /\ call = Idle
    BY <1>3 DEF CallStart, Notes, threads
  <2>2. state' = state \/ state' # "Armed"
    BY <1>3 DEF CallStart
  <2>. QED
    BY <1>1, <2>1, <2>2
<1>4. CASE StartFails
  BY <1>1, <1>4 DEF StartFails, threads
<1>5. ASSUME NEW i \in Streams, NEW r \in Roles, Launch(i, r), Starting(i, r),
             UNCHANGED valid_video_streams,
             call'.op # "none" \/ state' # "Armed"
      PROVE  ReadyInv'
  <2>1. i \in valid_video_streams
    BY <1>0, <1>5 DEF Starting, CallInv
  <2>2. ~(call' = Idle /\ state' = "Armed")
    BY <1>5 DEF Idle
  <2>3. \A j \in Streams, q \in Roles :
          j # i => pc'[j][q]["new"] = pc[j][q]["new"]
    BY <1>0, <1>5, LaunchOne
  <2>4. "early" \in mishaps' <=> "early" \in mishaps
    BY <1>0, <1>5, LaunchOne
  <2>5. "reconfigure" \in mishaps' <=> "reconfigure" \in mishaps
    BY <1>0, <1>5, LaunchOne
  <2>. QED
    BY <1>0, <1>5, <2>1, <2>2, <2>3, <2>4, <2>5
<1>6. ASSUME NEW i \in Streams, StartSink(i) \/ StartFilter(i) PROVE ReadyInv'
  <2>1. call'.op = "start"
    BY <1>0, <1>6 DEF StartSink, StartFilter, Starting, CallType
  <2>. QED
    BY <1>5, <1>6, <2>1 DEF StartSink, StartFilter
<1>7. ASSUME NEW i \in Streams, StartSource(i) PROVE ReadyInv'
  <2>1. call'.op # "none" \/ state' # "Armed"
    <3>1. CASE NextValid(i + 1) = NumStreams
      BY <1>7, <3>1 DEF StartSource, Idle
    <3>2. CASE NextValid(i + 1) # NumStreams
      BY <1>7, <3>2 DEF StartSource, Idle
    <3>. QED
      BY <3>1, <3>2
  <2>. QED
    BY <1>5, <1>7, <2>1 DEF StartSource
<1>8. CASE CallStop \/ ShutdownReturns \/ \E shutdown \in BOOLEAN : CallAbort(shutdown)
  <2>1. UNCHANGED <<pc, valid_video_streams, mishaps>> /\ call'.op # "none"
    <3>1. CASE CallStop
      BY <3>1 DEF CallStop, Idle, threads, history
    <3>2. CASE ShutdownReturns
      BY <3>2 DEF ShutdownReturns, Idle, threads, history
    <3>3. ASSUME NEW shutdown \in BOOLEAN, CallAbort(shutdown)
          PROVE  UNCHANGED <<pc, valid_video_streams, mishaps>> /\ call'.op # "none"
      BY <3>3 DEF CallAbort, Idle, history
    <3>. QED
      BY <1>8, <3>1, <3>2, <3>3
  <2>. QED
    BY <1>1, <2>1 DEF Idle
<1>9. CASE StopReturns
  <2>1. \A i \in valid_video_streams, r \in Roles : pc[i][r]["new"] = "Exited"
    BY <1>9 DEF StopReturns, Joined, At
  <2>2. UNCHANGED <<pc, valid_video_streams, mishaps>>
    BY <1>9 DEF StopReturns, threads, history
  <2>. QED
    BY <1>0, <2>1, <2>2 DEF IsOut
<1>10. CASE DestroyStream
  <2>1. UNCHANGED <<pc, valid_video_streams, mishaps>> /\ call'.op # "none"
    BY <1>0, <1>10 DEF DestroyStream, CallType, threads, history
  <2>. QED
    BY <1>1, <2>1 DEF Idle
<1>11. CASE GetState
  <2>1. UNCHANGED <<pc, valid_video_streams, mishaps>>
    BY <1>11 DEF GetState, threads, history
  <2>2. ASSUME state' = "Armed"
        PROVE  \A i \in valid_video_streams : is_running[i] = {}
    BY <1>11, <2>2 DEF GetState, SomeRunning
  <2>. QED
    BY <1>0, <2>1, <2>2 DEF FlagsInv
<1>12. ASSUME NEW i \in Streams, NEW r \in Roles, NEW g \in Generations, Thread(i, r, g)
       PROVE  ReadyInv'
  <2>1. /\ UNCHANGED <<state, call, valid_video_streams, mishaps>>
        /\ \A j \in Streams, q \in Roles :
             IsOut(pc[j][q]["new"]) => IsOut(pc'[j][q]["new"])
    BY <1>0, <1>12, ThreadLeaves
  <2>. QED
    BY <1>0, <2>1
<1>. QED
  BY <1>2, <1>3, <1>4, <1>6, <1>7, <1>8, <1>9, <1>10, <1>11, <1>12 DEF Next, Client

-------------------------------------------------------------------------------
(* The theorems.                                                           *)

LEMMA InitIInv == Init => IInv
<1>. SUFFICES ASSUME Init PROVE IInv
  OBVIOUS
<1>1. TypeOK
  BY InitType
<1>2. \A i \in Streams, r \in Roles, g \in Generations : pc[i][r][g] = "Exited"
  BY DEF Init
<1>3. call = Idle /\ valid_video_streams = {} /\ Idle.op = "none" /\ Idle.abort = FALSE
  BY DEF Init, Idle
<1>4. \A i \in Streams : camera[i].state # "Running" /\ storage[i].state # "Running"
  BY DEF Init
<1>5. CallInv /\ OldInv
  BY <1>2, <1>3 DEF CallInv, OldInv, LoopsAreExclusive
<1>6. FlagsInv /\ ToldInv /\ ReadyInv
  BY <1>2, <1>3 DEF FlagsInv, ToldInv, ReadyInv, IsOut
<1>7. UseInv
  BY <1>2, <1>3, <1>4 DEF UseInv, UsesCamera
<1>. QED
  BY <1>1, <1>5, <1>6, <1>7 DEF IInv

LEMMA StepIInv == IInv /\ [Next]_vars => IInv'
<1>1. ASSUME IInv, Next PROVE IInv'
  <2>1. TypeOK
    BY <1>1 DEF IInv
  <2>2. TypeOK'
    BY <1>1, <2>1, ClientType, ThreadType DEF Next
  <2>3. CallInv'
    BY <1>1, <2>1, <2>2, CallStep DEF IInv
  <2>. QED
    BY <1>1, <2>2, <2>3, OldStep, FlagsStep, UseStep, ToldStep, ReadyStep DEF IInv
<1>2. ASSUME IInv, UNCHANGED vars PROVE IInv'
  <2>. USE DEF vars, devices, threads, history
  <2>1. TypeOK' /\ CallInv'
    BY <1>2 DEF IInv, TypeOK, CallInv, Joined, At
  <2>2. OldInv' /\ FlagsInv' /\ UseInv'
    BY <1>2 DEF IInv, OldInv, LoopsAreExclusive, FlagsInv, UseInv, UsesCamera
  <2>3. ToldInv' /\ ReadyInv'
    BY <1>2 DEF IInv, ToldInv, ReadyInv
  <2>. QED
    BY <2>1, <2>2, <2>3 DEF IInv
<1>. QED
  BY <1>1, <1>2

\* The inductive invariant holds in every state of the runtime, with any number
\* of streams, cameras and storage devices and of events.
THEOREM Invariance == Spec => []IInv
  BY InitIInv, StepIInv, PTL DEF Spec

\* The state, the devices and the threads have their types; so the first or next
\* valid stream acquire_start looks for always exists or is the end.
THEOREM TypeCorrect == Spec => []TypeOK
<1>1. IInv => TypeOK
  BY DEF IInv
<1>. QED
  BY <1>1, Invariance, PTL

\* A new acquisition may begin when acquire_stop has returned or
\* acquire_get_state says Armed: no thread is at work and the devices are armed.
THEOREM ArmedIsReady == Spec => []ArmedMeansReady
<1>1. IInv => ArmedMeansReady
  <2>. SUFFICES ASSUME IInv, call = Idle, state = "Armed",
                       mishaps \cap {"reconfigure", "early"} = {}
                PROVE  /\ \A i \in Streams, r \in Roles, g \in Generations :
                            pc[i][r][g] \in {"ClearStopping", "Exited"}
                       /\ \A i \in valid_video_streams :
                            camera[i].state = "Armed" /\ storage[i].state = "Armed"
    BY DEF ArmedMeansReady
  <2>1. \A i \in Streams, r \in Roles : pc[i][r]["new"] \in {"ClearStopping", "Exited"}
    BY DEF IInv, ReadyInv, IsOut
  <2>2. \A i \in Streams, r \in Roles : pc[i][r]["old"] \in {"ClearStopping", "Exited"}
    BY DEF IInv, OldInv, LoopsAreExclusive
  <2>3. call.op = "none" /\ valid_video_streams \subseteq Streams
    BY TypeParts DEF Idle, IInv
  <2>4. \A i \in valid_video_streams :
          camera[i].state = "Armed" /\ storage[i].state = "Armed"
    BY <2>1, <2>3 DEF IInv, UseInv
  <2>. QED
    BY <2>1, <2>2, <2>4
<1>. QED
  BY <1>1, Invariance, PTL

\* No device is closed under a thread that may still use it, and no thread
\* outlives the runtime, whatever acquire_configure and a failed acquire_start
\* left behind, as long as no thread was forgotten; but for the camera, once
\* acquire_configure has replaced one under a source that was using it.
THEOREM DevicesStayOpen == Spec => []DevicesOutliveThreads
<1>1. IInv => DevicesOutliveThreads
  <2>. SUFFICES ASSUME IInv, "orphan" \notin mishaps, NEW i \in Streams,
                       NEW g \in Generations
                PROVE  /\ UsesCamera(i, g) =>
                            camera[i].state # "Closed" \/ "replace" \in mishaps
                       /\ pc[i]["sink"][g] = "Loop" => storage[i].state # "Closed"
                       /\ call.op = "closed" => \A r \in Roles : pc[i][r][g] = "Exited"
    BY DEF DevicesOutliveThreads
  <2>1. \A r \in Roles : pc[i][r]["old"] = "Exited"
    BY DEF IInv, OldInv
  <2>2. call.op = "closed" => \A r \in Roles : pc[i][r]["new"] = "Exited"
    BY DEF IInv, CallInv, Joined, At
  <2>3. /\ UsesCamera(i, "new") => camera[i].state # "Closed" \/ "replace" \in mishaps
        /\ pc[i]["sink"]["new"] = "Loop" => storage[i].state # "Closed"
    BY DEF IInv, UseInv
  <2>. QED
    BY <2>1, <2>2, <2>3 DEF UsesCamera
<1>. QED
  BY <1>1, Invariance, PTL

\* Two threads of a role are never both in their loops, on one reader of a
\* queue, if acquire_start is called only when no flag says a thread is running.
THEOREM OneLoopPerRole == Spec => []LoopsAreExclusive
<1>1. IInv => LoopsAreExclusive
  BY DEF IInv, OldInv
<1>. QED
  BY <1>1, Invariance, PTL

\* When acquire_abort joins, each source it joins has been told to stop; a
\* filter or sink whose source is gone has been told as well.
THEOREM NobodyIsLeftBehind == Spec => []EveryThreadIsTold
<1>1. IInv => EveryThreadIsTold
  <2>. SUFFICES ASSUME IInv, mishaps \cap {"start", "orphan"} = {},
                       NEW i \in valid_video_streams
                PROVE  /\ call.abort /\ At(i, "source", "new", "Loop")
                            => "source" \in is_stopping[i]
                       /\ call.op # "start" /\ ~At(i, "source", "new", "Loop") =>
                            \A r \in {"filter", "sink"} :
                              At(i, r, "new", "Loop") => r \in is_stopping[i]
    BY DEF EveryThreadIsTold
  <2>1. i \in Streams
    BY TypeParts DEF IInv
  <2>. QED
    BY <2>1 DEF IInv, ToldInv, At
<1>. QED
  BY <1>1, Invariance, PTL

===============================================================================
