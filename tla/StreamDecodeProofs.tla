------------------------- MODULE StreamDecodeProofs -------------------------
(***************************************************************************)
(* Proofs about StreamDecode, for any number of devices, handles, frames   *)
(* and ring slots.                                                         *)
(***************************************************************************)
EXTENDS StreamDecode, FiniteSetTheorems, TLAPS

\* Each frame begun is shown at most, or decoded, or published, once.
Counted(d) ==
    /\ camera[d].frame <= frames
    /\ shown[d] \subseteq 1 .. camera[d].frame
    /\ ~Live(d) => shown[d] = {}
    /\ active[d] <= camera[d].frame
    /\ watcher[d] \in Decoding <=> active[d] # 0
    /\ seq[d] + Cardinality(shown[d]) + (IF active[d] = 0 THEN 0 ELSE 1) <= camera[d].frame

\* A call is into the sink attached, and only a frame in hand is fed.
CallsAttached(d) ==
    /\ watcher[d] = "in_begin" => sink[d] # NoHandle
    /\ watcher[d] \in {"in_feed", "in_finish", "in_abort"} =>
         fed_ctx[d] # NoHandle /\ sink[d] = fed_ctx[d]
    /\ fed_ctx[d] # NoHandle =>
         watcher[d] \in {"rows", "finish", "in_feed", "in_finish", "in_abort"}

\* What a slot of a ring holds.
RingSlot(d, i) ==
    LET r == results[d][i]
    IN  /\ r.seq <= seq[d]
        /\ r.seq > 0 => i = r.seq % kResults
        /\ i = Slot(d) /\ watcher[d] \in {"finish", "in_finish"} => r.ctx = NoHandle

\* A handle's thread between the calls has nothing, and in them a frame that
\* its camera has sent.
Busy == {"search", "lost", "decoded", "move", "fetch", "taken"}

HasFrame(h) ==
    /\ handle[h] \in Busy \cup {"detach"} => h \in alive
    /\ handle[h] \in Busy => /\ given[h] \in Frames
                            /\ Device(h) = source[h]
                            /\ given[h][2] <= camera[Device(h)].frame
    /\ handle[h] \in {"idle", "search", "lost", "taken", "detach"} => asked[h] = 0
    /\ handle[h] \in {"move", "fetch"} => asked[h] # 0

\* The number asked for is that of the frame given; or the watcher is a new
\* one, whose frames are all later.
Numbered(h) ==
    LET d == Device(h)
    IN  /\ asked[h] <= seq[d]
        /\ \A i \in Slots : results[d][i].seq = asked[h] => results[d][i].frame = given[h][2]

Later(h) ==
    LET d == Device(h)
        n == given[h][2]
    IN  /\ \A frame \in shown[d] : frame > n
        /\ active[d] # 0 => active[d] > n
        /\ \A i \in Slots : results[d][i].seq > 0 => results[d][i].frame > n

AskedFrame(h) == asked[h] # 0 => Numbered(h) \/ Later(h)

\* Where a sink may be attached, and its results kept, while its handle moves
\* or detaches it.
SinkPlaces(h) ==
    \A d \in Devices :
      /\ sink[d] = h =>
           /\ h \in alive
           /\ handle[h] = "move" => d \in todo[h] \cup {Device(h)}
           /\ handle[h] = "fetch" => d = Device(h)
           /\ handle[h] = "detach" => d \in todo[h]
           /\ \A e \in Devices \ {d} : sink[e] # h
      /\ \A i \in Slots : results[d][i].ctx = h =>
           h \in alive /\ (handle[h] = "detach" => d \in todo[h])

Inv ==
    /\ TypeOK
    /\ \A d \in Devices : /\ Counted(d)
                          /\ CallsAttached(d)
                          /\ \A i \in Slots : RingSlot(d, i)
    /\ \A h \in Handles : HasFrame(h) /\ AskedFrame(h) /\ SinkPlaces(h)

\* A sink that a watcher feeds with a frame was begun with it, and no other
\* watcher has it; or it was taken off this one, and its camera is another.
BegunFrame(d) ==
    LET c == fed_ctx[d]
    IN  c # NoHandle =>
          \/ begun[c] = <<d, active[d]>> /\ \A e \in Devices \ {d} : sink[e] # c
          \/ sink[d] # c /\ (c \in alive => source[c] # d)

\* A sink result is of the frame it is kept with, or of the one that is about
\* to have its slot.
RingResult(d, i) ==
    LET r == results[d][i]
        next == i = Slot(d) /\ watcher[d] = "publish"
    IN  r.ctx # NoHandle => r.out = <<d, IF next THEN active[d] ELSE r.frame>>

FedInv == \A d \in Devices : BegunFrame(d) /\ \A i \in Slots : RingResult(d, i)

-----------------------------------------------------------------------------
\* A slot's number is in the ring, and what a slot is set to is a result.
LEMMA SlotType ==
    ASSUME TypeOK, NEW d \in Devices
    PROVE  Slot(d) \in Slots
<1>1. seq[d] + 1 \in Nat /\ kResults \in Nat \ {0}
  BY LimitsAssumption DEF TypeOK
<1> HIDE DEF TypeOK
<1>2. \A n \in Nat, k \in Nat \ {0} : n % k \in 0 .. k - 1
  OBVIOUS
<1> QED
  BY <1>1, <1>2 DEF Slot, Slots

\* An empty slot is a result, and stays one when it is cleared, given a sink
\* result, or given a frame.
LEMMA ResultType ==
    /\ Empty \in Result
    /\ \A r \in Result : ClearSink(r) \in Result
    /\ \A r \in Result, c \in Handles, o \in Frames \cup {NoFrame} :
         [r EXCEPT !.ctx = c, !.out = o] \in Result
    /\ \A r \in Result, n \in 0 .. MaxFrames, f \in 0 .. MaxFrames :
         [r EXCEPT !.seq = n, !.frame = f] \in Result
<1>1. Empty \in Result
  BY LimitsAssumption DEF Result, Empty
<1>2. \A r \in Result : ClearSink(r) \in Result
  BY DEF Result, ClearSink
<1>3. \A r \in Result, c \in Handles, o \in Frames \cup {NoFrame} :
        [r EXCEPT !.ctx = c, !.out = o] \in Result
  BY DEF Result
<1>4. \A r \in Result, n \in 0 .. MaxFrames, f \in 0 .. MaxFrames :
        [r EXCEPT !.seq = n, !.frame = f] \in Result
  BY DEF Result
<1> QED
  BY <1>1, <1>2, <1>3, <1>4

\* Setting a slot to a result leaves the results results.
LEMMA SetSlotType ==
    ASSUME TypeOK, NEW d \in Devices, NEW i \in Slots, NEW r \in Result,
           results' = [results EXCEPT ![d][i] = r]
    PROVE  results' \in [Devices -> [Slots -> Result]]
BY DEF TypeOK

\* The initial state satisfies the invariant.
LEMMA InitInv == Init => Inv
<1> SUFFICES ASSUME Init PROVE Inv
  OBVIOUS
<1> USE DEF Init
<1>1. TypeOK
  <2>1. results \in [Devices -> [Slots -> Result]]
    BY ResultType
  <2>2. /\ watcher \in [Devices -> {"none", "wait", "dead"} \cup Decoding]
        /\ shown \in [Devices -> SUBSET (1 .. MaxFrames)]
    OBVIOUS
  <2>3. /\ camera \in [Devices -> [frame : 0 .. MaxFrames, arriving : BOOLEAN]]
        /\ frames \in 0 .. MaxFrames /\ active \in [Devices -> 0 .. MaxFrames]
        /\ seq \in [Devices -> 0 .. MaxFrames] /\ replugs \in 0 .. MaxReplugs
        /\ asked \in [Handles -> 0 .. MaxFrames]
    BY LimitsAssumption
  <2> QED
    BY <2>1, <2>2, <2>3 DEF TypeOK
<1>2. ASSUME NEW d \in Devices
      PROVE  Counted(d) /\ CallsAttached(d) /\ \A i \in Slots : RingSlot(d, i)
  <2>1. Counted(d)
    <3>1. /\ frames = 0 /\ camera[d].frame = 0 /\ active[d] = 0 /\ seq[d] = 0
          /\ shown[d] = {} /\ watcher[d] \in {"none", "wait"}
      OBVIOUS
    <3>2. Cardinality(shown[d]) = 0
      BY <3>1, FS_EmptySet
    <3> QED
      BY <3>1, <3>2 DEF Counted, Decoding, SinkCalls
  <2>2. CallsAttached(d) /\ \A i \in Slots : RingSlot(d, i)
    BY DEF CallsAttached, RingSlot, Empty
  <2> QED
    BY <2>1, <2>2
<1>3. ASSUME NEW h \in Handles
      PROVE  HasFrame(h) /\ AskedFrame(h) /\ SinkPlaces(h)
  BY HandlesAssumption DEF HasFrame, AskedFrame, SinkPlaces, Empty, Busy
<1> QED
  BY <1>1, <1>2, <1>3 DEF Inv

\* At first no sink is fed and no result kept.
LEMMA InitFed == Init => FedInv
BY DEF Init, FedInv, BegunFrame, RingResult, Empty

-----------------------------------------------------------------------------
\* How many frames are shown.
LEMMA ShownFinite ==
    ASSUME TypeOK, NEW d \in Devices
    PROVE  IsFiniteSet(shown[d]) /\ Cardinality(shown[d]) \in Nat
<1>1. IsFiniteSet(1 .. MaxFrames)
  BY LimitsAssumption, FS_Interval
<1>2. shown[d] \in SUBSET (1 .. MaxFrames)
  BY DEF TypeOK
<1> QED
  BY <1>1, <1>2, FS_Subset, FS_CardinalityType

-----------------------------------------------------------------------------
\* The steps of the cameras and watchers store values of the right type.
LEMMA WatcherTypes ==
    ASSUME Inv, NEW d \in Devices, CameraStep(d) \/ WatcherStep(d)
    PROVE  TypeOK'
<1> USE DEF vars, cameraVars, watcherVars, handleVars, Watches, Decoding, SinkCalls
<1>0. TypeOK /\ Counted(d) /\ CallsAttached(d)
  BY DEF Inv
<1>1. CASE FrameBegins(d)
  <2>1. camera[d].frame + 1 \in 1 .. MaxFrames
    BY <1>0, <1>1, LimitsAssumption DEF FrameBegins, Counted, TypeOK
  <2>2. frames' \in 0 .. MaxFrames
    BY <1>0, <1>1, LimitsAssumption DEF FrameBegins, TypeOK
  <2>3. camera' \in [Devices -> [frame : 0 .. MaxFrames, arriving : BOOLEAN]]
    BY <1>0, <1>1, <2>1 DEF FrameBegins, TypeOK
  <2>4. shown' \in [Devices -> SUBSET (1 .. MaxFrames)]
    BY <1>0, <1>1, <2>1 DEF FrameBegins, TypeOK
  <2> QED
    BY <1>0, <1>1, <2>2, <2>3, <2>4 DEF FrameBegins, TypeOK
<1>2. CASE FrameEnds(d)
  BY <1>0, <1>2 DEF FrameEnds, TypeOK
<1>3. CASE StartFrame(d)
  <2>1. PICK frame \in shown[d] : /\ active' = [active EXCEPT ![d] = frame]
                                 /\ shown' = [shown EXCEPT ![d] = @ \ {frame}]
    BY <1>3 DEF StartFrame
  <2>2. frame \in 0 .. MaxFrames
    BY <1>0, <2>1 DEF TypeOK
  <2>3. active' \in [Devices -> 0 .. MaxFrames]
    BY <1>0, <2>1, <2>2 DEF TypeOK
  <2>4. shown' \in [Devices -> SUBSET (1 .. MaxFrames)]
    BY <1>0, <2>1 DEF TypeOK
  <2> QED
    BY <1>0, <1>3, <2>3, <2>4 DEF StartFrame, TypeOK
<1>4. CASE NotFed(d) \/ SinkBegin(d) \/ SinkFed(d) \/ Dies(d)
  BY <1>0, <1>4 DEF NotFed, SinkBegin, SinkFed, Dies, TypeOK
<1>5. CASE SinkBegun(d) \/ SinkReset(d)
  <2>1. CASE SinkBegun(d)
    <3>1. <<d, active[d]>> \in Frames
      BY <1>0, <2>1, LimitsAssumption DEF Frames, Counted, SinkBegun, TypeOK
    <3>2. sink[d] \in Handles
      BY <1>0, <2>1 DEF SinkBegun, CallsAttached, TypeOK
    <3>3. begun' \in [Handles -> Frames \cup {NoFrame}]
      BY <1>0, <2>1, <3>1, <3>2 DEF SinkBegun, TypeOK
    <3>4. fed_ctx' \in [Devices -> Handles \cup {NoHandle}]
      BY <1>0, <2>1, <3>2 DEF SinkBegun, TypeOK
    <3> QED
      BY <1>0, <2>1, <3>3, <3>4 DEF SinkBegun, TypeOK
  <2>2. CASE SinkReset(d)
    <3>1. active' \in [Devices -> 0 .. MaxFrames]
      BY <1>0, <2>2, LimitsAssumption DEF SinkReset, TypeOK
    <3> QED
      BY <1>0, <2>2, <3>1 DEF SinkReset, TypeOK
  <2> QED
    BY <1>5, <2>1, <2>2
<1>6. CASE SinkFeed(d) \/ Abort(d) \/ SinkFinish(d)
  <2>1. active' \in [Devices -> 0 .. MaxFrames]
    BY <1>0, <1>6, LimitsAssumption DEF SinkFeed, Abort, SinkFinish, TypeOK
  <2> QED
    BY <1>0, <1>6, <2>1 DEF SinkFeed, Abort, SinkFinish, CallSink, TypeOK
<1>7. CASE ClearSlot(d)
  <2>1. Slot(d) \in Slots /\ results[d][Slot(d)] \in Result
    BY <1>0, SlotType DEF TypeOK
  <2>2. results' = [results EXCEPT ![d][Slot(d)] = ClearSink(results[d][Slot(d)])]
    BY <1>0, <1>7 DEF ClearSlot, TypeOK
  <2>3. results' \in [Devices -> [Slots -> Result]]
    BY <1>0, <2>1, <2>2, ResultType, SetSlotType
  <2> QED
    BY <1>0, <1>7, <2>3 DEF ClearSlot, AllRows, TypeOK
<1>8. CASE SinkFinished(d)
  <2>1. fed_ctx[d] \in Handles
    BY <1>0, <1>8 DEF SinkFinished, CallsAttached, TypeOK
  <2>2. /\ Slot(d) \in Slots /\ results[d][Slot(d)] \in Result
        /\ begun[fed_ctx[d]] \in Frames \cup {NoFrame}
    BY <1>0, <2>1, SlotType DEF TypeOK
  <2>3. results' = [results EXCEPT ![d][Slot(d)] = [results[d][Slot(d)] EXCEPT
                      !.ctx = fed_ctx[d], !.out = begun[fed_ctx[d]]]]
    BY <1>0, <1>8 DEF SinkFinished, TypeOK
  <2>4. results' \in [Devices -> [Slots -> Result]]
    BY <1>0, <2>1, <2>2, <2>3, ResultType, SetSlotType
  <2> QED
    BY <1>0, <1>8, <2>4 DEF SinkFinished, TypeOK
<1>9. CASE Publish(d)
  <2>1. seq[d] + 1 \in 0 .. MaxFrames /\ active[d] \in 0 .. MaxFrames
    <3>1. active[d] # 0 /\ Cardinality(shown[d]) \in Nat
      BY <1>0, <1>9, ShownFinite DEF Publish, Counted
    <3>2. seq[d] + Cardinality(shown[d]) + 1 <= MaxFrames
      BY <1>0, <3>1, LimitsAssumption DEF Counted, TypeOK
    <3> QED
      BY <1>0, <3>1, <3>2, LimitsAssumption DEF TypeOK
  <2>2. Slot(d) \in Slots /\ results[d][Slot(d)] \in Result
    BY <1>0, SlotType DEF TypeOK
  <2>3. results' = [results EXCEPT ![d][Slot(d)] = [results[d][Slot(d)] EXCEPT
                      !.seq = seq[d] + 1, !.frame = active[d]]]
    BY <1>0, <1>9 DEF Publish, TypeOK
  <2>4. results' \in [Devices -> [Slots -> Result]]
    BY <1>0, <2>1, <2>2, <2>3, ResultType, SetSlotType
  <2> QED
    BY <1>0, <1>9, <2>1, <2>4, LimitsAssumption DEF Publish, TypeOK
<1> QED
  BY <1>1, <1>2, <1>3, <1>4, <1>5, <1>6, <1>7, <1>8, <1>9
  DEF CameraStep, WatcherStep, SinkReturns

\* A handle that has a frame has its device.
LEMMA DeviceType ==
    ASSUME Inv, NEW h \in Handles, handle[h] \in Busy
    PROVE  /\ Device(h) \in Devices
           /\ Found(h) \subseteq 0 .. MaxFrames
           /\ given[h] = <<Device(h), given[h][2]>>
           /\ given[h][2] \in 1 .. MaxFrames
<1>1. given[h] \in Frames
  BY DEF Inv, HasFrame
<1>2. /\ Device(h) \in Devices
      /\ given[h] = <<Device(h), given[h][2]>>
      /\ given[h][2] \in 1 .. MaxFrames
  BY <1>1 DEF Frames, Device
<1>3. \A i \in Slots : results[Device(h)][i] \in Result
  BY <1>2 DEF Inv, TypeOK
<1>4. Found(h) \subseteq 0 .. MaxFrames
  BY <1>3 DEF Found, Result
<1> QED
  BY <1>2, <1>4

\* A scan stores values of the right type.
LEMMA ScanTypes ==
    ASSUME TypeOK, NEW new \in SUBSET Devices, Scan(new)
    PROVE  /\ watcher' \in [Devices -> {"none", "wait", "dead"} \cup Decoding]
           /\ sink' \in [Devices -> Handles \cup {NoHandle}]
           /\ seq' \in [Devices -> 0 .. MaxFrames]
           /\ results' \in [Devices -> [Slots -> Result]]
<1>1. watcher' \in [Devices -> {"none", "wait", "dead"} \cup Decoding]
  BY DEF Scan, TypeOK
<1>2. seq' \in [Devices -> 0 .. MaxFrames]
  BY LimitsAssumption DEF Scan, TypeOK
<1>3. sink' \in [Devices -> Handles \cup {NoHandle}]
  BY DEF Scan, TypeOK
<1>4. results' \in [Devices -> [Slots -> Result]]
  BY ResultType DEF Scan, TypeOK
<1> QED
  BY <1>1, <1>2, <1>3, <1>4

\* The calls store values of the right type.
LEMMA HandleTypes ==
    ASSUME Inv, NEW h \in Handles, DecodeGray(h) \/ HandleStep(h) \/ Destroy(h) \/ Replug(h)
    PROVE  TypeOK'
<1> USE DEF vars, cameraVars, watcherVars, handleVars, GoIdle, HoldsList
<1>0. TypeOK
  BY DEF Inv
<1>1. CASE DecodeGray(h)
  <2>1. PICK n \in 1 .. MaxFrames : given' = [given EXCEPT ![h] = <<source[h], n>>]
    <3>1. source[h] \in Devices /\ Complete(source[h]) <= MaxFrames
      BY <1>0, LimitsAssumption DEF TypeOK, Complete
    <3>2. Complete(source[h]) \in Int
      BY <1>0, <3>1 DEF TypeOK, Complete
    <3>3. PICK n \in 1 .. Complete(source[h]) : given' = [given EXCEPT ![h] = <<source[h], n>>]
      BY <1>1 DEF DecodeGray
    <3>4. n \in 1 .. MaxFrames
      BY <3>1, <3>2, LimitsAssumption
    <3> QED
      BY <3>3, <3>4
  <2>2. given' \in [Handles -> Frames \cup {NoFrame}]
    BY <1>0, <2>1 DEF Frames, TypeOK
  <2>3. handle' \in [Handles -> {"idle", "search", "lost", "decoded", "taken"} \cup HoldsList]
    BY <1>0, <1>1 DEF DecodeGray, TypeOK
  <2>4. /\ watcher' \in [Devices -> {"none", "wait", "dead"} \cup Decoding]
        /\ sink' \in [Devices -> Handles \cup {NoHandle}]
        /\ seq' \in [Devices -> 0 .. MaxFrames]
        /\ results' \in [Devices -> [Slots -> Result]]
    <3>1. CASE NoScan
      BY <1>0, <3>1 DEF NoScan, TypeOK
    <3>2. CASE \E new \in SUBSET Devices : Scan(new)
      BY <1>0, <3>2, ScanTypes
    <3> QED
      BY <1>1, <3>1, <3>2 DEF DecodeGray
  <2> QED
    BY <1>0, <1>1, <2>2, <2>3, <2>4 DEF DecodeGray, TypeOK
<1>2. CASE Search(h)
  BY <1>0, <1>2, DeviceType DEF Search, Busy, TypeOK
<1>3. CASE UseDeleted(h)
  BY <1>0, <1>3 DEF UseDeleted, TypeOK
<1>4. CASE Take(h)
  <2>1. Found(h) \subseteq 0 .. MaxFrames
    BY <1>4, DeviceType DEF Take, Busy
  <2>2. PICK n \in 0 .. MaxFrames : asked' = [asked EXCEPT ![h] = n]
    <3>1. asked[h] \in 0 .. MaxFrames /\ 0 \in 0 .. MaxFrames
      BY <1>0, LimitsAssumption DEF TypeOK
    <3> QED
      BY <1>4, <2>1, <3>1 DEF Take
  <2>3. todo' \in [Handles -> SUBSET Devices]
    BY <1>0, <1>4 DEF Take, TypeOK
  <2>4. /\ given' \in [Handles -> Frames \cup {NoFrame}]
        /\ handle' \in [Handles -> {"idle", "search", "lost", "decoded", "taken"} \cup HoldsList]
    BY <1>0, <1>4 DEF Take, TypeOK
  <2> QED
    BY <1>0, <1>4, <2>2, <2>3, <2>4 DEF Take, TypeOK
<1>5. CASE Move(h)
  BY <1>0, <1>5 DEF Move, TypeOK
<1>6. CASE Attach(h)
  BY <1>0, <1>6 DEF Attach, TypeOK
<1>7. CASE Fetch(h)
  <2>1. Device(h) \in Devices
    BY <1>7, DeviceType DEF Fetch, Busy
  <2>2. asked' \in [Handles -> 0 .. MaxFrames]
    BY <1>0, <1>7, LimitsAssumption DEF Fetch, TypeOK
  <2>3. CASE UNCHANGED <<got, results>>
    BY <1>0, <1>7, <2>2, <2>3 DEF Fetch, TypeOK
  <2>4. ASSUME NEW i \in Slots, got' = [got EXCEPT ![h] = results[Device(h)][i].out],
               results' = [results EXCEPT ![Device(h)][i] = ClearSink(@)]
        PROVE  /\ got' \in [Handles -> Frames \cup {NoFrame}]
               /\ results' \in [Devices -> [Slots -> Result]]
    <3>1. results[Device(h)][i] \in Result
      BY <1>0, <2>1 DEF TypeOK
    <3>2. results' = [results EXCEPT ![Device(h)][i] = ClearSink(results[Device(h)][i])]
      BY <1>0, <2>1, <2>4 DEF TypeOK
    <3>3. results' \in [Devices -> [Slots -> Result]]
      BY <1>0, <2>1, <3>1, <3>2, ResultType, SetSlotType
    <3>4. results[Device(h)][i].out \in Frames \cup {NoFrame}
      BY <3>1 DEF Result
    <3> QED
      BY <1>0, <2>4, <3>3, <3>4 DEF TypeOK
  <2>5. CASE ~UNCHANGED <<got, results>>
    <3>1. /\ got' \in [Handles -> Frames \cup {NoFrame}]
          /\ results' \in [Devices -> [Slots -> Result]]
      BY <1>7, <2>4, <2>5 DEF Fetch
    <3> QED
      BY <1>0, <1>7, <2>2, <3>1 DEF Fetch, TypeOK
  <2> QED
    BY <2>3, <2>5
<1>8. CASE UseResult(h) \/ Destroy(h) \/ Detached(h)
  BY <1>0, <1>8 DEF UseResult, Destroy, Detached, TypeOK
<1>9. CASE Detach(h)
  <2>1. PICK d \in todo[h] :
               /\ todo' = [todo EXCEPT ![h] = @ \ {d}]
               /\ sink' = IF sink[d] = h THEN [sink EXCEPT ![d] = NoHandle] ELSE sink
               /\ results' = [results EXCEPT ![d] =
                    [i \in Slots |-> IF @[i].ctx = h THEN ClearSink(@[i]) ELSE @[i]]]
    BY <1>9 DEF Detach
  <2>2. d \in Devices
    BY <1>0, <2>1 DEF TypeOK
  <2>3. \A i \in Slots : results[d][i] \in Result
    BY <1>0, <2>2 DEF TypeOK
  <2>4. [i \in Slots |-> IF results[d][i].ctx = h THEN ClearSink(results[d][i])
                         ELSE results[d][i]] \in [Slots -> Result]
    BY <2>3, ResultType
  <2>5. results' \in [Devices -> [Slots -> Result]]
    BY <1>0, <2>1, <2>2, <2>4 DEF TypeOK
  <2> QED
    BY <1>0, <1>9, <2>1, <2>2, <2>5 DEF Detach, TypeOK
<1>10. CASE Replug(h)
  BY <1>0, <1>10, LimitsAssumption DEF Replug, TypeOK
<1> QED
  BY <1>1, <1>2, <1>3, <1>4, <1>5, <1>6, <1>7, <1>8, <1>9, <1>10 DEF HandleStep

-----------------------------------------------------------------------------
\* A camera or watcher leaves the calls, what is attached and the other
\* devices alone.
LEMMA WatcherScope ==
    ASSUME TypeOK, NEW d \in Devices, CameraStep(d) \/ WatcherStep(d)
    PROVE  /\ UNCHANGED <<handle, given, asked, todo, got, sink, alive, source>>
           /\ frames' >= frames
           /\ \A e \in Devices \ {d} : UNCHANGED <<camera[e], watcher[e], active[e],
                                                   fed_ctx[e], seq[e], results[e], shown[e]>>
<1> USE DEF vars, cameraVars, watcherVars, handleVars, Watches, TypeOK
<1>1. CASE CameraStep(d)
  BY <1>1 DEF CameraStep, FrameBegins, FrameEnds
<1>2. CASE StartFrame(d) \/ NotFed(d) \/ SinkBegin(d) \/ Dies(d)
  BY <1>2 DEF StartFrame, NotFed, SinkBegin, Dies
<1>3. CASE SinkReturns(d)
  BY <1>3 DEF SinkReturns, SinkBegun, SinkFed, SinkFinished, SinkReset
<1>4. CASE SinkFeed(d) \/ Abort(d) \/ SinkFinish(d)
  BY <1>4 DEF SinkFeed, Abort, SinkFinish, CallSink
<1>5. CASE ClearSlot(d) \/ Publish(d)
  BY <1>5 DEF ClearSlot, AllRows, Publish
<1> QED
  BY <1>1, <1>2, <1>3, <1>4, <1>5 DEF WatcherStep

\* A call leaves the cameras and watchers alone, except for a scan.
LEMMA HandleScope ==
    ASSUME NEW h \in Handles, HandleStep(h) \/ Destroy(h) \/ Replug(h)
    PROVE  UNCHANGED <<frames, camera, watcher, active, fed_ctx, seq, shown>>
<1> USE DEF vars, cameraVars, watcherVars, handleVars
<1>1. CASE Search(h) \/ UseDeleted(h) \/ Take(h) \/ Move(h)
  BY <1>1 DEF Search, UseDeleted, Take, Move
<1>2. CASE Attach(h) \/ Fetch(h) \/ UseResult(h)
  BY <1>2 DEF Attach, Fetch, UseResult
<1>3. CASE Detach(h) \/ Detached(h) \/ Destroy(h) \/ Replug(h)
  BY <1>3 DEF Detach, Detached, Destroy, Replug
<1> QED
  BY <1>1, <1>2, <1>3 DEF HandleStep

\* A call leaves the other handles alone, except for a scan.
LEMMA OthersScope ==
    ASSUME TypeOK, NEW h \in Handles, HandleStep(h) \/ Destroy(h) \/ Replug(h)
    PROVE  \A g \in Handles \ {h} : UNCHANGED <<handle[g], given[g], asked[g], todo[g], got[g],
                                                begun[g], source[g]>>
                                    /\ (g \in alive <=> g \in alive')
<1> USE DEF vars, cameraVars, watcherVars, handleVars, TypeOK, GoIdle
<1>1. CASE Search(h) \/ UseDeleted(h)
  BY <1>1 DEF Search, UseDeleted
<1>2. CASE Take(h)
  BY <1>2 DEF Take
<1>3. CASE Move(h) \/ Attach(h)
  BY <1>3 DEF Move, Attach
<1>4. CASE Fetch(h) \/ UseResult(h)
  BY <1>4 DEF Fetch, UseResult
<1>5. CASE Detach(h) \/ Detached(h) \/ Destroy(h) \/ Replug(h)
  BY <1>5 DEF Detach, Detached, Destroy, Replug
<1> QED
  BY <1>1, <1>2, <1>3, <1>4, <1>5 DEF HandleStep

\* A watcher that is there before and after a scan is the same, and one that
\* is not starts anew.
LEMMA ScanScope ==
    ASSUME TypeOK, NEW h \in Handles, DecodeGray(h), NEW d \in Devices
    PROVE  /\ UNCHANGED <<cameraVars, active, shown, fed_ctx, begun, alive, asked, todo, got>>
           /\ \/ UNCHANGED <<watcher[d], sink[d], seq[d], results[d]>>
              \/ /\ watcher[d] \in {"none", "dead"}
                 /\ watcher'[d] \in {"none", "wait"}
                 /\ sink'[d] = NoHandle
                 /\ seq'[d] = 0
                 /\ results'[d] = [i \in Slots |-> Empty]
<1>1. UNCHANGED <<cameraVars, active, shown, fed_ctx, begun, alive, asked, todo, got>>
  BY DEF DecodeGray
<1>2. CASE NoScan
  BY <1>1, <1>2 DEF NoScan
<1>3. CASE \E new \in SUBSET {x \in Devices : ~Live(x)} : Scan(new)
  BY <1>1, <1>3 DEF Scan, Live, TypeOK
<1> QED
  BY <1>2, <1>3 DEF DecodeGray

-----------------------------------------------------------------------------
\* A frame's start is shown once, and started once.
LEMMA CountedStep ==
    ASSUME Inv, NEW d \in Devices, CameraStep(d) \/ WatcherStep(d), NEW e \in Devices
    PROVE  Counted(e)'
<1> USE DEF vars, cameraVars, watcherVars, handleVars, Watches, Decoding, SinkCalls
<1>0. TypeOK /\ Counted(d) /\ Counted(e) /\ frames \in Nat
  BY DEF Inv, TypeOK
<1>1. CASE e # d
  <2>1. /\ UNCHANGED <<camera[e], watcher[e], active[e], seq[e], shown[e]>>
        /\ frames' >= frames
    BY <1>0, <1>1, WatcherScope
  <2>2. frames' \in Nat /\ camera[e].frame \in Nat
    BY <1>0, WatcherTypes DEF TypeOK
  <2> QED
    BY <1>0, <2>1, <2>2 DEF Counted, Live
<1>2. CASE e = d
  <2> USE <1>0, <1>2
  <2>0. /\ camera[d].frame \in Nat /\ active[d] \in Nat /\ seq[d] \in Nat
        /\ DOMAIN camera = Devices /\ DOMAIN active = Devices /\ DOMAIN seq = Devices
        /\ DOMAIN watcher = Devices /\ DOMAIN shown = Devices
        /\ shown[d] \subseteq 1 .. camera[d].frame
    BY DEF Counted, TypeOK
  <2>10. IsFiniteSet(shown[d]) /\ Cardinality(shown[d]) \in Nat
    BY ShownFinite
  <2>1. CASE FrameBegins(d)
    <3> DEFINE new == camera[d].frame + 1
    <3>1. /\ UNCHANGED <<active, seq, watcher>>
          /\ frames' = frames + 1 /\ camera'[d].frame = new
          /\ shown'[d] = IF Live(d) THEN shown[d] \cup {new} ELSE shown[d]
      BY <2>0, <2>1 DEF FrameBegins, TypeOK
    <3>2. Cardinality(shown[d] \cup {new}) = Cardinality(shown[d]) + 1
      <4>1. new \notin shown[d]
        BY <2>0
      <4> QED
        BY <2>10, <4>1, FS_AddElement
    <3>3. Cardinality(shown'[d]) <= Cardinality(shown[d]) + 1 /\ Cardinality(shown'[d]) \in Nat
      BY <2>10, <3>1, <3>2
    <3>4. shown'[d] \subseteq 1 .. new
      BY <2>0, <3>1
    <3> QED
      BY <2>0, <2>10, <3>1, <3>3, <3>4 DEF Counted, Live
  <2>2. CASE FrameEnds(d)
    <3>1. UNCHANGED <<active, seq, watcher, frames, shown, camera[d].frame>>
      BY <2>0, <2>2 DEF FrameEnds, TypeOK
    <3> QED
      BY <3>1 DEF Counted, Live
  <2>3. CASE StartFrame(d)
    <3>1. PICK frame \in shown[d] : /\ active'[d] = frame
                                   /\ shown'[d] = shown[d] \ {frame}
      BY <2>0, <2>3 DEF StartFrame
    <3>2. /\ watcher[d] = "wait" /\ watcher'[d] = "begin"
          /\ UNCHANGED <<camera, frames, seq>>
      BY <2>0, <2>3 DEF StartFrame
    <3>3. active[d] = 0
      BY <3>2 DEF Counted
    <3>4. frame \in 1 .. camera[d].frame
      BY <2>0, <3>1
    <3>5. Cardinality(shown'[d]) = Cardinality(shown[d]) - 1
      BY <2>10, <3>1, FS_RemoveElement
    <3>6. shown'[d] \subseteq 1 .. camera[d].frame
      BY <2>0, <3>1
    <3> QED
      BY <2>0, <2>10, <3>1, <3>2, <3>3, <3>4, <3>5, <3>6 DEF Counted, Live
  <2>4. CASE NotFed(d) \/ SinkBegin(d) \/ SinkBegun(d) \/ SinkFed(d)
    BY <2>0, <2>4 DEF NotFed, SinkBegin, SinkBegun, SinkFed, Counted, Live
  <2>5. CASE SinkFeed(d) \/ SinkFinish(d)
    BY <2>0, <2>5 DEF SinkFeed, SinkFinish, CallSink, Counted, Live
  <2>6. CASE ClearSlot(d) \/ SinkFinished(d)
    BY <2>0, <2>6 DEF ClearSlot, AllRows, SinkFinished, Counted, Live
  <2>7. CASE Abort(d) \/ SinkReset(d)
    <3>1. UNCHANGED <<camera, frames, seq, shown>>
      BY <2>7 DEF Abort, SinkReset
    <3>2. \/ UNCHANGED active /\ watcher[d] \in Decoding /\ watcher'[d] = "in_abort"
          \/ watcher'[d] = "wait" /\ active'[d] = 0 /\ watcher[d] \in Decoding
      BY <2>0, <2>7 DEF Abort, SinkReset, CallSink
    <3>3. active'[d] = active[d] \/ active'[d] = 0
      BY <3>2
    <3> QED
      BY <2>0, <2>10, <3>1, <3>2, <3>3 DEF Counted, Live
  <2>8. CASE Publish(d)
    <3>1. /\ UNCHANGED <<camera, frames, shown>> /\ seq'[d] = seq[d] + 1 /\ active'[d] = 0
          /\ watcher[d] = "publish" /\ watcher'[d] = "wait"
      BY <2>0, <2>8 DEF Publish
    <3>2. active[d] # 0
      BY <3>1 DEF Counted
    <3> QED
      BY <2>0, <2>10, <3>1, <3>2 DEF Counted, Live
  <2>9. CASE Dies(d)
    <3>1. /\ UNCHANGED <<camera, frames, seq, active>> /\ shown'[d] = {}
          /\ watcher[d] = "wait" /\ watcher'[d] = "dead"
      BY <2>0, <2>9 DEF Dies
    <3>2. Cardinality({}) = 0
      BY FS_EmptySet
    <3> QED
      BY <2>0, <2>10, <3>1, <3>2 DEF Counted, Live
  <2> QED
    BY <2>1, <2>2, <2>3, <2>4, <2>5, <2>6, <2>7, <2>8, <2>9
    DEF CameraStep, WatcherStep, SinkReturns
<1> QED
  BY <1>1, <1>2

\* The calls neither show nor start a frame: a new watcher has none yet.
LEMMA CountedInCalls ==
    ASSUME Inv, NEW h \in Handles, DecodeGray(h) \/ HandleStep(h) \/ Destroy(h) \/ Replug(h),
           NEW d \in Devices
    PROVE  Counted(d)'
<1>0. TypeOK /\ Counted(d)
  BY DEF Inv
<1>1. CASE DecodeGray(h)
  <2>1. UNCHANGED <<frames, camera, active, shown>>
    BY <1>0, <1>1, ScanScope DEF cameraVars
  <2>2. CASE UNCHANGED <<watcher[d], seq[d]>>
    BY <1>0, <2>1, <2>2 DEF Counted, Live
  <2>3. CASE ~UNCHANGED <<watcher[d], seq[d]>>
    <3>1. /\ watcher[d] \in {"none", "dead"} /\ watcher'[d] \in {"none", "wait"}
          /\ seq'[d] = 0
      BY <1>0, <1>1, <2>3, ScanScope
    <3>2. shown[d] = {} /\ active[d] = 0 /\ Cardinality(shown[d]) = 0
      BY <1>0, <3>1, FS_EmptySet DEF Counted, Live, Decoding, SinkCalls
    <3>3. camera[d].frame \in Nat
      BY <1>0 DEF TypeOK
    <3> QED
      BY <1>0, <2>1, <3>1, <3>2, <3>3 DEF Counted, Live, Decoding, SinkCalls
  <2> QED
    BY <2>2, <2>3
<1>2. CASE ~DecodeGray(h)
  BY <1>0, <1>2, HandleScope DEF Counted, Live
<1> QED
  BY <1>1, <1>2

-----------------------------------------------------------------------------
\* A call goes on only into a sink that is still attached.
LEMMA CallsStep ==
    ASSUME Inv, NEW d \in Devices, CameraStep(d) \/ WatcherStep(d), NEW e \in Devices
    PROVE  CallsAttached(e)'
<1> USE DEF vars, cameraVars, watcherVars, handleVars, Watches
<1>0. TypeOK /\ CallsAttached(d) /\ CallsAttached(e)
  BY DEF Inv
<1>1. CASE e # d
  BY <1>0, <1>1, WatcherScope DEF CallsAttached
<1>2. CASE e = d
  <2> USE <1>0, <1>2 DEF CallsAttached, TypeOK
  <2>1. CASE CameraStep(d)
    BY <2>1 DEF CameraStep, FrameBegins, FrameEnds
  <2>2. CASE StartFrame(d) \/ NotFed(d) \/ SinkBegin(d) \/ Dies(d)
    BY <2>2 DEF StartFrame, NotFed, SinkBegin, Dies
  <2>3. CASE SinkReturns(d)
    BY <2>3 DEF SinkReturns, SinkBegun, SinkFed, SinkFinished, SinkReset
  <2>4. CASE SinkFeed(d) \/ Abort(d) \/ SinkFinish(d)
    BY <2>4 DEF SinkFeed, Abort, SinkFinish, CallSink
  <2>5. CASE ClearSlot(d) \/ Publish(d)
    BY <2>5 DEF ClearSlot, AllRows, Publish
  <2> QED
    BY <2>1, <2>2, <2>3, <2>4, <2>5 DEF WatcherStep
<1> QED
  BY <1>1, <1>2

\* The calls change what is attached to a watcher only between its calls.
LEMMA CallsInCalls ==
    ASSUME Inv, NEW h \in Handles, DecodeGray(h) \/ HandleStep(h) \/ Destroy(h) \/ Replug(h),
           NEW d \in Devices
    PROVE  CallsAttached(d)'
<1>0. TypeOK /\ CallsAttached(d)
  BY DEF Inv
<1>1. CASE DecodeGray(h)
  BY <1>0, <1>1, ScanScope DEF CallsAttached
<1>2. CASE Move(h) \/ Attach(h) \/ Detach(h)
  <2>1. sink'[d] = sink[d] \/ watcher[d] \notin SinkCalls
    BY <1>0, <1>2 DEF Move, Attach, Detach, DetachWaits, SinkFree, TypeOK
  <2>2. UNCHANGED <<watcher, fed_ctx>>
    BY <1>2, HandleScope DEF HandleStep
  <2> QED
    BY <1>0, <2>1, <2>2 DEF CallsAttached, SinkCalls
<1>3. CASE Search(h) \/ UseDeleted(h) \/ Take(h)
  BY <1>0, <1>3, HandleScope DEF CallsAttached, Search, UseDeleted, Take, HandleStep
<1>4. CASE Fetch(h) \/ UseResult(h) \/ Detached(h) \/ Destroy(h) \/ Replug(h)
  BY <1>0, <1>4, HandleScope
  DEF CallsAttached, Fetch, UseResult, Detached, Destroy, Replug, HandleStep
<1> QED
  BY <1>1, <1>2, <1>3, <1>4 DEF HandleStep

-----------------------------------------------------------------------------
\* The watcher's own steps keep the ring: a slot is cleared before the frame's
\* sink result goes into it, and numbered after.
LEMMA RingStep ==
    ASSUME Inv, NEW d \in Devices, CameraStep(d) \/ WatcherStep(d), NEW e \in Devices,
           NEW i \in Slots
    PROVE  RingSlot(e, i)'
<1> USE DEF vars, cameraVars, watcherVars, handleVars, Watches
<1>0. TypeOK /\ CallsAttached(d) /\ RingSlot(d, i) /\ RingSlot(e, i)
  BY DEF Inv
<1>1. CASE e # d
  BY <1>0, <1>1, WatcherScope DEF RingSlot, Slot
<1>2. CASE e = d
  <2> DEFINE r == results[d][i]
  <2>0. /\ r \in Result /\ Slot(d) \in Slots /\ seq[d] \in Nat /\ r.seq \in Nat
        /\ DOMAIN results = Devices /\ DOMAIN results[d] = Slots /\ DOMAIN seq = Devices
        /\ DOMAIN watcher = Devices
    BY <1>0, SlotType DEF TypeOK, Result
  <2>1. CASE CameraStep(d)
    BY <1>0, <1>2, <2>1 DEF CameraStep, FrameBegins, FrameEnds, RingSlot, Slot
  <2>2. CASE StartFrame(d) \/ NotFed(d) \/ SinkBegin(d) \/ SinkFed(d) \/ Dies(d)
    BY <1>0, <1>2, <2>0, <2>2 DEF StartFrame, NotFed, SinkBegin, SinkFed, Dies, RingSlot, Slot
  <2>3. CASE SinkBegun(d) \/ SinkReset(d)
    BY <1>0, <1>2, <2>0, <2>3 DEF SinkBegun, SinkReset, RingSlot, Slot
  <2>4. CASE SinkFeed(d) \/ Abort(d) \/ SinkFinish(d)
    BY <1>0, <1>2, <2>0, <2>4 DEF SinkFeed, Abort, SinkFinish, CallSink, RingSlot, Slot
  <2>5. CASE ClearSlot(d)
    <3>1. /\ UNCHANGED seq /\ watcher'[d] = "finish"
          /\ results'[d][i] = IF i = Slot(d) THEN ClearSink(r) ELSE r
      BY <2>0, <2>5 DEF ClearSlot, AllRows
    <3>2. ClearSink(r).seq = r.seq /\ ClearSink(r).ctx = NoHandle
      BY <2>0 DEF ClearSink, Result
    <3> QED
      BY <1>0, <1>2, <3>1, <3>2 DEF RingSlot, Slot
  <2>6. CASE SinkFinished(d)
    <3>1. UNCHANGED seq /\ watcher'[d] = "publish"
      BY <2>0, <2>6 DEF SinkFinished
    <3>2. results'[d][i].seq = r.seq
      BY <2>0, <2>6 DEF SinkFinished, Result
    <3> QED
      BY <1>0, <1>2, <3>1, <3>2 DEF RingSlot, Slot
  <2>7. CASE Publish(d)
    <3>1. /\ seq'[d] = seq[d] + 1 /\ watcher'[d] = "wait"
          /\ results'[d][i].seq = IF i = Slot(d) THEN seq[d] + 1 ELSE r.seq
      BY <2>0, <2>7 DEF Publish, Result
    <3> QED
      BY <1>0, <1>2, <2>0, <3>1 DEF RingSlot, Slot
  <2> QED
    BY <2>1, <2>2, <2>3, <2>4, <2>5, <2>6, <2>7 DEF WatcherStep, SinkReturns
<1> QED
  BY <1>1, <1>2

\* A call only takes sink results out of the rings.
LEMMA ResultsInCalls ==
    ASSUME Inv, NEW h \in Handles, HandleStep(h) \/ Destroy(h) \/ Replug(h),
           NEW d \in Devices, NEW i \in Slots
    PROVE  \/ results'[d][i] = results[d][i]
           \/ results'[d][i] = ClearSink(results[d][i])
<1> USE DEF Inv, TypeOK, cameraVars, watcherVars, handleVars
<1>1. CASE Search(h) \/ UseDeleted(h) \/ Take(h) \/ Move(h) \/ Attach(h)
  BY <1>1 DEF Search, UseDeleted, Take, Move, Attach
<1>2. CASE Fetch(h)
  <2>1. Device(h) \in Devices
    BY <1>2, DeviceType DEF Fetch, Busy
  <2>2. CASE UNCHANGED results
    BY <2>2
  <2>3. CASE \E j \in Slots : results' = [results EXCEPT ![Device(h)][j] = ClearSink(@)]
    BY <2>1, <2>3
  <2> QED
    BY <1>2, <2>2, <2>3 DEF Fetch
<1>3. CASE UseResult(h) \/ Detached(h) \/ Destroy(h) \/ Replug(h)
  BY <1>3 DEF UseResult, Detached, Destroy, Replug
<1>4. CASE Detach(h)
  BY <1>4 DEF Detach
<1> QED
  BY <1>1, <1>2, <1>3, <1>4 DEF HandleStep

\* A call leaves the rings as their watchers fill them.
LEMMA RingInCalls ==
    ASSUME Inv, NEW h \in Handles, DecodeGray(h) \/ HandleStep(h) \/ Destroy(h) \/ Replug(h),
           NEW d \in Devices, NEW i \in Slots
    PROVE  RingSlot(d, i)'
<1>0. TypeOK /\ RingSlot(d, i)
  BY DEF Inv
<1>1. CASE DecodeGray(h)
  <2>1. CASE UNCHANGED <<watcher[d], sink[d], seq[d], results[d]>>
    BY <1>0, <2>1 DEF RingSlot, Slot
  <2>2. CASE ~UNCHANGED <<watcher[d], sink[d], seq[d], results[d]>>
    <3>1. /\ watcher'[d] \in {"none", "wait"} /\ seq'[d] = 0
          /\ results'[d][i] = Empty
      BY <1>0, <1>1, <2>2, ScanScope
    <3> QED
      BY <3>1 DEF RingSlot, Empty
  <2> QED
    BY <2>1, <2>2
<1>2. CASE ~DecodeGray(h)
  <2>1. UNCHANGED <<watcher, seq>>
    BY <1>2, HandleScope
  <2>2. results[d][i] \in Result
    BY <1>0 DEF TypeOK
  <2>3. CASE results'[d][i] = results[d][i]
    BY <1>0, <2>1, <2>3 DEF RingSlot, Slot
  <2>4. CASE results'[d][i] = ClearSink(results[d][i])
    <3>1. /\ results'[d][i].seq = results[d][i].seq
          /\ results'[d][i].ctx = NoHandle
      BY <2>2, <2>4 DEF ClearSink, Result
    <3> QED
      BY <1>0, <2>1, <3>1 DEF RingSlot, Slot
  <2> QED
    BY <1>2, <2>3, <2>4, ResultsInCalls
<1> QED
  BY <1>1, <1>2

-----------------------------------------------------------------------------
\* A camera's newest frame only gets newer.
LEMMA CameraGrows ==
    ASSUME Inv, NEW d \in Devices, CameraStep(d) \/ WatcherStep(d), NEW e \in Devices
    PROVE  camera[e].frame \in Nat /\ camera'[e].frame \in Nat
           /\ camera'[e].frame >= camera[e].frame
<1>0. TypeOK /\ camera[e].frame \in Nat
  BY DEF Inv, TypeOK
<1>1. camera'[e].frame \in Nat
  BY WatcherTypes DEF TypeOK
<1>2. CASE e # d
  BY <1>0, <1>2, WatcherScope
<1>3. CASE e = d
  <2>1. CASE FrameBegins(d)
    <3>1. camera'[d].frame = camera[d].frame + 1
      BY <1>0, <2>1 DEF FrameBegins, TypeOK
    <3> QED
      BY <1>0, <1>1, <1>3, <3>1
  <2>2. CASE FrameEnds(d)
    <3>1. camera'[d].frame = camera[d].frame
      BY <1>0, <2>2 DEF FrameEnds, TypeOK
    <3> QED
      BY <1>0, <1>1, <1>3, <3>1
  <2>3. CASE WatcherStep(d)
    <3>1. UNCHANGED camera
      BY <2>3 DEF WatcherStep, StartFrame, NotFed, SinkBegin, SinkFeed, Abort, ClearSlot, AllRows,
         SinkFinish, CallSink, SinkReturns, SinkBegun, SinkFed, SinkFinished, SinkReset,
         Publish, Dies, cameraVars
    <3> QED
      BY <1>0, <3>1
  <2> QED
    BY <2>1, <2>2, <2>3 DEF CameraStep
<1> QED
  BY <1>1, <1>0, <1>2, <1>3

\* A scan changes a thread's own frame, and what another does only to "lost".
LEMMA ScanOthers ==
    ASSUME TypeOK, NEW h \in Handles, DecodeGray(h), NEW g \in Handles
    PROVE  /\ g # h => /\ given'[g] = given[g]
                       /\ \/ handle'[g] = handle[g]
                          \/ handle[g] = "search" /\ handle'[g] = "lost"
           /\ g = h => /\ handle[g] = "idle" /\ g \in alive
                       /\ handle'[g] \in {"search", "decoded"}
                       /\ source[g] \in Devices
                       /\ \E n \in 1 .. MaxFrames : /\ given'[g] = <<source[g], n>>
                                                   /\ n <= camera[source[g]].frame
<1>1. /\ source[h] \in Devices
      /\ \E n \in 1 .. MaxFrames : /\ given' = [given EXCEPT ![h] = <<source[h], n>>]
                                  /\ n <= camera[source[h]].frame
  <2>1. /\ source[h] \in Devices
        /\ camera[source[h]].frame \in 0 .. MaxFrames
        /\ Complete(source[h]) \in Int /\ Complete(source[h]) <= camera[source[h]].frame
    BY LimitsAssumption DEF TypeOK, Complete
  <2>2. PICK n \in 1 .. Complete(source[h]) : given' = [given EXCEPT ![h] = <<source[h], n>>]
    BY DEF DecodeGray
  <2>3. n \in 1 .. MaxFrames /\ n <= camera[source[h]].frame
    BY <2>1, LimitsAssumption
  <2> QED
    BY <2>1, <2>2, <2>3
<1>2. /\ handle[h] = "idle" /\ h \in alive
      /\ handle'[h] \in {"search", "decoded"}
      /\ g # h => \/ handle'[g] = handle[g]
                  \/ handle[g] = "search" /\ handle'[g] = "lost"
  BY DEF DecodeGray, Lost
<1> QED
  BY <1>1, <1>2 DEF TypeOK

-----------------------------------------------------------------------------
\* A handle keeps its frame, and only then asks for a number.
LEMMA HasFrameStep ==
    ASSUME Inv, NEW d \in Devices, CameraStep(d) \/ WatcherStep(d), NEW g \in Handles
    PROVE  HasFrame(g)'
<1>1. UNCHANGED <<handle, given, asked, alive, source>>
  BY WatcherScope DEF Inv
<1>2. CASE handle[g] \in Busy
  <2>1. /\ Device(g) \in Devices
        /\ given[g][2] \in Nat
    BY <1>2, DeviceType
  <2>2. /\ camera[Device(g)].frame \in Nat /\ camera'[Device(g)].frame \in Nat
        /\ camera'[Device(g)].frame >= camera[Device(g)].frame
    BY <2>1, CameraGrows
  <2>3. given[g][2] <= camera[Device(g)].frame
    BY <1>2 DEF Inv, HasFrame
  <2>4. given[g][2] <= camera'[Device(g)].frame
    BY <2>1, <2>2, <2>3
  <2> QED
    BY <1>1, <2>4 DEF Inv, HasFrame, Device
<1>3. CASE handle[g] \notin Busy
  BY <1>1, <1>3 DEF Inv, HasFrame
<1> QED
  BY <1>2, <1>3

\* A call has the frame it works on until it returns.
LEMMA HasFrameInCalls ==
    ASSUME Inv, NEW h \in Handles, DecodeGray(h) \/ HandleStep(h) \/ Destroy(h) \/ Replug(h),
           NEW g \in Handles
    PROVE  HasFrame(g)'
<1> USE DEF HasFrame, Busy, Device
<1>0. TypeOK /\ HasFrame(g)
  BY DEF Inv
<1>1. CASE DecodeGray(h)
  <2>1. UNCHANGED <<camera, alive, asked, source>>
    BY <1>0, <1>1, ScanScope DEF DecodeGray, cameraVars
  <2>2. CASE g # h
    BY <1>0, <1>1, <2>1, <2>2, ScanOthers
  <2>3. CASE g = h
    <3>1. given'[g] \in Frames /\ given'[g][1] = source[g]
          /\ given'[g][2] <= camera[source[g]].frame
      BY <1>0, <1>1, <2>3, ScanOthers DEF Frames
    <3> QED
      BY <1>0, <1>1, <2>1, <2>3, <3>1, ScanOthers
  <2> QED
    BY <2>2, <2>3
<1>2. CASE ~DecodeGray(h)
  <2>1. UNCHANGED camera
    BY <1>2, HandleScope
  <2>2. CASE g # h
    BY <1>0, <1>2, <2>1, <2>2, OthersScope
  <2>3. CASE g = h
    <3> USE <1>0, <2>1, <2>3 DEF vars, cameraVars, watcherVars, handleVars, TypeOK, GoIdle
    <3>1. CASE Search(h)
      BY <3>1 DEF Search
    <3>2. CASE UseDeleted(h)
      BY <3>2 DEF UseDeleted
    <3>3. CASE Take(h)
      BY <3>3 DEF Take
    <3>4. CASE Move(h) \/ Attach(h)
      BY <3>4 DEF Move, Attach
    <3>5. CASE Fetch(h) \/ UseResult(h)
      BY <3>5 DEF Fetch, UseResult
    <3>6. CASE Destroy(h) \/ Detach(h) \/ Detached(h) \/ Replug(h)
      BY <3>6 DEF Destroy, Detach, Detached, Replug
    <3> QED
      BY <1>2, <3>1, <3>2, <3>3, <3>4, <3>5, <3>6 DEF HandleStep
  <2> QED
    BY <2>2, <2>3
<1> QED
  BY <1>1, <1>2

-----------------------------------------------------------------------------
\* The number asked for stays the given frame's while it is in the ring, and a
\* new watcher shows and decodes later frames only.
LEMMA AskedFrameStep ==
    ASSUME Inv, NEW d \in Devices, CameraStep(d) \/ WatcherStep(d), NEW g \in Handles
    PROVE  AskedFrame(g)'
<1>0. /\ TypeOK /\ AskedFrame(g) /\ HasFrame(g)
      /\ UNCHANGED <<handle, given, asked>>
  BY WatcherScope DEF Inv
<1>1. CASE asked[g] = 0
  BY <1>0, <1>1 DEF AskedFrame
<1>2. CASE asked[g] # 0
  <2> DEFINE n == given[g][2]
  <2>1. handle[g] \in Busy
    BY <1>0, <1>2 DEF HasFrame, Busy, TypeOK, HoldsList
  <2>2. Device(g) \in Devices /\ n \in Nat /\ n <= camera[Device(g)].frame
    BY <1>0, <2>1, DeviceType DEF HasFrame
  <2>3. Device(g)' = Device(g) /\ given'[g][2] = n /\ asked'[g] = asked[g]
    BY <1>0 DEF Device
  <2>4. CASE Device(g) # d
    BY <1>0, <2>2, <2>3, <2>4, WatcherScope DEF AskedFrame, Numbered, Later
  <2>5. CASE Device(g) = d
    <3>0. /\ seq[d] \in Nat /\ active[d] \in Nat /\ asked[g] \in Nat
          /\ \A i \in Slots : results[d][i] \in Result /\ results[d][i].seq \in Nat
                              /\ results[d][i].frame \in Nat
          /\ DOMAIN results = Devices /\ DOMAIN results[d] = Slots /\ DOMAIN seq = Devices
          /\ DOMAIN shown = Devices /\ DOMAIN active = Devices
          /\ Slot(d) \in Slots /\ Counted(d) /\ camera[d].frame \in Nat
      BY <1>0, SlotType DEF Inv, TypeOK, Result
    <3>1. ASSUME \A i \in Slots : /\ results'[d][i].seq = results[d][i].seq
                                  /\ results'[d][i].frame = results[d][i].frame,
                 seq'[d] = seq[d], shown'[d] \subseteq shown[d],
                 active'[d] \in {0, active[d]}
          PROVE  AskedFrame(g)'
      <4>1. CASE Numbered(g)
        BY <2>3, <2>5, <3>1, <4>1 DEF AskedFrame, Numbered
      <4>2. CASE Later(g)
        BY <2>3, <2>5, <3>1, <4>2 DEF AskedFrame, Later
      <4> QED
        BY <1>0, <1>2, <4>1, <4>2 DEF AskedFrame
    <3>2. CASE FrameBegins(d)
      <4>1. /\ UNCHANGED <<results, seq, active>>
            /\ \A frame \in shown'[d] : frame \in shown[d] \/ frame = camera[d].frame + 1
        BY <3>0, <3>2 DEF FrameBegins
      <4>2. CASE Numbered(g)
        BY <2>3, <2>5, <4>1, <4>2 DEF AskedFrame, Numbered
      <4>3. CASE Later(g)
        <5>1. \A frame \in shown'[d] : frame > n
          BY <2>2, <2>5, <3>0, <4>1, <4>3 DEF Later
        <5> QED
          BY <2>3, <2>5, <4>1, <4>3, <5>1 DEF AskedFrame, Later
      <4> QED
        BY <1>0, <1>2, <4>2, <4>3 DEF AskedFrame
    <3>3. CASE FrameEnds(d)
      BY <3>1, <3>3 DEF FrameEnds, watcherVars
    <3>4. CASE StartFrame(d)
      <4>1. PICK frame \in shown[d] : active'[d] = frame /\ shown'[d] = shown[d] \ {frame}
        BY <3>0, <3>4 DEF StartFrame
      <4>2. UNCHANGED <<results, seq>>
        BY <3>4 DEF StartFrame
      <4>3. CASE Numbered(g)
        BY <2>3, <2>5, <4>2, <4>3 DEF AskedFrame, Numbered
      <4>4. CASE Later(g)
        BY <2>3, <2>5, <4>1, <4>2, <4>4 DEF AskedFrame, Later
      <4> QED
        BY <1>0, <1>2, <4>3, <4>4 DEF AskedFrame
    <3>5. CASE NotFed(d) \/ SinkBegin(d) \/ SinkFed(d) \/ SinkBegun(d)
      BY <3>0, <3>1, <3>5 DEF NotFed, SinkBegin, SinkFed, SinkBegun
    <3>6. CASE SinkFeed(d) \/ Abort(d) \/ SinkFinish(d) \/ SinkReset(d) \/ Dies(d)
      BY <3>0, <3>1, <3>6 DEF SinkFeed, Abort, SinkFinish, SinkReset, Dies
    <3>7. CASE ClearSlot(d)
      <4>1. \A i \in Slots : /\ results'[d][i].seq = results[d][i].seq
                             /\ results'[d][i].frame = results[d][i].frame
        BY <3>0, <3>7 DEF ClearSlot, ClearSink, Result
      <4> QED
        BY <3>0, <3>1, <3>7, <4>1 DEF ClearSlot, AllRows
    <3>8. CASE SinkFinished(d)
      <4>1. \A i \in Slots : /\ results'[d][i].seq = results[d][i].seq
                             /\ results'[d][i].frame = results[d][i].frame
        BY <3>0, <3>8 DEF SinkFinished, Result
      <4> QED
        BY <3>0, <3>1, <3>8, <4>1 DEF SinkFinished
    <3>9. CASE Publish(d)
      <4>1. /\ UNCHANGED shown /\ active'[d] = 0 /\ seq'[d] = seq[d] + 1
            /\ watcher[d] = "publish"
        BY <3>0, <3>9 DEF Publish, Watches
      <4>2. \A i \in Slots :
              \/ i = Slot(d) /\ results'[d][i].seq = seq[d] + 1 /\ results'[d][i].frame = active[d]
              \/ results'[d][i] = results[d][i]
        BY <3>0, <3>9 DEF Publish, Result
      <4>3. active[d] # 0
        BY <3>0, <4>1 DEF Counted, Decoding
      <4>4. CASE Numbered(g)
        <5>1. seq'[d] >= asked[g]
          BY <2>5, <3>0, <4>1, <4>4 DEF Numbered
        <5>2. \A i \in Slots : results'[d][i].seq = asked[g] => results'[d][i].frame = n
          BY <2>5, <3>0, <4>2, <4>4 DEF Numbered
        <5> QED
          BY <2>3, <2>5, <3>0, <4>1, <5>1, <5>2 DEF AskedFrame, Numbered
      <4>5. CASE Later(g)
        <5>1. \A i \in Slots : results'[d][i].seq > 0 => results'[d][i].frame > n
          BY <2>5, <4>2, <4>3, <4>5 DEF Later
        <5> QED
          BY <2>3, <2>5, <4>1, <4>5, <5>1 DEF AskedFrame, Later
      <4> QED
        BY <1>0, <1>2, <4>4, <4>5 DEF AskedFrame
    <3> QED
      BY <3>2, <3>3, <3>4, <3>5, <3>6, <3>7, <3>8, <3>9 DEF CameraStep, WatcherStep, SinkReturns
  <2> QED
    BY <2>4, <2>5
<1> QED
  BY <1>1, <1>2

\* A slot found for a frame is the only one with its number.
LEMMA FoundFrame ==
    ASSUME Inv, NEW h \in Handles, handle[h] \in Busy, NEW n \in Found(h),
           NEW i \in Slots, results[Device(h)][i].seq = n
    PROVE  /\ n # 0
           /\ results[Device(h)][i].frame = given[h][2]
           /\ n <= seq[Device(h)]
<1>1. Device(h) \in Devices
  BY DeviceType
<1>2. PICK j \in Slots : /\ results[Device(h)][j].seq = n
                         /\ results[Device(h)][j].seq > 0
                         /\ results[Device(h)][j].frame = given[h][2]
  BY DEF Found
<1>3. RingSlot(Device(h), i) /\ RingSlot(Device(h), j)
  BY <1>1 DEF Inv
<1>4. i = j
  BY <1>2, <1>3 DEF RingSlot
<1>5. n \in Nat /\ seq[Device(h)] \in Nat
  BY <1>1, DeviceType DEF Inv, TypeOK
<1> QED
  BY <1>2, <1>3, <1>4, <1>5 DEF RingSlot

\* The number a search or a take chooses is one of the frame given, or of a
\* newer one of a watcher that came after.
LEMMA AskedFrameInCalls ==
    ASSUME Inv, NEW h \in Handles, DecodeGray(h) \/ HandleStep(h) \/ Destroy(h) \/ Replug(h),
           NEW g \in Handles
    PROVE  AskedFrame(g)'
<1>0. TypeOK /\ AskedFrame(g) /\ HasFrame(g)
  BY DEF Inv
<1>1. CASE asked'[g] = 0
  BY <1>1 DEF AskedFrame
<1>2. CASE asked'[g] # 0 /\ DecodeGray(h)
  <2>1. /\ UNCHANGED <<camera, asked>>
        /\ handle[g] \in Busy /\ g # h
    <3>1. UNCHANGED <<camera, asked>>
      BY <1>2 DEF DecodeGray, cameraVars
    <3> QED
      BY <1>0, <1>2, <3>1, ScanOthers DEF HasFrame, Busy, TypeOK, HoldsList
  <2>2. /\ given'[g] = given[g] /\ Device(g) \in Devices /\ given[g][2] \in Nat
        /\ given[g][2] <= camera[Device(g)].frame /\ camera[Device(g)].frame \in Nat
    BY <1>0, <1>2, <2>1, ScanOthers, DeviceType DEF HasFrame, TypeOK
  <2> PICK d \in Devices : d = Device(g)
    BY <2>2
  <2>3. UNCHANGED <<active, shown>>
    BY <1>0, <1>2, ScanScope
  <2>4. CASE UNCHANGED <<watcher[d], sink[d], seq[d], results[d]>>
    BY <1>0, <2>1, <2>2, <2>3, <2>4 DEF AskedFrame, Numbered, Later, Device
  <2>5. CASE ~UNCHANGED <<watcher[d], sink[d], seq[d], results[d]>>
    <3>1. /\ watcher[d] \in {"none", "dead"}
          /\ \A i \in Slots : results'[d][i] = Empty
      BY <1>0, <1>2, <2>5, ScanScope
    <3>2. shown[d] = {} /\ active[d] = 0
      BY <3>1 DEF Inv, Counted, Live, Decoding, SinkCalls
    <3>3. Device(g)' = d
      BY <2>2 DEF Device
    <3>4. Later(g)'
      BY <2>3, <3>1, <3>2, <3>3 DEF Later, Empty
    <3> QED
      BY <3>4 DEF AskedFrame
  <2> QED
    BY <2>4, <2>5
<1>3. CASE asked'[g] # 0 /\ ~DecodeGray(h)
  <2>0. UNCHANGED <<watcher, active, seq, shown>>
    BY <1>3, HandleScope
  <2>1. \A d \in Devices, i \in Slots : /\ results'[d][i].seq = results[d][i].seq
                                        /\ results'[d][i].frame = results[d][i].frame
    <3> SUFFICES ASSUME NEW d \in Devices, NEW i \in Slots
                 PROVE  /\ results'[d][i].seq = results[d][i].seq
                        /\ results'[d][i].frame = results[d][i].frame
      OBVIOUS
    <3>1. results[d][i] \in Result
      BY <1>0 DEF TypeOK
    <3>2. /\ ClearSink(results[d][i]).seq = results[d][i].seq
          /\ ClearSink(results[d][i]).frame = results[d][i].frame
      BY <3>1 DEF ClearSink, Result
    <3>3. HandleStep(h) \/ Destroy(h) \/ Replug(h)
      BY <1>3
    <3> QED
      BY <3>2, <3>3, ResultsInCalls
  <2>2. ASSUME handle[g] \in Busy, given'[g] = given[g], asked'[g] = asked[g]
        PROVE  AskedFrame(g)'
    <3>1. Device(g) \in Devices
      BY <2>2, DeviceType
    <3> QED
      BY <1>0, <2>0, <2>1, <2>2, <3>1 DEF AskedFrame, Numbered, Later, Device
  <2>3. ASSUME handle[g] \in Busy, given'[g] = given[g], asked'[g] \in Found(g)
        PROVE  AskedFrame(g)'
    <3>1. Device(g) \in Devices /\ given[g][2] \in Nat
      BY <2>3, DeviceType
    <3>2. \A i \in Slots : results[Device(g)][i].seq = asked'[g] =>
            results[Device(g)][i].frame = given[g][2]
      BY <2>3, FoundFrame
    <3>3. asked'[g] <= seq[Device(g)]
      <4>1. PICK j \in Slots : results[Device(g)][j].seq = asked'[g]
        BY <2>3 DEF Found
      <4> QED
        BY <2>3, <4>1, FoundFrame
    <3> QED
      BY <2>0, <2>1, <2>3, <3>1, <3>2, <3>3 DEF AskedFrame, Numbered, Device
  <2>4. CASE g # h
    <3>1. UNCHANGED <<handle[g], given[g], asked[g]>>
      BY <1>0, <1>3, <2>4, OthersScope
    <3>2. handle[g] \in Busy
      BY <1>0, <1>3, <3>1 DEF HasFrame, Busy, TypeOK, HoldsList
    <3> QED
      BY <2>2, <3>1, <3>2
  <2>5. CASE g = h
    <3> USE <1>0, <1>3, <2>5 DEF vars, cameraVars, watcherVars, handleVars, TypeOK, GoIdle
    <3>1. CASE Search(h)
      BY <2>2, <2>3, <3>1 DEF Search, Busy
    <3>2. CASE Take(h)
      <4>1. handle[g] \in Busy
        BY <3>2 DEF Take, Busy
      <4>2. given'[g] = given[g] /\ (asked'[g] = asked[g] \/ asked'[g] \in Found(g))
        BY <3>2 DEF Take
      <4> QED
        BY <2>2, <2>3, <4>1, <4>2
    <3>3. CASE Move(h) \/ Attach(h)
      BY <2>2, <3>3 DEF Move, Attach, Busy
    <3>4. CASE Fetch(h)
      BY <3>4 DEF Fetch
    <3>5. CASE UseDeleted(h) \/ UseResult(h)
      BY <3>5 DEF UseDeleted, UseResult, HasFrame
    <3>6. CASE Destroy(h) \/ Detach(h) \/ Detached(h) \/ Replug(h)
      BY <3>6 DEF Destroy, Detach, Detached, Replug, HasFrame
    <3> QED
      BY <3>1, <3>2, <3>3, <3>4, <3>5, <3>6 DEF HandleStep
  <2> QED
    BY <2>4, <2>5
<1> QED
  BY <1>1, <1>2, <1>3

-----------------------------------------------------------------------------
\* A watcher keeps a result only of the sink attached.
LEMMA PlacesStep ==
    ASSUME Inv, NEW d \in Devices, CameraStep(d) \/ WatcherStep(d), NEW g \in Handles
    PROVE  SinkPlaces(g)'
<1>0. TypeOK /\ SinkPlaces(g) /\ CallsAttached(d)
      /\ UNCHANGED <<handle, given, todo, sink, alive>>
  BY WatcherScope DEF Inv
<1>1. ASSUME NEW e \in Devices, NEW i \in Slots, results'[e][i].ctx = g
      PROVE  results[e][i].ctx = g \/ sink[e] = g
  <2>1. CASE e # d
    BY <1>0, <1>1, <2>1, WatcherScope
  <2>2. CASE e = d
    <3>0. /\ results[d][i] \in Result /\ Slot(d) \in Slots
          /\ DOMAIN results = Devices /\ DOMAIN results[d] = Slots
      BY <1>0, SlotType DEF TypeOK
    <3>1. CASE UNCHANGED results
      BY <1>1, <2>2, <3>1
    <3>2. CASE ClearSlot(d)
      <4>1. ClearSink(results[d][i]).ctx = NoHandle
        BY <3>0 DEF ClearSink, Result
      <4> QED
        BY <1>1, <2>2, <3>0, <3>2, <4>1, HandlesAssumption DEF ClearSlot
    <3>3. CASE SinkFinished(d)
      <4>1. sink[d] = fed_ctx[d]
        BY <1>0, <3>3 DEF SinkFinished, Watches, CallsAttached
      <4>2. results'[d][i] = results[d][i] \/ results'[d][i].ctx = fed_ctx[d]
        BY <3>0, <3>3 DEF SinkFinished, Result
      <4> QED
        BY <1>1, <2>2, <4>1, <4>2
    <3>4. CASE Publish(d)
      <4>1. results'[d][i].ctx = results[d][i].ctx
        BY <3>0, <3>4 DEF Publish, Result
      <4> QED
        BY <1>1, <2>2, <4>1
    <3>5. UNCHANGED results \/ ClearSlot(d) \/ SinkFinished(d) \/ Publish(d)
      BY DEF CameraStep, FrameBegins, FrameEnds, WatcherStep, StartFrame, NotFed, SinkBegin,
         SinkFeed, Abort, SinkFinish, SinkReturns, SinkBegun, SinkFed, SinkReset, Dies
    <3> QED
      BY <3>1, <3>2, <3>3, <3>4, <3>5
  <2> QED
    BY <2>1, <2>2
<1> QED
  BY <1>0, <1>1 DEF SinkPlaces, Device

\* Only a take attaches a sink: its own, to the watcher of its frame.
LEMMA SinksInCalls ==
    ASSUME Inv, NEW h \in Handles, HandleStep(h) \/ Destroy(h) \/ Replug(h),
           NEW d \in Devices, NEW g \in Handles, sink'[d] = g
    PROVE  sink[d] = g \/ (g = h /\ Attach(h) /\ d = Device(h))
<1> USE HandlesAssumption DEF Inv, TypeOK, cameraVars, watcherVars, handleVars
<1>1. CASE Search(h) \/ UseDeleted(h) \/ Take(h) \/ Fetch(h)
  BY <1>1 DEF Search, UseDeleted, Take, Fetch
<1>2. CASE UseResult(h) \/ Detached(h) \/ Destroy(h) \/ Replug(h)
  BY <1>2 DEF UseResult, Detached, Destroy, Replug
<1>3. CASE Move(h) \/ Detach(h)
  BY <1>3 DEF Move, Detach
<1>4. CASE Attach(h)
  BY <1>4 DEF Attach
<1> QED
  BY <1>1, <1>2, <1>3, <1>4 DEF HandleStep

\* A sink is taken off every other watcher before it is attached, and off
\* every one before its handle goes.
LEMMA PlacesInCalls ==
    ASSUME Inv, NEW h \in Handles, DecodeGray(h) \/ HandleStep(h) \/ Destroy(h) \/ Replug(h),
           NEW g \in Handles
    PROVE  SinkPlaces(g)'
<1>0. TypeOK /\ SinkPlaces(g) /\ HasFrame(g)
  BY DEF Inv
<1>1. CASE DecodeGray(h)
  <2>1. UNCHANGED <<alive, todo>>
    BY <1>1 DEF DecodeGray
  <2>2. \A d \in Devices : sink'[d] = g => sink[d] = g
    BY <1>0, <1>1, ScanScope, HandlesAssumption
  <2>3. \A d \in Devices, i \in Slots : results'[d][i].ctx = g => results[d][i].ctx = g
    <3> SUFFICES ASSUME NEW d \in Devices, NEW i \in Slots
                 PROVE  results'[d][i] = results[d][i] \/ results'[d][i] = Empty
      BY HandlesAssumption DEF Empty
    <3> QED
      BY <1>0, <1>1, ScanScope
  <2>4. handle'[g] \in {"move", "fetch", "detach"} =>
          handle'[g] = handle[g] /\ given'[g] = given[g]
    BY <1>0, <1>1, ScanOthers
  <2> QED
    BY <1>0, <2>1, <2>2, <2>3, <2>4 DEF SinkPlaces, Device
<1>2. CASE ~DecodeGray(h)
  <2>0. HandleStep(h) \/ Destroy(h) \/ Replug(h)
    BY <1>2
  <2>1. \A d \in Devices, i \in Slots : results'[d][i].ctx = g => results[d][i].ctx = g
    <3> SUFFICES ASSUME NEW d \in Devices, NEW i \in Slots, results'[d][i].ctx = g
                 PROVE  results[d][i].ctx = g
      OBVIOUS
    <3>1. ClearSink(results[d][i]).ctx = NoHandle
      BY <1>0 DEF ClearSink, TypeOK, Result
    <3> QED
      BY <2>0, <3>1, ResultsInCalls, HandlesAssumption
  <2>2. CASE g # h
    <3>1. UNCHANGED <<handle[g], given[g], todo[g]>> /\ (g \in alive <=> g \in alive')
      BY <1>0, <2>0, <2>2, OthersScope
    <3>2. \A d \in Devices : sink'[d] = g => sink[d] = g
      BY <2>0, <2>2, SinksInCalls
    <3> QED
      BY <1>0, <2>1, <3>1, <3>2 DEF SinkPlaces, Device
  <2>3. CASE g = h
    <3>1. ASSUME UNCHANGED <<sink, alive>>, handle'[h] \notin {"move", "fetch", "detach"}
          PROVE  SinkPlaces(g)'
      BY <1>0, <2>1, <2>3, <3>1 DEF SinkPlaces
    <3>2. CASE Search(h) \/ UseDeleted(h) \/ UseResult(h) \/ Replug(h)
      BY <1>0, <3>1, <3>2
      DEF Search, UseDeleted, UseResult, Replug, GoIdle, handleVars, TypeOK
    <3>3. CASE Take(h)
      <4>1. UNCHANGED <<sink, alive>> /\ handle'[h] \in {"idle", "move"}
        BY <1>0, <3>3 DEF Take, GoIdle, TypeOK
      <4>2. handle'[h] = "move" => /\ todo'[h] = Devices \ {Device(h)}
                                   /\ given'[h] = given[h]
        BY <1>0, <3>3 DEF Take, GoIdle, TypeOK
      <4> QED
        BY <1>0, <2>1, <2>3, <4>1, <4>2 DEF SinkPlaces, Device
    <3>4. CASE Move(h)
      <4>1. PICK x \in todo[h] :
                   /\ sink' = IF sink[x] = h THEN [sink EXCEPT ![x] = NoHandle] ELSE sink
                   /\ todo'[h] = todo[h] \ {x}
        BY <1>0, <3>4 DEF Move, TypeOK
      <4>2. sink'[x] # h /\ \A d \in Devices : sink'[d] = h => sink[d] = h
        BY <1>0, <4>1, HandlesAssumption DEF TypeOK
      <4>3. UNCHANGED <<handle, given, alive>> /\ handle[h] = "move"
        BY <3>4 DEF Move
      <4> QED
        BY <1>0, <2>1, <2>3, <4>1, <4>2, <4>3 DEF SinkPlaces, Device
    <3>5. CASE Attach(h)
      <4>1. /\ todo[h] = {} /\ handle[h] = "move" /\ handle'[h] = "fetch"
            /\ UNCHANGED <<given, alive>> /\ h \in alive
        BY <1>0, <2>3, <3>5 DEF Attach, HasFrame, Busy, TypeOK
      <4>2. \A d \in Devices : sink'[d] = h => d = Device(h)
        BY <1>0, <2>0, <2>3, <4>1, SinksInCalls DEF SinkPlaces
      <4> QED
        BY <1>0, <2>1, <2>3, <4>1, <4>2 DEF SinkPlaces, Device
    <3>6. CASE Fetch(h)
      BY <1>0, <3>1, <3>6 DEF Fetch, GoIdle, TypeOK
    <3>7. CASE Destroy(h)
      <4>1. /\ UNCHANGED <<sink, alive>> /\ handle'[h] = "detach" /\ todo'[h] = Devices
        BY <1>0, <3>7 DEF Destroy, TypeOK
      <4> QED
        BY <1>0, <2>1, <2>3, <4>1 DEF SinkPlaces
    <3>8. CASE Detach(h)
      <4>1. PICK x \in todo[h] :
                   /\ sink' = IF sink[x] = h THEN [sink EXCEPT ![x] = NoHandle] ELSE sink
                   /\ todo'[h] = todo[h] \ {x}
                   /\ results' = [results EXCEPT ![x] =
                        [i \in Slots |-> IF @[i].ctx = h THEN ClearSink(@[i]) ELSE @[i]]]
        BY <1>0, <3>8 DEF Detach, TypeOK
      <4>2. sink'[x] # h /\ \A d \in Devices : sink'[d] = h => sink[d] = h
        BY <1>0, <4>1, HandlesAssumption DEF TypeOK
      <4>3. \A i \in Slots : results'[x][i].ctx # h
        <5>1. x \in Devices
          BY <1>0, <4>1 DEF TypeOK
        <5>2. \A i \in Slots : ClearSink(results[x][i]).ctx = NoHandle
          BY <1>0, <5>1 DEF ClearSink, TypeOK, Result
        <5>3. \A i \in Slots : results'[x][i] = IF results[x][i].ctx = h
                                 THEN ClearSink(results[x][i]) ELSE results[x][i]
          BY <1>0, <4>1, <5>1 DEF TypeOK
        <5> QED
          BY <5>2, <5>3, HandlesAssumption
      <4>4. UNCHANGED <<handle, given, alive>> /\ handle[h] = "detach"
        BY <3>8 DEF Detach
      <4> QED
        BY <1>0, <2>1, <2>3, <4>1, <4>2, <4>3, <4>4 DEF SinkPlaces
    <3>9. CASE Detached(h)
      <4>1. /\ handle[h] = "detach" /\ todo[h] = {} /\ UNCHANGED sink
        BY <3>9 DEF Detached
      <4>2. \A d \in Devices : sink'[d] # h /\ \A i \in Slots : results'[d][i].ctx # h
        BY <1>0, <2>1, <2>3, <4>1 DEF SinkPlaces
      <4> QED
        BY <2>3, <4>2 DEF SinkPlaces
    <3> QED
      BY <2>0, <3>2, <3>3, <3>4, <3>5, <3>6, <3>7, <3>8, <3>9 DEF HandleStep
  <2> QED
    BY <2>2, <2>3
<1> QED
  BY <1>1, <1>2

-----------------------------------------------------------------------------
\* A watcher's step changes only what the sink it calls was begun with.
LEMMA BegunByCaller ==
    ASSUME Inv, NEW d \in Devices, CameraStep(d) \/ WatcherStep(d), NEW c \in Handles
    PROVE  begun'[c] = begun[c] \/ sink[d] = c
<1> USE DEF Inv, TypeOK, CallsAttached, vars, cameraVars, watcherVars, Watches
<1>1. CASE SinkBegun(d)
  BY <1>1 DEF SinkBegun
<1>2. CASE SinkFinished(d)
  BY <1>2 DEF SinkFinished
<1>3. CASE SinkReset(d)
  BY <1>3 DEF SinkReset
<1>4. CASE CameraStep(d)
  BY <1>4 DEF CameraStep, FrameBegins, FrameEnds
<1>5. CASE WatcherStep(d) /\ ~SinkBegun(d) /\ ~SinkFinished(d) /\ ~SinkReset(d)
  <2>1. UNCHANGED begun
    BY <1>5 DEF WatcherStep, StartFrame, NotFed, SinkBegin, SinkFeed, Abort, ClearSlot, AllRows,
       SinkFinish, SinkReturns, SinkFed, Publish, Dies
  <2> QED
    BY <2>1
<1> QED
  BY <1>1, <1>2, <1>3, <1>4, <1>5

\* What a watcher feeds stays the frame it began, as no other watcher has the
\* sink.
LEMMA BegunStep ==
    ASSUME Inv, FedInv, NEW d \in Devices, CameraStep(d) \/ WatcherStep(d), NEW e \in Devices
    PROVE  BegunFrame(e)'
<1>0. /\ TypeOK /\ BegunFrame(e) /\ CallsAttached(d)
      /\ UNCHANGED <<sink, alive, source>>
  BY WatcherScope DEF Inv, FedInv
<1>1. CASE fed_ctx'[e] = NoHandle
  BY <1>1 DEF BegunFrame
<1>2. CASE fed_ctx'[e] # NoHandle /\ UNCHANGED <<fed_ctx[e], active[e]>> /\ (e = d => UNCHANGED begun)
  <2>1. PICK c \in Handles : c = fed_ctx[e]
    BY <1>0, <1>2 DEF TypeOK
  <2>2. CASE begun[c] = <<e, active[e]>> /\ \A x \in Devices \ {e} : sink[x] # c
    <3>1. begun'[c] = begun[c]
      BY <1>2, <2>2, BegunByCaller
    <3> QED
      BY <1>0, <1>2, <2>1, <2>2, <3>1 DEF BegunFrame
  <2>3. CASE sink[e] # c /\ (c \in alive => source[c] # e)
    BY <1>0, <1>2, <2>1, <2>3 DEF BegunFrame
  <2> QED
    BY <1>0, <1>2, <2>1, <2>2, <2>3 DEF BegunFrame
<1>3. CASE fed_ctx'[e] # NoHandle /\ e # d
  <2>1. UNCHANGED <<fed_ctx[e], active[e]>>
    BY <1>0, <1>3, WatcherScope
  <2> QED
    BY <1>2, <1>3, <2>1
<1>4. CASE fed_ctx'[e] # NoHandle /\ e = d
  <2> USE DEF cameraVars, watcherVars, Watches
  <2>1. CASE SinkBegun(d)
    <3>1. sink[d] \in Handles
      BY <1>0, <2>1 DEF SinkBegun, CallsAttached, TypeOK
    <3>2. fed_ctx[d] = NoHandle /\ UNCHANGED active
      BY <1>0, <2>1 DEF SinkBegun, CallsAttached
    <3>3. fed_ctx'[d] = sink[d] /\ begun'[sink[d]] = <<d, active[d]>>
      BY <1>0, <1>4, <2>1, <3>1, <3>2 DEF SinkBegun, TypeOK
    <3>4. \A x \in Devices \ {d} : sink[x] # sink[d]
      BY <3>1 DEF Inv, SinkPlaces
    <3> QED
      BY <1>0, <1>4, <3>2, <3>3, <3>4 DEF BegunFrame
  <2>2. CASE SinkFinished(d) \/ SinkReset(d)
    BY <1>0, <1>4, <2>2 DEF SinkFinished, SinkReset, TypeOK
  <2>3. CASE StartFrame(d) \/ Publish(d)
    BY <1>0, <1>4, <2>3 DEF StartFrame, Publish, CallsAttached
  <2>4. CASE CameraStep(d)
    BY <1>2, <1>4, <2>4 DEF CameraStep, FrameBegins, FrameEnds
  <2>5. CASE NotFed(d) \/ SinkBegin(d) \/ SinkFed(d) \/ Dies(d) \/ ClearSlot(d)
    BY <1>2, <1>4, <2>5 DEF NotFed, SinkBegin, SinkFed, Dies, ClearSlot, AllRows
  <2>6. CASE SinkFeed(d) \/ Abort(d) \/ SinkFinish(d)
    <3>1. UNCHANGED begun /\ fed_ctx'[d] = fed_ctx[d]
      BY <1>0, <1>4, <2>6 DEF SinkFeed, Abort, SinkFinish, CallSink, TypeOK
    <3>2. active'[d] = active[d]
      <4>1. CASE Abort(d)
        <5>1. watcher'[d] # "wait"
          BY <1>0, <1>4, <4>1 DEF Abort, CallSink, TypeOK
        <5> QED
          BY <4>1, <5>1 DEF Abort
      <4> QED
        BY <2>6, <4>1 DEF SinkFeed, SinkFinish
    <3> QED
      BY <1>2, <1>4, <3>1, <3>2
  <2> QED
    BY <2>1, <2>2, <2>3, <2>4, <2>5, <2>6 DEF WatcherStep, SinkReturns
<1> QED
  BY <1>1, <1>3, <1>4

\* What is fed to the sink attached is the frame it was begun with.
LEMMA FedIsBegun ==
    ASSUME FedInv, NEW d \in Devices, fed_ctx[d] # NoHandle, sink[d] = fed_ctx[d]
    PROVE  begun[fed_ctx[d]] = <<d, active[d]>>
BY DEF FedInv, BegunFrame

\* A sink comes to a watcher only when its camera is that watcher's, and its
\* camera does not come back to one that still feeds it.
LEMMA BegunInCalls ==
    ASSUME Inv, FedInv, NoReturn, NEW d \in Devices, NEW h \in Handles,
           DecodeGray(h) \/ HandleStep(h) \/ Destroy(h) \/ Replug(h)
    PROVE  BegunFrame(d)'
<1>0. TypeOK /\ BegunFrame(d) /\ HasFrame(h) /\ SinkPlaces(h)
  BY DEF Inv, FedInv
<1>1. UNCHANGED <<fed_ctx, active>>
  BY HandleScope DEF DecodeGray
<1>2. CASE fed_ctx[d] = NoHandle
  BY <1>1, <1>2 DEF BegunFrame
<1>3. CASE fed_ctx[d] # NoHandle
  <2>0. PICK c \in Handles : c = fed_ctx[d] /\ c # NoHandle
    BY <1>0, <1>3 DEF TypeOK
  <2> DEFINE Its == begun[c] = <<d, active[d]>> /\ \A e \in Devices \ {d} : sink[e] # c
             Gone == sink[d] # c /\ (c \in alive => source[c] # d)
  <2>1. Its \/ Gone
    BY <1>0, <2>0 DEF BegunFrame
  <2>2. SUFFICES Its' \/ Gone'
    BY <1>1, <2>0 DEF BegunFrame
  <2>3. ASSUME begun'[c] = begun[c], \A e \in Devices : sink'[e] = c => sink[e] = c,
               c \in alive' => c \in alive, source'[c] = source[c]
        PROVE  Its' \/ Gone'
    BY <1>1, <2>1, <2>3
  <2>4. CASE DecodeGray(h)
    <3>1. \A e \in Devices : sink'[e] = c => sink[e] = c
      BY <1>0, <2>0, <2>4, ScanScope
    <3>2. UNCHANGED <<begun, alive, source>>
      BY <2>4 DEF DecodeGray, cameraVars
    <3> QED
      BY <2>3, <3>1, <3>2
  <2>5. CASE ~DecodeGray(h) /\ c # h
    <3>1. UNCHANGED <<begun[c], source[c]>> /\ (c \in alive <=> c \in alive')
      BY <1>0, <2>5, OthersScope
    <3>2. \A e \in Devices : sink'[e] = c => sink[e] = c
      BY <2>5, SinksInCalls
    <3> QED
      BY <2>3, <3>1, <3>2
  <2>6. CASE c = h /\ Detached(h)
    <3>1. todo[h] = {} /\ handle[h] = "detach" /\ UNCHANGED sink /\ h \notin alive'
      BY <2>6 DEF Detached
    <3>2. sink'[d] # h
      BY <1>0, <3>1 DEF SinkPlaces
    <3> QED
      BY <2>6, <3>1, <3>2
  <2>7. CASE c = h /\ Attach(h)
    <3>1. /\ handle[h] = "move" /\ todo[h] = {} /\ UNCHANGED <<begun, source, alive>>
          /\ h \in alive /\ Device(h) = source[h]
          /\ \A e \in Devices \ {Device(h)} : sink'[e] = sink[e]
      BY <1>0, <2>7 DEF Attach, HasFrame, Busy, TypeOK, cameraVars
    <3>2. CASE Device(h) = d
      BY <1>1, <2>1, <2>7, <3>1, <3>2
    <3>3. CASE Device(h) # d
      <4>1. sink'[d] # h
        BY <1>0, <3>1, <3>3 DEF SinkPlaces
      <4> QED
        BY <2>7, <3>1, <3>3, <4>1
    <3> QED
      BY <3>2, <3>3
  <2>8. CASE c = h /\ Replug(h)
    <3>1. UNCHANGED <<begun, sink, alive>>
      BY <2>8 DEF Replug
    <3>2. source'[h] # source[h] => source'[h] # d
      BY <2>0, <2>8 DEF NoReturn
    <3> QED
      BY <1>1, <2>1, <2>8, <3>1, <3>2
  <2>9. CASE c = h /\ ~DecodeGray(h) /\ ~Attach(h) /\ ~Detached(h) /\ ~Replug(h)
    <3>1. UNCHANGED <<begun, alive, source>>
      BY <2>9
      DEF HandleStep, Search, UseDeleted, Take, Move, Fetch, UseResult, Detach, Destroy, cameraVars
    <3>2. \A e \in Devices : sink'[e] = c => sink[e] = c
      BY <2>9, SinksInCalls
    <3> QED
      BY <2>3, <3>1, <3>2
  <2> QED
    BY <2>4, <2>5, <2>6, <2>7, <2>8, <2>9
<1> QED
  BY <1>2, <1>3

\* What a watcher keeps is the result of the frame its sink was begun with.
LEMMA ResultStep ==
    ASSUME Inv, FedInv, NEW d \in Devices, CameraStep(d) \/ WatcherStep(d), NEW e \in Devices,
           NEW i \in Slots
    PROVE  RingResult(e, i)'
<1> USE DEF vars, cameraVars, watcherVars, handleVars, Watches
<1>0. /\ TypeOK /\ CallsAttached(d) /\ RingSlot(d, i)
      /\ RingResult(d, i) /\ RingResult(e, i)
  BY DEF Inv, FedInv
<1>1. CASE e # d
  BY <1>0, <1>1, WatcherScope DEF RingResult, Slot
<1>2. CASE e = d
  <2> DEFINE r == results[d][i]
  <2>0. /\ r \in Result /\ Slot(d) \in Slots
        /\ DOMAIN results = Devices /\ DOMAIN results[d] = Slots /\ DOMAIN seq = Devices
        /\ DOMAIN watcher = Devices /\ DOMAIN active = Devices
    BY <1>0, SlotType DEF TypeOK
  <2>1. CASE CameraStep(d)
    BY <1>0, <1>2, <2>1 DEF CameraStep, FrameBegins, FrameEnds, RingResult, Slot
  <2>2. CASE StartFrame(d) \/ NotFed(d) \/ SinkBegin(d) \/ SinkFed(d) \/ Dies(d)
    BY <1>0, <1>2, <2>0, <2>2
    DEF StartFrame, NotFed, SinkBegin, SinkFed, Dies, RingResult, Slot
  <2>3. CASE SinkBegun(d) \/ SinkReset(d)
    BY <1>0, <1>2, <2>0, <2>3 DEF SinkBegun, SinkReset, RingResult, Slot
  <2>4. CASE SinkFeed(d) \/ Abort(d)
    BY <1>0, <1>2, <2>0, <2>4 DEF SinkFeed, Abort, CallSink, RingResult, Slot
  <2>5. CASE SinkFinish(d)
    <3>1. /\ UNCHANGED <<results, seq, active>> /\ watcher[d] = "finish"
      BY <2>5 DEF SinkFinish, CallSink
    <3> QED
      BY <1>0, <1>2, <3>1 DEF RingSlot, RingResult, Slot
  <2>6. CASE ClearSlot(d)
    <3>1. /\ UNCHANGED <<seq, active>> /\ watcher[d] = "rows" /\ watcher'[d] = "finish"
          /\ results'[d][i] = IF i = Slot(d) THEN ClearSink(r) ELSE r
      BY <2>0, <2>6 DEF ClearSlot, AllRows
    <3>2. ClearSink(r).ctx = NoHandle
      BY <2>0 DEF ClearSink, Result
    <3> QED
      BY <1>0, <1>2, <3>1, <3>2 DEF RingResult, Slot
  <2>7. CASE SinkFinished(d)
    <3>1. begun[fed_ctx[d]] = <<d, active[d]>>
      BY <1>0, <2>7, FedIsBegun DEF SinkFinished, CallsAttached
    <3>2. /\ UNCHANGED <<seq, active>> /\ watcher[d] = "in_finish" /\ watcher'[d] = "publish"
          /\ results'[d][i] = IF i = Slot(d)
                                THEN [r EXCEPT !.ctx = fed_ctx[d], !.out = <<d, active[d]>>]
                                ELSE r
      BY <2>0, <2>7, <3>1 DEF SinkFinished
    <3>3. CASE i = Slot(d)
      <4>1. results'[d][i].out = <<d, active[d]>>
        BY <2>0, <3>2, <3>3 DEF Result
      <4> QED
        BY <1>2, <3>2, <3>3, <4>1 DEF RingResult, Slot
    <3>4. CASE i # Slot(d)
      BY <1>0, <1>2, <3>2, <3>4 DEF RingResult, Slot
    <3> QED
      BY <3>3, <3>4
  <2>8. CASE Publish(d)
    <3>1. watcher[d] = "publish" /\ watcher'[d] = "wait"
      BY <2>0, <2>8 DEF Publish
    <3>2. /\ results'[d][i].ctx = r.ctx /\ results'[d][i].out = r.out
          /\ results'[d][i].frame = IF i = Slot(d) THEN active[d] ELSE r.frame
      BY <2>0, <2>8 DEF Publish, Result
    <3> QED
      BY <1>0, <1>2, <3>1, <3>2 DEF RingResult
  <2> QED
    BY <2>1, <2>2, <2>3, <2>4, <2>5, <2>6, <2>7, <2>8 DEF WatcherStep, SinkReturns
<1> QED
  BY <1>1, <1>2

\* A call leaves the results of the frames they are kept with.
LEMMA ResultInCalls ==
    ASSUME Inv, FedInv, NEW h \in Handles,
           DecodeGray(h) \/ HandleStep(h) \/ Destroy(h) \/ Replug(h),
           NEW d \in Devices, NEW i \in Slots
    PROVE  RingResult(d, i)'
<1>0. TypeOK /\ RingResult(d, i)
  BY DEF Inv, FedInv
<1>1. CASE DecodeGray(h)
  <2>1. CASE UNCHANGED <<watcher[d], sink[d], seq[d], results[d]>>
    BY <1>0, <1>1, <2>1, ScanScope DEF RingResult, Slot
  <2>2. CASE ~UNCHANGED <<watcher[d], sink[d], seq[d], results[d]>>
    <3>1. results'[d][i] = Empty
      BY <1>0, <1>1, <2>2, ScanScope
    <3> QED
      BY <3>1 DEF RingResult, Empty
  <2> QED
    BY <2>1, <2>2
<1>2. CASE ~DecodeGray(h)
  <2>1. UNCHANGED <<watcher, seq, active>>
    BY <1>2, HandleScope
  <2>2. results[d][i] \in Result
    BY <1>0 DEF TypeOK
  <2>3. CASE results'[d][i] = results[d][i]
    BY <1>0, <2>1, <2>3 DEF RingResult, Slot
  <2>4. CASE results'[d][i] = ClearSink(results[d][i])
    <3>1. results'[d][i].ctx = NoHandle
      BY <2>2, <2>4 DEF ClearSink, Result
    <3> QED
      BY <3>1 DEF RingResult
  <2> QED
    BY <1>2, <2>3, <2>4, ResultsInCalls
<1> QED
  BY <1>1, <1>2

-----------------------------------------------------------------------------
\* Every step preserves the invariant.
LEMMA NextInv == Inv /\ [Next]_vars => Inv'
<1> SUFFICES ASSUME Inv, [Next]_vars PROVE Inv'
  OBVIOUS
<1>1. ASSUME NEW d \in Devices, CameraStep(d) \/ WatcherStep(d)
      PROVE  Inv'
  <2>1. TypeOK'
    BY <1>1, WatcherTypes
  <2>2. ASSUME NEW e \in Devices
        PROVE  Counted(e)' /\ CallsAttached(e)' /\ \A i \in Slots : RingSlot(e, i)'
    BY <1>1, CountedStep, CallsStep, RingStep
  <2>3. ASSUME NEW g \in Handles
        PROVE  HasFrame(g)' /\ AskedFrame(g)' /\ SinkPlaces(g)'
    BY <1>1, HasFrameStep, AskedFrameStep, PlacesStep
  <2> QED
    BY <2>1, <2>2, <2>3 DEF Inv
<1>2. ASSUME NEW h \in Handles, DecodeGray(h) \/ HandleStep(h) \/ Destroy(h) \/ Replug(h)
      PROVE  Inv'
  <2>1. TypeOK'
    BY <1>2, HandleTypes
  <2>2. ASSUME NEW e \in Devices
        PROVE  Counted(e)' /\ CallsAttached(e)' /\ \A i \in Slots : RingSlot(e, i)'
    BY <1>2, CountedInCalls, CallsInCalls, RingInCalls
  <2>3. ASSUME NEW g \in Handles
        PROVE  HasFrame(g)' /\ AskedFrame(g)' /\ SinkPlaces(g)'
    BY <1>2, HasFrameInCalls, AskedFrameInCalls, PlacesInCalls
  <2> QED
    BY <2>1, <2>2, <2>3 DEF Inv
<1>3. CASE UNCHANGED vars
  BY <1>3 DEF Inv, TypeOK, Counted, Live, CallsAttached, RingSlot, HasFrame, AskedFrame,
     Numbered, Later, SinkPlaces, Slot, Device, vars, cameraVars, watcherVars, handleVars
<1> QED
  BY <1>1, <1>2, <1>3 DEF Next

\* The invariant holds in every reachable state.
THEOREM Invariance == Spec => []Inv
BY InitInv, NextInv, PTL DEF Spec

-----------------------------------------------------------------------------
\* Every variable of the stream decoder keeps its type.
THEOREM TypeCorrect == Spec => []TypeOK
<1>1. Inv => TypeOK
  BY DEF Inv
<1> QED
  BY <1>1, Invariance, PTL

\* spectrum_stream_take leaves a sink with one watcher at most.
THEOREM AttachedToOne == Spec => []AttachedOnce
<1>1. Inv => AttachedOnce
  BY DEF Inv, TypeOK, SinkPlaces, AttachedOnce
<1> QED
  BY <1>1, Invariance, PTL

\* After spectrum_stream_detach no watcher calls the sink, and before that one
\* at a time.
THEOREM CalledByOne == Spec => []SinkCalledAlone
<1>1. Inv => SinkCalledAlone
  <2> SUFFICES ASSUME Inv, NEW d \in Devices, watcher[d] \in SinkCalls
               PROVE  /\ Called(d) \in alive
                      /\ \A e \in Devices \ {d} : watcher[e] \in SinkCalls => Called(e) # Called(d)
    BY DEF SinkCalledAlone
  <2>1. \A e \in Devices : watcher[e] \in SinkCalls => Called(e) = sink[e] /\ sink[e] # NoHandle
    BY DEF Inv, CallsAttached, Called, SinkCalls
  <2>2. sink[d] \in Handles
    BY <2>1 DEF Inv, TypeOK
  <2> QED
    BY <2>1, <2>2 DEF Inv, SinkPlaces
<1> QED
  BY <1>1, Invariance, PTL

-----------------------------------------------------------------------------
\* Every step that brings no camera back in mid-frame keeps the frames fed and
\* the results kept in agreement.
LEMMA NextFed == Inv /\ FedInv /\ [Next]_vars /\ [NoReturn]_vars => FedInv'
<1> SUFFICES ASSUME Inv, FedInv, [Next]_vars, [NoReturn]_vars PROVE FedInv'
  OBVIOUS
<1>1. ASSUME NEW d \in Devices, CameraStep(d) \/ WatcherStep(d)
      PROVE  FedInv'
  BY <1>1, BegunStep, ResultStep DEF FedInv
<1>2. ASSUME NEW h \in Handles, DecodeGray(h) \/ HandleStep(h) \/ Destroy(h) \/ Replug(h), NoReturn
      PROVE  FedInv'
  BY <1>2, BegunInCalls, ResultInCalls DEF FedInv
<1>3. CASE UNCHANGED vars
  BY <1>3 DEF FedInv, BegunFrame, RingResult, Slot, vars, cameraVars, watcherVars, handleVars
<1> QED
  BY <1>1, <1>2, <1>3 DEF Next

\* The second invariant holds as long as no camera comes back in mid-frame.
THEOREM FedInvariance == Spec /\ [][NoReturn]_vars => []FedInv
BY InitFed, NextFed, Invariance, PTL DEF Spec

-----------------------------------------------------------------------------
\* A sink is fed and finished with the frame it was begun with, if its camera
\* does not come back while the watcher is in the frame of before: the watcher
\* compares no more than the sink's address.
THEOREM FedTheFrameBegun == Spec /\ [][NoReturn]_vars => []FedAsBegun
<1>1. Inv /\ FedInv => FedAsBegun
  <2> SUFFICES ASSUME Inv, FedInv, NEW d \in Devices, watcher[d] \in {"in_feed", "in_finish"}
               PROVE  begun[fed_ctx[d]] = <<d, active[d]>>
    BY DEF FedAsBegun
  <2>1. fed_ctx[d] # NoHandle /\ sink[d] = fed_ctx[d]
    BY DEF Inv, CallsAttached
  <2> QED
    BY <2>1, FedIsBegun
<1> QED
  BY <1>1, Invariance, FedInvariance, PTL

\* A sink result in the ring is its frame's and its sink is there, except in
\* the slot that is about to get its image; cameras as before.
THEOREM RingAgrees == Spec /\ [][NoReturn]_vars => []ResultsAgree
<1>1. Inv /\ FedInv => ResultsAgree
  <2> SUFFICES ASSUME Inv, FedInv, NEW d \in Devices, NEW i \in Slots,
                      results[d][i].ctx # NoHandle
               PROVE  /\ results[d][i].ctx \in alive
                      /\ ~(watcher[d] = "publish" /\ i = Slot(d)) =>
                           results[d][i].out = <<d, results[d][i].frame>>
    BY DEF ResultsAgree
  <2>1. results[d][i].ctx \in Handles
    BY DEF Inv, TypeOK, Result
  <2>2. results[d][i].ctx \in alive
    BY <2>1 DEF Inv, SinkPlaces
  <2>3. RingResult(d, i)
    BY DEF FedInv
  <2> QED
    BY <2>2, <2>3 DEF RingResult
<1> QED
  BY <1>1, Invariance, FedInvariance, PTL

\* Only Fetch takes a result.
LEMMA TakenByFetch ==
    ASSUME Inv, [Next]_vars, NEW h \in Handles, handle[h] = "fetch", handle'[h] = "taken"
    PROVE  Fetch(h)
<1>0. TypeOK
  BY DEF Inv
<1>1. ASSUME NEW d \in Devices, CameraStep(d) \/ WatcherStep(d)
      PROVE  FALSE
  BY <1>0, <1>1, WatcherScope
<1>2. ASSUME NEW g \in Handles, DecodeGray(g)
      PROVE  FALSE
  BY <1>0, <1>2, ScanOthers
<1>3. ASSUME NEW g \in Handles, HandleStep(g) \/ Destroy(g) \/ Replug(g)
      PROVE  Fetch(h)
  <2>1. g = h
    BY <1>0, <1>3, OthersScope
  <2> USE <1>0, <2>1 DEF TypeOK, handleVars, GoIdle
  <2>2. CASE Search(g) \/ UseDeleted(g) \/ Take(g) \/ Move(g)
    BY <2>2 DEF Search, UseDeleted, Take, Move
  <2>3. CASE Attach(g) \/ UseResult(g) \/ Detach(g) \/ Detached(g)
    BY <2>3 DEF Attach, UseResult, Detach, Detached
  <2>4. CASE Destroy(g) \/ Replug(g)
    BY <2>4 DEF Destroy, Replug
  <2> QED
    BY <1>3, <2>1, <2>2, <2>3, <2>4 DEF HandleStep
<1>4. ~UNCHANGED vars
  BY DEF vars, handleVars
<1> QED
  BY <1>1, <1>2, <1>3, <1>4 DEF Next

\* spectrum_stream_take hands over the result of the frame it is for, or of the
\* one about to have that frame's slot, or of a later one of a new watcher;
\* cameras as before.
THEOREM NoOtherTaken == Spec /\ [][NoReturn]_vars => TakesNoOther
<1> DEFINE Taken(h) ==
      LET d == Device(h)
      IN  \/ got'[h] = given[h]
          \/ watcher[d] = "publish" /\ got'[h] = <<d, active[d]>>
          \/ \E i \in Slots : /\ results[d][i].seq = asked[h]
                              /\ results[d][i].frame > given[h][2]
                              /\ got'[h] = <<d, results[d][i].frame>>
           TakeStep == \A h \in Handles : handle[h] = "fetch" /\ handle'[h] = "taken" => Taken(h)
<1>1. Inv /\ FedInv /\ [Next]_vars => [TakeStep]_vars
  <2> SUFFICES ASSUME Inv, FedInv, [Next]_vars, NEW h \in Handles,
                      handle[h] = "fetch", handle'[h] = "taken"
               PROVE  Taken(h)
    OBVIOUS
  <2> DEFINE d == Device(h)
  <2>1. Fetch(h)
    BY TakenByFetch
  <2>2. /\ d \in Devices /\ given[h] = <<d, given[h][2]>> /\ asked[h] # 0
        /\ Numbered(h) \/ Later(h)
    BY DeviceType DEF Inv, Busy, HasFrame, AskedFrame
  <2>3. PICK i \in Slots : /\ Mine(h, results[d][i])
                           /\ got' = [got EXCEPT ![h] = results[d][i].out]
    BY <2>1 DEF Fetch, GoIdle, Inv, TypeOK
  <2> DEFINE r == results[d][i]
  <2>4. r.seq = asked[h] /\ r.ctx # NoHandle /\ got'[h] = r.out
    BY <2>3, HandlesAssumption DEF Mine, Inv, TypeOK
  <2>5. CASE i = Slot(d) /\ watcher[d] = "publish"
    BY <2>2, <2>4, <2>5 DEF FedInv, RingResult
  <2>6. CASE ~(i = Slot(d) /\ watcher[d] = "publish")
    <3>1. r.out = <<d, r.frame>>
      BY <2>2, <2>4, <2>6 DEF FedInv, RingResult
    <3>2. CASE Numbered(h)
      BY <2>2, <2>4, <3>1, <3>2 DEF Numbered
    <3>3. CASE Later(h)
      <4>1. r.seq > 0
        BY <2>2, <2>4 DEF Inv, TypeOK
      <4> QED
        BY <2>4, <3>1, <3>3, <4>1 DEF Later
    <3> QED
      BY <2>2, <3>2, <3>3
  <2> QED
    BY <2>5, <2>6
<1>2. Spec /\ [][NoReturn]_vars => [][TakeStep]_vars
  BY <1>1, Invariance, FedInvariance, PTL DEF Spec
<1> QED
  BY <1>2 DEF TakesNoOther

=============================================================================
