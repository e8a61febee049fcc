---------------------------- MODULE StreamDecode ----------------------------
(***************************************************************************)
(* Decoding while the frame arrives (src/detector/stream_decode.cc).  A    *)
(* watcher thread per camera device decodes each frame as the driver fills *)
(* its buffer and keeps the last kResults of them.  A handle (a NAPA       *)
(* detector and the thread that uses it) asks for the frame it was given,  *)
(* and its band sink, attached to the watcher, is called with the rows as  *)
(* they are decoded, so that the detections are there with the frame.      *)
(*                                                                         *)
(*   g_mu        the list of watchers: one scan, take or detach            *)
(*   w.sink_mu   the watcher's sink, held across each call into it         *)
(*   w.mu        the watcher's results; every step here that uses them is  *)
(*               one critical section                                      *)
(*                                                                         *)
(* Each device's frames are numbered, and two frames never match.  A frame *)
(* the driver drops is one that nobody is given.  A watcher takes up the   *)
(* buffers it wiped as it comes upon them, so after a stall the frames in  *)
(* them may be started in any order; a frame whose buffer was not wiped in *)
(* time, or is filled again before, is one that is never started.  Left    *)
(* out: the driver filling the very buffer that is being decoded, which    *)
(* mixes two frames, and a sink made at the address of a deleted one.      *)
(* Times (the scan every 2 s, the sink idle for 1 s, the frame-rate cap,   *)
(* the camera silent for 300 ms, the frame stuck for 25 ms, the 3 ms wait  *)
(* for the last rows) are nondeterministic.                                *)
(***************************************************************************)
EXTENDS Naturals, FiniteSets

CONSTANTS
    Devices,
    Handles,       \* users of frames; a handle's name is its sink's ctx
    NoHandle,      \* nullptr
    kResults,
    MaxFrames,     \* bound: frames of all cameras
    MaxReplugs     \* bound: times a camera comes back as another device

ASSUME HandlesAssumption == NoHandle \notin Handles
ASSUME LimitsAssumption == /\ kResults \in Nat \ {0}
                           /\ MaxFrames \in Nat
                           /\ MaxReplugs \in Nat

VARIABLES
    frames,   \* frames begun so far, of all cameras
    camera,   \* each device's newest frame and whether it is still arriving
    shown,    \* frames begun in wiped buffers and not yet started
    watcher,  \* what each device's watcher thread is doing
    active,   \* the frame it decodes, 0 if none
    fed_ctx,  \* the sink fed with this frame
    sink,     \* the sink attached
    seq,      \* frames it has published
    results,  \* the last of them, with their sink's results
    begun,    \* the frame each sink was begun with
    alive,    \* handles not destroyed
    source,   \* the device whose frames a handle gets
    replugs,
    handle,   \* what each handle's thread is doing
    given,    \* the frame it was given
    asked,    \* the frame's sequence number (t_served.seq), 0 if not found
    todo,     \* watchers a take or detach still has to visit
    got,      \* the frame whose sink result it took
    crashed   \* a deleted watcher was used

cameraVars == <<frames, camera, source, replugs>>
watcherVars == <<shown, watcher, active, fed_ctx, seq>>
handleVars == <<handle, given, asked, todo, got>>
vars == <<cameraVars, watcherVars, sink, results, begun, alive, handleVars, crashed>>

Frames == Devices \X (1 .. MaxFrames)
NoFrame == <<>>

SinkCalls == {"in_begin", "in_feed", "in_finish", "in_abort"}  \* sink_mu is held
Decoding == {"begin", "rows", "finish", "publish"} \cup SinkCalls
HoldsList == {"move", "fetch", "detach"}  \* g_mu is held

Slots == 0 .. kResults - 1
Result == [seq : 0 .. MaxFrames, frame : 0 .. MaxFrames, ctx : Handles \cup {NoHandle},
           out : Frames \cup {NoFrame}]
Empty == [seq |-> 0, frame |-> 0, ctx |-> NoHandle, out |-> NoFrame]
ClearSink(r) == [r EXCEPT !.ctx = NoHandle, !.out = NoFrame]

\* Some devices have been scanned before the frames counted here.
Init ==
    /\ frames = 0
    /\ camera = [d \in Devices |-> [frame |-> 0, arriving |-> FALSE]]
    /\ shown = [d \in Devices |-> {}]
    /\ watcher \in [Devices -> {"none", "wait"}]
    /\ active = [d \in Devices |-> 0]
    /\ fed_ctx = [d \in Devices |-> NoHandle]
    /\ sink = [d \in Devices |-> NoHandle]
    /\ seq = [d \in Devices |-> 0]
    /\ results = [d \in Devices |-> [i \in Slots |-> Empty]]
    /\ begun = [h \in Handles |-> NoFrame]
    /\ alive = Handles
    /\ source \in [Handles -> Devices]
    /\ replugs = 0
    /\ handle = [h \in Handles |-> "idle"]
    /\ given = [h \in Handles |-> NoFrame]
    /\ asked = [h \in Handles |-> 0]
    /\ todo = [h \in Handles |-> {}]
    /\ got = [h \in Handles |-> NoFrame]
    /\ crashed = FALSE

\* The sink a watcher calls, or goes on feeding.
Called(d) == IF watcher[d] = "in_begin" THEN sink[d] ELSE fed_ctx[d]

(***************************************************************************)
(* The cameras.                                                            *)
(***************************************************************************)
Live(d) == watcher[d] \notin {"none", "dead"}

\* In a buffer that a live watcher has wiped, or in another.
FrameBegins(d) ==
    LET new == camera[d].frame + 1
    IN  /\ frames < MaxFrames
        /\ frames' = frames + 1
        /\ ~camera[d].arriving
        /\ camera' = [camera EXCEPT ![d] = [frame |-> new, arriving |-> TRUE]]
        /\ shown' = IF Live(d) THEN [shown EXCEPT ![d] = @ \cup {new}] ELSE shown
    /\ UNCHANGED <<source, replugs, watcher, active, fed_ctx, seq, sink, results, begun, alive,
                   handleVars, crashed>>

FrameEnds(d) ==
    /\ camera[d].arriving
    /\ camera' = [camera EXCEPT ![d].arriving = FALSE]
    /\ UNCHANGED <<frames, source, replugs, watcherVars, sink, results, begun, alive,
                   handleVars, crashed>>

\* A camera that is plugged in again may be another device.
Replug(h) ==
    /\ replugs < MaxReplugs
    /\ replugs' = replugs + 1
    /\ handle[h] = "idle"
    /\ \E d \in Devices \ {source[h]} : source' = [source EXCEPT ![h] = d]
    /\ UNCHANGED <<frames, camera, watcherVars, sink, results, begun, alive, handleVars,
                   crashed>>

(***************************************************************************)
(* The watcher of device d.                                                *)
(***************************************************************************)
Watches(d, from, to) == watcher[d] = from /\ watcher' = [watcher EXCEPT ![d] = to]

Slot(d) == (seq[d] + 1) % kResults

\* Mutant: the buffer is not wiped, so its frame seems to begin again.
StartFrameAgain(d) ==
    /\ Watches(d, "wait", "begin")
    /\ \E frame \in shown[d] : active' = [active EXCEPT ![d] = frame]
    /\ UNCHANGED <<cameraVars, shown, fed_ctx, seq, sink, results, begun, alive, handleVars,
                   crashed>>

\* A wiped buffer shows the start of a frame, of which more may be there.
StartFrame(d) ==
    /\ Watches(d, "wait", "begin")
    /\ \E frame \in shown[d] : /\ active' = [active EXCEPT ![d] = frame]
                               /\ shown' = [shown EXCEPT ![d] = @ \ {frame}]
    /\ UNCHANGED <<cameraVars, fed_ctx, seq, sink, results, begun, alive, handleVars, crashed>>

\* sink_begin: no sink, or one that takes no results or will skip the frame.
NotFed(d) ==
    /\ Watches(d, "begin", "rows")
    /\ UNCHANGED <<cameraVars, shown, active, fed_ctx, seq, sink, results, begun, alive, handleVars,
                   crashed>>

SinkBegin(d) ==
    /\ Watches(d, "begin", "in_begin")
    /\ sink[d] # NoHandle
    /\ UNCHANGED <<cameraVars, shown, active, fed_ctx, seq, sink, results, begun, alive, handleVars,
                   crashed>>

\* napa_far's Begin: the sink is reset, and may refuse the frame.
SinkBegun(d) ==
    /\ Watches(d, "in_begin", "rows")
    /\ \/ /\ fed_ctx' = [fed_ctx EXCEPT ![d] = sink[d]]
          /\ begun' = [begun EXCEPT ![sink[d]] = <<d, active[d]>>]
       \/ /\ begun' = [begun EXCEPT ![sink[d]] = NoFrame]
          /\ UNCHANGED fed_ctx
    /\ UNCHANGED <<cameraVars, shown, active, seq, sink, results, alive, handleVars, crashed>>

\* Mutant: the watcher goes on with the sink it began with.
CallSinkUnchecked(d, from, into, past) ==
    /\ watcher[d] = from
    /\ IF fed_ctx[d] # NoHandle
         THEN Watches(d, from, into) /\ UNCHANGED fed_ctx
         ELSE Watches(d, from, past) /\ UNCHANGED fed_ctx

\* Under sink_mu: a call into the sink, or past it when it has gone or moved.
CallSink(d, from, into, past) ==
    /\ watcher[d] = from
    /\ IF fed_ctx[d] # NoHandle /\ sink[d] = fed_ctx[d]
         THEN Watches(d, from, into) /\ UNCHANGED fed_ctx
         ELSE Watches(d, from, past) /\ fed_ctx' = [fed_ctx EXCEPT ![d] = NoHandle]

SinkFeed(d) ==
    /\ CallSink(d, "rows", "in_feed", "rows")
    /\ UNCHANGED <<cameraVars, shown, active, seq, sink, results, begun, alive, handleVars, crashed>>

SinkFed(d) ==
    /\ Watches(d, "in_feed", "rows")
    /\ UNCHANGED <<cameraVars, shown, active, fed_ctx, seq, sink, results, begun, alive, handleVars,
                   crashed>>

\* Corrupt, of another size, or stuck: abort_decode.
Abort(d) ==
    /\ CallSink(d, "rows", "in_abort", "wait")
    /\ active' = IF watcher'[d] = "wait" THEN [active EXCEPT ![d] = 0] ELSE active
    /\ UNCHANGED <<cameraVars, shown, seq, sink, results, begun, alive, handleVars, crashed>>

\* finish() resets the sink; its result is freed.
SinkReset(d) ==
    /\ Watches(d, "in_abort", "wait")
    /\ begun' = [begun EXCEPT ![fed_ctx[d]] = NoFrame]
    /\ fed_ctx' = [fed_ctx EXCEPT ![d] = NoHandle]
    /\ active' = [active EXCEPT ![d] = 0]
    /\ UNCHANGED <<cameraVars, shown, seq, sink, results, alive, handleVars, crashed>>

\* The last row is in, and the end of the image.
AllRows(d) ==
    /\ Watches(d, "rows", "finish")
    /\ camera[d].arriving => camera[d].frame # active[d]
    /\ UNCHANGED <<cameraVars, shown, active, fed_ctx, seq, sink, begun, alive, handleVars, crashed>>

\* Mutant: the sink result of the slot's previous frame stays.
ClearSlotNot(d) == AllRows(d) /\ UNCHANGED results

\* Under mu: the sink result of the slot's previous frame goes.
ClearSlot(d) ==
    /\ AllRows(d)
    /\ results' = [results EXCEPT ![d][Slot(d)] = ClearSink(@)]

SinkFinish(d) ==
    /\ CallSink(d, "finish", "in_finish", "publish")
    /\ UNCHANGED <<cameraVars, shown, active, seq, sink, results, begun, alive, handleVars, crashed>>

\* finish() returned: its result goes into the slot, under sink_mu and mu.
SinkFinished(d) ==
    /\ Watches(d, "in_finish", "publish")
    /\ LET ctx == fed_ctx[d]
       IN  /\ results' = [results EXCEPT ![d][Slot(d)] =
                            [@ EXCEPT !.ctx = ctx, !.out = begun[ctx]]]
           /\ begun' = [begun EXCEPT ![ctx] = NoFrame]
           /\ fed_ctx' = [fed_ctx EXCEPT ![d] = NoHandle]
    /\ UNCHANGED <<cameraVars, shown, active, seq, sink, alive, handleVars, crashed>>

\* Under mu: the image and its sequence number.
Publish(d) ==
    /\ Watches(d, "publish", "wait")
    /\ seq' = [seq EXCEPT ![d] = @ + 1]
    /\ results' = [results EXCEPT ![d][Slot(d)] =
                     [@ EXCEPT !.seq = seq[d] + 1, !.frame = active[d]]]
    /\ active' = [active EXCEPT ![d] = 0]
    /\ UNCHANGED <<cameraVars, shown, fed_ctx, sink, begun, alive, handleVars, crashed>>

\* No new frame for 300 ms; a frame that was not finished was given up first.
Dies(d) ==
    /\ Watches(d, "wait", "dead")
    /\ shown' = [shown EXCEPT ![d] = {}]
    /\ UNCHANGED <<cameraVars, active, fed_ctx, seq, sink, results, begun, alive, handleVars,
                   crashed>>

(***************************************************************************)
(* spectrum_stream_decode_gray.  Of the watchers it visits only that of    *)
(* the frame's device can match, and only that one is modelled.            *)
(***************************************************************************)
ListFree == \A h \in Handles : handle[h] \notin HoldsList

Device(h) == given[h][1]

\* Watch the devices of new, which have no live watcher, and reap the dead
\* ones; the threads that still have a pointer to one of those have lost it.
\* A new watcher wipes a buffer only when it has changed: it shows no frame yet.
Scan(new) ==
    LET dead == {d \in Devices : watcher[d] = "dead"}
        gone == dead \cup new
    IN  /\ watcher' = [d \in Devices |-> IF d \in new THEN "wait"
                                         ELSE IF d \in dead THEN "none" ELSE watcher[d]]
        /\ sink' = [d \in Devices |-> IF d \in gone THEN NoHandle ELSE sink[d]]
        /\ seq' = [d \in Devices |-> IF d \in gone THEN 0 ELSE seq[d]]
        /\ results' = [d \in Devices |-> IF d \in gone THEN [i \in Slots |-> Empty]
                                         ELSE results[d]]

NoScan == UNCHANGED <<watcher, sink, seq, results>>

Lost(h) == handle[h] = "search" /\ watcher[Device(h)] = "dead" /\ watcher'[Device(h)] # "dead"

\* The newest frame there is, as a rule while the next one arrives.
Complete(d) == IF camera[d].arriving THEN camera[d].frame - 1 ELSE camera[d].frame

\* A frame of the handle's camera, the later ones having been dropped: under
\* g_mu perhaps a scan, then the live watchers as raw pointers.
DecodeGray(h) ==
    /\ handle[h] = "idle"
    /\ h \in alive
    /\ ListFree
    /\ \E frame \in 1 .. Complete(source[h]) :
         given' = [given EXCEPT ![h] = <<source[h], frame>>]
    /\ NoScan \/ \E new \in SUBSET {d \in Devices : ~Live(d)} : Scan(new)
    /\ handle' = [g \in Handles |->
                    IF g = h THEN IF watcher'[source[h]] \in {"none", "dead"} THEN "decoded"
                                  ELSE "search"
                    ELSE IF Lost(g) THEN "lost" ELSE handle[g]]
    /\ UNCHANGED <<cameraVars, shown, active, fed_ctx, begun, alive, asked, todo, got, crashed>>

\* Sequence numbers of the frame given, in its watcher's results.
Found(h) == {results[Device(h)][i].seq :
               i \in {i \in Slots : /\ results[Device(h)][i].seq > 0
                                    /\ results[Device(h)][i].frame = given[h][2]}}

\* Under the watcher's mu, perhaps after the wait for its last rows: the
\* image is copied, or the caller has to decode the frame itself.
Search(h) ==
    /\ handle[h] = "search"
    /\ \/ \E n \in Found(h) : asked' = [asked EXCEPT ![h] = n]
       \/ Found(h) = {} /\ UNCHANGED asked
    /\ handle' = [handle EXCEPT ![h] = "decoded"]
    /\ UNCHANGED <<cameraVars, watcherVars, sink, results, begun, alive, given, todo, got,
                   crashed>>

\* The watcher was deleted by another thread's scan, and is used.
UseDeleted(h) ==
    /\ handle[h] = "lost"
    /\ crashed' = TRUE
    /\ UNCHANGED <<cameraVars, watcherVars, sink, results, begun, alive, handleVars>>

(***************************************************************************)
(* spectrum_stream_take.                                                   *)
(***************************************************************************)
GoIdle(h) ==
    /\ handle' = [handle EXCEPT ![h] = "idle"]
    /\ given' = [given EXCEPT ![h] = NoFrame]

\* Under g_mu, found by the image's address (the frame this thread was
\* served) or by its content; not found, the frame is detected whole.
Take(h) ==
    /\ handle[h] = "decoded"
    /\ ListFree
    /\ LET candidates == (Found(h) \cup {asked[h]}) \ {0}
       IN  IF Live(Device(h)) /\ candidates # {}
             THEN /\ \E n \in candidates : asked' = [asked EXCEPT ![h] = n]
                  /\ todo' = [todo EXCEPT ![h] = Devices \ {Device(h)}]
                  /\ handle' = [handle EXCEPT ![h] = "move"]
                  /\ UNCHANGED given
             ELSE /\ GoIdle(h)
                  /\ asked' = [asked EXCEPT ![h] = 0]
                  /\ UNCHANGED todo
    /\ UNCHANGED <<cameraVars, watcherVars, sink, results, begun, alive, got, crashed>>

SinkFree(d) == watcher[d] \notin SinkCalls

\* Mutant: the sink stays attached to its old watcher.
MoveNot(h) ==
    /\ handle[h] = "move"
    /\ \E d \in todo[h] : todo' = [todo EXCEPT ![h] = @ \ {d}]
    /\ UNCHANGED <<cameraVars, watcherVars, sink, results, begun, alive, handle, given, asked,
                   got, crashed>>

\* Off every other watcher, each under its sink_mu.
Move(h) ==
    /\ handle[h] = "move"
    /\ \E d \in todo[h] :
         /\ SinkFree(d)
         /\ sink' = IF sink[d] = h THEN [sink EXCEPT ![d] = NoHandle] ELSE sink
         /\ todo' = [todo EXCEPT ![h] = @ \ {d}]
    /\ UNCHANGED <<cameraVars, watcherVars, results, begun, alive, handle, given, asked, got,
                   crashed>>

Attach(h) ==
    /\ handle[h] = "move"
    /\ todo[h] = {}
    /\ SinkFree(Device(h))
    /\ sink' = [sink EXCEPT ![Device(h)] = h]
    /\ handle' = [handle EXCEPT ![h] = "fetch"]
    /\ UNCHANGED <<cameraVars, watcherVars, results, begun, alive, given, asked, todo, got,
                   crashed>>

\* Mutant: any frame with a result of this sink.
MineUnnumbered(h, r) == r.ctx = h

\* The frame asked for, with a result of this sink.
Mine(h, r) == r.seq = asked[h] /\ r.ctx = h

\* Under the watcher's mu; then g_mu is released.
Fetch(h) ==
    /\ handle[h] = "fetch"
    /\ asked' = [asked EXCEPT ![h] = 0]
    /\ \/ \E i \in Slots :
            LET r == results[Device(h)][i]
            IN  /\ Mine(h, r)
                /\ got' = [got EXCEPT ![h] = r.out]
                /\ results' = [results EXCEPT ![Device(h)][i] = ClearSink(@)]
                /\ handle' = [handle EXCEPT ![h] = "taken"]
                /\ UNCHANGED given
       \/ /\ \A i \in Slots : ~Mine(h, results[Device(h)][i])
          /\ GoIdle(h)
          /\ UNCHANGED <<got, results>>
    /\ UNCHANGED <<cameraVars, watcherVars, sink, begun, alive, todo, crashed>>

\* The frame's tags are the sink's result.
UseResult(h) ==
    /\ handle[h] = "taken"
    /\ GoIdle(h)
    /\ got' = [got EXCEPT ![h] = NoFrame]
    /\ UNCHANGED <<cameraVars, watcherVars, sink, results, begun, alive, asked, todo, crashed>>

(***************************************************************************)
(* ~Napa: spectrum_stream_detach, then the sink is deleted.                *)
(***************************************************************************)
Destroy(h) ==
    /\ handle[h] = "idle"
    /\ h \in alive
    /\ ListFree
    /\ handle' = [handle EXCEPT ![h] = "detach"]
    /\ todo' = [todo EXCEPT ![h] = Devices]
    /\ UNCHANGED <<cameraVars, watcherVars, sink, results, begun, alive, given, asked, got,
                   crashed>>

\* Mutant: a call into the sink is not waited for.
DetachAtOnce(d) == TRUE

\* A call into the sink is waited for.
DetachWaits(d) == SinkFree(d)

\* Off each watcher, under its sink_mu, and out of its results, under its mu:
\* the watcher can put nothing of this sink there in between.
Detach(h) ==
    /\ handle[h] = "detach"
    /\ \E d \in todo[h] :
         /\ DetachWaits(d)
         /\ todo' = [todo EXCEPT ![h] = @ \ {d}]
         /\ sink' = IF sink[d] = h THEN [sink EXCEPT ![d] = NoHandle] ELSE sink
         /\ results' = [results EXCEPT ![d] =
                          [i \in Slots |-> IF @[i].ctx = h THEN ClearSink(@[i]) ELSE @[i]]]
    /\ UNCHANGED <<cameraVars, watcherVars, begun, alive, handle, given, asked, got, crashed>>

Detached(h) ==
    /\ handle[h] = "detach"
    /\ todo[h] = {}
    /\ handle' = [handle EXCEPT ![h] = "idle"]
    /\ alive' = alive \ {h}
    /\ begun' = [begun EXCEPT ![h] = NoFrame]
    /\ UNCHANGED <<cameraVars, watcherVars, sink, results, given, asked, todo, got, crashed>>

-----------------------------------------------------------------------------
CameraStep(d) == FrameBegins(d) \/ FrameEnds(d)

SinkReturns(d) == SinkBegun(d) \/ SinkFed(d) \/ SinkFinished(d) \/ SinkReset(d)

WatcherStep(d) ==
    \/ StartFrame(d)
    \/ NotFed(d)
    \/ SinkBegin(d)
    \/ SinkFeed(d)
    \/ Abort(d)
    \/ ClearSlot(d)
    \/ SinkFinish(d)
    \/ SinkReturns(d)
    \/ Publish(d)
    \/ Dies(d)

HandleStep(h) ==
    \/ Search(h)
    \/ UseDeleted(h)
    \/ Take(h)
    \/ Move(h)
    \/ Attach(h)
    \/ Fetch(h)
    \/ UseResult(h)
    \/ Detach(h)
    \/ Detached(h)

Next ==
    /\ ~crashed
    /\ \/ \E d \in Devices : CameraStep(d) \/ WatcherStep(d)
       \/ \E h \in Handles : DecodeGray(h) \/ HandleStep(h) \/ Destroy(h) \/ Replug(h)

Spec == Init /\ [][Next]_vars

-----------------------------------------------------------------------------
\* Every variable keeps its type.
TypeOK ==
    /\ frames \in 0 .. MaxFrames
    /\ camera \in [Devices -> [frame : 0 .. MaxFrames, arriving : BOOLEAN]]
    /\ shown \in [Devices -> SUBSET (1 .. MaxFrames)]
    /\ watcher \in [Devices -> {"none", "wait", "dead"} \cup Decoding]
    /\ active \in [Devices -> 0 .. MaxFrames]
    /\ fed_ctx \in [Devices -> Handles \cup {NoHandle}]
    /\ sink \in [Devices -> Handles \cup {NoHandle}]
    /\ seq \in [Devices -> 0 .. MaxFrames]
    /\ results \in [Devices -> [Slots -> Result]]
    /\ begun \in [Handles -> Frames \cup {NoFrame}]
    /\ alive \subseteq Handles
    /\ source \in [Handles -> Devices]
    /\ replugs \in 0 .. MaxReplugs
    /\ handle \in [Handles -> {"idle", "search", "lost", "decoded", "taken"} \cup HoldsList]
    /\ given \in [Handles -> Frames \cup {NoFrame}]
    /\ asked \in [Handles -> 0 .. MaxFrames]
    /\ todo \in [Handles -> SUBSET Devices]
    /\ got \in [Handles -> Frames \cup {NoFrame}]
    /\ crashed \in BOOLEAN

\* A sink is called by one watcher at a time, and by none once its handle's
\* detach has returned (stream_decode.h: "on return no watcher calls it any
\* more"): the sink is deleted next.
SinkCalledAlone ==
    \A d \in Devices : watcher[d] \in SinkCalls =>
      /\ Called(d) \in alive
      /\ \A e \in Devices \ {d} : watcher[e] \in SinkCalls => Called(e) # Called(d)

\* A sink is attached to at most one watcher (spectrum_stream_take moves it
\* "from any other watcher").
AttachedOnce ==
    \A d, e \in Devices : d # e /\ sink[d] # NoHandle => sink[d] # sink[e]

\* Of a camera: it is not plugged in again as the device it was before while
\* that device's watcher is in the frame it was in then.  The watcher gives a
\* frame up after 25 ms, and knows a sink by its address only.
NoReturn == \A h \in Handles : source'[h] # source[h] => fed_ctx[source'[h]] # h

\* What a watcher feeds and finishes is the frame the sink was begun with,
\* though the sink may be detached, or another's for a while, in between.
FedAsBegun ==
    \A d \in Devices : watcher[d] \in {"in_feed", "in_finish"} =>
      begun[fed_ctx[d]] = <<d, active[d]>>

\* A result kept with a frame is of that frame and of a sink that is still
\* there, except in the slot that is about to get its image.
ResultsAgree ==
    \A d \in Devices, i \in Slots :
      LET r == results[d][i]
      IN  r.ctx # NoHandle =>
            /\ r.ctx \in alive
            /\ ~(watcher[d] = "publish" /\ i = Slot(d)) => r.out = <<d, r.frame>>

\* A take hands over the tags of the frame it is for; or, while the slot is
\* about to get another frame's image, of that one; or, when the watcher was
\* started anew and counts from the start, of a later frame that has the number
\* asked for by now.
TakesNoOther ==
    [][\A h \in Handles : handle[h] = "fetch" /\ handle'[h] = "taken" =>
         LET d == Device(h)
         IN  \/ got'[h] = given[h]
             \/ watcher[d] = "publish" /\ got'[h] = <<d, active[d]>>
             \/ \E i \in Slots : /\ results[d][i].seq = asked[h]
                                 /\ results[d][i].frame > given[h][2]
                                 /\ got'[h] = <<d, results[d][i].frame>>]_vars

\* stream_decode.h: spectrum_stream_take will "hand over that frame's sink
\* result".
TakesItsFrame == \A h \in Handles : handle[h] = "taken" => got[h] = given[h]

=============================================================================
