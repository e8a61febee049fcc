---------------------------- MODULE GpuDetector ----------------------------
(***************************************************************************)
(* The GPU AprilTag detectors of libspectrum-gpu-apriltag.so               *)
(* (src/detector/GpuDetectorJNI.cc): a fixed array of detector slots that  *)
(* the JVM's threads create, use and destroy through JNI calls, and the    *)
(* four locks those calls take:                                            *)
(*                                                                         *)
(*   alloc_mu           one createGpuDetector or destroyGpuDetector        *)
(*   slots[h].mu        one call on a slot                                 *)
(*   cuda_capture_lock  shared by every CUDA path, exclusive while a CUDA  *)
(*                      graph is recorded; writer-preferring               *)
(*   gpu_mu             one camera's Detect() at a time (optional)         *)
(*                                                                         *)
(* A thread's control state names what it waits for or what it is doing;   *)
(* every step between two lock operations is one action.  The time limit   *)
(* on recording (once a second for a slot) and the switch files are        *)
(* nondeterministic choices, and RecordFailure's process exit is the       *)
(* subject of the module CudaWatchdog.                                     *)
(***************************************************************************)
EXTENDS Naturals, FiniteSets

CONSTANTS
    VisionThreads,  \* the JVM's camera threads: they call the detector
    DecodeThreads,  \* threads that only use CUDA: JPEG decoders, TensorRT
    MaxDetectors,   \* kMaxDetectors
    Masks,          \* detection masks a pipeline may set
    NoMask,         \* mask_mode 0
    Calibrations,   \* camera calibrations setparams may store
    DefaultCalibration,
    NoGpu,          \* s.gpu == nullptr
    NoThread,       \* a free mutex's owner
    Serialised      \* TRUE: PhotonVision uses a handle from one thread at a time

ASSUME SlotsAssumption == MaxDetectors \in Nat \ {0}
ASSUME ThreadsAssumption == /\ VisionThreads \cap DecodeThreads = {}
                            /\ NoThread \notin VisionThreads \cup DecodeThreads
ASSUME ValuesAssumption == /\ NoMask \in Masks
                           /\ DefaultCalibration \in Calibrations
                           /\ NoGpu \notin [mask : Masks, params : Calibrations]
                           /\ Serialised \in BOOLEAN

Threads == VisionThreads \cup DecodeThreads
Slots == 0 .. MaxDetectors - 1

VARIABLES
    slots,     \* DetectorSlot by handle
    alloc_mu,  \* owner of alloc_mu
    slot_mu,   \* owner of each slot's mu
    readers,   \* threads holding cuda_capture_lock shared
    writer,    \* the thread holding it exclusively
    waiting,   \* threads blocked in its lock(): new readers queue behind them
    gpu_mu,    \* owner of gpu_mu
    pc,        \* each thread's control state
    handle,    \* the slot a thread's call is about
    resume,    \* where a thread goes on once it holds the capture lock again
    crashed    \* the process died of a null detector

locks == <<alloc_mu, slot_mu, readers, writer, waiting, gpu_mu>>
vars == <<slots, locks, pc, handle, resume, crashed>>

(***************************************************************************)
(* Control states by the lock the thread waits for, and by the locks it    *)
(* holds.                                                                  *)
(***************************************************************************)
WaitsAlloc == {"create_alloc", "destroy_alloc"}
WaitsSlot == {"create_slot", "destroy_slot", "mask_slot", "params_slot", "frame_slot"}
WaitsShared == {"create_cuda", "destroy_cuda", "frame_cuda", "relock", "cuda_wait"}

Creating == {"create_slot", "create_cuda", "create"}
Destroying == {"destroy_slot", "destroy_cuda", "destroy"}
Recording == {"record_wait", "record", "relock"}
Preparing == {"frame", "mask", "first_graph", "stage_graph", "failed"}
Detecting == {"gpu_lock", "gpu_wait", "detect", "far"}

HoldsAlloc == Creating \cup Destroying
HoldsShared == {"create", "destroy", "cuda"} \cup Preparing \cup Detecting
HoldsSlot == {"create_cuda", "create", "destroy_cuda", "destroy", "frame_cuda"}
                \cup Preparing \cup Recording \cup Detecting

States == {"idle", "cuda_wait", "cuda", "exit"} \cup WaitsAlloc \cup WaitsSlot
             \cup HoldsSlot

Detector == [mask : Masks, params : Calibrations]
DetectorSlot == [in_use : BOOLEAN, td : BOOLEAN, gpu : Detector \cup {NoGpu},
                 mask : Masks, mask_dirty : BOOLEAN, params : Calibrations,
                 needs_rebuild : BOOLEAN]

Init ==
    /\ slots = [h \in Slots |->
                  [in_use |-> FALSE, td |-> FALSE, gpu |-> NoGpu, mask |-> NoMask,
                   mask_dirty |-> FALSE, params |-> DefaultCalibration,
                   needs_rebuild |-> FALSE]]
    /\ alloc_mu = NoThread
    /\ slot_mu = [h \in Slots |-> NoThread]
    /\ readers = {} /\ writer = NoThread /\ waiting = {}
    /\ gpu_mu = NoThread
    /\ pc = [t \in Threads |-> "idle"]
    /\ handle = [t \in Threads |-> 0]
    /\ resume = [t \in Threads |-> "idle"]
    /\ crashed = FALSE

Goto(t, from, to) == pc[t] = from /\ pc' = [pc EXCEPT ![t] = to]

(***************************************************************************)
(* The locks.                                                              *)
(***************************************************************************)

\* Slot mutex of the thread's handle.
LockSlot(t, from, to) ==
    /\ Goto(t, from, to)
    /\ slot_mu[handle[t]] = NoThread
    /\ slot_mu' = [slot_mu EXCEPT ![handle[t]] = t]
    /\ UNCHANGED <<slots, alloc_mu, readers, writer, waiting, gpu_mu, handle, resume, crashed>>

\* Mutant: glibc's default rwlock, which lets readers pass a waiting writer.
LockSharedPassingWriters(t) == writer = NoThread /\ readers' = readers \cup {t}

\* CudaCaptureLock::lock_shared: a reader waits for the writer and for every
\* thread already waiting to write (PTHREAD_RWLOCK_PREFER_WRITER_NONRECURSIVE_NP).
LockShared(t) ==
    /\ writer = NoThread
    /\ waiting = {}
    /\ readers' = readers \cup {t}

\* Mutant: the recorder does not wait for the readers to leave.
LockExclusiveEarly(t) ==
    /\ writer = NoThread
    /\ writer' = t
    /\ waiting' = waiting \ {t}

\* CudaCaptureLock::lock, once it is granted.
LockExclusive(t) ==
    /\ readers = {}
    /\ writer = NoThread
    /\ writer' = t
    /\ waiting' = waiting \ {t}

\* A call returns and its locals go.
GoIdle(t) ==
    /\ pc' = [pc EXCEPT ![t] = "idle"]
    /\ handle' = [handle EXCEPT ![t] = 0]

\* The end of a call that holds the slot and the capture lock shared.
Return(t) ==
    /\ GoIdle(t)
    /\ readers' = readers \ {t}
    /\ slot_mu' = [slot_mu EXCEPT ![handle[t]] = NoThread]
    /\ UNCHANGED <<writer, waiting, resume, crashed>>

(***************************************************************************)
(* A thread calls with a handle.  setMask, setparams and processimage look *)
(* the slot up, Slot(handle), before they take any lock, and return at     *)
(* once if it is free; destroyGpuDetector looks under alloc_mu.            *)
(***************************************************************************)
Slot(h) == slots[h].in_use

InCall(u, h) == pc[u] \in {"destroy_alloc"} \cup WaitsSlot \cup HoldsSlot /\ handle[u] = h

Call(t, h, to) ==
    /\ t \in VisionThreads
    /\ to # "destroy_alloc" => Slot(h)
    /\ Serialised => \A u \in Threads \ {t} : ~InCall(u, h)
    /\ Goto(t, "idle", to)
    /\ handle' = [handle EXCEPT ![t] = h]
    /\ UNCHANGED <<slots, locks, resume, crashed>>

(***************************************************************************)
(* createGpuDetector.                                                      *)
(***************************************************************************)
FreeSlots == {h \in Slots : ~slots[h].in_use}

CallCreate(t) ==
    /\ t \in VisionThreads
    /\ Goto(t, "idle", "create_alloc")
    /\ UNCHANGED <<slots, locks, handle, resume, crashed>>

\* Mutant: without the "all slots in use" return, the loop's end is the handle.
CreatePickUnchecked(t) ==
    /\ Goto(t, "create_alloc", "create_slot")
    /\ alloc_mu = NoThread /\ alloc_mu' = t
    /\ \E h \in FreeSlots \cup {MaxDetectors} : /\ \A g \in FreeSlots : h <= g
                                              /\ handle' = [handle EXCEPT ![t] = h]
    /\ UNCHANGED <<slots, slot_mu, readers, writer, waiting, gpu_mu, resume, crashed>>

\* Takes alloc_mu and picks the first free slot; with none it returns -1.
CreatePick(t) ==
    /\ pc[t] = "create_alloc"
    /\ alloc_mu = NoThread
    /\ IF FreeSlots = {}
         THEN /\ pc' = [pc EXCEPT ![t] = "idle"]
              /\ UNCHANGED <<alloc_mu, handle>>
         ELSE /\ pc' = [pc EXCEPT ![t] = "create_slot"]
              /\ alloc_mu' = t
              /\ \E h \in FreeSlots : /\ \A g \in FreeSlots : h <= g
                                      /\ handle' = [handle EXCEPT ![t] = h]
    /\ UNCHANGED <<slots, slot_mu, readers, writer, waiting, gpu_mu, resume, crashed>>

SharedFor(t, from, to) ==
    /\ Goto(t, from, to)
    /\ LockShared(t)
    /\ UNCHANGED <<slots, alloc_mu, slot_mu, writer, waiting, gpu_mu, handle, resume, crashed>>

\* Mutant: the new detector is taken to have the old one's mask.
BuiltKeepingMask(s) == [s EXCEPT !.gpu = [mask |-> NoMask, params |-> s.params],
                                 !.needs_rebuild = FALSE]

\* Rebuild: the new detector has the slot's calibration and no mask yet.
Built(s) == [s EXCEPT !.gpu = [mask |-> NoMask, params |-> s.params],
                      !.needs_rebuild = FALSE, !.mask_dirty = TRUE]
NotBuilt(s) == [s EXCEPT !.gpu = NoGpu]

\* What createGpuDetector sets before it builds: the previous detector's
\* calibration and mask go.
Fresh(s) == [s EXCEPT !.params = DefaultCalibration, !.td = TRUE,
                      !.mask = NoMask, !.mask_dirty = TRUE]

CreateBody(t) ==
    /\ pc[t] = "create"
    /\ LET s == Fresh(slots[handle[t]])
       IN  \E r \in {Built(s), [NotBuilt(s) EXCEPT !.needs_rebuild = TRUE]} :
             slots' = [slots EXCEPT ![handle[t]] = [r EXCEPT !.in_use = TRUE]]
    /\ alloc_mu' = NoThread
    /\ Return(t)
    /\ UNCHANGED gpu_mu

(***************************************************************************)
(* destroyGpuDetector.                                                     *)
(***************************************************************************)
\* Takes alloc_mu and looks again: a handle destroyed meanwhile returns.
DestroyCheck(t) ==
    /\ pc[t] = "destroy_alloc"
    /\ alloc_mu = NoThread
    /\ IF Slot(handle[t])
         THEN /\ Goto(t, "destroy_alloc", "destroy_slot")
              /\ alloc_mu' = t
              /\ UNCHANGED handle
         ELSE GoIdle(t) /\ UNCHANGED alloc_mu
    /\ UNCHANGED <<slots, slot_mu, readers, writer, waiting, gpu_mu, resume, crashed>>

\* Mutant: the slot is emptied but stays in use.
DestroyBodyInUse(t) ==
    /\ pc[t] = "destroy"
    /\ slots' = [slots EXCEPT ![handle[t]] = [@ EXCEPT !.gpu = NoGpu, !.td = FALSE]]
    /\ alloc_mu' = NoThread
    /\ Return(t)
    /\ UNCHANGED gpu_mu

DestroyBody(t) ==
    /\ pc[t] = "destroy"
    /\ slots' = [slots EXCEPT ![handle[t]] =
                   [@ EXCEPT !.gpu = NoGpu, !.td = FALSE, !.in_use = FALSE]]
    /\ alloc_mu' = NoThread
    /\ Return(t)
    /\ UNCHANGED gpu_mu

(***************************************************************************)
(* setMask and setparams: under the slot's mutex alone.                    *)
(***************************************************************************)
\* Mutant: the slot's mutex is not taken.
UnderNoLock(t, from, s) ==
    /\ pc[t] = from
    /\ slots' = [slots EXCEPT ![handle[t]] = s]
    /\ GoIdle(t)
    /\ UNCHANGED <<locks, resume, crashed>>

UnderSlot(t, from, s) ==
    /\ pc[t] = from
    /\ slot_mu[handle[t]] = NoThread
    /\ slots' = [slots EXCEPT ![handle[t]] = s]
    /\ GoIdle(t)
    /\ UNCHANGED <<locks, resume, crashed>>

SetMask(t) ==
    LET s == slots[handle[t]]
    IN  \E m \in Masks :
          UnderSlot(t, "mask_slot",
                    IF m = s.mask THEN s ELSE [s EXCEPT !.mask = m, !.mask_dirty = TRUE])

\* Mutant: the calibration is stored and no rebuild asked for.
SetParamsOnly(t) ==
    \E p \in Calibrations :
      UnderSlot(t, "params_slot", [slots[handle[t]] EXCEPT !.params = p])

SetParams(t) ==
    \E p \in Calibrations :
      UnderSlot(t, "params_slot",
                [slots[handle[t]] EXCEPT !.params = p, !.needs_rebuild = TRUE])

(***************************************************************************)
(* processimage.                                                           *)
(***************************************************************************)

\* RecordFailure: the next frame rebuilds the detector.
Failed(s) == [s EXCEPT !.needs_rebuild = TRUE]

\* Rebuild at a new frame size, after a failure or new parameters.  A slot
\* destroyed since Slot() has no td: a build that gets that far, and the
\* line after it, read s->td.
FrameRebuild(t) ==
    /\ pc[t] = "frame"
    /\ LET s == slots[handle[t]]
       IN  \/ /\ s.td
              /\ slots' = [slots EXCEPT ![handle[t]] = Built(s)]
              /\ pc' = [pc EXCEPT ![t] = "mask"]
              /\ UNCHANGED <<locks, handle, resume, crashed>>
           \/ /\ slots' = [slots EXCEPT ![handle[t]] = Failed(NotBuilt(s))]
              /\ Return(t)
              /\ UNCHANGED <<alloc_mu, gpu_mu>>
           \/ /\ ~s.td
              /\ crashed' = TRUE
              /\ UNCHANGED <<slots, locks, pc, handle, resume>>

FrameKeep(t) ==
    /\ slots[handle[t]].gpu # NoGpu
    /\ ~slots[handle[t]].needs_rebuild
    /\ Goto(t, "frame", "mask")
    /\ UNCHANGED <<slots, locks, handle, resume, crashed>>

\* ApplyMaskToDetector, when the mask is dirty; the upload may throw.
ApplyMask(t) ==
    /\ pc[t] = "mask"
    /\ LET s == slots[handle[t]]
           clean == [s EXCEPT !.mask_dirty = FALSE]
       IN  \/ /\ slots' = [slots EXCEPT ![handle[t]] =
                             IF s.mask_dirty THEN [clean EXCEPT !.gpu.mask = s.mask] ELSE s]
              /\ pc' = [pc EXCEPT ![t] = "first_graph"]
           \/ /\ s.mask_dirty
              /\ slots' = [slots EXCEPT ![handle[t]] = clean]
              /\ pc' = [pc EXCEPT ![t] = "failed"]
    /\ UNCHANGED <<locks, handle, resume, crashed>>

NextStage(at) == IF at = "first_graph" THEN "stage_graph" ELSE "gpu_lock"

\* No graph wanted, or one was recorded less than a second ago.
SkipGraph(t) ==
    /\ pc[t] \in {"first_graph", "stage_graph"}
    /\ pc' = [pc EXCEPT ![t] = NextStage(pc[t])]
    /\ UNCHANGED <<slots, locks, handle, resume, crashed>>

\* cuda.unlock(), then cuda_capture_lock.lock(): the thread queues.
AskExclusive(t) ==
    /\ pc[t] \in {"first_graph", "stage_graph"}
    /\ pc' = [pc EXCEPT ![t] = "record_wait"]
    /\ resume' = [resume EXCEPT ![t] = NextStage(pc[t])]
    /\ readers' = readers \ {t}
    /\ waiting' = waiting \cup {t}
    /\ UNCHANGED <<slots, alloc_mu, slot_mu, writer, gpu_mu, handle, crashed>>

StartRecord(t) ==
    /\ Goto(t, "record_wait", "record")
    /\ LockExclusive(t)
    /\ UNCHANGED <<slots, alloc_mu, slot_mu, readers, gpu_mu, handle, resume, crashed>>

\* The recording ends or throws; either way the exclusive lock is released.
EndRecord(t) ==
    /\ Goto(t, "record", "relock")
    /\ writer' = NoThread
    /\ \E to \in {resume[t], "failed"} : resume' = [resume EXCEPT ![t] = to]
    /\ UNCHANGED <<slots, alloc_mu, slot_mu, readers, waiting, gpu_mu, handle, crashed>>

\* cuda.lock() again, and on to what is left of the frame.
Relock(t) ==
    /\ Goto(t, "relock", resume[t])
    /\ LockShared(t)
    /\ resume' = [resume EXCEPT ![t] = "idle"]
    /\ UNCHANGED <<slots, alloc_mu, slot_mu, writer, waiting, gpu_mu, handle, crashed>>

\* GpuLockOn: the switch decides, once no recording is left to do.
ChooseGpuLock(t) ==
    /\ pc[t] = "gpu_lock"
    /\ \E to \in {"gpu_wait", "detect"} : pc' = [pc EXCEPT ![t] = to]
    /\ UNCHANGED <<slots, locks, handle, resume, crashed>>

\* Mutant: the GPU lock is taken before the stage graphs are recorded.
TakeGpuLockFirst(t) ==
    /\ Goto(t, "gpu_wait", "stage_graph")
    /\ gpu_mu = NoThread
    /\ gpu_mu' = t
    /\ UNCHANGED <<slots, alloc_mu, slot_mu, readers, writer, waiting, handle, resume, crashed>>

TakeGpuLock(t) ==
    /\ Goto(t, "gpu_wait", "detect")
    /\ gpu_mu = NoThread
    /\ gpu_mu' = t
    /\ UNCHANGED <<slots, alloc_mu, slot_mu, readers, writer, waiting, handle, resume, crashed>>

\* Mutant: only a frame with detections gives gpu_mu back.
DetectKeepingGpuLock(t) ==
    /\ pc[t] = "detect"
    /\ UNCHANGED alloc_mu
    /\ \/ /\ Goto(t, "detect", "far")
          /\ gpu_mu' = IF gpu_mu = t THEN NoThread ELSE gpu_mu
          /\ UNCHANGED <<slots, slot_mu, readers, writer, waiting, handle, resume, crashed>>
       \/ /\ slots' = [slots EXCEPT ![handle[t]] = Failed(@)]
          /\ Return(t)
          /\ UNCHANGED gpu_mu

\* Detect(): detections (then perhaps the far search), a scene too busy for
\* the detector's buffers (skipped, nothing broken), or a failure.
Detect(t) ==
    /\ pc[t] = "detect"
    /\ gpu_mu' = IF gpu_mu = t THEN NoThread ELSE gpu_mu
    /\ UNCHANGED alloc_mu
    /\ \/ /\ Goto(t, "detect", "far")
          /\ UNCHANGED <<slots, slot_mu, readers, writer, waiting, handle, resume, crashed>>
       \/ Return(t) /\ UNCHANGED slots
       \/ /\ slots' = [slots EXCEPT ![handle[t]] = Failed(@)]
          /\ Return(t)

\* The far search, whether it throws or not: this frame's detections stand.
EndFarSearch(t) ==
    /\ pc[t] = "far"
    /\ Return(t)
    /\ UNCHANGED <<slots, alloc_mu, gpu_mu>>

\* The catch block for everything before the far search.
FrameFailed(t) ==
    /\ pc[t] = "failed"
    /\ slots' = [slots EXCEPT ![handle[t]] = Failed(@)]
    /\ Return(t)
    /\ UNCHANGED <<alloc_mu, gpu_mu>>

(***************************************************************************)
(* The other CUDA paths: decodeMjpegGray and decodeMjpegBgr on NVJPG,      *)
(* TensorRT's create, detect and destroy; and the end of a decode thread,  *)
(* whose ~NvjpgThread destroys its decoder.                                *)
(***************************************************************************)
CallCuda(t) ==
    /\ t \in DecodeThreads
    /\ Goto(t, "idle", "cuda_wait")
    /\ UNCHANGED <<slots, locks, handle, resume, crashed>>

CudaDone(t) ==
    /\ Goto(t, "cuda", "idle")
    /\ readers' = readers \ {t}
    /\ UNCHANGED <<slots, alloc_mu, slot_mu, writer, waiting, gpu_mu, handle, resume, crashed>>

ThreadEnds(t) ==
    /\ t \in DecodeThreads
    /\ Goto(t, "idle", "exit")
    /\ UNCHANGED <<slots, locks, handle, resume, crashed>>

\* The camera's next thread (the same name here) starts with no decoder.
DecoderDestroyed(t) ==
    /\ Goto(t, "exit", "idle")
    /\ UNCHANGED <<slots, locks, handle, resume, crashed>>

-----------------------------------------------------------------------------
Calls(t) ==
    \/ CallCreate(t)
    \/ \E h \in Slots, to \in {"destroy_alloc", "mask_slot", "params_slot", "frame_slot"} :
         Call(t, h, to)
    \/ CallCuda(t)
    \/ ThreadEnds(t)

CreateStep(t) ==
    \/ CreatePick(t)
    \/ LockSlot(t, "create_slot", "create_cuda")
    \/ SharedFor(t, "create_cuda", "create")
    \/ CreateBody(t)

DestroyStep(t) ==
    \/ DestroyCheck(t)
    \/ LockSlot(t, "destroy_slot", "destroy_cuda")
    \/ SharedFor(t, "destroy_cuda", "destroy")
    \/ DestroyBody(t)

FrameStep(t) ==
    \/ LockSlot(t, "frame_slot", "frame_cuda")
    \/ SharedFor(t, "frame_cuda", "frame")
    \/ FrameRebuild(t)
    \/ FrameKeep(t)
    \/ ApplyMask(t)
    \/ SkipGraph(t)
    \/ AskExclusive(t)
    \/ StartRecord(t)
    \/ EndRecord(t)
    \/ Relock(t)
    \/ ChooseGpuLock(t)
    \/ TakeGpuLock(t)
    \/ Detect(t)
    \/ EndFarSearch(t)
    \/ FrameFailed(t)

CudaStep(t) ==
    \/ SharedFor(t, "cuda_wait", "cuda")
    \/ CudaDone(t)
    \/ DecoderDestroyed(t)

\* What a thread does once its call has started.
Step(t) == CreateStep(t) \/ DestroyStep(t) \/ SetMask(t) \/ SetParams(t)
             \/ FrameStep(t) \/ CudaStep(t)

Next == /\ ~crashed
        /\ \E t \in Threads : Calls(t) \/ Step(t)

Spec == Init /\ [][Next]_vars

\* A thread that can take a lock infinitely often gets it: the kernel wakes
\* a mutex's waiters, and glibc admits every queued reader when the last
\* writer leaves.  Nothing obliges a caller to call.
FairSpec == Spec /\ \A t \in Threads : SF_vars(~crashed /\ Step(t))

-----------------------------------------------------------------------------
\* Every variable keeps its type.
TypeOK ==
    /\ slots \in [Slots -> DetectorSlot]
    /\ alloc_mu \in Threads \cup {NoThread}
    /\ slot_mu \in [Slots -> Threads \cup {NoThread}]
    /\ readers \subseteq Threads
    /\ writer \in Threads \cup {NoThread}
    /\ waiting \subseteq Threads
    /\ gpu_mu \in Threads \cup {NoThread}
    /\ pc \in [Threads -> States]
    /\ handle \in [Threads -> Slots]
    /\ resume \in [Threads -> {"idle", "stage_graph", "gpu_lock", "failed"}]
    /\ crashed \in BOOLEAN

\* A slot is written only by a step of the thread that holds its mutex, or
\* that finds it free: nobody changes a detector under a frame that uses it,
\* not even while that frame has given up the capture lock to record a graph
\* (l.1587-1611 of GpuDetectorJNI.cc).
OnlyHolderWrites ==
    [][\A t \in Threads :
         /\ pc[t] \in HoldsSlot
         /\ pc'[t] = pc[t]
         => slots'[handle[t]] = slots[handle[t]]]_vars

\* No thread is in a CUDA path while another records a graph
\* (CudaCaptureLock): the recording would break that call, or be broken.
CaptureExclusive ==
    \A t, u \in Threads : pc[t] = "record" /\ u # t => pc[u] \notin HoldsShared \cup {"record"}

\* The threads whose locks keep t from going on.
BlockedBy(t) ==
    CASE pc[t] \in WaitsAlloc -> {alloc_mu}
      [] pc[t] \in WaitsSlot -> {slot_mu[handle[t]]}
      [] pc[t] \in WaitsShared -> waiting \cup {writer}
      [] pc[t] = "record_wait" -> readers \cup {writer}
      [] pc[t] = "gpu_wait" -> {gpu_mu}
      [] OTHER -> {}

\* The locks never make a group of threads wait for each other.  The order
\* is alloc_mu, slot, capture lock, gpu_mu, and a thread that records gives up
\* its shared lock first; l.1613-1615 says what would happen if gpu_mu were
\* taken before the recording.
NoCircularWait ==
    \A S \in SUBSET Threads : S # {} => \E t \in S : BlockedBy(t) \cap S = {}

\* A slot whose detector differs from what setMask and setparams last asked
\* for remembers that it does.  The exception is a frame whose mask upload
\* threw (mask_dirty is already clear): its catch block asks for a rebuild.
ChangesRemembered ==
    \A h \in Slots :
      LET s == slots[h]
      IN  /\ s.gpu # NoGpu
          /\ ~s.needs_rebuild
          /\ \A t \in Threads : ~(pc[t] = "failed" /\ handle[t] = h)
          => s.gpu.params = s.params /\ (s.mask_dirty \/ s.gpu.mask = s.mask)

\* A frame is searched with the mask and the calibration its camera was last
\* given: no setting is lost to a rebuild, a failed upload or a slot's reuse.
DetectIsCurrent ==
    \A t \in Threads : pc[t] = "detect" =>
      LET s == slots[handle[t]]
      IN  s.in_use /\ s.gpu = [mask |-> s.mask, params |-> s.params]

\* No frame reaches a slot whose detector is gone (l.16: "a per-slot mutex
\* stops destroy/setparams racing processimage").
NeverNullDetector == ~crashed

\* CudaCaptureLock's comment: "every CUDA path in this process holds this
\* lock shared", so none runs during a recording.
NoCudaWhileRecording ==
    \A t, u \in Threads : pc[t] = "record" /\ u # t => pc[u] \notin HoldsShared \cup {"exit"}

\* A thread that waits to record gets to, however the others keep taking the
\* lock shared (CudaCaptureLock: "glibc's default would let a waiting
\* recorder starve").
RecorderNotStarved ==
    \A t \in VisionThreads : pc[t] = "record_wait" ~> pc[t] = "record" \/ crashed

\* Every call returns to its caller, unless a null detector ends the process.
EveryCallReturns == \A t \in Threads : pc[t] # "idle" ~> pc[t] = "idle" \/ crashed

=============================================================================
