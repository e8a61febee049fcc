---------------------------- MODULE CudaWatchdog ----------------------------
(***************************************************************************)
(* When the GPU detector gives up (RecordFailure in                        *)
(* src/detector/GpuDetectorJNI.cc).  Every failed frame is skipped and its *)
(* detector rebuilt; a sticky error breaks the process's CUDA context,     *)
(* which only a new process recovers, so a camera whose frames keep        *)
(* failing on a broken context ends the process and systemd starts it      *)
(* again.                                                                  *)
(*                                                                         *)
(* The count of failures is kept only up to kMinFailures and times only up *)
(* to kMaxFailingTime: the code compares with nothing larger.  A frame's   *)
(* locks are the subject of GpuDetector.                                   *)
(***************************************************************************)
EXTENDS Naturals

CONSTANTS
    Cameras,         \* the cameras, each with a detector slot
    NoCamera,
    kMinFailures,
    kMaxFailingTime, \* in ticks
    MaxCreations     \* bound: detectors created anew in a process's life

ASSUME CamerasAssumption == NoCamera \notin Cameras
ASSUME LimitsAssumption == /\ kMinFailures \in Nat \ {0}
                           /\ kMaxFailingTime \in Nat \ {0}
                           /\ MaxCreations \in Nat

VARIABLES
    context_ok,  \* no sticky error in this process's CUDA context
    exited_by,   \* the camera whose frame ended the process, or NoCamera
    consecutive_failures,
    failing_for, \* ticks since the slot's first_failure
    creations,
    seen_ok_ago, \* history: ticks since a camera's frame last found the context healthy
    broken_for   \* history: ticks since the context broke

vars == <<context_ok, exited_by, consecutive_failures, failing_for, creations,
          seen_ok_ago, broken_for>>

Running == exited_by = NoCamera

\* A new process: first_failure is the steady clock's zero, long ago.
Init ==
    /\ context_ok = TRUE
    /\ exited_by = NoCamera
    /\ consecutive_failures = [c \in Cameras |-> 0]
    /\ failing_for = [c \in Cameras |-> kMaxFailingTime]
    /\ creations = 0
    /\ seen_ok_ago = [c \in Cameras |-> 0]
    /\ broken_for = 0

Tick ==
    LET Later(n) == IF n < kMaxFailingTime THEN n + 1 ELSE n
    IN  /\ Running
        /\ failing_for' = [c \in Cameras |-> Later(failing_for[c])]
        /\ seen_ok_ago' = [c \in Cameras |-> Later(seen_ok_ago[c])]
        /\ broken_for' = IF context_ok THEN 0 ELSE Later(broken_for)
        /\ UNCHANGED <<context_ok, exited_by, consecutive_failures, creations>>

\* A sticky error: an illegal address or a failed launch on any camera.
ContextBreaks ==
    /\ Running
    /\ context_ok
    /\ context_ok' = FALSE
    /\ UNCHANGED <<exited_by, consecutive_failures, failing_for, creations,
                   seen_ok_ago, broken_for>>

\* createGpuDetector gives the camera's slot a new detector.
Create(c) ==
    /\ Running
    /\ creations < MaxCreations
    /\ creations' = creations + 1
    /\ consecutive_failures' = [consecutive_failures EXCEPT ![c] = 0]
    /\ UNCHANGED <<context_ok, exited_by, failing_for, seen_ok_ago, broken_for>>

\* Detect() returned detections.
FrameDetected(c) ==
    /\ Running
    /\ context_ok
    /\ consecutive_failures' = [consecutive_failures EXCEPT ![c] = 0]
    /\ seen_ok_ago' = [seen_ok_ago EXCEPT ![c] = 0]
    /\ UNCHANGED <<context_ok, exited_by, failing_for, creations, broken_for>>

\* Mutant: a failure on a healthy context leaves it as it was.
FirstFailureKept(c, failures) == IF failures = 0 THEN 0 ELSE failing_for[c]
\* Mutant: the first failure after a success does not set it.
FirstFailureStale(c, failures) == IF context_ok THEN 0 ELSE failing_for[c]
\* Mutant: every failure sets it.
FirstFailureLast(c, failures) == 0

\* Ticks since first_failure after a failure that follows failures others.
FirstFailure(c, failures) == IF failures = 0 \/ context_ok THEN 0 ELSE failing_for[c]

\* A frame or its rebuild failed.  cudaDeviceSynchronize tells whether the
\* context is broken; while it is not, the time starts again.
RecordFailure(c) ==
    LET before == consecutive_failures[c]
        failures == IF before < kMinFailures THEN before + 1 ELSE before
        failing == FirstFailure(c, before)
    IN  /\ Running
        /\ consecutive_failures' = [consecutive_failures EXCEPT ![c] = failures]
        /\ failing_for' = [failing_for EXCEPT ![c] = failing]
        /\ seen_ok_ago' = IF context_ok THEN [seen_ok_ago EXCEPT ![c] = 0] ELSE seen_ok_ago
        /\ exited_by' = IF /\ ~context_ok
                           /\ failures >= kMinFailures
                           /\ failing >= kMaxFailingTime
                          THEN c ELSE NoCamera
        /\ UNCHANGED <<context_ok, creations, broken_for>>

\* A frame on a working context may be detected, fail, or be too busy for the
\* detector's buffers, which changes nothing here; on a broken one it fails.
Frame(c) == FrameDetected(c) \/ RecordFailure(c)

\* systemd: Restart=always, StartLimitIntervalSec=0.
Restart ==
    /\ ~Running
    /\ context_ok' = TRUE
    /\ exited_by' = NoCamera
    /\ consecutive_failures' = [c \in Cameras |-> 0]
    /\ failing_for' = [c \in Cameras |-> kMaxFailingTime]
    /\ creations' = 0
    /\ seen_ok_ago' = [c \in Cameras |-> 0]
    /\ broken_for' = 0

Next ==
    \/ Tick
    \/ ContextBreaks
    \/ \E c \in Cameras : Create(c) \/ Frame(c)
    \/ Restart

Spec == Init /\ [][Next]_vars

\* Time passes, cameras send frames and systemd restarts what exited; no
\* fairness for errors and for the detectors' creation.
FairSpec ==
    /\ Spec
    /\ WF_vars(Tick)
    /\ \A c \in Cameras : WF_vars(Frame(c))
    /\ WF_vars(Restart)

-----------------------------------------------------------------------------
Ticks == 0 .. kMaxFailingTime

\* Every variable keeps its type.
TypeOK ==
    /\ context_ok \in BOOLEAN
    /\ exited_by \in Cameras \cup {NoCamera}
    /\ consecutive_failures \in [Cameras -> 0 .. kMinFailures]
    /\ failing_for \in [Cameras -> Ticks]
    /\ creations \in 0 .. MaxCreations
    /\ seen_ok_ago \in [Cameras -> Ticks]
    /\ broken_for \in Ticks

\* The process ends only on a broken context, and only by a camera whose
\* frames have not found the context healthy for kMaxFailingTime: a camera
\* that fails on a healthy context never causes a restart (the comment above
\* RecordFailure), however often it does and whatever happens to it later.
ExitsOnlyWhenBlind ==
    ~Running => ~context_ok /\ seen_ok_ago[exited_by] = kMaxFailingTime

\* The time a slot counts never reaches back past the last frame of the
\* camera that found the context healthy, while it has failures to count.
CountsNoHealthyTime ==
    \A c \in Cameras : consecutive_failures[c] > 0 => failing_for[c] <= seen_ok_ago[c]

\* The file's header (l.19-22): "only after the CUDA context stays broken (sticky error) for
\* kMaxFailingTime do we exit".
ExitsOnlyAfterSustainedBreak == ~Running => broken_for = kMaxFailingTime

\* A broken context is always recovered from.
BrokenIsRestarted == ~context_ok ~> context_ok

=============================================================================
