------------------------- MODULE CudaWatchdogProofs -------------------------
(***************************************************************************)
(* Proofs about CudaWatchdog, for any number of cameras and any limits.    *)
(***************************************************************************)
EXTENDS CudaWatchdog, TLAPS

Inv == TypeOK /\ CountsNoHealthyTime /\ ExitsOnlyWhenBlind

\* The initial state satisfies the invariant.
LEMMA InitInv == Init => Inv
BY LimitsAssumption
DEF Init, Inv, TypeOK, Ticks, CountsNoHealthyTime, ExitsOnlyWhenBlind, Running

\* A failure that ends the process follows others, all since the camera last
\* found the context healthy.
LEMMA RecordFailureInv ==
    ASSUME Inv, NEW c \in Cameras, RecordFailure(c)
    PROVE  Inv'
<1> DEFINE before == consecutive_failures[c]
           failures == IF before < kMinFailures THEN before + 1 ELSE before
           failing == FirstFailure(c, before)
<1> USE LimitsAssumption, CamerasAssumption DEF Inv, TypeOK, Ticks
<1>1. /\ before \in 0 .. kMinFailures
      /\ failures \in 1 .. kMinFailures
      /\ failing \in 0 .. kMaxFailingTime
  BY DEF FirstFailure
<1>2. /\ consecutive_failures' = [consecutive_failures EXCEPT ![c] = failures]
      /\ failing_for' = [failing_for EXCEPT ![c] = failing]
      /\ seen_ok_ago' = IF context_ok THEN [seen_ok_ago EXCEPT ![c] = 0] ELSE seen_ok_ago
      /\ UNCHANGED <<context_ok, creations, broken_for>>
  BY DEF RecordFailure
<1>3. exited_by' = IF ~context_ok /\ failures >= kMinFailures /\ failing >= kMaxFailingTime
                     THEN c ELSE NoCamera
  BY DEF RecordFailure
<1>4. failing <= seen_ok_ago'[c]
  BY <1>2 DEF FirstFailure, CountsNoHealthyTime
<1> HIDE DEF failures, failing
<1>5. TypeOK'
  BY <1>1, <1>2, <1>3
<1>6. CountsNoHealthyTime'
  BY <1>1, <1>2, <1>4 DEF CountsNoHealthyTime
<1>7. ExitsOnlyWhenBlind'
  BY <1>1, <1>2, <1>3, <1>4, <1>5 DEF ExitsOnlyWhenBlind, Running
<1> QED
  BY <1>5, <1>6, <1>7

\* Every step preserves the invariant.
LEMMA InvStep ==
    ASSUME Inv, [Next]_vars
    PROVE  Inv'
<1> USE LimitsAssumption, CamerasAssumption
    DEF Inv, TypeOK, Ticks, CountsNoHealthyTime, ExitsOnlyWhenBlind, Running
<1>1. CASE Tick
  BY <1>1 DEF Tick
<1>2. CASE ContextBreaks
  BY <1>2 DEF ContextBreaks
<1>3. ASSUME NEW c \in Cameras, Create(c)
      PROVE  Inv'
  BY <1>3 DEF Create
<1>4. ASSUME NEW c \in Cameras, FrameDetected(c)
      PROVE  Inv'
  BY <1>4 DEF FrameDetected
<1>5. ASSUME NEW c \in Cameras, RecordFailure(c)
      PROVE  Inv'
  BY <1>5, RecordFailureInv
<1>6. CASE Restart
  BY <1>6 DEF Restart
<1>7. CASE UNCHANGED vars
  BY <1>7 DEF vars
<1> QED
  BY <1>1, <1>2, <1>3, <1>4, <1>5, <1>6, <1>7 DEF Next, Frame

\* The invariant holds in every reachable state.
THEOREM Invariance == Spec => []Inv
<1>1. Init => Inv
  BY InitInv
<1>2. Inv /\ [Next]_vars => Inv'
  BY InvStep
<1> QED
  BY <1>1, <1>2, PTL DEF Spec

\* No restart without kMaxFailingTime of the camera's frames finding nothing
\* healthy, and none on a healthy context.
THEOREM ExitIsJustified == Spec => []ExitsOnlyWhenBlind
<1>1. Inv => ExitsOnlyWhenBlind
  BY DEF Inv
<1> QED
  BY <1>1, Invariance, PTL

\* The time a slot counts as failing holds no moment its camera found the
\* context healthy.
THEOREM NoHealthyTimeCounted == Spec => []CountsNoHealthyTime
<1>1. Inv => CountsNoHealthyTime
  BY DEF Inv
<1> QED
  BY <1>1, Invariance, PTL

=============================================================================
