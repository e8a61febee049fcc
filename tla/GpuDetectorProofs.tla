------------------------- MODULE GpuDetectorProofs -------------------------
(***************************************************************************)
(* Proofs about GpuDetector, for any number of threads, slots, masks and   *)
(* calibrations, and whether or not the callers use a handle one at a      *)
(* time.                                                                   *)
(***************************************************************************)
EXTENDS GpuDetector, TLAPS

\* Each lock is held, or waited for, by exactly the threads whose control
\* state says so, and the capture lock has no reader beside a writer.
LockInv ==
    /\ \A t \in Threads : alloc_mu = t <=> pc[t] \in HoldsAlloc
    /\ \A t \in Threads, h \in Slots : slot_mu[h] = t <=> pc[t] \in HoldsSlot /\ handle[t] = h
    /\ \A t \in Threads : t \in readers <=> pc[t] \in HoldsShared
    /\ \A t \in Threads : writer = t <=> pc[t] = "record"
    /\ \A t \in Threads : t \in waiting <=> pc[t] = "record_wait"
    /\ \A t \in Threads : gpu_mu = t => pc[t] = "detect"
    /\ writer # NoThread => readers = {}
    /\ \A t \in Threads : pc[t] \in Recording => resume[t] # "idle"

\* A frame from here on has a detector and needs no other; from Masked on, it
\* has also given that detector its mask.
Masked == Recording \cup {"first_graph", "stage_graph", "gpu_lock", "gpu_wait", "detect"}
Ready == {"mask"} \cup Masked

SettingsInv ==
    /\ \A h \in Slots : slots[h].td = slots[h].in_use
    /\ \A h \in Slots : slots[h].gpu # NoGpu => slots[h].in_use
    /\ \A t \in Threads : pc[t] \in Ready =>
         /\ slots[handle[t]].gpu # NoGpu
         /\ ~slots[handle[t]].needs_rebuild
    /\ \A t \in Threads : pc[t] \in Masked => ~slots[handle[t]].mask_dirty
    /\ ChangesRemembered

Inv == TypeOK /\ LockInv /\ SettingsInv

\* A call that is not running has a slot's index in its handle: 0.
LEMMA ZeroSlot == 0 \in Slots
BY SlotsAssumption DEF Slots

\* A free mutex is owned by no thread.
LEMMA NoThreadIsNone == NoThread \notin Threads
BY ThreadsAssumption DEF Threads

\* nullptr is no detector.
LEMMA DetectorsAreNotNone == NoGpu \notin Detector
BY ValuesAssumption DEF Detector

\* The initial state satisfies the invariant.
LEMMA InitInv == Init => Inv
<1> SUFFICES ASSUME Init PROVE Inv
  OBVIOUS
<1> USE ZeroSlot, NoThreadIsNone, ValuesAssumption DEF Init
<1>1. TypeOK
  BY DEF TypeOK, States, DetectorSlot
<1>2. LockInv
  BY DEF LockInv, HoldsAlloc, HoldsSlot, HoldsShared, Creating, Destroying, Recording,
         Preparing, Detecting
<1>3. SettingsInv
  BY DEF SettingsInv, ChangesRemembered, Ready, Masked, Recording
<1> QED
  BY <1>1, <1>2, <1>3 DEF Inv

-----------------------------------------------------------------------------
(***************************************************************************)
(* Types.  Every action stores values of the right type; ApplyMask writes  *)
(* into a detector that SettingsInv says is there.                         *)
(***************************************************************************)
\* What createGpuDetector, processimage, setMask and setparams store is a slot.
LEMMA SlotValues ==
    ASSUME NEW s \in DetectorSlot
    PROVE  /\ Built(s) \in DetectorSlot
           /\ NotBuilt(s) \in DetectorSlot
           /\ Fresh(s) \in DetectorSlot
           /\ Failed(s) \in DetectorSlot
           /\ [s EXCEPT !.gpu = NoGpu, !.td = FALSE, !.in_use = FALSE] \in DetectorSlot
           /\ [s EXCEPT !.mask_dirty = FALSE] \in DetectorSlot
           /\ \A m \in Masks : [s EXCEPT !.mask = m, !.mask_dirty = TRUE] \in DetectorSlot
           /\ \A p \in Calibrations :
                [s EXCEPT !.params = p, !.needs_rebuild = TRUE] \in DetectorSlot
           /\ s.gpu # NoGpu =>
                [[s EXCEPT !.mask_dirty = FALSE] EXCEPT !.gpu.mask = s.mask] \in DetectorSlot
BY ValuesAssumption DEF DetectorSlot, Detector, Built, NotBuilt, Fresh, Failed

\* Every step stores values of the right type.
LEMMA TypeStep ==
    ASSUME Inv, ~crashed, NEW t \in Threads, Calls(t) \/ Step(t)
    PROVE  TypeOK'
<1> USE ZeroSlot DEF Inv, TypeOK, Goto, GoIdle, locks, States, WaitsAlloc, WaitsSlot, HoldsSlot,
             Preparing, Recording, Detecting
<1>0. slots[handle[t]] \in DetectorSlot
  OBVIOUS
<1>1. CASE CallCreate(t)
  BY <1>1 DEF CallCreate
<1>2. ASSUME NEW h \in Slots,
             NEW to \in {"destroy_alloc", "mask_slot", "params_slot", "frame_slot"},
             Call(t, h, to)
      PROVE  TypeOK'
  BY <1>2 DEF Call
<1>3. CASE CallCuda(t)
  BY <1>3 DEF CallCuda
<1>4. CASE ThreadEnds(t)
  BY <1>4 DEF ThreadEnds
<1>5. CASE CreatePick(t)
  BY <1>5 DEF CreatePick, FreeSlots
<1>6. ASSUME NEW from, NEW to \in States, LockSlot(t, from, to)
      PROVE  TypeOK'
  BY <1>6 DEF LockSlot
<1>7. ASSUME NEW from, NEW to \in States, SharedFor(t, from, to)
      PROVE  TypeOK'
  BY <1>7 DEF SharedFor, LockShared
<1>8. CASE CreateBody(t)
  <2> DEFINE s == Fresh(slots[handle[t]])
  <2>1. PICK r \in {Built(s), [NotBuilt(s) EXCEPT !.needs_rebuild = TRUE]} :
          slots' = [slots EXCEPT ![handle[t]] = [r EXCEPT !.in_use = TRUE]]
    BY <1>8 DEF CreateBody
  <2>2. s \in DetectorSlot
    BY <1>0, SlotValues
  <2>3. Built(s) \in DetectorSlot /\ NotBuilt(s) \in DetectorSlot
    BY <2>2, SlotValues
  <2>4. [r EXCEPT !.in_use = TRUE] \in DetectorSlot
    BY <2>1, <2>3 DEF DetectorSlot
  <2> QED
    BY <1>8, <2>1, <2>4 DEF CreateBody, Return
<1>9. CASE DestroyCheck(t)
  BY <1>9 DEF DestroyCheck, Slot
<1>10. CASE DestroyBody(t)
  <2>1. [slots[handle[t]] EXCEPT !.gpu = NoGpu, !.td = FALSE, !.in_use = FALSE] \in DetectorSlot
    BY <1>0, SlotValues
  <2> QED
    BY <1>10, <2>1 DEF DestroyBody, Return
<1>11. CASE SetMask(t)
  <2>1. PICK m \in Masks :
          UnderSlot(t, "mask_slot",
                    IF m = slots[handle[t]].mask THEN slots[handle[t]]
                    ELSE [slots[handle[t]] EXCEPT !.mask = m, !.mask_dirty = TRUE])
    BY <1>11 DEF SetMask
  <2>2. [slots[handle[t]] EXCEPT !.mask = m, !.mask_dirty = TRUE] \in DetectorSlot
    BY <1>0, SlotValues
  <2>3. PICK s \in DetectorSlot : UnderSlot(t, "mask_slot", s)
    BY <1>0, <2>1, <2>2
  <2> QED
    BY <2>3 DEF UnderSlot
<1>12. CASE SetParams(t)
  <2>1. PICK p \in Calibrations :
          UnderSlot(t, "params_slot",
                    [slots[handle[t]] EXCEPT !.params = p, !.needs_rebuild = TRUE])
    BY <1>12 DEF SetParams
  <2>2. [slots[handle[t]] EXCEPT !.params = p, !.needs_rebuild = TRUE] \in DetectorSlot
    BY <1>0, SlotValues
  <2> QED
    BY <2>1, <2>2 DEF UnderSlot
<1>13. CASE FrameRebuild(t)
  <2>1. Built(slots[handle[t]]) \in DetectorSlot
    BY <1>0, SlotValues
  <2>2. NotBuilt(slots[handle[t]]) \in DetectorSlot
    BY <1>0, SlotValues
  <2>3. Failed(NotBuilt(slots[handle[t]])) \in DetectorSlot
    BY <2>2, SlotValues
  <2>4. slots' \in [Slots -> DetectorSlot]
    BY <1>13, <2>1, <2>3 DEF FrameRebuild
  <2>5. /\ pc' \in {[pc EXCEPT ![t] = "mask"], [pc EXCEPT ![t] = "idle"], pc}
        /\ handle' \in {[handle EXCEPT ![t] = 0], handle}
        /\ crashed' \in {TRUE, crashed}
    BY <1>13 DEF FrameRebuild, Return
  <2>6. /\ slot_mu' \in [Slots -> Threads \cup {NoThread}]
        /\ readers' \subseteq Threads
        /\ UNCHANGED <<alloc_mu, writer, waiting, gpu_mu, resume>>
    BY <1>13 DEF FrameRebuild, Return
  <2> QED
    BY <2>4, <2>5, <2>6
<1>14. CASE FrameKeep(t)
  BY <1>14 DEF FrameKeep
<1>15. CASE ApplyMask(t)
  <2> DEFINE s == slots[handle[t]]
             clean == [s EXCEPT !.mask_dirty = FALSE]
  <2>1. s \in DetectorSlot /\ s.gpu # NoGpu
    BY <1>15 DEF ApplyMask, SettingsInv, Ready
  <2>2. clean \in DetectorSlot /\ [clean EXCEPT !.gpu.mask = s.mask] \in DetectorSlot
    BY <2>1, SlotValues
  <2>3. PICK r \in {s, clean, [clean EXCEPT !.gpu.mask = s.mask]} :
          slots' = [slots EXCEPT ![handle[t]] = r]
    BY <1>15 DEF ApplyMask
  <2>4. slots' \in [Slots -> DetectorSlot]
    BY <2>1, <2>2, <2>3
  <2>5. pc' \in [Threads -> States]
    BY <1>15 DEF ApplyMask
  <2> QED
    BY <1>15, <2>4, <2>5 DEF ApplyMask
<1>16. CASE SkipGraph(t)
  BY <1>16 DEF SkipGraph, NextStage
<1>17. CASE AskExclusive(t)
  BY <1>17 DEF AskExclusive, NextStage
<1>18. CASE StartRecord(t)
  BY <1>18 DEF StartRecord, LockExclusive
<1>19. CASE EndRecord(t)
  BY <1>19 DEF EndRecord
<1>20. CASE Relock(t)
  BY <1>20 DEF Relock, LockShared
<1>21. CASE ChooseGpuLock(t)
  BY <1>21 DEF ChooseGpuLock
<1>22. CASE TakeGpuLock(t)
  BY <1>22 DEF TakeGpuLock
<1>23. CASE Detect(t)
  <2>1. Failed(slots[handle[t]]) \in DetectorSlot
    BY <1>0, SlotValues
  <2> QED
    BY <1>23, <2>1 DEF Detect, Return
<1>24. CASE EndFarSearch(t)
  BY <1>24 DEF EndFarSearch, Return
<1>25. CASE FrameFailed(t)
  <2>1. Failed(slots[handle[t]]) \in DetectorSlot
    BY <1>0, SlotValues
  <2> QED
    BY <1>25, <2>1 DEF FrameFailed, Return
<1>26. CASE CudaDone(t)
  BY <1>26 DEF CudaDone
<1>27. CASE DecoderDestroyed(t)
  BY <1>27 DEF DecoderDestroyed
<1> QED
  BY <1>1, <1>2, <1>3, <1>4, <1>5, <1>6, <1>7, <1>8, <1>9, <1>10, <1>11, <1>12, <1>13, <1>14,
     <1>15, <1>16, <1>17, <1>18, <1>19, <1>20, <1>21, <1>22, <1>23, <1>24, <1>25, <1>26, <1>27
  DEF Calls, Step, CreateStep, DestroyStep, FrameStep, CudaStep

-----------------------------------------------------------------------------
(***************************************************************************)
(* Locks.                                                                  *)
(***************************************************************************)
\* Every step takes and gives back the locks its control states say.
LEMMA LockStep ==
    ASSUME Inv, TypeOK', ~crashed, NEW t \in Threads, Calls(t) \/ Step(t)
    PROVE  LockInv'
<1> USE NoThreadIsNone
    DEF Inv, TypeOK, LockInv, Goto, GoIdle, Return, locks, WaitsAlloc, WaitsSlot, WaitsShared,
        HoldsAlloc, HoldsSlot, HoldsShared, Creating, Destroying, Preparing, Recording, Detecting
<1>1. CASE CallCreate(t)
  BY <1>1 DEF CallCreate
<1>2. ASSUME NEW h \in Slots,
             NEW to \in {"destroy_alloc", "mask_slot", "params_slot", "frame_slot"},
             Call(t, h, to)
      PROVE  LockInv'
  BY <1>2 DEF Call
<1>3. CASE CallCuda(t)
  BY <1>3 DEF CallCuda
<1>4. CASE ThreadEnds(t)
  BY <1>4 DEF ThreadEnds
<1>5. CASE CreatePick(t)
  BY <1>5 DEF CreatePick, FreeSlots
<1>6. CASE LockSlot(t, "create_slot", "create_cuda")
  BY <1>6 DEF LockSlot
<1>7. CASE LockSlot(t, "destroy_slot", "destroy_cuda")
  BY <1>7 DEF LockSlot
<1>8. CASE LockSlot(t, "frame_slot", "frame_cuda")
  BY <1>8 DEF LockSlot
<1>9. CASE SharedFor(t, "create_cuda", "create")
  BY <1>9 DEF SharedFor, LockShared
<1>10. CASE SharedFor(t, "destroy_cuda", "destroy")
  BY <1>10 DEF SharedFor, LockShared
<1>11. CASE SharedFor(t, "frame_cuda", "frame")
  BY <1>11 DEF SharedFor, LockShared
<1>12. CASE SharedFor(t, "cuda_wait", "cuda")
  BY <1>12 DEF SharedFor, LockShared
<1>13. CASE CreateBody(t)
  BY <1>13 DEF CreateBody
<1>14. CASE DestroyCheck(t)
  BY <1>14 DEF DestroyCheck
<1>15. CASE DestroyBody(t)
  BY <1>15 DEF DestroyBody
<1>16. CASE SetMask(t)
  BY <1>16 DEF SetMask, UnderSlot
<1>17. CASE SetParams(t)
  BY <1>17 DEF SetParams, UnderSlot
<1>18. CASE FrameRebuild(t)
  BY <1>18 DEF FrameRebuild
<1>19. CASE FrameKeep(t)
  BY <1>19 DEF FrameKeep
<1>20. CASE ApplyMask(t)
  BY <1>20 DEF ApplyMask
<1>21. CASE SkipGraph(t)
  BY <1>21 DEF SkipGraph, NextStage
<1>22. CASE AskExclusive(t)
  BY <1>22 DEF AskExclusive, NextStage
<1>23. CASE StartRecord(t)
  BY <1>23 DEF StartRecord, LockExclusive
<1>24. CASE EndRecord(t)
  BY <1>24 DEF EndRecord
<1>25. CASE Relock(t)
  BY <1>25 DEF Relock, LockShared
<1>26. CASE ChooseGpuLock(t)
  BY <1>26 DEF ChooseGpuLock
<1>27. CASE TakeGpuLock(t)
  BY <1>27 DEF TakeGpuLock
<1>28. CASE Detect(t)
  BY <1>28 DEF Detect
<1>29. CASE EndFarSearch(t)
  BY <1>29 DEF EndFarSearch
<1>30. CASE FrameFailed(t)
  BY <1>30 DEF FrameFailed
<1>31. CASE CudaDone(t)
  BY <1>31 DEF CudaDone
<1>32. CASE DecoderDestroyed(t)
  BY <1>32 DEF DecoderDestroyed
<1> QED
  BY <1>1, <1>2, <1>3, <1>4, <1>5, <1>6, <1>7, <1>8, <1>9, <1>10, <1>11, <1>12, <1>13, <1>14,
     <1>15, <1>16, <1>17, <1>18, <1>19, <1>20, <1>21, <1>22, <1>23, <1>24, <1>25, <1>26, <1>27,
     <1>28, <1>29, <1>30, <1>31, <1>32
  DEF Calls, Step, CreateStep, DestroyStep, FrameStep, CudaStep

-----------------------------------------------------------------------------
(***************************************************************************)
(* Settings.  A slot changes by a step of the thread that holds it, or of  *)
(* one that found it free, so what a frame knows of its slot stays true.   *)
(***************************************************************************)
\* What a slot must be like at any time, and when no frame has failed to
\* give its detector the mask.
Whole(s) ==
    /\ s \in DetectorSlot
    /\ s.td = s.in_use
    /\ s.gpu # NoGpu => s.in_use

Settled(s) ==
    s.gpu # NoGpu /\ ~s.needs_rebuild =>
      s.gpu.params = s.params /\ (s.mask_dirty \/ s.gpu.mask = s.mask)

\* What the calls store is whole and settled.
LEMMA SettledValues ==
    ASSUME NEW s, Whole(s)
    PROVE  /\ Whole(Failed(s)) /\ Settled(Failed(s))
           /\ Whole(Failed(NotBuilt(s))) /\ Settled(Failed(NotBuilt(s)))
           /\ LET r == [s EXCEPT !.gpu = NoGpu, !.td = FALSE, !.in_use = FALSE]
              IN  Whole(r) /\ Settled(r)
           /\ LET r == [Built(Fresh(s)) EXCEPT !.in_use = TRUE]
              IN  Whole(r) /\ Settled(r)
           /\ LET r == [[NotBuilt(Fresh(s)) EXCEPT !.needs_rebuild = TRUE] EXCEPT !.in_use = TRUE]
              IN  Whole(r) /\ Settled(r)
<1> USE ValuesAssumption DEF Whole, Settled, DetectorSlot, Detector
<1>1. Whole(Failed(s)) /\ Settled(Failed(s))
  BY DEF Failed
<1>2. Whole(Failed(NotBuilt(s))) /\ Settled(Failed(NotBuilt(s)))
  BY DEF Failed, NotBuilt
<1>3. LET r == [s EXCEPT !.gpu = NoGpu, !.td = FALSE, !.in_use = FALSE]
      IN  Whole(r) /\ Settled(r)
  OBVIOUS
<1>4. LET r == [Built(Fresh(s)) EXCEPT !.in_use = TRUE]
      IN  Whole(r) /\ Settled(r)
  BY DEF Built, Fresh
<1>5. LET r == [[NotBuilt(Fresh(s)) EXCEPT !.needs_rebuild = TRUE] EXCEPT !.in_use = TRUE]
      IN  Whole(r) /\ Settled(r)
  BY DEF NotBuilt, Fresh
<1> QED
  BY <1>1, <1>2, <1>3, <1>4, <1>5

\* A thread that holds its slot, or finds it free, may change it as long as it
\* leaves it fit for the control state it goes to.
LEMMA SlotChanges ==
    ASSUME Inv, NEW t \in Threads, slot_mu[handle[t]] \in {t, NoThread},
           NEW to, pc' = [pc EXCEPT ![t] = to],
           \/ handle' = handle
           \/ to = "idle" /\ handle' = [handle EXCEPT ![t] = 0],
           NEW r, Whole(r), slots' = [slots EXCEPT ![handle[t]] = r],
           to \in Ready => r.gpu # NoGpu /\ ~r.needs_rebuild,
           to \in Masked => ~r.mask_dirty,
           to = "failed" \/ Settled(r)
    PROVE  SettingsInv'
<1> DEFINE h == handle[t]
<1> USE NoThreadIsNone DEF Inv, TypeOK
<1>1. \A g \in Slots : slots'[g] = IF g = h THEN r ELSE slots[g]
  OBVIOUS
<1>2. \A u \in Threads : u # t => pc'[u] = pc[u] /\ handle'[u] = handle[u]
  OBVIOUS
<1>3. pc'[t] = to /\ (to = "idle" \/ handle'[t] = h)
  OBVIOUS
<1>4. \A u \in Threads : u # t /\ pc[u] \in HoldsSlot => handle[u] # h
  BY DEF LockInv
<1> USE <1>1, <1>2, <1>3, <1>4 DEF Whole, SettingsInv
<1>5. (\A g \in Slots : slots[g].td = slots[g].in_use)'
  OBVIOUS
<1>6. (\A g \in Slots : slots[g].gpu # NoGpu => slots[g].in_use)'
  OBVIOUS
<1>7. ASSUME NEW u \in Threads, u # t, pc'[u] \in Ready
      PROVE  /\ pc[u] \in Ready
             /\ handle'[u] = handle[u]
             /\ slots'[handle[u]] = slots[handle[u]]
  BY <1>7 DEF Ready, Masked, HoldsSlot, Preparing, Recording, Detecting
<1>8. to \in Ready => slots'[handle'[t]] = r
  BY DEF Ready, Masked, Recording
<1>9. ChangesRemembered'
  <2>1. \A u \in Threads, g \in Slots :
          g # h /\ pc[u] = "failed" /\ handle[u] = g => pc'[u] = "failed" /\ handle'[u] = g
    <3>1. SUFFICES ASSUME NEW u \in Threads, handle[u] # h PROVE u # t
      OBVIOUS
    <3> QED
      BY <3>1
  <2> QED
    BY <2>1 DEF ChangesRemembered, Settled
<1> QED
  BY <1>5, <1>6, <1>7, <1>8, <1>9 DEF Ready, Masked

\* Every step keeps each slot as its frames rely on it to be.
LEMMA SettingsStep ==
    ASSUME Inv, TypeOK', ~crashed, NEW t \in Threads, Calls(t) \/ Step(t)
    PROVE  SettingsInv'
<1> DEFINE s == slots[handle[t]]
<1>1. Whole(s)
  BY DEF Inv, TypeOK, SettingsInv, Whole
<1>2. pc[t] \in HoldsSlot => slot_mu[handle[t]] = t
  BY DEF Inv, TypeOK, LockInv
<1>3. "idle" \notin Ready /\ "failed" \notin Ready
  BY DEF Ready, Masked, Recording
<1>4. ASSUME NEW r, Whole(r), Settled(r), pc[t] \in HoldsSlot, GoIdle(t),
             slots' = [slots EXCEPT ![handle[t]] = r]
      PROVE  SettingsInv'
  BY <1>2, <1>3, <1>4, SlotChanges DEF GoIdle, Ready
<1>5. CASE CreateBody(t)
  <2> DEFINE f == Fresh(s)
  <2>1. PICK r \in {Built(f), [NotBuilt(f) EXCEPT !.needs_rebuild = TRUE]} :
          slots' = [slots EXCEPT ![handle[t]] = [r EXCEPT !.in_use = TRUE]]
    BY <1>5 DEF CreateBody
  <2>2. Whole([r EXCEPT !.in_use = TRUE]) /\ Settled([r EXCEPT !.in_use = TRUE])
    BY <1>1, <2>1, SettledValues
  <2>3. GoIdle(t) /\ pc[t] \in HoldsSlot
    BY <1>5 DEF CreateBody, Return, HoldsSlot
  <2> QED
    BY <1>4, <2>1, <2>2, <2>3
<1>6. CASE DestroyBody(t)
  <2> DEFINE r == [s EXCEPT !.gpu = NoGpu, !.td = FALSE, !.in_use = FALSE]
  <2>1. GoIdle(t) /\ pc[t] \in HoldsSlot /\ slots' = [slots EXCEPT ![handle[t]] = r]
    BY <1>6 DEF DestroyBody, Return, HoldsSlot
  <2>2. Whole(r) /\ Settled(r)
    BY <1>1, SettledValues
  <2> QED
    BY <1>4, <2>1, <2>2
<1>7. ASSUME GoIdle(t), pc[t] \in HoldsSlot, slots' = [slots EXCEPT ![handle[t]] = Failed(s)]
      PROVE  SettingsInv'
  BY <1>1, <1>4, <1>7, SettledValues
<1>8. CASE FrameFailed(t)
  BY <1>7, <1>8 DEF FrameFailed, Return, HoldsSlot, Preparing
<1>9. CASE FrameRebuild(t)
  <2>0. pc[t] \in HoldsSlot
    BY <1>9 DEF FrameRebuild, HoldsSlot, Preparing
  <2>1. CASE /\ s.td
             /\ slots' = [slots EXCEPT ![handle[t]] = Built(s)]
             /\ pc' = [pc EXCEPT ![t] = "mask"]
             /\ handle' = handle
    <3>1. /\ Whole(Built(s)) /\ Settled(Built(s))
          /\ Built(s).gpu # NoGpu /\ ~Built(s).needs_rebuild
      <4> DEFINE d == [mask |-> NoMask, params |-> s.params]
                 b == Built(s)
      <4>1. s \in DetectorSlot /\ s.td /\ s.in_use
        BY <1>1, <2>1 DEF Whole
      <4>2. d \in Detector /\ d # NoGpu
        BY <4>1, ValuesAssumption DEF DetectorSlot, Detector
      <4>3. b \in DetectorSlot
        BY <4>1, SlotValues
      <4>4. /\ b.gpu = d /\ b.td /\ b.in_use /\ b.mask_dirty /\ ~b.needs_rebuild
            /\ b.params = s.params
        BY <4>1 DEF Built, DetectorSlot
      <4> HIDE DEF b
      <4>5. Whole(b)
        BY <4>3, <4>4 DEF Whole
      <4>6. Settled(b)
        BY <4>4 DEF Settled
      <4> QED
        BY <4>2, <4>4, <4>5, <4>6 DEF b
    <3>2. "mask" \notin Masked
      BY DEF Masked, Recording
    <3> QED
      BY <1>2, <2>0, <2>1, <3>1, <3>2, SlotChanges
  <2>2. CASE GoIdle(t) /\ slots' = [slots EXCEPT ![handle[t]] = Failed(NotBuilt(s))]
    BY <1>1, <1>4, <2>0, <2>2, SettledValues
  <2>3. CASE UNCHANGED <<slots, locks, pc, handle, resume>>
    BY <2>3 DEF Inv, SettingsInv, ChangesRemembered
  <2> QED
    BY <1>9, <2>1, <2>2, <2>3 DEF FrameRebuild, Return
<1>10. CASE ApplyMask(t)
  <2> DEFINE clean == [s EXCEPT !.mask_dirty = FALSE]
             masked == [clean EXCEPT !.gpu.mask = s.mask]
  <2>1. pc[t] \in HoldsSlot
    BY <1>10 DEF ApplyMask, HoldsSlot, Preparing
  <2>2. s.gpu # NoGpu /\ ~s.needs_rebuild
    BY <1>10 DEF ApplyMask, Inv, SettingsInv, Ready
  <2>3. s.gpu.params = s.params /\ (~s.mask_dirty => s.gpu.mask = s.mask)
    <3>1. \A u \in Threads : ~(pc[u] = "failed" /\ handle[u] = handle[t])
      BY <1>10 DEF ApplyMask, Inv, TypeOK, LockInv, HoldsSlot, Preparing
    <3> QED
      BY <2>2, <3>1 DEF Inv, TypeOK, SettingsInv, ChangesRemembered
  <2>4. Whole(clean)
    BY <1>1 DEF Whole, DetectorSlot
  <2>5. /\ Whole(masked) /\ Settled(masked)
        /\ masked.gpu # NoGpu /\ ~masked.needs_rebuild /\ ~masked.mask_dirty
    BY <1>1, <2>2, <2>3, ValuesAssumption DEF Whole, Settled, DetectorSlot, Detector
  <2>6. Settled(s)
    BY <2>3 DEF Settled
  <2>7. CASE /\ slots' = [slots EXCEPT ![handle[t]] = IF s.mask_dirty THEN masked ELSE s]
             /\ pc' = [pc EXCEPT ![t] = "first_graph"]
             /\ handle' = handle
    <3>1. CASE s.mask_dirty
      BY <1>2, <2>1, <2>5, <2>7, <3>1, SlotChanges
    <3>2. CASE ~s.mask_dirty
      BY <1>1, <1>2, <2>1, <2>2, <2>6, <2>7, <3>2, SlotChanges
    <3> QED
      BY <3>1, <3>2
  <2>8. CASE /\ slots' = [slots EXCEPT ![handle[t]] = clean]
             /\ pc' = [pc EXCEPT ![t] = "failed"]
             /\ handle' = handle
    BY <1>2, <1>3, <2>1, <2>4, <2>8, SlotChanges DEF Ready
  <2> QED
    BY <1>10, <2>7, <2>8 DEF ApplyMask
<1> USE NoThreadIsNone, DetectorsAreNotNone
    DEF Inv, TypeOK, LockInv, SettingsInv, ChangesRemembered, Ready, Masked, Goto, GoIdle, Return,
        locks, DetectorSlot, WaitsAlloc, WaitsSlot, WaitsShared, HoldsSlot, Preparing, Recording,
        Detecting
<1>11. CASE CallCreate(t)
  BY <1>11 DEF CallCreate
<1>12. ASSUME NEW h \in Slots,
             NEW to \in {"destroy_alloc", "mask_slot", "params_slot", "frame_slot"},
             Call(t, h, to)
      PROVE  SettingsInv'
  BY <1>12 DEF Call
<1>13. CASE CallCuda(t)
  BY <1>13 DEF CallCuda
<1>14. CASE ThreadEnds(t)
  BY <1>14 DEF ThreadEnds
<1>15. CASE CreatePick(t)
  BY <1>15 DEF CreatePick, FreeSlots
<1>16. CASE LockSlot(t, "create_slot", "create_cuda")
  BY <1>16 DEF LockSlot
<1>17. CASE LockSlot(t, "destroy_slot", "destroy_cuda")
  BY <1>17 DEF LockSlot
<1>18. CASE LockSlot(t, "frame_slot", "frame_cuda")
  BY <1>18 DEF LockSlot
<1>19. CASE SharedFor(t, "create_cuda", "create")
  BY <1>19 DEF SharedFor, LockShared
<1>20. CASE SharedFor(t, "destroy_cuda", "destroy")
  BY <1>20 DEF SharedFor, LockShared
<1>21. CASE SharedFor(t, "frame_cuda", "frame")
  BY <1>21 DEF SharedFor, LockShared
<1>22. CASE SharedFor(t, "cuda_wait", "cuda")
  BY <1>22 DEF SharedFor, LockShared
<1>23. CASE DestroyCheck(t)
  BY <1>23 DEF DestroyCheck
<1>24. CASE SetMask(t)
  BY <1>24 DEF SetMask, UnderSlot
<1>25. CASE SetParams(t)
  BY <1>25 DEF SetParams, UnderSlot
<1>26. CASE FrameKeep(t)
  BY <1>26 DEF FrameKeep
<1>27. CASE SkipGraph(t)
  BY <1>27 DEF SkipGraph, NextStage
<1>28. CASE AskExclusive(t)
  BY <1>28 DEF AskExclusive, NextStage
<1>29. CASE StartRecord(t)
  BY <1>29 DEF StartRecord, LockExclusive
<1>30. CASE EndRecord(t)
  BY <1>30 DEF EndRecord
<1>31. CASE Relock(t)
  BY <1>31 DEF Relock, LockShared
<1>32. CASE ChooseGpuLock(t)
  BY <1>32 DEF ChooseGpuLock
<1>33. CASE TakeGpuLock(t)
  BY <1>33 DEF TakeGpuLock
<1>34. CASE Detect(t)
  <2>1. CASE UNCHANGED slots
    <3>1. CASE GoIdle(t)
      BY <1>34, <2>1, <3>1 DEF Detect
    <3>2. CASE Goto(t, "detect", "far") /\ UNCHANGED handle
      BY <1>34, <2>1, <3>2 DEF Detect
    <3> QED
      BY <1>34, <2>1, <3>1, <3>2 DEF Detect
  <2>2. CASE GoIdle(t) /\ slots' = [slots EXCEPT ![handle[t]] = Failed(s)]
    BY <1>7, <1>34, <2>2 DEF Detect
  <2> QED
    BY <1>34, <2>1, <2>2 DEF Detect
<1>35. CASE EndFarSearch(t)
  BY <1>35 DEF EndFarSearch
<1>36. CASE CudaDone(t)
  BY <1>36 DEF CudaDone
<1>37. CASE DecoderDestroyed(t)
  BY <1>37 DEF DecoderDestroyed
<1> QED
  BY <1>5, <1>6, <1>8, <1>9, <1>10, <1>11, <1>12, <1>13, <1>14, <1>15, <1>16, <1>17, <1>18,
     <1>19, <1>20, <1>21, <1>22, <1>23, <1>24, <1>25, <1>26, <1>27, <1>28, <1>29, <1>30, <1>31,
     <1>32, <1>33, <1>34, <1>35, <1>36, <1>37
  DEF Calls, Step, CreateStep, DestroyStep, FrameStep, CudaStep

-----------------------------------------------------------------------------
\* Every step preserves the invariant.
LEMMA InvStep ==
    ASSUME Inv, [Next]_vars
    PROVE  Inv'
<1>1. CASE Next
  <2>1. ~crashed
    BY <1>1 DEF Next
  <2>2. PICK t \in Threads : Calls(t) \/ Step(t)
    BY <1>1 DEF Next
  <2>3. TypeOK'
    BY <2>1, <2>2, TypeStep
  <2>4. LockInv' /\ SettingsInv'
    BY <2>1, <2>2, <2>3, LockStep, SettingsStep
  <2> QED
    BY <2>3, <2>4 DEF Inv
<1>2. CASE UNCHANGED vars
  BY <1>2 DEF vars, locks, Inv, TypeOK, LockInv, SettingsInv, ChangesRemembered
<1> QED
  BY <1>1, <1>2

\* In every reachable state the locks are held by the threads whose control
\* state says so, and every slot keeps what its frames rely on.
THEOREM Invariance == Spec => []Inv
<1>1. Init => Inv
  BY InitInv
<1>2. Inv /\ [Next]_vars => Inv'
  BY InvStep
<1> QED
  BY <1>1, <1>2, PTL DEF Spec

\* Every variable keeps its type; above all a handle is always a slot's index.
THEOREM TypeCorrect == Spec => []TypeOK
<1>1. Inv => TypeOK
  BY DEF Inv
<1> QED
  BY <1>1, Invariance, PTL

\* Nobody who takes the capture lock is in a CUDA path while another thread
\* records a graph.
THEOREM RecordingIsAlone == Spec => []CaptureExclusive
<1>1. Inv => CaptureExclusive
  <2> SUFFICES ASSUME Inv, NEW t \in Threads, NEW u \in Threads, pc[t] = "record", u # t
               PROVE  pc[u] \notin HoldsShared \cup {"record"}
    BY DEF CaptureExclusive
  <2>1. writer = t
    BY DEF Inv, LockInv
  <2>2. readers = {}
    BY <2>1, NoThreadIsNone DEF Inv, LockInv
  <2> QED
    BY <2>1, <2>2 DEF Inv, LockInv
<1> QED
  BY <1>1, Invariance, PTL

\* What setMask and setparams asked for is either in the detector or still
\* to be done.
THEOREM SettingsRemembered == Spec => []ChangesRemembered
<1>1. Inv => ChangesRemembered
  BY DEF Inv, SettingsInv
<1> QED
  BY <1>1, Invariance, PTL

\* A frame is searched with its camera's latest mask and calibration.
THEOREM FramesAreCurrent == Spec => []DetectIsCurrent
<1>1. Inv => DetectIsCurrent
  <2> SUFFICES ASSUME Inv, NEW t \in Threads, pc[t] = "detect"
               PROVE  LET s == slots[handle[t]]
                      IN  s.in_use /\ s.gpu = [mask |-> s.mask, params |-> s.params]
    BY DEF DetectIsCurrent
  <2> DEFINE s == slots[handle[t]]
  <2>1. handle[t] \in Slots /\ s \in DetectorSlot
    BY DEF Inv, TypeOK
  <2>2. s.gpu # NoGpu /\ ~s.needs_rebuild /\ ~s.mask_dirty
    BY DEF Inv, SettingsInv, Ready, Masked
  <2>3. \A u \in Threads : ~(pc[u] = "failed" /\ handle[u] = handle[t])
    BY <2>1 DEF Inv, LockInv, HoldsSlot, Preparing, Detecting
  <2>4. s.gpu.params = s.params /\ s.gpu.mask = s.mask
    BY <2>1, <2>2, <2>3 DEF Inv, SettingsInv, ChangesRemembered
  <2>5. s.gpu = [mask |-> s.mask, params |-> s.params]
    BY <2>1, <2>2, <2>4 DEF DetectorSlot, Detector
  <2> QED
    BY <2>1, <2>2, <2>5 DEF Inv, SettingsInv
<1> QED
  BY <1>1, Invariance, PTL

-----------------------------------------------------------------------------
(***************************************************************************)
(* No circular wait.  Only a thread in one of five kinds of state waits;   *)
(* taken in the reverse of the lock order, each kind waits for threads     *)
(* that wait, if at all, in a kind already excluded.                       *)
(***************************************************************************)
\* The control states in which a thread may be blocked.
LEMMA OnlyWaitersAreBlocked ==
    ASSUME NEW t \in Threads, BlockedBy(t) # {}
    PROVE  pc[t] \in WaitsAlloc \cup WaitsSlot \cup WaitsShared \cup {"record_wait", "gpu_wait"}
BY DEF BlockedBy

\* Locks held as LockInv says are never waited for in a circle.
LEMMA NoCycle == Inv => NoCircularWait
<1> SUFFICES ASSUME Inv, NEW S \in SUBSET Threads, S # {},
                    \A t \in S : BlockedBy(t) \cap S # {}
             PROVE  FALSE
  BY DEF NoCircularWait
<1>1. \A t \in S : t \in Threads /\ BlockedBy(t) # {} /\ \E u \in S : u \in BlockedBy(t)
  OBVIOUS
<1> USE DEF WaitsAlloc, WaitsSlot, WaitsShared
<1>2. ASSUME NEW t \in S, pc[t] = "gpu_wait" PROVE FALSE
  <2>1. PICK u \in S : u \in BlockedBy(t)
    BY <1>1
  <2>2. u = gpu_mu
    BY <1>2, <2>1 DEF BlockedBy
  <2>3. pc[u] = "detect"
    BY <2>2 DEF Inv, LockInv
  <2> QED
    BY <1>1, <2>3, OnlyWaitersAreBlocked
<1>3. ASSUME NEW t \in S, pc[t] = "record_wait" PROVE FALSE
  <2>1. PICK u \in S : u \in BlockedBy(t)
    BY <1>1
  <2>2. u \in readers \/ u = writer
    BY <1>3, <2>1 DEF BlockedBy
  <2>3. pc[u] \in HoldsShared \cup {"record"}
    BY <2>2 DEF Inv, LockInv
  <2> QED
    BY <1>1, <1>2, <2>3, OnlyWaitersAreBlocked DEF HoldsShared, Preparing, Detecting
<1>4. ASSUME NEW t \in S, pc[t] \in WaitsShared PROVE FALSE
  <2>1. PICK u \in S : u \in BlockedBy(t)
    BY <1>1
  <2>2. u \in waiting \/ u = writer
    BY <1>4, <2>1 DEF BlockedBy
  <2>3. pc[u] \in {"record_wait", "record"}
    BY <2>2 DEF Inv, LockInv
  <2> QED
    BY <1>1, <1>3, <2>3, OnlyWaitersAreBlocked
<1>5. ASSUME NEW t \in S, pc[t] \in WaitsSlot PROVE FALSE
  <2>1. PICK u \in S : u \in BlockedBy(t)
    BY <1>1
  <2>2. u = slot_mu[handle[t]]
    BY <1>5, <2>1 DEF BlockedBy
  <2>3. pc[u] \in HoldsSlot
    BY <2>2 DEF Inv, TypeOK, LockInv
  <2> QED
    BY <1>1, <1>2, <1>3, <1>4, <2>3, OnlyWaitersAreBlocked
    DEF HoldsSlot, Preparing, Recording, Detecting
<1>6. ASSUME NEW t \in S, pc[t] \in WaitsAlloc PROVE FALSE
  <2>1. PICK u \in S : u \in BlockedBy(t)
    BY <1>1
  <2>2. u = alloc_mu
    BY <1>6, <2>1 DEF BlockedBy
  <2>3. pc[u] \in HoldsAlloc
    BY <2>2 DEF Inv, LockInv
  <2> QED
    BY <1>1, <1>4, <1>5, <2>3, OnlyWaitersAreBlocked DEF HoldsAlloc, Creating, Destroying
<1> QED
  BY <1>1, <1>2, <1>3, <1>4, <1>5, <1>6, OnlyWaitersAreBlocked

\* No group of threads, however large, ever waits for each other's locks.
THEOREM LocksNeverCircular == Spec => []NoCircularWait
BY NoCycle, Invariance, PTL

-----------------------------------------------------------------------------
\* A step that writes a slot writes its own call's, which it holds or found
\* free, and goes on to another control state.
LEMMA SlotWriter ==
    ASSUME Inv, ~crashed, NEW t \in Threads, Calls(t) \/ Step(t)
    PROVE  \/ slots' = slots
           \/ /\ slot_mu[handle[t]] \in {t, NoThread}
              /\ pc'[t] # pc[t]
              /\ \A h \in Slots : h # handle[t] => slots'[h] = slots[h]
<1> DEFINE Writes == /\ slot_mu[handle[t]] \in {t, NoThread}
                     /\ pc'[t] # pc[t]
                     /\ \A h \in Slots : h # handle[t] => slots'[h] = slots[h]
<1>0. pc[t] \in HoldsSlot => slot_mu[handle[t]] = t
  BY DEF Inv, TypeOK, LockInv
<1> USE DEF Inv, TypeOK, GoIdle, Return, HoldsSlot, Preparing, Detecting
<1>1. CASE CreateBody(t)
  <2>1. PICK r : slots' = [slots EXCEPT ![handle[t]] = r]
    BY <1>1 DEF CreateBody
  <2> QED
    BY <1>0, <1>1, <2>1 DEF CreateBody
<1>2. CASE DestroyBody(t)
  BY <1>0, <1>2 DEF DestroyBody
<1>3. ASSUME NEW from, NEW r, from # "idle", UnderSlot(t, from, r)
      PROVE  Writes
  BY <1>3 DEF UnderSlot
<1>4. CASE SetMask(t)
  BY <1>3, <1>4 DEF SetMask
<1>5. CASE SetParams(t)
  BY <1>3, <1>5 DEF SetParams
<1>6. CASE FrameRebuild(t)
  BY <1>0, <1>6 DEF FrameRebuild
<1>7. CASE ApplyMask(t)
  BY <1>0, <1>7 DEF ApplyMask
<1>8. CASE Detect(t)
  BY <1>0, <1>8 DEF Detect, Goto
<1>9. CASE FrameFailed(t)
  BY <1>0, <1>9 DEF FrameFailed
<1>10. CASE Calls(t) \/ CudaStep(t)
  BY <1>10 DEF Calls, CallCreate, Call, CallCuda, ThreadEnds, CudaStep, SharedFor, CudaDone,
               DecoderDestroyed
<1>11. CASE CreateStep(t) \/ DestroyStep(t)
  BY <1>1, <1>2, <1>11 DEF CreateStep, DestroyStep, CreatePick, DestroyCheck, LockSlot, SharedFor
<1>12. CASE FrameStep(t)
  BY <1>6, <1>7, <1>8, <1>9, <1>12
  DEF FrameStep, LockSlot, SharedFor, FrameKeep, SkipGraph, AskExclusive, StartRecord, EndRecord,
      Relock, ChooseGpuLock, TakeGpuLock, EndFarSearch
<1> QED
  BY <1>4, <1>5, <1>10, <1>11, <1>12 DEF Step

\* A slot is never written under the call that holds it.
THEOREM HoldersAreAlone == Spec => OnlyHolderWrites
<1>1. Inv /\ [Next]_vars =>
        [\A t \in Threads :
           /\ pc[t] \in HoldsSlot
           /\ pc'[t] = pc[t]
           => slots'[handle[t]] = slots[handle[t]]]_vars
  <2> SUFFICES ASSUME Inv, Next, NEW t \in Threads, pc[t] \in HoldsSlot, pc'[t] = pc[t]
               PROVE  slots'[handle[t]] = slots[handle[t]]
    OBVIOUS
  <2>1. PICK u \in Threads : ~crashed /\ (Calls(u) \/ Step(u))
    BY DEF Next
  <2>2. slot_mu[handle[t]] = t /\ handle[t] \in Slots
    BY DEF Inv, TypeOK, LockInv
  <2>3. slots' # slots => u # t /\ handle[u] # handle[t]
    BY <2>1, <2>2, SlotWriter, NoThreadIsNone
  <2> QED
    BY <2>1, <2>2, <2>3, SlotWriter
<1> QED
  BY <1>1, Invariance, PTL DEF Spec, OnlyHolderWrites

-----------------------------------------------------------------------------
(***************************************************************************)
(* One caller at a time.  Inv holds of any callers, and under it a handle  *)
(* used by two threads may lose its detector to a destroy between the      *)
(* look-up and the lock (detector_destroy_race).  PhotonVision uses each   *)
(* handle from one thread at a time, and then it cannot.                   *)
(***************************************************************************)
\* The control states of a call that was given a handle and found its slot in
\* use, and with them the one that has yet to look.
Found == (WaitsSlot \cup HoldsSlot) \ Creating
Using == {"destroy_alloc"} \cup Found

\* A handle is in the hands of one call, and a call that has found its slot
\* in use still does.
CallInv ==
    /\ ~crashed
    /\ \A t, u \in Threads : t # u /\ pc[t] \in Using /\ pc[u] \in Using => handle[t] # handle[u]
    /\ \A t \in Threads : pc[t] \in Found => slots[handle[t]].in_use

\* A step that frees no slot, and with which a call goes on or ends, keeps it.
LEMMA CallGoesOn ==
    ASSUME TypeOK, CallInv, ~crashed', NEW t \in Threads, NEW to,
           pc' = [pc EXCEPT ![t] = to],
           \/ to \notin Using /\ \E h \in Slots : handle' = [handle EXCEPT ![t] = h]
           \/ pc[t] \in Found /\ handle' = handle,
           \A h \in Slots : slots[h].in_use => slots'[h].in_use
    PROVE  CallInv'
<1> USE DEF TypeOK, CallInv
<1>1. \A u \in Threads : u # t => pc'[u] = pc[u] /\ handle'[u] = handle[u]
  OBVIOUS
<1>2. pc'[t] \in Using => pc[t] \in Found /\ handle'[t] = handle[t]
  OBVIOUS
<1>3. Found \subseteq Using
  BY DEF Using
<1>4. \A u \in Threads : pc'[u] \in Using => pc[u] \in Using /\ handle'[u] = handle[u]
  BY <1>1, <1>2, <1>3
<1>5. \A u \in Threads : pc'[u] \in Found => pc[u] \in Found /\ handle'[u] = handle[u]
  BY <1>1, <1>2, <1>3
<1> QED
  BY <1>4, <1>5

\* A call starts with a handle no other has, and a slot in use, unless it is
\* to destroy it and has yet to look.
LEMMA CallStarts ==
    ASSUME Serialised, Inv, CallInv, ~crashed', NEW t \in Threads, NEW h \in Slots,
           NEW to \in {"destroy_alloc", "mask_slot", "params_slot", "frame_slot"}, Call(t, h, to)
    PROVE  CallInv'
<1> USE DEF Inv, TypeOK, CallInv, Call, Goto
<1>1. \A u \in Threads : u # t => pc'[u] = pc[u] /\ handle'[u] = handle[u]
  OBVIOUS
<1>2. \A u \in Threads : u # t /\ pc[u] \in Using => handle[u] # h
  BY DEF InCall, Using, Found
<1>3. handle'[t] = h /\ slots' = slots /\ (pc'[t] \in Found => slots[h].in_use)
  BY DEF Slot, Found, WaitsSlot, HoldsSlot, Preparing, Recording, Detecting
<1> QED
  BY <1>1, <1>2, <1>3 DEF Using

\* A slot is freed by the call that holds it, and no other call has it.
LEMMA CallDestroys ==
    ASSUME Inv, CallInv, ~crashed', NEW t \in Threads, DestroyBody(t)
    PROVE  CallInv'
<1> USE DEF Inv, TypeOK, CallInv
<1>1. pc[t] \in Using
  BY DEF DestroyBody, Using, Found, HoldsSlot, Creating
<1>2. \A u \in Threads : u # t => pc'[u] = pc[u] /\ handle'[u] = handle[u]
  BY DEF DestroyBody, Return, GoIdle
<1>3. pc'[t] \notin Using
  BY DEF DestroyBody, Return, GoIdle, Using, Found, WaitsSlot, HoldsSlot, Preparing, Recording,
         Detecting
<1>4. \A g \in Slots : g # handle[t] => slots'[g] = slots[g]
  BY DEF DestroyBody
<1> QED
  BY <1>1, <1>2, <1>3, <1>4 DEF Using

\* No step of a caller that waits its turn meets a slot without a detector.
LEMMA CallStep ==
    ASSUME Serialised, Inv, CallInv, NEW t \in Threads, Calls(t) \/ Step(t)
    PROVE  CallInv'
<1> USE ZeroSlot
    DEF Inv, TypeOK, Goto, GoIdle, Return, locks, Using, Found, WaitsSlot, HoldsSlot, Creating,
        Preparing, Recording, Detecting
<1>0. ~crashed /\ (pc[t] \in Found => slots[handle[t]].td)
  BY DEF CallInv, SettingsInv
<1>1. ASSUME crashed' = crashed, NEW to, pc' = [pc EXCEPT ![t] = to],
             \/ to \notin Using /\ \E h \in Slots : handle' = [handle EXCEPT ![t] = h]
             \/ pc[t] \in Found /\ handle' = handle,
             \/ slots' = slots
             \/ \E r : /\ slots' = [slots EXCEPT ![handle[t]] = r]
                       /\ r.in_use \/ r.in_use = slots[handle[t]].in_use
      PROVE  CallInv'
  <2>1. \A h \in Slots : slots[h].in_use => slots'[h].in_use
    BY <1>1
  <2> QED
    BY <1>0, <1>1, <2>1, CallGoesOn
<1>2. handle = [handle EXCEPT ![t] = handle[t]] /\ handle[t] \in Slots
  OBVIOUS
<1>3. slots[handle[t]] \in DetectorSlot
  OBVIOUS
<1> HIDE DEF Inv, TypeOK
<1>4. CASE Calls(t)
  <2>1. CASE CallCreate(t) \/ CallCuda(t) \/ ThreadEnds(t)
    BY <1>1, <1>2, <2>1 DEF CallCreate, CallCuda, ThreadEnds
  <2>2. ASSUME NEW h \in Slots,
               NEW to \in {"destroy_alloc", "mask_slot", "params_slot", "frame_slot"},
               Call(t, h, to)
        PROVE  CallInv'
    <3>1. ~crashed'
      BY <1>0, <2>2 DEF Call
    <3> QED
      BY <2>2, <3>1, CallStarts
  <2> QED
    BY <1>4, <2>1, <2>2 DEF Calls
<1>5. CASE CreateStep(t)
  <2>1. CASE CreatePick(t)
    BY <1>1, <1>2, <2>1 DEF CreatePick, FreeSlots
  <2>2. CASE LockSlot(t, "create_slot", "create_cuda")
    BY <1>1, <1>2, <2>2 DEF LockSlot
  <2>3. CASE SharedFor(t, "create_cuda", "create")
    BY <1>1, <1>2, <2>3 DEF SharedFor
  <2>4. CASE CreateBody(t)
    <3>1. PICK r \in {Built(Fresh(slots[handle[t]])),
                      [NotBuilt(Fresh(slots[handle[t]])) EXCEPT !.needs_rebuild = TRUE]} :
            slots' = [slots EXCEPT ![handle[t]] = [r EXCEPT !.in_use = TRUE]]
      BY <2>4 DEF CreateBody
    <3>2. [r EXCEPT !.in_use = TRUE].in_use
      BY <1>3 DEF DetectorSlot, Built, NotBuilt, Fresh
    <3>3. /\ crashed' = crashed /\ pc' = [pc EXCEPT ![t] = "idle"] /\ "idle" \notin Using
          /\ \E h \in Slots : handle' = [handle EXCEPT ![t] = h]
      BY <2>4 DEF CreateBody
    <3> HIDE DEF Using
    <3> QED
      BY <1>1, <3>1, <3>2, <3>3
  <2> QED
    BY <1>5, <2>1, <2>2, <2>3, <2>4 DEF CreateStep
<1>6. CASE DestroyStep(t)
  <2>1. CASE DestroyCheck(t) /\ ~Slot(handle[t])
    BY <1>1, <1>2, <2>1 DEF DestroyCheck
  <2>5. CASE DestroyCheck(t) /\ Slot(handle[t])
    <3>1. /\ pc[t] = "destroy_alloc" /\ pc' = [pc EXCEPT ![t] = "destroy_slot"]
          /\ handle' = handle /\ slots' = slots /\ crashed' = crashed
          /\ slots[handle[t]].in_use
      BY <2>5 DEF DestroyCheck, Slot
    <3> QED
      BY <3>1 DEF CallInv, TypeOK, Inv
  <2>2. CASE LockSlot(t, "destroy_slot", "destroy_cuda")
    BY <1>1, <1>2, <2>2 DEF LockSlot
  <2>3. CASE SharedFor(t, "destroy_cuda", "destroy")
    BY <1>1, <1>2, <2>3 DEF SharedFor
  <2>4. CASE DestroyBody(t)
    BY <1>0, <2>4, CallDestroys DEF DestroyBody
  <2> QED
    BY <1>6, <2>1, <2>2, <2>3, <2>4, <2>5 DEF DestroyStep
<1>7. CASE SetMask(t) \/ SetParams(t)
  <2>1. PICK r : /\ slots' = [slots EXCEPT ![handle[t]] = r]
                 /\ r.in_use = slots[handle[t]].in_use
    <3>1. CASE SetMask(t)
      <4>1. PICK m \in Masks :
              slots' = [slots EXCEPT ![handle[t]] =
                          IF m = slots[handle[t]].mask THEN slots[handle[t]]
                          ELSE [slots[handle[t]] EXCEPT !.mask = m, !.mask_dirty = TRUE]]
        BY <3>1 DEF SetMask, UnderSlot
      <4>2. [slots[handle[t]] EXCEPT !.mask = m, !.mask_dirty = TRUE].in_use
              = slots[handle[t]].in_use
        BY <1>3 DEF DetectorSlot
      <4> QED
        BY <4>1, <4>2
    <3>2. CASE SetParams(t)
      <4>1. PICK p \in Calibrations :
              slots' = [slots EXCEPT ![handle[t]] =
                          [slots[handle[t]] EXCEPT !.params = p, !.needs_rebuild = TRUE]]
        BY <3>2 DEF SetParams, UnderSlot
      <4>2. [slots[handle[t]] EXCEPT !.params = p, !.needs_rebuild = TRUE].in_use
              = slots[handle[t]].in_use
        BY <1>3 DEF DetectorSlot
      <4> QED
        BY <4>1, <4>2
    <3> QED
      BY <1>7, <3>1, <3>2
  <2>2. crashed' = crashed /\ pc' = [pc EXCEPT ![t] = "idle"] /\ handle' = [handle EXCEPT ![t] = 0]
    BY <1>7 DEF SetMask, SetParams, UnderSlot
  <2> QED
    BY <1>1, <2>1, <2>2
<1>8. CASE FrameStep(t)
  <2>1. CASE FrameRebuild(t)
    <3>1. PICK r \in {Built(slots[handle[t]]), Failed(NotBuilt(slots[handle[t]]))} :
            slots' = [slots EXCEPT ![handle[t]] = r]
      BY <1>0, <2>1 DEF FrameRebuild
    <3>2. r.in_use = slots[handle[t]].in_use
      BY <1>3, <3>1 DEF DetectorSlot, Built, NotBuilt, Failed
    <3>3. /\ crashed' = crashed /\ pc[t] \in Found
          /\ \/ pc' = [pc EXCEPT ![t] = "mask"] /\ handle' = handle
             \/ pc' = [pc EXCEPT ![t] = "idle"] /\ handle' = [handle EXCEPT ![t] = 0]
      BY <1>0, <2>1 DEF FrameRebuild
    <3> QED
      BY <1>1, <3>1, <3>2, <3>3
  <2>2. CASE ApplyMask(t)
    <3>1. /\ crashed' = crashed /\ handle' = handle /\ pc[t] \in Found
          /\ \E to : pc' = [pc EXCEPT ![t] = to]
      BY <2>2 DEF ApplyMask
    <3> DEFINE s == slots[handle[t]]
               clean == [s EXCEPT !.mask_dirty = FALSE]
    <3>2. PICK r \in {s, clean, [clean EXCEPT !.gpu.mask = s.mask]} :
            slots' = [slots EXCEPT ![handle[t]] = r]
      BY <2>2 DEF ApplyMask
    <3>3. r.in_use = s.in_use
      BY <1>3, <3>2 DEF DetectorSlot
    <3> QED
      BY <1>1, <3>1, <3>2, <3>3
  <2>3. CASE Detect(t)
    BY <1>1, <1>2, <1>3, <2>3 DEF Detect, DetectorSlot, Failed
  <2>4. CASE EndFarSearch(t) \/ FrameFailed(t)
    BY <1>1, <1>2, <1>3, <2>4 DEF EndFarSearch, FrameFailed, DetectorSlot, Failed
  <2>5. CASE LockSlot(t, "frame_slot", "frame_cuda") \/ SharedFor(t, "frame_cuda", "frame")
    BY <1>1, <1>2, <2>5 DEF LockSlot, SharedFor
  <2>6. CASE FrameKeep(t) \/ SkipGraph(t) \/ ChooseGpuLock(t) \/ TakeGpuLock(t)
    BY <1>1, <1>2, <2>6 DEF FrameKeep, SkipGraph, ChooseGpuLock, TakeGpuLock, NextStage
  <2>7. CASE AskExclusive(t) \/ StartRecord(t) \/ EndRecord(t) \/ Relock(t)
    BY <1>1, <1>2, <2>7 DEF AskExclusive, StartRecord, EndRecord, Relock
  <2> QED
    BY <1>8, <2>1, <2>2, <2>3, <2>4, <2>5, <2>6, <2>7 DEF FrameStep
<1>9. CASE CudaStep(t)
  BY <1>1, <1>2, <1>9 DEF CudaStep, SharedFor, CudaDone, DecoderDestroyed
<1> QED
  BY <1>4, <1>5, <1>6, <1>7, <1>8, <1>9 DEF Step

\* As long as each handle is used from one thread at a time, however many
\* cameras come and go, no frame reaches a slot whose detector is gone.
THEOREM OneCallerNeverNull == Serialised => (Spec => []NeverNullDetector)
<1> SUFFICES ASSUME Serialised PROVE Spec => []NeverNullDetector
  OBVIOUS
<1>1. Init => CallInv
  BY DEF Init, CallInv, Using, Found, WaitsSlot, HoldsSlot, Preparing, Recording, Detecting
<1>2. Inv /\ CallInv /\ [Next]_vars => CallInv'
  <2> SUFFICES ASSUME Inv, CallInv, [Next]_vars PROVE CallInv'
    OBVIOUS
  <2>1. CASE Next
    BY <2>1, CallStep DEF Next
  <2>2. CASE UNCHANGED vars
    BY <2>2 DEF vars, CallInv
  <2> QED
    BY <2>1, <2>2
<1>3. CallInv => NeverNullDetector
  BY DEF CallInv, NeverNullDetector
<1> QED
  BY <1>1, <1>2, <1>3, Invariance, PTL DEF Spec

=============================================================================
