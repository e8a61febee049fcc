------------------------- MODULE GpuFramePoolProofs -------------------------
(***************************************************************************)
(* Proofs about GpuFramePool, for any number of cameras, slots, buffers    *)
(* and images.                                                             *)
(***************************************************************************)
EXTENDS GpuFramePool, FiniteSetTheorems, TLAPS

\* What a thread has while it is doing something.
HasWhatItNeeds ==
    \A c \in Cameras :
      /\ decoder[c] \in {"idle", "frame"} => decoding[c] = NoSlot
      /\ decoder[c] = "publish" => decoding[c] # NoSlot
      /\ decoder[c] = "idle" <=> filling[c] = NoBuffer
      /\ detector[c] \in {"idle", "frame"} => claimed[c] = NoSlot
      /\ detector[c] = "claimed" => claimed[c] # NoSlot
      /\ detector[c] = "idle" <=> given[c] = NoBuffer

\* A host buffer is filled, waits or is searched for one camera only.
BufferExclusive ==
    \A c, d \in Cameras :
      /\ filling[c] # NoBuffer =>
           filling[c] # latest[d] /\ filling[c] # given[d] /\ (c # d => filling[c] # filling[d])
      /\ latest[c] # NoBuffer =>
           latest[c] # given[d] /\ (c # d => latest[c] # latest[d])
      /\ given[c] # NoBuffer /\ c # d => given[c] # given[d]

\* A claimed slot's image still has the samples of the frame it was claimed for.
ClaimedSame ==
    \A c \in Cameras : detector[c] = "claimed" =>
      Fingerprint[gpu_frames[claimed[c]].image] = Fingerprint[pixels[given[c]]]

Inv == TypeOK /\ HasWhatItNeeds /\ SlotExclusive /\ BufferExclusive /\ ClaimedSame /\ SameSamples

\* The initial state satisfies the invariant.
LEMMA InitInv == Init => Inv
<1> USE NonesAssumption, EndsAssumption DEF Init, Empty
<1>1. Init => TypeOK
  <2>1. Empty \in GpuFrameSlot
    BY DEF GpuFrameSlot
  <2> HIDE DEF Empty
  <2>2. Init => gpu_frames \in [Slots -> GpuFrameSlot]
    BY <2>1
  <2>3. Init => ends \in 0 .. MaxEnds
    OBVIOUS
  <2> HIDE DEF GpuFrameSlot
  <2> QED
    BY <2>2, <2>3 DEF TypeOK
<1>2. Init => SlotExclusive
  BY DEF SlotExclusive
<1>3. Init => HasWhatItNeeds /\ BufferExclusive /\ ClaimedSame /\ SameSamples
  BY DEF HasWhatItNeeds, BufferExclusive, ClaimedSame, SameSamples
<1> QED
  BY <1>1, <1>2, <1>3 DEF Inv

-----------------------------------------------------------------------------
\* Every step stores values of the right type.
LEMMA TypeStep ==
    ASSUME Inv, NEW c \in Cameras, DecodeStep(c) \/ DetectStep(c)
    PROVE  TypeOK'
<1> USE NonesAssumption, EndsAssumption
    DEF Inv, TypeOK, GpuFrameSlot, Empty, InUse, HasWhatItNeeds, decoderVars, detectorVars,
        FreeGpuFrameSlot, HandOver, Use
<1>1. CASE StartDecode(c)
  BY <1>1 DEF StartDecode
<1>2. CASE TakeFreeGpuFrameSlot(c)
  BY <1>2 DEF TakeFreeGpuFrameSlot, Available, OwnWaiting
<1>3. CASE DecodeWithoutPool(c)
  BY <1>3 DEF DecodeWithoutPool
<1>4. CASE DecodeOnBoth(c)
  BY <1>4 DEF DecodeOnBoth
<1>5. CASE PublishGpuFrameSlot(c)
  BY <1>5 DEF PublishGpuFrameSlot
<1>6. CASE DecodeOnHost(c)
  BY <1>6 DEF DecodeOnHost
<1>7. CASE DecodeThreadEnds(c)
  BY <1>7 DEF DecodeThreadEnds
<1>8. CASE DecodeFails(c)
  BY <1>8 DEF DecodeFails
<1>9. CASE TakeFrame(c)
  BY <1>9 DEF TakeFrame
<1>10. CASE Claim(c)
  BY <1>10 DEF Claim
<1>11. CASE NothingToClaim(c)
  BY <1>11 DEF NothingToClaim
<1>12. CASE CopyIn(c)
  BY <1>12 DEF CopyIn
<1>13. CASE CheckFails(c)
  BY <1>13 DEF CheckFails
<1>14. CASE Finish(c)
  BY <1>14 DEF Finish
<1> QED
  BY <1>1, <1>2, <1>3, <1>4, <1>5, <1>6, <1>7, <1>8, <1>9, <1>10, <1>11, <1>12, <1>13,
     <1>14
  DEF DecodeStep, DetectStep

-----------------------------------------------------------------------------
\* Every step leaves its thread with what its new state needs, and every host
\* buffer with one camera.
LEMMA OwnershipStep ==
    ASSUME Inv, NEW c \in Cameras, DecodeStep(c) \/ DetectStep(c)
    PROVE  HasWhatItNeeds' /\ BufferExclusive'
<1> USE NonesAssumption
    DEF Inv, TypeOK, HasWhatItNeeds, BufferExclusive, decoderVars, detectorVars, HandOver, Use
<1>1. CASE StartDecode(c)
  BY <1>1 DEF StartDecode, BuffersInUse
<1>2. CASE TakeFreeGpuFrameSlot(c)
  BY <1>2 DEF TakeFreeGpuFrameSlot
<1>3. CASE DecodeWithoutPool(c)
  BY <1>3 DEF DecodeWithoutPool
<1>4. CASE DecodeOnBoth(c)
  BY <1>4 DEF DecodeOnBoth
<1>5. CASE PublishGpuFrameSlot(c)
  BY <1>5 DEF PublishGpuFrameSlot
<1>6. CASE DecodeOnHost(c)
  BY <1>6 DEF DecodeOnHost
<1>7. CASE DecodeThreadEnds(c)
  BY <1>7 DEF DecodeThreadEnds
<1>8. CASE DecodeFails(c)
  BY <1>8 DEF DecodeFails
<1>9. CASE TakeFrame(c)
  BY <1>9 DEF TakeFrame
<1>10. CASE Claim(c)
  BY <1>10 DEF Claim
<1>11. CASE NothingToClaim(c)
  BY <1>11 DEF NothingToClaim
<1>12. CASE CopyIn(c)
  BY <1>12 DEF CopyIn
<1>13. CASE CheckFails(c)
  BY <1>13 DEF CheckFails
<1>14. CASE Finish(c)
  BY <1>14 DEF Finish
<1> QED
  BY <1>1, <1>2, <1>3, <1>4, <1>5, <1>6, <1>7, <1>8, <1>9, <1>10, <1>11, <1>12, <1>13,
     <1>14
  DEF DecodeStep, DetectStep

\* A slot goes from "in_use" and to it only with the thread that uses it.
LEMMA SlotStep ==
    ASSUME Inv, NEW c \in Cameras, DecodeStep(c) \/ DetectStep(c)
    PROVE  SlotExclusive'
<1> USE NonesAssumption
    DEF Inv, TypeOK, GpuFrameSlot, Empty, InUse, HasWhatItNeeds, SlotExclusive, decoderVars,
        detectorVars, FreeGpuFrameSlot, HandOver, Use
<1>1. CASE StartDecode(c)
  BY <1>1 DEF StartDecode
<1>2. CASE TakeFreeGpuFrameSlot(c)
  <2>1. PICK i \in Available(c) \cup {NoSlot} :
          /\ decoding' = [decoding EXCEPT ![c] = i]
          /\ gpu_frames' = [j \in Slots |-> IF j = i THEN InUse
                                            ELSE IF j \in OwnWaiting(c) THEN Empty
                                            ELSE gpu_frames[j]]
    BY <1>2 DEF TakeFreeGpuFrameSlot
  <2>2. decoding[c] = NoSlot /\ claimed' = claimed
    BY <1>2 DEF TakeFreeGpuFrameSlot
  <2>3. \A j \in Available(c) : j \in Slots /\ gpu_frames[j].state # "in_use"
    BY DEF Available, OwnWaiting
  <2>4. \A j \in Slots : gpu_frames'[j].state = "in_use" <=>
                           j = i \/ gpu_frames[j].state = "in_use"
    BY <2>1 DEF OwnWaiting
  <2>5. \A d \in Cameras : decoding'[d] = IF d = c THEN i ELSE decoding[d]
    BY <2>1
  <2>6. \A d \in Cameras : i # NoSlot => i # decoding[d] /\ i # claimed[d]
    BY <2>3
  <2> HIDE DEF GpuFrameSlot, Empty, InUse
  <2> QED
    BY <2>2, <2>4, <2>5, <2>6
<1>3. CASE DecodeWithoutPool(c)
  BY <1>3 DEF DecodeWithoutPool
<1>4. CASE DecodeOnBoth(c)
  BY <1>4 DEF DecodeOnBoth
<1>5. CASE PublishGpuFrameSlot(c)
  BY <1>5 DEF PublishGpuFrameSlot
<1>6. CASE DecodeOnHost(c)
  BY <1>6 DEF DecodeOnHost
<1>7. CASE DecodeThreadEnds(c)
  BY <1>7 DEF DecodeThreadEnds
<1>8. CASE DecodeFails(c)
  BY <1>8 DEF DecodeFails
<1>9. CASE TakeFrame(c)
  BY <1>9 DEF TakeFrame
<1>10. CASE Claim(c)
  BY <1>10 DEF Claim, MatchesGpuInput
<1>11. CASE NothingToClaim(c)
  BY <1>11 DEF NothingToClaim
<1>12. CASE CopyIn(c)
  BY <1>12 DEF CopyIn
<1>13. CASE CheckFails(c)
  BY <1>13 DEF CheckFails
<1>14. CASE Finish(c)
  BY <1>14 DEF Finish
<1> QED
  BY <1>1, <1>2, <1>3, <1>4, <1>5, <1>6, <1>7, <1>8, <1>9, <1>10, <1>11, <1>12, <1>13,
     <1>14
  DEF DecodeStep, DetectStep

\* Nobody writes a buffer that is being searched, or an image that is claimed.
LEMMA SamplesStep ==
    ASSUME Inv, NEW c \in Cameras, DecodeStep(c) \/ DetectStep(c)
    PROVE  ClaimedSame' /\ SameSamples'
<1> USE NonesAssumption
    DEF Inv, TypeOK, GpuFrameSlot, Empty, InUse, HasWhatItNeeds, SlotExclusive, BufferExclusive,
        ClaimedSame, SameSamples, decoderVars, detectorVars, FreeGpuFrameSlot, HandOver, Use
<1>1. CASE StartDecode(c)
  BY <1>1 DEF StartDecode
<1>2. CASE TakeFreeGpuFrameSlot(c)
  BY <1>2 DEF TakeFreeGpuFrameSlot, Available, OwnWaiting
<1>3. CASE DecodeWithoutPool(c)
  BY <1>3 DEF DecodeWithoutPool
<1>4. CASE DecodeOnBoth(c)
  BY <1>4 DEF DecodeOnBoth
<1>5. CASE PublishGpuFrameSlot(c)
  BY <1>5 DEF PublishGpuFrameSlot
<1>6. CASE DecodeOnHost(c)
  BY <1>6 DEF DecodeOnHost
<1>7. CASE DecodeThreadEnds(c)
  BY <1>7 DEF DecodeThreadEnds
<1>8. CASE DecodeFails(c)
  BY <1>8 DEF DecodeFails
<1>9. CASE TakeFrame(c)
  BY <1>9 DEF TakeFrame
<1>10. CASE Claim(c)
  BY <1>10 DEF Claim, MatchesGpuInput
<1>11. CASE NothingToClaim(c)
  BY <1>11 DEF NothingToClaim
<1>12. CASE CopyIn(c)
  BY <1>12 DEF CopyIn
<1>13. CASE CheckFails(c)
  BY <1>13 DEF CheckFails
<1>14. CASE Finish(c)
  BY <1>14 DEF Finish
<1> QED
  BY <1>1, <1>2, <1>3, <1>4, <1>5, <1>6, <1>7, <1>8, <1>9, <1>10, <1>11, <1>12, <1>13,
     <1>14
  DEF DecodeStep, DetectStep

-----------------------------------------------------------------------------
\* Every step preserves the invariant.
LEMMA InvStep ==
    ASSUME Inv, [Next]_vars
    PROVE  Inv'
<1>1. CASE Next
  <2>1. PICK c \in Cameras : DecodeStep(c) \/ DetectStep(c)
    BY <1>1 DEF Next
  <2> QED
    BY <2>1, TypeStep, OwnershipStep, SlotStep, SamplesStep DEF Inv
<1>2. CASE UNCHANGED vars
  BY <1>2 DEF vars, decoderVars, detectorVars, Inv, TypeOK, HasWhatItNeeds, SlotExclusive,
              BufferExclusive, ClaimedSame, SameSamples
<1> QED
  BY <1>1, <1>2

\* The invariant holds in every reachable state.
THEOREM Invariance == Spec => []Inv
<1>1. Init => Inv
  BY InitInv
<1>2. Inv /\ [Next]_vars => Inv'
  BY InvStep
<1> QED
  BY <1>1, <1>2, PTL DEF Spec

\* No two threads ever use one slot of the pool, and none is lost while in use.
THEOREM SlotsAreExclusive == Spec => []SlotExclusive
<1>1. Inv => SlotExclusive
  BY DEF Inv
<1> QED
  BY <1>1, Invariance, PTL

\* Detect() gets the frame it was asked about, as far as the samples tell.
THEOREM SamplesAgree == Spec => []SameSamples
<1>1. Inv => SameSamples
  BY DEF Inv
<1> QED
  BY <1>1, Invariance, PTL

\* Every variable keeps its type; above all nobody writes beside the pool.
THEOREM TypeCorrect == Spec => []TypeOK
<1>1. Inv => TypeOK
  BY DEF Inv
<1> QED
  BY <1>1, Invariance, PTL

-----------------------------------------------------------------------------
(***************************************************************************)
(* The size of the pool.                                                   *)
(***************************************************************************)
\* A thread that decodes into a slot has none waiting: TakeFreeGpuFrameSlot
\* gave that one up.
OneWaitsOrFills == \A c \in Cameras : decoding[c] # NoSlot => my_waiting_slot[c] = NoSlot

\* Every step keeps it.
LEMMA OneWaitsOrFillsStep ==
    ASSUME Inv, OneWaitsOrFills, [Next]_vars
    PROVE  OneWaitsOrFills'
<1> USE DEF Inv, TypeOK, HasWhatItNeeds, OneWaitsOrFills, decoderVars, detectorVars, HandOver
<1>1. ASSUME NEW c \in Cameras, DecodeStep(c) PROVE OneWaitsOrFills'
  BY <1>1
  DEF DecodeStep, StartDecode, TakeFreeGpuFrameSlot, DecodeWithoutPool, DecodeOnBoth,
      PublishGpuFrameSlot, DecodeOnHost, DecodeFails, DecodeThreadEnds
<1>2. ASSUME NEW c \in Cameras, DetectStep(c) PROVE OneWaitsOrFills'
  BY <1>2 DEF DetectStep, TakeFrame, Claim, NothingToClaim, CopyIn, CheckFails, Finish
<1>3. CASE UNCHANGED vars
  BY <1>3 DEF vars
<1> QED
  BY <1>1, <1>2, <1>3 DEF Next

\* The slots a camera accounts for: the one its decoder fills, or else its
\* last frame; and the one its vision thread has claimed.
SlotOf(p) ==
    IF p[2] = "claimed" THEN claimed[p[1]]
    ELSE IF decoding[p[1]] # NoSlot THEN decoding[p[1]]
    ELSE my_waiting_slot[p[1]]

\* A decoder that finds nothing has all slots accounted for, and all but one
\* of the two for each camera: its own last frame does not wait.
LEMMA AllAccountedFor ==
    ASSUME Inv, OneWaitsOrFills, NEW c \in Cameras, decoder[c] = "frame",
           Available(c) \cup LeftBehind = {}, NEW i \in Slots
    PROVE  \E p \in (Cameras \X {"claimed", "decoder"}) \ {<<c, "decoder">>} : SlotOf(p) = i
<1> DEFINE Places == (Cameras \X {"claimed", "decoder"}) \ {<<c, "decoder">>}
<1>1. gpu_frames[i].state \in {"waiting", "in_use"}
  BY DEF Inv, TypeOK, GpuFrameSlot, Available
<1>2. \A d \in Cameras : <<d, "claimed">> \in Places /\ SlotOf(<<d, "claimed">>) = claimed[d]
  BY DEF SlotOf
<1>3. \A d \in Cameras \ {c} : /\ <<d, "decoder">> \in Places
                               /\ SlotOf(<<d, "decoder">>) = IF decoding[d] # NoSlot THEN decoding[d]
                                                              ELSE my_waiting_slot[d]
  BY DEF SlotOf
<1>4. i # NoSlot
  BY NonesAssumption
<1>5. CASE gpu_frames[i].state = "in_use"
  <2>1. PICK d \in Cameras : i \in {decoding[d], claimed[d]}
    BY <1>5 DEF Inv, SlotExclusive
  <2>2. decoding[c] = NoSlot
    BY DEF Inv, HasWhatItNeeds
  <2>3. CASE i = claimed[d]
    BY <1>2, <2>3
  <2>4. CASE i = decoding[d]
    <3>1. d # c /\ decoding[d] # NoSlot
      BY <1>4, <2>2, <2>4
    <3> QED
      BY <1>3, <2>4, <3>1
  <2> QED
    BY <2>1, <2>3, <2>4
<1>6. CASE gpu_frames[i].state = "waiting"
  <2>1. PICK d \in Cameras : my_waiting_slot[d] = i
    BY <1>6 DEF LeftBehind
  <2>2. d # c
    BY <1>6, <2>1 DEF Available, OwnWaiting
  <2>3. decoding[d] = NoSlot
    BY <1>4, <2>1 DEF OneWaitsOrFills
  <2> QED
    BY <1>3, <2>1, <2>2, <2>3
<1> QED
  BY <1>1, <1>5, <1>6

\* Two slots for each camera leave a decoder one, unless ended threads' frames
\* are in the way: kGpuFrameSlots' 24 are enough for a dozen cameras.
THEOREM TwoSlotsSuffice ==
    ASSUME IsFiniteSet(Cameras), IsFiniteSet(Slots),
           Cardinality(Slots) >= 2 * Cardinality(Cameras)
    PROVE  Spec => []PoolSuffices
<1>1. Init => OneWaitsOrFills
  BY DEF Init, OneWaitsOrFills
<1>2. Inv /\ OneWaitsOrFills => PoolSuffices
  <2> SUFFICES ASSUME Inv, OneWaitsOrFills, NEW c \in Cameras, decoder[c] = "frame",
                      Available(c) \cup LeftBehind = {}
               PROVE  FALSE
    BY DEF PoolSuffices
  <2> DEFINE Ways == {"claimed", "decoder"}
             Places == (Cameras \X Ways) \ {<<c, "decoder">>}
             place == [i \in Slots |-> CHOOSE p \in Places : SlotOf(p) = i]
  <2>1. IsFiniteSet(Ways) /\ Cardinality(Ways) = 2
    <3>1. IsFiniteSet({"claimed"}) /\ Cardinality({"claimed"}) = 1
      BY FS_Singleton
    <3>2. Ways = {"claimed"} \cup {"decoder"} /\ "decoder" \notin {"claimed"}
      OBVIOUS
    <3>3. /\ IsFiniteSet({"claimed"} \cup {"decoder"})
          /\ Cardinality({"claimed"} \cup {"decoder"}) = 1 + 1
      BY <3>1, <3>2, FS_AddElement
    <3> QED
      BY <3>2, <3>3
  <2>2. IsFiniteSet(Cameras \X Ways) /\ Cardinality(Cameras \X Ways) = Cardinality(Cameras) * 2
    BY <2>1, FS_Product
  <2>3. <<c, "decoder">> \in Cameras \X Ways
    OBVIOUS
  <2>4. IsFiniteSet(Places) /\ Cardinality(Places) = Cardinality(Cameras \X Ways) - 1
    BY <2>2, <2>3, FS_RemoveElement
  <2>5. Cardinality(Cameras) \in Nat /\ Cardinality(Slots) \in Nat
    BY FS_CardinalityType
  <2>6. Cardinality(Places) < Cardinality(Slots)
    BY <2>2, <2>4, <2>5
  <2>7. \A i \in Slots : place[i] \in Places /\ SlotOf(place[i]) = i
    BY AllAccountedFor
  <2> HIDE DEF Places, place
  <2>8. place \in [Slots -> Places]
    BY <2>7 DEF place
  <2>9. \E i, j \in Slots : i # j /\ place[i] = place[j]
    BY <2>4, <2>6, <2>8, FS_PigeonHole
  <2> QED
    BY <2>7, <2>9
<1> QED
  BY <1>1, <1>2, OneWaitsOrFillsStep, Invariance, PTL DEF Spec

=============================================================================
