---------------------------- MODULE GpuFramePool ----------------------------
(***************************************************************************)
(* The pool of frames on the GPU (gpu_frames in                            *)
(* src/detector/GpuDetectorJNI.cc).  A camera's decode thread leaves each  *)
(* gray frame on the GPU in a slot of the pool, tagged with the host buffer*)
(* it also wrote; processimage, on another thread, claims the slot whose   *)
(* tag and sampled pixels match the frame it was given, copies it to the   *)
(* detector's own buffer, and frees it.                                    *)
(*                                                                         *)
(* All frames have one size, and an allocation that fails is a pool that   *)
(* gives no slot.  How PhotonVision hands frames over is external: each    *)
(* camera keeps its newest frame, and a buffer is used again once nobody   *)
(* has it.  The data of free slots and buffers is cleared, as nobody reads *)
(* it.                                                                     *)
(***************************************************************************)
EXTENDS Naturals, FiniteSets

CONSTANTS
    Cameras,     \* each has a decode thread and a vision thread
    Slots,       \* the indices of gpu_frames: kGpuFrameSlots of them
    NoSlot,      \* -1
    Buffers,     \* host image buffers
    NoBuffer,
    Images,      \* what a frame shows
    NoImage,
    Fingerprint, \* the 64 pixels FingerprintGpuInput samples of each image
    MaxEnds      \* bound: decode threads that end

ASSUME NonesAssumption == NoSlot \notin Slots /\ NoBuffer \notin Buffers /\ NoImage \notin Images
ASSUME EndsAssumption == MaxEnds \in Nat
ASSUME PrintsAssumption == DOMAIN Fingerprint = Images

VARIABLES
    gpu_frames,      \* GpuFrameSlot by index
    my_waiting_slot, \* thread_local of each decode thread
    gpu_input_off,
    decoder,         \* what each decode thread is doing
    decoding,        \* the slot it decodes into
    filling,         \* the buffer it decodes into
    latest,          \* each camera's newest frame, not yet taken by its vision thread
    detector,        \* what each vision thread is doing in processimage
    given,           \* the buffer it was given
    claimed,         \* the slot it claimed
    input,           \* the image Detect() gets
    pixels,          \* the image in each host buffer
    ends             \* decode threads that have ended

decoderVars == <<decoder, decoding, filling, my_waiting_slot>>
detectorVars == <<detector, given, claimed, input>>
vars == <<gpu_frames, gpu_input_off, decoderVars, latest, detectorVars, pixels, ends>>

GpuFrameSlot == [state : {"free", "waiting", "in_use"},
                 host : Buffers \cup {NoBuffer}, image : Images \cup {NoImage}]

Empty == [state |-> "free", host |-> NoBuffer, image |-> NoImage]
InUse == [Empty EXCEPT !.state = "in_use"]

Init ==
    /\ gpu_frames = [i \in Slots |-> Empty]
    /\ my_waiting_slot = [c \in Cameras |-> NoSlot]
    /\ gpu_input_off = FALSE
    /\ decoder = [c \in Cameras |-> "idle"]
    /\ decoding = [c \in Cameras |-> NoSlot]
    /\ filling = [c \in Cameras |-> NoBuffer]
    /\ latest = [c \in Cameras |-> NoBuffer]
    /\ detector = [c \in Cameras |-> "idle"]
    /\ given = [c \in Cameras |-> NoBuffer]
    /\ claimed = [c \in Cameras |-> NoSlot]
    /\ input = [c \in Cameras |-> NoImage]
    /\ pixels = [b \in Buffers |-> NoImage]
    /\ ends = 0

\* Mutant: -1 is not looked for, and the array is written before its start.
FreeGpuFrameSlotUnchecked(i) ==
    gpu_frames' = [j \in Slots \cup {i} |-> IF j = i THEN Empty ELSE gpu_frames[j]]

\* FreeGpuFrameSlot, which does nothing for -1.
FreeGpuFrameSlot(i) ==
    gpu_frames' = IF i = NoSlot THEN gpu_frames ELSE [gpu_frames EXCEPT ![i] = Empty]

(***************************************************************************)
(* The decode thread.                                                      *)
(***************************************************************************)
BuffersInUse == {filling[c] : c \in Cameras} \cup {latest[c] : c \in Cameras}
                  \cup {given[c] : c \in Cameras}

\* A frame arrives, and PhotonVision has a buffer for it.
StartDecode(c) ==
    /\ decoder[c] = "idle"
    /\ \E b \in Buffers \ BuffersInUse : filling' = [filling EXCEPT ![c] = b]
    /\ decoder' = [decoder EXCEPT ![c] = "frame"]
    /\ UNCHANGED <<gpu_frames, my_waiting_slot, gpu_input_off, decoding, latest, detectorVars, pixels, ends>>

\* Mutant: the thread's last frame is freed whoever has it.
OwnWaitingUnchecked(c) == {i \in Slots : i = my_waiting_slot[c]}

\* The frame a thread's last decode left, if it is still waiting.
OwnWaiting(c) == {i \in Slots : i = my_waiting_slot[c] /\ gpu_frames[i].state = "waiting"}

\* What TakeFreeGpuFrameSlot may pick from.
Available(c) == {i \in Slots : gpu_frames[i].state = "free"} \cup OwnWaiting(c)

\* TakeFreeGpuFrameSlot: the thread's last frame, if never claimed, is freed,
\* and a free slot is taken; with none, or no GPU memory, it returns -1.
TakeFreeGpuFrameSlot(c) ==
    /\ decoder[c] = "frame"
    /\ ~gpu_input_off
    /\ my_waiting_slot' = [my_waiting_slot EXCEPT ![c] = NoSlot]
    /\ \E i \in Available(c) \cup {NoSlot} :
         /\ decoding' = [decoding EXCEPT ![c] = i]
         /\ gpu_frames' = [j \in Slots |-> IF j = i THEN InUse
                                           ELSE IF j \in OwnWaiting(c) THEN Empty
                                           ELSE gpu_frames[j]]
    /\ decoder' = [decoder EXCEPT ![c] = "decode"]
    /\ UNCHANGED <<gpu_input_off, filling, latest, detectorVars, pixels, ends>>

\* The hardware decoder or GPU input is off, or the frame is in colour.
DecodeWithoutPool(c) ==
    /\ decoder[c] = "frame"
    /\ decoder' = [decoder EXCEPT ![c] = "decode"]
    /\ UNCHANGED <<gpu_frames, my_waiting_slot, gpu_input_off, decoding, filling, latest,
                   detectorVars, pixels, ends>>

\* The newest frame replaces one the vision thread did not take.
HandOver(c) ==
    /\ latest' = [latest EXCEPT ![c] = filling[c]]
    /\ filling' = [filling EXCEPT ![c] = NoBuffer]
    /\ decoding' = [decoding EXCEPT ![c] = NoSlot]
    /\ decoder' = [decoder EXCEPT ![c] = "idle"]

\* decode_gray_dev: one image, on the host and on the GPU.
DecodeOnBoth(c) ==
    /\ decoder[c] = "decode"
    /\ decoding[c] # NoSlot
    /\ \E image \in Images :
         /\ pixels' = [pixels EXCEPT ![filling[c]] = image]
         /\ gpu_frames' = [gpu_frames EXCEPT ![decoding[c]].image = image]
    /\ decoder' = [decoder EXCEPT ![c] = "publish"]
    /\ UNCHANGED <<my_waiting_slot, gpu_input_off, decoding, filling, latest, detectorVars, ends>>

\* PublishGpuFrameSlot.
PublishGpuFrameSlot(c) ==
    /\ decoder[c] = "publish"
    /\ gpu_frames' = [gpu_frames EXCEPT ![decoding[c]] =
                        [@ EXCEPT !.host = filling[c], !.state = "waiting"]]
    /\ my_waiting_slot' = [my_waiting_slot EXCEPT ![c] = decoding[c]]
    /\ HandOver(c)
    /\ pixels' = [b \in Buffers |-> IF b = latest[c] THEN NoImage ELSE pixels[b]]
    /\ UNCHANGED <<gpu_input_off, detectorVars, ends>>

\* Decoded without a GPU copy: by NVJPG with no slot, or by libjpeg-turbo
\* after the hardware failed, which frees the slot.
DecodeOnHost(c) ==
    /\ decoder[c] = "decode"
    /\ \E image \in Images :
         pixels' = [b \in Buffers |-> IF b = filling[c] THEN image
                                      ELSE IF b = latest[c] THEN NoImage ELSE pixels[b]]
    /\ FreeGpuFrameSlot(decoding[c])
    /\ HandOver(c)
    /\ UNCHANGED <<my_waiting_slot, gpu_input_off, detectorVars, ends>>

\* Neither decoder can make anything of the frame, or the size is another.
DecodeFails(c) ==
    /\ decoder[c] = "decode"
    /\ FreeGpuFrameSlot(decoding[c])
    /\ filling' = [filling EXCEPT ![c] = NoBuffer]
    /\ decoding' = [decoding EXCEPT ![c] = NoSlot]
    /\ decoder' = [decoder EXCEPT ![c] = "idle"]
    /\ UNCHANGED <<my_waiting_slot, gpu_input_off, latest, detectorVars, pixels, ends>>

\* The thread ends, with its thread_locals; the camera's next one starts.
DecodeThreadEnds(c) ==
    /\ ends < MaxEnds
    /\ ends' = ends + 1
    /\ decoder[c] = "idle"
    /\ my_waiting_slot' = [my_waiting_slot EXCEPT ![c] = NoSlot]
    /\ UNCHANGED <<gpu_frames, gpu_input_off, decoder, decoding, filling, latest, detectorVars,
                   pixels>>

(***************************************************************************)
(* processimage, on the camera's vision thread.                            *)
(***************************************************************************)
TakeFrame(c) ==
    /\ detector[c] = "idle"
    /\ latest[c] # NoBuffer
    /\ given' = [given EXCEPT ![c] = latest[c]]
    /\ latest' = [latest EXCEPT ![c] = NoBuffer]
    /\ detector' = [detector EXCEPT ![c] = "frame"]
    /\ UNCHANGED <<gpu_frames, gpu_input_off, decoderVars, claimed, input, pixels, ends>>

\* Mutant: the tag alone decides.
MatchesTag(i, b) == gpu_frames[i].state = "waiting" /\ gpu_frames[i].host = b

\* The image's samples, which the decoder took from the host copy, against
\* the buffer's as it is now.
MatchesGpuInput(i, b) ==
    /\ gpu_frames[i].state = "waiting"
    /\ gpu_frames[i].host = b
    /\ Fingerprint[gpu_frames[i].image] = Fingerprint[pixels[b]]

\* What Detect() gets.
Use(c, image) ==
    /\ input' = [input EXCEPT ![c] = image]
    /\ detector' = [detector EXCEPT ![c] = "detect"]

Claim(c) ==
    /\ detector[c] = "frame"
    /\ \E i \in Slots :
         /\ MatchesGpuInput(i, given[c])
         /\ gpu_frames' = [gpu_frames EXCEPT ![i].state = "in_use"]
         /\ claimed' = [claimed EXCEPT ![c] = i]
    /\ detector' = [detector EXCEPT ![c] = "claimed"]
    /\ UNCHANGED <<gpu_input_off, decoderVars, latest, given, input, pixels, ends>>

\* Nothing to claim: the host's copy goes up to the GPU again.
NothingToClaim(c) ==
    /\ detector[c] = "frame"
    /\ \A i \in Slots : ~MatchesGpuInput(i, given[c])
    /\ Use(c, pixels[given[c]])
    /\ UNCHANGED <<gpu_frames, gpu_input_off, decoderVars, latest, given, claimed, pixels, ends>>

\* Mutant: the copy is made and the slot forgotten.
CopyInKeepingSlot(c) ==
    /\ detector[c] = "claimed"
    /\ Use(c, gpu_frames[claimed[c]].image)
    /\ claimed' = [claimed EXCEPT ![c] = NoSlot]
    /\ UNCHANGED <<gpu_frames, gpu_input_off, decoderVars, latest, given, pixels, ends>>

\* Into dev_in, and the slot back at once; the copy may fail, and then the
\* host's copy is used.
CopyIn(c) ==
    /\ detector[c] = "claimed"
    /\ \E image \in {gpu_frames[claimed[c]].image, pixels[given[c]]} : Use(c, image)
    /\ FreeGpuFrameSlot(claimed[c])
    /\ claimed' = [claimed EXCEPT ![c] = NoSlot]
    /\ UNCHANGED <<gpu_input_off, decoderVars, latest, given, pixels, ends>>

\* Every kCheckEvery frames the whole image is copied back and compared; a
\* difference, or a copy that fails, turns GPU input off.  The slot is kept
\* until the call returns.
CheckFails(c) ==
    /\ detector[c] = "claimed"
    /\ gpu_input_off' = TRUE
    /\ Use(c, pixels[given[c]])
    /\ UNCHANGED <<gpu_frames, decoderVars, latest, given, claimed, pixels, ends>>

\* The call returns, whichever way, and ~SlotRelease frees what it still has.
Finish(c) ==
    /\ detector[c] = "detect"
    /\ FreeGpuFrameSlot(claimed[c])
    /\ claimed' = [claimed EXCEPT ![c] = NoSlot]
    /\ pixels' = [pixels EXCEPT ![given[c]] = NoImage]
    /\ given' = [given EXCEPT ![c] = NoBuffer]
    /\ input' = [input EXCEPT ![c] = NoImage]
    /\ detector' = [detector EXCEPT ![c] = "idle"]
    /\ UNCHANGED <<gpu_input_off, decoderVars, latest, ends>>

-----------------------------------------------------------------------------
DecodeStep(c) ==
    \/ StartDecode(c)
    \/ TakeFreeGpuFrameSlot(c)
    \/ DecodeWithoutPool(c)
    \/ DecodeOnBoth(c)
    \/ PublishGpuFrameSlot(c)
    \/ DecodeOnHost(c)
    \/ DecodeFails(c)
    \/ DecodeThreadEnds(c)

DetectStep(c) ==
    \/ TakeFrame(c)
    \/ Claim(c)
    \/ NothingToClaim(c)
    \/ CopyIn(c)
    \/ CheckFails(c)
    \/ Finish(c)

Next == \E c \in Cameras : DecodeStep(c) \/ DetectStep(c)

Spec == Init /\ [][Next]_vars

-----------------------------------------------------------------------------
\* Every variable keeps its type.
TypeOK ==
    /\ gpu_frames \in [Slots -> GpuFrameSlot]
    /\ my_waiting_slot \in [Cameras -> Slots \cup {NoSlot}]
    /\ gpu_input_off \in BOOLEAN
    /\ decoder \in [Cameras -> {"idle", "frame", "decode", "publish"}]
    /\ decoding \in [Cameras -> Slots \cup {NoSlot}]
    /\ filling \in [Cameras -> Buffers \cup {NoBuffer}]
    /\ latest \in [Cameras -> Buffers \cup {NoBuffer}]
    /\ detector \in [Cameras -> {"idle", "frame", "claimed", "detect"}]
    /\ given \in [Cameras -> Buffers \cup {NoBuffer}]
    /\ claimed \in [Cameras -> Slots \cup {NoSlot}]
    /\ input \in [Cameras -> Images \cup {NoImage}]
    /\ pixels \in [Buffers -> Images \cup {NoImage}]
    /\ ends \in 0 .. MaxEnds

\* A slot in use is used by exactly one thread, decoding or detecting, and no
\* thread uses a slot that is not: no decoder writes a frame a detector still
\* copies, and none is lost.
SlotExclusive ==
    /\ \A c, d \in Cameras : /\ decoding[c] # NoSlot => decoding[c] # claimed[d]
                             /\ c # d /\ decoding[c] # NoSlot => decoding[c] # decoding[d]
                             /\ c # d /\ claimed[c] # NoSlot => claimed[c] # claimed[d]
    /\ \A i \in Slots : gpu_frames[i].state = "in_use" <=>
                          \E c \in Cameras : i \in {decoding[c], claimed[c]}

\* Detect() gets an image with the sampled pixels of the frame it was given:
\* a slot left waiting by an older frame in the same buffer is told apart as
\* far as the samples can.
SameSamples ==
    \A c \in Cameras : detector[c] = "detect" =>
      Fingerprint[input[c]] = Fingerprint[pixels[given[c]]]

\* Frames that decode threads left waiting when they ended.
LeftBehind == {i \in Slots : /\ gpu_frames[i].state = "waiting"
                             /\ \A c \in Cameras : my_waiting_slot[c] # i}

\* A decoder that wants a slot finds one: two slots for each camera are enough
\* for its frame on the way and the one in use (the comment of
\* kGpuFrameSlots allows three), as long as no ended thread's frame still
\* takes up room.
PoolSuffices ==
    \A c \in Cameras : decoder[c] = "frame" => Available(c) \cup LeftBehind # {}

\* my_waiting_slot is "this decoder's last frame, if not yet claimed" (l.874):
\* no decoder has another's waiting frame for its own.
WaitingFrameHasOneOwner ==
    \A c, d \in Cameras : \A i \in Slots :
      /\ c # d
      /\ gpu_frames[i].state = "waiting"
      => ~(my_waiting_slot[c] = i /\ my_waiting_slot[d] = i)

=============================================================================
