----------------------------- MODULE LabsProofs -----------------------------
(***************************************************************************)
(* Proofs about labs of the training site, each about a lab by itself: the *)
(* two solvers, the pit's checklist, the two ways of taking frames from a  *)
(* camera, the presets of the camera simulator, the quiz on the field, and *)
(* then, chapter by chapter, those of the labs that the site's composite   *)
(* properties are made of (SiteProofs puts these together).                *)
(***************************************************************************)
EXTENDS LabsSolve, LabsPit, LabsSpeed, LabsSettings, LabsCoords, LabsFinale, LabsCamSetup,
        LabsFailsafes, LabsCuda, LabsApriltags, LabsCamera, LabsJetson, LabsCalibration,
        LabsPose, LabsLatency, LabsPhotonlib, LabsNetworktables, BlobProofs, FunctionTheorems

-----------------------------------------------------------------------------
(* The solvers (ch/11-calibration.js, ch/12-pose.js), for any costs, finite or not, and any      *)
(* limits on rounds and tries.                                                                   *)

\* The parts of what is kept are of one step, already taken, and no cost tried is lower.
SolveInv ==
    /\ soCost \in SolveCosts
    /\ soTried \subseteq SolveCosts \union {NotFinite}
    /\ SolverKeepsBest

\* A cost is a number (c, cur and r0's cost).
LEMMA CostsAreNumbers == SolveCosts \union {NotFinite} \subseteq Nat
BY SolveAssumption

\* Each step of a solver keeps the best (calibrate's and pnp's loops).
LEMMA SolveStep == SolveInv /\ [SolveNext]_solveVars => SolveInv'
<1> SUFFICES ASSUME SolveInv, [SolveNext]_solveVars PROVE SolveInv'
    OBVIOUS
<1>0. /\ soCost \in Nat /\ soTried \subseteq Nat
      /\ soCost \in soTried /\ \A t \in soTried : soCost <= t
    BY CostsAreNumbers DEF SolveInv, SolverKeepsBest
<1>1. ASSUME NEW c \in SolveCosts, Improves(c) PROVE SolveInv'
    <2>1. /\ c < soCost /\ soCost' = c /\ soTried' = soTried \union {c} /\ soKept' = soFits'
        BY <1>1 DEF Improves
    <2>2. \A t \in soTried' : soCost' <= t
        <3> SUFFICES ASSUME NEW t \in soTried' PROVE c <= t
            BY <2>1
        <3>1. CASE t = c
            BY <3>1, CostsAreNumbers
        <3>2. CASE t \in soTried
            BY <1>0, <2>1, <3>2, CostsAreNumbers
        <3> QED BY <2>1, <3>1, <3>2
    <2> QED BY <2>1, <2>2 DEF SolveInv, SolverKeepsBest
<1>2. ASSUME NEW c \in SolveCosts \union {NotFinite}, Reject(c) PROVE SolveInv'
    <2>1. /\ c >= soCost /\ soCost' = soCost /\ soTried' = soTried \union {c}
          /\ soKept' = soKept /\ soFits' = soFits
        BY <1>2 DEF Reject
    <2>2. soCost <= c
        BY <1>0, <2>1, CostsAreNumbers
    <2> QED BY <1>0, <2>1, <2>2 DEF SolveInv, SolverKeepsBest
<1>3. CASE Return
    BY <1>3 DEF Return, SolveInv, SolverKeepsBest
<1>4. CASE UNCHANGED solveVars
    BY <1>4 DEF solveVars, SolveInv, SolverKeepsBest
<1> QED BY <1>1, <1>2, <1>3, <1>4 DEF SolveNext

\* Whatever costs its steps lead to, a solver has at any time the best step it tried, with the
\* residuals or views of that step (calibrate, pnp).
THEOREM BestIsKept == SolveSpec => []SolverKeepsBest
<1>1. SolveInit => SolveInv
    BY CostsAreNumbers DEF SolveInit, SolveInv, SolverKeepsBest
<1>2. SolveInv => SolverKeepsBest
    BY DEF SolveInv
<1> QED BY <1>1, <1>2, SolveStep, PTL DEF SolveSpec

-----------------------------------------------------------------------------
(* The checklist of the pit page (ch/21-pit.js).                                                 *)

\* Where the browser keeps storage, it holds the open page's day and ticks at all times: every
\* way of changing either ends in count(). A page is never of a day to come.
DayInv ==
    /\ dyDay \in Nat \ {0} /\ dyToday \in 1..dyDay
    /\ dyTicked \subseteq PitItems
    /\ dyWhen \in [PitItems -> Nat]
    /\ ~dyBlocked => dySaved = [day |-> dyToday, on |-> dyTicked]
    /\ TickedToday

\* What a page opened now finds is none, or what is ticked on the page open before, today's too.
LEMMA KeptIsTodays ==
    ASSUME DayInv
    PROVE  /\ KeptTicks \subseteq PitItems
           /\ \A i \in KeptTicks : dyWhen[i] = dyDay
<1>1. CASE dyBlocked \/ dySaved.day /= dyDay
    BY <1>1 DEF KeptTicks
<1>2. CASE ~dyBlocked /\ dySaved.day = dyDay
    <2>1. dyToday = dyDay /\ KeptTicks = dyTicked
        BY <1>2 DEF DayInv, KeptTicks
    <2> QED BY <2>1 DEF DayInv, TickedToday
<1> QED BY <1>1, <1>2

\* Ticks, the clear button, switches of the tour, midnights and reloads keep it.
LEMMA DayInvHolds == DayInv /\ [DayNext]_dayVars => DayInv'
<1> SUFFICES ASSUME DayInv, [DayNext]_dayVars PROVE DayInv'
    OBVIOUS
<1>1. ASSUME NEW i \in PitItems, Tick(i) PROVE DayInv'
    <2>1. dyTicked' \subseteq PitItems /\ dyTicked' \subseteq dyTicked \union {i}
        BY <1>1 DEF DayInv, Tick
    <2>2. dyWhen' \in [PitItems -> Nat]
        BY <1>1 DEF DayInv, Tick
    <2>3. TickedToday'
        <3> SUFFICES ASSUME dyToday = dyDay, NEW j \in dyTicked' PROVE dyWhen'[j] = dyDay
            BY <1>1 DEF Tick, TickedToday
        <3>1. CASE j = i
            <4>1. i \notin dyTicked
                BY <1>1, <3>1 DEF Tick
            <4> QED BY <1>1, <3>1, <4>1 DEF Tick, DayInv
        <3>2. CASE j /= i
            <4>1. j \in dyTicked /\ dyWhen'[j] = dyWhen[j]
                BY <1>1, <2>1, <3>2 DEF Tick, DayInv
            <4> QED BY <4>1 DEF DayInv, TickedToday
        <3> QED BY <3>1, <3>2
    <2>4. (~dyBlocked => dySaved = [day |-> dyToday, on |-> dyTicked])'
        BY <1>1 DEF Tick, CountAndSave
    <2> QED BY <1>1, <2>1, <2>2, <2>3, <2>4 DEF DayInv, Tick
<1>2. ASSUME ClearDay PROVE DayInv'
    BY <1>2 DEF DayInv, ClearDay, CountAndSave, TickedToday
<1>3. ASSUME NEW mode \in {"short", "full"}, SwitchDay(mode) PROVE DayInv'
    BY <1>3 DEF DayInv, SwitchDay, CountAndSave, TickedToday
<1>4. ASSUME Midnight PROVE DayInv'
    BY <1>4 DEF DayInv, Midnight, TickedToday
<1>5. ASSUME OpenPage PROVE DayInv'
    <2>1. /\ dyTicked' = KeptTicks /\ dyTicked' \subseteq PitItems
          /\ dyDay' = dyDay /\ dyToday' = dyDay
        BY <1>5, KeptIsTodays DEF OpenPage
    <2>2. dyWhen' \in [PitItems -> Nat]
        BY <1>5 DEF OpenPage, DayInv
    <2>3. \A i \in dyTicked' : dyWhen'[i] = dyDay
        BY <1>5, <2>1, KeptIsTodays DEF OpenPage
    <2>4. (~dyBlocked => dySaved = [day |-> dyToday, on |-> dyTicked])'
        BY <1>5 DEF OpenPage, CountAndSave
    <2> QED BY <1>5, <2>1, <2>2, <2>3, <2>4 DEF DayInv, OpenPage, TickedToday
<1>6. ASSUME UNCHANGED dayVars PROVE DayInv'
    BY <1>6 DEF DayInv, dayVars, TickedToday
<1> QED BY <1>1, <1>2, <1>3, <1>4, <1>5, <1>6 DEF DayNext

\* Whatever the reader ticks, clears and reloads, over any number of days and in either tour, a
\* page opened today shows nothing ticked on another day (ch/21-pit.js, the checklist).
THEOREM TicksAreTodays == DaySpec => []TickedToday
<1>1. DayInit => DayInv
    BY DEF DayInit, DayInv, TickedToday
<1>2. DayInv => TickedToday
    BY DEF DayInv
<1> QED BY <1>1, <1>2, DayInvHolds, PTL DEF DaySpec

-----------------------------------------------------------------------------
(* The Low Latency lab (ch/10-speed.js), for any processing times and any duration.              *)

\* The frame that has come by a time is the one whose frame time it is in.
LEMMA FrameOfTime ==
    ASSUME NEW t \in Nat
    PROVE  /\ t \div TF \in Nat
           /\ (t \div TF) * TF <= t /\ t < (t \div TF + 1) * TF
BY DEF TF

\* A loop that has taken no frame is where it starts, and one that has is done with its last.
LoopSound(loop) ==
    /\ loop.taken = 0 => loop.t = 0 /\ loop.last = -1
    /\ loop.taken > 0 => loop.last \in Nat
    /\ loop.start <= loop.t
    /\ TakenWhenNewest(loop)

LowInv == LowTypeOK /\ LoopSound(llOn) /\ LoopSound(llOff) /\ WaitingLoses

\* The next frame of a loop with the mode off: newer than its last one, and the newest there is.
LEMMA NewestIsTaken ==
    ASSUME NEW loop \in Loops, LoopSound(loop), llP \in Nat
    PROVE  /\ Taken(loop, TakeNewest(loop)) \in Loops
           /\ LoopSound(Taken(loop, TakeNewest(loop)))
           /\ Taken(loop, TakeNewest(loop)).last > loop.last
<1> DEFINE k == TakeNewest(loop)
<1>1. loop.t \in Nat /\ loop.last \in Nat \union {-1} /\ loop.taken \in Nat
    BY DEF Loops
<1>2. /\ loop.t \div TF \in Nat
      /\ (loop.t \div TF) * TF <= loop.t /\ loop.t < (loop.t \div TF + 1) * TF
    BY <1>1, FrameOfTime
<1>3. k \in Nat /\ k > loop.last /\ loop.t < (k + 1) * TF
    BY <1>1, <1>2 DEF TakeNewest, TF
<1> HIDE DEF k
<1>4. Taken(loop, k) \in Loops /\ Taken(loop, k).last = k
    BY <1>1, <1>3 DEF Taken, Loops, TF
<1>5. LoopSound(Taken(loop, k))
    BY <1>1, <1>3 DEF Taken, LoopSound, TakenWhenNewest, TF
<1> QED BY <1>3, <1>4, <1>5 DEF k

\* The next frame of a loop with the mode on.
LEMMA NextIsTaken ==
    ASSUME NEW loop \in Loops, LoopSound(loop), llP \in Nat
    PROVE  /\ Taken(loop, TakeNext(loop)) \in Loops
           /\ LoopSound(Taken(loop, TakeNext(loop)))
           /\ Taken(loop, TakeNext(loop)).last > loop.last
<1> DEFINE k == TakeNext(loop)
<1>1. /\ loop.t \in Nat /\ loop.last \in Nat \union {-1} /\ loop.taken \in Nat
      /\ loop.start \in Nat
    BY DEF Loops
<1>2. /\ loop.t \div TF \in Nat
      /\ (loop.t \div TF) * TF <= loop.t /\ loop.t < (loop.t \div TF + 1) * TF
    BY <1>1, FrameOfTime
<1>3. k \in Nat /\ k > loop.last /\ loop.t < (k + 1) * TF
    BY <1>1, <1>2 DEF TakeNext, LoopSound, TakenWhenNewest, TF
<1> HIDE DEF k
<1>4. Taken(loop, k) \in Loops /\ Taken(loop, k).last = k
    BY <1>1, <1>3 DEF Taken, Loops, TF
<1>5. LoopSound(Taken(loop, k))
    BY <1>1, <1>3 DEF Taken, LoopSound, TakenWhenNewest, TF
<1> QED BY <1>3, <1>4, <1>5 DEF k

\* Of two loops that have taken as many frames, the one that does not wait ends its next one no
\* later, if it ended its last one no later.
LEMMA WaitingIsLater ==
    ASSUME NEW on \in Loops, NEW off \in Loops, LoopSound(on), LoopSound(off), llP \in Nat,
           on.taken = off.taken, off.t <= on.t
    PROVE  Taken(off, TakeNewest(off)).t <= Taken(on, TakeNext(on)).t
<1>1. /\ on.t \in Nat /\ on.taken \in Nat /\ off.t \in Nat /\ off.start \in Nat
      /\ off.last \in Nat \union {-1}
    BY DEF Loops
<1>2. /\ on.t \div TF \in Nat /\ off.t \div TF \in Nat
      /\ (off.t \div TF) * TF <= off.t /\ off.t < (off.t \div TF + 1) * TF
      /\ (on.t \div TF) * TF <= on.t /\ on.t < (on.t \div TF + 1) * TF
    BY <1>1, FrameOfTime
<1>3. CASE on.taken = 0
    <2>1. off.t = 0 /\ off.last = -1 /\ on.t = 0
        BY <1>3 DEF LoopSound
    <2>2. TakeNewest(off) = 0 /\ TakeNext(on) = 0
        BY <1>2, <1>3, <2>1 DEF TakeNewest, TakeNext, TF
    <2> QED BY <2>1, <2>2 DEF Taken, TF
<1>4. CASE on.taken > 0
    <2>1. off.last * TF <= off.t
        BY <1>1, <1>4 DEF LoopSound, TakenWhenNewest, TF
    <2>2. TakeNewest(off) * TF <= (on.t \div TF + 1) * TF /\ TakeNewest(off) \in Nat
        BY <1>1, <1>2, <2>1 DEF TakeNewest, TF
    <2>3. TakeNext(on) = on.t \div TF + 1
        BY <1>1, <1>4 DEF TakeNext
    <2> HIDE DEF TF
    <2> QED BY <1>1, <1>2, <2>2, <2>3 DEF Taken, TF
<1> QED BY <1>1, <1>3, <1>4

\* A frame of both loops, and a dragged slider, keep it.
LEMMA LowInvHolds == LowInv /\ [LowNext]_llVars => LowInv'
<1> SUFFICES ASSUME LowInv, [LowNext]_llVars PROVE LowInv'
    OBVIOUS
<1>1. CASE SimulateFrame
    <2>0. /\ llP \in Nat /\ llP' = llP /\ llOn \in Loops /\ llOff \in Loops
          /\ LoopSound(llOn) /\ LoopSound(llOff) /\ LlUntil \in Nat
        BY <1>1, SpeedAssumption DEF LowInv, LowTypeOK, SimulateFrame
    <2>1. llOff' \in Loops /\ LoopSound(llOff')
        BY <1>1, <2>0, NewestIsTaken DEF SimulateFrame
    <2>2. llOn' \in Loops /\ LoopSound(llOn')
        BY <1>1, <2>0, NextIsTaken DEF SimulateFrame
    <2>3. WaitingLoses'
        <3>1. CASE llOn.taken = llOff.taken /\ llOn.t < LlUntil
            <4>1. llOff.t <= llOn.t /\ llOff.t < LlUntil
                BY <2>0, <3>1 DEF LowInv, WaitingLoses, Loops
            <4>2. /\ llOff' = Taken(llOff, TakeNewest(llOff))
                  /\ llOn' = Taken(llOn, TakeNext(llOn))
                BY <1>1, <3>1, <4>1 DEF SimulateFrame
            <4>3. llOff'.t <= llOn'.t
                BY <2>0, <3>1, <4>1, <4>2, WaitingIsLater
            <4>4. llOff'.taken = llOff.taken + 1 /\ llOn'.taken = llOn.taken + 1
                BY <4>2 DEF Taken
            <4> QED BY <2>0, <3>1, <4>3, <4>4 DEF WaitingLoses, Loops
        <3>2. CASE ~(llOn.taken = llOff.taken /\ llOn.t < LlUntil)
            <4>1. llOn.t >= LlUntil
                BY <2>0, <3>2 DEF LowInv, WaitingLoses, Loops
            <4>2. llOn' = llOn
                BY <1>1, <2>0, <4>1 DEF SimulateFrame, Loops
            <4>3. llOff'.taken = llOff.taken + 1
                BY <1>1, <2>0, <4>1 DEF SimulateFrame, Taken, Loops
            <4> QED BY <2>0, <4>1, <4>2, <4>3 DEF LowInv, WaitingLoses, Loops
        <3> QED BY <3>1, <3>2
    <2> QED BY <2>0, <2>1, <2>2, <2>3 DEF LowInv, LowTypeOK
<1>2. ASSUME NEW p \in LlTimes, DragTime(p) PROVE LowInv'
    BY <1>2, SpeedAssumption
    DEF DragTime, NotStarted, LowInv, LowTypeOK, Loops, LoopSound, TakenWhenNewest, WaitingLoses
<1>3. CASE UNCHANGED llVars
    BY <1>3 DEF llVars, LowInv, LowTypeOK, WaitingLoses
<1> QED BY <1>1, <1>2, <1>3 DEF LowNext

\* The lab starts with both loops before their first frame.
LEMMA LowInvInit == LowInit => LowInv
BY SpeedAssumption
DEF LowInit, NotStarted, LowInv, LowTypeOK, Loops, LoopSound, TakenWhenNewest, WaitingLoses

\* Waiting for the next frame never takes more frames than taking the newest one, whatever the
\* processing time and however long both run (ch/10-speed.js, simulate).
THEOREM WaitingNeverGains == LowSpec => []WaitingLoses
<1>1. LowInv => WaitingLoses
    BY DEF LowInv
<1> QED BY <1>1, LowInvInit, LowInvHolds, PTL DEF LowSpec

\* Both loops process a frame once it has come, and while no newer one has.
THEOREM FramesAreNewest == LowSpec => []NewestTaken
<1>1. LowInv => NewestTaken
    BY DEF LowInv, LoopSound, NewestTaken
<1> QED BY <1>1, LowInvInit, LowInvHolds, PTL DEF LowSpec

\* Neither loop processes a frame twice, or one older than its last.
THEOREM FramesNeverRepeat == LowSpec => FramesForward
<1> DEFINE A == /\ llOff'.taken > llOff.taken => llOff'.last > llOff.last
                /\ llOn'.taken > llOn.taken => llOn'.last > llOn.last
<1>1. LowInv /\ [LowNext]_llVars => [A]_llVars
    <2> SUFFICES ASSUME LowInv, LowNext PROVE A
        BY DEF LowInv
    <2>0. /\ llP \in Nat /\ llOn \in Loops /\ llOff \in Loops
          /\ LoopSound(llOn) /\ LoopSound(llOff)
        BY DEF LowInv, LowTypeOK
    <2>1. CASE SimulateFrame
        <3>1. llOff' = llOff \/ llOff'.last > llOff.last
            BY <2>0, <2>1, NewestIsTaken DEF SimulateFrame
        <3>2. llOn' = llOn \/ llOn'.last > llOn.last
            BY <2>0, <2>1, NextIsTaken DEF SimulateFrame
        <3> QED BY <2>0, <3>1, <3>2 DEF Loops
    <2>2. ASSUME NEW p \in LlTimes, DragTime(p) PROVE A
        BY <2>0, <2>2 DEF DragTime, NotStarted, Loops
    <2> QED BY <2>1, <2>2 DEF LowNext
<1> QED BY <1>1, LowInvInit, LowInvHolds, PTL DEF LowSpec, FramesForward

-----------------------------------------------------------------------------
(* The camera simulator (ch/04-settings.js), for any order of drags, presets, frames and the     *)
(* picture's arrival.                                                                            *)

\* Setting a preset's sliders gives them its values.
LEMMA PresetTaken ==
    ASSUME NEW settings, NEW p, NEW key \in PresetKeys
    PROVE  WithPreset(settings, p)[key] = PresetValues[p][key]
<1>1. key \in Sliders
    BY DEF PresetKeys
<1> QED BY <1>1 DEF WithPreset

\* A turn of the robot is no setting of the camera.
LEMMA SpinIsNoSetting ==
    ASSUME NEW settings \in [Sliders -> 0..200], NEW x, NEW key \in PresetKeys
    PROVE  [settings EXCEPT !["spin"] = x][key] = settings[key]
<1>1. key \in Sliders /\ key /= "spin"
    BY DEF PresetKeys
<1> QED BY <1>1

\* The settings before the picture has come are the default ones; after, they are the sliders'.
PresetInv ==
    /\ stInputs \in [Sliders -> 0..200]
    /\ PresetIsSet

\* What the sliders may be dragged to.
LEMMA SlidersInRange ==
    /\ \A key \in Sliders : SliderValues(key) \subseteq 0..200
    /\ \A p \in CameraPresets, key \in PresetKeys : PresetValues[p][key] \in 0..200
    /\ Default \in [Sliders -> 0..200]
BY DEF Sliders, PresetKeys, SliderValues, PresetValues, CameraPresets, Default

\* Every change of the page's controls keeps it.
LEMMA PresetInvHolds == PresetInv /\ [SettingsNext]_settingsVars => PresetInv'
<1> SUFFICES ASSUME PresetInv, [SettingsNext]_settingsVars PROVE PresetInv'
    OBVIOUS
<1>1. ASSUME NEW key \in Sliders, NEW x \in SliderValues(key), MoveUnbound(key, x)
      PROVE  PresetInv'
    BY <1>1, SlidersInRange DEF MoveUnbound, PresetInv, PresetIsSet
<1>2. ASSUME NEW p \in CameraPresets, PickUnbound(p) PROVE PresetInv'
    BY <1>2 DEF PickUnbound, PresetInv, PresetIsSet
<1>3. CASE Bind \/ FailToLoad
    BY <1>3 DEF Bind, FailToLoad, PresetInv, PresetIsSet
<1>4. ASSUME NEW key \in Sliders, NEW x \in SliderValues(key), DragSlider(key, x)
      PROVE  PresetInv'
    <2>1. stInputs' \in [Sliders -> 0..200] /\ stS' = stInputs' /\ stPend' /\ stReady' = "ready"
        BY <1>4, SlidersInRange DEF DragSlider, PresetInv, PresetIsSet
    <2>2. CASE key = "spin"
        <3>1. UNCHANGED <<stPick, stCustom>> /\ stS' = [stS EXCEPT !["spin"] = x]
            BY <1>4, <2>2 DEF DragSlider
        <3>2. /\ stS \in [Sliders -> 0..200]
              /\ stPick /= "custom" => \A k \in PresetKeys : stS[k] = PresetValues[stPick][k]
            BY <1>4 DEF DragSlider, PresetInv, PresetIsSet
        <3>3. stPick /= "custom" => \A k \in PresetKeys : stS'[k] = PresetValues[stPick][k]
            BY <3>1, <3>2, SpinIsNoSetting
        <3> QED BY <1>4, <2>1, <3>1, <3>3 DEF DragSlider, PresetInv, PresetIsSet
    <2>3. CASE key /= "spin"
        BY <1>4, <2>1, <2>3 DEF DragSlider, PresetInv, PresetIsSet
    <2> QED BY <2>2, <2>3
<1>5. ASSUME NEW p \in CameraPresets, ApplyPreset(p) PROVE PresetInv'
    <2>1. stInputs' = WithPreset(stInputs, p) /\ stS' = stInputs' /\ stPick' = p /\ ~stCustom'
          /\ stPend'
        BY <1>5 DEF ApplyPreset, PresetInv, PresetIsSet
    <2>2. stInputs' \in [Sliders -> 0..200]
        BY <2>1, SlidersInRange DEF WithPreset, PresetInv
    <2>3. p /= "custom"
        BY DEF CameraPresets, PresetValues
    <2>4. \A key \in PresetKeys : stS'[key] = PresetValues[p][key]
        BY <2>1, PresetTaken
    <2> QED BY <2>1, <2>2, <2>3, <2>4 DEF PresetInv, PresetIsSet
<1>6. CASE ResizeHistogram
    BY <1>6 DEF ResizeHistogram, PresetInv, PresetIsSet
<1>7. CASE RenderPicture
    BY <1>7, Zenon DEF RenderPicture, PresetInv, PresetIsSet
<1>8. CASE UNCHANGED settingsVars
    BY <1>8 DEF settingsVars, PresetInv, PresetIsSet
<1> QED BY <1>1, <1>2, <1>3, <1>4, <1>5, <1>6, <1>7, <1>8 DEF SettingsNext

\* Whenever the picture comes and whatever is moved before and after, the list names no preset but
\* the one that is set, and the picture is of the sliders or about to be (ch/04-settings.js).
THEOREM PresetNamedIsSet == SettingsSpec => []PresetIsSet
<1>1. SettingsInit => PresetInv
    BY SlidersInRange DEF SettingsInit, PresetInv, PresetIsSet
<1>2. PresetInv => PresetIsSet
    BY DEF PresetInv
<1> QED BY <1>1, <1>2, PresetInvHolds, PTL DEF SettingsSpec

-----------------------------------------------------------------------------
(* The quiz on the field (ch/19-coords.js), for any questions the page may ask, their answers in *)
(* any order.                                                                                    *)

\* Rounded to a tenth of a metre, a y and the one measured from the other wall stay apart.
LEMMA WallsApart ==
    ASSUME NEW p \in Askable
    PROVE  (p.y + 50) \div 100 /= (FieldWidth - p.y + 50) \div 100
BY DEF Askable, Abs, FieldWidth

\* Written from -180 to 179, a heading is neither its mirror image nor the one turned about.
LEMMA HeadingsApart ==
    ASSUME NEW p \in Askable
    PROVE  WrapDeg(p.h) /= WrapDeg(-p.h) /\ WrapDeg(p.h) /= WrapDeg(p.h + 180)
<1>1. p.h \in {30, 45, 60, 90, 120, 135, 150, -30, -45, -60, -90, -120, -135, -150}
    BY DEF Askable
<1> QED BY <1>1 DEF WrapDeg

\* No two of a question's four answers read alike.
LEMMA AnswersApart ==
    ASSUME NEW p \in Askable, NEW a \in AnswerKinds, NEW b \in AnswerKinds, a /= b
    PROVE  PoseShown(Answer4(p)[a]) /= PoseShown(Answer4(p)[b])
<1>1. /\ PoseShown(Answer4(p).ok).y /= PoseShown(Answer4(p).mirror).y
      /\ PoseShown(Answer4(p).ok).y /= PoseShown(Answer4(p).red).y
      /\ PoseShown(Answer4(p).cw).y /= PoseShown(Answer4(p).mirror).y
      /\ PoseShown(Answer4(p).cw).y /= PoseShown(Answer4(p).red).y
    BY WallsApart DEF Answer4, PoseShown, Pose, RedsSpot
<1>2. /\ PoseShown(Answer4(p).ok).h /= PoseShown(Answer4(p).cw).h
      /\ PoseShown(Answer4(p).mirror).h /= PoseShown(Answer4(p).red).h
    BY HeadingsApart DEF Answer4, PoseShown, Pose, RedsSpot
<1> QED BY <1>1, <1>2 DEF AnswerKinds

\* What is asked and picked, of which the score counts the answers once each.
QuizInv ==
    /\ coQ = NoQuestion \/ (coQ.pose \in CoAsked /\ coQ.opts \in CoOrders)
    /\ coPick \in 0..4 /\ coN \in Nat /\ coRight \in Nat /\ coSeen \in Nat
    /\ QuizFair

\* A robot asked about stands on the field.
LEMMA AskedOnField == ASSUME NEW p \in Askable PROVE p.x > 0
<1>1. p.x \in 1200..(FieldLength - 1200)
    BY DEF Askable
<1>2. FieldLength - 1200 \in Int
    BY DEF FieldLength
<1> HIDE DEF FieldLength
<1> QED BY <1>1, <1>2

\* A question is no empty one, its four answers read apart, and one of them is right.
LEMMA AskedIsFair ==
    ASSUME NEW p \in CoAsked, NEW opts \in CoOrders
    PROVE  /\ [pose |-> p, opts |-> opts] /= NoQuestion
           /\ \A a, b \in AnswerKinds :
                  a /= b => PoseShown(Answer4(p)[a]) /= PoseShown(Answer4(p)[b])
           /\ \A kind \in AnswerKinds : \E i \in 1..4 : opts[i] = kind
<1>0. p \in Askable
    BY CoordsAssumption
<1>1. p.x > 0
    BY <1>0, AskedOnField
<1>2. [pose |-> p, opts |-> opts] /= NoQuestion
    BY <1>1 DEF NoQuestion, Pose
<1> QED BY <1>0, <1>2, AnswersApart, CoordsAssumption

\* A new question is fair, and none of it is counted yet.
LEMMA NewQuestionFair ==
    ASSUME QuizInv, NEW p \in CoAsked, NEW opts \in CoOrders, NewQ(p, opts), UNCHANGED quizLeft
    PROVE  QuizInv'
<1>1. /\ coQ' = [pose |-> p, opts |-> opts] /\ coQ'.pose = p /\ coQ'.opts = opts
      /\ coPick' = 0 /\ coFb' = "pick one" /\ coMarks' = Unmarked /\ coSeen' = coSeen + 1
      /\ coRight' = coRight /\ coN' = coN
    BY DEF NewQ, quizLeft
<1>2. /\ coN <= coSeen /\ coRight <= coN
      /\ coN \in Nat /\ coRight \in Nat /\ coSeen \in Nat
    BY DEF QuizInv, QuizFair, ScoreTrue
<1>3. ~(\E i \in 1..4 : coMarks'[i] = "right") /\ ~(\E i \in 1..4 : coMarks'[i] = "wrong")
    BY <1>1 DEF Unmarked
<1>4. QuestionFair'
    BY <1>1, AskedIsFair DEF QuestionFair
<1>5. MarksOfPick'
    <2>1. coFb' = "pick one" /\ coPick' = 0
        BY <1>1
    <2>2. \A i \in 1..4 : coMarks'[i] /= "right" /\ coMarks'[i] /= "wrong"
        BY <1>3
    <2>3. \A i \in 1..4 : i /= 0
        OBVIOUS
    <2> QED BY <2>1, <2>2, <2>3 DEF MarksOfPick
<1>6. ScoreTrue'
    <2>1. /\ coN' = coN /\ coRight' = coRight /\ coSeen' = coSeen + 1
          /\ coPick' = 0
        BY <1>1
    <2> QED BY <1>2, <2>1 DEF ScoreTrue
<1>7. coQ'.pose \in CoAsked /\ coQ'.opts \in CoOrders
    BY <1>1
<1>8. coPick' \in 0..4 /\ coN' \in Nat /\ coRight' \in Nat /\ coSeen' \in Nat
    <2>1. coN' = coN /\ coRight' = coRight /\ coSeen' = coSeen + 1 /\ coPick' = 0
        BY <1>1
    <2> QED BY <1>2, <2>1
<1> QED BY <1>4, <1>5, <1>6, <1>7, <1>8 DEF QuizInv, QuizFair

\* Every tap, turn, switch, question and answer keeps it.
LEMMA QuizInvHolds == QuizInv /\ [CoordsNext]_coordsVars => QuizInv'
<1> SUFFICES ASSUME QuizInv, [CoordsNext]_coordsVars PROVE QuizInv'
    OBVIOUS
<1>1. ASSUME NEW mode \in {"explore", "quiz"}, SetFieldMode(mode) PROVE QuizInv'
    <2>1. CASE mode = "quiz" /\ coQ = NoQuestion
        BY <1>1, <2>1, NewQuestionFair DEF SetFieldMode
    <2>2. CASE ~(mode = "quiz" /\ coQ = NoQuestion)
        <3>1. UNCHANGED <<coQ, coPick, coFb, coMarks, coSeen, coRight, coN>> /\ coMode' = mode
            BY <1>1, <2>2 DEF SetFieldMode, quizLeft
        <3> QED BY <2>2, <3>1 DEF QuizInv, QuizFair, QuestionFair, MarksOfPick, ScoreTrue
    <2> QED BY <2>1, <2>2
<1>2. CASE NextRobot
    BY <1>2, NewQuestionFair DEF NextRobot
<1>3. ASSUME NEW i \in 1..4, PickAnswer(i) PROVE QuizInv'
    <2>1. /\ coQ' = coQ /\ coQ /= NoQuestion /\ coPick = 0 /\ coPick' = i /\ coN' = coN + 1
          /\ coSeen' = coSeen /\ coMode' = coMode /\ coFb' = coQ.opts[i]
        BY <1>3 DEF PickAnswer, QuizInv, QuizFair, QuestionFair
    <2>2. coQ.opts \in [1..4 -> AnswerKinds] /\ (\E k \in 1..4 : coQ.opts[k] = "ok")
        BY <2>1, CoordsAssumption DEF QuizInv, AnswerKinds
    <2>3. /\ \E k \in 1..4 : coMarks'[k] = "right"
          /\ \A k \in 1..4 : coMarks'[k] = "wrong" <=> k = coPick' /\ coFb' /= "ok"
        <3>1. coMarks' = [k \in 1..4 |-> IF coQ.opts[k] = "ok" THEN "right"
                                         ELSE IF k = i THEN "wrong" ELSE ""]
            BY <1>3 DEF PickAnswer
        <3>2. PICK k \in 1..4 : coQ.opts[k] = "ok"
            BY <2>2
        <3>3. coMarks'[k] = "right"
            BY <3>1, <3>2
        <3> QED BY <2>1, <3>1, <3>3
    <2>4. coN + 1 <= coSeen /\ coRight <= coN
        BY <2>1 DEF QuizInv, QuizFair, ScoreTrue
    <2>5. /\ coRight' \in Nat /\ coRight' <= coN' /\ coN' <= coSeen'
          /\ coFb' = "ok" => coRight' > 0
        <3>1. coN' = coN + 1 /\ coSeen' = coSeen /\ coFb' = coQ.opts[i]
            BY <2>1
        <3>2. coRight' = IF coFb' = "ok" THEN coRight + 1 ELSE coRight
            BY <1>3 DEF PickAnswer
        <3>3. coRight \in Nat /\ coN \in Nat /\ coSeen \in Nat
            BY DEF QuizInv
        <3> HIDE DEF QuizInv
        <3> QED BY <2>4, <3>1, <3>2, <3>3
    <2>6. QuestionFair'
        BY <2>1 DEF QuizInv, QuizFair, QuestionFair
    <2>7. MarksOfPick'
        <3>1. coQ' = coQ /\ coFb' = coQ.opts[coPick'] /\ coPick' /= 0
            BY <2>1
        <3> QED BY <2>3, <3>1 DEF MarksOfPick
    <2>8. ScoreTrue'
        BY <2>1, <2>5 DEF ScoreTrue
    <2> QED BY <2>1, <2>5, <2>6, <2>7, <2>8 DEF QuizInv, QuizFair
<1>4. ASSUME NEW spot \in CoSpots, Place(spot) PROVE QuizInv'
    BY <1>4
    DEF Place, quizLeft, QuizInv, QuizFair, QuestionFair, MarksOfPick, ScoreTrue
<1>5. ASSUME NEW h \in CoTurns, TurnRobot(h) PROVE QuizInv'
    BY <1>5 DEF TurnRobot, quizLeft, QuizInv, QuizFair, QuestionFair, MarksOfPick, ScoreTrue
<1>6. CASE UNCHANGED coordsVars
    BY <1>6 DEF coordsVars, QuizInv, QuizFair, QuestionFair, MarksOfPick, ScoreTrue
<1> QED BY <1>1, <1>2, <1>3, <1>4, <1>5, <1>6 DEF CoordsNext

\* Of the four answers shown, rounded as the page writes them, exactly one is right; each question
\* counts once in the score, and the marks and the feedback are of its answer (ch/19-coords.js).
THEOREM QuizIsFair == CoordsSpec => []QuizFair
<1>1. CoordsInit => QuizInv
    <2> SUFFICES ASSUME CoordsInit PROVE QuizInv
        OBVIOUS
    <2>1. /\ coMode = "explore" /\ coQ = NoQuestion /\ coPick = 0 /\ coN = 0 /\ coRight = 0
          /\ coSeen = 0
        BY DEF CoordsInit
    <2> QED BY <2>1 DEF QuizInv, QuizFair, QuestionFair, MarksOfPick, ScoreTrue
<1>2. QuizInv => QuizFair
    BY DEF QuizInv
<1> QED BY <1>1, <1>2, QuizInvHolds, PTL DEF CoordsSpec

\* Written from -180 to 179, a heading turned about twice is itself.
LEMMA TurnedTwice == ASSUME NEW h \in Int PROVE WrapDeg(h + 180 + 180) = WrapDeg(h)
BY DEF WrapDeg

\* A robot inside the walls has its matching spot inside them too, and is the match of that one.
LEMMA SpotsMatch ==
    ASSUME NEW x \in 450..(FieldLength - 450), NEW y \in 450..(FieldWidth - 450), NEW h \in Int
    PROVE  LET red == RedsSpot(Pose(x, y, h))
           IN /\ red.x \in 450..(FieldLength - 450) /\ red.y \in 450..(FieldWidth - 450)
              /\ PoseShown(RedsSpot(red)) = PoseShown(Pose(x, y, h))
<1>1. RedsSpot(Pose(x, y, h)) = Pose(FieldLength - x, FieldWidth - y, h + 180)
    BY DEF RedsSpot, Pose
<1>2. RedsSpot(Pose(FieldLength - x, FieldWidth - y, h + 180)) = Pose(x, y, h + 180 + 180)
    <2>1. FieldLength - (FieldLength - x) = x /\ FieldWidth - (FieldWidth - y) = y
        BY DEF FieldLength, FieldWidth
    <2> QED BY <2>1 DEF RedsSpot, Pose
<1>3. PoseShown(Pose(x, y, h + 180 + 180)) = PoseShown(Pose(x, y, h))
    BY TurnedTwice DEF PoseShown, Pose
<1>4. /\ FieldLength - x \in 450..(FieldLength - 450)
      /\ FieldWidth - y \in 450..(FieldWidth - 450)
    BY DEF FieldLength, FieldWidth
<1> QED BY <1>1, <1>2, <1>3, <1>4 DEF Pose

\* Turned about, a heading to one wall is one to the wall across.
LEMMA FacingTurned ==
    ASSUME NEW h \in Int
    PROVE  /\ WrapDeg(h) = 0 <=> WrapDeg(h + 180) = -180
           /\ WrapDeg(h) = -180 <=> WrapDeg(h + 180) = 0
           /\ WrapDeg(h) = 90 <=> WrapDeg(h + 180) = -90
           /\ WrapDeg(h) = -90 <=> WrapDeg(h + 180) = 90
BY DEF WrapDeg

\* A metre ahead of a robot, its matching spot is a metre ahead of the match.
LEMMA SpotsDriveAlike ==
    ASSUME NEW x \in Int, NEW y \in Int, NEW h \in Int
    PROVE  RedsSpot(MetreAhead(Pose(x, y, h))) = MetreAhead(RedsSpot(Pose(x, y, h)))
<1>1. /\ Along(h + 180) = -Along(h) /\ Along(h) \in Int
      /\ Across(h + 180) = -Across(h) /\ Across(h) \in Int
    BY FacingTurned DEF Along, Across
<1>2. FieldLength \in Int /\ FieldWidth \in Int
    BY DEF FieldLength, FieldWidth
<1>3. /\ FieldLength - (x + Along(h)) = FieldLength - x + Along(h + 180)
      /\ FieldWidth - (y + Across(h)) = FieldWidth - y + Across(h + 180)
    BY <1>1, <1>2
<1>4. RedsSpot(MetreAhead(Pose(x, y, h)))
          = Pose(FieldLength - (x + Along(h)), FieldWidth - (y + Across(h)), h + 180)
    BY DEF MetreAhead, RedsSpot, Pose
<1>5. MetreAhead(RedsSpot(Pose(x, y, h)))
          = Pose(FieldLength - x + Along(h + 180), FieldWidth - y + Across(h + 180), h + 180)
    BY DEF MetreAhead, RedsSpot, Pose
<1> QED BY <1>3, <1>4, <1>5

\* The robot is inside the walls, whatever was tapped, and the code is of it.
CodeInv ==
    /\ \E x \in 450..(FieldLength - 450), y \in 450..(FieldWidth - 450), h \in Int :
           coEx = Pose(x, y, h)
    /\ coCode = ExCode(coEx)

\* Clamping leads into the bounds it is given.
LEMMA ClampedBetween ==
    ASSUME NEW v \in Int, NEW low \in Int, NEW high \in Int, low <= high
    PROVE  Clamped(v, low, high) \in low..high
BY DEF Clamped

\* Every tap, turn, switch, question and answer keeps it.
LEMMA CodeInvHolds == CodeInv /\ [CoordsNext]_coordsVars => CodeInv'
<1> SUFFICES ASSUME CodeInv, [CoordsNext]_coordsVars PROVE CodeInv'
    OBVIOUS
<1>1. PICK x \in 450..(FieldLength - 450), y \in 450..(FieldWidth - 450), h \in Int :
          coEx = Pose(x, y, h)
    BY DEF CodeInv
<1>2. CASE UNCHANGED <<coEx, coCode>>
    BY <1>2 DEF CodeInv
<1>3. ASSUME NEW spot \in CoSpots, Place(spot) PROVE CodeInv'
    <2>1. spot[1] \in Int /\ spot[2] \in Int
        BY CoordsAssumption
    <2>2. /\ Clamped(spot[1], 450, FieldLength - 450) \in 450..(FieldLength - 450)
          /\ Clamped(spot[2], 450, FieldWidth - 450) \in 450..(FieldWidth - 450)
        <3>1. /\ 450 \in Int
              /\ FieldLength - 450 \in Int /\ 450 <= FieldLength - 450
              /\ FieldWidth - 450 \in Int /\ 450 <= FieldWidth - 450
            BY DEF FieldLength, FieldWidth
        <3>2. \A v \in Int : Clamped(v, 450, FieldLength - 450) \in 450..(FieldLength - 450)
            BY <3>1, ClampedBetween
        <3>3. \A v \in Int : Clamped(v, 450, FieldWidth - 450) \in 450..(FieldWidth - 450)
            BY <3>1, ClampedBetween
        <3> QED BY <2>1, <3>2, <3>3
    <2>3. coEx.h \in Int
        BY <1>1 DEF Pose
    <2> QED BY <1>3, <2>2, <2>3 DEF Place, CodeInv
<1>4. ASSUME NEW t \in CoTurns, TurnRobot(t) PROVE CodeInv'
    <2>1. t \in Int
        BY CoordsAssumption
    <2>2. coEx' = Pose(x, y, t)
        BY <1>1, <1>4 DEF TurnRobot, Pose
    <2> QED BY <1>4, <2>1, <2>2 DEF TurnRobot, CodeInv
<1> QED
    BY <1>2, <1>3, <1>4
    DEF CoordsNext, SetFieldMode, NextRobot, PickAnswer, coordsVars

\* Whatever the reader taps and turns, the code is of the robot drawn, which stands inside the
\* walls with its matching spot, and each of the two is the other's match (ch/19-coords.js).
THEOREM CodeIsOfRobot == CoordsSpec => []CodeOfRobot
<1>1. CoordsInit => CodeInv
    <2> SUFFICES ASSUME CoordsInit PROVE CodeInv
        OBVIOUS
    <2>1. 3000 \in 450..(FieldLength - 450) /\ 2000 \in 450..(FieldWidth - 450) /\ 45 \in Int
        BY DEF FieldLength, FieldWidth
    <2>2. coEx = Pose(3000, 2000, 45) /\ coCode = ExCode(coEx)
        BY DEF CoordsInit
    <2> QED BY <2>1, <2>2 DEF CodeInv
<1>2. CodeInv => CodeOfRobot
    <2> SUFFICES ASSUME CodeInv PROVE CodeOfRobot
        OBVIOUS
    <2>1. PICK x \in 450..(FieldLength - 450), y \in 450..(FieldWidth - 450), h \in Int :
              coEx = Pose(x, y, h)
        BY DEF CodeInv
    <2>2. coCode[1] = PoseShown(coEx) /\ coCode[2] = PoseShown(RedsSpot(coEx))
        BY DEF CodeInv, ExCode
    <2>3. x \in Int /\ y \in Int
        BY DEF FieldLength, FieldWidth
    <2>4. RedsSpot(MetreAhead(coEx)) = MetreAhead(RedsSpot(coEx))
        BY <2>1, <2>3, SpotsDriveAlike
    <2> QED BY <2>1, <2>2, <2>4, SpotsMatch DEF CodeOfRobot
<1> QED BY <1>1, <1>2, CodeInvHolds, PTL DEF CoordsSpec

-----------------------------------------------------------------------------
(* The quiz and the glossary of the last chapter (ch/17-finale.js).                              *)

\* The option marked right is, turned back, the one written as right.
LEMMA MarkedIsRight == \A q \in Questions : Written(q, Marked(q)) = QuizRight[q]
<1> SUFFICES ASSUME NEW q \in Questions PROVE Written(q, Marked(q)) = QuizRight[q]
    OBVIOUS
<1>1. QuizRight[q] \in 0..3 /\ q \in Int
    BY FinaleAssumption DEF Questions
<1>2. Rotation(q) \in 0..3
    BY <1>1 DEF Rotation
<1> QED BY <1>1, <1>2 DEF Written, Marked

\* An answer, a reset, a switch of the tour and a reload keep the cards, the score and the
\* storage together.
LEMMA QuizStep == QuizTrue /\ [QuizNext]_quizVars => QuizTrue'
<1> SUFFICES ASSUME QuizTrue, [QuizNext]_quizVars PROVE QuizTrue'
    OBVIOUS
<1>1. (\A q \in Questions : Written(q, Marked(q)) = QuizRight[q])'
    BY MarkedIsRight
<1>2. ASSUME NEW q \in Questions, NEW j \in QuizOptions, QuizClick(q, j) PROVE QuizTrue'
    BY <1>1, <1>2 DEF QuizTrue, QuizClick, Save
<1>3. ASSUME QuizReset PROVE QuizTrue'
    BY <1>1, <1>3 DEF QuizTrue, QuizReset, Save
<1>4. ASSUME NEW mode \in {"short", "full"}, QuizSwitch(mode) PROVE QuizTrue'
    BY <1>1, <1>4 DEF QuizTrue, QuizSwitch
<1>5. ASSUME QuizReload PROVE QuizTrue'
    BY <1>1, <1>5 DEF QuizTrue, QuizReload, Loaded
<1>6. ASSUME UNCHANGED quizVars PROVE QuizTrue'
    BY <1>1, <1>6 DEF QuizTrue, quizVars
<1> QED BY <1>2, <1>3, <1>4, <1>5, <1>6 DEF QuizNext

\* A page that opens has no answers, and a score of none.
LEMMA QuizStart == QuizInit => QuizTrue
BY MarkedIsRight DEF QuizInit, QuizTrue

\* Every way of changing the list or the box ends in filter().
LEMMA GlossStep == GlossaryFiltered /\ [GlossNext]_glossVars => GlossaryFiltered'
BY DEF GlossaryFiltered, GlossNext, GlossLearns, GlossSearch, GlossBuilds, glossVars

\* It holds at the start.
LEMMA GlossStart == GlossInit => GlossaryFiltered
BY DEF GlossInit, GlossaryFiltered, Found

-----------------------------------------------------------------------------
(* The bench sheet (ch/20-camsetup.js).                                                          *)

\* Ticks, other cameras, the clear button and reloads show the page of the camera chosen.
LEMMA SheetStep ==
    SheetTypeOK /\ SheetOfCamera /\ [SheetNext]_sheetVars => SheetTypeOK' /\ SheetOfCamera'
<1> SUFFICES ASSUME SheetTypeOK, SheetOfCamera, [SheetNext]_sheetVars
             PROVE  SheetTypeOK' /\ SheetOfCamera'
    OBVIOUS
<1> USE DEF SheetTypeOK, SheetOfCamera, ShowSheet
<1>1. ASSUME NEW i \in SheetSteps, TickStep(i) PROVE SheetTypeOK' /\ SheetOfCamera'
    BY <1>1 DEF TickStep, Toggled, SaveSheet
<1>2. ASSUME NEW cam \in SheetCams, ChooseCam(cam) PROVE SheetTypeOK' /\ SheetOfCamera'
    BY <1>2 DEF ChooseCam
<1>3. ASSUME NEW cam \in SheetCams, OpenSheet(cam) PROVE SheetTypeOK' /\ SheetOfCamera'
    BY <1>3 DEF OpenSheet, NoSheet
<1>4. ASSUME ClearSheet PROVE SheetTypeOK' /\ SheetOfCamera'
    BY <1>4 DEF ClearSheet, SaveSheet
<1>5. ASSUME UNCHANGED sheetVars PROVE SheetTypeOK' /\ SheetOfCamera'
    BY <1>5 DEF sheetVars
<1> QED BY <1>1, <1>2, <1>3, <1>4, <1>5 DEF SheetNext

\* It holds at the start.
LEMMA SheetStart == SheetInit => SheetTypeOK /\ SheetOfCamera
BY DEF SheetInit, SheetTypeOK, SheetOfCamera, NoSheet

-----------------------------------------------------------------------------
(* The player of faults and the terminal (ch/16-failsafes.js).                                   *)

\* The steps told that name a component, and what it is lit as after them: the kind of the last.
StepsTelling(fault, step, c) == {k \in 1..step : c \in Faults[fault][k].comps}
LastOf(S) == CHOOSE k \in S : \A j \in S : j <= k
LitAfter(fault, step, c) ==
    IF StepsTelling(fault, step, c) = {} THEN "none" ELSE Faults[fault][LastOf(StepsTelling(fault, step, c))].kind

\* One step more lights its own components and leaves the others.
LEMMA LitOneMore ==
    ASSUME NEW fault, NEW step \in Nat, NEW c
    PROVE  LitAfter(fault, step + 1, c) =
               IF c \in Faults[fault][step + 1].comps THEN Faults[fault][step + 1].kind
               ELSE LitAfter(fault, step, c)
<1>1. 1..(step + 1) = (1..step) \union {step + 1}
    OBVIOUS
<1>2. CASE c \in Faults[fault][step + 1].comps
    <2>1. step + 1 \in StepsTelling(fault, step + 1, c)
        BY <1>2 DEF StepsTelling
    <2>2. \A j \in StepsTelling(fault, step + 1, c) : j <= step + 1 /\ j \in Int
        BY DEF StepsTelling
    <2>3. LastOf(StepsTelling(fault, step + 1, c)) = step + 1
        BY <2>1, <2>2 DEF LastOf
    <2> QED BY <1>2, <2>1, <2>3 DEF LitAfter
<1>3. CASE c \notin Faults[fault][step + 1].comps
    <2>1. StepsTelling(fault, step + 1, c) = StepsTelling(fault, step, c)
        BY <1>1, <1>3 DEF StepsTelling
    <2> QED BY <1>3, <2>1 DEF LitAfter
<1> QED BY <1>2, <1>3

\* The first step lights its components, and nothing has been lit before it.
LEMMA LitFirst ==
    ASSUME NEW fault, NEW c
    PROVE  LitAfter(fault, 1, c) =
               IF c \in Faults[fault][1].comps THEN Faults[fault][1].kind ELSE "none"
<1>1. StepsTelling(fault, 0, c) = {}
    BY DEF StepsTelling
<1>2. LitAfter(fault, 0, c) = "none"
    BY <1>1 DEF LitAfter
<1>3. LitAfter(fault, 0 + 1, c) =
          IF c \in Faults[fault][0 + 1].comps THEN Faults[fault][0 + 1].kind
          ELSE LitAfter(fault, 0, c)
    BY LitOneMore, 0 \in Nat
<1>4. 0 + 1 = 1
    OBVIOUS
<1> QED BY <1>2, <1>3, <1>4

\* The components are lit by the steps told; the boxes show that, or nothing.
LitInv ==
    /\ faStep \in Nat
    /\ faState = [c \in Comps |-> LitAfter(faFault, faStep, c)]
    /\ faPaint \in {faState, Dark}

\* Every step keeps it.
LEMMA LitStep == LitInv /\ [FaultNext]_faultVars => LitInv'
<1> SUFFICES ASSUME LitInv, [FaultNext]_faultVars PROVE LitInv'
    OBVIOUS
<1>1. ASSUME NEW f \in FaultIds, SelectFault(f) PROVE LitInv'
    <2>1. Lit(Dark, Faults[f][1]) = [c \in Comps |-> LitAfter(f, 1, c)]
        BY LitFirst DEF Lit, Dark
    <2> QED BY <1>1, <2>1 DEF SelectFault, LitInv
<1>2. ASSUME FaultTick PROVE LitInv'
    <2>1. Lit(faState, Faults[faFault][faStep + 1])
              = [c \in Comps |-> LitAfter(faFault, faStep + 1, c)]
        BY LitOneMore DEF LitInv, Lit
    <2> QED BY <1>2, <2>1 DEF FaultTick, LitInv
<1>3. ASSUME NEW wide \in BOOLEAN, FaultResize(wide) PROVE LitInv'
    BY <1>3 DEF FaultResize, LitInv
<1>4. ASSUME UNCHANGED faultVars PROVE LitInv'
    BY <1>4 DEF faultVars, LitInv
<1> QED BY <1>1, <1>2, <1>3, <1>4 DEF FaultNext

\* It holds at the start.
LEMMA LitStart == FaultInit => LitInv
<1> SUFFICES ASSUME FaultInit PROVE LitInv
    OBVIOUS
<1>1. Lit(Dark, Faults["unplug"][1]) = [c \in Comps |-> LitAfter("unplug", 1, c)]
    BY LitFirst DEF Lit, Dark
<1> QED BY <1>1 DEF FaultInit, LitInv

\* What is lit is then what the steps told so far light.
LEMMA LitIsByTheSteps == LitInv => LitByTheSteps
BY DEF LitInv, LitByTheSteps, LitAfter, StepsTelling, LastOf

\* Nothing is typed before the file has come and the terminal been seen, whichever is first.
TypedInv ==
    /\ teTyping \in Nat /\ teShown \in Nat /\ teStarted \in BOOLEAN
    /\ ~(teFile = "there" /\ teStarted) => teTyping = 0
    /\ TypedOnce

\* Every step keeps it.
LEMMA TypedStep == TypedInv /\ [TermNext]_termVars => TypedInv'
<1> SUFFICES ASSUME TypedInv, [TermNext]_termVars PROVE TypedInv'
    OBVIOUS
<1> USE DEF TypedInv, TypedOnce
<1>1. ASSUME TermArrives PROVE TypedInv'
    BY <1>1 DEF TermArrives, TermGo
<1>2. ASSUME TermLost PROVE TypedInv'
    BY <1>2 DEF TermLost
<1>3. ASSUME TermSeen PROVE TypedInv'
    BY <1>3 DEF TermSeen, TermGo
<1>4. ASSUME TermTick PROVE TypedInv'
    BY <1>4 DEF TermTick
<1>5. ASSUME UNCHANGED termVars PROVE TypedInv'
    BY <1>5 DEF termVars
<1> QED BY <1>1, <1>2, <1>3, <1>4, <1>5 DEF TermNext

\* It holds at the start.
LEMMA TypedStart == TermInit => TypedInv
<1> SUFFICES ASSUME TermInit PROVE TypedInv
    OBVIOUS
<1>1. ~teStarted /\ teStarted \in BOOLEAN
    BY Zenon DEF TermInit
<1>2. teTyping = 0 /\ teShown = 0
    BY DEF TermInit
<1> QED BY <1>1, <1>2 DEF TypedInv, TypedOnce

-----------------------------------------------------------------------------
(* The line at the GPU (ch/08-cuda.js), for any number of frames and of pieces of a frame. *)

\* The line holds frames that wait, none twice; so does the GPU, and not one of the line.
LineInv ==
    /\ gqCams \in Nat
    /\ gqFrames \in Seq([piece : 0..GqPieces, inQ : BOOLEAN]) /\ Len(gqFrames) <= GqMaxFrames
    /\ gqQueue \in Seq(Nat) /\ NoneTwice(gqQueue) /\ ItemsOf(gqQueue) \subseteq 1..Len(gqFrames)
    /\ gqGpu \in 0..Len(gqFrames) /\ gqGpu \notin ItemsOf(gqQueue)
    /\ \A f \in 1..Len(gqFrames) :
          /\ gqFrames[f].inQ <=> f = gqGpu \/ f \in ItemsOf(gqQueue)
          /\ gqFrames[f].inQ => gqFrames[f].piece < GqPieces

\* Frames that ask stand in the order they are counted in.
LEMMA AskInOrder ==
    ASSUME NEW asks, asks \subseteq 1..GqMaxFrames
    PROVE  InOrder(asks) \in Seq(Nat) /\ NoneTwice(InOrder(asks)) /\ ItemsOf(InOrder(asks)) = asks
<1> DEFINE all == [k \in 1..GqMaxFrames |-> k]
<1>1. all \in Seq(Nat) /\ Len(all) = GqMaxFrames /\ \A k \in 1..GqMaxFrames : all[k] = k
    BY CudaAssumption
<1> HIDE DEF all
<1>2. NoneTwice(all) /\ ItemsOf(all) = 1..GqMaxFrames
    BY <1>1 DEF NoneTwice, ItemsOf
<1>3. InOrder(asks) = Only(all, asks)
    BY DEF InOrder, all
<1>4. /\ Only(all, asks) \in Seq(Nat) /\ NoneTwice(Only(all, asks))
      /\ ItemsOf(Only(all, asks)) = ItemsOf(all) \intersect asks
    BY <1>1, <1>2, OnlyLeaves
<1> QED BY <1>2, <1>3, <1>4

\* A frame with a piece left has room for one more done.
LEMMA OnePieceMore ==
    ASSUME NEW frame \in [piece : 0..GqPieces, inQ : BOOLEAN], frame.piece < GqPieces
    PROVE  /\ PieceDone(frame) \in [piece : 0..GqPieces, inQ : BOOLEAN]
           /\ PieceDone(frame).inQ = FALSE
<1>1. GqPieces \in Nat /\ frame.piece + 1 \in 0..GqPieces
    BY CudaAssumption
<1>2. PieceDone(frame).piece = frame.piece + 1 /\ PieceDone(frame).inQ = FALSE
    BY DEF PieceDone
<1>3. PieceDone(frame) \in [piece : 0..GqPieces, inQ : BOOLEAN]
    BY <1>1 DEF PieceDone
<1> QED BY <1>2, <1>3

\* The new frames, and those that have asked, wait as before but for those that ask now.
LEMMA LineStep == LineInv /\ [QueueNext]_queueVars => LineInv'
<1> SUFFICES ASSUME LineInv, [QueueNext]_queueVars PROVE LineInv'
    OBVIOUS
<1>1. ASSUME Restart, gqCams' \in Nat PROVE LineInv'
    BY <1>1, CudaAssumption DEF Restart, LineInv, NoneTwice, ItemsOf
<1>2. ASSUME NEW n \in CamCounts, PickCams(n) PROVE LineInv'
    BY <1>1, <1>2 DEF PickCams, CamCounts
<1>3. ASSUME NEW g \in GqLoads, PickLoad(g) PROVE LineInv'
    BY <1>1, <1>3 DEF PickLoad, LineInv
<1>4. ASSUME Measure \/ UNCHANGED queueVars PROVE LineInv'
    BY <1>4 DEF Measure, queueVars, LineInv
<1>5. ASSUME NEW n \in 0..gqCams, Len(gqFrames) + n <= GqMaxFrames,
             NEW ready \in SUBSET (1..(Len(gqFrames) + n)), NEW ends \in BOOLEAN,
             SimTick(n, ready, ends)
      PROVE  LineInv'
    <2> DEFINE fresh == [k \in 1..n |-> [piece |-> 0, inQ |-> FALSE]]
               frames == gqFrames \o fresh
               asks == {f \in ready : ~frames[f].inQ /\ frames[f].piece < GqPieces}
               queue == gqQueue \o InOrder(asks)
               takes == gqGpu = 0 /\ queue /= <<>>
               gpu == IF takes THEN Head(queue) ELSE gqGpu
               done == ends /\ gpu /= 0
               asked == [f \in DOMAIN frames |-> IF f \in asks THEN [frames[f] EXCEPT !.inQ = TRUE]
                                                 ELSE frames[f]]
               Row == [piece : 0..GqPieces, inQ : BOOLEAN]
               all == 1..Len(frames)
    <2>1. /\ gqFrames' = IF done THEN [asked EXCEPT ![gpu] = PieceDone(@)] ELSE asked
          /\ gqQueue' = IF takes THEN Tail(queue) ELSE queue
          /\ gqGpu' = IF done THEN 0 ELSE gpu
          /\ gqCams' = gqCams
        BY <1>5 DEF SimTick
    <2>2. /\ n \in Nat /\ GqPieces \in Nat \ {0} /\ GqMaxFrames \in Nat
          /\ gqFrames \in Seq(Row) /\ Len(gqFrames) \in Nat
        BY CudaAssumption DEF LineInv
    <2>3. /\ frames \in Seq(Row) /\ Len(frames) = Len(gqFrames) + n /\ Len(frames) <= GqMaxFrames
          /\ \A f \in 1..Len(gqFrames) : frames[f] = gqFrames[f]
          /\ \A f \in all : f \notin 1..Len(gqFrames) => frames[f] = [piece |-> 0, inQ |-> FALSE]
        <3>1. fresh \in Seq(Row) /\ Len(fresh) = n
            BY <2>2
        <3>2. \A k \in 1..n : fresh[k] = [piece |-> 0, inQ |-> FALSE]
            OBVIOUS
        <3> HIDE DEF fresh
        <3>3. frames \in Seq(Row) /\ Len(frames) = Len(gqFrames) + n
            <4> HIDE DEF Row
            <4> QED BY <2>2, <3>1, ConcatProperties
        <3>4. \A k \in 1..n : frames[Len(gqFrames) + k] = fresh[k]
            <4> HIDE DEF Row
            <4> QED BY <2>2, <3>1, ConcatProperties
        <3>5. \A f \in all : f \notin 1..Len(gqFrames) =>
                  f - Len(gqFrames) \in 1..n /\ Len(gqFrames) + (f - Len(gqFrames)) = f
            <4> HIDE DEF frames
            <4> QED BY <2>2, <3>3
        <3>6. \A f \in 1..Len(gqFrames) : frames[f] = gqFrames[f]
            <4> HIDE DEF Row
            <4> QED BY <2>2, <3>1, ConcatProperties
        <3> QED BY <1>5, <2>2, <3>2, <3>3, <3>4, <3>5, <3>6
    <2> HIDE DEF fresh, frames
    <2>4. /\ asks \subseteq all /\ asks \subseteq 1..GqMaxFrames
          /\ \A f \in asks : ~frames[f].inQ /\ frames[f].piece < GqPieces
        <3>1. ready \subseteq all
            BY <2>3
        <3>2. all \subseteq 1..GqMaxFrames
            BY <2>2, <2>3
        <3> HIDE DEF all
        <3> QED BY <3>1, <3>2
    <2>5. /\ \A f \in all : frames[f].inQ <=> f = gqGpu \/ f \in ItemsOf(gqQueue)
          /\ \A f \in all : frames[f].inQ => frames[f].piece < GqPieces
          /\ ItemsOf(gqQueue) \subseteq all /\ gqGpu \in {0} \union all
        <3>1. ItemsOf(gqQueue) \subseteq 1..Len(gqFrames) /\ gqGpu \in 0..Len(gqFrames)
            BY DEF LineInv
        <3>2. 1..Len(gqFrames) \subseteq all /\ gqGpu \in {0} \union 1..Len(gqFrames)
            BY <2>2, <2>3, <3>1
        <3>3. ASSUME NEW f \in all
              PROVE  /\ frames[f].inQ <=> f = gqGpu \/ f \in ItemsOf(gqQueue)
                     /\ frames[f].inQ => frames[f].piece < GqPieces
            <4>1. CASE f \in 1..Len(gqFrames)
                <5>1. frames[f] = gqFrames[f]
                    BY <2>3, <4>1
                <5> QED BY <4>1, <5>1 DEF LineInv
            <4>2. CASE f \notin 1..Len(gqFrames)
                <5>1. frames[f].inQ = FALSE
                    BY <2>3, <4>2
                <5>2. f /= gqGpu /\ f \notin ItemsOf(gqQueue)
                    BY <2>2, <2>3, <3>1, <4>2
                <5> QED BY <5>1, <5>2
            <4> QED BY <4>1, <4>2
        <3> QED BY <3>1, <3>2, <3>3
    <2>6. ItemsOf(gqQueue) \intersect asks = {} /\ gqGpu \notin asks
        BY <2>4, <2>5
    <2> HIDE DEF asks
    <2>7. /\ queue \in Seq(Nat) /\ NoneTwice(queue)
          /\ ItemsOf(queue) = ItemsOf(gqQueue) \union asks
        <3>1. /\ gqQueue \in Seq(Nat) /\ NoneTwice(gqQueue)
              /\ InOrder(asks) \in Seq(Nat) /\ NoneTwice(InOrder(asks)) /\ ItemsOf(InOrder(asks)) = asks
            BY <2>4, AskInOrder DEF LineInv
        <3> QED BY <2>6, <3>1, InARow
    <2> HIDE DEF queue
    <2>8. /\ gqQueue' \in Seq(Nat) /\ NoneTwice(gqQueue') /\ gpu \in {0} \union all
          /\ gpu \notin ItemsOf(gqQueue') /\ ItemsOf(gqQueue') \subseteq all
          /\ \A f \in all : f = gpu \/ f \in ItemsOf(gqQueue') <=>
                              f = gqGpu \/ f \in ItemsOf(gqQueue) \/ f \in asks
        <3>1. CASE takes
            <4>1. /\ gqQueue' \in Seq(Nat) /\ NoneTwice(gqQueue') /\ gpu = Head(queue)
                  /\ gqQueue' = Tail(queue)
                  /\ gpu \in ItemsOf(queue) /\ ItemsOf(gqQueue') = ItemsOf(queue) \ {gpu}
                BY <2>1, <2>7, <3>1, WithoutFirst
            <4> HIDE DEF gpu
            <4> QED BY <2>4, <2>5, <2>7, <3>1, <4>1
        <3>2. CASE ~takes
            <4>1. gqQueue' = queue /\ gpu = gqGpu
                BY <2>1, <3>2
            <4>2. gqGpu \notin ItemsOf(gqQueue)
                BY DEF LineInv
            <4> HIDE DEF gpu
            <4> QED BY <2>4, <2>5, <2>6, <2>7, <4>1, <4>2
        <3> QED BY <3>1, <3>2
    <2>9. /\ DOMAIN frames = all /\ asked \in [all -> Row]
          /\ \A f \in all : /\ asked[f].inQ <=> f = gpu \/ f \in ItemsOf(gqQueue')
                            /\ asked[f].inQ => asked[f].piece < GqPieces
        <3>1. DOMAIN frames = all /\ \A f \in all : frames[f] \in Row
            <4> HIDE DEF Row
            <4> QED BY <2>3
        <3>2. ASSUME NEW f \in all
              PROVE  /\ asked[f] \in Row /\ asked[f].piece = frames[f].piece
                     /\ asked[f].inQ <=> frames[f].inQ \/ f \in asks
            BY <3>1
        <3> HIDE DEF asked, gpu
        <3>3. asked \in [all -> Row]
            BY <3>1, <3>2 DEF asked
        <3> QED BY <2>4, <2>5, <2>8, <3>1, <3>2, <3>3
    <2> HIDE DEF asked, gpu
    <2>10. /\ gqFrames' \in [all -> Row] /\ gqGpu' \in {0} \union all
           /\ gqGpu' \notin ItemsOf(gqQueue')
           /\ \A f \in all : /\ gqFrames'[f].inQ <=> f = gqGpu' \/ f \in ItemsOf(gqQueue')
                             /\ gqFrames'[f].inQ => gqFrames'[f].piece < GqPieces
        <3>1. 0 \notin all
            OBVIOUS
        <3>2. CASE ~done
            BY <2>1, <2>8, <2>9, <3>2
        <3>3. CASE done
            <4>1. gpu \in all /\ gqGpu' = 0 /\ gqFrames' = [asked EXCEPT ![gpu] = PieceDone(@)]
                BY <2>1, <2>8, <3>3
            <4>2. asked[gpu] \in Row /\ asked[gpu].piece < GqPieces
                BY <2>9, <4>1
            <4>3. PieceDone(asked[gpu]) \in Row /\ PieceDone(asked[gpu]).inQ = FALSE
                BY <4>2, OnePieceMore
            <4>4. /\ gqFrames'[gpu] = PieceDone(asked[gpu])
                  /\ \A f \in all : f /= gpu => gqFrames'[f] = asked[f]
                  /\ gqFrames' \in [all -> Row]
                BY <2>9, <4>1, <4>3
            <4>5. 0 \notin ItemsOf(gqQueue')
                BY <2>8, <3>1
            <4> QED BY <2>8, <2>9, <3>1, <4>1, <4>3, <4>4, <4>5
        <3> QED BY <3>2, <3>3
    <2>11. gqFrames' \in Seq(Row) /\ Len(gqFrames') = Len(frames)
        <3> HIDE DEF Row
        <3>1. Len(frames) \in Nat
            BY <2>3
        <3>2. gqFrames' \in [1..Len(frames) -> Row]
            BY <2>10
        <3>3. gqFrames' \in Seq(Row)
            BY <3>1, <3>2
        <3>4. DOMAIN gqFrames' = 1..Len(frames)
            BY <3>2
        <3> QED BY <3>1, <3>3, <3>4, LenProperties
    <2>12. gqGpu' \in 0..Len(gqFrames') /\ gqCams' \in Nat
        <3>1. gqGpu' \in {0} \union 1..Len(frames) /\ Len(frames) \in Nat
            BY <2>3, <2>10
        <3>2. gqCams' \in Nat
            BY <2>1 DEF LineInv
        <3> QED BY <2>11, <3>1, <3>2
    <2> QED BY <2>3, <2>8, <2>10, <2>11, <2>12 DEF LineInv
<1> QED BY <1>2, <1>3, <1>4, <1>5 DEF QueueNext

\* It holds at the start.
LEMMA LineStart == QueueInit => LineInv
BY CudaAssumption DEF QueueInit, LineInv, NoneTwice, ItemsOf

\* The frame whose piece runs is one that waits, so it has a piece left.
LEMMA LineIsInOrder == LineInv => OnePlaceInLine
<1> SUFFICES ASSUME LineInv PROVE OnePlaceInLine
    OBVIOUS
<1>1. DOMAIN gqQueue = 1..Len(gqQueue) /\ DOMAIN gqFrames = 1..Len(gqFrames)
    BY DEF LineInv
<1>2. gqGpu /= 0 => gqFrames[gqGpu].piece < GqPieces
    BY DEF LineInv
<1> QED BY <1>1, <1>2 DEF LineInv, OnePlaceInLine, NoneTwice, ItemsOf

-----------------------------------------------------------------------------
(* What is shown is of what is set now: for each lab what makes it so.  *)

\* The journey's panel and its stage change together, and a switch hides both
\* (ch/17-finale.js, info and syncUI).
JourneyInv == jnShown \in Int /\ JourneyTextOfMode

\* A time of the journey has a stage.
LEMMA StagesAreNumbers == ASSUME NEW t \in Nat PROVE JourneyStage(t) \in Nat
BY DEF JourneyStage, JourneyEnd, JourneyStages, JourneyPer

\* A time of the journey: even, or just short of its end.
JourneyTime == jnT \in JourneyTimes \union {JourneyLast}

\* Every step keeps it.
LEMMA JourneyStep ==
    JourneyTime /\ JourneyInv /\ [JourneyNext]_journeyVars => (JourneyTime /\ JourneyInv)'
<1> SUFFICES ASSUME JourneyTime, JourneyInv, [JourneyNext]_journeyVars
             PROVE  (JourneyTime /\ JourneyInv)'
    OBVIOUS
<1>1. JourneyTime'
    BY DEF JourneyTime, JourneyNext, JourneyButton, JourneySeek, JourneyTick, JourneyPixels,
           JourneySwitches, journeyVars, JourneyTimes, JourneyLast, JourneyEnd, JourneyStages,
           JourneyPer
<1>2. JourneyStage(jnT') \in Nat
    <2>1. JourneyTimes \subseteq Nat /\ JourneyLast \in Nat
        BY DEF JourneyTimes, JourneyLast, JourneyEnd, JourneyStages, JourneyPer
    <2>2. jnT' \in Nat
        BY <1>1, <2>1 DEF JourneyTime
    <2> QED BY <2>2, StagesAreNumbers
<1>3. ASSUME NEW t \in JourneyTimes, JourneySeek(t) PROVE JourneyInv'
    <2>1. t \in Nat
        BY DEF JourneyTimes, JourneyEnd, JourneyStages, JourneyPer
    <2> QED BY <1>3, <2>1, StagesAreNumbers DEF JourneySeek, SyncUI, Info, JourneyInv, JourneyTextOfMode
<1>4. CASE JourneyTick
    <2> DEFINE i == JourneyStage(jnT')
    <2>1. jnShown' = i /\ jnMode' = jnMode
        BY <1>4 DEF JourneyTick
    <2>2. \/ jnPanel' = jnPanel /\ i = jnShown
          \/ jnPanel' = [stage |-> i, mode |-> jnMode, pixels |-> jnPixels]
        BY <1>4 DEF JourneyTick, Info
    <2>3. i \in Int /\ i /= -1
        BY <1>2
    <2> HIDE DEF i
    <2> QED BY <1>1, <2>1, <2>2, <2>3 DEF JourneyInv, JourneyTextOfMode
<1>5. CASE JourneyButton \/ JourneyPixels \/ UNCHANGED journeyVars
    <2>1. jnShown' = jnShown /\ jnPanel' = jnPanel /\ jnMode' = jnMode
        BY <1>5 DEF JourneyButton, JourneyPixels, journeyVars
    <2> QED BY <1>1, <2>1 DEF JourneyInv, JourneyTextOfMode
<1>6. CASE JourneySwitches
    BY <1>1, <1>6 DEF JourneySwitches, JourneyInv, JourneyTextOfMode
<1> QED BY <1>1, <1>3, <1>4, <1>5, <1>6 DEF JourneyNext

\* It holds at the start.
LEMMA JourneyStart == JourneyInit => JourneyTime /\ JourneyInv
BY DEF JourneyInit, JourneyInv, JourneyTextOfMode, JourneyTime, JourneyTimes, JourneyEnd,
       JourneyStages, JourneyPer

\* A stage of the detector, its title and its caption (ch/08-cuda.js, setStage).
LEMMA StageStep == CaptionOfStage /\ [StageNext]_stageVars => CaptionOfStage'
BY DEF CaptionOfStage, StageNext, stageVars, ScrollStage, PictureLoads, SetStage

\* It holds at the start.
LEMMA StageStart == StageInit => CaptionOfStage
BY DEF StageInit, CaptionOfStage

\* Every change of the settings takes the figures away and asks for a measurement
\* (ch/08-cuda.js, restart).
LEMMA FiguresStep == FiguresOfSettings /\ [QueueNext]_queueVars => FiguresOfSettings'
<1>1. ASSUME NEW n, NEW ready, NEW ends, SimTick(n, ready, ends)
      PROVE  UNCHANGED <<gqCams, gqLoad, gqTimer, gqMeasured>>
    BY <1>1 DEF SimTick
<1>2. UNCHANGED <<gqCams, gqLoad, gqTimer, gqMeasured>> => (FiguresOfSettings => FiguresOfSettings')
    BY DEF FiguresOfSettings
<1>3. Measure \/ (\E n \in CamCounts : PickCams(n)) \/ (\E g \in GqLoads : PickLoad(g))
      => FiguresOfSettings'
    BY DEF FiguresOfSettings, PickCams, PickLoad, Restart, Measure, NoFigures
<1> QED BY <1>1, <1>2, <1>3 DEF QueueNext, queueVars

\* It holds at the start.
LEMMA FiguresStart == QueueInit => FiguresOfSettings
BY DEF QueueInit, FiguresOfSettings

\* Before the tags are known nothing is drawn and no picture asked for (ch/12-pose.js).
PictureInv == FrameOfPick /\ (~pfTags => pfAsked = {} /\ pfShown = NoFrame) /\ pfLoaded \subseteq pfAsked

\* Every step keeps it.
LEMMA PictureStep == PictureInv /\ [FrameNext]_frameVars => PictureInv'
<1> SUFFICES ASSUME PictureInv, [FrameNext]_frameVars PROVE PictureInv'
    OBVIOUS
<1>1. ASSUME NEW f \in PosePictures, PickFrame(f) PROVE PictureInv'
    BY <1>1 DEF PictureInv, FrameOfPick, PickFrame, DrawFrame
<1>2. ASSUME NEW f \in PosePictures, FrameLoads(f) PROVE PictureInv'
    BY <1>2 DEF PictureInv, FrameOfPick, FrameLoads, DrawFrame
<1>3. CASE TagsCome \/ UNCHANGED frameVars
    BY <1>3 DEF PictureInv, FrameOfPick, TagsCome, DrawFrame, frameVars
<1> QED BY <1>1, <1>2, <1>3 DEF FrameNext

\* It holds at the start.
LEMMA PictureStart == FrameInit => PictureInv
BY DEF FrameInit, PictureInv, FrameOfPick

\* The kit is drawn by every change of what it is drawn from (ch/05-jetson.js, applyStep).
LEMMA KitMoves == KitAsScrolled /\ [KitNext]_kitVars => KitAsScrolled'
<1> SUFFICES ASSUME KitAsScrolled, [KitNext]_kitVars PROVE KitAsScrolled'
    OBVIOUS
<1>1. ASSUME NEW i \in KitSteps, ScrollKit(i) PROVE KitAsScrolled'
    BY <1>1 DEF ScrollKit, ApplyStep, KitAsScrolled
<1>2. ASSUME NEW h \in KitPicks, PickPart(h) PROVE KitAsScrolled'
    BY <1>2 DEF PickPart, ApplyStep, KitAsScrolled
<1>3. CASE ExploreButton
    BY <1>3 DEF ExploreButton, ApplyStep, KitAsScrolled
<1>4. CASE ModelLoads \/ ModelFails
    BY <1>4 DEF ModelLoads, ModelFails, ApplyStep, KitAsScrolled
<1>5. CASE UNCHANGED kitVars
    BY <1>5 DEF kitVars, KitAsScrolled
<1> QED BY <1>1, <1>2, <1>3, <1>4, <1>5 DEF KitNext

\* It holds at the start.
LEMMA KitStart == KitInit => KitAsScrolled
BY DEF KitInit, KitAsScrolled, NoModel

\* The counts go with the settings, and each run that is asked for ends its wait
\* (ch/12-pose.js, frame and run).
CountsInv == abRuns \in Nat /\ CountsOfSettings

\* Every step keeps it.
LEMMA CountsStep == CountsInv /\ [AmbNext]_ambVars => CountsInv'
<1> SUFFICES ASSUME CountsInv, [AmbNext]_ambVars PROVE CountsInv'
    OBVIOUS
<1>1. ASSUME NEW s \in AmbSettings, SlideAmb(s) PROVE CountsInv'
    BY <1>1 DEF SlideAmb, NewFrame, CountsInv, CountsOfSettings
<1>2. CASE NewNoise
    BY <1>2 DEF NewNoise, NewFrame, CountsInv, CountsOfSettings
<1>3. CASE AskRun \/ UNCHANGED ambVars
    BY <1>3 DEF AskRun, ambVars, CountsInv, CountsOfSettings
<1>4. CASE RunNow
    BY <1>4 DEF RunNow, NewFrame, CountsInv, CountsOfSettings
<1> QED BY <1>1, <1>2, <1>3, <1>4 DEF AmbNext

\* It holds at the start.
LEMMA CountsStart == AmbInit => CountsInv
BY DEF AmbInit, CountsInv, CountsOfSettings

\* A ping that is told is the last one sent (ch/14-latency.js, send and done).
PingInv ==
    /\ pgUneven \in PingUneven
    /\ pgPing \in [there : Int, back : Int, told : BOOLEAN]
    /\ AnswerOfLastPing

\* Every step keeps it.
LEMMA PingStep == PingInv /\ [PingNext]_pingVars => PingInv'
<1> SUFFICES ASSUME PingInv, [PingNext]_pingVars PROVE PingInv'
    OBVIOUS
<1>1. ASSUME NEW a \in {0, pgUneven}, NEW b \in {0, pgUneven}, Send(a, b), pgUneven' = pgUneven
      PROVE  PingInv'
    <2>1. a \in Int /\ b \in Int
        BY LatencyAssumption DEF PingInv
    <2>2. pgPing' \in [there : Int, back : Int, told : BOOLEAN] /\ ~pgPing'.told
        <3>1. TripBase + a \in Int /\ TripBase + b \in Int
            BY <2>1 DEF TripBase
        <3>2. pgPing' = [there |-> TripBase + a, back |-> TripBase + b, told |-> FALSE]
            BY <1>1 DEF Send
        <3> QED BY <3>1, <3>2, Zenon
    <2>3. pgSays'.says = "in flight"
        BY <1>1 DEF Send
    <2> QED BY <1>1, <2>2, <2>3 DEF PingInv, AnswerOfLastPing
<1>2. CASE PingButton
    BY <1>1, <1>2 DEF PingButton
<1>3. CASE FirstPing
    BY <1>1, <1>3 DEF FirstPing, PingInv, AnswerOfLastPing
<1>4. ASSUME NEW u \in PingUneven, SlideUneven(u) PROVE PingInv'
    BY <1>4 DEF SlideUneven, PingInv, AnswerOfLastPing
<1>5. CASE PingTick
    BY <1>5 DEF PingTick, PingInv, AnswerOfLastPing, TwiceOffsetError, NoPing
<1>6. CASE UNCHANGED pingVars
    BY <1>6 DEF pingVars, PingInv, AnswerOfLastPing
<1> QED BY <1>2, <1>3, <1>4, <1>5, <1>6 DEF PingNext

\* It holds at the start.
LEMMA PingStart == PingInit => PingInv
BY LatencyAssumption DEF PingInit, PingInv, AnswerOfLastPing, NoPing

\* The last of the fades that wait is the one to the stage shown (ch/02-apriltags.js, go).
Fades == [stage : StoryStages \union {0}, age : Nat]

FadeInv ==
    /\ sdShown \in StoryStages \union {0} /\ sdFades \in Seq(Fades)
    /\ sdReduced => sdFades = <<>>
    /\ IF sdFades = <<>> THEN sdDrawn = sdShown ELSE sdFades[Len(sdFades)].stage = sdShown

\* Every step keeps it.
LEMMA FadeStep == FadeInv /\ [FadeNext]_fadeVars => FadeInv'
<1> SUFFICES ASSUME FadeInv, [FadeNext]_fadeVars PROVE FadeInv'
    OBVIOUS
<1>1. ASSUME NEW s \in StoryStages, StoryGo(s) PROVE FadeInv'
    <2>1. CASE sdReduced
        BY <1>1, <2>1 DEF StoryGo, FadeInv
    <2>2. CASE ~sdReduced
        <3> DEFINE fade == [stage |-> s, age |-> 0]
        <3>1. fade \in Fades /\ fade.stage = s
            BY DEF Fades
        <3>2. sdFades' = Append(sdFades, fade) /\ sdShown' = s /\ sdReduced' = sdReduced
            BY <1>1, <2>2 DEF StoryGo
        <3>3. sdFades \in Seq(Fades)
            BY DEF FadeInv
        <3> HIDE DEF fade
        <3>4. sdFades' \in Seq(Fades) /\ Len(sdFades') = Len(sdFades) + 1 /\ sdFades'[Len(sdFades')] = fade
            BY <3>1, <3>2, <3>3, AppendProperties
        <3>5. sdFades' /= <<>>
            BY <3>3, <3>4, LenProperties, EmptySeq
        <3> QED BY <2>2, <3>1, <3>2, <3>4, <3>5 DEF FadeInv
    <2> QED BY <2>1, <2>2
<1>2. CASE FadeFrame
    <2> DEFINE older == [i \in DOMAIN sdFades |-> [sdFades[i] EXCEPT !.age = @ + 1]]
               young == [stage : {sdShown}, age : 0..(FadeFrames - 1)]
    <2>1. sdFades \in Seq(Fades) /\ sdFades /= <<>> /\ sdShown \in StoryStages \union {0}
        BY <1>2 DEF FadeFrame, FadeInv
    <2>2. older \in Seq(Fades)
        <3>1. \A i \in 1..Len(sdFades) : [sdFades[i] EXCEPT !.age = @ + 1] \in Fades
            <4> SUFFICES ASSUME NEW i \in 1..Len(sdFades)
                         PROVE  [sdFades[i] EXCEPT !.age = @ + 1] \in Fades
                OBVIOUS
            <4>1. sdFades[i] \in Fades
                BY <2>1, ElementOfSeq
            <4> QED BY <4>1 DEF Fades
        <3>2. DOMAIN sdFades = 1..Len(sdFades) /\ Len(sdFades) \in Nat
            BY <2>1, LenProperties
        <3>3. older \in [1..Len(sdFades) -> Fades]
            BY <3>1, <3>2
        <3> HIDE DEF older
        <3> QED BY <3>2, <3>3, SeqDef
    <2>3. sdFades' = Only(older, young) /\ sdDrawn' = sdFades[Len(sdFades)].stage
          /\ sdShown' = sdShown /\ sdReduced' = sdReduced
        BY <1>2 DEF FadeFrame
    <2> HIDE DEF older
    <2>4. sdFades' \in Seq(Fades) /\ ItemsOf(sdFades') \subseteq young
        <3> HIDE DEF young
        <3> QED BY <2>2, <2>3, OnlyLeaves
    <2>5. sdFades' /= <<>> => sdFades'[Len(sdFades')].stage = sdShown
        <3> SUFFICES ASSUME sdFades' /= <<>> PROVE sdFades'[Len(sdFades')].stage = sdShown
            OBVIOUS
        <3>1. Len(sdFades') \in 1..Len(sdFades')
            BY <2>4, LenProperties, EmptySeq
        <3>2. sdFades'[Len(sdFades')] \in young
            BY <2>4, <3>1 DEF ItemsOf
        <3> QED BY <3>2
    <2>6. sdDrawn' = sdShown
        BY <2>1, <2>3 DEF FadeInv
    <2> HIDE DEF young
    <2>7. sdReduced => sdFades' = <<>>
        BY <2>1 DEF FadeInv
    <2> QED BY <2>1, <2>3, <2>4, <2>5, <2>6, <2>7 DEF FadeInv
<1>3. CASE UNCHANGED fadeVars
    BY <1>3 DEF fadeVars, FadeInv
<1> QED BY <1>1, <1>2, <1>3 DEF FadeNext

\* It holds at the start.
LEMMA FadeStart == FadeInit => FadeInv
BY DEF FadeInit, FadeInv

\* When no fade waits, what is drawn is the stage shown.
LEMMA FadesEnd == FadeInv => FadeEndsOnShown
BY DEF FadeInv, FadeEndsOnShown

\* With four snapshots or more a solve is on its way unless theirs is shown, and only then
\* are the buttons busy; with fewer there is none but what a solve left that nothing could
\* call off (ch/11-calibration.js, recal).
CoverageInv ==
    /\ cvSnaps \in Nat /\ cvChains \in Nat
    /\ cvTimer => cvSnaps >= CovNeeded
    /\ cvBusy => cvSnaps >= CovNeeded /\ (cvTimer \/ cvChains > 0)
    /\ cvSnaps < CovNeeded => cvFit \in {cvSnaps, NoFit}
    /\ cvSnaps >= CovNeeded => cvTimer \/ cvChains > 0 \/ cvFit = cvSnaps

\* A solve that is asked for or not needed, with at least as many snapshots (recal).
LEMMA RecalKeeps ==
    ASSUME CoverageInv, NEW n \in Nat, n >= cvSnaps, cvSnaps' = n, Recal(n), cvChains' = cvChains
    PROVE  CoverageInv'
<1>1. CASE n < CovNeeded
    BY <1>1 DEF Recal, CoverageInv, NoFit, CovNeeded
<1>2. CASE n >= CovNeeded
    BY <1>2 DEF Recal, CoverageInv, NoFit, CovNeeded
<1> QED BY <1>1, <1>2 DEF CovNeeded

\* Every step keeps it.
LEMMA CoverageStep ==
    (cvSnaps <= CovFull /\ CoverageInv) /\ [CoverageNext]_covVars => (cvSnaps <= CovFull /\ CoverageInv)'
<1> SUFFICES ASSUME cvSnaps <= CovFull, CoverageInv, [CoverageNext]_covVars
             PROVE  (cvSnaps <= CovFull /\ CoverageInv)'
    OBVIOUS
<1>0. cvSnaps \in Nat /\ CovFull \in Nat
    BY CalibrationAssumption DEF CoverageInv, NoFit
<1>1. ASSUME NEW found \in BOOLEAN, TapSnapshot(found) PROVE (cvSnaps <= CovFull /\ CoverageInv)'
    <2>1. CASE cvSnaps < CovFull /\ found
        <3>1. cvSnaps' = cvSnaps + 1 /\ Recal(cvSnaps + 1) /\ cvChains' = cvChains
            BY <1>1, <2>1 DEF TapSnapshot
        <3>2. cvSnaps + 1 \in Nat /\ cvSnaps + 1 >= cvSnaps /\ cvSnaps + 1 <= CovFull
            BY <1>0, <2>1
        <3> QED BY <3>1, <3>2, RecalKeeps
    <2>2. CASE ~(cvSnaps < CovFull /\ found)
        BY <1>1, <2>2 DEF TapSnapshot, CoverageInv, NoFit
    <2> QED BY <2>1, <2>2
<1>2. ASSUME NEW found \in 0..CovPerTen, TakeTen(found) PROVE (cvSnaps <= CovFull /\ CoverageInv)'
    <2> DEFINE n == IF cvSnaps + found > CovFull THEN CovFull ELSE cvSnaps + found
    <2>1. n \in Nat /\ n >= cvSnaps /\ n <= CovFull
        BY <1>0
    <2>2. cvSnaps' = n /\ Recal(n) /\ cvChains' = cvChains
        BY <1>2 DEF TakeTen
    <2> HIDE DEF n
    <2> QED BY <2>1, <2>2, RecalKeeps
<1>3. CASE TimerFires
    BY <1>3 DEF TimerFires, CoverageInv, NoFit
<1>4. CASE SolveSnapshots
    BY <1>4 DEF SolveSnapshots, CoverageInv, NoFit, CovNeeded
<1>5. CASE ResetSnapshots
    BY <1>0, <1>5 DEF ResetSnapshots, CoverageInv, NoFit, CovNeeded
<1>6. CASE (\E v \in {"cov", "err", "model"} : PickCovView(v)) \/ UNCHANGED covVars
    BY <1>6 DEF PickCovView, covVars, CoverageInv, NoFit
<1> QED BY <1>1, <1>2, <1>3, <1>4, <1>5, <1>6 DEF CoverageNext

\* It holds at the start.
LEMMA CoverageStart == CoverageInit => cvSnaps <= CovFull /\ CoverageInv
BY CalibrationAssumption DEF CoverageInit, CoverageInv, NoFit, CovNeeded

\* When no solve waits or runs, the fit is of the snapshots taken, or there are too few for
\* one.
LEMMA SolvesSettle == CoverageInv => CoverageSettles
BY DEF CoverageInv, NoFit, CoverageSettles, CovNeeded

-----------------------------------------------------------------------------
(* The two shutters (ch/03-camera.js), for any rows, rates and steps of the loop. *)

ShutterInv ==
    /\ rsPeriod \in ShutterPeriods /\ rsFrameT \in Nat /\ rsGlobal \in Nat
    /\ rsRow \in 0..ShutterRows /\ rsAge \in [ShutterLines -> Nat]
    /\ ShutterSweeps

\* An age d ticks later, as far as it is counted.
Later(a, d) == IF a + d > OldRow THEN OldRow ELSE a + d

\* Ages that grow together stay in order.
LEMMA AgesKeepOrder ==
    /\ \A a, d \in Nat : Later(a, d) \in Nat /\ Later(a, d) <= a + d
    /\ \A a, b, d \in Nat : a <= b => Later(a, d) <= Later(b, d)
<1>1. OldRow \in Nat
    <2>1. PICK p \in ShutterPeriods : \A q \in ShutterPeriods : p >= q
        BY CameraAssumption
    <2> DEFINE slowest == CHOOSE p1 \in ShutterPeriods : \A q \in ShutterPeriods : p1 >= q
    <2>2. slowest \in ShutterPeriods
        BY <2>1
    <2>3. slowest \in Nat
        BY <2>2, CameraAssumption
    <2> HIDE DEF slowest
    <2>4. 2 * slowest \in Nat
        BY <2>3
    <2> QED BY <2>4 DEF OldRow, slowest
<1> QED BY <1>1 DEF Later

\* The row that the readout has come to is one of the picture's, or past its last.
LEMMA RowIsNumber ==
    ASSUME rsPeriod \in ShutterPeriods, NEW t \in Nat
    PROVE  RowRead(t) \in Nat /\ RowRead(t) <= ShutterRows
<1>1. rsPeriod \in Nat \ {0} /\ ShutterRows \in Nat
    BY CameraAssumption
<1>2. 10 * t \in Nat /\ 9 * rsPeriod \in Nat /\ 9 * rsPeriod > 0
    BY <1>1
<1>3. 10 * t * ShutterRows \in Nat
    BY <1>1, <1>2
<1>4. \A a \in Nat : \A b \in Nat : b > 0 => a \div b \in Nat
    OBVIOUS
<1>5. (10 * t * ShutterRows) \div (9 * rsPeriod) \in Nat
    BY <1>2, <1>3, <1>4
<1> DEFINE row == (10 * t * ShutterRows) \div (9 * rsPeriod)
<1>6. RowRead(t) = IF row > ShutterRows THEN ShutterRows ELSE row
    BY DEF RowRead
<1> HIDE DEF row
<1>7. row \in Nat
    BY <1>5 DEF row
<1> QED BY <1>1, <1>6, <1>7

\* A step of the loop: the rows it reads out are painted, and all else grows older alike.
LEMMA ShutterTicks ==
    ASSUME ShutterInv, NEW dt \in Nat, ShutterTick(dt)
    PROVE  ShutterInv'
<1> DEFINE t == rsFrameT + dt
           now == IF t >= rsPeriod THEN t % rsPeriod ELSE t
           begins == FrameBegins(t)
           last == IF begins THEN 0 ELSE rsRow
           row == RowRead(now)
<1>1. /\ rsPeriod \in Nat \ {0} /\ rsPeriod \in ShutterPeriods /\ ShutterRows \in Nat /\ t \in Nat
      /\ rsGlobal \in Nat /\ rsFrameT \in Nat /\ rsRow \in 0..ShutterRows
      /\ rsAge \in [ShutterLines -> Nat]
    BY CameraAssumption DEF ShutterInv
<1>2. now \in Nat /\ (~begins => now = t)
    <2>1. t % rsPeriod \in Nat
        BY <1>1
    <2> QED BY <1>1, <2>1 DEF FrameBegins
<1>3. row \in Nat /\ row <= ShutterRows
    BY <1>1, <1>2, RowIsNumber
<1>4. last \in 0..ShutterRows
    BY <1>1
<1>5. /\ rsFrameT' = now
      /\ rsGlobal' = IF begins THEN 0 ELSE Later(rsGlobal, dt)
      /\ rsRow' = IF row > last THEN row ELSE last
      /\ rsBright' = (IF begins THEN {} ELSE rsBright) \cup (last..row - 1)
      /\ rsPeriod' = rsPeriod
    BY DEF ShutterTick, Later
<1>6. rsAge' = [r \in ShutterLines |-> IF r \in last..row - 1 THEN 0 ELSE Later(rsAge[r], dt)]
    BY DEF ShutterTick, Later
<1>7. begins => last = 0
    OBVIOUS
<1>8. ~begins => last = rsRow
    OBVIOUS
<1> HIDE DEF t, now, row, last
<1>9. t = rsFrameT + dt
    BY DEF t
<1> HIDE DEF begins
<1>10. /\ rsRow' \in 0..ShutterRows /\ last <= rsRow' /\ row <= rsRow'
       /\ \A r \in ShutterLines : r < rsRow' => r < last \/ r \in last..row - 1
    BY <1>1, <1>3, <1>4, <1>5 DEF ShutterLines
<1>11. rsGlobal' \in Nat /\ rsGlobal' <= rsFrameT'
    <2>1. CASE begins
        BY <1>2, <1>5, <2>1
    <2>2. CASE ~begins
        BY <1>1, <1>2, <1>5, <1>9, <2>2, AgesKeepOrder DEF ShutterInv, ShutterSweeps
    <2> QED BY <2>1, <2>2
<1>12. ASSUME NEW r \in ShutterLines
       PROVE  /\ rsAge[r] \in Nat
              /\ rsAge'[r] \in Nat
              /\ r \in last..row - 1 => rsAge'[r] = 0
              /\ r \notin last..row - 1 => rsAge'[r] = Later(rsAge[r], dt)
    <2>1. rsAge[r] \in Nat
        BY <1>1
    <2>2. Later(rsAge[r], dt) \in Nat
        BY <2>1, AgesKeepOrder
    <2> QED BY <1>6, <2>1, <2>2
<1>13. rsAge' \in [ShutterLines -> Nat]
    BY <1>6, <1>12
<1>14. rsBright' = {r \in ShutterLines : r < rsRow'}
    <2>1. last..row - 1 \subseteq ShutterLines
        BY <1>1, <1>3, <1>4 DEF ShutterLines
    <2>2. (IF begins THEN {} ELSE rsBright) = {r \in ShutterLines : r < last}
        <3>1. {r \in ShutterLines : r < 0} = {}
            BY <1>1 DEF ShutterLines
        <3> QED BY <1>7, <1>8, <3>1 DEF ShutterInv, ShutterSweeps
    <2>3. \A r \in ShutterLines : r \in Int
        BY <1>1 DEF ShutterLines
    <2> QED BY <1>3, <1>4, <1>5, <1>10, <2>1, <2>2, <2>3
<1>15. ASSUME NEW r \in ShutterLines, r < rsRow' PROVE rsAge'[r] <= rsGlobal'
    <2>1. CASE r \in last..row - 1
        BY <1>11, <1>12, <2>1
    <2>2. CASE r \notin last..row - 1
        <3>1. r < last /\ r \in Nat
            BY <1>1, <1>10, <1>15, <2>2 DEF ShutterLines
        <3>2. ~begins /\ r < rsRow
            BY <1>4, <1>7, <1>8, <3>1
        <3>3. rsAge[r] <= rsGlobal
            BY <3>2 DEF ShutterInv, ShutterSweeps
        <3>4. rsAge[r] \in Nat /\ rsAge'[r] = Later(rsAge[r], dt) /\ rsGlobal' = Later(rsGlobal, dt)
            BY <1>5, <1>12, <2>2, <3>2
        <3>5. Later(rsAge[r], dt) <= Later(rsGlobal, dt)
            BY <1>1, <3>3, <3>4, AgesKeepOrder
        <3> QED BY <3>4, <3>5
    <2> QED BY <2>1, <2>2
<1>16. ASSUME NEW r \in ShutterLines, r >= rsRow' PROVE rsAge'[r] >= rsGlobal'
    <2>1. r \notin last..row - 1 /\ r >= last
        BY <1>1, <1>3, <1>4, <1>10, <1>16 DEF ShutterLines
    <2>2. CASE begins
        BY <1>5, <1>12, <2>2
    <2>3. CASE ~begins
        <3>1. rsGlobal <= rsAge[r]
            BY <1>1, <1>8, <1>12, <2>1, <2>3 DEF ShutterInv, ShutterSweeps
        <3>2. rsAge[r] \in Nat /\ rsAge'[r] = Later(rsAge[r], dt) /\ rsGlobal' = Later(rsGlobal, dt)
            BY <1>5, <1>12, <2>1, <2>3
        <3>3. Later(rsGlobal, dt) <= Later(rsAge[r], dt)
            BY <1>1, <3>1, <3>2, AgesKeepOrder
        <3>4. Later(rsGlobal, dt) \in Nat /\ Later(rsAge[r], dt) \in Nat
            BY <1>1, <3>2, AgesKeepOrder
        <3> QED BY <3>2, <3>3, <3>4
    <2> QED BY <2>2, <2>3
<1>17. ASSUME NEW r \in ShutterLines, NEW s \in ShutterLines, r < s, s < rsRow'
       PROVE  rsAge'[r] >= rsAge'[s]
    <2>1. CASE s \in last..row - 1
        BY <1>12, <2>1
    <2>2. CASE s \notin last..row - 1
        <3>1. s < last /\ s \in Nat /\ r \in Nat
            BY <1>1, <1>10, <1>17, <2>2 DEF ShutterLines
        <3>2. ~begins /\ s < rsRow
            BY <1>4, <1>7, <1>8, <3>1
        <3>3. rsAge[s] <= rsAge[r]
            BY <1>12, <1>17, <3>2 DEF ShutterInv, ShutterSweeps
        <3>4. r \notin last..row - 1
            BY <1>4, <1>17, <3>1
        <3>5. /\ rsAge[r] \in Nat /\ rsAge'[r] = Later(rsAge[r], dt)
              /\ rsAge[s] \in Nat /\ rsAge'[s] = Later(rsAge[s], dt)
            BY <1>12, <2>2, <3>4
        <3>6. Later(rsAge[s], dt) <= Later(rsAge[r], dt)
            BY <3>3, <3>5, AgesKeepOrder
        <3>7. Later(rsAge[s], dt) \in Nat /\ Later(rsAge[r], dt) \in Nat
            BY <3>5, AgesKeepOrder
        <3> QED BY <3>5, <3>6, <3>7
    <2> QED BY <2>1, <2>2
<1> QED BY <1>1, <1>2, <1>5, <1>10, <1>11, <1>13, <1>14, <1>15, <1>16, <1>17
        DEF ShutterInv, ShutterSweeps

\* Every step keeps it.
LEMMA ShutterStep == ShutterInv /\ [ShutterNext]_shutterVars => ShutterInv'
<1> SUFFICES ASSUME ShutterInv, [ShutterNext]_shutterVars PROVE ShutterInv'
    OBVIOUS
<1>1. ASSUME NEW dt \in 1..ShutterMaxDt, ShutterTick(dt) PROVE ShutterInv'
    <2>1. dt \in Nat
        BY CameraAssumption
    <2> QED BY <1>1, <2>1, ShutterTicks
<1>2. ASSUME NEW mode \in {"tag", "prop"}, PickScene(mode) PROVE ShutterInv'
    <2>1. \A r \in ShutterLines : ~(r < 0)
        BY CameraAssumption DEF ShutterLines
    <2>2. /\ rsPeriod' \in ShutterPeriods /\ rsFrameT' = 0 /\ rsGlobal' = 0 /\ rsRow' = 0
          /\ rsBright' = {} /\ rsAge' = [r \in ShutterLines |-> 0] /\ 0 \in 0..ShutterRows
        BY <1>2, CameraAssumption DEF PickScene, ShutterInv
    <2> QED BY <2>1, <2>2 DEF ShutterInv, ShutterSweeps
<1>3. ASSUME NEW period \in ShutterPeriods, SlideRate(period) PROVE ShutterInv'
    BY <1>3 DEF SlideRate, ShutterInv, ShutterSweeps
<1>4. CASE UNCHANGED shutterVars
    BY <1>4 DEF shutterVars, ShutterInv, ShutterSweeps
<1> QED BY <1>1, <1>2, <1>3, <1>4 DEF ShutterNext

\* It holds at the start.
LEMMA ShutterStart == ShutterInit => ShutterInv
<1> SUFFICES ASSUME ShutterInit PROVE ShutterInv
    OBVIOUS
<1>1. \A r \in ShutterLines : ~(r < 0)
    BY CameraAssumption DEF ShutterLines
<1>2. ShutterPeriods /= {} /\ 0 \in 0..ShutterRows
    BY CameraAssumption
<1>3. rsPeriod \in ShutterPeriods
    BY <1>2 DEF ShutterInit
<1>4. /\ rsFrameT = 0 /\ rsGlobal = 0 /\ rsRow = 0 /\ rsBright = {}
      /\ rsAge = [r \in ShutterLines |-> 0]
    BY DEF ShutterInit
<1> QED BY <1>1, <1>2, <1>3, <1>4 DEF ShutterInv, ShutterSweeps

-----------------------------------------------------------------------------
(* The heading looked up for a picture (ch/14-latency.js), for any spins, latencies and frames. *)

Headings == [t : Nat, h : Nat]

\* Between the two headings the robot turned evenly.
Evenly(a, b, truth) == \E w \in Nat : \A t \in a.t..b.t : truth[t] = a.h + w * (t - a.t)

\* The headings are the robot's at their times, one after the other, with an even turn between.
Tracks(hist, truth, now) ==
    /\ \A k \in 1..Len(hist) : hist[k].t <= now /\ hist[k].h = truth[hist[k].t]
    /\ \A k \in 1..(Len(hist) - 1) :
          hist[k].t < hist[k + 1].t /\ Evenly(hist[k], hist[k + 1], truth)

\* A share of an even turn (sample's lerp).
LEMMA ShareOfTurn ==
    ASSUME NEW w \in Nat, NEW d \in Nat, d > 0, NEW x \in Nat
    PROVE  ((w * d) * x) \div d = w * x
<1>1. w * x \in Nat /\ (w * d) * x = (w * x) * d
    OBVIOUS
<1>2. \A q \in Nat : (q * d) \div d = q
    OBVIOUS
<1> QED BY <1>1, <1>2

\* Looking a time up between the headings gives the robot's heading at that time.
LEMMA SampleIsTruth ==
    ASSUME NEW hist \in Seq(Headings), NEW truth, NEW now \in Nat, hist /= <<>>,
           Tracks(hist, truth, now), hist[Len(hist)].t = now,
           NEW tq \in Int, hist[1].t <= tq, tq <= now
    PROVE  Sample(hist, tq) = truth[tq]
<1>1. Len(hist) \in Nat \ {0} /\ \A k \in 1..Len(hist) : hist[k] \in Headings
    BY LenProperties, EmptySeq, ElementOfSeq
<1>2. \A k \in 1..Len(hist) : hist[k].t \in Nat /\ hist[k].h \in Nat
    BY <1>1 DEF Headings
<1>3. 1 \in 1..Len(hist) /\ Len(hist) \in 1..Len(hist)
    BY <1>1
<1>4. CASE tq <= hist[1].t
    <2>1. tq = hist[1].t
        BY <1>2, <1>3, <1>4
    <2> QED BY <1>3, <1>4, <2>1 DEF Sample, Tracks
<1>5. CASE ~(tq <= hist[1].t)
    <2> DEFINE T == {k \in 1..Len(hist) : tq <= hist[k].t}
               Between(i) == hist[i - 1].t <= tq /\ tq <= hist[i].t
    <2>1. \E i \in 2..Len(hist) : Between(i)
        <3>1. T \subseteq Nat /\ Len(hist) \in T
            BY <1>1, <1>3
        <3>2. PICK i \in T : \A k \in T : i <= k
            <4> HIDE DEF T
            <4> QED BY <3>1, LeastNatural
        <3>3. i \in 1..Len(hist) /\ i /= 1 /\ tq <= hist[i].t
            BY <1>5
        <3>4. i - 1 \in 1..Len(hist) /\ i \in 2..Len(hist)
            BY <1>1, <3>3
        <3>5. i - 1 \notin T
            BY <3>2, <3>3
        <3>6. ~(tq <= hist[i - 1].t)
            BY <3>4, <3>5
        <3>7. hist[i - 1].t <= tq
            BY <1>2, <3>4, <3>6
        <3> QED BY <3>3, <3>4, <3>7
    <2> DEFINE i == CHOOSE i \in 2..Len(hist) : Between(i)
    <2>2. i \in 2..Len(hist) /\ Between(i)
        BY <2>1
    <2>3. Sample(hist, tq) = hist[i - 1].h + ((hist[i].h - hist[i - 1].h) * (tq - hist[i - 1].t))
                                                 \div (hist[i].t - hist[i - 1].t)
        BY <1>5 DEF Sample
    <2> HIDE DEF i
    <2>4. i \in 1..Len(hist) /\ i - 1 \in 1..(Len(hist) - 1) /\ i - 1 \in 1..Len(hist) /\ (i - 1) + 1 = i
        BY <1>1, <2>2
    <2> DEFINE a == hist[i - 1]
               b == hist[i]
    <2>5. a.t \in Nat /\ a.h \in Nat /\ b.t \in Nat /\ b.h \in Nat
        BY <1>2, <2>4
    <2>6. a.t < b.t /\ Evenly(a, b, truth) /\ b.h = truth[b.t]
        BY <2>4 DEF Tracks
    <2>7. a.t <= tq /\ tq <= b.t
        BY <2>2
    <2> HIDE DEF a, b
    <2>8. PICK w \in Nat : \A t \in a.t..b.t : truth[t] = a.h + w * (t - a.t)
        BY <2>6 DEF Evenly
    <2>9. tq \in a.t..b.t /\ b.t \in a.t..b.t
        BY <2>5, <2>6, <2>7
    <2>10. truth[tq] = a.h + w * (tq - a.t) /\ truth[b.t] = a.h + w * (b.t - a.t)
        BY <2>8, <2>9
    <2>11. b.t - a.t \in Nat /\ b.t - a.t > 0 /\ tq - a.t \in Nat
        BY <2>5, <2>6, <2>7
    <2>12. w * (b.t - a.t) \in Nat
        BY <2>11
    <2>13. b.h - a.h = w * (b.t - a.t)
        BY <2>5, <2>6, <2>10, <2>12
    <2>14. ((b.h - a.h) * (tq - a.t)) \div (b.t - a.t) = w * (tq - a.t)
        BY <2>11, <2>13, ShareOfTurn
    <2>15. Sample(hist, tq) = a.h + ((b.h - a.h) * (tq - a.t)) \div (b.t - a.t)
        BY <2>3 DEF a, b
    <2> QED BY <2>10, <2>14, <2>15
<1> QED BY <1>4, <1>5

\* What the robot does later does not change where it was.
LEMMA TracksStay ==
    ASSUME NEW hist \in Seq(Headings), NEW truth, NEW more, NEW now \in Nat, NEW then \in Nat,
           now <= then, Tracks(hist, truth, now), \A t \in 0..now : more[t] = truth[t]
    PROVE  Tracks(hist, more, then)
<1>1. Len(hist) \in Nat /\ \A k \in 1..Len(hist) : hist[k] \in Headings
    BY LenProperties, ElementOfSeq
<1>2. \A k \in 1..Len(hist) : hist[k].t \in Nat /\ hist[k].t <= now
    BY <1>1 DEF Headings, Tracks
<1>3. ASSUME NEW k \in 1..Len(hist)
      PROVE  hist[k].t <= then /\ hist[k].h = more[hist[k].t]
    <2>1. hist[k].t \in 0..now
        BY <1>2
    <2> QED BY <1>2, <2>1 DEF Tracks
<1>4. ASSUME NEW k \in 1..(Len(hist) - 1)
      PROVE  hist[k].t < hist[k + 1].t /\ Evenly(hist[k], hist[k + 1], more)
    <2>1. k \in 1..Len(hist) /\ k + 1 \in 1..Len(hist)
        BY <1>1
    <2>2. PICK w \in Nat : \A t \in hist[k].t..hist[k + 1].t :
                               truth[t] = hist[k].h + w * (t - hist[k].t)
        BY DEF Tracks, Evenly
    <2>3. hist[k].t..hist[k + 1].t \subseteq 0..now
        BY <1>2, <2>1
    <2> QED BY <2>2, <2>3 DEF Tracks, Evenly
<1> QED BY <1>3, <1>4 DEF Tracks

\* The headings that are kept are the last of them, the newest among them (hist.shift).
LEMMA KeptAreLast ==
    ASSUME NEW hist \in Seq(Headings), NEW now \in Nat, hist /= <<>>, hist[Len(hist)].t = now
    PROVE  \E first \in 1..Len(hist) : KeptSamples(hist, now) = SubSeq(hist, first, Len(hist))
<1>1. Len(hist) \in Nat \ {0} /\ \A k \in 1..Len(hist) : hist[k] \in Headings
    BY LenProperties, EmptySeq, ElementOfSeq
<1>2. \A k \in 1..Len(hist) : hist[k].t \in Nat
    BY <1>1 DEF Headings
<1> DEFINE young == {k \in 1..Len(hist) : hist[k].t >= now - BotKeep}
           IsFirst(k) == /\ hist[k].t >= now - BotKeep
                         /\ \A j \in 1..(k - 1) : hist[j].t < now - BotKeep
<1>3. young \subseteq Nat /\ Len(hist) \in young
    BY <1>1, LatencyAssumption
<1>4. PICK k \in young : \A j \in young : k <= j
    <2> HIDE DEF young
    <2> QED BY <1>3, LeastNatural
<1>5. IsFirst(k)
    <2>1. ASSUME NEW j \in 1..(k - 1) PROVE hist[j].t < now - BotKeep
        <3>1. j \in 1..Len(hist) /\ ~(k <= j)
            BY <1>1
        <3>2. j \notin young
            BY <1>4, <3>1
        <3> QED BY <1>2, <3>1, <3>2, LatencyAssumption
    <2> QED BY <2>1
<1> DEFINE first == CHOOSE x \in 1..Len(hist) : IsFirst(x)
<1>6. first \in 1..Len(hist)
    BY <1>5
<1> QED BY <1>6 DEF KeptSamples

\* Dropping the oldest headings leaves a track that ends in the same one.
LEMMA LastTrack ==
    ASSUME NEW hist \in Seq(Headings), NEW truth, NEW now \in Nat, hist /= <<>>,
           Tracks(hist, truth, now), NEW first \in 1..Len(hist)
    PROVE  LET kept == SubSeq(hist, first, Len(hist))
           IN  /\ kept \in Seq(Headings) /\ kept /= <<>> /\ Tracks(kept, truth, now)
               /\ kept[Len(kept)] = hist[Len(hist)]
<1> DEFINE kept == SubSeq(hist, first, Len(hist))
           n == Len(hist) - first + 1
<1>1. Len(hist) \in Nat
    BY LenProperties
<1>2. n \in Nat /\ n > 0 /\ Len(hist) \in 1..Len(hist)
    BY <1>1
<1>3. /\ kept \in Seq(Headings) /\ Len(kept) = n
      /\ \A i \in 1..n : kept[i] = hist[first + i - 1]
    <2>1. /\ first \in 1..(Len(hist) + 1) /\ Len(hist) \in (first - 1)..Len(hist)
          /\ first <= Len(hist)
        BY <1>1
    <2>2. \A i \in first..Len(hist) : hist[i] \in Headings
        BY <1>1, ElementOfSeq
    <2> QED BY <1>1, <2>1, <2>2, SubSeqProperties
<1> HIDE DEF kept, n
<1>4. n = Len(hist) - first + 1
    BY DEF n
<1>5. kept /= <<>>
    BY <1>2, <1>3, EmptySeq
<1>6. ASSUME NEW k \in 1..n PROVE kept[k].t <= now /\ kept[k].h = truth[kept[k].t]
    <2>1. first + k - 1 \in 1..Len(hist)
        BY <1>1, <1>4
    <2> QED BY <1>3, <2>1 DEF Tracks
<1>7. ASSUME NEW k \in 1..(n - 1)
      PROVE  kept[k].t < kept[k + 1].t /\ Evenly(kept[k], kept[k + 1], truth)
    <2>1. first + k - 1 \in 1..(Len(hist) - 1) /\ (first + k - 1) + 1 = first + (k + 1) - 1
          /\ k \in 1..n /\ k + 1 \in 1..n
        BY <1>1, <1>2, <1>4
    <2> DEFINE j == first + k - 1
    <2>2. kept[k] = hist[j] /\ kept[k + 1] = hist[j + 1] /\ j \in 1..(Len(hist) - 1)
        BY <1>3, <2>1
    <2> HIDE DEF j
    <2> QED BY <2>2 DEF Tracks
<1>8. kept[n] = hist[Len(hist)]
    <2>1. n \in 1..n /\ first + n - 1 = Len(hist)
        BY <1>1, <1>2, <1>4
    <2> QED BY <1>3, <2>1
<1> QED BY <1>3, <1>5, <1>6, <1>7, <1>8 DEF Tracks, kept

\* The heading is the robot's now, the headings kept are of its way, and the newest is now's.
HeadInv ==
    /\ btNow \in Nat /\ btHead \in Nat /\ btSpin \in Nat /\ btLate \in Nat
    /\ btTruth[btNow] = btHead
    /\ btHist \in Seq(Headings)
    /\ Tracks(btHist, btTruth, btNow)
    /\ btHist /= <<>> => btHist[Len(btHist)] = [t |-> btNow, h |-> btHead]
    /\ HeadingOfThePicture

\* A frame of the lab (its loop).
LEMMA HeadTicks ==
    ASSUME HeadInv, NEW d \in Nat \ {0}, BotTick(d)
    PROVE  HeadInv'
<1> DEFINE now == btNow + d
           head == btHead + btSpin * d
           e == [t |-> now, h |-> head]
           more == Append(btHist, e)
           truth == btTruth'
           n == Len(btHist)
<1>0. /\ btNow \in Nat /\ btHead \in Nat /\ btSpin \in Nat /\ btLate \in Nat
      /\ btTruth[btNow] = btHead /\ btHist \in Seq(Headings) /\ Tracks(btHist, btTruth, btNow)
      /\ btHist /= <<>> => btHist[n] = [t |-> btNow, h |-> btHead]
    BY DEF HeadInv
<1>1. now \in Nat /\ head \in Nat /\ btNow < now
    <2>1. btSpin * d \in Nat
        BY <1>0
    <2> QED BY <1>0, <2>1
<1>2. /\ btNow' = now /\ btHead' = head /\ btSpin' = btSpin /\ btLate' = btLate
      /\ btHist' = KeptSamples(more, now)
      /\ btGuess' = [at |-> now - btLate, h |-> Sample(btHist', now - btLate)]
    BY DEF BotTick
<1>3. /\ \A t \in 0..btNow : truth[t] = btTruth[t]
      /\ \A t \in btNow..now : truth[t] = btHead + btSpin * (t - btNow)
    <2>1. btTruth' = [t \in 0..now |-> IF t <= btNow THEN btTruth[t]
                                       ELSE btHead + btSpin * (t - btNow)]
        BY DEF BotTick
    <2>2. ASSUME NEW t \in 0..btNow PROVE truth[t] = btTruth[t]
        <3>1. t \in 0..now /\ t <= btNow
            BY <1>0, <1>1
        <3> QED BY <2>1, <3>1
    <2>3. ASSUME NEW t \in btNow..now PROVE truth[t] = btHead + btSpin * (t - btNow)
        <3>1. t \in 0..now
            BY <1>0, <1>1
        <3>2. CASE t = btNow
            <4>1. truth[t] = btHead
                BY <1>0, <2>2, <3>2
            <4>2. btHead + btSpin * (t - btNow) = btHead
                BY <1>0, <3>2
            <4> QED BY <4>1, <4>2
        <3>3. CASE t /= btNow
            <4>1. ~(t <= btNow)
                BY <1>0, <3>3
            <4> QED BY <2>1, <3>1, <4>1
        <3> QED BY <3>2, <3>3
    <2> QED BY <2>2, <2>3
<1> HIDE DEF now, head, truth
<1>4. e \in Headings
    BY <1>1 DEF Headings
<1>5. /\ more \in Seq(Headings) /\ Len(more) = n + 1 /\ more[n + 1] = e
      /\ \A k \in 1..n : more[k] = btHist[k]
      /\ n \in Nat
    <2> HIDE DEF e
    <2> QED BY <1>0, <1>4, AppendProperties, LenProperties
<1>6. more /= <<>>
    <2> HIDE DEF more
    <2> QED BY <1>5, EmptySeq
<1>7. Tracks(btHist, truth, now)
    BY <1>0, <1>1, <1>3, TracksStay
<1> HIDE DEF more, n
<1>8. Tracks(more, truth, now)
    <2>1. e.t = now /\ e.h = truth[now]
        <3>1. now \in btNow..now /\ now - btNow = d
            BY <1>0, <1>1 DEF now
        <3>2. truth[now] = head
            BY <1>3, <3>1 DEF head
        <3> QED BY <3>2
    <2>2. ASSUME NEW k \in 1..(n + 1) PROVE more[k].t <= now /\ more[k].h = truth[more[k].t]
        <3>1. CASE k \in 1..n
            BY <1>5, <1>7, <3>1 DEF Tracks, n
        <3>2. CASE k = n + 1
            BY <1>1, <1>5, <2>1, <3>2
        <3> QED BY <1>5, <3>1, <3>2
    <2>3. ASSUME NEW k \in 1..n
          PROVE  more[k].t < more[k + 1].t /\ Evenly(more[k], more[k + 1], truth)
        <3>1. CASE k \in 1..(n - 1)
            <4>1. k + 1 \in 1..n
                BY <1>5, <3>1
            <4> QED BY <1>5, <1>7, <3>1, <4>1 DEF Tracks, n
        <3>2. CASE k = n
            <4>1. btHist /= <<>>
                BY <1>5, <3>2, EmptySeq DEF n
            <4>2. more[k] = [t |-> btNow, h |-> btHead] /\ more[k + 1] = e
                BY <1>0, <1>5, <3>2, <4>1
            <4>3. more[k].t = btNow /\ more[k].h = btHead /\ more[k + 1].t = now
                BY <2>1, <4>2
            <4>4. Evenly(more[k], more[k + 1], truth)
                BY <1>0, <1>3, <4>3 DEF Evenly
            <4> QED BY <1>1, <4>3, <4>4
        <3> QED BY <1>5, <3>1, <3>2
    <2>4. Len(more) - 1 = n
        BY <1>5
    <2> QED BY <1>5, <2>2, <2>3, <2>4 DEF Tracks
<1>9. more[Len(more)] = e /\ more[Len(more)].t = now
    BY <1>5
<1>10. PICK first \in 1..Len(more) : btHist' = SubSeq(more, first, Len(more))
    BY <1>1, <1>2, <1>5, <1>6, <1>9, KeptAreLast
<1>11. /\ btHist' \in Seq(Headings) /\ btHist' /= <<>> /\ Tracks(btHist', truth, now)
       /\ btHist'[Len(btHist')] = e
    BY <1>1, <1>5, <1>6, <1>8, <1>9, <1>10, LastTrack
<1>12. HeadingOfThePicture'
    <2> DEFINE at == now - btLate
    <2>1. at \in Int /\ at <= now
        BY <1>0, <1>1
    <2>2. btGuess'.at = at /\ btGuess'.h = Sample(btHist', at)
        BY <1>2
    <2> HIDE DEF at
    <2>3. btHist'[1].t <= at => Sample(btHist', at) = truth[at]
        BY <1>1, <1>11, <2>1, SampleIsTruth
    <2>4. btHist'[1].t \in Nat
        <3>1. 1 \in 1..Len(btHist')
            BY <1>11, LenProperties, EmptySeq
        <3>2. btHist'[1] \in Headings
            BY <1>11, <3>1, ElementOfSeq
        <3> QED BY <3>2 DEF Headings
    <2>5. btGuess'.at >= btHist'[1].t => btHist'[1].t <= at
        BY <2>1, <2>2, <2>4
    <2> QED BY <2>2, <2>3, <2>5 DEF HeadingOfThePicture, truth
<1>13. truth[now] = head
    <2>1. now \in btNow..now /\ now - btNow = d
        BY <1>0, <1>1 DEF now
    <2> QED BY <1>3, <2>1 DEF head
<1> QED BY <1>0, <1>1, <1>2, <1>11, <1>12, <1>13 DEF HeadInv, truth

\* Every step keeps it.
LEMMA HeadStep == HeadInv /\ [BotNext]_botVars => HeadInv'
<1> SUFFICES ASSUME HeadInv, [BotNext]_botVars PROVE HeadInv'
    OBVIOUS
<1>1. ASSUME NEW d \in 1..BotMaxStep, BotTick(d) PROVE HeadInv'
    <2>1. d \in Nat \ {0}
        BY LatencyAssumption
    <2> QED BY <1>1, <2>1, HeadTicks
<1>2. ASSUME NEW w \in BotSpins, NEW l \in BotLate, SlideBot(w, l) PROVE HeadInv'
    <2>1. w \in Nat /\ l \in Nat
        BY LatencyAssumption
    <2> QED BY <1>2, <2>1 DEF SlideBot, HeadInv, HeadingOfThePicture
<1>3. ASSUME NEW m \in {"ts", "now"}, PickBotMode(m) PROVE HeadInv'
    BY <1>3 DEF PickBotMode, HeadInv, HeadingOfThePicture
<1>4. CASE UNCHANGED botVars
    BY <1>4 DEF botVars, HeadInv, HeadingOfThePicture
<1> QED BY <1>1, <1>2, <1>3, <1>4 DEF BotNext

\* It holds at the start.
LEMMA HeadStart == BotInit => HeadInv
<1> SUFFICES ASSUME BotInit PROVE HeadInv
    OBVIOUS
<1>1. btSpin \in Nat /\ btLate \in Nat
    <2>1. (CHOOSE w \in BotSpins : TRUE) \in BotSpins /\ (CHOOSE l \in BotLate : TRUE) \in BotLate
        BY LatencyAssumption
    <2> QED BY <2>1, LatencyAssumption DEF BotInit
<1>2. btNow = 0 /\ btHead = 0 /\ btHist = <<>> /\ btTruth[0] = 0 /\ btGuess = NoGuess
    BY DEF BotInit
<1>3. btHist \in Seq(Headings) /\ Len(btHist) = 0
    BY <1>2, EmptySeq
<1>4. Tracks(btHist, btTruth, btNow)
    BY <1>3 DEF Tracks
<1>5. HeadingOfThePicture
    BY <1>2 DEF HeadingOfThePicture
<1> QED BY <1>1, <1>2, <1>3, <1>4, <1>5 DEF HeadInv

-----------------------------------------------------------------------------
(* Played forward: the journey's clock and the latency timeline's card. *)

\* The clock's stages follow each other, and none ends before it began (ch/17-finale.js, A and B).
LEMMA StagesFollow ==
    ASSUME NEW i \in 0..9
    PROVE  /\ ClockFrom[i + 1] \in Nat /\ ClockTo[i + 1] \in Nat
           /\ ClockFrom[i + 1] <= ClockTo[i + 1]
           /\ i < 9 => ClockTo[i + 1] <= ClockFrom[i + 2] /\ ClockFrom[i + 2] \in Nat
<1>1. i \in {0, 1, 2, 3, 4, 5, 6, 7, 8, 9}
    OBVIOUS
<1>2. CASE i \in {0, 1, 2, 3, 4}
    BY <1>2 DEF ClockFrom, ClockTo
<1>3. CASE i \in {5, 6, 7, 8, 9}
    BY <1>3 DEF ClockFrom, ClockTo
<1> QED BY <1>1, <1>2, <1>3

\* The clock a while into a stage.
LEMMA ClockInStage ==
    ASSUME NEW t \in Nat, NEW i \in 0..9, JourneyStage(t) = i, NEW r \in 0..3, t = 4 * i + r
    PROVE  JourneyClock(t) = ClockFrom[i + 1]
                             + ((ClockTo[i + 1] - ClockFrom[i + 1]) * (115 * r)) \div 400
<1>1. JourneyPer = 4
    BY DEF JourneyPer
<1>2. t - i * 4 = r /\ ~(115 * r > 400) /\ 100 * 4 = 400
    OBVIOUS
<1> QED BY <1>1, <1>2 DEF JourneyClock

\* The clock at the beginning and in the middle of a stage.
LEMMA ClockAtHalves ==
    ASSUME NEW i \in 0..9
    PROVE  /\ JourneyClock(4 * i) = ClockFrom[i + 1]
           /\ JourneyClock(4 * i + 2) = ClockFrom[i + 1]
                                        + ((ClockTo[i + 1] - ClockFrom[i + 1]) * 230) \div 400
<1>1. JourneyStage(4 * i) = i /\ JourneyStage(4 * i + 2) = i
    BY DEF JourneyStage, JourneyEnd, JourneyStages, JourneyPer
<1>2. 4 * i \in Nat /\ 4 * i + 2 \in Nat /\ 4 * i = 4 * i + 0 /\ 115 * 0 = 0 /\ 115 * 2 = 230
    OBVIOUS
<1>3. JourneyClock(4 * i) = ClockFrom[i + 1]
                            + ((ClockTo[i + 1] - ClockFrom[i + 1]) * (115 * 0)) \div 400
    BY <1>1, <1>2, ClockInStage
<1>4. JourneyClock(4 * i + 2) = ClockFrom[i + 1]
                                + ((ClockTo[i + 1] - ClockFrom[i + 1]) * (115 * 2)) \div 400
    BY <1>1, <1>2, ClockInStage
<1>5. (ClockTo[i + 1] - ClockFrom[i + 1]) * 0 = 0
    BY StagesFollow
<1> QED BY <1>2, <1>3, <1>4, <1>5, StagesFollow

\* At any time the clock shows a number.
LEMMA ClockIsNumber ==
    ASSUME NEW t \in 0..JourneyEnd
    PROVE  JourneyClock(t) \in Int
<1> DEFINE i == JourneyStage(t)
           p == 115 * (t - i * JourneyPer)
           u == IF p > 100 * JourneyPer THEN 100 * JourneyPer ELSE p
<1>1. t \in Nat /\ i \in 0..9
    BY DEF JourneyStage, JourneyEnd, JourneyStages, JourneyPer
<1>2. JourneyPer = 4
    BY DEF JourneyPer
<1>3. JourneyClock(t) = ClockFrom[i + 1]
                        + ((ClockTo[i + 1] - ClockFrom[i + 1]) * u) \div (100 * JourneyPer)
    BY DEF JourneyClock
<1> HIDE DEF i
<1>4. u \in Int
    BY <1>1, <1>2
<1> HIDE DEF u
<1>5. (ClockTo[i + 1] - ClockFrom[i + 1]) * u \in Int
    BY <1>1, <1>4, StagesFollow
<1> QED BY <1>1, <1>2, <1>3, <1>5, StagesFollow

\* Two half steps on, the clock is no earlier.
LEMMA ClockGoesOn ==
    ASSUME NEW t \in JourneyTimes, t + 2 < JourneyEnd
    PROVE  JourneyClock(t + 2) >= JourneyClock(t)
<1>1. t \in 0..37 /\ t % 2 = 0
    BY DEF JourneyTimes, JourneyEnd, JourneyStages, JourneyPer
<1>2. PICK i \in 0..9 : t = 4 * i \/ (t = 4 * i + 2 /\ i < 9)
    <2> DEFINE q == t \div 4
    <2>1. q \in 0..9 /\ (t = 4 * q \/ t = 4 * q + 2)
        BY <1>1
    <2> HIDE DEF q
    <2>2. t = 4 * q + 2 => q < 9
        BY <1>1, <2>1
    <2>3. t = 4 * q \/ (t = 4 * q + 2 /\ q < 9)
        BY <2>1, <2>2
    <2> QED BY <2>1, <2>3, Zenon
<1> DEFINE span == ClockTo[i + 1] - ClockFrom[i + 1]
<1>3. span \in Nat /\ (i < 9 => ClockFrom[i + 2] >= ClockFrom[i + 1] + span)
      /\ ClockFrom[i + 1] \in Nat
    BY StagesFollow
<1> HIDE DEF span
<1>4. (span * 230) \div 400 \in Nat /\ (span * 230) \div 400 <= span
    BY <1>3
<1>5. JourneyClock(4 * i) = ClockFrom[i + 1]
      /\ JourneyClock(4 * i + 2) = ClockFrom[i + 1] + (span * 230) \div 400
    BY ClockAtHalves DEF span
<1>6. CASE t = 4 * i
    BY <1>3, <1>4, <1>5, <1>6
<1>7. CASE t = 4 * i + 2 /\ i < 9
    <2>1. t + 2 = 4 * (i + 1) /\ i + 1 \in 0..9 /\ (i + 1) + 1 = i + 2
        BY <1>7
    <2>2. JourneyClock(t + 2) = ClockFrom[i + 2]
        BY <2>1, ClockAtHalves
    <2>3. ClockFrom[i + 2] \in Nat
        BY <1>7, StagesFollow
    <2> QED BY <1>3, <1>4, <1>5, <1>7, <2>2, <2>3
<1> QED BY <1>2, <1>6, <1>7

\* While the journey plays, its time moves by its clock.
LEMMA ClockStep ==
    JourneyTime /\ [JourneyNext]_journeyVars =>
        [jnPlaying /\ jnPlaying' => JourneyClock(jnT') >= JourneyClock(jnT)]_journeyVars
<1> SUFFICES ASSUME JourneyTime, JourneyNext, jnPlaying, jnPlaying'
             PROVE  JourneyClock(jnT') >= JourneyClock(jnT)
    OBVIOUS
<1>1. CASE JourneyTick
    <2>1. ~(jnT + 2 >= JourneyEnd) /\ jnT' = jnT + 2
        BY <1>1 DEF JourneyTick
    <2>2. jnT \in JourneyTimes /\ jnT + 2 < JourneyEnd
        BY <2>1 DEF JourneyTime, JourneyTimes, JourneyLast, JourneyEnd, JourneyStages, JourneyPer
    <2> QED BY <2>1, <2>2, ClockGoesOn
<1>2. CASE JourneyButton
    BY <1>2 DEF JourneyButton
<1>3. ASSUME NEW t \in JourneyTimes, JourneySeek(t) PROVE FALSE
    BY <1>3 DEF JourneySeek
<1>4. CASE JourneyPixels \/ JourneySwitches
    <2>1. jnT' = jnT
        BY <1>4 DEF JourneyPixels, JourneySwitches
    <2>2. jnT \in 0..JourneyEnd
        BY DEF JourneyTime, JourneyTimes, JourneyLast, JourneyEnd, JourneyStages, JourneyPer
    <2> QED BY <2>1, <2>2, ClockIsNumber
<1> QED BY <1>1, <1>2, <1>3, <1>4 DEF JourneyNext

\* The card tells of the row told last, or of the one clicked (ch/14-latency.js).
CardInv == tlCard \in {tlLast, tlSel}

\* Every step keeps it.
LEMMA CardStep == CardInv /\ [TimelineNext]_timelineVars => CardInv'
<1> SUFFICES ASSUME CardInv, [TimelineNext]_timelineVars PROVE CardInv'
    OBVIOUS
<1>1. ASSUME NEW d \in 1..2, LineTick(d) PROVE CardInv'
    BY <1>1 DEF LineTick, CardInv
<1>2. ASSUME NEW i \in Rows, ClickRow(i) PROVE CardInv'
    BY <1>2 DEF ClickRow, CardInv
<1>3. CASE LinePlayButton \/ UNCHANGED timelineVars
    BY <1>3 DEF LinePlayButton, timelineVars, CardInv
<1> QED BY <1>1, <1>2, <1>3 DEF TimelineNext

\* It holds at the start.
LEMMA CardStart == TimelineInit => CardInv
BY DEF TimelineInit, CardInv

\* While the line plays, the card tells the row that it has come to or the one selected.
LEMMA CardTells ==
    CardInv /\ [TimelineNext]_timelineVars =>
        [tlPlaying /\ tlPlaying' /\ tlTime' /= tlTime /\ RowAt(tlTime') /= 0 =>
            tlCard' \in {RowAt(tlTime'), tlSel'}]_timelineVars
<1> SUFFICES ASSUME CardInv, TimelineNext, tlPlaying, tlPlaying', tlTime' /= tlTime,
                    RowAt(tlTime') /= 0
             PROVE  tlCard' \in {RowAt(tlTime'), tlSel'}
    OBVIOUS
<1>1. ASSUME NEW d \in 1..2, LineTick(d) PROVE tlCard' \in {RowAt(tlTime'), tlSel'}
    <2> DEFINE row == RowAt(tlTime')
    <2>1. tlTime' = tlTime + d /\ ~(tlTime + d >= LineEnd)
        BY <1>1 DEF LineTick
    <2>2. /\ tlCard' = IF row /= tlLast THEN row ELSE tlCard
          /\ tlSel' = IF row /= tlLast THEN 0 ELSE tlSel
        BY <1>1, <2>1 DEF LineTick
    <2> HIDE DEF row
    <2>3. tlCard' \in {row, tlSel'}
        BY <2>2 DEF CardInv
    <2> QED BY <2>3 DEF row
<1>2. ASSUME NEW i \in Rows, ClickRow(i) PROVE FALSE
    BY <1>2 DEF ClickRow
<1>3. CASE LinePlayButton
    BY <1>3 DEF LinePlayButton
<1> QED BY <1>1, <1>2, <1>3 DEF TimelineNext

-----------------------------------------------------------------------------
(* The solved robot (ch/12-pose.js): what a scene was first solved to is what it is solved to now, *)
(* since every solve starts from the scene's own seed.                                             *)

SolvedAt(c) == SolveScene(c[1], c[2], 0)
SceneInv ==
    /\ psSpot \in PoseSpots /\ psTwo \in BOOLEAN
    /\ DOMAIN psFirst = Scenes
    /\ \A c \in Scenes : psFirst[c] \in {NoSolve, SolvedAt(c)}
    /\ psSolve = SolvedAt(<<psSpot, psTwo>>)
    /\ psFirst[<<psSpot, psTwo>>] = psSolve

\* Every scene is solved to something.
LEMMA SolvesTell == \A c : SolvedAt(c) /= NoSolve
<1> TAKE c
<1>1. SolvedAt(c).by \in {"nothing", "one tag", "multi-tag"}
    BY DEF SolvedAt, SolveScene
<1>2. NoSolve.by = "none"
    BY DEF NoSolve
<1> QED BY <1>1, <1>2

\* A scene that was just solved again is that of its settings.
LEMMA SceneSolved ==
    ASSUME SceneInv, NEW spot \in PoseSpots, NEW two \in BOOLEAN, Update(spot, two),
           psSpot' = spot, psTwo' = two
    PROVE  SceneInv'
<1> DEFINE c == <<spot, two>>
<1>1. c \in Scenes /\ c[1] = spot /\ c[2] = two
    BY DEF Scenes
<1>2. psSolve' = SolvedAt(c)
    BY DEF Update, SolvedAt
<1>3. psFirst' = IF psFirst[c] = NoSolve THEN [psFirst EXCEPT ![c] = SolvedAt(c)] ELSE psFirst
    BY DEF Update, SolvedAt
<1>4. DOMAIN psFirst' = Scenes
    BY <1>3 DEF SceneInv
<1> HIDE DEF c
<1>5. \A d \in Scenes : d /= c => psFirst'[d] = psFirst[d]
    BY <1>3 DEF SceneInv
<1>6. psFirst'[c] = SolvedAt(c)
    BY <1>1, <1>3 DEF SceneInv
<1>7. \A d \in Scenes : psFirst'[d] \in {NoSolve, SolvedAt(d)}
    BY <1>5, <1>6 DEF SceneInv
<1> QED BY <1>2, <1>4, <1>6, <1>7 DEF SceneInv, c, SolvedAt

\* Every step keeps it.
LEMMA SceneStep == SceneInv /\ [SceneNext]_sceneVars => SceneInv'
<1> SUFFICES ASSUME SceneInv, [SceneNext]_sceneVars PROVE SceneInv'
    OBVIOUS
<1>1. CASE GrabRobot \/ DropRobot \/ OtherLabDraws \/ UNCHANGED sceneVars
    BY <1>1, Zenon DEF GrabRobot, DropRobot, OtherLabDraws, sceneVars, SceneInv
<1>2. ASSUME NEW s \in PoseSpots, DragRobot(s) \/ SlideScene(s) PROVE SceneInv'
    BY <1>2, SceneSolved DEF DragRobot, SlideScene, SceneInv
<1>3. ASSUME NEW two \in BOOLEAN, PickTagCount(two) PROVE SceneInv'
    BY <1>3, SceneSolved DEF PickTagCount, SceneInv
<1>4. CASE TickChain
    BY <1>4, SceneSolved DEF TickChain, SceneInv
<1> QED BY <1>1, <1>2, <1>3, <1>4 DEF SceneNext

\* It holds at the start.
LEMMA SceneStart == SceneInit => SceneInv
<1> SUFFICES ASSUME SceneInit PROVE SceneInv
    OBVIOUS
<1> DEFINE c == <<psSpot, FALSE>>
<1>1. psSpot \in PoseSpots /\ psTwo = FALSE
    BY PoseAssumption DEF SceneInit
<1>2. psSolve = SolvedAt(c) /\ c \in Scenes
    <2>1. c[1] = psSpot /\ c[2] = FALSE
        BY Zenon
    <2>2. psSolve = SolveScene(c[1], c[2], 0)
        BY <2>1, Zenon DEF SceneInit
    <2>3. c \in Scenes
        BY <1>1, Zenon DEF Scenes
    <2> QED BY <2>2, <2>3 DEF SolvedAt
<1>3. psFirst = [d \in Scenes |-> IF d = c THEN psSolve ELSE NoSolve]
    BY DEF SceneInit
<1> HIDE DEF c
<1>4. /\ DOMAIN psFirst = Scenes /\ psFirst[c] = psSolve
      /\ \A d \in Scenes : psFirst[d] \in {NoSolve, SolvedAt(d)}
    BY <1>2, <1>3
<1> QED BY <1>1, <1>2, <1>4 DEF SceneInv, c

-----------------------------------------------------------------------------
(* The ports (ch/20-camsetup.js): the cables are a way of placing four cameras, so a swap cannot   *)
(* leave just one of them in another's place.                                                      *)

Swapped == [Cameras0 EXCEPT ![0] = 1, ![1] = 0]
PortsInv ==
    /\ csCable \in [Ports -> Ports] /\ csLens \in [Ports -> Lenses] /\ csCalib \in [Ports -> Lenses]
    /\ csSel \in -1..3
    /\ \A p, q \in Ports : p /= q => csCable[p] /= csCable[q]
    /\ csLast = "reset" => csCable = Cameras0 /\ csLens = Lens0 /\ csCalib = Lens0
    /\ csLast = "swap" => csCable = Swapped /\ csLens = Lens0 /\ csCalib = Lens0
    /\ csLast = "replace" =>
           csCable = Cameras0 /\ csLens = [Lens0 EXCEPT ![0] = Spare] /\ csCalib = Lens0
    /\ csLast = "recal" => \A p \in Ports : csCalib[p] = csLens[csCable[p]]

\* The cameras' lenses, by their ports.
LEMMA LensesAreNumbers ==
    /\ Lens0 \in [Ports -> Lenses] /\ Lenses \subseteq Int /\ Spare \in Lenses
    /\ Lens0[0] = 6505 /\ Lens0[1] = 5979 /\ Lens0[2] = 6243 /\ Lens0[3] = 6118 /\ Spare = 6120
<1>1. Lens0[0] = 6505 /\ Lens0[1] = 5979 /\ Lens0[2] = 6243 /\ Lens0[3] = 6118
    BY DEF Lens0, Ports
<1>2. \A m \in Ports : m = 0 \/ m = 1 \/ m = 2 \/ m = 3
    BY DEF Ports
<1> QED BY <1>1, <1>2 DEF Lenses, Lens0, Spare

\* Crossing two cables exchanges the first two ports.
LEMMA SwappedPorts ==
    /\ Swapped \in [Ports -> Ports]
    /\ Swapped[0] = 1 /\ Swapped[1] = 0 /\ Swapped[2] = 2 /\ Swapped[3] = 3
<1>1. Cameras0 \in [Ports -> Ports] /\ \A p \in Ports : Cameras0[p] = p
    BY DEF Cameras0
<1>2. 0 \in Ports /\ 1 \in Ports /\ 2 \in Ports /\ 3 \in Ports
    BY DEF Ports
<1> QED BY <1>1, <1>2 DEF Swapped

\* Every step keeps it.
LEMMA PortsStep == PortsInv /\ [PortsNext]_portsVars => PortsInv'
<1> SUFFICES ASSUME PortsInv, [PortsNext]_portsVars PROVE PortsInv'
    OBVIOUS
<1>1. CASE (\E v \in {"mt1", "mt2"} : Solver(v)) \/ UNCHANGED portsVars
    BY <1>1 DEF Solver, portsVars, PortsInv
<1>2. ASSUME PortsRestart("reset", Cameras0, Lens0) PROVE PortsInv'
    BY <1>2, LensesAreNumbers DEF PortsRestart, PortsInv, Cameras0, Ports
<1>3. ASSUME PortsRestart("swap", Swapped, Lens0) PROVE PortsInv'
    <2>1. Swapped \in [Ports -> Ports] /\ \A p, q \in Ports : p /= q => Swapped[p] /= Swapped[q]
        BY SwappedPorts DEF Ports
    <2> QED BY <1>3, <2>1, LensesAreNumbers DEF PortsRestart, PortsInv
<1>4. ASSUME PortsRestart("replace", Cameras0, [Lens0 EXCEPT ![0] = Spare]) PROVE PortsInv'
    <2>1. [Lens0 EXCEPT ![0] = Spare] \in [Ports -> Lenses]
        <3>1. 0 \in Ports
            BY DEF Ports
        <3>2. Lens0 \in [Ports -> Lenses] /\ Spare \in Lenses
            BY LensesAreNumbers
        <3> QED BY <3>1, <3>2
    <2>2. Cameras0 \in [Ports -> Ports] /\ \A p, q \in Ports : p /= q => Cameras0[p] /= Cameras0[q]
        BY DEF Cameras0, Ports
    <2> QED BY <1>4, <2>1, <2>2, LensesAreNumbers DEF PortsRestart, PortsInv
<1>5. CASE Recalibrate
    <2>1. csCalib' = [p \in Ports |-> csLens[csCable[p]]] /\ csSel' = -1 /\ csLast' = "recal"
        BY <1>5 DEF Recalibrate
    <2>2. csCalib' \in [Ports -> Lenses] /\ \A p \in Ports : csCalib'[p] = csLens[csCable[p]]
        BY <2>1 DEF PortsInv
    <2> QED BY <1>5, <2>1, <2>2 DEF Recalibrate, PortsInv
<1>6. ASSUME NEW p \in Ports, TapPort(p) PROVE PortsInv'
    <2>1. CASE csSel < 0 \/ csSel = p
        BY <1>6, <2>1 DEF TapPort, PortsInv, Ports
    <2>2. CASE ~(csSel < 0 \/ csSel = p)
        <3>1. csSel \in Ports /\ csSel /= p
            BY <2>2 DEF PortsInv, Ports
        <3>2. csCable' = [csCable EXCEPT ![p] = csCable[csSel], ![csSel] = csCable[p]]
            BY <1>6, <2>2 DEF TapPort
        <3>3. /\ csLast' = "manual" /\ csSel' \in -1..3
              /\ csLens' = csLens /\ csCalib' = csCalib
            BY <1>6, <2>2 DEF TapPort, Ports
        <3>4. csCable' \in [Ports -> Ports]
            BY <3>1, <3>2 DEF PortsInv
        <3>5. \A q, r \in Ports : q /= r => csCable'[q] /= csCable'[r]
            BY <3>1, <3>2 DEF PortsInv
        <3> QED BY <3>3, <3>4, <3>5 DEF PortsInv
    <2> QED BY <2>1, <2>2
<1> QED BY <1>1, <1>2, <1>3, <1>4, <1>5, <1>6 DEF PortsNext, Setup, Swapped

\* It holds at the start.
LEMMA PortsStart == PortsInit => PortsInv
BY LensesAreNumbers DEF PortsInit, PortsInv, Cameras0, Ports

\* A single camera cannot be in the wrong port: the one whose port it is in has to be somewhere.
LEMMA NoteIsTrue == PortsInv => NoteTellsPorts
<1> SUFFICES ASSUME PortsInv PROVE NoteTellsPorts
    OBVIOUS
<1> DEFINE wrong == {p \in Ports : ~MountOk(p)}
           lens == {p \in Ports : ~CalOk(p)}
<1>1. \A p \in Ports : p = 0 \/ p = 1 \/ p = 2 \/ p = 3
    BY DEF Ports
<1>2. ASSUME csLast = "reset" PROVE wrong = {} /\ lens = {}
    <2>1. \A p \in Ports : csCable[p] = p /\ csLens[csCable[p]] = Lens0[p] /\ csCalib[p] = Lens0[p]
        BY <1>2 DEF PortsInv, Cameras0
    <2> QED BY <1>1, <2>1, LensesAreNumbers DEF MountOk, CalOk
<1>3. ASSUME csLast = "swap" PROVE wrong = {0, 1} /\ lens = {0, 1}
    <2>1. csCable[0] = 1 /\ csCable[1] = 0 /\ csCable[2] = 2 /\ csCable[3] = 3
        BY <1>3, SwappedPorts DEF PortsInv
    <2>2. csLens = Lens0 /\ csCalib = Lens0
        BY <1>3 DEF PortsInv
    <2>3. ~CalOk(0) /\ ~CalOk(1) /\ CalOk(2) /\ CalOk(3)
        BY <2>1, <2>2, LensesAreNumbers DEF CalOk
    <2>4. 0 \in Ports /\ 1 \in Ports
        BY DEF Ports
    <2> QED BY <1>1, <2>1, <2>3, <2>4 DEF MountOk
<1>4. ASSUME csLast = "replace" PROVE wrong = {} /\ lens = {0}
    <2>1. \A p \in Ports : csCable[p] = p
        BY <1>4 DEF PortsInv, Cameras0
    <2>2. csLens = [Lens0 EXCEPT ![0] = Spare] /\ csCalib = Lens0
        BY <1>4 DEF PortsInv
    <2>3. csLens[0] = 6120 /\ \A p \in Ports : p /= 0 => csLens[p] = Lens0[p]
        BY <2>2, LensesAreNumbers DEF Ports
    <2>4. 0 \in Ports
        BY DEF Ports
    <2> QED BY <1>1, <2>1, <2>2, <2>3, <2>4, LensesAreNumbers DEF MountOk, CalOk
<1>5. ASSUME csLast = "recal" PROVE lens = {}
    <2>1. \A p \in Ports : csCalib[p] = csLens[csCable[p]] /\ csCalib[p] \in Lenses
        BY <1>5 DEF PortsInv
    <2>2. \A x \in Lenses : x \in Int
        BY LensesAreNumbers
    <2> QED BY <2>1, <2>2 DEF CalOk
<1>6. Cardinality(wrong) /= 1
    <2> SUFFICES ASSUME Cardinality(wrong) = 1 PROVE FALSE
        OBVIOUS
    <2>1. IsFiniteSet(wrong)
        <3>1. IsFiniteSet(Ports)
            BY FS_Interval, 0 \in Int, 3 \in Int DEF Ports
        <3> QED BY <3>1, FS_Subset, wrong \subseteq Ports
    <2>2. PICK p : wrong = {p}
        BY <2>1, FS_Singleton
    <2>3. p \in Ports /\ csCable[p] /= p /\ \A q \in Ports : q /= p => csCable[q] = q
        BY <2>2 DEF MountOk
    <2>4. csCable[p] \in Ports
        BY <2>3 DEF PortsInv
    <2> QED BY <2>3, <2>4 DEF PortsInv
<1> QED BY <1>2, <1>3, <1>4, <1>5, <1>6 DEF NoteTellsPorts

-----------------------------------------------------------------------------
(* The symptom finder (ch/21-pit.js): its tree has no way back, since every reply leads deeper.    *)

Depth(node) ==
    CASE node \in {"notargets", "missing", "flicker", "pose", "nodash", "pvdown", "stream"} -> 0
      [] node \in {"nt_topic", "nt_fps", "mi_listed", "po_move", "nd_ping"} -> 1
      [] node \in {"lowfps", "mi_bw"} -> 2
      [] node = "lf_all" -> 3
      [] node = "lf_thr" -> 4
      [] OTHER -> 5

Causes ==
    {"L_name", "L_nt", "L_nodetect", "L_stuck", "L_cable", "L_bw", "L_notset", "L_idle",
     "L_exposure", "L_throttle", "L_allslow", "L_lights", "L_range", "L_offset", "L_timing",
     "L_jumps", "L_bench", "L_pvnotanswering", "L_network", "L_jar", "L_pvother", "L_connlimit",
     "L_streamother", "version", "noboot", "norec", "lostset", "blackcal", "calfail"}
Branches ==
    {"notargets", "nt_topic", "nt_fps", "missing", "mi_listed", "mi_bw", "lowfps", "lf_all",
     "lf_thr", "flicker", "pose", "po_move", "nodash", "nd_ping", "pvdown", "stream"}

\* A part of the tree whose replies all lead deeper.
Deeper(from) ==
    \A node \in DOMAIN from : \A n \in {1, 2} :
        /\ from[node][n] \in Branches \union Causes
        /\ Depth(from[node][n]) > Depth(node)

\* Two tables put together have the entries of both, and lead on to deeper nodes if both do.
LEMMA PutTogether ==
    ASSUME NEW f, NEW g
    PROVE  /\ DOMAIN And(f, g) = DOMAIN f \union DOMAIN g
           /\ Deeper(f) /\ Deeper(g) => Deeper(And(f, g))
<1> DEFINE h == And(f, g)
<1>1. /\ DOMAIN h = DOMAIN f \union DOMAIN g
      /\ \A x \in DOMAIN f : h[x] = f[x]
      /\ \A x \in DOMAIN g : x \notin DOMAIN f => h[x] = g[x]
    BY Zenon DEF And
<1> HIDE DEF h
<1>2. Deeper(f) /\ Deeper(g) => Deeper(h)
    BY <1>1, Zenon DEF Deeper
<1> QED BY <1>1, <1>2 DEF h

\* The parts of the tree, one by one.
LEMMA PartsLeadDeeper ==
    /\ Deeper(FromNoTargets) /\ Deeper(FromMissing) /\ Deeper(FromLowFps)
    /\ Deeper(FromSight) /\ Deeper(FromReach) /\ Deeper(FromRest)
<1>1. Deeper(FromNoTargets)
    BY DEF Deeper, FromNoTargets, Depth, Branches, Causes
<1>2. Deeper(FromMissing)
    BY DEF Deeper, FromMissing, Depth, Branches, Causes
<1>3. Deeper(FromLowFps)
    BY DEF Deeper, FromLowFps, Depth, Branches, Causes
<1>4. Deeper(FromSight)
    BY DEF Deeper, FromSight, Depth, Branches, Causes
<1>5. Deeper(FromReach)
    BY DEF Deeper, FromReach, Depth, Branches, Causes
<1>6. Deeper(FromRest)
    BY DEF Deeper, FromRest, Depth, Branches, Causes
<1> QED BY <1>1, <1>2, <1>3, <1>4, <1>5, <1>6

\* The nodes of a part of the tree.
Lists(f, nodes) == DOMAIN f = nodes

\* So have six.
LEMMA SixTogether ==
    ASSUME NEW f1, NEW f2, NEW f3, NEW f4, NEW f5, NEW f6
    PROVE  Lists(And(f1, And(f2, And(f3, And(f4, And(f5, f6))))),
               DOMAIN f1 \union DOMAIN f2 \union DOMAIN f3 \union DOMAIN f4
               \union DOMAIN f5 \union DOMAIN f6)
<1> DEFINE g5 == And(f5, f6)
           g4 == And(f4, g5)
           g3 == And(f3, g4)
           g2 == And(f2, g3)
<1>1. DOMAIN g5 = DOMAIN f5 \union DOMAIN f6
    BY PutTogether
<1> HIDE DEF g5
<1>2. DOMAIN g4 = DOMAIN f4 \union DOMAIN g5
    BY PutTogether
<1> HIDE DEF g4
<1>3. DOMAIN g3 = DOMAIN f3 \union DOMAIN g4
    BY PutTogether
<1> HIDE DEF g3
<1>4. DOMAIN g2 = DOMAIN f2 \union DOMAIN g3
    BY PutTogether
<1> HIDE DEF g2
<1>5. DOMAIN And(f1, g2) = DOMAIN f1 \union DOMAIN g2
    BY PutTogether
<1>6. DOMAIN And(f1, g2) = DOMAIN f1 \union DOMAIN f2 \union DOMAIN f3 \union DOMAIN f4
                          \union DOMAIN f5 \union DOMAIN f6
    BY <1>1, <1>2, <1>3, <1>4, <1>5
<1> QED BY <1>6 DEF g2, g3, g4, g5, Lists

\* The tree's questions are those of its six tables, each answer leads deeper, and symptoms are
\* nodes.
LEMMA TreeNodes ==
    /\ DOMAIN Leads = Branches /\ DOMAIN Why = Causes /\ Deeper(Leads)
    /\ Symptoms \subseteq Branches \union Causes
<1>0. \A f, g : /\ DOMAIN And(f, g) = DOMAIN f \union DOMAIN g
                /\ Deeper(f) /\ Deeper(g) => Deeper(And(f, g))
    BY PutTogether
<1>1. DOMAIN Leads = DOMAIN FromNoTargets \union DOMAIN FromMissing \union DOMAIN FromLowFps
                     \union DOMAIN FromSight \union DOMAIN FromReach \union DOMAIN FromRest
    <2>1. Lists(And(FromNoTargets, And(FromMissing, And(FromLowFps, And(FromSight,
                     And(FromReach, FromRest))))),
              DOMAIN FromNoTargets \union DOMAIN FromMissing \union DOMAIN FromLowFps
              \union DOMAIN FromSight \union DOMAIN FromReach \union DOMAIN FromRest)
        BY SixTogether
    <2> QED BY <2>1, Zenon DEF Leads, Lists
<1>2. Deeper(Leads)
    BY <1>0, PartsLeadDeeper DEF Leads
<1>3. DOMAIN Why = DOMAIN WhyNoTargets \union DOMAIN WhyMissing \union DOMAIN WhyLowFps
                   \union DOMAIN WhySight \union DOMAIN WhyReach \union DOMAIN WhyRest
    <2>1. Lists(And(WhyNoTargets, And(WhyMissing, And(WhyLowFps, And(WhySight,
                     And(WhyReach, WhyRest))))),
              DOMAIN WhyNoTargets \union DOMAIN WhyMissing \union DOMAIN WhyLowFps
              \union DOMAIN WhySight \union DOMAIN WhyReach \union DOMAIN WhyRest)
        BY SixTogether
    <2> QED BY <2>1, Zenon DEF Why, Lists
<1>4. DOMAIN Leads = Branches
    BY <1>1 DEF FromNoTargets, FromMissing, FromLowFps, FromSight, FromReach, FromRest, Branches
<1>5. DOMAIN Why = Causes
    BY <1>3 DEF WhyNoTargets, WhyMissing, WhyLowFps, WhySight, WhyReach, WhyRest, Causes
<1> QED BY <1>2, <1>4, <1>5 DEF Symptoms, Branches, Causes

\* A trail along the tree, its last node without an answer.
Visits == [id : PitNodes, ans : Replies \union {""}]
Follows(path, i) ==
    /\ path[i].ans \in Replies /\ Asking(path[i].id)
    /\ path[i + 1].id = Lead(path[i].id, path[i].ans)
EndsOpen(path) == path[1].id \in Symptoms /\ path[Len(path)].ans = ""
Trail(path) ==
    /\ path \in Seq(Visits)
    /\ path /= <<>> => EndsOpen(path)
    /\ \A i \in 1..(Len(path) - 1) : Follows(path, i)

\* A path begins at any symptom.
LEMMA FirstVisit ==
    ASSUME NEW id \in Symptoms
    PROVE  Trail(<<Visit(id)>>)
<1>1. id \in PitNodes
    BY TreeNodes DEF PitNodes
<1> DEFINE v == Visit(id)
           path == <<v>>
<1>2. v \in Visits /\ v.id = id /\ v.ans = ""
    BY <1>1 DEF Visit, Visits
<1> HIDE DEF v
<1>3. path \in Seq(Visits) /\ Len(path) = 1 /\ path[1] = v
    <2>1. v \in Visits
        BY <1>2
    <2> QED BY <2>1
<1> HIDE DEF path
<1>4. 1..(Len(path) - 1) = {}
    BY <1>3
<1>5. EndsOpen(path)
    BY <1>2, <1>3 DEF EndsOpen
<1>6. Trail(path)
    BY <1>3, <1>4, <1>5 DEF Trail
<1> QED BY <1>6 DEF path, v

\* An answer makes the path one node longer, and it is still a path of the tree.
LEMMA TrailGoesOn ==
    ASSUME NEW path, Trail(path), path /= <<>>, Asking(Last(path).id), NEW reply \in Replies
    PROVE  Trail(Append([path EXCEPT ![Len(path)].ans = reply],
                        Visit(Lead(Last(path).id, reply))))
<1> DEFINE n == Len(path)
           told == [path[n] EXCEPT !.ans = reply]
           next == Visit(Lead(path[n].id, reply))
           new == Append([path EXCEPT ![n] = told], next)
<1>1. path \in Seq(Visits) /\ n \in Nat \ {0} /\ path[n] \in Visits /\ Last(path) = path[n]
    BY DEF Trail, Last
<1>2. told \in Visits /\ told.id = path[n].id /\ told.ans = reply
    BY <1>1 DEF Visits
<1>3. Lead(path[n].id, reply) \in PitNodes
    <2>1. path[n].id \in DOMAIN Leads
        BY <1>1 DEF Asking
    <2>2. \A k \in {1, 2} : Leads[path[n].id][k] \in Branches \union Causes
        BY <2>1, TreeNodes DEF Deeper
    <2> QED BY <2>2, TreeNodes DEF Lead, PitNodes
<1>4. next \in Visits /\ next.id = Lead(path[n].id, reply) /\ next.ans = ""
    BY <1>3 DEF Visit, Visits
<1>5. EndsOpen(path) /\ \A i \in 1..(n - 1) : Follows(path, i)
    BY DEF Trail
<1>6. Asking(path[n].id)
    BY <1>1
<1>7. Append([path EXCEPT ![Len(path)].ans = reply], Visit(Lead(Last(path).id, reply))) = new
    BY <1>1
<1> HIDE DEF told, next
<1> DEFINE first == [path EXCEPT ![n] = told]
<1>8. first \in Seq(Visits) /\ Len(first) = n /\ \A i \in 1..n : first[i] = IF i = n THEN told ELSE path[i]
    BY <1>1, <1>2
<1>9. new = Append(first, next)
    OBVIOUS
<1> HIDE DEF first, new
<1>10. /\ new \in Seq(Visits) /\ Len(new) = n + 1 /\ new[n + 1] = next
       /\ \A i \in 1..n : new[i] = IF i = n THEN told ELSE path[i]
    <2>1. next \in Visits
        BY <1>4
    <2>2. first \in Seq(Visits) /\ Len(first) = n
        BY <1>8
    <2>3. new \in Seq(Visits) /\ Len(new) = n + 1 /\ new[n + 1] = next
        BY <1>9, <2>1, <2>2
    <2>4. \A i \in 1..n : new[i] = first[i]
        BY <1>9, <2>1, <2>2
    <2> QED BY <1>8, <2>3, <2>4
<1> HIDE DEF n
<1>11. \A i \in 1..(n + 1) : i <= n => new[i].id = path[i].id
    BY <1>1, <1>2, <1>10
<1>12. EndsOpen(new)
    <2>1. new[1].id = path[1].id
        BY <1>1, <1>11
    <2> QED BY <1>4, <1>5, <1>10, <2>1 DEF EndsOpen
<1>13. ASSUME NEW i \in 1..n PROVE Follows(new, i)
    <2>1. CASE i = n
        <3>1. new[i].ans = reply /\ new[i].id = path[n].id /\ new[i + 1].id = Lead(path[n].id, reply)
            BY <1>1, <1>2, <1>4, <1>10, <2>1
        <3> QED BY <1>6, <3>1 DEF Follows
    <2>2. CASE i < n
        <3>1. i \in 1..(n - 1) /\ i + 1 \in 1..(n + 1) /\ i + 1 <= n
            BY <1>1, <2>2
        <3>2. new[i] = path[i] /\ new[i + 1].id = path[i + 1].id
            BY <1>1, <1>10, <1>11, <2>2, <3>1
        <3> QED BY <1>5, <3>1, <3>2 DEF Follows
    <2> QED BY <1>1, <2>1, <2>2
<1>14. Trail(new)
    <2>1. \A i \in 1..(Len(new) - 1) : Follows(new, i)
        BY <1>1, <1>10, <1>13
    <2> QED BY <1>10, <1>12, <2>1 DEF Trail
<1> QED BY <1>7, <1>14

\* Going back to a node leaves the path up to it.
LEMMA TrailCutShort ==
    ASSUME NEW path, Trail(path), NEW i \in 1..Len(path)
    PROVE  Trail(Unanswered(SubSeq(path, 1, i)))
<1> DEFINE part == SubSeq(path, 1, i)
           open == [part[i] EXCEPT !.ans = ""]
           new == [part EXCEPT ![i] = open]
<1>1. path \in Seq(Visits) /\ Len(path) \in Nat /\ path[i] \in Visits
    BY DEF Trail
<1>2. part \in Seq(Visits) /\ Len(part) = i /\ \A k \in 1..i : part[k] = path[k]
    BY <1>1
<1>3. open \in Visits /\ open.id = path[i].id /\ open.ans = ""
    <2>1. part[i] = path[i]
        BY <1>2
    <2> QED BY <1>1, <2>1 DEF Visits
<1>4. Unanswered(part) = new
    BY <1>2 DEF Unanswered
<1>5. EndsOpen(path) /\ \A k \in 1..(Len(path) - 1) : Follows(path, k)
    BY DEF Trail
<1> HIDE DEF open, part
<1>6. /\ new \in Seq(Visits) /\ Len(new) = i
      /\ \A k \in 1..i : new[k] = IF k = i THEN open ELSE path[k]
    <2>1. new \in Seq(Visits) /\ Len(new) = i
        <3>1. part \in Seq(Visits) /\ Len(part) = i
            BY <1>2
        <3>2. open \in Visits
            BY <1>3
        <3> QED BY <3>1, <3>2
    <2>2. \A k \in 1..i : new[k] = IF k = i THEN open ELSE part[k]
        BY <1>2
    <2> QED BY <1>2, <2>1, <2>2
<1> HIDE DEF new
<1>7. \A k \in 1..i : new[k].id = path[k].id
    BY <1>3, <1>6
<1>8. EndsOpen(new)
    <2>1. 1 \in 1..i /\ i \in 1..i
        OBVIOUS
    <2> QED BY <1>3, <1>5, <1>6, <1>7, <2>1 DEF EndsOpen
<1>9. ASSUME NEW k \in 1..(i - 1) PROVE Follows(new, k)
    <2>1. k \in 1..(Len(path) - 1) /\ k + 1 \in 1..i /\ new[k] = path[k]
        BY <1>1, <1>6
    <2> QED BY <1>5, <1>7, <2>1 DEF Follows
<1>10. Trail(new)
    BY <1>6, <1>8, <1>9 DEF Trail
<1> QED BY <1>4, <1>10 DEF part

\* Every step keeps it.
LEMMA TrailStep == Trail(ptPath) /\ [FinderNext]_finderVars => Trail(ptPath)'
<1> SUFFICES ASSUME Trail(ptPath), [FinderNext]_finderVars PROVE Trail(ptPath')
    OBVIOUS
<1>1. Trail(<<>>)
    BY DEF Trail
<1>2. ASSUME NEW id \in Symptoms, PickSymptom(id) PROVE Trail(ptPath')
    BY <1>2, FirstVisit DEF PickSymptom
<1>3. ASSUME NEW reply \in Replies, Reply(reply) PROVE Trail(ptPath')
    BY <1>3, TrailGoesOn, Zenon DEF Reply
<1>4. ASSUME NEW i \in 1..Cardinality(PitNodes), Crumb(i) PROVE Trail(ptPath')
    <2>1. i \in 1..Len(ptPath) /\ ptPath' = Unanswered(SubSeq(ptPath, 1, i))
        BY <1>4 DEF Crumb, Trail
    <2> QED BY <2>1, TrailCutShort
<1>5. CASE PitBack
    <2>1. CASE Len(ptPath) = 1
        BY <1>1, <1>5, <2>1 DEF PitBack
    <2>2. CASE Len(ptPath) /= 1
        <3>1. ptPath /= <<>> /\ ptPath' = Unanswered(Front(ptPath))
            BY <1>5, <2>2 DEF PitBack
        <3> DEFINE i == Len(ptPath) - 1
        <3>2. i \in 1..Len(ptPath) /\ Front(ptPath) = SubSeq(ptPath, 1, i)
            <4>1. ptPath \in Seq(Visits)
                BY DEF Trail
            <4>2. Len(ptPath) \in Nat /\ Len(ptPath) /= 0
                <5>1. ptPath /= <<>>
                    BY <3>1
                <5> QED BY <4>1, <5>1
            <4>3. i \in 1..Len(ptPath)
                <5>1. \A m \in Nat : m /= 0 /\ m /= 1 => m - 1 \in 1..m
                    OBVIOUS
                <5> QED BY <2>2, <4>2, <5>1
            <4> QED BY <3>1, <4>3 DEF Front
        <3> HIDE DEF i
        <3> QED BY <3>1, <3>2, TrailCutShort
    <2> QED BY <2>1, <2>2
<1>6. CASE PitReset \/ UNCHANGED finderVars
    BY <1>1, <1>6 DEF PitReset, finderVars
<1> QED BY <1>2, <1>3, <1>4, <1>5, <1>6 DEF FinderNext

\* It holds at the start.
LEMMA TrailStart == FinderInit => Trail(ptPath)
BY DEF FinderInit, Trail

\* Nothing is asked twice: each node of a trail lies deeper than those before it.
LEMMA TrailGoesDown ==
    ASSUME NEW path, Trail(path)
    PROVE  \A i \in 1..Len(path) : \A j \in 1..(i - 1) :
               Depth(path[j].id) < Depth(path[i].id)
<1> DEFINE n == Len(path)
           depth(i) == Depth(path[i].id)
           T == {i \in Nat : i <= n => \A j \in 1..(i - 1) : depth(j) < depth(i)}
<1>1. n \in Nat
    BY DEF Trail
<1>2. \A node : Depth(node) \in Nat
    BY DEF Depth
<1>3. ASSUME NEW i \in 1..(n - 1) PROVE depth(i) < depth(i + 1)
    <2>1. /\ path[i].ans \in Replies /\ path[i].id \in DOMAIN Leads
          /\ path[i + 1].id = Lead(path[i].id, path[i].ans)
        BY DEF Trail, Follows, Asking
    <2>2. \A k \in {1, 2} : Depth(Leads[path[i].id][k]) > Depth(path[i].id)
        BY <2>1, TreeNodes DEF Deeper
    <2>3. path[i + 1].id = Leads[path[i].id][1] \/ path[i + 1].id = Leads[path[i].id][2]
        BY <2>1 DEF Lead
    <2> QED BY <1>2, <2>2, <2>3
<1>4. \A i : depth(i) \in Nat
    BY <1>2
<1> HIDE DEF depth
<1>5. 0 \in T
    OBVIOUS
<1>6. ASSUME NEW i \in Nat, i \in T PROVE i + 1 \in T
    <2> SUFFICES ASSUME i + 1 <= n, NEW j \in 1..i PROVE depth(j) < depth(i + 1)
        OBVIOUS
    <2>1. depth(i) < depth(i + 1)
        BY <1>1, <1>3
    <2>2. CASE j = i
        BY <2>1, <2>2
    <2>3. CASE j < i
        BY <1>4, <1>6, <2>1, <2>3
    <2> QED BY <2>2, <2>3
<1>7. \A i \in 1..n : \A j \in 1..(i - 1) : depth(j) < depth(i)
    <2>1. \A i \in Nat : i \in T
        <3> HIDE DEF T
        <3> QED BY <1>5, <1>6, EveryNatural
    <2> QED BY <1>1, <2>1
<1> QED BY <1>7 DEF depth

\* A path of the tree leads to the node shown.
LEMMA TrailIsTrue == Trail(ptPath) => TrailLeadsHere
<1> SUFFICES ASSUME Trail(ptPath) PROVE TrailLeadsHere
    OBVIOUS
<1> DEFINE n == Len(ptPath)
<1>1. n \in Nat /\ ptPath \in Seq(Visits)
    BY DEF Trail
<1>2. \A i \in 1..n : \A j \in 1..(i - 1) : ptPath[j].id /= ptPath[i].id
    <2>1. \A node : Depth(node) \in Nat
        BY DEF Depth
    <2> SUFFICES ASSUME NEW i \in 1..n, NEW j \in 1..(i - 1) PROVE ptPath[j].id /= ptPath[i].id
        OBVIOUS
    <2>2. Depth(ptPath[j].id) < Depth(ptPath[i].id)
        BY TrailGoesDown
    <2> QED BY <2>1, <2>2
<1>3. ASSUME NEW i \in 1..n
      PROVE  /\ i = 1 => ptPath[i].id \in Symptoms
             /\ ptPath[i].ans /= "" <=> i < n
             /\ i < n => /\ Asking(ptPath[i].id)
                         /\ ptPath[i + 1].id = Lead(ptPath[i].id, ptPath[i].ans)
    <2>1. EndsOpen(ptPath)
        <3>1. ptPath /= <<>>
            BY <1>1
        <3> QED BY <3>1 DEF Trail
    <2>2. CASE i = n
        <3>1. ptPath[i].ans = ""
            BY <2>1, <2>2 DEF EndsOpen
        <3>2. ~(i < n)
            BY <1>1, <2>2
        <3>3. i = 1 => ptPath[i].id \in Symptoms
            BY <2>1 DEF EndsOpen
        <3> QED BY <3>1, <3>2, <3>3
    <2>3. CASE i < n
        <3>1. i \in 1..(n - 1)
            BY <1>1, <2>3
        <3>2. Follows(ptPath, i)
            BY <3>1 DEF Trail
        <3>3. ptPath[i].ans /= ""
            BY <3>2 DEF Follows, Replies
        <3>4. i = 1 => ptPath[i].id \in Symptoms
            BY <2>1 DEF EndsOpen
        <3> QED BY <2>3, <3>2, <3>3, <3>4 DEF Follows
    <2>4. i = n \/ i < n
        BY <1>1
    <2> QED BY <2>2, <2>3, <2>4, Zenon
<1>4. ptPath /= <<>> => Last(ptPath).id \in DOMAIN Leads \union DOMAIN Why
    <2> SUFFICES ASSUME ptPath /= <<>> PROVE Last(ptPath).id \in PitNodes
        BY DEF PitNodes
    <2>1. ptPath[n] \in Visits /\ Last(ptPath) = ptPath[n]
        BY <1>1 DEF Last
    <2> QED BY <2>1 DEF Visits
<1> QED BY <1>2, <1>3, <1>4 DEF TrailLeadsHere

-----------------------------------------------------------------------------
(* The notes of the reports (ch/21-pit.js): where each line has the key of one note, and no two of *)
(* the same, every note finds its line.                                                            *)

\* Each line has the key of the note there.
KeyOfLine(lines, keys) == Len(lines) = Len(keys) /\ \A k \in 1..Len(keys) : lines[k] = {keys[k]}

\* A line whose note is left has it.
LEMMA NoteFits ==
    ASSUME NEW key \in Nat, NEW left, key \in left
    PROVE  LET fits == {key} \intersect left
           IN  (IF fits = {} THEN 0 ELSE CHOOSE n \in fits : \A m \in fits : n <= m) = key
<1> DEFINE fits == {key} \intersect left
<1>1. fits = {key}
    OBVIOUS
<1>2. key <= key
    OBVIOUS
<1>3. (CHOOSE n \in {key} : \A m \in {key} : n <= m) = key
    BY <1>2
<1> QED BY <1>1, <1>3

\* Lines with one note each, all different, take all the notes.
LEMMA NotesFindLines ==
    ASSUME NEW keys \in Seq(Nat), NoneTwice(keys), NEW lines, KeyOfLine(lines, keys)
    PROVE  NotesUnder(lines, ItemsOf(keys)).left = {}
<1> DEFINE n == Len(keys)
           notes == ItemsOf(keys)
           left(k) == {keys[i] : i \in (k + 1)..n}
           under(k) == [i \in 1..k |-> keys[i]]
           note(k, rest) == LET fits == lines[k] \intersect rest
                            IN  IF fits = {} THEN 0
                                ELSE CHOOSE x \in fits : \A y \in fits : x <= y
           f == [k \in 0..n |-> [left |-> left(k), under |-> under(k)]]
<1>1. n \in Nat /\ Len(lines) = n /\ left(0) = notes /\ left(n) = {}
    BY DEF KeyOfLine, ItemsOf
<1>2. ASSUME NEW k \in 1..n
      PROVE  note(k, left(k - 1)) = keys[k] /\ left(k - 1) \ {keys[k]} = left(k)
    <2>1. lines[k] = {keys[k]} /\ keys[k] \in Nat
        BY DEF KeyOfLine
    <2>2. \A i : i \in ((k - 1) + 1)..n <=> i = k \/ i \in (k + 1)..n
        BY <1>1
    <2>3. keys[k] \in left(k - 1)
        BY <2>2
    <2>4. \A i \in (k + 1)..n : keys[i] /= keys[k]
        BY <1>1 DEF NoneTwice
    <2>5. left(k - 1) \ {keys[k]} = left(k)
        BY <2>2, <2>4
    <2> HIDE DEF left
    <2>6. note(k, left(k - 1)) = keys[k]
        BY <2>1, <2>3, NoteFits
    <2> QED BY <2>5, <2>6
<1>3. ASSUME NEW k \in 1..n PROVE Append(under(k - 1), keys[k]) = under(k)
    <2> DEFINE u == under(k - 1)
    <2>1. u \in Seq(Nat) /\ Len(u) = k - 1 /\ \A i \in 1..(k - 1) : u[i] = keys[i]
        OBVIOUS
    <2>2. under(k) \in Seq(Nat) /\ Len(under(k)) = k /\ \A i \in 1..k : under(k)[i] = keys[i]
        OBVIOUS
    <2>3. keys[k] \in Nat
        OBVIOUS
    <2> HIDE DEF u
    <2>4. /\ Append(u, keys[k]) \in Seq(Nat) /\ Len(Append(u, keys[k])) = k
          /\ \A i \in 1..(k - 1) : Append(u, keys[k])[i] = keys[i]
          /\ Append(u, keys[k])[k] = keys[k]
        BY <2>1, <2>3
    <2> DEFINE v == Append(u, keys[k])
               w == under(k)
    <2>5. v \in Seq(Nat) /\ w \in Seq(Nat) /\ Len(v) = Len(w) /\ \A i \in 1..Len(v) : v[i] = w[i]
        BY <2>2, <2>4
    <2> HIDE DEF v, w
    <2>6. v = w
        BY <2>5, SeqEqual
    <2> QED BY <2>6 DEF u, v, w
<1> DEFINE next(g) == [k \in 0..n |->
                          IF k = 0 THEN [left |-> notes, under |-> <<>>]
                          ELSE [left |-> g[k - 1].left \ {note(k, g[k - 1].left)},
                                under |-> Append(g[k - 1].under, note(k, g[k - 1].left))]]
           place == CHOOSE g : g = next(g)
<1>4. NotesUnder(lines, notes) = place[n]
    BY <1>1, Zenon DEF NotesUnder
<1>5. f = next(f)
    <2>1. ASSUME NEW k \in 1..n
          PROVE  [left |-> left(k), under |-> under(k)] =
                     [left |-> f[k - 1].left \ {note(k, f[k - 1].left)},
                      under |-> Append(f[k - 1].under, note(k, f[k - 1].left))]
        <3>1. k - 1 \in 0..n
            BY <1>1
        <3> HIDE DEF left, under, note
        <3>2. f[k - 1].left = left(k - 1) /\ f[k - 1].under = under(k - 1)
            BY <3>1
        <3> HIDE DEF f
        <3> QED BY <1>2, <1>3, <3>2
    <2>2. [left |-> left(0), under |-> under(0)] = [left |-> notes, under |-> <<>>]
        <3>1. under(0) = <<>>
            OBVIOUS
        <3> HIDE DEF left, under, notes
        <3> QED BY <1>1, <3>1
    <2> HIDE DEF left, under, note, notes
    <2>3. \A k \in 0..n : f[k] = next(f)[k]
        <3> SUFFICES ASSUME NEW k \in 0..n PROVE f[k] = next(f)[k]
            OBVIOUS
        <3>1. CASE k = 0
            BY <2>2, <3>1
        <3>2. CASE k /= 0
            <4>1. k \in 1..n
                BY <1>1, <3>2
            <4> QED BY <2>1, <3>2, <4>1
        <3> QED BY <3>1, <3>2
    <2>4. f = [k \in 0..n |-> f[k]] /\ next(f) = [k \in 0..n |-> next(f)[k]]
        OBVIOUS
    <2> HIDE DEF f, next
    <2> QED BY <2>3, <2>4
<1>6. place = next(place)
    <2> HIDE DEF next
    <2> QED BY <1>5
<1> HIDE DEF place
<1> DEFINE T == {k \in Nat : k <= n => place[k].left = left(k)}
<1>7. 0 \in T
    <2>1. place[0] = next(place)[0]
        BY <1>6
    <2> QED BY <1>1, <2>1
<1>8. ASSUME NEW k \in Nat, k \in T PROVE k + 1 \in T
    <2> SUFFICES ASSUME k + 1 <= n PROVE place[k + 1].left = left(k + 1)
        OBVIOUS
    <2>1. k + 1 \in 1..n /\ (k + 1) - 1 = k /\ k + 1 \in 0..n /\ k + 1 /= 0
        BY <1>1
    <2>2. place[k].left = left(k)
        BY <1>8
    <2> HIDE DEF left, note
    <2>3. note(k + 1, left(k)) = keys[k + 1] /\ left(k) \ {keys[k + 1]} = left(k + 1)
        <3> DEFINE j == k + 1
        <3>1. j \in 1..n /\ j - 1 = k
            BY <2>1
        <3> HIDE DEF j
        <3>2. note(j, left(j - 1)) = keys[j] /\ left(j - 1) \ {keys[j]} = left(j)
            BY <1>2, <3>1
        <3>3. note(j, left(k)) = keys[j] /\ left(k) \ {keys[j]} = left(j)
            BY <3>1, <3>2
        <3> QED BY <3>3 DEF j
    <2>4. place[k + 1] = next(place)[k + 1]
        BY <1>6
    <2>5. next(place)[k + 1] = [left |-> place[k].left \ {note(k + 1, place[k].left)},
                                under |-> Append(place[k].under, note(k + 1, place[k].left))]
        BY <2>1
    <2> HIDE DEF next
    <2>6. place[k + 1].left = place[k].left \ {note(k + 1, place[k].left)}
        BY <2>4, <2>5
    <2> QED BY <2>2, <2>3, <2>6
<1>9. n \in T
    <2> HIDE DEF T
    <2> QED BY <1>1, <1>7, <1>8, EveryNatural
<1>10. place[n].left = {}
    BY <1>1, <1>9
<1> QED BY <1>4, <1>10

\* The keys of the notes in the order of the lines that have them.
KeysOfReport(report) ==
    IF report = "ok" THEN <<1, 2, 3, 4, 5, 7, 6, 8, 9, 10, 11, 12, 13>> ELSE <<1, 2, 3, 4, 5>>

\* Both reports have a line for each of their notes.
LEMMA ReportsHaveKeys ==
    ASSUME NEW report \in {"ok", "hit"}
    PROVE  LET keys == KeysOfReport(report)
           IN  /\ keys \in Seq(Nat) /\ NoneTwice(keys)
               /\ KeyOfLine(LinesWithKeys[report], keys)
               /\ ItemsOf(keys) = 1..NoteCount[report]
<1> DEFINE ok == <<1, 2, 3, 4, 5, 7, 6, 8, 9, 10, 11, 12, 13>>
           hit == <<1, 2, 3, 4, 5>>
<1>1. ok \in Seq(Nat) /\ Len(ok) = 13 /\ hit \in Seq(Nat) /\ Len(hit) = 5
    OBVIOUS
<1>2. \A k \in 1..13 : ok[k] = IF k = 6 THEN 7 ELSE IF k = 7 THEN 6 ELSE k
    OBVIOUS
<1>3. \A k \in 1..5 : hit[k] = k
    OBVIOUS
<1>4. /\ Len(LinesWithKeys.ok) = 13 /\ \A k \in 1..13 : LinesWithKeys.ok[k] = {ok[k]}
      /\ Len(LinesWithKeys.hit) = 5 /\ \A k \in 1..5 : LinesWithKeys.hit[k] = {hit[k]}
    BY DEF LinesWithKeys
<1> HIDE DEF ok, hit
<1>5. NoneTwice(ok) /\ NoneTwice(hit)
    BY <1>1, <1>2, <1>3 DEF NoneTwice
<1>6. ItemsOf(ok) = 1..13
    <2>1. \A x \in 1..13 : \E k \in 1..13 : ok[k] = x
        BY <1>2
    <2>2. \A k \in 1..13 : ok[k] \in 1..13
        BY <1>2
    <2> QED BY <1>1, <2>1, <2>2 DEF ItemsOf
<1>7. ItemsOf(hit) = 1..5
    BY <1>1, <1>3 DEF ItemsOf
<1>8. KeyOfLine(LinesWithKeys.ok, ok) /\ KeyOfLine(LinesWithKeys.hit, hit)
    BY <1>1, <1>4 DEF KeyOfLine
<1>9. NoteCount.ok = 13 /\ NoteCount.hit = 5
    BY DEF NoteCount
<1>10. KeysOfReport("ok") = ok /\ KeysOfReport("hit") = hit
    BY DEF KeysOfReport, ok, hit
<1>11. CASE report = "ok"
    BY <1>1, <1>5, <1>6, <1>8, <1>9, <1>10, <1>11
<1>12. CASE report = "hit"
    BY <1>1, <1>5, <1>7, <1>8, <1>9, <1>10, <1>12
<1> QED BY <1>11, <1>12

\* So all notes are placed in both.
LEMMA NotesPlaced == rpReport \in {"ok", "hit"} => NotesAllPlaced
<1> SUFFICES ASSUME rpReport \in {"ok", "hit"} PROVE NotesAllPlaced
    OBVIOUS
<1> DEFINE keys == KeysOfReport(rpReport)
<1>1. /\ keys \in Seq(Nat) /\ NoneTwice(keys) /\ KeyOfLine(LinesWithKeys[rpReport], keys)
      /\ ItemsOf(keys) = 1..NoteCount[rpReport]
    BY ReportsHaveKeys
<1> HIDE DEF keys
<1>2. NotesUnder(LinesWithKeys[rpReport], ItemsOf(keys)).left = {}
    BY <1>1, NotesFindLines
<1> QED BY <1>1, <1>2, Zenon DEF NotesAllPlaced

\* Every step keeps it.
LEMMA ReportStep ==
    rpReport \in {"ok", "hit"} /\ [ReportNext]_reportVars => rpReport' \in {"ok", "hit"}
<1>1. DOMAIN LinesWithKeys = {"ok", "hit"}
    BY DEF LinesWithKeys
<1> QED BY <1>1 DEF ReportNext, reportVars, ShowReport, PickReportPart, CopyWorks, CopyFails,
                    CopyTimer

\* It holds at the start.
LEMMA ReportStart == ReportInit => rpReport \in {"ok", "hit"}
BY DEF ReportInit

-----------------------------------------------------------------------------
(* The mailbox (ch/18-photonlib.js): the lab tells from two frames' times alone what the robot's   *)
(* code does with the first of them.                                                               *)

\* What is known of the times of arrival: they are numbers, and each frame comes after the last.
LEMMA FramesArrive ==
    ASSUME MailTypeOK
    PROVE  /\ \A k \in Frames : Arrival(k) \in Nat
           /\ \A k \in Frames : k + 1 \in Frames => Arrival(k) < Arrival(k + 1)
<1> DEFINE g == pmGap
           h == pmGap \div 2
           e == (7 * pmGap) \div 40
           a(k) == k * g
           l(k) == pmLate[k + 1]
<1>1. g \in Nat \ {0} /\ pmLate \in Seq(-1..1)
    BY MailAssumption DEF MailTypeOK
<1>2. h \in Nat /\ e \in Nat /\ e <= h /\ 2 * e < g
    BY <1>1
<1>3. \A k \in Frames : k \in Nat /\ k + 1 \in 1..Len(pmLate) /\ l(k) \in -1..1
    BY <1>1 DEF Frames
<1>4. \A k \in Nat : a(k) \in Nat /\ a(k + 1) = a(k) + g
    BY <1>1
<1>5. ASSUME NEW k \in Frames PROVE l(k) * e \in Int /\ l(k) * e >= -e /\ l(k) * e <= e
    <2>1. l(k) = -1 \/ l(k) = 0 \/ l(k) = 1
        BY <1>3
    <2> HIDE DEF l, e
    <2> QED BY <1>2, <2>1
<1>6. \A k \in Frames : Arrival(k) = a(k) + h + l(k) * e
    BY DEF Arrival
<1> HIDE DEF g, h, e, a, l
<1>7. ASSUME NEW k \in Frames PROVE Arrival(k) \in Nat
    <2>1. a(k) \in Nat
        BY <1>3, <1>4
    <2> QED BY <1>2, <1>5, <1>6, <2>1
<1>8. ASSUME NEW k \in Frames, k + 1 \in Frames PROVE Arrival(k) < Arrival(k + 1)
    <2>1. a(k) \in Nat /\ a(k + 1) = a(k) + g
        BY <1>3, <1>4
    <2>2. l(k + 1) * e \in Int /\ l(k + 1) * e >= -e
        BY <1>5, <1>8
    <2>3. Arrival(k + 1) = a(k + 1) + h + l(k + 1) * e
        BY <1>6, <1>8
    <2> QED BY <1>1, <1>2, <1>5, <1>6, <2>1, <2>2, <2>3
<1> QED BY <1>7, <1>8

\* A frame arrives later than those before it.
LEMMA FramesInOrder ==
    ASSUME MailTypeOK, NEW k \in Frames, NEW k2 \in Frames, k < k2
    PROVE  Arrival(k) < Arrival(k2)
<1> DEFINE T == {m \in Nat : k + m + 1 \in Frames => Arrival(k) < Arrival(k + m + 1)}
<1>1. Frames \subseteq Nat /\ \A m \in Nat : k + (m + 1) + 1 \in Frames => k + m + 1 \in Frames
    BY DEF Frames, MailTypeOK
<1>2. 0 \in T
    BY <1>1, FramesArrive
<1>3. ASSUME NEW m \in Nat, m \in T PROVE m + 1 \in T
    <2> SUFFICES ASSUME k + (m + 1) + 1 \in Frames PROVE Arrival(k) < Arrival(k + (m + 1) + 1)
        OBVIOUS
    <2>1. k + m + 1 \in Frames /\ k + (m + 1) + 1 = (k + m + 1) + 1
        BY <1>1
    <2>2. Arrival(k + m + 1) < Arrival((k + m + 1) + 1)
        BY <2>1, FramesArrive
    <2>3. Arrival(k) \in Nat /\ Arrival(k + m + 1) \in Nat /\ Arrival((k + m + 1) + 1) \in Nat
        BY <2>1, FramesArrive
    <2>4. Arrival(k) < Arrival(k + m + 1)
        BY <1>3, <2>1
    <2> QED BY <2>1, <2>2, <2>3, <2>4
<1>4. \A m \in Nat : m \in T
    <2> HIDE DEF T
    <2> QED BY <1>2, <1>3, EveryNatural
<1>5. k2 - k - 1 \in Nat /\ k + (k2 - k - 1) + 1 = k2
    BY <1>1
<1> QED BY <1>4, <1>5

\* The first loop at or after a time.
LEMMA FirstLoop ==
    ASSUME NEW t \in Nat
    PROVE  LoopOf(t) \in Nat /\ \A j \in Int : LoopOf(t) <= j <=> t <= LoopAt(j)
BY DEF LoopOf, LoopAt, LOOP, LOOP0

\* The loops that read a frame, by those that are the first to find it and the next.
LEMMA LatestReads ==
    ASSUME MailTypeOK, pmMode = "latest", NEW k \in Frames, k + 1 \in Frames, NEW j \in Int
    PROVE  k \in ReadAt(j) <=> LoopOf(Arrival(k)) <= j /\ j < LoopOf(Arrival(k + 1))
<1>1. Arrival(k) \in Nat /\ Arrival(k + 1) \in Nat /\ k \in Nat /\ Frames \subseteq Nat
    BY FramesArrive DEF Frames, MailTypeOK
<1>2. LoopAt(j) \in Int
    BY DEF LoopAt, LOOP, LOOP0
<1>3. LoopOf(Arrival(k)) <= j <=> Arrival(k) <= LoopAt(j)
    BY <1>1, FirstLoop
<1>4. j < LoopOf(Arrival(k + 1)) <=> ~(Arrival(k + 1) <= LoopAt(j))
    BY <1>1, FirstLoop
<1>5. k \in ReadAt(j) <=> /\ Arrival(k) <= LoopAt(j)
                          /\ \A k2 \in Frames : Arrival(k2) <= LoopAt(j) => k2 <= k
    BY DEF ReadAt
<1>6. ASSUME ~(Arrival(k + 1) <= LoopAt(j)), NEW k2 \in Frames, Arrival(k2) <= LoopAt(j)
      PROVE  k2 <= k
    <2> SUFFICES ASSUME k2 > k PROVE FALSE
        BY <1>1
    <2>1. k2 \in Nat /\ Arrival(k2) \in Nat
        BY <1>1, FramesArrive
    <2>2. k2 = k + 1 \/ k + 1 < k2
        BY <1>1, <2>1
    <2>3. k2 = k + 1 \/ Arrival(k + 1) < Arrival(k2)
        BY <2>2, FramesInOrder
    <2> QED BY <1>1, <1>2, <1>6, <2>1, <2>3
<1>7. (\A k2 \in Frames : Arrival(k2) <= LoopAt(j) => k2 <= k) <=> ~(Arrival(k + 1) <= LoopAt(j))
    <2>1. ~(k + 1 <= k)
        BY <1>1
    <2> QED BY <1>6, <2>1
<1> QED BY <1>3, <1>4, <1>5, <1>7

\* Asked for all the unread, every frame is read by its first loop, and by no other.
LEMMA UnreadReads ==
    ASSUME MailTypeOK, pmMode /= "latest", NEW k \in Frames, NEW j \in Int
    PROVE  k \in ReadAt(j) <=> LoopOf(Arrival(k)) = j
<1>1. Arrival(k) \in Nat
    BY FramesArrive
<1>2. LoopOf(Arrival(k)) \in Nat /\ j - 1 \in Int
    BY <1>1, FirstLoop
<1>3. LoopOf(Arrival(k)) <= j <=> Arrival(k) <= LoopAt(j)
    BY <1>1, FirstLoop
<1>4. LoopOf(Arrival(k)) <= j - 1 <=> Arrival(k) <= LoopAt(j - 1)
    BY <1>1, <1>2, FirstLoop
<1>5. LoopAt(j - 1) \in Int
    BY DEF LoopAt, LOOP, LOOP0
<1>6. k \in ReadAt(j) <=> Arrival(k) <= LoopAt(j) /\ Arrival(k) > LoopAt(j - 1)
    BY DEF ReadAt
<1> QED BY <1>1, <1>2, <1>3, <1>4, <1>5, <1>6

\* A loop that finds a frame newer than k reads one that is, if not all have come.
LEMMA NewerIsRead ==
    ASSUME MailTypeOK, pmMode = "latest", NEW k \in Frames, k + 1 \in Frames, NEW j \in Int,
           LoopOf(Arrival(k + 1)) <= j, Arrival(Len(pmLate) - 1) > LoopAt(j)
    PROVE  \E k2 \in Frames : k2 > k /\ k2 \in ReadAt(j)
<1> DEFINE late == {m \in Frames : Arrival(m) > LoopAt(j)}
           last == Len(pmLate) - 1
<1>1. last \in Frames /\ Frames \subseteq Nat /\ k \in Nat /\ \A m \in Nat : m <= last => m \in Frames
    BY DEF Frames, MailTypeOK
<1>2. Arrival(k + 1) \in Nat /\ Arrival(k + 1) <= LoopAt(j) /\ LoopAt(j) \in Int
    BY FramesArrive, FirstLoop DEF LoopAt, LOOP, LOOP0
<1>3. PICK m \in late : \A x \in late : m <= x
    <2>1. last \in late /\ late \subseteq Nat
        BY <1>1
    <2> HIDE DEF late
    <2> QED BY <2>1, LeastNatural
<1>4. m \in Frames /\ m \in Nat /\ Arrival(m) > LoopAt(j) /\ Arrival(m) \in Nat
    BY <1>1, <1>3, FramesArrive
<1>5. k + 1 < m
    <2> SUFFICES ASSUME m <= k + 1 PROVE FALSE
        BY <1>1, <1>4
    <2>1. m = k + 1 \/ m < k + 1
        BY <1>1, <1>4
    <2>2. m = k + 1 \/ Arrival(m) < Arrival(k + 1)
        BY <1>4, <2>1, FramesInOrder
    <2> QED BY <1>2, <1>4, <2>2
<1> DEFINE r == m - 1
<1>6. r \in Frames /\ r > k /\ r + 1 = m /\ r \in Nat
    BY <1>1, <1>4, <1>5 DEF Frames, MailTypeOK
<1>7. r \notin late /\ Arrival(r) \in Nat
    BY <1>3, <1>4, <1>6, FramesArrive
<1> HIDE DEF r
<1>8. Arrival(r) <= LoopAt(j)
    BY <1>2, <1>6, <1>7
<1>9. LoopOf(Arrival(r)) <= j
    BY <1>7, <1>8, FirstLoop
<1>10. j < LoopOf(Arrival(r + 1))
    BY <1>2, <1>4, <1>6, FirstLoop
<1>11. r \in ReadAt(j)
    BY <1>4, <1>6, <1>9, <1>10, LatestReads
<1> QED BY <1>6, <1>11

\* Readers in a row: from loop c up to before loop d, as far as loop now.
LoopsFrom(c, d, now) == {j \in 0..now : c <= j /\ j < d}

\* The loops between two frames, up to now: none, one, or more.
LEMMA ReadersInARow ==
    ASSUME NEW c \in Nat, NEW d \in Nat, c <= d, NEW now \in Nat
    PROVE  /\ c > now => LoopsFrom(c, d, now) = {}
           /\ d = c => LoopsFrom(c, d, now) = {}
           /\ c <= now /\ d > c => LoopsFrom(c, d, now) /= {}
           /\ Cardinality(LoopsFrom(c, d, now)) > 1 <=> d > c + 1 /\ c + 1 <= now
<1> DEFINE here == {j \in 0..now : c <= j /\ j < d}
<1>1. here \subseteq 0..now /\ IsFiniteSet(here)
    <2>1. IsFiniteSet(0..now)
        BY FS_Interval, 0 \in Int, now \in Int
    <2> QED BY <2>1, FS_Subset
<1>2. Cardinality(here) \in Nat
    BY <1>1, FS_CardinalityType
<1>3. ASSUME d > c + 1, c + 1 <= now PROVE Cardinality(here) > 1
    <2>1. {c, c + 1} \subseteq here
        BY <1>3
    <2>2. Cardinality({c, c + 1}) = 2
        <3>1. IsFiniteSet({c}) /\ Cardinality({c}) = 1
            BY FS_Singleton
        <3>2. c + 1 \notin {c} /\ {c} \union {c + 1} = {c, c + 1}
            OBVIOUS
        <3>3. Cardinality({c} \union {c + 1}) = Cardinality({c}) + 1
            BY <3>1, <3>2, FS_AddElement
        <3> QED BY <3>1, <3>2, <3>3
    <2>3. Cardinality({c, c + 1}) <= Cardinality(here)
        BY <1>1, <2>1, FS_Subset
    <2> QED BY <1>2, <2>2, <2>3
<1>4. ASSUME ~(d > c + 1 /\ c + 1 <= now) PROVE ~(Cardinality(here) > 1)
    <2>1. here \subseteq {c}
        BY <1>4
    <2>2. here = {} \/ here = {c}
        BY <2>1
    <2>3. Cardinality(here) = 0 \/ Cardinality(here) = 1
        <3>1. here = {} => Cardinality(here) = 0
            BY FS_EmptySet
        <3>2. Cardinality({c}) = 1
            BY FS_Singleton
        <3> QED BY <2>2, <3>1, <3>2
    <2> QED BY <2>3
<1>5. /\ c > now => here = {}
      /\ d = c => here = {}
      /\ c <= now /\ d > c => here /= {}
    <2>1. c <= now /\ d > c => c \in here
        OBVIOUS
    <2> QED BY <2>1
<1>6. LoopsFrom(c, d, now) = here
    BY DEF LoopsFrom
<1> HIDE DEF here
<1> QED BY <1>3, <1>4, <1>5, <1>6

\* What the table says of the two ways to read the mailbox is then what the loops read.
LEMMA MailboxIsTrue == MailTypeOK => MailboxTrue
<1> SUFFICES ASSUME MailTypeOK,
                    NEW k \in 0..(Len(pmLate) - 2), NEW now \in 0..LoopOf(pmGap * MailFrames),
                    Arrival(Len(pmLate) - 1) > LoopAt(now)
             PROVE  LET readers == {j \in LoopsUpTo(now) : k \in ReadAt(j)}
                        newer == \E j \in LoopsUpTo(now), k2 \in Frames :
                                     k2 > k /\ k2 \in ReadAt(j)
                    IN  /\ Drawn(k, now) = IF Cardinality(readers) > 1 THEN "twice"
                                           ELSE IF readers /= {} THEN "used"
                                           ELSE IF newer /\ pmMode = "latest" THEN "skip"
                                           ELSE "waiting"
                        /\ pmMode /= "latest" => Got(now) = ReadAt(now)
    BY Zenon DEF MailboxTrue
<1> DEFINE c == LoopOf(Arrival(k))
           d == LoopOf(Arrival(k + 1))
           readers == {j \in LoopsUpTo(now) : k \in ReadAt(j)}
           newer == \E j \in LoopsUpTo(now), k2 \in Frames : k2 > k /\ k2 \in ReadAt(j)
<1>1. k \in Frames /\ k + 1 \in Frames /\ now \in Nat /\ now \in Int
    BY DEF Frames, MailTypeOK
<1>2. /\ Arrival(k) \in Nat /\ Arrival(k + 1) \in Nat /\ Arrival(k) < Arrival(k + 1)
      /\ c \in Nat /\ d \in Nat
    BY <1>1, FramesArrive, FirstLoop
<1>3. \A j \in Int : (c <= j <=> Arrival(k) <= LoopAt(j)) /\ (d <= j <=> Arrival(k + 1) <= LoopAt(j))
    BY <1>2, FirstLoop
<1>4. c <= d
    <2>1. Arrival(k + 1) <= LoopAt(d)
        BY <1>2, <1>3
    <2>2. LoopAt(d) \in Int
        BY <1>2 DEF LoopAt, LOOP, LOOP0
    <2>3. Arrival(k) <= LoopAt(d)
        BY <1>2, <2>1, <2>2
    <2> QED BY <1>2, <1>3, <2>3
<1>5. LoopAt(c) \in Int /\ LoopAt(c + 1) \in Int
    BY <1>2 DEF LoopAt, LOOP, LOOP0
<1>6. /\ Arrival(k + 1) <= LoopAt(c) <=> d = c
      /\ Arrival(k + 1) > LoopAt(c + 1) <=> d > c + 1
    <2>1. Arrival(k + 1) <= LoopAt(c) <=> d <= c
        BY <1>2, <1>3
    <2>2. Arrival(k + 1) <= LoopAt(c + 1) <=> d <= c + 1
        BY <1>2, <1>3
    <2> QED BY <1>2, <1>4, <1>5, <2>1, <2>2
<1>7. /\ Classify(k).j = c
      /\ Classify(k).s = IF pmMode /= "latest" THEN "used"
                         ELSE IF d = c THEN "skip" ELSE IF d > c + 1 THEN "twice" ELSE "used"
    BY <1>6 DEF Classify
<1>8. Drawn(k, now) = IF c > now THEN "waiting"
                      ELSE IF pmMode = "latest" /\ d = c THEN "skip"
                      ELSE IF pmMode = "latest" /\ d > c + 1 /\ c + 1 <= now THEN "twice"
                      ELSE "used"
    <2> DEFINE cl == Classify(k)
    <2>1. Drawn(k, now) = IF cl.j > now THEN "waiting"
                          ELSE IF cl.s = "skip" THEN "skip"
                          ELSE IF cl.s = "twice" /\ cl.j + 1 <= now THEN "twice" ELSE "used"
        BY DEF Drawn
    <2> HIDE DEF cl, c, d
    <2>2. /\ cl.j = c
          /\ cl.s = IF pmMode /= "latest" THEN "used"
                    ELSE IF d = c THEN "skip" ELSE IF d > c + 1 THEN "twice" ELSE "used"
        BY <1>7 DEF cl, c, d
    <2> QED BY <1>2, <2>1, <2>2
<1>9. LoopsUpTo(now) = 0..now
    BY DEF LoopsUpTo
<1>10. \A j \in 0..now : j \in Int
    OBVIOUS
<1>11. CASE pmMode = "latest"
    <2>1. \A j \in Int : k \in ReadAt(j) <=> c <= j /\ j < d
        BY <1>1, <1>11, LatestReads
    <2>2. readers = LoopsFrom(c, d, now)
        BY <1>9, <1>10, <2>1 DEF LoopsFrom
    <2>3. c > now => ~newer
        <3> SUFFICES ASSUME c > now, NEW j \in 0..now, NEW k2 \in Frames, k2 > k, k2 \in ReadAt(j)
                     PROVE  FALSE
            BY <1>9
        <3>1. Arrival(k2) <= LoopAt(j) /\ j \in Int
            BY DEF ReadAt
        <3>2. Arrival(k) < Arrival(k2) /\ Arrival(k2) \in Nat
            BY <1>1, FramesInOrder, FramesArrive
        <3>3. LoopAt(j) \in Int
            BY <3>1 DEF LoopAt, LOOP, LOOP0
        <3>4. Arrival(k) <= LoopAt(j)
            BY <1>2, <3>1, <3>2, <3>3
        <3>5. c <= j
            BY <1>3, <3>1, <3>4
        <3> QED BY <1>1, <1>2, <3>5
    <2>4. c <= now /\ d = c => newer
        <3> SUFFICES ASSUME c <= now, d = c PROVE newer
            OBVIOUS
        <3>1. LoopAt(c) <= LoopAt(now) /\ LoopAt(now) \in Int /\ Arrival(Len(pmLate) - 1) \in Nat
            <4>1. Len(pmLate) - 1 \in Frames
                BY <1>1 DEF Frames, MailTypeOK
            <4>2. LoopAt(c) <= LoopAt(now) /\ LoopAt(now) \in Int
                BY <1>1, <1>2 DEF LoopAt, LOOP, LOOP0
            <4> QED BY <4>1, <4>2, FramesArrive
        <3>2. Arrival(Len(pmLate) - 1) > LoopAt(c)
            BY <1>5, <3>1
        <3>3. c \in Int /\ c \in 0..now /\ d <= c
            BY <1>1, <1>2
        <3>4. \E k2 \in Frames : k2 > k /\ k2 \in ReadAt(c)
            BY <1>1, <1>11, <3>2, <3>3, NewerIsRead
        <3> QED BY <1>9, <3>3, <3>4
    <2> HIDE DEF c, d, readers, newer
    <2>5. /\ c > now => readers = {}
          /\ d = c => readers = {}
          /\ c <= now /\ d > c => readers /= {}
          /\ Cardinality(readers) > 1 <=> d > c + 1 /\ c + 1 <= now
        BY <1>1, <1>2, <1>4, <2>2, ReadersInARow
    <2>6. Drawn(k, now) = IF Cardinality(readers) > 1 THEN "twice"
                          ELSE IF readers /= {} THEN "used"
                          ELSE IF newer /\ pmMode = "latest" THEN "skip" ELSE "waiting"
        BY <1>1, <1>2, <1>4, <1>8, <1>11, <2>3, <2>4, <2>5
    <2> QED BY <1>11, <2>6 DEF readers, newer
<1>12. CASE pmMode /= "latest"
    <2>1. \A j \in Int : \A k2 \in Frames : k2 \in ReadAt(j) <=> LoopOf(Arrival(k2)) = j
        BY <1>12, UnreadReads
    <2>2. Got(now) = ReadAt(now)
        <3>1. ReadAt(now) \subseteq Frames
            BY DEF ReadAt
        <3> QED BY <1>1, <2>1, <3>1 DEF Got
    <2>3. readers = LoopsFrom(c, c + 1, now)
        <3>1. \A j \in 0..now : k \in ReadAt(j) <=> c <= j /\ j < c + 1
            BY <1>1, <1>2, <1>10, <2>1
        <3> QED BY <1>9, <3>1 DEF LoopsFrom
    <2> HIDE DEF c, d, readers, newer
    <2>4. c + 1 \in Nat /\ c <= c + 1
        BY <1>2
    <2>5. /\ c > now => readers = {}
          /\ c <= now => readers /= {}
          /\ ~(Cardinality(readers) > 1)
        <3>1. /\ c > now => LoopsFrom(c, c + 1, now) = {}
              /\ c <= now /\ c + 1 > c => LoopsFrom(c, c + 1, now) /= {}
              /\ Cardinality(LoopsFrom(c, c + 1, now)) > 1 <=> c + 1 > c + 1 /\ c + 1 <= now
            BY <1>1, <1>2, <2>4, ReadersInARow
        <3> QED BY <1>2, <2>3, <3>1
    <2>6. Drawn(k, now) = IF Cardinality(readers) > 1 THEN "twice"
                          ELSE IF readers /= {} THEN "used"
                          ELSE IF newer /\ pmMode = "latest" THEN "skip" ELSE "waiting"
        BY <1>1, <1>2, <1>8, <1>12, <2>5
    <2> QED BY <2>2, <2>6 DEF readers, newer
<1> QED BY <1>11, <1>12

\* Every step keeps it.
LEMMA MailStep == MailTypeOK /\ [MailNext]_mailVars => MailTypeOK'
<1> SUFFICES ASSUME MailTypeOK, [MailNext]_mailVars PROVE MailTypeOK'
    OBVIOUS
<1>1. ASSUME NEW mode \in MailModes, SetReading(mode) PROVE MailTypeOK'
    BY <1>1 DEF SetReading, MailTypeOK
<1>2. ASSUME NEW gap \in MailGaps, SetRate(gap) PROVE MailTypeOK'
    BY <1>2, MailAssumption DEF SetRate, MailTypeOK
<1>3. ASSUME NEW late \in -1..1, NextFrame(late) PROVE MailTypeOK'
    BY <1>3, MailAssumption DEF NextFrame, MailTypeOK
<1>4. CASE UNCHANGED mailVars
    BY <1>4 DEF mailVars, MailTypeOK
<1> QED BY <1>1, <1>2, <1>3, <1>4 DEF MailNext

\* It holds at the start.
LEMMA MailStart == MailInit => MailTypeOK
BY MailAssumption DEF MailInit, MailTypeOK, MailModes

-----------------------------------------------------------------------------
(* The zigzag (ch/10-speed.js): diagonal after diagonal, it passes all 64 frequencies, the finer   *)
(* ones later, and never jumps.                                                                    *)

Freqs == (0..7) \X (0..7)
Fine(f) == f[1] + f[2]
NextTo(f, g) == g[1] - f[1] \in -1..1 /\ g[2] - f[2] \in -1..1
LowOf(s) == IF s > 7 THEN s - 7 ELSE 0
HighOf(s) == IF s > 7 THEN 7 ELSE s
OnDiagonal(s, i) == IF s % 2 = 1 THEN <<i, s - i>> ELSE <<s - i, i>>

\* What each diagonal is by itself.
Diagonals(q, s) ==
    /\ q \in Seq(Freqs) /\ Len(q) = HighOf(s) - LowOf(s) + 1
    /\ q[1] = OnDiagonal(s, LowOf(s)) /\ q[Len(q)] = OnDiagonal(s, HighOf(s))
    /\ NoneTwice(q) /\ ItemsOf(q) = {f \in Freqs : Fine(f) = s}
    /\ \A m \in 2..Len(q) : NextTo(q[m - 1], q[m])

\* A place on a diagonal is a frequency of that diagonal.
LEMMA OnDiagonalIs ==
    ASSUME NEW s \in 0..14, NEW i \in LowOf(s)..HighOf(s)
    PROVE  /\ OnDiagonal(s, i) \in Freqs /\ Fine(OnDiagonal(s, i)) = s
           /\ OnDiagonal(s, i)[1] = IF s % 2 = 1 THEN i ELSE s - i
           /\ OnDiagonal(s, i)[2] = IF s % 2 = 1 THEN s - i ELSE i
<1>1. i \in 0..7 /\ s - i \in 0..7 /\ i + (s - i) = s /\ (s - i) + i = s
    BY DEF LowOf, HighOf
<1>2. CASE s % 2 = 1
    <2>1. OnDiagonal(s, i) = <<i, s - i>>
        BY <1>2 DEF OnDiagonal
    <2> QED BY <1>1, <1>2, <2>1 DEF Freqs, Fine
<1>3. CASE s % 2 /= 1
    <2>1. OnDiagonal(s, i) = <<s - i, i>>
        BY <1>3 DEF OnDiagonal
    <2> QED BY <1>1, <1>3, <2>1 DEF Freqs, Fine
<1> QED BY <1>2, <1>3

\* A diagonal has its frequencies, once each and each beside the one before.
LEMMA DiagonalIs == ASSUME NEW s \in 0..14 PROVE Diagonals(Diagonal(s), s)
<1> DEFINE low == LowOf(s)
           high == HighOf(s)
           n == high - low + 1
           q == [k \in 1..n |-> OnDiagonal(s, low + k - 1)]
<1>1. low \in 0..7 /\ high \in 0..7 /\ low <= high /\ s - low = high /\ n \in Nat \ {0}
    BY DEF LowOf, HighOf
<1>2. Diagonal(s) = q
    BY Zenon DEF Diagonal, LowOf, HighOf, OnDiagonal
<1>3. \A k \in 1..n : low + k - 1 \in low..high /\ q[k] = OnDiagonal(s, low + k - 1)
    BY <1>1
<1> HIDE DEF low, high
<1>4. \A k \in 1..n : OnDiagonal(s, low + k - 1) \in Freqs
    BY <1>3, OnDiagonalIs DEF low, high
<1>5. q \in Seq(Freqs) /\ Len(q) = n
    BY <1>1, <1>4
<1> HIDE DEF q
<1>6. \A k \in 1..n : /\ q[k] \in Freqs /\ Fine(q[k]) = s
                      /\ q[k][1] = IF s % 2 = 1 THEN low + k - 1 ELSE s - (low + k - 1)
                      /\ q[k][2] = IF s % 2 = 1 THEN s - (low + k - 1) ELSE low + k - 1
    BY <1>3, OnDiagonalIs DEF low, high
<1>7. q[1] = OnDiagonal(s, low) /\ q[n] = OnDiagonal(s, high)
    <2>1. 1 \in 1..n /\ n \in 1..n /\ low + 1 - 1 = low /\ low + n - 1 = high
        BY <1>1
    <2> QED BY <1>3, <2>1
<1>8. NoneTwice(q)
    <2>1. ASSUME NEW j \in 1..n, NEW k \in 1..n, j /= k PROVE q[j] /= q[k]
        <3>1. low + j - 1 /= low + k - 1 /\ s - (low + j - 1) /= s - (low + k - 1)
            BY <1>1, <2>1
        <3>2. q[j][1] /= q[k][1]
            BY <1>6, <3>1
        <3> QED BY <3>2
    <2> QED BY <1>5, <2>1 DEF NoneTwice
<1>9. ItemsOf(q) = {f \in Freqs : Fine(f) = s}
    <2>1. ASSUME NEW f \in Freqs, Fine(f) = s PROVE \E k \in 1..n : f = q[k]
        <3>1. PICK a \in 0..7, b \in 0..7 : f = <<a, b>>
            BY DEF Freqs
        <3>2. a + b = s
            BY <2>1, <3>1 DEF Fine
        <3> DEFINE i == IF s % 2 = 1 THEN a ELSE b
                   k == i - low + 1
        <3>3. i \in low..high
            BY <3>2 DEF low, high, LowOf, HighOf
        <3>4. f = OnDiagonal(s, i)
            BY <3>1, <3>2 DEF OnDiagonal
        <3> HIDE DEF i
        <3>5. k \in 1..n /\ low + k - 1 = i
            BY <1>1, <3>3
        <3> QED BY <1>3, <3>4, <3>5
    <2>2. \A f : f \in ItemsOf(q) <=> \E k \in 1..n : f = q[k]
        BY <1>5 DEF ItemsOf
    <2>3. \A f : f \in ItemsOf(q) <=> f \in Freqs /\ Fine(f) = s
        BY <1>6, <2>1, <2>2
    <2> QED BY <2>3
<1>10. ASSUME NEW m \in 2..n PROVE NextTo(q[m - 1], q[m])
    <2>1. m \in 1..n /\ m - 1 \in 1..n
        BY <1>1
    <2> QED BY <1>1, <1>6, <2>1 DEF NextTo
<1>11. Diagonals(q, s)
    BY <1>5, <1>7, <1>8, <1>9, <1>10 DEF Diagonals, low, high
<1> QED BY <1>2, <1>11

\* The zigzag up to diagonal s - 1.
ZigLengths == <<1, 3, 6, 10, 15, 21, 28, 36, 43, 49, 54, 58, 61, 63, 64>>
Zigzag(q, s) ==
    /\ q \in Seq(Freqs) /\ Len(q) = ZigLengths[s]
    /\ q[Len(q)] = OnDiagonal(s - 1, HighOf(s - 1))
    /\ NoneTwice(q) /\ ItemsOf(q) = {f \in Freqs : Fine(f) < s}
    /\ \A i, j \in 1..Len(q) : i < j => Fine(q[i]) <= Fine(q[j])
    /\ \A m \in 2..Len(q) : NextTo(q[m - 1], q[m])

\* How long the zigzag is after each diagonal.
LEMMA ZigLengthens ==
    /\ ZigLengths[1] = 1 /\ ZigLengths[15] = 64
    /\ \A s \in 1..15 : ZigLengths[s] \in Nat \ {0}
    /\ \A s \in 1..14 : ZigLengths[s + 1] = ZigLengths[s] + (HighOf(s) - LowOf(s) + 1)
<1>1. \A s \in 1..14 : \/ s = 1 \/ s = 2 \/ s = 3 \/ s = 4 \/ s = 5 \/ s = 6 \/ s = 7
                       \/ s = 8 \/ s = 9 \/ s = 10 \/ s = 11 \/ s = 12 \/ s = 13 \/ s = 14
    OBVIOUS
<1> QED BY <1>1 DEF ZigLengths, HighOf, LowOf

\* Each diagonal begins beside the end of the one before it.
LEMMA TurnsBeside ==
    ASSUME NEW s \in 1..14
    PROVE  NextTo(OnDiagonal(s - 1, HighOf(s - 1)), OnDiagonal(s, LowOf(s)))
<1>1. /\ HighOf(s - 1) \in LowOf(s - 1)..HighOf(s - 1) /\ LowOf(s) \in LowOf(s)..HighOf(s)
      /\ HighOf(s - 1) \in Int /\ LowOf(s) \in Int /\ s - 1 \in 0..14 /\ s \in 0..14
    BY DEF HighOf, LowOf
<1> DEFINE f == OnDiagonal(s - 1, HighOf(s - 1))
           g == OnDiagonal(s, LowOf(s))
<1>2. /\ f[1] = IF (s - 1) % 2 = 1 THEN HighOf(s - 1) ELSE (s - 1) - HighOf(s - 1)
      /\ f[2] = IF (s - 1) % 2 = 1 THEN (s - 1) - HighOf(s - 1) ELSE HighOf(s - 1)
    BY <1>1, OnDiagonalIs
<1>3. /\ g[1] = IF s % 2 = 1 THEN LowOf(s) ELSE s - LowOf(s)
      /\ g[2] = IF s % 2 = 1 THEN s - LowOf(s) ELSE LowOf(s)
    BY <1>1, OnDiagonalIs
<1>4. s % 2 = 1 <=> (s - 1) % 2 /= 1
    OBVIOUS
<1> HIDE DEF f, g
<1>5. NextTo(f, g)
    BY <1>2, <1>3, <1>4 DEF NextTo, HighOf, LowOf
<1> QED BY <1>5 DEF f, g

\* The next diagonal makes a zigzag one diagonal longer.
LEMMA ZigzagGoesOn ==
    ASSUME NEW s \in 1..14, NEW p, Zigzag(p, s), NEW q, Diagonals(q, s)
    PROVE  Zigzag(p \o q, s + 1)
<1> DEFINE row == p \o q
           a == Len(p)
           b == Len(q)
<1>1. p \in Seq(Freqs) /\ q \in Seq(Freqs) /\ a \in Nat \ {0} /\ b \in Nat \ {0}
    <2>1. ZigLengths[s] \in Nat \ {0} /\ HighOf(s) - LowOf(s) + 1 \in Nat \ {0}
        BY ZigLengthens DEF HighOf, LowOf
    <2> QED BY <2>1 DEF Zigzag, Diagonals
<1>2. /\ row \in Seq(Freqs) /\ Len(row) = a + b
      /\ \A k \in 1..a : row[k] = p[k]
      /\ \A k \in 1..b : row[a + k] = q[k]
    BY <1>1
<1>3. /\ ItemsOf(row) = ItemsOf(p) \union ItemsOf(q)
      /\ NoneTwice(p) /\ NoneTwice(q) /\ ItemsOf(p) \intersect ItemsOf(q) = {} => NoneTwice(row)
    BY <1>1, InARow
<1> HIDE DEF row
<1>4. \A k \in 1..(a + b) :
          k \in 1..a \/ (k - a \in 1..b /\ row[k] = q[k - a])
    <2> SUFFICES ASSUME NEW k \in 1..(a + b), k \notin 1..a PROVE k - a \in 1..b /\ row[k] = q[k - a]
        OBVIOUS
    <2>1. k - a \in 1..b /\ a + (k - a) = k
        BY <1>1
    <2> QED BY <1>2, <2>1
<1>5. /\ \A k \in 1..a : p[k] \in Freqs /\ Fine(p[k]) < s
      /\ \A k \in 1..b : q[k] \in Freqs /\ Fine(q[k]) = s
      /\ ItemsOf(p) = {f \in Freqs : Fine(f) < s} /\ ItemsOf(q) = {f \in Freqs : Fine(f) = s}
    <2>1. ItemsOf(p) = {f \in Freqs : Fine(f) < s} /\ ItemsOf(q) = {f \in Freqs : Fine(f) = s}
        BY DEF Zigzag, Diagonals
    <2>2. (\A k \in 1..a : p[k] \in ItemsOf(p)) /\ (\A k \in 1..b : q[k] \in ItemsOf(q))
        BY DEF ItemsOf
    <2> QED BY <2>1, <2>2
<1>6. \A f \in Freqs : Fine(f) \in Int
    BY DEF Freqs, Fine
<1>7. NoneTwice(row) /\ ItemsOf(row) = {f \in Freqs : Fine(f) < s + 1}
    <2>1. ItemsOf(p) \intersect ItemsOf(q) = {}
        BY <1>5, <1>6
    <2>2. ItemsOf(p) \union ItemsOf(q) = {f \in Freqs : Fine(f) < s + 1}
        <3>1. \A f \in Freqs : Fine(f) < s + 1 <=> Fine(f) < s \/ Fine(f) = s
            BY <1>6
        <3> QED BY <1>5, <3>1
    <2> QED BY <1>3, <2>1, <2>2 DEF Zigzag, Diagonals
<1>8. ASSUME NEW i \in 1..(a + b), NEW j \in 1..(a + b), i < j PROVE Fine(row[i]) <= Fine(row[j])
    <2>1. CASE i \in 1..a /\ j \in 1..a
        BY <1>2, <1>8, <2>1 DEF Zigzag
    <2>2. CASE i \in 1..a /\ j \notin 1..a
        <3>1. Fine(row[i]) < s /\ Fine(row[i]) \in Int
            BY <1>2, <1>5, <1>6, <2>2
        <3>2. Fine(row[j]) = s
            BY <1>4, <1>5, <2>2
        <3> QED BY <3>1, <3>2
    <2>3. CASE i \notin 1..a
        <3>1. j \notin 1..a
            BY <1>1, <1>8, <2>3
        <3>2. Fine(row[i]) = s /\ Fine(row[j]) = s
            BY <1>4, <1>5, <2>3, <3>1
        <3> QED BY <3>2
    <2> QED BY <2>1, <2>2, <2>3
<1>9. ASSUME NEW m \in 2..(a + b) PROVE NextTo(row[m - 1], row[m])
    <2>1. m \in 1..(a + b) /\ m - 1 \in 1..(a + b)
        BY <1>1
    <2>2. CASE m \in 1..a
        <3>1. m \in 2..a /\ m - 1 \in 1..a
            BY <1>1, <2>2
        <3> QED BY <1>2, <3>1 DEF Zigzag
    <2>3. CASE m = a + 1
        <3>1. row[m - 1] = p[a] /\ row[m] = q[1]
            BY <1>1, <1>2, <2>3
        <3>2. p[a] = OnDiagonal(s - 1, HighOf(s - 1)) /\ q[1] = OnDiagonal(s, LowOf(s))
            BY DEF Zigzag, Diagonals
        <3> QED BY <3>1, <3>2, TurnsBeside
    <2>4. CASE m \notin 1..a /\ m /= a + 1
        <3>1. m - 1 \notin 1..a /\ m - a \in 2..b /\ (m - 1) - a = (m - a) - 1
            BY <1>1, <2>1, <2>4
        <3>2. row[m] = q[m - a] /\ row[m - 1] = q[(m - a) - 1]
            BY <1>4, <2>1, <2>4, <3>1
        <3> QED BY <3>1, <3>2 DEF Diagonals
    <2> QED BY <2>2, <2>3, <2>4
<1>10. Len(row) = ZigLengths[s + 1]
    <2>1. a = ZigLengths[s] /\ b = HighOf(s) - LowOf(s) + 1
        BY DEF Zigzag, Diagonals
    <2>2. ZigLengths[s + 1] = ZigLengths[s] + (HighOf(s) - LowOf(s) + 1)
        BY ZigLengthens
    <2> HIDE DEF a, b
    <2> QED BY <1>2, <2>1, <2>2
<1>11. row[Len(row)] = OnDiagonal((s + 1) - 1, HighOf((s + 1) - 1))
    <2>1. (s + 1) - 1 = s /\ b \in 1..b
        BY <1>1
    <2>2. row[a + b] = q[b]
        BY <1>2, <2>1
    <2> QED BY <1>2, <2>1, <2>2 DEF Diagonals
<1>12. Zigzag(row, s + 1)
    BY <1>2, <1>7, <1>8, <1>9, <1>10, <1>11 DEF Zigzag
<1> QED BY <1>12 DEF row

\* Sequences in a row, one more at a time.
RowByRowUpTo(f, n, seqs) ==
    f[1] = seqs[1] /\ \A i \in 2..n : f[i] = f[i - 1] \o seqs[i]

\* Rows are put one after another from the first to the last.
LEMMA FlattenedRowByRow ==
    ASSUME NEW Elem, NEW seqs \in Seq(Seq(Elem)), Len(seqs) /= 0
    PROVE  \E f \in [1..Len(seqs) -> Seq(Elem)] :
               RowByRowUpTo(f, Len(seqs), seqs) /\ FlattenSeq(seqs) = f[Len(seqs)]
<1> DEFINE last == Len(seqs)
           T == {n \in Nat : n \in 1..last =>
                               \E f \in [1..last -> Seq(Elem)] : RowByRowUpTo(f, n, seqs)}
<1>1. last \in Nat \ {0} /\ \A i \in 1..last : seqs[i] \in Seq(Elem)
    OBVIOUS
<1>2. 0 \in T
    OBVIOUS
<1>3. ASSUME NEW n \in Nat, n \in T PROVE n + 1 \in T
    <2> SUFFICES ASSUME n + 1 \in 1..last
                 PROVE  \E f \in [1..last -> Seq(Elem)] : RowByRowUpTo(f, n + 1, seqs)
        OBVIOUS
    <2>1. CASE n = 0
        <3> DEFINE f == [i \in 1..last |-> seqs[1]]
        <3>1. f \in [1..last -> Seq(Elem)] /\ f[1] = seqs[1]
            BY <1>1
        <3>2. 2..(n + 1) = {}
            BY <2>1
        <3> HIDE DEF f
        <3>3. RowByRowUpTo(f, n + 1, seqs)
            BY <3>1, <3>2 DEF RowByRowUpTo
        <3> QED BY <3>1, <3>3
    <2>2. CASE n /= 0
        <3>1. n \in 1..last
            BY <1>1, <2>2
        <3>2. PICK f \in [1..last -> Seq(Elem)] : RowByRowUpTo(f, n, seqs)
            BY <1>3, <3>1
        <3> DEFINE more == f[n] \o seqs[n + 1]
                   g == [i \in 1..last |-> IF i = n + 1 THEN more ELSE f[i]]
        <3>3. more \in Seq(Elem)
            <4>1. f[n] \in Seq(Elem) /\ seqs[n + 1] \in Seq(Elem)
                BY <1>1, <3>1
            <4> QED BY <4>1, ConcatProperties
        <3> HIDE DEF more
        <3>4. g \in [1..last -> Seq(Elem)]
            BY <3>3
        <3>5. g[n + 1] = more /\ \A i \in 1..n : g[i] = f[i]
            BY <1>1, <3>1
        <3> HIDE DEF g
        <3>6. RowByRowUpTo(g, n + 1, seqs)
            <4>1. g[1] = seqs[1]
                BY <3>1, <3>2, <3>5 DEF RowByRowUpTo
            <4>2. ASSUME NEW i \in 2..(n + 1) PROVE g[i] = g[i - 1] \o seqs[i]
                <5>1. CASE i = n + 1
                    <6>1. i - 1 = n /\ n \in 1..n
                        BY <3>1, <5>1
                    <6> QED BY <3>5, <5>1, <6>1 DEF more
                <5>2. CASE i /= n + 1
                    <6>1. i \in 2..n /\ i \in 1..n /\ i - 1 \in 1..n
                        BY <5>2
                    <6> QED BY <3>2, <3>5, <6>1 DEF RowByRowUpTo
                <5> QED BY <5>1, <5>2
            <4> QED BY <4>1, <4>2 DEF RowByRowUpTo
        <3> QED BY <3>4, <3>6
    <2> QED BY <2>1, <2>2
<1>4. last \in T
    <2> HIDE DEF T
    <2> QED BY <1>1, <1>2, <1>3, EveryNatural
<1>5. PICK f \in [1..last -> Seq(Elem)] : RowByRowUpTo(f, last, seqs)
    BY <1>1, <1>4
<1> DEFINE next(g) == [i \in 1..last |-> IF i = 1 THEN seqs[i] ELSE g[i - 1] \o seqs[i]]
           flat == CHOOSE g : g = next(g)
<1>6. FlattenSeq(seqs) = flat[last]
    BY <1>1, Zenon DEF FlattenSeq
<1>7. f = next(f)
    <2>1. \A i \in 1..last : f[i] = next(f)[i]
        <3> SUFFICES ASSUME NEW i \in 1..last PROVE f[i] = next(f)[i]
            OBVIOUS
        <3>1. i = 1 \/ i \in 2..last
            BY <1>1
        <3> QED BY <1>5, <3>1 DEF RowByRowUpTo
    <2>2. f = [i \in 1..last |-> f[i]] /\ next(f) = [i \in 1..last |-> next(f)[i]]
        OBVIOUS
    <2> HIDE DEF next
    <2> QED BY <2>1, <2>2
<1>8. flat = next(flat)
    <2> HIDE DEF next
    <2> QED BY <1>7
<1> HIDE DEF flat
<1>9. RowByRowUpTo(flat, last, seqs)
    <2>1. flat[1] = seqs[1]
        BY <1>1, <1>8
    <2>2. ASSUME NEW i \in 2..last PROVE flat[i] = flat[i - 1] \o seqs[i]
        <3>1. i \in 1..last /\ i /= 1
            OBVIOUS
        <3> QED BY <1>8, <3>1
    <2> QED BY <2>1, <2>2 DEF RowByRowUpTo
<1> DEFINE U == {n \in Nat : n \in 1..last => flat[n] = f[n]}
<1>10. 0 \in U
    OBVIOUS
<1>11. ASSUME NEW n \in Nat, n \in U PROVE n + 1 \in U
    <2> SUFFICES ASSUME n + 1 \in 1..last PROVE flat[n + 1] = f[n + 1]
        OBVIOUS
    <2>1. CASE n = 0
        BY <1>5, <1>9, <2>1 DEF RowByRowUpTo
    <2>2. CASE n /= 0
        <3>1. n \in 1..last /\ n + 1 \in 2..last /\ (n + 1) - 1 = n
            BY <1>1, <2>2
        <3> QED BY <1>5, <1>9, <1>11, <3>1 DEF RowByRowUpTo
    <2> QED BY <2>1, <2>2
<1>12. last \in U
    <2> HIDE DEF U
    <2> QED BY <1>1, <1>10, <1>11, EveryNatural
<1> QED BY <1>1, <1>5, <1>6, <1>12

\* Only the first frequency is not finer than another.
LEMMA FineIsNat == \A f \in Freqs : Fine(f) \in Nat /\ (Fine(f) = 0 <=> Fine(f) < 1)
<1>1. \A f \in Freqs : Fine(f) \in Nat
    BY DEF Freqs, Fine
<1> QED BY <1>1

\* The zigzag of the code is one of all 15 diagonals.
LEMMA ZigIs == Zigzag(Zig, 15)
<1> DEFINE seqs == [n \in 1..15 |-> Diagonal(n - 1)]
<1>1. \A n \in 1..15 : n - 1 \in 0..14 /\ Diagonals(seqs[n], n - 1)
    BY DiagonalIs
<1>2. \A n \in 1..15 : seqs[n] \in Seq(Freqs)
    BY <1>1 DEF Diagonals
<1>3. seqs \in Seq(Seq(Freqs)) /\ Len(seqs) = 15
    BY <1>2
<1>4. Zig = FlattenSeq(seqs)
    BY Zenon DEF Zig
<1> HIDE DEF seqs
<1>5. PICK f \in [1..15 -> Seq(Freqs)] : RowByRowUpTo(f, 15, seqs) /\ Zig = f[15]
    <2>1. \E f \in [1..Len(seqs) -> Seq(Freqs)] :
              RowByRowUpTo(f, Len(seqs), seqs) /\ FlattenSeq(seqs) = f[Len(seqs)]
        <3>1. Len(seqs) /= 0
            BY <1>3
        <3> QED BY <1>3, <3>1, FlattenedRowByRow, Zenon
    <2>2. \E f \in [1..15 -> Seq(Freqs)] : RowByRowUpTo(f, 15, seqs) /\ FlattenSeq(seqs) = f[15]
        BY <1>3, <2>1, Zenon
    <2> QED BY <1>4, <2>2, Zenon
<1> DEFINE T == {n \in Nat : n \in 1..15 => Zigzag(f[n], n)}
<1>6. 0 \in T
    OBVIOUS
<1>7. ASSUME NEW n \in Nat, n \in T PROVE n + 1 \in T
    <2> SUFFICES ASSUME n + 1 \in 1..15 PROVE Zigzag(f[n + 1], n + 1)
        OBVIOUS
    <2>1. CASE n = 0
        <3> DEFINE q == f[1]
        <3>1. Diagonals(q, 0)
            <4>1. f[1] = seqs[1] /\ 1 - 1 = 0 /\ 1 \in 1..15
                BY <1>5 DEF RowByRowUpTo
            <4> QED BY <1>1, <4>1
        <3> HIDE DEF q
        <3>2. q \in Seq(Freqs) /\ Len(q) = 1 /\ q[1] = OnDiagonal(0, HighOf(0)) /\ NoneTwice(q)
            BY <3>1 DEF Diagonals, HighOf, LowOf
        <3>3. \A f0 \in Freqs : Fine(f0) = 0 <=> Fine(f0) < 1
            BY FineIsNat
        <3>4. ItemsOf(q) = {f0 \in Freqs : Fine(f0) < 1}
            <4>1. ItemsOf(q) = {f0 \in Freqs : Fine(f0) = 0}
                BY <3>1 DEF Diagonals
            <4> QED BY <3>3, <4>1
        <3>5. 2..Len(q) = {} /\ (\A i, j \in 1..Len(q) : ~(i < j)) /\ 1 - 1 = 0
            BY <3>2
        <3>6. Zigzag(q, 1)
            BY <3>2, <3>4, <3>5, ZigLengthens DEF Zigzag
        <3> QED BY <2>1, <3>6 DEF q
    <2>2. CASE n /= 0
        <3>1. n \in 1..14 /\ n + 1 \in 2..15 /\ (n + 1) - 1 = n /\ n \in 1..15
            BY <2>2
        <3>2. Zigzag(f[n], n)
            BY <1>7, <3>1
        <3>3. Diagonals(seqs[n + 1], n)
            BY <1>1, <3>1
        <3>4. f[n + 1] = f[n] \o seqs[n + 1]
            BY <1>5, <3>1 DEF RowByRowUpTo
        <3>5. Zigzag(f[n] \o seqs[n + 1], n + 1)
            BY <3>1, <3>2, <3>3, ZigzagGoesOn
        <3> QED BY <3>4, <3>5
    <2> QED BY <2>1, <2>2
<1>8. 15 \in T
    <2> HIDE DEF T
    <2> QED BY <1>6, <1>7, EveryNatural
<1> QED BY <1>5, <1>8

\* So any number of first frequencies of it are the coarsest.
LEMMA ZigzagIsKept == IdctTypeOK => ZigzagKeeps
<1> SUFFICES ASSUME idN \in 1..64 PROVE ZigzagKeeps
    BY DEF IdctTypeOK
<1>1. /\ Zig \in Seq(Freqs) /\ Len(Zig) = 64 /\ NoneTwice(Zig)
      /\ ItemsOf(Zig) = {f \in Freqs : Fine(f) < 15}
      /\ \A i, j \in 1..64 : i < j => Fine(Zig[i]) <= Fine(Zig[j])
      /\ \A m \in 2..64 : NextTo(Zig[m - 1], Zig[m])
    BY ZigIs, ZigLengthens DEF Zigzag
<1> DEFINE q == SubSeq(Zig, 1, idN)
<1>2. q \in Seq(Freqs) /\ Len(q) = idN /\ \A k \in 1..idN : q[k] = Zig[k]
    <2>1. \A i \in 1..64 : Zig[i] \in Freqs
        <3>1. Zig \in Seq(Freqs) /\ Len(Zig) = 64
            BY <1>1
        <3>2. \A i \in 1..Len(Zig) : Zig[i] \in Freqs
            BY <3>1, ElementOfSeq
        <3> QED BY <3>1, <3>2
    <2>2. \A i \in 1..idN : i \in 1..64 /\ 1 + i - 1 = i
        OBVIOUS
    <2>3. \A i \in 1..idN : Zig[i] \in Freqs
        BY <2>1, <2>2
    <2>4. 1 \in Int /\ idN \in Int /\ 1 <= idN /\ idN - 1 + 1 = idN
        OBVIOUS
    <2>5. /\ q \in Seq(Freqs) /\ Len(q) = IF 1 <= idN THEN idN - 1 + 1 ELSE 0
          /\ \A i \in 1..(idN - 1 + 1) : q[i] = Zig[1 + i - 1]
        BY <2>3, <2>4, SubSeqProperties
    <2> HIDE DEF q
    <2> QED BY <2>2, <2>4, <2>5
<1>3. Kept = ItemsOf(q)
    BY <1>2 DEF Kept, ToSet, ItemsOf
<1> HIDE DEF q
<1>4. Cardinality(Kept) = idN
    <2>1. NoneTwice(q)
        <3>1. \A k \in 1..idN : k \in 1..Len(Zig)
            <4>1. Len(Zig) = 64
                BY <1>1
            <4> QED BY <4>1
        <3>2. \A j, k \in 1..idN : j /= k => Zig[j] /= Zig[k]
            BY <1>1, <3>1 DEF NoneTwice
        <3> QED BY <1>2, <3>2 DEF NoneTwice
    <2> QED BY <1>2, <1>3, <2>1, AsLongAsItems
<1>5. ASSUME NEW f \in Kept, NEW g \in Freqs \ Kept PROVE f[1] + f[2] <= g[1] + g[2]
    <2>1. PICK i \in 1..idN : f = Zig[i]
        BY <1>2, <1>3 DEF ItemsOf
    <2>2. PICK j \in 1..64 : g = Zig[j]
        <3>1. Fine(g) < 15
            BY DEF Freqs, Fine
        <3>2. g \in ItemsOf(Zig)
            BY <1>1, <3>1
        <3> QED BY <1>1, <3>2 DEF ItemsOf
    <2>3. j \notin 1..idN
        BY <1>2, <1>3, <2>2 DEF ItemsOf
    <2>4. i \in 1..64 /\ i < j
        BY <2>3
    <2> QED BY <1>1, <2>1, <2>2, <2>4 DEF Fine
<1>6. \A n \in 2..idN : /\ Zig[n][1] - Zig[n - 1][1] \in -1..1
                        /\ Zig[n][2] - Zig[n - 1][2] \in -1..1
    <2>1. \A n \in 2..idN : n \in 2..64
        OBVIOUS
    <2>2. \A n \in 2..idN : NextTo(Zig[n - 1], Zig[n])
        BY <1>1, <2>1
    <2> QED BY <2>2, Zenon DEF NextTo
<1> QED BY <1>4, <1>5, <1>6 DEF ZigzagKeeps, Freqs

\* Every step keeps it.
LEMMA IdctStep == IdctTypeOK /\ [IdctNext]_idctVars => IdctTypeOK'
BY DEF IdctTypeOK, IdctNext, KeepFrequencies, idctVars

\* It holds at the start.
LEMMA IdctStart == IdctInit => IdctTypeOK
BY DEF IdctInit, IdctTypeOK

-----------------------------------------------------------------------------
(* The bus (ch/10-speed.js): what is reserved is a sum over the cameras that started, which is   *)
(* the same in whatever order it is added up.                                                    *)

AskedBy(m) == ubCams[ubLine[m]].alloc
First(s) == CHOOSE x \in s : TRUE

\* A table of the sums over the sets of places in S, each made by taking out its first place.
Sums(g, S) ==
    \A s \in SUBSET S : g[s] = IF s = {} THEN 0 ELSE AskedBy(First(s)) + g[s \ {First(s)}]
SumsUpTo(g, S, n) ==
    \A s \in SUBSET S : Cardinality(s) <= n =>
        g[s] = IF s = {} THEN 0 ELSE AskedBy(First(s)) + g[s \ {First(s)}]

\* The first of a set is one of its items.
LEMMA FirstIsIn == ASSUME NEW s, s /= {} PROVE First(s) \in s
BY DEF First

\* Taking out a place leaves a smaller set.
LEMMA OneLess ==
    ASSUME NEW S, IsFiniteSet(S), NEW s \in SUBSET S, NEW x \in s, NEW n \in Nat,
           Cardinality(s) <= n + 1
    PROVE  s \ {x} \in SUBSET S /\ Cardinality(s \ {x}) <= n
<1>1. IsFiniteSet(s)
    BY FS_Subset
<1>2. Cardinality(s) \in Nat /\ Cardinality(s \ {x}) = Cardinality(s) - 1
    BY <1>1, FS_CardinalityType, FS_RemoveElement
<1> QED BY <1>2

\* What cameras ask for together can be added up, in the order First picks them.
LEMMA SumsAreThere ==
    ASSUME NEW S, IsFiniteSet(S), \A m \in S : AskedBy(m) \in Nat
    PROVE  \E g \in [SUBSET S -> Nat] : Sums(g, S)
<1> DEFINE T == {n \in Nat : \E g \in [SUBSET S -> Nat] : SumsUpTo(g, S, n)}
<1>1. 0 \in T
    <2> DEFINE g == [s \in SUBSET S |-> 0]
    <2>1. g \in [SUBSET S -> Nat] /\ \A s \in SUBSET S : g[s] = 0
        OBVIOUS
    <2> HIDE DEF g
    <2>2. ASSUME NEW s \in SUBSET S, Cardinality(s) <= 0 PROVE s = {}
        <3>1. IsFiniteSet(s)
            BY FS_Subset
        <3>2. Cardinality(s) = 0
            BY <2>2, <3>1, FS_CardinalityType
        <3> QED BY <3>1, <3>2, FS_EmptySet
    <2>3. SumsUpTo(g, S, 0)
        BY <2>1, <2>2 DEF SumsUpTo
    <2> QED BY <2>1, <2>3
<1>2. ASSUME NEW n \in Nat, n \in T PROVE n + 1 \in T
    <2>1. PICK g \in [SUBSET S -> Nat] : SumsUpTo(g, S, n)
        BY <1>2
    <2> DEFINE rule(s) == IF s = {} THEN 0 ELSE AskedBy(First(s)) + g[s \ {First(s)}]
               h == [s \in SUBSET S |-> rule(s)]
    <2>2. \A s \in SUBSET S : rule(s) \in Nat
        <3> SUFFICES ASSUME NEW s \in SUBSET S, s /= {} PROVE AskedBy(First(s)) + g[s \ {First(s)}] \in Nat
            OBVIOUS
        <3>1. First(s) \in S /\ s \ {First(s)} \in SUBSET S
            BY FirstIsIn
        <3> QED BY <3>1
    <2>3. h \in [SUBSET S -> Nat] /\ \A s \in SUBSET S : h[s] = rule(s)
        BY <2>2
    <2> HIDE DEF h
    <2>4. ASSUME NEW s \in SUBSET S, Cardinality(s) <= n + 1, s /= {}
          PROVE  h[s] = AskedBy(First(s)) + h[s \ {First(s)}]
        <3> DEFINE less == s \ {First(s)}
        <3>1. less \in SUBSET S /\ Cardinality(less) <= n
            BY <2>4, FirstIsIn, OneLess
        <3>2. g[less] = rule(less)
            BY <2>1, <3>1 DEF SumsUpTo
        <3>3. h[less] = g[less]
            BY <2>3, <3>1, <3>2
        <3> QED BY <2>3, <2>4, <3>3
    <2>5. h[{}] = 0
        BY <2>3
    <2>6. SumsUpTo(h, S, n + 1)
        BY <2>4, <2>5 DEF SumsUpTo
    <2> QED BY <2>3, <2>6
<1>3. Cardinality(S) \in T
    <2> HIDE DEF T
    <2> QED BY <1>1, <1>2, EveryNatural, FS_CardinalityType
<1>4. PICK g \in [SUBSET S -> Nat] : SumsUpTo(g, S, Cardinality(S))
    BY <1>3
<1>5. \A s \in SUBSET S : Cardinality(s) <= Cardinality(S)
    BY FS_Subset
<1> QED BY <1>4, <1>5 DEF Sums, SumsUpTo

\* Two tables agree wherever both have a sum.
LEMMA SumsAgree ==
    ASSUME NEW S, IsFiniteSet(S), NEW T \in SUBSET S, NEW g, Sums(g, S), NEW h, Sums(h, T)
    PROVE  h[T] = g[T]
<1> DEFINE U == {n \in Nat : \A s \in SUBSET T : Cardinality(s) <= n => h[s] = g[s]}
<1>1. IsFiniteSet(T)
    BY FS_Subset
<1>2. 0 \in U
    <2> SUFFICES ASSUME NEW s \in SUBSET T, Cardinality(s) <= 0 PROVE h[s] = g[s]
        OBVIOUS
    <2>1. IsFiniteSet(s)
        BY <1>1, FS_Subset
    <2>2. s = {}
        BY <2>1, FS_CardinalityType, FS_EmptySet
    <2> QED BY <2>2 DEF Sums
<1>3. ASSUME NEW n \in Nat, n \in U PROVE n + 1 \in U
    <2> SUFFICES ASSUME NEW s \in SUBSET T, Cardinality(s) <= n + 1, s /= {} PROVE h[s] = g[s]
        BY DEF Sums
    <2> DEFINE less == s \ {First(s)}
    <2>1. less \in SUBSET T /\ Cardinality(less) <= n
        BY <1>1, FirstIsIn, OneLess
    <2>2. h[less] = g[less]
        BY <1>3, <2>1
    <2>3. h[s] = AskedBy(First(s)) + h[less] /\ g[s] = AskedBy(First(s)) + g[less]
        BY DEF Sums
    <2> QED BY <2>2, <2>3
<1>4. Cardinality(T) \in U
    <2> HIDE DEF U
    <2> QED BY <1>1, <1>2, <1>3, EveryNatural, FS_CardinalityType
<1> QED BY <1>1, <1>4, FS_CardinalityType

\* What is reserved for a set of cameras is that sum.
LEMMA ReservedIsSum ==
    ASSUME NEW S, IsFiniteSet(S), \A m \in S : AskedBy(m) \in Nat, NEW g, Sums(g, S),
           NEW T \in SUBSET S
    PROVE  ReservedBy(T) = g[T]
<1> DEFINE next(h) == [s \in SUBSET T |-> IF s = {} THEN 0
                                          ELSE AskedBy(First(s)) + h[s \ {First(s)}]]
           sum == CHOOSE h : h = next(h)
<1>1. ReservedBy(T) = sum[T]
    BY Zenon DEF ReservedBy, MapThenSumSet, MapThenFoldSet, AskedBy, First
<1>2. IsFiniteSet(T) /\ \A m \in T : AskedBy(m) \in Nat
    BY FS_Subset
<1>3. PICK h \in [SUBSET T -> Nat] : Sums(h, T)
    BY <1>2, SumsAreThere
<1>4. h = next(h)
    <2>1. \A s \in SUBSET T : h[s] = next(h)[s]
        BY <1>3 DEF Sums
    <2>2. h = [s \in SUBSET T |-> h[s]] /\ next(h) = [s \in SUBSET T |-> next(h)[s]]
        OBVIOUS
    <2> HIDE DEF next
    <2> QED BY <2>1, <2>2
<1>5. sum = next(sum)
    <2> HIDE DEF next
    <2> QED BY <1>4
<1> HIDE DEF sum
<1>6. Sums(sum, T)
    <2>1. \A s \in SUBSET T : sum[s] = next(sum)[s]
        <3> HIDE DEF next
        <3> QED BY <1>5
    <2> QED BY <2>1 DEF Sums
<1>7. sum[T] = g[T]
    BY <1>6, SumsAgree
<1> QED BY <1>1, <1>7

\* Whichever place is added last.
AnyLast(g, S) == \A s \in SUBSET S : \A x \in s : g[s] = AskedBy(x) + g[s \ {x}]

\* Any camera of the set may be the one added last.
LEMMA AddedLast ==
    ASSUME NEW S, IsFiniteSet(S), \A m \in S : AskedBy(m) \in Nat,
           NEW g, g \in [SUBSET S -> Nat], Sums(g, S)
    PROVE  AnyLast(g, S)
<1> DEFINE T == {n \in Nat : \A s \in SUBSET S : Cardinality(s) <= n =>
                                 \A x \in s : g[s] = AskedBy(x) + g[s \ {x}]}
<1>1. 0 \in T
    <2> SUFFICES ASSUME NEW s \in SUBSET S, Cardinality(s) <= 0, NEW x \in s PROVE FALSE
        OBVIOUS
    <2>1. IsFiniteSet(s)
        BY FS_Subset
    <2> QED BY <2>1, FS_CardinalityType, FS_EmptySet
<1>2. ASSUME NEW n \in Nat, n \in T PROVE n + 1 \in T
    <2> SUFFICES ASSUME NEW s \in SUBSET S, Cardinality(s) <= n + 1, NEW x \in s
                 PROVE  g[s] = AskedBy(x) + g[s \ {x}]
        OBVIOUS
    <2> DEFINE first == First(s)
    <2>1. first \in s
        BY FirstIsIn
    <2>2. g[s] = AskedBy(first) + g[s \ {first}]
        BY DEF Sums
    <2> HIDE DEF first
    <2>3. CASE x = first
        BY <2>2, <2>3
    <2>4. CASE x /= first
        <3>1. s \ {first} \in SUBSET S /\ Cardinality(s \ {first}) <= n
            BY <2>1, OneLess
        <3>2. s \ {x} \in SUBSET S /\ Cardinality(s \ {x}) <= n
            BY OneLess
        <3> DEFINE both == (s \ {x}) \ {first}
        <3>3. (s \ {first}) \ {x} = both /\ both \in SUBSET S
            OBVIOUS
        <3> HIDE DEF both
        <3>4. g[s \ {first}] = AskedBy(x) + g[both]
            BY <1>2, <2>4, <3>1, <3>3
        <3>5. g[s \ {x}] = AskedBy(first) + g[both]
            BY <1>2, <2>1, <2>4, <3>2 DEF both
        <3>6. AskedBy(x) \in Nat /\ AskedBy(first) \in Nat /\ g[both] \in Nat
            BY <2>1, <3>3
        <3>7. \A p, q, r \in Nat : p + (q + r) = q + (p + r)
            OBVIOUS
        <3> QED BY <2>2, <3>4, <3>5, <3>6, <3>7
    <2> QED BY <2>3, <2>4
<1>3. \A n \in Nat : n \in T
    <2> HIDE DEF T
    <2> QED BY <1>1, <1>2, EveryNatural
<1> SUFFICES ASSUME NEW s \in SUBSET S, NEW x \in s PROVE g[s] = AskedBy(x) + g[s \ {x}]
    BY DEF AnyLast
<1>4. Cardinality(s) \in Nat
    <2>1. IsFiniteSet(s)
        BY FS_Subset
    <2> QED BY <2>1, FS_CardinalityType
<1> QED BY <1>3, <1>4

\* So a camera more reserves what it asks for, whichever it is.
LEMMA ReservedGrows ==
    ASSUME NEW S, IsFiniteSet(S), \A m \in S : AskedBy(m) \in Nat
    PROVE  /\ ReservedBy({}) = 0
           /\ \A s \in SUBSET S : \A x \in S \ s :
                  ReservedBy(s \union {x}) = ReservedBy(s) + AskedBy(x)
<1>1. PICK g \in [SUBSET S -> Nat] : Sums(g, S)
    BY SumsAreThere
<1>2. \A s \in SUBSET S : ReservedBy(s) = g[s]
    BY <1>1, ReservedIsSum
<1>3. g[{}] = 0
    BY <1>1 DEF Sums
<1>4. ASSUME NEW s \in SUBSET S, NEW x \in S \ s
      PROVE  ReservedBy(s \union {x}) = ReservedBy(s) + AskedBy(x)
    <2> DEFINE more == s \union {x}
    <2>1. more \in SUBSET S /\ x \in more /\ more \ {x} = s
        OBVIOUS
    <2> HIDE DEF more
    <2>2. g[more] = AskedBy(x) + g[s]
        <3>1. g[more] = AskedBy(x) + g[more \ {x}]
            <4>1. AnyLast(g, S)
                BY <1>1, AddedLast
            <4> QED BY <2>1, <4>1 DEF AnyLast
        <3> QED BY <2>1, <3>1, Zenon
    <2>3. AskedBy(x) \in Nat /\ g[s] \in Nat
        BY <1>1
    <2>4. ReservedBy(more) = ReservedBy(s) + AskedBy(x)
        BY <1>2, <2>1, <2>2, <2>3
    <2> QED BY <2>4 DEF more
<1> QED BY <1>2, <1>3, <1>4

\* What one camera leaves reserved of the bus, and what becomes of it.
Filled(total, alloc) == IF total + alloc < UsbRefuses THEN total + alloc ELSE total
Outcome(want) == IF want <= UsbFits THEN "ok" ELSE IF want < UsbRefuses THEN "untested" ELSE "refused"

\* A camera that asks is given its bandwidth or refused, and its answer noted.
LEMMA ReserveIs ==
    ASSUME NEW total, NEW status, NEW alloc
    PROVE  Reserve([total |-> total, status |-> status], alloc)
               = [total |-> Filled(total, alloc), status |-> Append(status, Outcome(total + alloc))]
BY DEF Reserve, Filled, Outcome

\* What is reserved after each camera of the line, a[n] being what the n-th asks for.
FillsUpTo(t, a, n) == t[0] = 0 /\ \A m \in 1..n : t[m] = Filled(t[m - 1], a[m])

\* What is reserved stays below what the bus refuses.
LEMMA FilledIsBelow ==
    \A total \in 0..(UsbRefuses - 1), alloc \in Nat : Filled(total, alloc) \in 0..(UsbRefuses - 1)
BY DEF Filled, UsbRefuses

\* The bus fills up camera by camera.
LEMMA FillIsThere ==
    ASSUME NEW last \in Nat, NEW a \in [1..last -> Nat]
    PROVE  \E t \in [0..last -> 0..(UsbRefuses - 1)] : FillsUpTo(t, a, last)
<1> DEFINE Totals == 0..(UsbRefuses - 1)
           T == {n \in Nat : n <= last => \E t \in [0..last -> Totals] : FillsUpTo(t, a, n)}
<1>1. 0 \in T
    <2> DEFINE t == [m \in 0..last |-> 0]
    <2>1. t \in [0..last -> Totals] /\ t[0] = 0
        BY DEF UsbRefuses
    <2> HIDE DEF t
    <2>2. FillsUpTo(t, a, 0)
        BY <2>1 DEF FillsUpTo
    <2> QED BY <2>1, <2>2
<1>2. ASSUME NEW n \in Nat, n \in T PROVE n + 1 \in T
    <2> SUFFICES ASSUME n + 1 <= last
                 PROVE  \E t \in [0..last -> Totals] : FillsUpTo(t, a, n + 1)
        OBVIOUS
    <2>1. PICK t \in [0..last -> Totals] : FillsUpTo(t, a, n)
        BY <1>2
    <2> DEFINE more == Filled(t[n], a[n + 1])
               u == [m \in 0..last |-> IF m = n + 1 THEN more ELSE t[m]]
    <2>2. more \in Totals
        <3>1. n \in 0..last /\ n + 1 \in 1..last
            OBVIOUS
        <3>2. t[n] \in Totals /\ a[n + 1] \in Nat
            BY <2>1, <3>1
        <3> QED BY <3>2, FilledIsBelow
    <2> HIDE DEF more
    <2>3. u \in [0..last -> Totals]
        BY <2>1, <2>2
    <2>4. u[n + 1] = more /\ \A m \in 0..n : u[m] = t[m]
        OBVIOUS
    <2> HIDE DEF u
    <2>5. ASSUME NEW m \in 1..(n + 1) PROVE u[m] = Filled(u[m - 1], a[m])
        <3>1. CASE m = n + 1
            <4>1. m - 1 = n /\ n \in 0..n
                BY <3>1
            <4> QED BY <2>4, <3>1, <4>1 DEF more
        <3>2. CASE m /= n + 1
            <4>1. m \in 1..n /\ m \in 0..n /\ m - 1 \in 0..n
                BY <3>2
            <4> QED BY <2>1, <2>4, <4>1 DEF FillsUpTo
        <3> QED BY <3>1, <3>2
    <2>6. FillsUpTo(u, a, n + 1)
        <3>1. u[0] = 0
            BY <2>1, <2>4 DEF FillsUpTo
        <3> QED BY <2>5, <3>1 DEF FillsUpTo
    <2> QED BY <2>3, <2>6
<1>3. last \in T
    <2> HIDE DEF T
    <2> QED BY <1>1, <1>2, EveryNatural
<1> QED BY <1>3

\* What evaluate's loop makes of the cameras: t[n] is reserved after the n-th.
BusFills(t, cams, line, model) ==
    /\ t[0] = 0 /\ model.total = t[Len(line)] /\ Len(model.status) = Len(line)
    /\ model.status \in Seq(UsbStatuses)
    /\ \A n \in 1..Len(line) :
           /\ t[n] = Filled(t[n - 1], cams[line[n]].alloc)
           /\ model.status[n] = Outcome(t[n - 1] + cams[line[n]].alloc)

\* What the model says of a line of cameras is what filling the bus with them in order gives.
LEMMA EvaluateIs ==
    ASSUME NEW line \in Seq(UsbPorts), NEW cams, \A i \in UsbPorts : cams[i].alloc \in Nat
    PROVE  \E t \in [0..Len(line) -> 0..(UsbRefuses - 1)] :
               BusFills(t, cams, line, Evaluate(cams, line))
<1> DEFINE last == Len(line)
           a == [n \in 1..last |-> cams[line[n]].alloc]
<1>1. last \in Nat /\ \A n \in 1..last : line[n] \in UsbPorts
    OBVIOUS
<1>2. a \in [1..last -> Nat] /\ \A n \in 1..last : a[n] = cams[line[n]].alloc
    BY <1>1
<1> HIDE DEF last, a
<1>3. PICK t \in [0..last -> 0..(UsbRefuses - 1)] : FillsUpTo(t, a, last)
    BY <1>1, <1>2, FillIsThere
<1> DEFINE said == [n \in 1..last |-> Outcome(t[n - 1] + a[n])]
           state(n) == [total |-> t[n], status |-> [m \in 1..n |-> said[m]]]
           got == [n \in 0..last |-> state(n)]
           next(g) == [n \in 0..last |-> IF n = 0 THEN [total |-> 0, status |-> <<>>]
                                         ELSE Reserve(g[n - 1], cams[line[n]].alloc)]
           eval == CHOOSE g : g = next(g)
<1>4. \A n \in 1..last : said[n] = Outcome(t[n - 1] + a[n])
    OBVIOUS
<1> HIDE DEF said
<1>5. Evaluate(cams, line) = eval[last]
    BY Zenon DEF Evaluate, last
<1>6. state(0) = [total |-> 0, status |-> <<>>]
    <2>1. t[0] = 0
        BY <1>3 DEF FillsUpTo
    <2>2. [m \in 1..0 |-> said[m]] = <<>>
        OBVIOUS
    <2> QED BY <2>1, <2>2
<1>7. ASSUME NEW n \in 1..last PROVE state(n) = Reserve(state(n - 1), cams[line[n]].alloc)
    <2> DEFINE before == [m \in 1..(n - 1) |-> said[m]]
               after == [m \in 1..n |-> said[m]]
    <2>1. n - 1 \in Nat /\ (n - 1) + 1 = n
        BY <1>1
    <2>2. Append(before, said[n]) = after
        <3> DEFINE row == Append(before, said[n])
                   Said == {said[m] : m \in 1..last}
        <3>1. \A m \in 1..n : m \in 1..last /\ said[m] \in Said
            BY <1>1
        <3>2. said[n] \in Said /\ \A m \in 1..(n - 1) : said[m] \in Said
            BY <2>1, <3>1
        <3> HIDE DEF Said
        <3>3. /\ before \in Seq(Said) /\ Len(before) = n - 1
              /\ \A m \in 1..(n - 1) : before[m] = said[m]
            BY <2>1, <3>2
        <3> HIDE DEF before
        <3>4. /\ row \in Seq(Said) /\ Len(row) = (n - 1) + 1 /\ row[(n - 1) + 1] = said[n]
              /\ \A m \in 1..(n - 1) : row[m] = before[m]
            BY <2>1, <3>3, <3>2
        <3> HIDE DEF row
        <3>5. row = [m \in 1..n |-> row[m]]
            BY <2>1, <3>4
        <3>6. \A m \in 1..n : row[m] = said[m]
            <4>1. \A m \in 1..n : m = n \/ m \in 1..(n - 1)
                OBVIOUS
            <4> QED BY <2>1, <3>3, <3>4, <4>1
        <3>7. row = after
            BY <3>5, <3>6
        <3> QED BY <3>7 DEF row
    <2> HIDE DEF before, after
    <2>3. said[n] = Outcome(t[n - 1] + cams[line[n]].alloc)
        BY <1>2, <1>4
    <2>4. t[n] = Filled(t[n - 1], cams[line[n]].alloc)
        BY <1>2, <1>3 DEF FillsUpTo
    <2>5. Reserve([total |-> t[n - 1], status |-> before], cams[line[n]].alloc)
              = [total |-> t[n], status |-> after]
        <3>1. Reserve([total |-> t[n - 1], status |-> before], cams[line[n]].alloc)
                  = [total |-> Filled(t[n - 1], cams[line[n]].alloc),
                     status |-> Append(before, Outcome(t[n - 1] + cams[line[n]].alloc))]
            BY ReserveIs
        <3> QED BY <2>2, <2>3, <2>4, <3>1, Zenon
    <2> QED BY <2>5 DEF before, after
<1> HIDE DEF state
<1>8. \A n \in 0..last : got[n] = state(n)
    OBVIOUS
<1>9. got = next(got)
    <2>1. \A n \in 0..last : got[n] = next(got)[n]
        <3> SUFFICES ASSUME NEW n \in 0..last PROVE got[n] = next(got)[n]
            OBVIOUS
        <3>1. CASE n = 0
            BY <1>6, <1>8, <3>1
        <3>2. CASE n /= 0
            <4>1. n \in 1..last /\ n - 1 \in 0..last
                BY <1>1, <3>2
            <4>2. got[n] = state(n) /\ got[n - 1] = state(n - 1)
                BY <1>8, <4>1
            <4> HIDE DEF got
            <4>3. next(got)[n] = Reserve(got[n - 1], cams[line[n]].alloc)
                BY <3>2
            <4> QED BY <1>7, <4>1, <4>2, <4>3
        <3> QED BY <3>1, <3>2
    <2>2. got = [n \in 0..last |-> got[n]] /\ next(got) = [n \in 0..last |-> next(got)[n]]
        OBVIOUS
    <2> HIDE DEF got, next
    <2> QED BY <2>1, <2>2
<1>10. eval = next(eval)
    <2> HIDE DEF next
    <2> QED BY <1>9
<1> HIDE DEF eval, got
<1> DEFINE U == {n \in Nat : n <= last => eval[n] = got[n]}
<1>11. 0 \in U
    <2>1. 0 \in 0..last
        BY <1>1
    <2> QED BY <1>9, <1>10, <2>1
<1>12. ASSUME NEW n \in Nat, n \in U PROVE n + 1 \in U
    <2> SUFFICES ASSUME n + 1 <= last PROVE eval[n + 1] = got[n + 1]
        OBVIOUS
    <2>1. n + 1 \in 0..last /\ n + 1 /= 0 /\ (n + 1) - 1 = n /\ n <= last
        BY <1>1
    <2>2. eval[n] = got[n]
        BY <1>12, <2>1
    <2>3. eval[n + 1] = Reserve(eval[n], cams[line[n + 1]].alloc)
        BY <1>10, <2>1
    <2>4. got[n + 1] = Reserve(got[n], cams[line[n + 1]].alloc)
        BY <1>9, <2>1
    <2> QED BY <2>2, <2>3, <2>4
<1>13. eval[last] = state(last)
    <2>1. last \in U
        <3> HIDE DEF U
        <3> QED BY <1>1, <1>11, <1>12, EveryNatural
    <2> QED BY <1>1, <1>8, <2>1
<1> DEFINE model == Evaluate(cams, line)
<1>14. /\ model.total = t[last] /\ Len(model.status) = last
       /\ \A n \in 1..last : model.status[n] = said[n]
       /\ model.status \in Seq(UsbStatuses)
    <2>1. model = [total |-> t[last], status |-> [m \in 1..last |-> said[m]]]
        BY <1>5, <1>13, Zenon DEF state
    <2> HIDE DEF model
    <2>2. model.total = t[last] /\ model.status = [m \in 1..last |-> said[m]]
        BY <2>1
    <2>3. \A m \in 1..last : said[m] \in UsbStatuses
        BY <1>4 DEF Outcome, UsbStatuses
    <2> QED BY <1>1, <2>2, <2>3
<1> HIDE DEF model
<1>15. BusFills(t, cams, line, model)
    BY <1>2, <1>3, <1>4, <1>14 DEF BusFills, FillsUpTo, last
<1> QED BY <1>3, <1>15 DEF model, last

\* The cameras have allocations of their own types, and what the page shows of the line is what
\* evaluate makes of it; until a port is changed the cameras are the preset's.
OwnAllocs(cams, line) == \A i \in ItemsOf(line) : cams[i].alloc \in ToSet(CamAllocs(cams[i].type))
UsbInv ==
    /\ ubLine \in Seq(UsbPorts)
    /\ ubCams \in [UsbPorts -> [type : CamTypes \union {""}, alloc : Nat]]
    /\ OwnAllocs(ubCams, ubLine)
    /\ ubModel = Evaluate(ubCams, ubLine)
    /\ ubTouched \in Nat
    /\ ubTouched = 0 => /\ ubPreset \in DOMAIN UsbPresets
                        /\ ubCams = PresetCams(ubPreset) /\ ubLine = PresetLine(ubPreset)

\* A camera asks for a number.
LEMMA AllocsAreNumbers == \A type : ToSet(CamAllocs(type)) \subseteq Nat
BY DEF CamAllocs, ToSet

\* A camera's stock request is one of its own.
LEMMA StockIsOwn == \A type : CamAllocs(type)[1] \in ToSet(CamAllocs(type))
BY DEF CamAllocs, ToSet

\* Unplugging and plugging in leave the other ports in the line.
LEMMA Unplugged ==
    ASSUME NEW line \in Seq(UsbPorts), NEW i \in UsbPorts
    PROVE  /\ Unplug(line, i) \in Seq(UsbPorts) /\ ItemsOf(Unplug(line, i)) = ItemsOf(line) \ {i}
           /\ PlugIn(line, i) \in Seq(UsbPorts) /\ ItemsOf(PlugIn(line, i)) \subseteq ItemsOf(line) \union {i}
<1> DEFINE rest == Unplug(line, i)
<1>1. rest \in Seq(UsbPorts) /\ ItemsOf(rest) = ItemsOf(line) \ {i}
    <2>1. ItemsOf(line) \subseteq UsbPorts
        BY DEF ItemsOf
    <2>2. rest \in Seq(UsbPorts) /\ ItemsOf(rest) = ItemsOf(line) \intersect (UsbPorts \ {i})
        BY OnlyLeaves DEF Unplug
    <2> QED BY <2>1, <2>2
<1>2. PlugIn(line, i) = Append(rest, i)
    BY DEF PlugIn
<1> HIDE DEF rest
<1>3. Append(rest, i) \in Seq(UsbPorts) /\ ItemsOf(Append(rest, i)) = ItemsOf(rest) \union {i}
    BY <1>1, OneItemMore
<1> QED BY <1>1, <1>2, <1>3 DEF rest

\* The cameras of a preset, in its line.
LEMMA PresetByItems ==
    ASSUME NEW k, NEW last \in Nat, UsbPresets[k] \in Seq(UsbPorts \X [type : CamTypes, alloc : Nat]),
           Len(UsbPresets[k]) = last,
           \A m, n \in 1..last : m /= n => UsbPresets[k][m][1] /= UsbPresets[k][n][1]
    PROVE  /\ PresetLine(k) \in Seq(UsbPorts) /\ Len(PresetLine(k)) = last
           /\ \A n \in 1..last : /\ PresetLine(k)[n] = UsbPresets[k][n][1]
                                 /\ PresetCams(k)[PresetLine(k)[n]] = UsbPresets[k][n][2]
           /\ PresetCams(k) \in [UsbPorts -> [type : CamTypes \union {""}, alloc : Nat]]
<1> DEFINE items == UsbPresets[k]
           line == PresetLine(k)
           Cams == [type : CamTypes, alloc : Nat]
<1>1. \A n \in 1..last : items[n][1] \in UsbPorts /\ items[n][2] \in Cams
    <2> HIDE DEF items, Cams
    <2>1. items \in Seq(UsbPorts \X Cams) /\ Len(items) = last
        BY DEF items, Cams
    <2>2. \A n \in 1..last : items[n] \in UsbPorts \X Cams
        BY <2>1, ElementOfSeq
    <2> QED BY <2>2
<1>2. line = [n \in 1..last |-> items[n][1]]
    BY DEF PresetLine
<1> HIDE DEF items, Cams
<1>3. line \in Seq(UsbPorts) /\ Len(line) = last /\ DOMAIN line = 1..last
      /\ \A n \in 1..last : line[n] = items[n][1]
    BY <1>1, <1>2
<1> HIDE DEF line
<1>4. \A m, n \in 1..last : line[m] = line[n] => m = n
    BY <1>3 DEF items
<1> DEFINE at(i) == CHOOSE n \in DOMAIN line : line[n] = i
           cam(i) == IF i \in ToSet(line) THEN items[at(i)][2] ELSE NoCamera
<1>5. PresetCams(k) = [i \in UsbPorts |-> cam(i)]
    BY Zenon DEF PresetCams, line, items
<1>6. ASSUME NEW n \in 1..last PROVE cam(line[n]) = items[n][2]
    <2>1. at(line[n]) = n
        BY <1>3, <1>4
    <2>2. line[n] \in ToSet(line)
        BY <1>3 DEF ToSet
    <2> HIDE DEF at
    <2> QED BY <2>1, <2>2
<1>7. ASSUME NEW i \in UsbPorts PROVE cam(i) \in [type : CamTypes \union {""}, alloc : Nat]
    <2>1. CASE i \in ToSet(line)
        <3>1. PICK n \in 1..last : i = line[n]
            BY <1>3, <2>1 DEF ToSet
        <3>2. cam(i) = items[n][2] /\ items[n][2] \in Cams
            BY <1>1, <1>6, <3>1
        <3> HIDE DEF cam
        <3> QED BY <3>2 DEF Cams
    <2>2. CASE i \notin ToSet(line)
        <3>1. cam(i) = [type |-> "", alloc |-> 0]
            BY <2>2 DEF NoCamera, Fixed
        <3> HIDE DEF cam
        <3>2. "" \in CamTypes \union {""} /\ 0 \in Nat
            OBVIOUS
        <3>3. [type |-> "", alloc |-> 0] \in [type : CamTypes \union {""}, alloc : Nat]
            BY <3>2, Zenon
        <3> QED BY <3>1, <3>3
    <2> QED BY <2>1, <2>2
<1> HIDE DEF cam
<1>8. \A n \in 1..last : PresetCams(k)[line[n]] = items[n][2]
    <2>1. \A n \in 1..last : line[n] \in UsbPorts
        BY <1>3
    <2> QED BY <1>5, <1>6, <2>1
<1>9. PresetCams(k) \in [UsbPorts -> [type : CamTypes \union {""}, alloc : Nat]]
    BY <1>5, <1>7
<1> QED BY <1>3, <1>8, <1>9 DEF line, items

\* A preset sets up a port no more than once, each camera with an allocation of its own type.
GoodItems(items, last) ==
    /\ items \in Seq(UsbPorts \X [type : CamTypes, alloc : Nat]) /\ Len(items) = last
    /\ \A m, n \in 1..last : m /= n => items[m][1] /= items[n][1]
    /\ \A n \in 1..last : items[n][2].alloc \in ToSet(CamAllocs(items[n][2].type))

\* A preset's camera is of its type and asks for one of that type's requests.
LEMMA FixedIsOwn ==
    /\ \A type \in CamTypes, alloc \in Nat : Fixed(type, alloc) \in [type : CamTypes, alloc : Nat]
    /\ \A type, alloc : Fixed(type, alloc).type = type /\ Fixed(type, alloc).alloc = alloc
    /\ {3060, 1280} \subseteq ToSet(CamAllocs("thrifty"))
    /\ {3072, 2400} \subseteq ToSet(CamAllocs("color"))
<1>1. \A type \in CamTypes, alloc \in Nat : Fixed(type, alloc) \in [type : CamTypes, alloc : Nat]
    BY Zenon DEF Fixed
<1>2. \A type, alloc : Fixed(type, alloc).type = type /\ Fixed(type, alloc).alloc = alloc
    BY DEF Fixed
<1>3. /\ CamAllocs("thrifty")[1] = 3060 /\ CamAllocs("thrifty")[3] = 1280
      /\ {1, 3} \subseteq DOMAIN CamAllocs("thrifty")
    BY DEF CamAllocs
<1>4. /\ CamAllocs("color")[1] = 3072 /\ CamAllocs("color")[2] = 2400
      /\ {1, 2} \subseteq DOMAIN CamAllocs("color")
    BY DEF CamAllocs
<1> QED BY <1>1, <1>2, <1>3, <1>4 DEF ToSet

\* The items of a preset, given one by one.
GoodLine(last, ports, types, allocs) ==
    /\ last \in Nat /\ ports \in [1..last -> UsbPorts] /\ types \in [1..last -> CamTypes]
    /\ allocs \in [1..last -> Nat]
    /\ \A m, n \in 1..last : m /= n => ports[m] /= ports[n]
    /\ \A n \in 1..last : allocs[n] \in ToSet(CamAllocs(types[n]))
Listed(last, ports, types, allocs) ==
    [n \in 1..last |-> <<ports[n], Fixed(types[n], allocs[n])>>]

\* A preset written as three lists is a line of such cameras.
LEMMA ItemsAreGood ==
    ASSUME NEW last, NEW ports, NEW types, NEW allocs, GoodLine(last, ports, types, allocs)
    PROVE  LET items == Listed(last, ports, types, allocs)
           IN  GoodItems(items, last) /\ \A n \in 1..last : items[n][2].alloc = allocs[n]
<1> DEFINE items == Listed(last, ports, types, allocs)
<1>1. items = [n \in 1..last |-> items[n]]
    BY DEF Listed
<1>2. \A n \in 1..last : items[n] = <<ports[n], Fixed(types[n], allocs[n])>>
    BY DEF Listed
<1> HIDE DEF items
<1>3. /\ last \in Nat
      /\ \A n \in 1..last : ports[n] \in UsbPorts /\ types[n] \in CamTypes /\ allocs[n] \in Nat
    BY DEF GoodLine
<1>4. /\ \A m, n \in 1..last : m /= n => ports[m] /= ports[n]
      /\ \A n \in 1..last : allocs[n] \in ToSet(CamAllocs(types[n]))
    BY DEF GoodLine
<1> DEFINE Cams == [type : CamTypes, alloc : Nat]
           Items == UsbPorts \X Cams
<1>5. \A n \in 1..last : /\ items[n][1] = ports[n] /\ items[n][2] = Fixed(types[n], allocs[n])
                         /\ items[n][2].type = types[n] /\ items[n][2].alloc = allocs[n]
    <2>1. \A n \in 1..last : items[n][1] = ports[n] /\ items[n][2] = Fixed(types[n], allocs[n])
        BY <1>2
    <2> QED BY <2>1, FixedIsOwn
<1>6. \A n \in 1..last : Fixed(types[n], allocs[n]) \in Cams
    BY <1>3, FixedIsOwn
<1>7. \A n \in 1..last : items[n] \in Items
    <2> HIDE DEF Cams
    <2> QED BY <1>2, <1>3, <1>6
<1> HIDE DEF Items
<1>8. items \in Seq(Items) /\ Len(items) = last
    BY <1>1, <1>3, <1>7
<1>9. /\ \A m, n \in 1..last : m /= n => items[m][1] /= items[n][1]
      /\ \A n \in 1..last : items[n][2].alloc \in ToSet(CamAllocs(items[n][2].type))
    BY <1>4, <1>5
<1>10. GoodItems(items, last) /\ \A n \in 1..last : items[n][2].alloc = allocs[n]
    BY <1>5, <1>8, <1>9 DEF GoodItems, Items, Cams
<1> QED BY <1>10 DEF items

\* The presets, which ask for more than the bus has if they are named in Greedy.
Greedy == {"stock3", "usbc", "greedy"}
PresetAsks(k, last, allocs) ==
    GoodItems(UsbPresets[k], last) /\ \A n \in 1..last : UsbPresets[k][n][2].alloc = allocs[n]

\* What the presets' cameras ask for, in order.
LEMMA PresetsAsk ==
    /\ PresetAsks("stock2", 2, [n \in 1..2 |-> 3060])
    /\ PresetAsks("stock3", 3, [n \in 1..3 |-> 3060])
    /\ PresetAsks("usbc", 3, [n \in 1..3 |-> IF n = 1 THEN 3072 ELSE 3060])
    /\ PresetAsks("ours", 5, [n \in 1..5 |-> 1280])
    /\ PresetAsks("greedy", 5, [n \in 1..5 |-> IF n = 5 THEN 2400 ELSE 1280])
<1> DEFINE ports(last) == [n \in 1..last |-> n - 1]
           thrifty(last) == [n \in 1..last |-> "thrifty"]
           all(last, alloc) == [n \in 1..last |-> alloc]
<1>1. ASSUME NEW last \in 0..5, NEW alloc \in {3060, 1280}, NEW items,
             items = Listed(last, ports(last), thrifty(last), all(last, alloc))
      PROVE  GoodItems(items, last) /\ \A n \in 1..last : items[n][2].alloc = all(last, alloc)[n]
    <2>1. ports(last) \in [1..last -> UsbPorts] /\ \A m, n \in 1..last : m /= n => ports(last)[m] /= ports(last)[n]
        BY DEF UsbPorts
    <2>2. thrifty(last) \in [1..last -> CamTypes]
        BY DEF CamTypes
    <2>3. all(last, alloc) \in [1..last -> Nat]
        OBVIOUS
    <2>4. \A n \in 1..last : all(last, alloc)[n] \in ToSet(CamAllocs(thrifty(last)[n]))
        BY FixedIsOwn
    <2> HIDE DEF ports, thrifty, all
    <2>5. GoodLine(last, ports(last), thrifty(last), all(last, alloc))
        BY <2>1, <2>2, <2>3, <2>4 DEF GoodLine
    <2> QED BY <1>1, <2>5, ItemsAreGood
<1>2. PresetAsks("stock2", 2, [n \in 1..2 |-> 3060])
    <2> DEFINE items == UsbPresets["stock2"]
    <2>1. items = Listed(2, ports(2), thrifty(2), all(2, 3060))
        <3>1. items = <<<<0, Fixed("thrifty", 3060)>>, <<1, Fixed("thrifty", 3060)>>>>
            BY DEF UsbPresets
        <3> QED BY <3>1 DEF Listed
    <2> HIDE DEF items
    <2> QED BY <1>1, <2>1 DEF PresetAsks, items
<1>3. PresetAsks("stock3", 3, [n \in 1..3 |-> 3060])
    <2> DEFINE items == UsbPresets["stock3"]
    <2>1. items = Listed(3, ports(3), thrifty(3), all(3, 3060))
        BY DEF UsbPresets, Listed
    <2> HIDE DEF items
    <2> QED BY <1>1, <2>1 DEF PresetAsks, items
<1>4. PresetAsks("ours", 5, [n \in 1..5 |-> 1280])
    <2> DEFINE items == UsbPresets["ours"]
    <2>1. items = Listed(5, ports(5), thrifty(5), all(5, 1280))
        BY DEF UsbPresets, Listed
    <2> HIDE DEF items
    <2> QED BY <1>1, <2>1 DEF PresetAsks, items
<1>5. PresetAsks("usbc", 3, [n \in 1..3 |-> IF n = 1 THEN 3072 ELSE 3060])
    <2> DEFINE items == UsbPresets["usbc"]
               p == [n \in 1..3 |-> IF n = 1 THEN 4 ELSE n - 2]
               ty == [n \in 1..3 |-> IF n = 1 THEN "color" ELSE "thrifty"]
               al == [n \in 1..3 |-> IF n = 1 THEN 3072 ELSE 3060]
    <2>1. items = Listed(3, p, ty, al)
        <3>1. items = <<<<4, Fixed("color", 3072)>>, <<0, Fixed("thrifty", 3060)>>,
                        <<1, Fixed("thrifty", 3060)>>>>
            BY DEF UsbPresets
        <3> QED BY <3>1 DEF Listed
    <2>2. p \in [1..3 -> UsbPorts] /\ \A m, n \in 1..3 : m /= n => p[m] /= p[n]
        BY DEF UsbPorts
    <2>3. ty \in [1..3 -> CamTypes]
        BY DEF CamTypes
    <2>4. al \in [1..3 -> Nat]
        OBVIOUS
    <2>5. \A n \in 1..3 : al[n] \in ToSet(CamAllocs(ty[n]))
        BY FixedIsOwn
    <2> HIDE DEF items, p, ty, al
    <2>6. GoodLine(3, p, ty, al)
        BY <2>2, <2>3, <2>4, <2>5 DEF GoodLine
    <2>7. GoodItems(items, 3) /\ \A n \in 1..3 : items[n][2].alloc = al[n]
        BY <2>1, <2>6, ItemsAreGood
    <2> QED BY <2>7 DEF PresetAsks, items, al
<1>6. PresetAsks("greedy", 5, [n \in 1..5 |-> IF n = 5 THEN 2400 ELSE 1280])
    <2> DEFINE items == UsbPresets["greedy"]
               p == [n \in 1..5 |-> n - 1]
               ty == [n \in 1..5 |-> IF n = 5 THEN "color" ELSE "thrifty"]
               al == [n \in 1..5 |-> IF n = 5 THEN 2400 ELSE 1280]
    <2>1. items = Listed(5, p, ty, al)
        <3>1. items = [n \in 1..5 |-> <<n - 1, IF n = 5 THEN Fixed("color", 2400)
                                               ELSE Fixed("thrifty", 1280)>>]
            BY DEF UsbPresets
        <3> QED BY <3>1 DEF Listed
    <2>2. p \in [1..5 -> UsbPorts] /\ \A m, n \in 1..5 : m /= n => p[m] /= p[n]
        BY DEF UsbPorts
    <2>3. ty \in [1..5 -> CamTypes]
        BY DEF CamTypes
    <2>4. al \in [1..5 -> Nat]
        OBVIOUS
    <2>5. \A n \in 1..5 : al[n] \in ToSet(CamAllocs(ty[n]))
        BY FixedIsOwn
    <2> HIDE DEF items, p, ty, al
    <2>6. GoodLine(5, p, ty, al)
        BY <2>2, <2>3, <2>4, <2>5 DEF GoodLine
    <2>7. GoodItems(items, 5) /\ \A n \in 1..5 : items[n][2].alloc = al[n]
        BY <2>1, <2>6, ItemsAreGood
    <2> QED BY <2>7 DEF PresetAsks, items, al
<1> QED BY <1>2, <1>3, <1>4, <1>5, <1>6

\* What evaluate makes of a preset.
RunsTo(t, model, last, allocs) ==
    /\ t[0] = 0 /\ Len(model.status) = last
    /\ \A n \in 1..last : /\ t[n] = Filled(t[n - 1], allocs[n])
                          /\ model.status[n] = Outcome(t[n - 1] + allocs[n])

\* A preset is evaluated by filling the bus with its requests in order.
LEMMA PresetFills ==
    ASSUME NEW k, NEW last \in Nat, NEW allocs, PresetAsks(k, last, allocs)
    PROVE  \E t : RunsTo(t, Evaluate(PresetCams(k), PresetLine(k)), last, allocs)
<1> DEFINE line == PresetLine(k)
           cams == PresetCams(k)
           model == Evaluate(cams, line)
<1>1. GoodItems(UsbPresets[k], last) /\ \A n \in 1..last : UsbPresets[k][n][2].alloc = allocs[n]
    BY DEF PresetAsks
<1>2. /\ line \in Seq(UsbPorts) /\ Len(line) = last
      /\ \A n \in 1..last : cams[line[n]] = UsbPresets[k][n][2]
      /\ cams \in [UsbPorts -> [type : CamTypes \union {""}, alloc : Nat]]
    BY <1>1, PresetByItems DEF GoodItems
<1> HIDE DEF line, cams
<1>3. \A n \in 1..last : cams[line[n]].alloc = allocs[n]
    BY <1>1, <1>2
<1>4. \A i \in UsbPorts : cams[i].alloc \in Nat
    BY <1>2
<1>5. PICK t \in [0..Len(line) -> 0..(UsbRefuses - 1)] : BusFills(t, cams, line, model)
    BY <1>2, <1>4, EvaluateIs
<1> HIDE DEF model
<1>6. RunsTo(t, model, last, allocs)
    BY <1>2, <1>3, <1>5 DEF BusFills, RunsTo
<1> QED BY <1>6 DEF model, line, cams

\* A camera is refused in just those presets whose buttons say so.
Refused(model) == "refused" \in ToSet(model.status)

\* One camera more, of those that fit.
LEMMA OneFits ==
    ASSUME NEW t, NEW model, NEW last, NEW allocs, RunsTo(t, model, last, allocs),
           NEW n \in 1..last, NEW before \in Nat, NEW alloc \in Nat,
           t[n - 1] = before, allocs[n] = alloc, before + alloc <= UsbFits
    PROVE  t[n] = before + alloc /\ model.status[n] = "ok"
<1>1. t[n] = Filled(before, alloc) /\ model.status[n] = Outcome(before + alloc)
    BY DEF RunsTo
<1> QED BY <1>1 DEF Filled, Outcome, UsbFits, UsbRefuses

\* A camera that asks for more than is left is refused.
LEMMA OneIsRefused ==
    ASSUME NEW t, NEW model, NEW last, NEW allocs, RunsTo(t, model, last, allocs),
           NEW n \in 1..last, NEW before \in Nat, NEW alloc \in Nat,
           t[n - 1] = before, allocs[n] = alloc, before + alloc >= UsbRefuses
    PROVE  Refused(model)
<1>1. model.status[n] = Outcome(before + alloc) /\ Len(model.status) = last
    BY DEF RunsTo
<1>2. model.status[n] = "refused"
    BY <1>1 DEF Outcome, UsbFits, UsbRefuses
<1> QED BY <1>1, <1>2 DEF Refused, ToSet

\* The presets that have a camera refused are those named in Greedy.
LEMMA PresetsRefuse ==
    \A k \in DOMAIN UsbPresets : Refused(Evaluate(PresetCams(k), PresetLine(k))) <=> k \in Greedy
<1> DEFINE model(k) == Evaluate(PresetCams(k), PresetLine(k))
<1>1. /\ \A n : n \in 1..2 <=> n = 1 \/ n = 2
      /\ \A n : n \in 1..5 <=> n = 1 \/ n = 2 \/ n = 3 \/ n = 4 \/ n = 5
    OBVIOUS
<1>2. ~Refused(model("stock2"))
    <2> DEFINE a == [n \in 1..2 |-> 3060]
    <2>1. PICK t : RunsTo(t, model("stock2"), 2, a)
        BY PresetsAsk, PresetFills
    <2>2. t[0] = 0 /\ a[1] = 3060 /\ a[2] = 3060
        BY <2>1 DEF RunsTo
    <2> HIDE DEF a, model
    <2>3. t[1] = 3060 /\ model("stock2").status[1] = "ok"
        BY <2>1, <2>2, 1 - 1 = 0, OneFits DEF UsbFits
    <2>4. t[2] = 6120 /\ model("stock2").status[2] = "ok"
        BY <2>1, <2>2, <2>3, 2 - 1 = 1, OneFits DEF UsbFits
    <2>5. \A n \in 1..2 : model("stock2").status[n] /= "refused"
        BY <1>1, <2>3, <2>4
    <2>6. Len(model("stock2").status) = 2
        BY <2>1 DEF RunsTo
    <2> QED BY <2>5, <2>6 DEF Refused, ToSet
<1>3. Refused(model("stock3"))
    <2> DEFINE a == [n \in 1..3 |-> 3060]
    <2>1. PICK t : RunsTo(t, model("stock3"), 3, a)
        BY PresetsAsk, PresetFills
    <2>2. t[0] = 0 /\ a[1] = 3060 /\ a[2] = 3060 /\ a[3] = 3060
        BY <2>1 DEF RunsTo
    <2> HIDE DEF a, model
    <2>3. t[1] = 3060 /\ model("stock3").status[1] = "ok"
        BY <2>1, <2>2, 1 - 1 = 0, OneFits DEF UsbFits
    <2>4. t[2] = 6120 /\ model("stock3").status[2] = "ok"
        BY <2>1, <2>2, <2>3, 2 - 1 = 1, OneFits DEF UsbFits
    <2> QED BY <2>1, <2>2, <2>4, 3 - 1 = 2, OneIsRefused DEF UsbRefuses
<1>4. Refused(model("usbc"))
    <2> DEFINE a == [n \in 1..3 |-> IF n = 1 THEN 3072 ELSE 3060]
    <2>1. PICK t : RunsTo(t, model("usbc"), 3, a)
        BY PresetsAsk, PresetFills
    <2>2. t[0] = 0 /\ a[1] = 3072 /\ a[2] = 3060 /\ a[3] = 3060
        BY <2>1 DEF RunsTo
    <2> HIDE DEF a, model
    <2>3. t[1] = 3072 /\ model("usbc").status[1] = "ok"
        BY <2>1, <2>2, 1 - 1 = 0, OneFits DEF UsbFits
    <2>4. t[2] = 6132 /\ model("usbc").status[2] = "ok"
        BY <2>1, <2>2, <2>3, 2 - 1 = 1, OneFits DEF UsbFits
    <2> QED BY <2>1, <2>2, <2>4, 3 - 1 = 2, OneIsRefused DEF UsbRefuses
<1>5. ~Refused(model("ours"))
    <2> DEFINE a == [n \in 1..5 |-> 1280]
    <2>1. PICK t : RunsTo(t, model("ours"), 5, a)
        BY PresetsAsk, PresetFills
    <2>2. t[0] = 0 /\ a[1] = 1280 /\ a[2] = 1280 /\ a[3] = 1280 /\ a[4] = 1280 /\ a[5] = 1280
        BY <2>1 DEF RunsTo
    <2> HIDE DEF a, model
    <2>3. t[1] = 1280 /\ model("ours").status[1] = "ok"
        BY <2>1, <2>2, 1 - 1 = 0, OneFits DEF UsbFits
    <2>4. t[2] = 2560 /\ model("ours").status[2] = "ok"
        BY <2>1, <2>2, <2>3, 2 - 1 = 1, OneFits DEF UsbFits
    <2>5. t[3] = 3840 /\ model("ours").status[3] = "ok"
        BY <2>1, <2>2, <2>4, 3 - 1 = 2, OneFits DEF UsbFits
    <2>6. t[4] = 5120 /\ model("ours").status[4] = "ok"
        BY <2>1, <2>2, <2>5, 4 - 1 = 3, OneFits DEF UsbFits
    <2>7. t[5] = 6400 /\ model("ours").status[5] = "ok"
        BY <2>1, <2>2, <2>6, 5 - 1 = 4, OneFits DEF UsbFits
    <2>8. \A n \in 1..5 : model("ours").status[n] /= "refused"
        BY <1>1, <2>3, <2>4, <2>5, <2>6, <2>7
    <2>9. Len(model("ours").status) = 5
        BY <2>1 DEF RunsTo
    <2> QED BY <2>8, <2>9 DEF Refused, ToSet
<1>6. Refused(model("greedy"))
    <2> DEFINE a == [n \in 1..5 |-> IF n = 5 THEN 2400 ELSE 1280]
    <2>1. PICK t : RunsTo(t, model("greedy"), 5, a)
        BY PresetsAsk, PresetFills
    <2>2. t[0] = 0 /\ a[1] = 1280 /\ a[2] = 1280 /\ a[3] = 1280 /\ a[4] = 1280 /\ a[5] = 2400
        BY <2>1 DEF RunsTo
    <2> HIDE DEF a, model
    <2>3. t[1] = 1280 /\ model("greedy").status[1] = "ok"
        BY <2>1, <2>2, 1 - 1 = 0, OneFits DEF UsbFits
    <2>4. t[2] = 2560 /\ model("greedy").status[2] = "ok"
        BY <2>1, <2>2, <2>3, 2 - 1 = 1, OneFits DEF UsbFits
    <2>5. t[3] = 3840 /\ model("greedy").status[3] = "ok"
        BY <2>1, <2>2, <2>4, 3 - 1 = 2, OneFits DEF UsbFits
    <2>6. t[4] = 5120 /\ model("greedy").status[4] = "ok"
        BY <2>1, <2>2, <2>5, 4 - 1 = 3, OneFits DEF UsbFits
    <2> QED BY <2>1, <2>2, <2>6, 5 - 1 = 4, OneIsRefused DEF UsbRefuses
<1>7. DOMAIN UsbPresets = {"stock2", "stock3", "usbc", "ours", "greedy"}
    BY DEF UsbPresets
<1> HIDE DEF model
<1>8. \A k \in DOMAIN UsbPresets : Refused(model(k)) <=> k \in Greedy
    BY <1>2, <1>3, <1>4, <1>5, <1>6, <1>7 DEF Greedy
<1> QED BY <1>8 DEF model

\* The cameras of a preset have allocations of their own types.
LEMMA PresetIsOwn ==
    ASSUME NEW k \in DOMAIN UsbPresets
    PROVE  /\ PresetLine(k) \in Seq(UsbPorts)
           /\ PresetCams(k) \in [UsbPorts -> [type : CamTypes \union {""}, alloc : Nat]]
           /\ OwnAllocs(PresetCams(k), PresetLine(k))
<1>1. PICK last \in Nat : GoodItems(UsbPresets[k], last)
    <2>1. DOMAIN UsbPresets = {"stock2", "stock3", "usbc", "ours", "greedy"}
        BY DEF UsbPresets
    <2> QED BY <2>1, PresetsAsk DEF PresetAsks
<1> DEFINE line == PresetLine(k)
           cams == PresetCams(k)
<1>2. /\ line \in Seq(UsbPorts) /\ Len(line) = last
      /\ \A n \in 1..last : cams[line[n]] = UsbPresets[k][n][2]
      /\ cams \in [UsbPorts -> [type : CamTypes \union {""}, alloc : Nat]]
    BY <1>1, PresetByItems DEF GoodItems
<1>3. \A n \in 1..last : UsbPresets[k][n][2].alloc \in ToSet(CamAllocs(UsbPresets[k][n][2].type))
    BY <1>1 DEF GoodItems
<1> HIDE DEF line, cams
<1>4. OwnAllocs(cams, line)
    <2>1. \A i \in ItemsOf(line) : \E n \in 1..last : i = line[n]
        BY <1>2 DEF ItemsOf
    <2> QED BY <1>2, <1>3, <2>1 DEF OwnAllocs
<1> QED BY <1>2, <1>4 DEF line, cams

\* It holds at the start.
LEMMA UsbStart == UsbInit => UsbInv
<1> SUFFICES ASSUME UsbInit PROVE UsbInv
    OBVIOUS
<1>1. "ours" \in DOMAIN UsbPresets
    BY DEF UsbPresets
<1> QED BY <1>1, PresetIsOwn DEF UsbInit, UsbInv

\* The items of a sequence are of its elements.
LEMMA ItemsAreOf ==
    ASSUME NEW Elem, NEW q \in Seq(Elem)
    PROVE  ItemsOf(q) \subseteq Elem /\ ToSet(q) = ItemsOf(q)
BY DEF ItemsOf, ToSet

\* One port set up anew.
LEMMA PortChanged ==
    ASSUME UsbInv, NEW i \in UsbPorts, NEW cam \in [type : CamTypes \union {""}, alloc : Nat],
           NEW cams, cams = [ubCams EXCEPT ![i] = cam], NEW line \in Seq(UsbPorts),
           \/ ItemsOf(line) \subseteq ItemsOf(ubLine) \ {i}
           \/ /\ ItemsOf(line) \subseteq ItemsOf(ubLine) \union {i}
              /\ cam.alloc \in ToSet(CamAllocs(cam.type))
    PROVE  /\ cams \in [UsbPorts -> [type : CamTypes \union {""}, alloc : Nat]]
           /\ OwnAllocs(cams, line)
<1> DEFINE Cams == [type : CamTypes \union {""}, alloc : Nat]
<1>1. ubCams \in [UsbPorts -> Cams] /\ OwnAllocs(ubCams, ubLine)
    BY DEF UsbInv
<1> HIDE DEF Cams
<1>2. cams \in [UsbPorts -> Cams] /\ cams[i] = cam /\ \A j \in UsbPorts : j /= i => cams[j] = ubCams[j]
    BY <1>1 DEF Cams
<1>3. ItemsOf(line) \subseteq UsbPorts
    BY ItemsAreOf
<1>4. ASSUME NEW j \in ItemsOf(line) PROVE cams[j].alloc \in ToSet(CamAllocs(cams[j].type))
    <2>1. CASE j = i
        BY <1>2, <2>1
    <2>2. CASE j /= i
        <3>1. j \in ItemsOf(ubLine) /\ cams[j] = ubCams[j]
            BY <1>2, <1>3, <2>2
        <3> QED BY <1>1, <3>1 DEF OwnAllocs
    <2> QED BY <2>1, <2>2
<1> QED BY <1>2, <1>4 DEF OwnAllocs, Cams

\* One touch more is not none.
LEMMA OneTouchMore == \A n \in Nat : n + 1 \in Nat /\ n + 1 /= 0
OBVIOUS

\* Every step keeps it.
LEMMA UsbStep == UsbInv /\ [UsbNext]_usbVars => UsbInv'
<1> SUFFICES ASSUME UsbInv, [UsbNext]_usbVars PROVE UsbInv'
    OBVIOUS
<1> DEFINE Cams == [type : CamTypes \union {""}, alloc : Nat]
<1>1. ubLine \in Seq(UsbPorts) /\ ubCams \in [UsbPorts -> Cams] /\ ubTouched \in Nat
    BY DEF UsbInv
<1>2. ASSUME NEW k \in DOMAIN UsbPresets, UsbPick(k) PROVE UsbInv'
    BY <1>2, PresetIsOwn DEF UsbPick, Render, UsbInv
<1>3. ASSUME NEW cams \in [UsbPorts -> Cams], NEW line \in Seq(UsbPorts), OwnAllocs(cams, line),
             Touch, Render(cams, line)
      PROVE  UsbInv'
    <2>1. ubTouched' \in Nat /\ ubTouched' /= 0
        <3>1. ubTouched \in Nat /\ ubTouched' = ubTouched + 1
            BY <1>1, <1>3, Zenon DEF Touch
        <3> QED BY <3>1, OneTouchMore, Zenon
    <2> QED BY <1>3, <2>1 DEF Render, UsbInv
<1>4. ASSUME NEW i \in UsbPorts, NEW type \in CamTypes \union {""}, ChangeCamera(i, type) PROVE UsbInv'
    <2>1. CASE type = ""
        <3> DEFINE cams == [ubCams EXCEPT ![i] = NoCamera]
                   line == Unplug(ubLine, i)
        <3>1. Touch /\ Render(cams, line)
            BY <1>4, <2>1 DEF ChangeCamera
        <3>2. NoCamera \in Cams
            <4>1. "" \in CamTypes \union {""} /\ 0 \in Nat
                OBVIOUS
            <4> QED BY <4>1, Zenon DEF NoCamera, Fixed
        <3>3. line \in Seq(UsbPorts) /\ ItemsOf(line) \subseteq ItemsOf(ubLine) \ {i}
            BY <1>1, Unplugged
        <3> HIDE DEF cams, line
        <3>4. cams \in [UsbPorts -> Cams] /\ OwnAllocs(cams, line)
            BY <3>2, <3>3, PortChanged DEF cams
        <3> QED BY <1>3, <3>1, <3>3, <3>4
    <2>2. CASE type /= ""
        <3> DEFINE cam == Fixed(type, CamAllocs(type)[1])
                   cams == [ubCams EXCEPT ![i] = cam]
                   line == PlugIn(ubLine, i)
        <3>1. Touch /\ Render(cams, line)
            BY <1>4, <2>2 DEF ChangeCamera
        <3>2. CamAllocs(type)[1] \in Nat
            BY StockIsOwn, AllocsAreNumbers
        <3>3. cam \in Cams
            BY <3>2, Zenon DEF Fixed
        <3>4. cam.alloc = CamAllocs(type)[1] /\ cam.type = type
            BY DEF Fixed
        <3>5. cam.alloc \in ToSet(CamAllocs(cam.type))
            BY <3>4, StockIsOwn
        <3>6. line \in Seq(UsbPorts) /\ ItemsOf(line) \subseteq ItemsOf(ubLine) \union {i}
            BY <1>1, Unplugged
        <3> HIDE DEF cam, cams, line
        <3>7. cams \in [UsbPorts -> Cams] /\ OwnAllocs(cams, line)
            BY <3>3, <3>5, <3>6, PortChanged DEF cams
        <3> QED BY <1>3, <3>1, <3>6, <3>7
    <2> QED BY <2>1, <2>2
<1>5. ASSUME NEW i \in UsbPorts, NEW alloc, ChangeAlloc(i, alloc) PROVE UsbInv'
    <2> DEFINE cam == [ubCams[i] EXCEPT !.alloc = alloc]
               cams == [ubCams EXCEPT ![i] = cam]
               line == PlugIn(ubLine, i)
    <2>1. Touch /\ alloc \in ToSet(CamAllocs(ubCams[i].type))
        BY <1>5 DEF ChangeAlloc
    <2>2. Render(cams, line)
        <3>1. [ubCams EXCEPT ![i].alloc = alloc] = cams
            BY Zenon
        <3> QED BY <1>5, <3>1 DEF ChangeAlloc
    <2>3. alloc \in Nat
        BY <2>1, AllocsAreNumbers
    <2>4. cam \in Cams /\ cam.alloc = alloc /\ cam.type = ubCams[i].type
        <3>1. ubCams[i] \in Cams
            BY <1>1
        <3> QED BY <2>3, <3>1
    <2>5. line \in Seq(UsbPorts) /\ ItemsOf(line) \subseteq ItemsOf(ubLine) \union {i}
        BY <1>1, Unplugged
    <2> HIDE DEF cam, cams, line
    <2>6. cams \in [UsbPorts -> Cams] /\ OwnAllocs(cams, line)
        BY <2>1, <2>4, <2>5, PortChanged DEF cams
    <2> QED BY <1>3, <2>1, <2>2, <2>5, <2>6
<1>6. CASE UNCHANGED usbVars
    BY <1>6 DEF usbVars, UsbInv
<1> QED BY <1>2, <1>4, <1>5, <1>6 DEF UsbNext

\* The table follows from what evaluate makes of the line.
LEMMA TableIsTrue == UsbInv => UsbTableTrue
<1> SUFFICES ASSUME UsbInv PROVE UsbTableTrue
    OBVIOUS
<1> DEFINE last == Len(ubLine)
           places == 1..last
<1>1. /\ ubLine \in Seq(UsbPorts)
      /\ ubCams \in [UsbPorts -> [type : CamTypes \union {""}, alloc : Nat]]
      /\ ubModel = Evaluate(ubCams, ubLine) /\ OwnAllocs(ubCams, ubLine)
    BY DEF UsbInv
<1>2. \A i \in UsbPorts : ubCams[i].alloc \in Nat
    BY <1>1
<1>3. PICK t \in [0..Len(ubLine) -> 0..(UsbRefuses - 1)] : BusFills(t, ubCams, ubLine, ubModel)
    BY <1>1, <1>2, EvaluateIs
<1>4. last \in Nat /\ \A n \in places : AskedBy(n) \in Nat
    <2>1. last \in Nat /\ \A n \in places : ubLine[n] \in UsbPorts
        <3>1. ubLine \in Seq(UsbPorts)
            BY <1>1
        <3> QED BY <3>1, ElementOfSeq
    <2> QED BY <1>2, <2>1 DEF AskedBy
<1> HIDE DEF last
<1>5. /\ t[0] = 0 /\ ubModel.total = t[last] /\ Len(ubModel.status) = last
      /\ \A n \in places : /\ t[n] = Filled(t[n - 1], AskedBy(n))
                           /\ ubModel.status[n] = Outcome(t[n - 1] + AskedBy(n))
    BY <1>3 DEF BusFills, AskedBy, last
<1>6. \A n \in 0..last : t[n] \in Nat /\ t[n] < UsbRefuses
    <2>1. \A n \in 0..last : t[n] \in 0..(UsbRefuses - 1)
        BY <1>3 DEF last
    <2>2. \A x \in 0..(UsbRefuses - 1) : x \in Nat /\ x < UsbRefuses
        BY DEF UsbRefuses
    <2> QED BY <2>1, <2>2
<1>7. ASSUME NEW n \in places
      PROVE  /\ ubModel.status[n] = "refused" <=> t[n - 1] + AskedBy(n) >= UsbRefuses
             /\ ubModel.status[n] = "ok" => t[n] <= UsbFits
             /\ ubModel.status[n] = "refused" => t[n] = t[n - 1]
             /\ ubModel.status[n] /= "refused" => t[n] = t[n - 1] + AskedBy(n)
    <2>1. n - 1 \in 0..last
        BY <1>4
    <2>2. t[n - 1] \in Nat /\ AskedBy(n) \in Nat
        BY <1>4, <1>6, <2>1
    <2>3. t[n] = Filled(t[n - 1], AskedBy(n)) /\ ubModel.status[n] = Outcome(t[n - 1] + AskedBy(n))
        BY <1>5
    <2> QED BY <2>2, <2>3 DEF Filled, Outcome, UsbFits, UsbRefuses
<1>8. IsFiniteSet(places)
    BY <1>4, FS_Interval, 1 \in Int, last \in Int
<1>9. /\ ReservedBy({}) = 0
      /\ \A s \in SUBSET places : \A x \in places \ s :
             ReservedBy(s \union {x}) = ReservedBy(s) + AskedBy(x)
    BY <1>4, <1>8, ReservedGrows
<1> DEFINE T == {n \in Nat : n <= last => ReservedBy(Started(n)) = t[n]}
<1>10. 0 \in T
    <2>1. Started(0) = {}
        BY DEF Started
    <2> QED BY <1>5, <1>9, <2>1
<1>11. ASSUME NEW n \in Nat, n \in T PROVE n + 1 \in T
    <2> SUFFICES ASSUME n + 1 <= last PROVE ReservedBy(Started(n + 1)) = t[n + 1]
        OBVIOUS
    <2>1. n + 1 \in places /\ (n + 1) - 1 = n /\ n <= last
        BY <1>4
    <2>2. ReservedBy(Started(n)) = t[n]
        BY <1>11, <2>1
    <2>3. \A m : m \in 1..(n + 1) <=> m \in 1..n \/ m = n + 1
        OBVIOUS
    <2>4. Started(n) \in SUBSET places /\ n + 1 \in places \ Started(n)
        BY <2>1 DEF Started
    <2>5. CASE ubModel.status[n + 1] = "refused"
        <3>1. Started(n + 1) = Started(n)
            BY <2>3, <2>5 DEF Started
        <3>2. t[n + 1] = t[n]
            BY <1>7, <2>1, <2>5
        <3> QED BY <2>2, <3>1, <3>2
    <2>6. CASE ubModel.status[n + 1] /= "refused"
        <3>1. Started(n + 1) = Started(n) \union {n + 1}
            BY <2>3, <2>6 DEF Started
        <3>2. ReservedBy(Started(n) \union {n + 1}) = ReservedBy(Started(n)) + AskedBy(n + 1)
            BY <1>9, <2>4
        <3>3. t[n + 1] = t[n] + AskedBy(n + 1)
            BY <1>7, <2>1, <2>6
        <3> QED BY <2>2, <3>1, <3>2, <3>3
    <2> QED BY <2>5, <2>6
<1>12. \A n \in 0..last : ReservedBy(Started(n)) = t[n]
    <2>1. \A n \in Nat : n \in T
        <3> HIDE DEF T
        <3> QED BY <1>10, <1>11, EveryNatural
    <2> QED BY <1>4, <2>1
<1>13. ASSUME NEW n \in 1..Len(ubLine)
       PROVE  /\ ubModel.status[n] = "refused"
                     <=> ReservedBy(Started(n - 1)) + ubCams[ubLine[n]].alloc >= UsbRefuses
              /\ ubModel.status[n] = "ok" => ReservedBy(Started(n)) <= UsbFits
    <2>1. n \in places /\ n - 1 \in 0..last /\ n \in 0..last
        BY <1>4 DEF last
    <2>2. ReservedBy(Started(n - 1)) = t[n - 1] /\ ReservedBy(Started(n)) = t[n]
        BY <1>12, <2>1
    <2> QED BY <1>7, <2>1, <2>2 DEF AskedBy
<1>14. /\ Len(ubModel.status) = Len(ubLine)
       /\ ubModel.total = ReservedBy(Started(Len(ubLine))) /\ ubModel.total < UsbRefuses
    <2>1. last \in 0..last
        BY <1>4
    <2> QED BY <1>5, <1>6, <1>12, <2>1 DEF last
<1>15. \A i \in ToSet(ubLine) : ubCams[i].alloc \in ToSet(CamAllocs(ubCams[i].type))
    <2>1. ToSet(ubLine) = ItemsOf(ubLine)
        BY <1>1, ItemsAreOf
    <2> QED BY <1>1, <2>1 DEF OwnAllocs
<1>16. ubTouched = 0 =>
           ("refused" \in ToSet(ubModel.status)) = (ubPreset \in {"stock3", "usbc", "greedy"})
    <2> SUFFICES ASSUME ubTouched = 0
                 PROVE  ("refused" \in ToSet(ubModel.status)) = (ubPreset \in {"stock3", "usbc", "greedy"})
        OBVIOUS
    <2>1. ubPreset \in DOMAIN UsbPresets /\ ubModel = Evaluate(PresetCams(ubPreset), PresetLine(ubPreset))
        BY DEF UsbInv
    <2>2. Refused(ubModel) <=> ubPreset \in Greedy
        BY <2>1, PresetsRefuse
    <2> QED BY <2>2 DEF Refused, Greedy
<1> QED BY <1>13, <1>14, <1>15, <1>16 DEF UsbTableTrue

-----------------------------------------------------------------------------
(* Publish and subscribe (ch/15-networktables.js): how a frame moves the messages, and why that  *)
(* keeps those of a topic in order, on a display whose frames take the same time each.            *)

NtTopics == {"raw", "has", "pir", "pis", "rec"}
NtMessages == [topic : NtTopics, value : Nat, leg : 1..2, age : Nat, then : Thens]

\* A message on its way: within its leg, and only a request has something to be done then.
OnItsWay(f) ==
    /\ f.age < NtLegs[f.leg]
    /\ f.topic = "pir" => f.then = f.value
    /\ f.topic /= "pir" => f.then = Nothing

\* Message i of q is shown before message j: it is further on, or has the loop reach it first where
\* they land, which is behind on the second leg, and before on the first, after which they turn.
Sooner(q, i, j) ==
    \/ q[i].leg > q[j].leg
    \/ q[i].leg = q[j].leg /\ q[i].age > q[j].age
    \/ q[i].leg = q[j].leg /\ q[i].age = q[j].age /\ q[i].leg = 1 /\ i < j
    \/ q[i].leg = q[j].leg /\ q[i].age = q[j].age /\ q[i].leg = 2 /\ i > j

\* The message of a topic that is shown last of those on their way.
LastShown(q, k, i) ==
    /\ i \in 1..Len(q) /\ q[i].topic = k
    /\ \A j \in 1..Len(q) : q[j].topic = k /\ j /= i => Sooner(q, j, i)

NoneOf(q, k) == \A i \in 1..Len(q) : q[i].topic /= k

\* What the topic will show once all have landed.
WillShow(q, topics, k, v) ==
    \/ \E i : LastShown(q, k, i) /\ q[i].value = v
    \/ NoneOf(q, k) /\ topics[k] = v

\* NtMessages were sent a frame apart or more, or between the same two frames.
Spaced(q, d) ==
    \A i \in 1..Len(q) : /\ q[i].age = 0 \/ q[i].age >= d
                         /\ \A j \in 1..Len(q) : \/ q[i].age = q[j].age
                                                 \/ q[i].age >= q[j].age + d
                                                 \/ q[j].age >= q[i].age + d

\* A result's two messages fly side by side.
Twins(f, g) ==
    /\ f.topic = "raw" /\ g.topic = "has" /\ g.value = SawTag(f.value)
    /\ f.leg = g.leg /\ f.age = g.age
BesideItsTwin(q, i) ==
    LET up == i + 1  down == i - 1
    IN  /\ q[i].topic = "raw" /\ q[i].leg = 1 => up \in 1..Len(q) /\ Twins(q[i], q[up])
        /\ q[i].topic = "raw" /\ q[i].leg = 2 => down \in 1..Len(q) /\ Twins(q[i], q[down])
        /\ q[i].topic = "has" /\ q[i].leg = 1 => down \in 1..Len(q) /\ Twins(q[down], q[i])
        /\ q[i].topic = "has" /\ q[i].leg = 2 => up \in 1..Len(q) /\ Twins(q[up], q[i])
InTwos(q) == \A i \in 1..Len(q) : BesideItsTwin(q, i)

\* The timeouts still to run end with an answer v, or none of them answers and the state is v.
WillAnswer(timers, q, topics, v) ==
    \/ \E i \in 1..Len(timers) : /\ timers[i] = v
                                 /\ \A j \in 1..Len(timers) : j > i => timers[j] = Nothing
    \/ /\ \A j \in 1..Len(timers) : timers[j] = Nothing
       /\ WillShow(q, topics, "pis", v)

\* The topics the two buttons set.
Toggles == {"pir", "rec"}

PubsubInv ==
    /\ ntFlights \in Seq(NtMessages) /\ \A i \in 1..Len(ntFlights) : OnItsWay(ntFlights[i])
    /\ ntTimers \in Seq(Thens) /\ ntSeq \in Nat /\ ntAuto \in 0..4
    /\ ntPace \subseteq NtSteps
    /\ ntTopics \in [NtTopics -> Nat]
    /\ \A k \in Toggles : ntTopics[k] \in 0..1
    /\ \A i \in 1..Len(ntFlights) : ntFlights[i].topic \in Toggles => ntFlights[i].value \in 0..1
    /\ InTwos(ntFlights) /\ ntTopics["has"] = SawTag(ntTopics["raw"])
    /\ \A d \in NtSteps : ntPace = {d} =>
           /\ Spaced(ntFlights, d)
           /\ WillShow(ntFlights, ntTopics, "raw", ntSeq)
           /\ NoneOf(ntFlights, "pir") => WillAnswer(ntTimers, ntFlights, ntTopics, ntTopics["pir"])

\* How a frame of d ticks makes the messages r from q: item n of r is item from[n] of q.  The
\* first m of them fly on, in their order; the others have turned, in the opposite one.
FrameMoves(q, r, d, from, m) ==
    /\ from \in [1..Len(r) -> 1..Len(q)] /\ m \in 0..Len(r)
    /\ \A n \in 1..Len(r) :
          /\ r[n].topic = q[from[n]].topic /\ r[n].value = q[from[n]].value
          /\ r[n].then = q[from[n]].then
          /\ n <= m => /\ q[from[n]].age + d < NtLegs[q[from[n]].leg]
                       /\ r[n].leg = q[from[n]].leg /\ r[n].age = q[from[n]].age + d
          /\ n > m => /\ q[from[n]].age + d >= NtLegs[1]
                      /\ q[from[n]].leg = 1 /\ r[n].leg = 2 /\ r[n].age = 0
    /\ \A n, l \in 1..Len(r) : /\ n < l /\ l <= m => from[n] < from[l]
                               /\ m < n /\ n < l => from[n] > from[l]
    /\ \A i \in 1..Len(q) : q[i].leg = 1 \/ q[i].age + d < NtLegs[2] => \E n \in 1..Len(r) : from[n] = i

\* Those that land, in the order they are handled.
FrameLands(q, landed, d, from) ==
    /\ from \in [1..Len(landed) -> 1..Len(q)]
    /\ \A n \in 1..Len(landed) :
          /\ landed[n].topic = q[from[n]].topic /\ landed[n].value = q[from[n]].value
          /\ landed[n].then = q[from[n]].then
          /\ q[from[n]].leg = 2 /\ q[from[n]].age + d >= NtLegs[2]
    /\ \A n, l \in 1..Len(landed) : n < l => from[n] > from[l]
    /\ \A i \in 1..Len(q) : q[i].leg = 2 /\ q[i].age + d >= NtLegs[2] =>
                                \E n \in 1..Len(landed) : from[n] = i

\* A leg takes time, and so does a frame.
LEMMA LegsAre == /\ NtLegs[1] \in Nat \ {0} /\ NtLegs[2] \in Nat \ {0}
                 /\ \A d \in NtSteps : d \in Nat \ {0}
<1>1. NtLegs \in Seq(Nat \ {0}) /\ Len(NtLegs) = 2 /\ NtSteps \subseteq Nat \ {0}
    BY NetworktablesAssumption
<1>2. 1 \in 1..Len(NtLegs) /\ 2 \in 1..Len(NtLegs)
    BY <1>1
<1>3. \A S : \A s \in Seq(S) : \A i \in 1..Len(s) : s[i] \in S
    OBVIOUS
<1> QED BY <1>1, <1>2, <1>3

\* The messages of q a frame later.
FrameOn(q, d) == [i \in 1..Len(q) |-> Aged(q[i], d)]

\* A frame makes each message older and changes nothing else of it.
LEMMA MovedAre ==
    ASSUME NEW q \in Seq(NtMessages), NEW d \in Nat
    PROVE  /\ FrameOn(q, d) \in Seq(NtMessages) /\ Len(FrameOn(q, d)) = Len(q)
           /\ \A i \in 1..Len(q) :
                 /\ FrameOn(q, d)[i].topic = q[i].topic /\ FrameOn(q, d)[i].value = q[i].value
                 /\ FrameOn(q, d)[i].then = q[i].then /\ FrameOn(q, d)[i].leg = q[i].leg
                 /\ FrameOn(q, d)[i].age = q[i].age + d
<1>1. ASSUME NEW i \in 1..Len(q)
      PROVE  /\ Aged(q[i], d) \in NtMessages
             /\ Aged(q[i], d).topic = q[i].topic /\ Aged(q[i], d).value = q[i].value
             /\ Aged(q[i], d).then = q[i].then /\ Aged(q[i], d).leg = q[i].leg
             /\ Aged(q[i], d).age = q[i].age + d
    <2>1. q[i] \in NtMessages
        OBVIOUS
    <2> DEFINE f == q[i]  g == Aged(f, d)
    <2>2. /\ f.topic \in NtTopics /\ f.value \in Nat /\ f.leg \in 1..2 /\ f.age \in Nat
          /\ f.then \in Thens
        BY <2>1 DEF NtMessages
    <2>3. g = [f EXCEPT !.age = f.age + d]
        BY DEF Aged
    <2>4. f.age + d \in Nat
        BY <2>2
    <2>5. g \in NtMessages
        BY <2>1, <2>3, <2>4 DEF NtMessages
    <2>6. g.topic = f.topic /\ g.value = f.value /\ g.then = f.then /\ g.leg = f.leg
        BY <2>1, <2>3, <2>5 DEF NtMessages
    <2>7. g.age = f.age + d
        BY <2>1, <2>3 DEF NtMessages
    <2> QED BY <2>5, <2>6, <2>7
<1>2. Len(q) \in Nat
    OBVIOUS
<1> QED BY <1>1, <1>2 DEF FrameOn

\* A sequence read from its end.
LEMMA ReadBack ==
    ASSUME NEW T, NEW q \in Seq(T)
    PROVE  /\ Reverse(q) \in Seq(T) /\ Len(Reverse(q)) = Len(q)
           /\ \A n \in 1..Len(q) : /\ Reverse(q)[n] = q[Len(q) - n + 1]
                                   /\ Len(q) - n + 1 \in 1..Len(q)
<1>1. Len(q) \in Nat
    OBVIOUS
<1>2. \A n \in 1..Len(q) : Len(q) - n + 1 \in 1..Len(q)
    BY <1>1
<1> QED BY <1>1, <1>2 DEF Reverse

\* Which of them end a leg.
LEMMA EndingAre ==
    ASSUME NEW s \in Seq(NtMessages), NEW i \in 1..Len(s)
    PROVE  /\ \A leg : s[i] \in Ending(s, leg) <=> s[i].leg = leg /\ s[i].age >= NtLegs[leg]
           /\ s[i] \in ToSet(s)
BY DEF Ending, ToSet

\* Those that land.
LEMMA LandedAre ==
    ASSUME NEW q \in Seq(NtMessages), NEW d \in NtSteps
    PROVE  /\ Landed(FrameOn(q, d)) \in Seq(NtMessages)
           /\ \E from : FrameLands(q, Landed(FrameOn(q, d)), d, from)
<1> DEFINE s == FrameOn(q, d)
           left == Only(s, Ending(s, 2))
           landed == Reverse(left)
<1>1. d \in Nat
    BY LegsAre
<1>2. /\ s \in Seq(NtMessages) /\ Len(s) = Len(q) /\ Len(q) \in Nat
      /\ \A i \in 1..Len(q) :
            /\ s[i].topic = q[i].topic /\ s[i].value = q[i].value
            /\ s[i].then = q[i].then /\ s[i].leg = q[i].leg /\ s[i].age = q[i].age + d
    BY <1>1, MovedAre
<1> HIDE DEF s
<1>3. left \in Seq(NtMessages) /\ \E e : Picks(e, left, s, Ending(s, 2), Len(s))
    BY <1>2, OnlyInOrder
<1>4. PICK e : Picks(e, left, s, Ending(s, 2), Len(s))
    BY <1>3
<1> HIDE DEF left
<1>5. /\ landed \in Seq(NtMessages) /\ Len(landed) = Len(left) /\ Len(left) \in Nat
      /\ \A n \in 1..Len(left) : landed[n] = left[Len(left) - n + 1] /\ Len(left) - n + 1 \in 1..Len(left)
    BY <1>3, ReadBack
<1> HIDE DEF landed
<1> DEFINE from == [n \in 1..Len(landed) |-> e[Len(left) - n + 1]]
<1>6. from \in [1..Len(landed) -> 1..Len(q)]
    BY <1>2, <1>4, <1>5 DEF Picks
<1>7. \A n \in 1..Len(landed) : from[n] = e[Len(left) - n + 1]
    OBVIOUS
<1> HIDE DEF from
<1>8. ASSUME NEW n \in 1..Len(landed)
      PROVE  /\ landed[n].topic = q[from[n]].topic /\ landed[n].value = q[from[n]].value
             /\ landed[n].then = q[from[n]].then
             /\ q[from[n]].leg = 2 /\ q[from[n]].age + d >= NtLegs[2]
    <2>1. from[n] \in 1..Len(q) /\ landed[n] = s[from[n]] /\ s[from[n]] \in Ending(s, 2)
        BY <1>4, <1>5, <1>6, <1>7 DEF Picks
    <2>2. s[from[n]].leg = 2 /\ s[from[n]].age >= NtLegs[2]
        BY <2>1 DEF Ending
    <2> QED BY <1>2, <2>1, <2>2
<1>9. ASSUME NEW n \in 1..Len(landed), NEW l \in 1..Len(landed), n < l PROVE from[n] > from[l]
    <2>1. Len(left) - l + 1 < Len(left) - n + 1
        BY <1>5, <1>9
    <2>2. e[Len(left) - l + 1] < e[Len(left) - n + 1]
        BY <1>4, <1>5, <2>1 DEF Picks
    <2>3. from[n] \in Nat /\ from[l] \in Nat
        BY <1>6
    <2> QED BY <1>7, <2>2, <2>3
<1>10. ASSUME NEW i \in 1..Len(q), q[i].leg = 2, q[i].age + d >= NtLegs[2]
       PROVE  \E n \in 1..Len(landed) : from[n] = i
    <2>1. s[i] \in Ending(s, 2)
        BY <1>2, <1>10, EndingAre
    <2>2. PICK l \in 1..Len(left) : e[l] = i
        BY <1>2, <1>4, <2>1 DEF Picks
    <2> DEFINE n == Len(left) - l + 1
    <2>3. n \in 1..Len(landed) /\ Len(left) - n + 1 = l
        BY <1>5
    <2> QED BY <1>7, <2>2, <2>3
<1>11. FrameLands(q, landed, d, from)
    BY <1>6, <1>8, <1>9, <1>10 DEF FrameLands
<1>12. Landed(s) = landed
    BY DEF Landed, landed, left
<1> QED BY <1>5, <1>11, <1>12 DEF s

\* Those that turn.
LEMMA TurnedAre ==
    ASSUME NEW q \in Seq(NtMessages), NEW d \in NtSteps
    PROVE  LET r == SecondLegs(FrameOn(q, d))
           IN  /\ r \in Seq(NtMessages)
               /\ \E from \in [1..Len(r) -> 1..Len(q)] :
                     /\ \A n \in 1..Len(r) :
                           /\ r[n].topic = q[from[n]].topic /\ r[n].value = q[from[n]].value
                           /\ r[n].then = q[from[n]].then /\ r[n].leg = 2 /\ r[n].age = 0
                           /\ q[from[n]].leg = 1 /\ q[from[n]].age + d >= NtLegs[1]
                     /\ \A n, l \in 1..Len(r) : n < l => from[n] > from[l]
                     /\ \A i \in 1..Len(q) : q[i].leg = 1 /\ q[i].age + d >= NtLegs[1] =>
                                                 \E n \in 1..Len(r) : from[n] = i
<1> DEFINE s == FrameOn(q, d)
           left == Only(s, Ending(s, 1))
           handled == Reverse(left)
           r == SecondLegs(s)
<1>1. d \in Nat
    BY LegsAre
<1>2. /\ s \in Seq(NtMessages) /\ Len(s) = Len(q) /\ Len(q) \in Nat
      /\ \A i \in 1..Len(q) :
            /\ s[i].topic = q[i].topic /\ s[i].value = q[i].value
            /\ s[i].then = q[i].then /\ s[i].leg = q[i].leg /\ s[i].age = q[i].age + d
    BY <1>1, MovedAre
<1> HIDE DEF s
<1>3. left \in Seq(NtMessages) /\ \E e : Picks(e, left, s, Ending(s, 1), Len(s))
    BY <1>2, OnlyInOrder
<1>4. PICK e : Picks(e, left, s, Ending(s, 1), Len(s))
    BY <1>3
<1> HIDE DEF left
<1>5. /\ handled \in Seq(NtMessages) /\ Len(handled) = Len(left) /\ Len(left) \in Nat
      /\ \A n \in 1..Len(left) : handled[n] = left[Len(left) - n + 1] /\ Len(left) - n + 1 \in 1..Len(left)
    BY <1>3, ReadBack
<1> DEFINE turn(f) == [f EXCEPT !.leg = 2, !.age = 0]
<1>6. r = [n \in DOMAIN handled |-> turn(handled[n])]
    BY DEF SecondLegs, left
<1> HIDE DEF handled, r
<1>7. ASSUME NEW f \in NtMessages
      PROVE  /\ turn(f) \in NtMessages /\ turn(f).topic = f.topic /\ turn(f).value = f.value
             /\ turn(f).then = f.then /\ turn(f).leg = 2 /\ turn(f).age = 0
    <2> DEFINE h == [f EXCEPT !.leg = 2]  g == [h EXCEPT !.age = 0]
    <2>1. h \in NtMessages /\ h.leg = 2
        BY DEF NtMessages
    <2>2. h.topic = f.topic /\ h.value = f.value /\ h.then = f.then
        BY <2>1 DEF NtMessages
    <2>3. turn(f) = g
        OBVIOUS
    <2> HIDE DEF h
    <2>4. g \in NtMessages /\ g.age = 0
        BY <2>1 DEF NtMessages
    <2>5. g.topic = h.topic /\ g.value = h.value /\ g.then = h.then /\ g.leg = h.leg
        BY <2>1, <2>4 DEF NtMessages
    <2> HIDE DEF g, turn
    <2> QED BY <2>1, <2>2, <2>3, <2>4, <2>5
<1> HIDE DEF turn
<1>8. DOMAIN handled = 1..Len(left) /\ \A n \in 1..Len(left) : handled[n] \in NtMessages
    BY <1>5
<1>9. \A n \in 1..Len(left) : r[n] = turn(handled[n])
    BY <1>6, <1>8
<1>10. \A n \in 1..Len(left) :
          /\ r[n] \in NtMessages /\ r[n].topic = handled[n].topic /\ r[n].value = handled[n].value
          /\ r[n].then = handled[n].then /\ r[n].leg = 2 /\ r[n].age = 0
    BY <1>7, <1>8, <1>9
<1>11. r \in Seq(NtMessages) /\ Len(r) = Len(left)
    <2>1. r \in [1..Len(left) -> NtMessages]
        BY <1>6, <1>8, <1>10
    <2> QED BY <1>5, <2>1
<1> DEFINE from == [n \in 1..Len(r) |-> e[Len(left) - n + 1]]
<1>12. from \in [1..Len(r) -> 1..Len(q)]
    BY <1>2, <1>4, <1>5, <1>11 DEF Picks
<1>13. \A n \in 1..Len(r) : from[n] = e[Len(left) - n + 1]
    OBVIOUS
<1> HIDE DEF from
<1>14. ASSUME NEW n \in 1..Len(r)
       PROVE  /\ r[n].topic = q[from[n]].topic /\ r[n].value = q[from[n]].value
              /\ r[n].then = q[from[n]].then /\ r[n].leg = 2 /\ r[n].age = 0
              /\ q[from[n]].leg = 1 /\ q[from[n]].age + d >= NtLegs[1]
    <2>1. from[n] \in 1..Len(q) /\ handled[n] = s[from[n]] /\ s[from[n]] \in Ending(s, 1)
        BY <1>4, <1>5, <1>11, <1>12, <1>13 DEF Picks
    <2>2. s[from[n]].leg = 1 /\ s[from[n]].age >= NtLegs[1]
        BY <2>1 DEF Ending
    <2> QED BY <1>2, <1>10, <1>11, <2>1, <2>2
<1>15. ASSUME NEW n \in 1..Len(r), NEW l \in 1..Len(r), n < l PROVE from[n] > from[l]
    <2>1. Len(left) - l + 1 < Len(left) - n + 1
        BY <1>5, <1>11, <1>15
    <2>2. e[Len(left) - l + 1] < e[Len(left) - n + 1]
        BY <1>4, <1>5, <1>11, <2>1 DEF Picks
    <2>3. from[n] \in Nat /\ from[l] \in Nat
        BY <1>12
    <2> QED BY <1>13, <2>2, <2>3
<1>16. ASSUME NEW i \in 1..Len(q), q[i].leg = 1, q[i].age + d >= NtLegs[1]
       PROVE  \E n \in 1..Len(r) : from[n] = i
    <2>1. s[i] \in Ending(s, 1)
        BY <1>2, <1>16, EndingAre
    <2>2. PICK l \in 1..Len(left) : e[l] = i
        BY <1>2, <1>4, <2>1 DEF Picks
    <2> DEFINE n == Len(left) - l + 1
    <2>3. n \in 1..Len(r) /\ Len(left) - n + 1 = l
        BY <1>5, <1>11
    <2> QED BY <1>13, <2>2, <2>3
<1>17. /\ r \in Seq(NtMessages)
       /\ \E src \in [1..Len(r) -> 1..Len(q)] :
             /\ \A n \in 1..Len(r) :
                   /\ r[n].topic = q[src[n]].topic /\ r[n].value = q[src[n]].value
                   /\ r[n].then = q[src[n]].then /\ r[n].leg = 2 /\ r[n].age = 0
                   /\ q[src[n]].leg = 1 /\ q[src[n]].age + d >= NtLegs[1]
             /\ \A n, l \in 1..Len(r) : n < l => src[n] > src[l]
             /\ \A i \in 1..Len(q) : q[i].leg = 1 /\ q[i].age + d >= NtLegs[1] =>
                                         \E n \in 1..Len(r) : src[n] = i
    BY <1>11, <1>12, <1>14, <1>15, <1>16
<1> QED BY <1>17 DEF r, s

\* Those that fly on, with those that turned behind them.
LEMMA FlyingAre ==
    ASSUME NEW q \in Seq(NtMessages), NEW d \in NtSteps
    PROVE  LET r == Flying(FrameOn(q, d)) \o SecondLegs(FrameOn(q, d))
           IN  r \in Seq(NtMessages) /\ \E from, m : FrameMoves(q, r, d, from, m)
<1> DEFINE s == FrameOn(q, d)
           on == Only(s, ToSet(s) \ (Ending(s, 1) \cup Ending(s, 2)))
           back == SecondLegs(s)
           r == on \o back
<1>1. d \in Nat
    BY LegsAre
<1>2. /\ s \in Seq(NtMessages) /\ Len(s) = Len(q) /\ Len(q) \in Nat
      /\ \A i \in 1..Len(q) :
            /\ s[i].topic = q[i].topic /\ s[i].value = q[i].value
            /\ s[i].then = q[i].then /\ s[i].leg = q[i].leg /\ s[i].age = q[i].age + d
    BY <1>1, MovedAre
<1>3. /\ back \in Seq(NtMessages)
      /\ \E f \in [1..Len(back) -> 1..Len(q)] :
            /\ \A n \in 1..Len(back) :
                  /\ back[n].topic = q[f[n]].topic /\ back[n].value = q[f[n]].value
                  /\ back[n].then = q[f[n]].then /\ back[n].leg = 2 /\ back[n].age = 0
                  /\ q[f[n]].leg = 1 /\ q[f[n]].age + d >= NtLegs[1]
            /\ \A n, l \in 1..Len(back) : n < l => f[n] > f[l]
            /\ \A i \in 1..Len(q) : q[i].leg = 1 /\ q[i].age + d >= NtLegs[1] =>
                                        \E n \in 1..Len(back) : f[n] = i
    BY TurnedAre
<1> HIDE DEF back, s
<1>4. PICK f \in [1..Len(back) -> 1..Len(q)] :
            /\ \A n \in 1..Len(back) :
                  /\ back[n].topic = q[f[n]].topic /\ back[n].value = q[f[n]].value
                  /\ back[n].then = q[f[n]].then /\ back[n].leg = 2 /\ back[n].age = 0
                  /\ q[f[n]].leg = 1 /\ q[f[n]].age + d >= NtLegs[1]
            /\ \A n, l \in 1..Len(back) : n < l => f[n] > f[l]
            /\ \A i \in 1..Len(q) : q[i].leg = 1 /\ q[i].age + d >= NtLegs[1] =>
                                        \E n \in 1..Len(back) : f[n] = i
    BY <1>3
<1> DEFINE stays == ToSet(s) \ (Ending(s, 1) \cup Ending(s, 2))
<1>5. on \in Seq(NtMessages) /\ \E e : Picks(e, on, s, stays, Len(s))
    BY <1>2, OnlyInOrder
<1>6. PICK e : Picks(e, on, s, stays, Len(s))
    BY <1>5
<1>20. \A i \in 1..Len(q) : q[i] \in NtMessages
    OBVIOUS
<1>7. \A i \in 1..Len(q) : s[i] \in stays <=> q[i].age + d < NtLegs[q[i].leg]
    <2> SUFFICES ASSUME NEW i \in 1..Len(q) PROVE s[i] \in stays <=> q[i].age + d < NtLegs[q[i].leg]
        OBVIOUS
    <2>1. /\ \A leg : s[i] \in Ending(s, leg) <=> s[i].leg = leg /\ s[i].age >= NtLegs[leg]
          /\ s[i] \in ToSet(s)
        BY <1>2, EndingAre
    <2>2. q[i].leg \in 1..2 /\ q[i].age \in Nat
        BY <1>20 DEF NtMessages
    <2>3. NtLegs[1] \in Nat /\ NtLegs[2] \in Nat
        BY LegsAre
    <2>4. q[i].leg = 1 \/ q[i].leg = 2
        BY <2>2
    <2> QED BY <1>1, <1>2, <2>1, <2>2, <2>3, <2>4
<1> HIDE DEF on, stays
<1>8. /\ r \in Seq(NtMessages) /\ Len(r) = Len(on) + Len(back)
      /\ Len(on) \in Nat /\ Len(back) \in Nat
      /\ \A n \in 1..Len(on) : r[n] = on[n]
      /\ \A n \in 1..Len(back) : r[Len(on) + n] = back[n]
    BY <1>3, <1>5
<1> HIDE DEF r
<1> DEFINE m == Len(on)
           from == [n \in 1..Len(r) |-> IF n <= m THEN e[n] ELSE f[n - m]]
<1>9. /\ \A n \in 1..m : n \in 1..Len(r) /\ from[n] = e[n] /\ from[n] \in 1..Len(q)
                         /\ r[n] = s[from[n]] /\ s[from[n]] \in stays
      /\ \A n \in 1..Len(back) : m + n \in 1..Len(r) /\ from[m + n] = f[n] /\ from[m + n] \in 1..Len(q)
                                 /\ r[m + n] = back[n]
    <2>1. \A n \in 1..m : n \in 1..Len(r) /\ n <= m
        BY <1>8
    <2>2. \A n \in 1..Len(back) : m + n \in 1..Len(r) /\ ~(m + n <= m) /\ (m + n) - m = n
        BY <1>8
    <2>3. \A n \in 1..m : e[n] \in 1..Len(q) /\ on[n] = s[e[n]] /\ s[e[n]] \in stays
        BY <1>2, <1>6 DEF Picks
    <2> QED BY <1>4, <1>8, <2>1, <2>2, <2>3
<1>10. \A n \in 1..Len(r) : \/ n \in 1..m /\ n <= m
                            \/ n > m /\ n - m \in 1..Len(back) /\ n = m + (n - m)
    BY <1>8
<1>11. from \in [1..Len(r) -> 1..Len(q)]
    <2>1. \A n \in 1..Len(r) : from[n] \in 1..Len(q)
        <3> HIDE DEF from, m
        <3> QED BY <1>9, <1>10
    <2> QED BY <2>1
<1> HIDE DEF from
<1>12. ASSUME NEW n \in 1..Len(r)
       PROVE  /\ r[n].topic = q[from[n]].topic /\ r[n].value = q[from[n]].value
              /\ r[n].then = q[from[n]].then
              /\ n <= m => /\ q[from[n]].age + d < NtLegs[q[from[n]].leg]
                           /\ r[n].leg = q[from[n]].leg /\ r[n].age = q[from[n]].age + d
              /\ n > m => /\ q[from[n]].age + d >= NtLegs[1]
                          /\ q[from[n]].leg = 1 /\ r[n].leg = 2 /\ r[n].age = 0
    <2>1. CASE n \in 1..m /\ n <= m
        <3>1. from[n] \in 1..Len(q) /\ r[n] = s[from[n]] /\ s[from[n]] \in stays /\ ~(n > m)
            BY <1>8, <1>9, <2>1
        <3> QED BY <1>2, <1>7, <3>1
    <2>2. CASE n > m /\ n - m \in 1..Len(back) /\ n = m + (n - m)
        <3> DEFINE l == n - m
        <3>1. from[n] = f[l] /\ r[n] = back[l] /\ ~(n <= m)
            BY <1>8, <1>9, <2>2
        <3>2. l \in 1..Len(back)
            BY <2>2
        <3> HIDE DEF l
        <3> QED BY <1>4, <2>2, <3>1, <3>2
    <2> QED BY <1>10, <2>1, <2>2
<1>13. ASSUME NEW n \in 1..Len(r), NEW l \in 1..Len(r)
       PROVE  /\ n < l /\ l <= m => from[n] < from[l]
              /\ m < n /\ n < l => from[n] > from[l]
    <2>1. CASE n < l /\ l <= m
        <3>1. n \in 1..m /\ l \in 1..m /\ ~(m < n)
            BY <1>8, <2>1
        <3> QED BY <1>6, <1>9, <2>1, <3>1 DEF Picks
    <2>2. CASE m < n /\ n < l
        <3>1. /\ n - m \in 1..Len(back) /\ l - m \in 1..Len(back) /\ n - m < l - m
              /\ n = m + (n - m) /\ l = m + (l - m) /\ ~(l <= m)
            BY <1>8, <2>2
        <3> DEFINE a == n - m  b == l - m
        <3>2. a \in 1..Len(back) /\ b \in 1..Len(back) /\ a < b /\ n = m + a /\ l = m + b
            BY <3>1
        <3>3. ~(l <= m)
            BY <3>1
        <3> HIDE DEF a, b, m
        <3>4. from[n] = f[a] /\ from[l] = f[b]
            BY <1>9, <3>2
        <3>5. f[a] > f[b]
            BY <1>4, <3>2
        <3> QED BY <3>3, <3>4, <3>5
    <2> QED BY <2>1, <2>2
<1>14. ASSUME NEW i \in 1..Len(q), q[i].leg = 1 \/ q[i].age + d < NtLegs[2]
       PROVE  \E n \in 1..Len(r) : from[n] = i
    <2>1. CASE s[i] \in stays
        <3>1. PICK n \in 1..m : e[n] = i
            BY <1>2, <1>6, <2>1 DEF Picks
        <3> QED BY <1>9, <3>1
    <2>2. CASE s[i] \notin stays
        <3>1. q[i].leg \in 1..2 /\ q[i].age \in Nat /\ NtLegs[1] \in Nat /\ NtLegs[2] \in Nat
            BY <1>20, LegsAre DEF NtMessages
        <3>2. q[i].leg = 1 /\ q[i].age + d >= NtLegs[1]
            BY <1>1, <1>7, <1>14, <2>2, <3>1
        <3>3. PICK n \in 1..Len(back) : f[n] = i
            BY <1>4, <3>2
        <3> QED BY <1>9, <3>3
    <2> QED BY <2>1, <2>2
<1>15. m \in 0..Len(r)
    BY <1>8
<1> HIDE DEF m
<1>16. FrameMoves(q, r, d, from, m)
    BY <1>11, <1>12, <1>13, <1>14, <1>15 DEF FrameMoves
<1>17. Flying(s) = on
    BY DEF Flying, on
<1> QED BY <1>8, <1>16, <1>17 DEF r, back, s

\* The messages' parts are what they should be.
LEMMA PartsOf ==
    ASSUME NEW q \in Seq(NtMessages), NEW i \in 1..Len(q)
    PROVE  /\ q[i] \in NtMessages /\ q[i].topic \in NtTopics /\ q[i].value \in Nat
           /\ q[i].leg \in {1, 2} /\ q[i].age \in Nat /\ q[i].then \in Thens
<1>1. q[i] \in NtMessages
    OBVIOUS
<1> QED BY <1>1 DEF NtMessages

\* No two of the messages are the same one before.
LEMMA MovesOnce ==
    ASSUME NEW q \in Seq(NtMessages), NEW r \in Seq(NtMessages), NEW d \in NtSteps, NEW from, NEW m,
           FrameMoves(q, r, d, from, m), NEW a \in 1..Len(r), NEW b \in 1..Len(r), a /= b
    PROVE  from[a] /= from[b]
<1>1. /\ from[a] \in 1..Len(q) /\ from[b] \in 1..Len(q) /\ m \in Nat /\ Len(q) \in Nat /\ d \in Nat
      /\ NtLegs[1] \in Nat
    <2>1. from \in [1..Len(r) -> 1..Len(q)] /\ m \in 0..Len(r)
        BY DEF FrameMoves
    <2>2. Len(r) \in Nat /\ Len(q) \in Nat
        OBVIOUS
    <2> QED BY <2>1, <2>2, LegsAre
<1>2. CASE a <= m /\ b <= m
    BY <1>1, <1>2 DEF FrameMoves
<1>3. CASE a > m /\ b > m
    BY <1>1, <1>3 DEF FrameMoves
<1>4. ASSUME NEW x \in 1..Len(r), NEW y \in 1..Len(r), x <= m, y > m PROVE from[x] /= from[y]
    <2>1. q[from[x]].age + d < NtLegs[q[from[x]].leg] /\ q[from[y]].age + d >= NtLegs[1] /\ q[from[y]].leg = 1
        BY <1>4 DEF FrameMoves
    <2>2. from[y] \in 1..Len(q)
        BY <1>4 DEF FrameMoves
    <2>3. q[from[y]].age \in Nat
        BY <2>2, PartsOf
    <2> SUFFICES ASSUME from[x] = from[y] PROVE FALSE
        OBVIOUS
    <2>4. q[from[x]] = q[from[y]]
        OBVIOUS
    <2>5. q[from[y]].age + d < NtLegs[1]
        BY <2>1, <2>4
    <2> QED BY <1>1, <2>1, <2>3, <2>5
<1> QED BY <1>1, <1>2, <1>3, <1>4

\* A frame lets no message of a topic pass another.
LEMMA FrameKeepsOrder ==
    ASSUME NEW q \in Seq(NtMessages), NEW r \in Seq(NtMessages), NEW d \in NtSteps, NEW from, NEW m,
           FrameMoves(q, r, d, from, m), Spaced(q, d), \A i \in 1..Len(q) : OnItsWay(q[i]),
           NEW a \in 1..Len(r), NEW b \in 1..Len(r), a /= b, Sooner(q, from[a], from[b])
    PROVE  Sooner(r, a, b)
<1> DEFINE i == from[a]  j == from[b]
<1>1. /\ i \in 1..Len(q) /\ j \in 1..Len(q) /\ m \in Nat /\ d \in Nat \ {0}
      /\ NtLegs[1] \in Nat /\ NtLegs[2] \in Nat /\ Len(q) \in Nat
    <2>1. from \in [1..Len(r) -> 1..Len(q)] /\ m \in 0..Len(r)
        BY DEF FrameMoves
    <2>2. Len(r) \in Nat /\ Len(q) \in Nat
        OBVIOUS
    <2> QED BY <2>1, <2>2, LegsAre
<1>2. /\ q[i].leg \in {1, 2} /\ q[i].age \in Nat /\ q[j].leg \in {1, 2} /\ q[j].age \in Nat
      /\ r[a].leg \in {1, 2} /\ r[a].age \in Nat /\ r[b].leg \in {1, 2} /\ r[b].age \in Nat
    BY <1>1, PartsOf
<1>3. q[i].age < NtLegs[q[i].leg] /\ q[j].age < NtLegs[q[j].leg]
    BY <1>1 DEF OnItsWay
<1>4. \/ q[i].age = q[j].age \/ q[i].age >= q[j].age + d \/ q[j].age >= q[i].age + d
    BY <1>1 DEF Spaced
<1>5. /\ a <= m => /\ q[i].age + d < NtLegs[q[i].leg] /\ r[a].leg = q[i].leg /\ r[a].age = q[i].age + d
      /\ a > m => /\ q[i].age + d >= NtLegs[1] /\ q[i].leg = 1 /\ r[a].leg = 2 /\ r[a].age = 0
      /\ b <= m => /\ q[j].age + d < NtLegs[q[j].leg] /\ r[b].leg = q[j].leg /\ r[b].age = q[j].age + d
      /\ b > m => /\ q[j].age + d >= NtLegs[1] /\ q[j].leg = 1 /\ r[b].leg = 2 /\ r[b].age = 0
    BY DEF FrameMoves
<1>6. /\ \/ q[i].leg > q[j].leg
         \/ q[i].leg = q[j].leg /\ q[i].age > q[j].age
         \/ q[i].leg = q[j].leg /\ q[i].age = q[j].age /\ q[i].leg = 1 /\ i < j
         \/ q[i].leg = q[j].leg /\ q[i].age = q[j].age /\ q[i].leg = 2 /\ i > j
    BY DEF Sooner
<1>7. /\ a <= m /\ b <= m => (a < b <=> i < j) /\ (a > b <=> i > j)
      /\ a > m /\ b > m => (a < b <=> i > j)
    <2>1. /\ a < b /\ b <= m => i < j
          /\ b < a /\ a <= m => j < i
          /\ m < a /\ a < b => i > j
          /\ m < b /\ b < a => j > i
        BY DEF FrameMoves
    <2> HIDE DEF i, j
    <2> QED BY <1>1, <2>1
<1> HIDE DEF i, j
<1>8. CASE a <= m /\ b <= m
    <2>1. (a < b <=> i < j) /\ (a > b <=> i > j)
        BY <1>7, <1>8
    <2> QED BY <1>1, <1>2, <1>5, <1>6, <1>8, <2>1 DEF Sooner
<1>9. CASE a > m /\ b > m
    <2>3. q[i].leg = 1 /\ q[j].leg = 1 /\ q[i].age + d >= NtLegs[1] /\ q[j].age + d >= NtLegs[1]
        BY <1>5, <1>9
    <2>4. q[i].age < NtLegs[1] /\ q[j].age < NtLegs[1]
        BY <1>3, <2>3
    <2>1. q[i].leg = 1 /\ q[j].leg = 1 /\ q[i].age = q[j].age
        <3> DEFINE x == q[i].age  y == q[j].age  z == NtLegs[1]
        <3>1. /\ x \in Nat /\ y \in Nat /\ z \in Nat /\ x + d >= z /\ y + d >= z /\ x < z /\ y < z
              /\ x = y \/ x >= y + d \/ y >= x + d
            BY <1>1, <1>2, <1>4, <2>3, <2>4
        <3> HIDE DEF x, y, z
        <3>2. x = y
            BY <1>1, <3>1
        <3> QED BY <2>3, <3>2 DEF x, y
    <2>2. i < j
        BY <1>2, <1>6, <2>1
    <2> QED BY <1>1, <1>5, <1>7, <1>9, <2>2 DEF Sooner
<1>10. CASE a > m /\ b <= m
    <2>1. q[i].leg = 1 /\ q[j].leg = 1
        BY <1>2, <1>5, <1>6, <1>10
    <2> QED BY <1>5, <1>10, <2>1 DEF Sooner
<1>11. CASE a <= m /\ b > m
    <2>1. q[j].leg = 1 /\ r[b].leg = 2 /\ r[b].age = 0
        BY <1>5, <1>11
    <2>2. q[i].leg = 2
        <3> SUFFICES ASSUME q[i].leg = 1 PROVE FALSE
            BY <1>2
        <3>1. q[i].age >= q[j].age
            BY <1>2, <1>6, <2>1
        <3> QED BY <1>1, <1>2, <1>5, <1>11, <3>1
    <2>3. r[a].leg = 2 /\ r[a].age > 0
        BY <1>1, <1>2, <1>5, <1>11, <2>2
    <2> QED BY <2>1, <2>3 DEF Sooner
<1> QED BY <1>1, <1>8, <1>9, <1>10, <1>11

\* A frame leaves them within their legs, and spaced.
LEMMA FrameSpaces ==
    ASSUME NEW q \in Seq(NtMessages), NEW r \in Seq(NtMessages), NEW d \in NtSteps, NEW from, NEW m,
           FrameMoves(q, r, d, from, m), \A i \in 1..Len(q) : OnItsWay(q[i])
    PROVE  /\ \A n \in 1..Len(r) : OnItsWay(r[n])
           /\ Spaced(q, d) => Spaced(r, d)
<1>1. d \in Nat \ {0} /\ NtLegs[1] \in Nat \ {0} /\ NtLegs[2] \in Nat \ {0} /\ m \in Nat
    BY LegsAre DEF FrameMoves
<1>2. ASSUME NEW n \in 1..Len(r)
      PROVE  /\ from[n] \in 1..Len(q) /\ (n <= m \/ n > m)
             /\ q[from[n]].age \in Nat /\ r[n].age \in Nat
             /\ r[n].topic = q[from[n]].topic /\ r[n].value = q[from[n]].value
             /\ r[n].then = q[from[n]].then
             /\ n <= m => /\ q[from[n]].age + d < NtLegs[q[from[n]].leg]
                          /\ r[n].leg = q[from[n]].leg /\ r[n].age = q[from[n]].age + d
             /\ n > m => /\ r[n].leg = 2 /\ r[n].age = 0
    <2>1. from[n] \in 1..Len(q)
        BY DEF FrameMoves
    <2> QED BY <1>1, <2>1, PartsOf DEF FrameMoves
<1>3. ASSUME NEW n \in 1..Len(r) PROVE OnItsWay(r[n])
    <2>1. OnItsWay(q[from[n]])
        BY <1>2
    <2>2. r[n].age < NtLegs[r[n].leg]
        <3>1. CASE n <= m
            <4>1. r[n].leg = q[from[n]].leg /\ r[n].age < NtLegs[q[from[n]].leg]
                BY <1>2, <3>1
            <4> QED BY <4>1
        <3>2. CASE n > m
            BY <1>1, <1>2, <3>2
        <3> QED BY <1>2, <3>1, <3>2
    <2> QED BY <1>2, <2>1, <2>2 DEF OnItsWay
<1>4. ASSUME Spaced(q, d), NEW n \in 1..Len(r), NEW l \in 1..Len(r)
      PROVE  /\ r[n].age = 0 \/ r[n].age >= d
             /\ \/ r[n].age = r[l].age \/ r[n].age >= r[l].age + d \/ r[l].age >= r[n].age + d
    <2>1. \/ q[from[n]].age = q[from[l]].age \/ q[from[n]].age >= q[from[l]].age + d
          \/ q[from[l]].age >= q[from[n]].age + d
        BY <1>2, <1>4 DEF Spaced
    <2> DEFINE x == q[from[n]].age  y == q[from[l]].age
    <2>2. (r[n].age = 0 \/ r[n].age = x + d) /\ (r[l].age = 0 \/ r[l].age = y + d)
        BY <1>2
    <2>3. x \in Nat /\ y \in Nat
        BY <1>2
    <2>4. x = y \/ x >= y + d \/ y >= x + d
        BY <2>1
    <2> HIDE DEF x, y
    <2> QED BY <1>1, <2>2, <2>3, <2>4
<1> QED BY <1>3, <1>4 DEF Spaced

\* What a topic's row shows after the landings: of those that landed the last, if any.
LEMMA ShownIs ==
    ASSUME NEW landed \in Seq(NtMessages), NEW k
    PROVE  \/ NoneOf(landed, k) /\ ShownOf(k, landed) = ntTopics[k]
           \/ \E p \in 1..Len(landed) : /\ landed[p].topic = k /\ ShownOf(k, landed) = landed[p].value
                                        /\ \A n \in 1..Len(landed) : n > p => landed[n].topic /= k
<1> DEFINE S == {f \in ToSet(landed) : f.topic = k}
           ours == Only(landed, S)
<1>1. ours \in Seq(NtMessages) /\ \E e : Picks(e, ours, landed, S, Len(landed))
    BY OnlyInOrder
<1>2. PICK e : Picks(e, ours, landed, S, Len(landed))
    BY <1>1
<1>3. ShownOf(k, landed) = IF ours = <<>> THEN ntTopics[k] ELSE Last(ours).value
    BY DEF ShownOf
<1>4. \A n \in 1..Len(landed) : landed[n] \in S <=> landed[n].topic = k
    BY DEF ToSet
<1> HIDE DEF ours, S
<1>5. CASE ours = <<>>
    <2>1. \A n \in 1..Len(landed) : landed[n] \notin S
        BY <1>2, <1>5 DEF Picks
    <2> QED BY <1>3, <1>4, <1>5, <2>1 DEF NoneOf
<1>6. CASE ours /= <<>>
    <2> DEFINE last == Len(ours)
    <2>1. last \in 1..last /\ last \in Nat
        BY <1>1, <1>6
    <2>2. /\ e[last] \in 1..Len(landed) /\ ours[last] = landed[e[last]] /\ landed[e[last]] \in S
          /\ \A n \in 1..last : n < last => e[n] < e[last]
          /\ \A n \in 1..Len(landed) : landed[n] \in S => \E l \in 1..last : e[l] = n
        BY <1>2, <2>1 DEF Picks
    <2>3. ShownOf(k, landed) = landed[e[last]].value
        BY <1>3, <1>6, <2>2 DEF Last
    <2>4. ASSUME NEW n \in 1..Len(landed), n > e[last] PROVE landed[n].topic /= k
        <3> SUFFICES ASSUME landed[n] \in S PROVE FALSE
            BY <1>4
        <3>1. PICK l \in 1..last : e[l] = n
            BY <2>2
        <3>2. l = last \/ l < last
            BY <2>1
        <3>3. n \in Nat /\ e[last] \in Nat
            BY <2>2
        <3> QED BY <2>2, <2>4, <3>1, <3>2, <3>3
    <2> QED BY <1>4, <2>2, <2>3, <2>4
<1> QED BY <1>5, <1>6

\* The rows after a frame are of the same kind.
LEMMA RowsAre ==
    ASSUME ntTopics \in [NtTopics -> Nat], NEW landed \in Seq(NtMessages), NEW k \in NtTopics
    PROVE  ShownOf(k, landed) \in Nat
<1>1. \A n \in 1..Len(landed) : landed[n].value \in Nat
    BY PartsOf
<1> QED BY <1>1, ShownIs

\* What a topic will show in the end, a frame does not change.
LEMMA FrameKeepsTold ==
    ASSUME NEW q \in Seq(NtMessages), NEW r \in Seq(NtMessages), NEW d \in NtSteps, NEW from, NEW m,
           FrameMoves(q, r, d, from, m), Spaced(q, d), \A i \in 1..Len(q) : OnItsWay(q[i]),
           NEW landed \in Seq(NtMessages), NEW down, FrameLands(q, landed, d, down),
           NEW rows, NEW k, rows[k] = ShownOf(k, landed), NEW v, WillShow(q, ntTopics, k, v)
    PROVE  WillShow(r, rows, k, v)
<1>1. d \in Nat \ {0} /\ NtLegs[1] \in Nat \ {0} /\ NtLegs[2] \in Nat \ {0} /\ Len(q) \in Nat
    BY LegsAre
<1>2. \A n \in 1..Len(r) : /\ from[n] \in 1..Len(q) /\ r[n].topic = q[from[n]].topic
                           /\ r[n].value = q[from[n]].value
    BY DEF FrameMoves
<1>3. \A n \in 1..Len(landed) : /\ down[n] \in 1..Len(q) /\ landed[n].topic = q[down[n]].topic
                                /\ landed[n].value = q[down[n]].value
                                /\ q[down[n]].leg = 2 /\ q[down[n]].age + d >= NtLegs[2]
    BY DEF FrameLands
<1>4. CASE NoneOf(q, k) /\ ntTopics[k] = v
    <2>1. NoneOf(r, k) /\ NoneOf(landed, k)
        BY <1>2, <1>3, <1>4 DEF NoneOf
    <2>2. ShownOf(k, landed) = v
        BY <1>4, <2>1, ShownIs DEF NoneOf
    <2> QED BY <2>1, <2>2 DEF WillShow
<1>5. ASSUME NEW i, LastShown(q, k, i), q[i].value = v PROVE WillShow(r, rows, k, v)
    <2>1. /\ i \in 1..Len(q) /\ q[i].topic = k
          /\ \A j \in 1..Len(q) : q[j].topic = k /\ j /= i => Sooner(q, j, i)
        BY <1>5 DEF LastShown
    <2>2. q[i].leg \in {1, 2} /\ q[i].age \in Nat
        BY <2>1, PartsOf
    <2>3. CASE q[i].leg = 1 \/ q[i].age + d < NtLegs[2]
        <3>1. PICK n \in 1..Len(r) : from[n] = i
            BY <2>1, <2>3 DEF FrameMoves
        <3>2. ASSUME NEW l \in 1..Len(r), r[l].topic = k, l /= n PROVE Sooner(r, l, n)
            <4>1. from[l] /= from[n]
                BY <3>2, MovesOnce
            <4>2. Sooner(q, from[l], from[n])
                BY <1>2, <2>1, <3>1, <3>2, <4>1
            <4> QED BY <3>2, <4>2, FrameKeepsOrder
        <3>3. LastShown(r, k, n)
            BY <1>2, <2>1, <3>1, <3>2 DEF LastShown
        <3> QED BY <1>2, <1>5, <3>1, <3>3 DEF WillShow
    <2>4. CASE q[i].leg = 2 /\ q[i].age + d >= NtLegs[2]
        <3>1. ASSUME NEW j \in 1..Len(q), q[j].topic = k
              PROVE  q[j].leg = 2 /\ q[j].age + d >= NtLegs[2] /\ q[j].age \in Nat
            <4>1. q[j].leg \in {1, 2} /\ q[j].age \in Nat
                BY PartsOf
            <4>2. j = i \/ Sooner(q, j, i)
                BY <2>1, <3>1
            <4> QED BY <1>1, <2>2, <2>4, <4>1, <4>2 DEF Sooner
        <3>2. NoneOf(r, k)
            <4> SUFFICES ASSUME NEW n \in 1..Len(r), r[n].topic = k PROVE FALSE
                BY DEF NoneOf
            <4>1. from[n] \in 1..Len(q) /\ q[from[n]].topic = k
                BY <1>2
            <4>2. q[from[n]].leg = 2 /\ q[from[n]].age + d >= NtLegs[2] /\ q[from[n]].age \in Nat
                BY <3>1, <4>1
            <4>3. n <= m => q[from[n]].age + d < NtLegs[q[from[n]].leg]
                BY DEF FrameMoves
            <4>4. n > m => q[from[n]].leg = 1
                BY DEF FrameMoves
            <4>5. n <= m \/ n > m
                BY DEF FrameMoves
            <4>6. ~(n <= m)
                BY <1>1, <4>2, <4>3
            <4> QED BY <4>2, <4>4, <4>5, <4>6
        <3>3. PICK p \in 1..Len(landed) : down[p] = i
            BY <2>1, <2>4 DEF FrameLands
        <3>4. landed[p].topic = k
            BY <1>3, <2>1, <3>3
        <3>5. PICK l \in 1..Len(landed) : /\ landed[l].topic = k /\ ShownOf(k, landed) = landed[l].value
                                          /\ \A n \in 1..Len(landed) : n > l => landed[n].topic /= k
            BY <3>4, ShownIs DEF NoneOf
        <3>6. down[l] = i
            <4> SUFFICES ASSUME down[l] /= i PROVE FALSE
                OBVIOUS
            <4> DEFINE j == down[l]
            <4>1. j \in 1..Len(q) /\ q[j].topic = k /\ j /= i
                BY <1>3, <3>5
            <4>2. Sooner(q, j, i) /\ q[j].leg = 2 /\ q[j].age + d >= NtLegs[2] /\ q[j].age \in Nat
                BY <2>1, <3>1, <4>1
            <4>3. q[j].age < NtLegs[2] /\ q[i].age < NtLegs[2]
                BY <2>1, <2>4, <4>1, <4>2 DEF OnItsWay
            <4>4. \/ q[i].age = q[j].age \/ q[i].age >= q[j].age + d \/ q[j].age >= q[i].age + d
                BY <2>1, <4>1 DEF Spaced
            <4>5. q[i].age = q[j].age
                <5> DEFINE x == q[i].age  y == q[j].age  z == NtLegs[2]
                <5>1. /\ x \in Nat /\ y \in Nat /\ z \in Nat /\ x + d >= z /\ y + d >= z /\ x < z /\ y < z
                      /\ x = y \/ x >= y + d \/ y >= x + d
                    BY <1>1, <2>2, <2>4, <4>2, <4>3, <4>4
                <5> HIDE DEF x, y, z
                <5>2. x = y
                    BY <1>1, <5>1
                <5> QED BY <5>2 DEF x, y
            <4>6. j > i
                BY <2>2, <2>4, <4>2, <4>5 DEF Sooner
            <4>7. l /= p /\ ~(p > l)
                BY <3>3, <3>4, <3>5
            <4>8. p < l
                <5>1. Len(landed) \in Nat
                    OBVIOUS
                <5> QED BY <4>7, <5>1
            <4>9. down[p] > down[l]
                BY <4>8 DEF FrameLands
            <4>10. i \in Nat /\ j \in Nat
                BY <2>1, <4>1
            <4> QED BY <3>3, <4>6, <4>9, <4>10
        <3>7. rows[k] = v
            BY <1>3, <1>5, <3>5, <3>6
        <3> QED BY <3>2, <3>7 DEF WillShow
    <2> QED BY <1>1, <2>2, <2>3, <2>4
<1> QED BY <1>4, <1>5 DEF WillShow

\* Two messages of the same age and leg, one behind the other, stay so.
LEMMA SideBySide ==
    ASSUME NEW q \in Seq(NtMessages), NEW r \in Seq(NtMessages), NEW d \in NtSteps, NEW from, NEW m,
           FrameMoves(q, r, d, from, m), NEW n \in 1..Len(r), NEW l \in 1..Len(r), from[l] = from[n] + 1
    PROVE  /\ n <= m /\ l <= m => l = n + 1
           /\ n > m /\ l > m => l = n - 1
<1>1. m \in Nat /\ Len(r) \in Nat /\ \A a \in 1..Len(r) : from[a] \in Nat
    <2>1. Len(r) \in Nat /\ Len(q) \in Nat
        OBVIOUS
    <2>2. from \in [1..Len(r) -> 1..Len(q)] /\ m \in 0..Len(r)
        BY DEF FrameMoves
    <2> QED BY <2>1, <2>2
<1>2. \A a, b \in 1..Len(r) : /\ a < b /\ b <= m => from[a] < from[b]
                              /\ m < a /\ a < b => from[a] > from[b]
    BY DEF FrameMoves
<1>3. ASSUME n <= m, l <= m PROVE l = n + 1
    <2>1. n < l
        BY <1>1, <1>2, <1>3
    <2>2. ASSUME NEW c \in 1..Len(r), c = n + 1, c < l PROVE FALSE
        <3>1. from[n] < from[c] /\ from[c] < from[l]
            BY <1>1, <1>2, <1>3, <2>2
        <3> QED BY <1>1, <3>1
    <2>3. n + 1 < l => n + 1 \in 1..Len(r)
        BY <1>1
    <2>4. ~(n + 1 < l)
        BY <2>2, <2>3
    <2> QED BY <2>1, <2>4
<1>4. ASSUME n > m, l > m PROVE l = n - 1
    <2>1. l < n
        BY <1>1, <1>2, <1>4
    <2>2. ASSUME NEW c \in 1..Len(r), c = n - 1, l < c PROVE FALSE
        <3>1. from[l] > from[c] /\ from[c] > from[n]
            BY <1>1, <1>2, <1>4, <2>2
        <3> QED BY <1>1, <3>1
    <2>3. l < n - 1 => n - 1 \in 1..Len(r)
        BY <1>1
    <2>4. ~(l < n - 1)
        BY <2>2, <2>3
    <2> QED BY <2>1, <2>4
<1> QED BY <1>3, <1>4

\* A message a frame later, and those beside it.
LEMMA KeptTogether ==
    ASSUME NEW q \in Seq(NtMessages), NEW r \in Seq(NtMessages), NEW d \in NtSteps, NEW from, NEW m,
           FrameMoves(q, r, d, from, m), NEW n \in 1..Len(r), NEW j \in 1..Len(q),
           q[j].leg = q[from[n]].leg, q[j].age = q[from[n]].age
    PROVE  \E l \in 1..Len(r) : /\ from[l] = j /\ (l <= m <=> n <= m) /\ (l > m <=> n > m)
                                /\ r[l].leg = r[n].leg /\ r[l].age = r[n].age
<1>1. /\ \A a \in 1..Len(r) :
            /\ a <= m \/ a > m
            /\ ~(a <= m /\ a > m)
            /\ a <= m => /\ q[from[a]].age + d < NtLegs[q[from[a]].leg]
                         /\ r[a].leg = q[from[a]].leg /\ r[a].age = q[from[a]].age + d
            /\ a > m => /\ q[from[a]].age + d >= NtLegs[1]
                        /\ q[from[a]].leg = 1 /\ r[a].leg = 2 /\ r[a].age = 0
      /\ q[j].leg = 1 \/ q[j].age + d < NtLegs[2] => \E a \in 1..Len(r) : from[a] = j
    <2>1. m \in Nat
        BY DEF FrameMoves
    <2>2. \A a \in 1..Len(r) : (a <= m \/ a > m) /\ ~(a <= m /\ a > m)
        BY <2>1
    <2>3. \A a \in 1..Len(r) :
            /\ a <= m => /\ q[from[a]].age + d < NtLegs[q[from[a]].leg]
                         /\ r[a].leg = q[from[a]].leg /\ r[a].age = q[from[a]].age + d
            /\ a > m => /\ q[from[a]].age + d >= NtLegs[1]
                        /\ q[from[a]].leg = 1 /\ r[a].leg = 2 /\ r[a].age = 0
        BY DEF FrameMoves
    <2>4. q[j].leg = 1 \/ q[j].age + d < NtLegs[2] => \E a \in 1..Len(r) : from[a] = j
        BY DEF FrameMoves
    <2> QED BY <2>2, <2>3, <2>4
<1>2. q[j].leg \in {1, 2} /\ q[j].age \in Nat /\ d \in Nat /\ NtLegs[1] \in Nat /\ NtLegs[2] \in Nat
    BY PartsOf, LegsAre
<1>3. PICK l \in 1..Len(r) : from[l] = j
    BY <1>1, <1>2
<1>4. ~(l <= m /\ n > m) /\ ~(l > m /\ n <= m)
    <2> DEFINE x == q[j].age + d
    <2>1. x \in Nat /\ q[from[n]].age + d = x /\ q[from[l]].age + d = x
        BY <1>2, <1>3
    <2>2. ASSUME NEW a \in 1..Len(r), NEW b \in 1..Len(r), a <= m, b > m,
                 q[from[a]].leg = q[j].leg, q[from[b]].leg = q[j].leg,
                 q[from[a]].age + d = x, q[from[b]].age + d = x
          PROVE  FALSE
        <3>1. q[j].leg = 1 /\ x >= NtLegs[1]
            BY <1>1, <2>2
        <3>2. x < NtLegs[q[j].leg]
            BY <1>1, <2>2
        <3>3. x < NtLegs[1]
            BY <3>1, <3>2
        <3> QED BY <1>2, <2>1, <3>1, <3>3
    <2> QED BY <1>3, <2>1, <2>2
<1> QED BY <1>1, <1>3, <1>4

\* So a frame leaves a result's messages side by side.
LEMMA FrameKeepsTwos ==
    ASSUME NEW q \in Seq(NtMessages), NEW r \in Seq(NtMessages), NEW d \in NtSteps, NEW from, NEW m,
           FrameMoves(q, r, d, from, m), InTwos(q)
    PROVE  InTwos(r)
<1> SUFFICES ASSUME NEW n \in 1..Len(r) PROVE BesideItsTwin(r, n)
    BY DEF InTwos
<1> DEFINE i == from[n]  up == n + 1  down == n - 1
<1>1. /\ i \in 1..Len(q)
      /\ \A a \in 1..Len(r) : r[a].topic = q[from[a]].topic /\ r[a].value = q[from[a]].value
      /\ n <= m => r[n].leg = q[i].leg
      /\ n > m => q[i].leg = 1 /\ r[n].leg = 2
      /\ n <= m \/ n > m
    <2>1. n <= m \/ n > m
        BY DEF FrameMoves
    <2> QED BY <2>1 DEF FrameMoves
<1>2. q[i].leg \in {1, 2}
    BY <1>1, PartsOf
<1>3. /\ q[i].topic = "raw" /\ q[i].leg = 1 => i + 1 \in 1..Len(q) /\ Twins(q[i], q[i + 1])
      /\ q[i].topic = "raw" /\ q[i].leg = 2 => i - 1 \in 1..Len(q) /\ Twins(q[i], q[i - 1])
      /\ q[i].topic = "has" /\ q[i].leg = 1 => i - 1 \in 1..Len(q) /\ Twins(q[i - 1], q[i])
      /\ q[i].topic = "has" /\ q[i].leg = 2 => i + 1 \in 1..Len(q) /\ Twins(q[i + 1], q[i])
    BY <1>1 DEF InTwos, BesideItsTwin
<1>4. /\ \A j \in 1..Len(q) : Twins(q[i], q[j]) \/ Twins(q[j], q[i]) =>
             \E l \in 1..Len(r) : /\ from[l] = j /\ (l <= m <=> n <= m) /\ (l > m <=> n > m)
                                  /\ r[l].leg = r[n].leg /\ r[l].age = r[n].age
    BY KeptTogether DEF Twins
<1>5. \A l \in 1..Len(r) : /\ from[l] = i + 1 /\ n <= m /\ l <= m => l = up
                           /\ from[l] = i + 1 /\ n > m /\ l > m => l = down
                           /\ from[l] = i - 1 /\ n <= m /\ l <= m => l = down
                           /\ from[l] = i - 1 /\ n > m /\ l > m => l = up
    <2> SUFFICES ASSUME NEW l \in 1..Len(r)
                 PROVE  /\ from[l] = i + 1 /\ n <= m /\ l <= m => l = up
                        /\ from[l] = i + 1 /\ n > m /\ l > m => l = down
                        /\ from[l] = i - 1 /\ n <= m /\ l <= m => l = down
                        /\ from[l] = i - 1 /\ n > m /\ l > m => l = up
        OBVIOUS
    <2>1. from[l] = i - 1 => from[n] = from[l] + 1
        BY <1>1
    <2>2. /\ from[n] = from[l] + 1 /\ n <= m /\ l <= m => n = l + 1
          /\ from[n] = from[l] + 1 /\ n > m /\ l > m => n = l - 1
          /\ from[l] = from[n] + 1 /\ n <= m /\ l <= m => l = n + 1
          /\ from[l] = from[n] + 1 /\ n > m /\ l > m => l = n - 1
        BY SideBySide
    <2> HIDE DEF i
    <2>3. \A a, b \in Int : (a = b + 1 => b = a - 1) /\ (a = b - 1 => b = a + 1)
        OBVIOUS
    <2>4. n \in Int /\ l \in Int
        OBVIOUS
    <2> QED BY <2>1, <2>2, <2>3, <2>4 DEF i
<1>6. ASSUME NEW j \in 1..Len(q), NEW l \in 1..Len(r), from[l] = j, r[l].leg = r[n].leg, r[l].age = r[n].age
      PROVE  /\ Twins(q[i], q[j]) => Twins(r[n], r[l])
             /\ Twins(q[j], q[i]) => Twins(r[l], r[n])
    BY <1>1, <1>6 DEF Twins
<1> HIDE DEF i, up, down
<1>7. ASSUME r[n].topic = "raw", r[n].leg = 1 PROVE up \in 1..Len(r) /\ Twins(r[n], r[up])
    <2>1. n <= m /\ q[i].leg = 1 /\ q[i].topic = "raw"
        BY <1>1, <1>7 DEF i
    <2>2. PICK l \in 1..Len(r) : /\ from[l] = i + 1 /\ l <= m
                                 /\ r[l].leg = r[n].leg /\ r[l].age = r[n].age
        BY <1>3, <1>4, <2>1
    <2>3. l = up
        BY <1>5, <2>1, <2>2
    <2> QED BY <1>3, <1>6, <2>1, <2>2, <2>3
<1>8. ASSUME r[n].topic = "raw", r[n].leg = 2 PROVE down \in 1..Len(r) /\ Twins(r[n], r[down])
    <2>1. CASE n <= m
        <3>1. q[i].leg = 2 /\ q[i].topic = "raw"
            BY <1>1, <1>8, <2>1 DEF i
        <3>2. PICK l \in 1..Len(r) : /\ from[l] = i - 1 /\ l <= m
                                     /\ r[l].leg = r[n].leg /\ r[l].age = r[n].age
            BY <1>3, <1>4, <2>1, <3>1
        <3>3. l = down
            BY <1>5, <2>1, <3>2
        <3> QED BY <1>3, <1>6, <3>1, <3>2, <3>3
    <2>2. CASE n > m
        <3>1. q[i].leg = 1 /\ q[i].topic = "raw"
            BY <1>1, <1>8, <2>2 DEF i
        <3>2. PICK l \in 1..Len(r) : /\ from[l] = i + 1 /\ l > m
                                     /\ r[l].leg = r[n].leg /\ r[l].age = r[n].age
            BY <1>3, <1>4, <2>2, <3>1
        <3>3. l = down
            BY <1>5, <2>2, <3>2
        <3> QED BY <1>3, <1>6, <3>1, <3>2, <3>3
    <2> QED BY <1>1, <2>1, <2>2
<1>9. ASSUME r[n].topic = "has", r[n].leg = 1 PROVE down \in 1..Len(r) /\ Twins(r[down], r[n])
    <2>1. n <= m /\ q[i].leg = 1 /\ q[i].topic = "has"
        BY <1>1, <1>9 DEF i
    <2>2. PICK l \in 1..Len(r) : /\ from[l] = i - 1 /\ l <= m
                                 /\ r[l].leg = r[n].leg /\ r[l].age = r[n].age
        BY <1>3, <1>4, <2>1
    <2>3. l = down
        BY <1>5, <2>1, <2>2
    <2> QED BY <1>3, <1>6, <2>1, <2>2, <2>3
<1>10. ASSUME r[n].topic = "has", r[n].leg = 2 PROVE up \in 1..Len(r) /\ Twins(r[up], r[n])
    <2>1. CASE n <= m
        <3>1. q[i].leg = 2 /\ q[i].topic = "has"
            BY <1>1, <1>10, <2>1 DEF i
        <3>2. PICK l \in 1..Len(r) : /\ from[l] = i + 1 /\ l <= m
                                     /\ r[l].leg = r[n].leg /\ r[l].age = r[n].age
            BY <1>3, <1>4, <2>1, <3>1
        <3>3. l = up
            BY <1>5, <2>1, <3>2
        <3> QED BY <1>3, <1>6, <3>1, <3>2, <3>3
    <2>2. CASE n > m
        <3>1. q[i].leg = 1 /\ q[i].topic = "has"
            BY <1>1, <1>10, <2>2 DEF i
        <3>2. PICK l \in 1..Len(r) : /\ from[l] = i - 1 /\ l > m
                                     /\ r[l].leg = r[n].leg /\ r[l].age = r[n].age
            BY <1>3, <1>4, <2>2, <3>1
        <3>3. l = up
            BY <1>5, <2>2, <3>2
        <3> QED BY <1>3, <1>6, <3>1, <3>2, <3>3
    <2> QED BY <1>1, <2>1, <2>2
<1> QED BY <1>7, <1>8, <1>9, <1>10 DEF up, down, BesideItsTwin

\* And they land side by side: the two rows are about the same result.
LEMMA RowsTogether ==
    ASSUME NEW q \in Seq(NtMessages), NEW d \in NtSteps, NEW landed \in Seq(NtMessages), NEW down,
           FrameLands(q, landed, d, down), InTwos(q), ntTopics["has"] = SawTag(ntTopics["raw"])
    PROVE  ShownOf("has", landed) = SawTag(ShownOf("raw", landed))
<1>1. /\ Len(landed) \in Nat
      /\ \A n \in 1..Len(landed) :
            /\ down[n] \in 1..Len(q) /\ landed[n].topic = q[down[n]].topic
            /\ landed[n].value = q[down[n]].value
            /\ q[down[n]].leg = 2 /\ q[down[n]].age + d >= NtLegs[2]
      /\ \A n, l \in 1..Len(landed) : n < l => down[n] > down[l]
      /\ \A i \in 1..Len(q) : q[i].leg = 2 /\ q[i].age + d >= NtLegs[2] =>
                                  \E n \in 1..Len(landed) : down[n] = i
    <2>1. Len(landed) \in Nat
        OBVIOUS
    <2> QED BY <2>1 DEF FrameLands
<1>2. ASSUME NEW n \in 1..Len(landed), landed[n].topic = "raw"
      PROVE  \E l \in 1..Len(landed) : /\ down[l] = down[n] - 1
                                       /\ landed[l].topic = "has" /\ landed[l].value = SawTag(landed[n].value)
    <2> DEFINE i == down[n]  j == i - 1
    <2>1. i \in 1..Len(q) /\ q[i].topic = "raw" /\ q[i].leg = 2
        BY <1>1, <1>2
    <2>2. j \in 1..Len(q) /\ Twins(q[i], q[j])
        BY <2>1 DEF InTwos, BesideItsTwin
    <2>3. PICK l \in 1..Len(landed) : down[l] = j
        BY <1>1, <2>2 DEF Twins
    <2> QED BY <1>1, <2>2, <2>3 DEF Twins
<1>3. ASSUME NEW n \in 1..Len(landed), landed[n].topic = "has"
      PROVE  \E l \in 1..Len(landed) : down[l] = down[n] + 1 /\ landed[l].topic = "raw"
    <2> DEFINE i == down[n]  j == i + 1
    <2>1. i \in 1..Len(q) /\ q[i].topic = "has" /\ q[i].leg = 2
        BY <1>1, <1>3
    <2>2. j \in 1..Len(q) /\ Twins(q[j], q[i])
        BY <2>1 DEF InTwos, BesideItsTwin
    <2>3. PICK l \in 1..Len(landed) : down[l] = j
        BY <1>1, <2>2 DEF Twins
    <2> QED BY <1>1, <2>2, <2>3 DEF Twins
<1>4. CASE NoneOf(landed, "raw")
    <2>1. NoneOf(landed, "has")
        BY <1>3, <1>4 DEF NoneOf
    <2> QED BY <1>4, <2>1, ShownIs DEF NoneOf
<1>5. CASE ~NoneOf(landed, "raw")
    <2>1. PICK p \in 1..Len(landed) :
              /\ landed[p].topic = "raw" /\ ShownOf("raw", landed) = landed[p].value
              /\ \A n \in 1..Len(landed) : n > p => landed[n].topic /= "raw"
        BY <1>5, ShownIs
    <2>2. PICK l \in 1..Len(landed) : /\ down[l] = down[p] - 1 /\ landed[l].topic = "has"
                                      /\ landed[l].value = SawTag(landed[p].value)
        BY <1>2, <2>1
    <2>3. PICK o \in 1..Len(landed) :
              /\ landed[o].topic = "has" /\ ShownOf("has", landed) = landed[o].value
              /\ \A n \in 1..Len(landed) : n > o => landed[n].topic /= "has"
        BY <2>2, ShownIs DEF NoneOf
    <2>4. PICK u \in 1..Len(landed) : down[u] = down[o] + 1 /\ landed[u].topic = "raw"
        BY <1>3, <2>3
    <2>5. /\ ~(u > p) /\ ~(l > o)
          /\ down[u] \in Nat /\ down[p] \in Nat /\ down[l] \in Nat /\ down[o] \in Nat
        BY <1>1, <2>1, <2>2, <2>3, <2>4
    <2>6. down[u] >= down[p] /\ down[l] >= down[o]
        <3>1. (u < p \/ u = p) /\ (l < o \/ l = o)
            BY <2>5
        <3> QED BY <1>1, <2>5, <3>1
    <2>7. down[l] = down[o]
        BY <2>2, <2>4, <2>5, <2>6
    <2>8. l = o
        BY <1>1, <2>5, <2>7
    <2> QED BY <2>1, <2>2, <2>3, <2>8
<1> QED BY <1>4, <1>5

\* And after a frame with no request on its way, the last one shown has its answer or will get it.
LEMMA FrameAnswers ==
    ASSUME NEW q \in Seq(NtMessages), NEW r \in Seq(NtMessages), NEW d \in NtSteps, NEW from, NEW m,
           FrameMoves(q, r, d, from, m), Spaced(q, d), \A i \in 1..Len(q) : OnItsWay(q[i]),
           NEW landed \in Seq(NtMessages), NEW down, FrameLands(q, landed, d, down),
           NEW rows, \A k \in NtTopics : rows[k] = ShownOf(k, landed),
           NEW timers \in Seq(Thens), NoneOf(r, "pir"),
           NoneOf(q, "pir") => WillAnswer(timers, q, ntTopics, ntTopics["pir"])
    PROVE  WillAnswer(timers \o [i \in DOMAIN landed |-> landed[i].then], r, rows, rows["pir"])
<1> DEFINE thens == [i \in DOMAIN landed |-> landed[i].then]
           all == timers \o thens
           k == "pir"
           v == rows[k]
<1>1. rows["pir"] = ShownOf("pir", landed) /\ rows["pis"] = ShownOf("pis", landed)
    BY DEF NtTopics
<1>2. /\ \A n \in 1..Len(landed) : thens[n] = landed[n].then /\ thens[n] \in Thens
      /\ thens \in Seq(Thens) /\ Len(thens) = Len(landed) /\ Len(landed) \in Nat
    <2>1. \A n \in 1..Len(landed) : landed[n].then \in Thens
        BY PartsOf
    <2>2. DOMAIN landed = 1..Len(landed) /\ Len(landed) \in Nat
        OBVIOUS
    <2> QED BY <2>1, <2>2
<1> HIDE DEF thens
<1>3. /\ Len(all) = Len(timers) + Len(landed) /\ Len(timers) \in Nat
      /\ \A n \in 1..Len(timers) : all[n] = timers[n]
      /\ \A n \in 1..Len(landed) : all[Len(timers) + n] = thens[n]
      /\ \A n \in 1..Len(all) : n \in 1..Len(timers) \/ n - Len(timers) \in 1..Len(landed)
    <2>1. /\ Len(all) = Len(timers) + Len(thens) /\ Len(timers) \in Nat
          /\ \A n \in 1..Len(timers) : all[n] = timers[n]
          /\ \A n \in 1..Len(thens) : all[Len(timers) + n] = thens[n]
        <3>1. thens \in Seq(Thens)
            BY <1>2
        <3> QED BY ONLY timers \in Seq(Thens), <3>1
    <2> QED BY <1>2, <2>1
<1> HIDE DEF all
<1>4. \A n \in 1..Len(landed) :
          /\ landed[n].topic = k => thens[n] = landed[n].value
          /\ landed[n].topic /= k => thens[n] = Nothing
    <2> SUFFICES ASSUME NEW n \in 1..Len(landed)
                 PROVE  /\ landed[n].topic = k => thens[n] = landed[n].value
                        /\ landed[n].topic /= k => thens[n] = Nothing
        OBVIOUS
    <2>1. /\ down[n] \in 1..Len(q) /\ landed[n].topic = q[down[n]].topic
          /\ landed[n].value = q[down[n]].value /\ landed[n].then = q[down[n]].then
        BY DEF FrameLands
    <2>2. OnItsWay(q[down[n]])
        BY <2>1
    <2> QED BY <1>2, <2>1, <2>2 DEF OnItsWay
<1>5. CASE NoneOf(q, k)
    <2>1. NoneOf(landed, k)
        <3>1. \A n \in 1..Len(landed) : down[n] \in 1..Len(q) /\ landed[n].topic = q[down[n]].topic
            BY DEF FrameLands
        <3> QED BY <1>5, <3>1 DEF NoneOf
    <2>2. v = ntTopics[k]
        BY <1>1, <2>1, ShownIs DEF NoneOf
    <2>3. \A n \in 1..Len(landed) : all[Len(timers) + n] = Nothing
        BY <1>3, <1>4, <2>1 DEF NoneOf
    <2>4. ASSUME NEW n \in 1..Len(all), n \notin 1..Len(timers) PROVE all[n] = Nothing
        <3>1. n - Len(timers) \in 1..Len(landed) /\ n = Len(timers) + (n - Len(timers))
            BY <1>3, <2>4
        <3> QED BY <2>3, <3>1
    <2>5. WillAnswer(timers, q, ntTopics, v)
        BY <1>5, <2>2
    <2> HIDE DEF v
    <2>6. CASE \E i \in 1..Len(timers) : /\ timers[i] = v
                                         /\ \A j \in 1..Len(timers) : j > i => timers[j] = Nothing
        <3>1. PICK i \in 1..Len(timers) : /\ timers[i] = v
                                          /\ \A j \in 1..Len(timers) : j > i => timers[j] = Nothing
            BY <2>6
        <3>2. i \in 1..Len(all) /\ all[i] = v
            BY <1>2, <1>3, <3>1
        <3>3. \A j \in 1..Len(all) : j > i => all[j] = Nothing
            BY <1>3, <2>4, <3>1
        <3> QED BY <3>2, <3>3 DEF WillAnswer, all, v, thens
    <2>7. CASE (\A j \in 1..Len(timers) : timers[j] = Nothing) /\ WillShow(q, ntTopics, "pis", v)
        <3>1. \A j \in 1..Len(all) : all[j] = Nothing
            BY <1>3, <2>4, <2>7
        <3>2. WillShow(r, rows, "pis", v)
            BY <1>1, <2>7, FrameKeepsTold
        <3> QED BY <3>1, <3>2 DEF WillAnswer, all, v, thens
    <2> QED BY <2>5, <2>6, <2>7 DEF WillAnswer
<1>6. CASE ~NoneOf(q, k)
    <2>1. PICK i \in 1..Len(q) : q[i].topic = k
        BY <1>6 DEF NoneOf
    <2>2. ~(\E n \in 1..Len(r) : from[n] = i)
        BY <2>1 DEF NoneOf, FrameMoves
    <2>3. q[i].leg /= 1 /\ ~(q[i].age + d < NtLegs[2])
        BY <2>2 DEF FrameMoves
    <2>4. q[i].leg = 2 /\ q[i].age + d >= NtLegs[2]
        <3>1. q[i].leg \in {1, 2} /\ q[i].age \in Nat /\ d \in Nat /\ NtLegs[2] \in Nat
            BY PartsOf, LegsAre
        <3> QED BY <2>3, <3>1
    <2>5. PICK o \in 1..Len(landed) : down[o] = i
        BY <2>4 DEF FrameLands
    <2>6. landed[o].topic = k
        BY <2>1, <2>5 DEF FrameLands
    <2>7. PICK p \in 1..Len(landed) : /\ landed[p].topic = k /\ v = landed[p].value
                                      /\ \A n \in 1..Len(landed) : n > p => landed[n].topic /= k
        <3>1. ~NoneOf(landed, k)
            BY <2>6 DEF NoneOf
        <3>2. \E p \in 1..Len(landed) : /\ landed[p].topic = k /\ ShownOf(k, landed) = landed[p].value
                                        /\ \A n \in 1..Len(landed) : n > p => landed[n].topic /= k
            BY <3>1, ShownIs
        <3> QED BY <1>1, <3>2
    <2> HIDE DEF v
    <2> DEFINE last == Len(timers) + p
    <2>8. last \in 1..Len(all) /\ all[last] = v
        BY <1>2, <1>3, <1>4, <2>7
    <2>9. ASSUME NEW j \in 1..Len(all), j > last PROVE all[j] = Nothing
        <3>1. j - Len(timers) \in 1..Len(landed) /\ j = Len(timers) + (j - Len(timers)) /\ j - Len(timers) > p
            BY <1>2, <1>3, <2>9
        <3> QED BY <1>3, <1>4, <2>7, <3>1
    <2> HIDE DEF last
    <2> QED BY <2>8, <2>9 DEF WillAnswer, all, v, thens
<1> QED BY <1>5, <1>6

\* What a new message changes for those on their way.
LEMMA SentBehind ==
    ASSUME NEW q \in Seq(NtMessages), NEW f \in NtMessages, f.leg = 1, f.age = 0
    PROVE  LET r == Append(q, f)
           IN  /\ r \in Seq(NtMessages) /\ Len(r) = Len(q) + 1 /\ Len(q) \in Nat
               /\ Len(r) \in 1..Len(r) /\ r[Len(r)] = f
               /\ \A i \in 1..Len(q) : i \in 1..Len(r) /\ i < Len(r) /\ r[i] = q[i]
               /\ \A i \in 1..Len(r) : i \in 1..Len(q) \/ i = Len(r)
               /\ \A i \in 1..Len(q) : Sooner(r, i, Len(r))
               /\ \A i, j \in 1..Len(q) : Sooner(r, i, j) <=> Sooner(q, i, j)
<1> DEFINE r == Append(q, f)
<1>1. /\ r \in Seq(NtMessages) /\ Len(r) = Len(q) + 1 /\ Len(q) \in Nat
      /\ r[Len(q) + 1] = f
      /\ \A i \in 1..Len(q) : r[i] = q[i]
    OBVIOUS
<1> HIDE DEF r
<1>2. /\ Len(r) \in 1..Len(r) /\ r[Len(r)] = f
      /\ \A i \in 1..Len(q) : i \in 1..Len(r) /\ i < Len(r) /\ r[i] = q[i]
      /\ \A i \in 1..Len(r) : i \in 1..Len(q) \/ i = Len(r)
    BY <1>1
<1>3. ASSUME NEW i \in 1..Len(q) PROVE Sooner(r, i, Len(r))
    <2>1. q[i].leg \in {1, 2} /\ q[i].age \in Nat
        BY PartsOf
    <2>2. r[i] = q[i] /\ i < Len(r) /\ r[Len(r)].leg = 1 /\ r[Len(r)].age = 0
        BY <1>2
    <2>3. q[i].age = 0 \/ q[i].age > 0
        BY <2>1
    <2> QED BY <2>1, <2>2, <2>3 DEF Sooner
<1>4. \A i, j \in 1..Len(q) : Sooner(r, i, j) <=> Sooner(q, i, j)
    BY <1>2 DEF Sooner
<1> QED BY <1>1, <1>2, <1>3, <1>4 DEF r

\* A new message changes what its own topic will show, and no other's.
LEMMA SendKeeps ==
    ASSUME NEW q \in Seq(NtMessages), NEW f \in NtMessages, f.leg = 1, f.age = 0, OnItsWay(f),
           \A i \in 1..Len(q) : OnItsWay(q[i])
    PROVE  LET r == Append(q, f)
           IN  /\ r \in Seq(NtMessages) /\ \A i \in 1..Len(r) : OnItsWay(r[i])
               /\ \A d \in NtSteps : Spaced(q, d) => Spaced(r, d)
               /\ \A k : NoneOf(r, k) => NoneOf(q, k) /\ f.topic /= k
               /\ \A topics, k, v : WillShow(q, topics, k, v) /\ k /= f.topic => WillShow(r, topics, k, v)
               /\ \A topics : WillShow(r, topics, f.topic, f.value)
               /\ \A timers, topics, v : WillAnswer(timers, q, topics, v) /\ f.topic /= "pis" =>
                                            WillAnswer(timers, r, topics, v)
<1> DEFINE r == Append(q, f)
<1>1. /\ r \in Seq(NtMessages) /\ Len(r) = Len(q) + 1 /\ Len(q) \in Nat
      /\ Len(r) \in 1..Len(r) /\ r[Len(r)] = f
      /\ \A i \in 1..Len(q) : i \in 1..Len(r) /\ i < Len(r) /\ r[i] = q[i]
      /\ \A i \in 1..Len(r) : i \in 1..Len(q) \/ i = Len(r)
      /\ \A i \in 1..Len(q) : Sooner(r, i, Len(r))
      /\ \A i, j \in 1..Len(q) : Sooner(r, i, j) <=> Sooner(q, i, j)
    BY SentBehind
<1> HIDE DEF r
<1>2. \A i \in 1..Len(r) : OnItsWay(r[i])
    BY <1>1
<1>3. ASSUME NEW d \in NtSteps, Spaced(q, d) PROVE Spaced(r, d)
    <2>1. d \in Nat /\ \A i \in 1..Len(q) : q[i].age \in Nat
        BY LegsAre, PartsOf
    <2>2. \A i \in 1..Len(q) : /\ q[i].age = 0 \/ q[i].age >= d
                               /\ \A j \in 1..Len(q) : \/ q[i].age = q[j].age
                                                       \/ q[i].age >= q[j].age + d
                                                       \/ q[j].age >= q[i].age + d
        BY <1>3 DEF Spaced
    <2>3. ASSUME NEW i \in 1..Len(r), NEW j \in 1..Len(r)
          PROVE  /\ r[i].age = 0 \/ r[i].age >= d
                 /\ r[i].age = r[j].age \/ r[i].age >= r[j].age + d \/ r[j].age >= r[i].age + d
        <3>1. ASSUME NEW h \in 1..Len(r) PROVE r[h].age = 0 \/ (h \in 1..Len(q) /\ r[h].age = q[h].age)
            BY <1>1
        <3>2. CASE r[i].age = 0 /\ r[j].age = 0
            BY <3>2
        <3>3. CASE r[i].age = 0 /\ j \in 1..Len(q) /\ r[j].age = q[j].age
            BY <2>1, <2>2, <3>3
        <3>4. CASE r[j].age = 0 /\ i \in 1..Len(q) /\ r[i].age = q[i].age
            BY <2>1, <2>2, <3>4
        <3>5. CASE /\ i \in 1..Len(q) /\ r[i].age = q[i].age
                   /\ j \in 1..Len(q) /\ r[j].age = q[j].age
            BY <2>2, <3>5
        <3> QED BY <3>1, <3>2, <3>3, <3>4, <3>5
    <2> QED BY <2>3 DEF Spaced
<1>4. ASSUME NEW k, NoneOf(r, k) PROVE NoneOf(q, k) /\ f.topic /= k
    BY <1>1, <1>4 DEF NoneOf
<1>5. ASSUME NEW topics, NEW k, NEW v, WillShow(q, topics, k, v), k /= f.topic PROVE WillShow(r, topics, k, v)
    <2>1. CASE NoneOf(q, k) /\ topics[k] = v
        BY <1>1, <1>5, <2>1 DEF WillShow, NoneOf
    <2>2. ASSUME NEW i, LastShown(q, k, i), q[i].value = v PROVE WillShow(r, topics, k, v)
        <3>1. LastShown(r, k, i)
            BY <1>1, <1>5, <2>2 DEF LastShown
        <3>2. r[i].value = v
            BY <1>1, <2>2 DEF LastShown
        <3> QED BY <3>1, <3>2 DEF WillShow
    <2> QED BY <1>5, <2>1, <2>2 DEF WillShow
<1>6. ASSUME NEW topics PROVE WillShow(r, topics, f.topic, f.value)
    <2>1. LastShown(r, f.topic, Len(r))
        BY <1>1 DEF LastShown
    <2> QED BY <1>1, <2>1 DEF WillShow
<1>7. ASSUME NEW timers, NEW topics, NEW v, WillAnswer(timers, q, topics, v), f.topic /= "pis"
      PROVE  WillAnswer(timers, r, topics, v)
    BY <1>5, <1>7 DEF WillAnswer
<1> QED BY <1>1, <1>2, <1>3, <1>4, <1>5, <1>6, <1>7 DEF r

\* One message of another topic, or a result's two, leave those of a result side by side.
LEMMA SendKeepsTwos ==
    ASSUME NEW q \in Seq(NtMessages), InTwos(q)
    PROVE  /\ \A f \in NtMessages : f.topic \notin {"raw", "has"} => InTwos(Append(q, f))
           /\ \A f, g \in NtMessages : Twins(f, g) /\ f.leg = 1 => InTwos(Append(Append(q, f), g))
<1>1. ASSUME NEW f \in NtMessages, f.topic \notin {"raw", "has"} PROVE InTwos(Append(q, f))
    <2> DEFINE r == Append(q, f)
    <2>1. /\ Len(r) = Len(q) + 1 /\ Len(q) \in Nat /\ r[Len(q) + 1] = f
          /\ \A i \in 1..Len(q) : i \in 1..Len(r) /\ r[i] = q[i]
        OBVIOUS
    <2>2. \A i \in 1..Len(r) : i \in 1..Len(q) \/ i = Len(q) + 1
        BY <2>1
    <2> HIDE DEF r
    <2>3. InTwos(r)
        BY <1>1, <2>1, <2>2 DEF InTwos, BesideItsTwin
    <2> QED BY <2>3 DEF r
<1>2. ASSUME NEW f \in NtMessages, NEW g \in NtMessages, Twins(f, g), f.leg = 1
      PROVE  InTwos(Append(Append(q, f), g))
    <2> DEFINE r == Append(Append(q, f), g)
    <2>1. /\ Len(r) = Len(q) + 2 /\ Len(q) \in Nat /\ r[Len(q) + 1] = f /\ r[Len(q) + 2] = g
          /\ \A i \in 1..Len(q) : i \in 1..Len(r) /\ r[i] = q[i]
        OBVIOUS
    <2>2. \A i \in 1..Len(r) : i \in 1..Len(q) \/ i = Len(q) + 1 \/ i = Len(q) + 2
        BY <2>1
    <2>3. f.topic = "raw" /\ g.topic = "has" /\ g.leg = 1 /\ f.topic /= "has" /\ g.topic /= "raw"
        BY <1>2 DEF Twins
    <2>4. /\ (Len(q) + 1) + 1 = Len(q) + 2 /\ (Len(q) + 2) - 1 = Len(q) + 1
          /\ Len(q) + 1 \in 1..Len(r) /\ Len(q) + 2 \in 1..Len(r)
        BY <2>1
    <2> HIDE DEF r
    <2>5. InTwos(r)
        <3> SUFFICES ASSUME NEW i \in 1..Len(r) PROVE BesideItsTwin(r, i)
            BY DEF InTwos
        <3>1. CASE i \in 1..Len(q)
            BY <2>1, <3>1 DEF InTwos, BesideItsTwin
        <3>2. CASE i = Len(q) + 1
            BY <1>2, <2>1, <2>3, <2>4, <3>2 DEF BesideItsTwin
        <3>3. CASE i = Len(q) + 2
            BY <1>2, <2>1, <2>3, <2>4, <3>3 DEF BesideItsTwin
        <3> QED BY <2>2, <3>1, <3>2, <3>3
    <2> QED BY <2>5 DEF r
<1> QED BY <1>1, <1>2

\* What happens publishes messages that are on their way, and that fit those that are.
LEMMA EventsKeep ==
    ASSUME PubsubInv, NEW event \in {"result", "record", "pipe"}, Happens(event)
    PROVE  /\ ntFlights' \in Seq(NtMessages) /\ \A i \in 1..Len(ntFlights') : OnItsWay(ntFlights'[i])
           /\ \A i \in 1..Len(ntFlights') : ntFlights'[i].topic \in Toggles => ntFlights'[i].value \in 0..1
           /\ ntSeq' \in Nat /\ InTwos(ntFlights')
           /\ \A d \in NtSteps : ntPace = {d} =>
                 /\ Spaced(ntFlights', d)
                 /\ WillShow(ntFlights', ntTopics, "raw", ntSeq')
                 /\ NoneOf(ntFlights', "pir") =>
                       WillAnswer(ntTimers, ntFlights', ntTopics, ntTopics["pir"])
<1> DEFINE q == ntFlights
           AllGood(s) == /\ s \in Seq(NtMessages) /\ \A i \in 1..Len(s) : OnItsWay(s[i])
                      /\ \A i \in 1..Len(s) : s[i].topic \in Toggles => s[i].value \in 0..1
           Ordered(s, seq) == \A d \in NtSteps : ntPace = {d} =>
                      /\ Spaced(s, d) /\ WillShow(s, ntTopics, "raw", seq)
                      /\ NoneOf(s, "pir") => WillAnswer(ntTimers, s, ntTopics, ntTopics["pir"])
<1>1. AllGood(q) /\ Ordered(q, ntSeq) /\ InTwos(q) /\ ntSeq \in Nat
    BY DEF PubsubInv
<1>2. ASSUME NEW s, AllGood(s), NEW f \in NtMessages, f.leg = 1, f.age = 0, OnItsWay(f),
             f.topic \in Toggles => f.value \in 0..1
      PROVE  AllGood(Append(s, f))
    <2>1. Append(s, f) \in Seq(NtMessages) /\ \A i \in 1..Len(Append(s, f)) : OnItsWay(Append(s, f)[i])
        BY <1>2, SendKeeps
    <2>2. /\ \A i \in 1..Len(Append(s, f)) : \/ i \in 1..Len(s) /\ Append(s, f)[i] = s[i]
                                             \/ Append(s, f)[i] = f
        BY <1>2, SentBehind
    <2> QED BY <1>2, <2>1, <2>2
<1>3. ASSUME NEW s, AllGood(s), NEW seq, NEW last, Ordered(s, seq),
             NEW f \in NtMessages, f.leg = 1, f.age = 0, OnItsWay(f),
             f.topic /= "pis", IF f.topic = "raw" THEN f.value = last ELSE last = seq
      PROVE  Ordered(Append(s, f), last)
    <2> SUFFICES ASSUME NEW d \in NtSteps, ntPace = {d}
                 PROVE  /\ Spaced(Append(s, f), d) /\ WillShow(Append(s, f), ntTopics, "raw", last)
                        /\ NoneOf(Append(s, f), "pir") =>
                              WillAnswer(ntTimers, Append(s, f), ntTopics, ntTopics["pir"])
        OBVIOUS
    <2>1. /\ Spaced(s, d) /\ WillShow(s, ntTopics, "raw", seq)
          /\ NoneOf(s, "pir") => WillAnswer(ntTimers, s, ntTopics, ntTopics["pir"])
        BY <1>3
    <2>2. /\ Spaced(Append(s, f), d)
          /\ \A k : NoneOf(Append(s, f), k) => NoneOf(s, k)
          /\ \A v : WillShow(s, ntTopics, "raw", v) /\ "raw" /= f.topic =>
                       WillShow(Append(s, f), ntTopics, "raw", v)
          /\ WillShow(Append(s, f), ntTopics, f.topic, f.value)
          /\ \A v : WillAnswer(ntTimers, s, ntTopics, v) => WillAnswer(ntTimers, Append(s, f), ntTopics, v)
        BY <1>3, <2>1, SendKeeps
    <2> QED BY <1>3, <2>1, <2>2
<1> HIDE DEF AllGood, Ordered
<1>4. CASE event = "result"
    <2> DEFINE a == Publish("raw", ntSeq + 1, Nothing)
               b == Publish("has", SawTag(ntSeq + 1), Nothing)
    <2>1. ntSeq + 1 \in Nat /\ SawTag(ntSeq + 1) \in Nat /\ Nothing \in Thens
        BY <1>1 DEF SawTag, Thens
    <2>2. /\ a \in NtMessages /\ a.leg = 1 /\ a.age = 0 /\ OnItsWay(a)
          /\ a.topic = "raw" /\ a.value = ntSeq + 1
          /\ b \in NtMessages /\ b.leg = 1 /\ b.age = 0 /\ OnItsWay(b) /\ b.topic = "has"
          /\ b.value = SawTag(ntSeq + 1) /\ a.topic \notin Toggles /\ b.topic \notin Toggles
        BY <2>1, LegsAre DEF Publish, NtMessages, NtTopics, OnItsWay, Toggles
    <2>3. ntSeq' = ntSeq + 1 /\ ntFlights' = q \o <<a, b>>
        BY <1>4 DEF Happens, Published
    <2> HIDE DEF a, b
    <2>4. q \in Seq(NtMessages)
        BY <1>1 DEF AllGood
    <2>5. ntFlights' = Append(Append(q, a), b)
        BY <2>2, <2>3, <2>4
    <2>6. AllGood(Append(q, a)) /\ Ordered(Append(q, a), ntSeq + 1)
        BY <1>1, <1>2, <1>3, <2>2
    <2>7. AllGood(ntFlights') /\ Ordered(ntFlights', ntSeq + 1)
        BY <1>2, <1>3, <2>2, <2>5, <2>6
    <2>8. InTwos(ntFlights')
        BY <1>1, <2>2, <2>4, <2>5, SendKeepsTwos DEF Twins
    <2> QED BY <2>1, <2>3, <2>7, <2>8 DEF AllGood, Ordered
<1>5. CASE event /= "result"
    <2>1. \E f \in NtMessages : /\ f.leg = 1 /\ f.age = 0 /\ OnItsWay(f) /\ f.topic \in Toggles
                              /\ f.value \in 0..1
                              /\ ntFlights' = q \o <<f>>
        <3>1. ntTopics["rec"] \in 0..1 /\ ntTopics["pir"] \in 0..1
            BY DEF PubsubInv, Toggles
        <3>2. 1 - ntTopics["rec"] \in 0..1 /\ 1 - ntTopics["pir"] \in 0..1
            BY <3>1
        <3>3. ASSUME NEW k \in Toggles, NEW v \in 0..1, NEW then \in Thens,
                     then = IF k = "pir" THEN v ELSE Nothing
              PROVE  LET f == Publish(k, v, then)
                     IN  /\ f \in NtMessages /\ f.leg = 1 /\ f.age = 0 /\ OnItsWay(f)
                         /\ f.topic = k /\ f.value = v
            BY <3>3, LegsAre DEF Publish, NtMessages, NtTopics, OnItsWay, Toggles
        <3>4. CASE event = "record"
            <4>1. ntFlights' = q \o <<Publish("rec", 1 - ntTopics["rec"], Nothing)>>
                BY <3>4 DEF Happens, Published
            <4>2. "rec" \in Toggles /\ Nothing \in Thens /\ "rec" /= "pir"
                BY DEF Toggles, Thens
            <4> DEFINE f == Publish("rec", 1 - ntTopics["rec"], Nothing)
            <4>3. /\ f \in NtMessages /\ f.leg = 1 /\ f.age = 0 /\ OnItsWay(f) /\ f.topic = "rec"
                  /\ f.value = 1 - ntTopics["rec"]
                BY <3>2, <3>3, <4>2
            <4> HIDE DEF f
            <4> QED BY <3>2, <4>1, <4>2, <4>3 DEF f
        <3>5. CASE event = "pipe"
            <4>1. ntFlights' = q \o <<Publish("pir", 1 - ntTopics["pir"], 1 - ntTopics["pir"])>>
                BY <3>5 DEF Happens, Published
            <4>2. "pir" \in Toggles /\ 1 - ntTopics["pir"] \in Thens
                BY <3>2 DEF Toggles, Thens
            <4> DEFINE f == Publish("pir", 1 - ntTopics["pir"], 1 - ntTopics["pir"])
            <4>3. /\ f \in NtMessages /\ f.leg = 1 /\ f.age = 0 /\ OnItsWay(f) /\ f.topic = "pir"
                  /\ f.value = 1 - ntTopics["pir"]
                BY <3>2, <3>3, <4>2
            <4> HIDE DEF f
            <4> QED BY <3>2, <4>1, <4>2, <4>3 DEF f
        <3> QED BY <1>5, <3>4, <3>5
    <2>2. PICK f \in NtMessages : /\ f.leg = 1 /\ f.age = 0 /\ OnItsWay(f) /\ f.topic \in Toggles
                                /\ f.value \in 0..1
                                /\ ntFlights' = q \o <<f>>
        BY <2>1
    <2>3. q \in Seq(NtMessages)
        BY <1>1 DEF AllGood
    <2>4. ntFlights' = Append(q, f) /\ ntSeq' = ntSeq
        BY <1>5, <2>2, <2>3 DEF Happens
    <2>5. AllGood(ntFlights') /\ Ordered(ntFlights', ntSeq)
        BY <1>1, <1>2, <1>3, <2>2, <2>4 DEF Toggles
    <2>6. InTwos(ntFlights')
        BY <1>1, <2>2, <2>3, <2>4, SendKeepsTwos DEF Toggles
    <2> QED BY <1>1, <2>4, <2>5, <2>6 DEF AllGood, Ordered
<1> QED BY <1>4, <1>5

\* A timeout that answers sends the answer behind those on their way.
LEMMA TimeoutKeeps ==
    ASSUME PubsubInv, TimeoutRuns
    PROVE  PubsubInv'
<1> DEFINE q == ntFlights  v == ntTopics["pir"]
<1>1. /\ q \in Seq(NtMessages) /\ \A i \in 1..Len(q) : OnItsWay(q[i])
      /\ ntTimers \in Seq(Thens) /\ InTwos(q) /\ v \in 0..1
      /\ \A i \in 1..Len(q) : q[i].topic \in Toggles => q[i].value \in 0..1
    BY DEF PubsubInv, Toggles
<1>2. /\ ntTimers /= <<>> /\ ntTimers' = Tail(ntTimers)
      /\ Head(ntTimers) = Nothing => ntFlights' = q
      /\ Head(ntTimers) /= Nothing => ntFlights' = Append(q, Publish("pis", Head(ntTimers), Nothing))
      /\ UNCHANGED <<ntTopics, ntSeq, ntAuto, ntPace>>
    BY DEF TimeoutRuns
<1>3. /\ Head(ntTimers) = ntTimers[1] /\ 1 \in 1..Len(ntTimers) /\ Head(ntTimers) \in Thens
      /\ Tail(ntTimers) \in Seq(Thens) /\ Len(Tail(ntTimers)) = Len(ntTimers) - 1
      /\ Len(ntTimers) \in Nat
      /\ \A i \in 1..Len(Tail(ntTimers)) : Tail(ntTimers)[i] = ntTimers[i + 1]
    BY <1>1, <1>2
<1> DEFINE f == Publish("pis", Head(ntTimers), Nothing)
<1>4. Head(ntTimers) /= Nothing => /\ f \in NtMessages /\ f.leg = 1 /\ f.age = 0 /\ OnItsWay(f)
                                   /\ f.topic = "pis" /\ f.value = Head(ntTimers)
    <2>1. Head(ntTimers) /= Nothing => Head(ntTimers) \in Nat
        BY <1>3 DEF Thens, Nothing
    <2> QED BY <2>1, LegsAre DEF Publish, NtMessages, NtTopics, OnItsWay, Thens
<1> HIDE DEF f
<1>5. /\ ntFlights' \in Seq(NtMessages) /\ \A i \in 1..Len(ntFlights') : OnItsWay(ntFlights'[i])
      /\ \A i \in 1..Len(ntFlights') : ntFlights'[i].topic \in Toggles => ntFlights'[i].value \in 0..1
      /\ InTwos(ntFlights')
    <2>1. CASE Head(ntTimers) = Nothing
        BY <1>1, <1>2, <2>1
    <2>2. CASE Head(ntTimers) /= Nothing
        <3>1. ntFlights' = Append(q, f)
            BY <1>2, <2>2 DEF f
        <3>2. /\ Append(q, f) \in Seq(NtMessages)
              /\ \A i \in 1..Len(Append(q, f)) : OnItsWay(Append(q, f)[i])
            BY <1>1, <1>4, <2>2, SendKeeps
        <3>3. \A i \in 1..Len(Append(q, f)) : \/ i \in 1..Len(q) /\ Append(q, f)[i] = q[i]
                                              \/ Append(q, f)[i] = f
            BY <1>1, <1>4, <2>2, SentBehind
        <3>4. InTwos(Append(q, f))
            BY <1>1, <1>4, <2>2, SendKeepsTwos
        <3>5. f.topic \notin Toggles
            BY <1>4, <2>2 DEF Toggles
        <3> QED BY <1>1, <3>1, <3>2, <3>3, <3>4, <3>5
    <2> QED BY <2>1, <2>2
<1>6. ASSUME NEW d \in NtSteps, ntPace = {d}
      PROVE  /\ Spaced(ntFlights', d) /\ WillShow(ntFlights', ntTopics, "raw", ntSeq)
             /\ NoneOf(ntFlights', "pir") => WillAnswer(Tail(ntTimers), ntFlights', ntTopics, v)
    <2>1. /\ Spaced(q, d) /\ WillShow(q, ntTopics, "raw", ntSeq)
          /\ NoneOf(q, "pir") => WillAnswer(ntTimers, q, ntTopics, v)
        BY <1>6 DEF PubsubInv
    <2> HIDE DEF v
    <2>2. ASSUME \A j \in 1..Len(ntTimers) : j > 1 => ntTimers[j] = Nothing
          PROVE  \A j \in 1..Len(Tail(ntTimers)) : Tail(ntTimers)[j] = Nothing
        <3> SUFFICES ASSUME NEW j \in 1..Len(Tail(ntTimers)) PROVE ntTimers[j + 1] = Nothing
            BY <1>3
        <3>1. j + 1 \in 1..Len(ntTimers) /\ j + 1 > 1
            BY <1>3
        <3> QED BY <2>2, <3>1
    <2>3. ASSUME NEW i \in 1..Len(ntTimers), i > 1, ntTimers[i] = v,
                 \A j \in 1..Len(ntTimers) : j > i => ntTimers[j] = Nothing
          PROVE  \A topics, s : WillAnswer(Tail(ntTimers), s, topics, v)
        <3>1. i - 1 \in 1..Len(Tail(ntTimers)) /\ (i - 1) + 1 = i
            BY <1>3, <2>3
        <3>2. Tail(ntTimers)[i - 1] = v
            BY <1>3, <2>3, <3>1
        <3>3. ASSUME NEW j \in 1..Len(Tail(ntTimers)), j > i - 1 PROVE Tail(ntTimers)[j] = Nothing
            <4>1. j + 1 \in 1..Len(ntTimers) /\ j + 1 > i
                BY <1>3, <3>3
            <4> QED BY <1>3, <2>3, <4>1
        <3> QED BY <3>1, <3>2, <3>3 DEF WillAnswer
    <2>4. ASSUME NoneOf(q, "pir")
          PROVE  \/ \A topics, s : WillAnswer(Tail(ntTimers), s, topics, v)
                 \/ /\ Head(ntTimers) = v
                    /\ \A j \in 1..Len(Tail(ntTimers)) : Tail(ntTimers)[j] = Nothing
                 \/ /\ Head(ntTimers) = Nothing /\ WillShow(q, ntTopics, "pis", v)
                    /\ \A j \in 1..Len(Tail(ntTimers)) : Tail(ntTimers)[j] = Nothing
        <3>1. CASE \E i \in 1..Len(ntTimers) :
                      /\ ntTimers[i] = v /\ \A j \in 1..Len(ntTimers) : j > i => ntTimers[j] = Nothing
            <4>1. PICK i \in 1..Len(ntTimers) :
                      /\ ntTimers[i] = v /\ \A j \in 1..Len(ntTimers) : j > i => ntTimers[j] = Nothing
                BY <3>1
            <4>2. i = 1 \/ i > 1
                OBVIOUS
            <4>3. CASE i = 1
                BY <1>3, <2>2, <4>1, <4>3
            <4>4. CASE i > 1
                BY <2>3, <4>1, <4>4
            <4> QED BY <4>2, <4>3, <4>4
        <3>2. CASE (\A j \in 1..Len(ntTimers) : ntTimers[j] = Nothing) /\ WillShow(q, ntTopics, "pis", v)
            BY <1>3, <2>2, <3>2
        <3> QED BY <2>1, <2>4, <3>1, <3>2 DEF WillAnswer
    <2>5. CASE Head(ntTimers) = Nothing
        <3>1. ntFlights' = q /\ Head(ntTimers) /= v
            BY <1>1, <1>2, <2>5 DEF Nothing, v
        <3>2. NoneOf(q, "pir") => WillAnswer(Tail(ntTimers), q, ntTopics, v)
            BY <2>4, <3>1 DEF WillAnswer
        <3> QED BY <2>1, <3>1, <3>2
    <2>6. CASE Head(ntTimers) /= Nothing
        <3>1. ntFlights' = Append(q, f)
            BY <1>2, <2>6 DEF f
        <3>2. /\ f \in NtMessages /\ f.leg = 1 /\ f.age = 0 /\ OnItsWay(f)
              /\ f.topic = "pis" /\ f.value = Head(ntTimers)
            BY <1>4, <2>6
        <3>3. /\ Spaced(Append(q, f), d)
              /\ \A w : WillShow(q, ntTopics, "raw", w) /\ "raw" /= f.topic =>
                           WillShow(Append(q, f), ntTopics, "raw", w)
              /\ NoneOf(Append(q, f), "pir") => NoneOf(q, "pir")
              /\ WillShow(Append(q, f), ntTopics, f.topic, f.value)
            BY <1>1, <2>1, <3>2, SendKeeps
        <3>4. /\ Spaced(Append(q, f), d)
              /\ WillShow(Append(q, f), ntTopics, "raw", ntSeq)
              /\ NoneOf(Append(q, f), "pir") => NoneOf(q, "pir")
              /\ WillShow(Append(q, f), ntTopics, "pis", Head(ntTimers))
            BY <2>1, <3>2, <3>3
        <3>5. NoneOf(q, "pir") => WillAnswer(Tail(ntTimers), Append(q, f), ntTopics, v)
            BY <2>4, <2>6, <3>4 DEF WillAnswer
        <3> QED BY <3>1, <3>4, <3>5
    <2> QED BY <2>5, <2>6
<1>7. /\ ntTopics \in [NtTopics -> Nat] /\ \A k \in Toggles : ntTopics[k] \in 0..1
      /\ ntTopics["has"] = SawTag(ntTopics["raw"]) /\ ntSeq \in Nat /\ ntAuto \in 0..4
      /\ ntPace \subseteq NtSteps
    BY DEF PubsubInv
<1> HIDE DEF f, q
<1> QED BY <1>2, <1>3, <1>5, <1>6, <1>7 DEF PubsubInv

\* A frame.
LEMMA FrameKeeps ==
    ASSUME PubsubInv, FliesOn
    PROVE  PubsubInv'
<1> DEFINE q == ntFlights
<1>1. /\ q \in Seq(NtMessages) /\ \A i \in 1..Len(q) : OnItsWay(q[i])
      /\ ntTimers \in Seq(Thens) /\ InTwos(q) /\ ntPace \subseteq NtSteps
      /\ ntTopics \in [NtTopics -> Nat] /\ \A k \in Toggles : ntTopics[k] \in 0..1
      /\ ntTopics["has"] = SawTag(ntTopics["raw"]) /\ ntSeq \in Nat /\ ntAuto \in 0..4
      /\ \A i \in 1..Len(q) : q[i].topic \in Toggles => q[i].value \in 0..1
    BY DEF PubsubInv
<1>2. PICK d \in ntPace :
          LET moved == [i \in DOMAIN q |-> Aged(q[i], d)]
              gone == Landed(moved)
          IN  /\ ntFlights' = Flying(moved) \o SecondLegs(moved)
              /\ ntTopics' = [k \in DOMAIN ntTopics |-> ShownOf(k, gone)]
              /\ ntTimers' = ntTimers \o [i \in DOMAIN gone |-> gone[i].then]
              /\ UNCHANGED <<ntSeq, ntAuto, ntPace>>
    BY DEF FliesOn
<1>3. d \in NtSteps
    BY <1>1
<1>4. FrameOn(q, d) = [i \in DOMAIN q |-> Aged(q[i], d)]
    BY <1>1 DEF FrameOn
<1> DEFINE r == Flying(FrameOn(q, d)) \o SecondLegs(FrameOn(q, d))
           landed == Landed(FrameOn(q, d))
           thens == [i \in DOMAIN landed |-> landed[i].then]
<1>5. /\ ntFlights' = r /\ ntTopics' = [k \in DOMAIN ntTopics |-> ShownOf(k, landed)]
      /\ ntTimers' = ntTimers \o thens /\ UNCHANGED <<ntSeq, ntAuto, ntPace>>
    BY <1>2, <1>4
<1>6. r \in Seq(NtMessages) /\ \E from, m : FrameMoves(q, r, d, from, m)
    BY <1>1, <1>3, FlyingAre
<1>7. landed \in Seq(NtMessages) /\ \E down : FrameLands(q, landed, d, down)
    BY <1>1, <1>3, LandedAre
<1> HIDE DEF r, landed
<1>8. PICK from, m : FrameMoves(q, r, d, from, m)
    BY <1>6
<1>9. PICK down : FrameLands(q, landed, d, down)
    BY <1>7
<1>10. ntTopics' \in [NtTopics -> Nat] /\ \A k \in NtTopics : ntTopics'[k] = ShownOf(k, landed)
    BY <1>1, <1>5, <1>7, RowsAre
<1>11. \A i \in 1..Len(landed) : landed[i].topic \in Toggles => landed[i].value \in 0..1
    <2>1. \A i \in 1..Len(landed) : /\ down[i] \in 1..Len(q) /\ landed[i].topic = q[down[i]].topic
                                    /\ landed[i].value = q[down[i]].value
        BY <1>9 DEF FrameLands
    <2> QED BY <1>1, <2>1
<1>12. \A k \in Toggles : ntTopics'[k] \in 0..1
    <2> SUFFICES ASSUME NEW k \in Toggles PROVE ntTopics'[k] \in 0..1
        OBVIOUS
    <2>1. ntTopics'[k] = ShownOf(k, landed)
        BY <1>10 DEF Toggles, NtTopics
    <2>2. \/ ShownOf(k, landed) = ntTopics[k]
          \/ \E p \in 1..Len(landed) : landed[p].topic = k /\ ShownOf(k, landed) = landed[p].value
        BY <1>7, ShownIs
    <2> QED BY <1>1, <1>11, <2>1, <2>2
<1>13. \A i \in 1..Len(r) : r[i].topic \in Toggles => r[i].value \in 0..1
    <2>1. \A i \in 1..Len(r) : /\ from[i] \in 1..Len(q) /\ r[i].topic = q[from[i]].topic
                               /\ r[i].value = q[from[i]].value
        BY <1>8 DEF FrameMoves
    <2> QED BY <1>1, <2>1
<1>14. thens \in Seq(Thens)
    <2>1. \A i \in 1..Len(landed) : landed[i].then \in Thens
        BY <1>7, PartsOf
    <2>2. DOMAIN landed = 1..Len(landed) /\ Len(landed) \in Nat
        BY <1>7
    <2> QED BY <2>1, <2>2
<1> HIDE DEF thens
<1>15. ntTimers' \in Seq(Thens)
    BY <1>1, <1>5, <1>14
<1>16. ntTopics'["has"] = SawTag(ntTopics'["raw"])
    <2>1. ShownOf("has", landed) = SawTag(ShownOf("raw", landed))
        BY <1>1, <1>3, <1>7, <1>9, RowsTogether
    <2> QED BY <1>10, <2>1 DEF NtTopics
<1>17. InTwos(r) /\ \A i \in 1..Len(r) : OnItsWay(r[i])
    BY <1>1, <1>3, <1>6, <1>8, FrameKeepsTwos, FrameSpaces
<1>18. ASSUME NEW e \in NtSteps, ntPace = {e}
       PROVE  /\ Spaced(r, e) /\ WillShow(r, ntTopics', "raw", ntSeq)
              /\ NoneOf(r, "pir") => WillAnswer(ntTimers', r, ntTopics', ntTopics'["pir"])
    <2>1. e = d
        BY <1>18
    <2>2. /\ Spaced(q, d) /\ WillShow(q, ntTopics, "raw", ntSeq)
          /\ NoneOf(q, "pir") => WillAnswer(ntTimers, q, ntTopics, ntTopics["pir"])
        BY <1>3, <1>18, <2>1 DEF PubsubInv
    <2>3. Spaced(r, d)
        BY <1>1, <1>3, <1>6, <1>8, <2>2, FrameSpaces
    <2>4. ntTopics'["raw"] = ShownOf("raw", landed)
        BY <1>10 DEF NtTopics
    <2>5. WillShow(r, ntTopics', "raw", ntSeq)
        BY <1>1, <1>3, <1>6, <1>7, <1>8, <1>9, <2>2, <2>4, FrameKeepsTold
    <2>6. NoneOf(r, "pir") => WillAnswer(ntTimers \o thens, r, ntTopics', ntTopics'["pir"])
        BY <1>1, <1>3, <1>6, <1>7, <1>8, <1>9, <1>10, <2>2, FrameAnswers DEF thens
    <2> QED BY <1>5, <2>1, <2>3, <2>5, <2>6
<1> QED BY <1>1, <1>5, <1>6, <1>10, <1>12, <1>13, <1>15, <1>16, <1>17, <1>18 DEF PubsubInv

\* So every step of the diagram keeps the messages of a topic in order.
LEMMA PubsubStep == PubsubInv /\ [PubsubNext]_pubsubVars => PubsubInv'
<1> SUFFICES ASSUME PubsubInv, [PubsubNext]_pubsubVars PROVE PubsubInv'
    OBVIOUS
<1>1. ASSUME NEW event \in {"result", "record", "pipe"}, Happens(event), ntAuto' \in 0..4
      PROVE  PubsubInv'
    <2>1. /\ ntFlights' \in Seq(NtMessages) /\ \A i \in 1..Len(ntFlights') : OnItsWay(ntFlights'[i])
          /\ \A i \in 1..Len(ntFlights') : ntFlights'[i].topic \in Toggles => ntFlights'[i].value \in 0..1
          /\ ntSeq' \in Nat /\ InTwos(ntFlights')
          /\ \A d \in NtSteps : ntPace = {d} =>
                /\ Spaced(ntFlights', d)
                /\ WillShow(ntFlights', ntTopics, "raw", ntSeq')
                /\ NoneOf(ntFlights', "pir") =>
                      WillAnswer(ntTimers, ntFlights', ntTopics, ntTopics["pir"])
        BY <1>1, EventsKeep
    <2>2. UNCHANGED <<ntTopics, ntTimers, ntPace>>
        BY <1>1 DEF Happens
    <2> QED BY <1>1, <2>1, <2>2 DEF PubsubInv
<1>2. CASE \E event \in {"result", "record", "pipe"} : Click(event)
    BY <1>1, <1>2 DEF Click, PubsubInv
<1>3. CASE DemoPlays
    <2> DEFINE event == <<"result", "result", "pipe", "result", "record">>[ntAuto + 1]
    <2>1. ntAuto \in 0..4
        BY DEF PubsubInv
    <2>2. event \in {"result", "record", "pipe"} /\ (ntAuto + 1) % 5 \in 0..4
        BY <2>1
    <2>3. Happens(event) /\ ntAuto' = (ntAuto + 1) % 5
        BY <1>3 DEF DemoPlays
    <2> HIDE DEF event
    <2> QED BY <1>1, <2>2, <2>3
<1>4. CASE FliesOn
    BY <1>4, FrameKeeps
<1>5. CASE TimeoutRuns
    BY <1>5, TimeoutKeeps
<1>6. CASE UNCHANGED pubsubVars
    BY <1>6 DEF pubsubVars, PubsubInv
<1> QED BY <1>2, <1>3, <1>4, <1>5, <1>6 DEF PubsubNext

\* It holds before anything is published.
LEMMA PubsubStart == PubsubInit => PubsubInv
<1> SUFFICES ASSUME PubsubInit PROVE PubsubInv
    OBVIOUS
<1>1. /\ ntTopics = [raw |-> 0, has |-> 0, pir |-> 0, pis |-> 0, rec |-> 0]
      /\ ntFlights = <<>> /\ ntTimers = <<>> /\ ntSeq = 0 /\ ntAuto = 0 /\ ntPace \subseteq NtSteps
    BY DEF PubsubInit
<1>2. ntTopics \in [NtTopics -> Nat] /\ \A k \in NtTopics : ntTopics[k] = 0
    BY <1>1 DEF NtTopics
<1>3. SawTag(0) = 0 /\ "raw" \in NtTopics /\ "has" \in NtTopics /\ "pir" \in NtTopics
      /\ "pis" \in NtTopics /\ Toggles \subseteq NtTopics
    BY DEF SawTag, NtTopics, Toggles
<1>4. Len(<<>>) = 0 /\ 1..0 = {} /\ <<>> \in Seq(NtMessages) /\ <<>> \in Seq(Thens)
    OBVIOUS
<1>5. InTwos(<<>>) /\ \A d : Spaced(<<>>, d)
    BY <1>4 DEF InTwos, Spaced
<1>6. \A k : NoneOf(<<>>, k)
    BY <1>4 DEF NoneOf
<1>7. WillShow(<<>>, ntTopics, "raw", 0) /\ WillShow(<<>>, ntTopics, "pis", 0)
    BY <1>2, <1>3, <1>6 DEF WillShow
<1>8. WillAnswer(<<>>, <<>>, ntTopics, 0)
    BY <1>4, <1>7 DEF WillAnswer
<1> QED BY <1>1, <1>2, <1>3, <1>4, <1>5, <1>7, <1>8 DEF PubsubInv

\* And once none is on its way the rows show the last of each.
LEMMA PubsubAnswers == PubsubInv => StateAnswersRequest
<1> SUFFICES ASSUME PubsubInv PROVE StateAnswersRequest
    OBVIOUS
<1>1. ntTopics.has = SawTag(ntTopics.raw)
    BY DEF PubsubInv
<1>2. ASSUME Busy = 0, NEW d \in NtSteps, ntPace = {d}
      PROVE  ntTopics.raw = ntSeq /\ ntTopics.pis = ntTopics.pir
    <2>1. ntFlights \in Seq(NtMessages) /\ ntTimers \in Seq(Thens)
        BY DEF PubsubInv
    <2>2. Len(ntFlights) = 0 /\ Len(ntTimers) = 0
        BY <1>2, <2>1 DEF Busy
    <2>3. \A k : NoneOf(ntFlights, k) /\ \A i : ~LastShown(ntFlights, k, i)
        BY <2>2 DEF NoneOf, LastShown
    <2>4. /\ WillShow(ntFlights, ntTopics, "raw", ntSeq)
          /\ NoneOf(ntFlights, "pir") => WillAnswer(ntTimers, ntFlights, ntTopics, ntTopics["pir"])
        BY <1>2 DEF PubsubInv
    <2>5. WillShow(ntFlights, ntTopics, "pis", ntTopics["pir"])
        BY <2>2, <2>3, <2>4 DEF WillAnswer
    <2> QED BY <2>3, <2>4, <2>5 DEF WillShow
<1> QED BY <1>1, <1>2 DEF StateAnswersRequest

-----------------------------------------------------------------------------
(* The Hamming lab (ch/02-apriltags.js): which tag is nearest to a pattern. The codes are far  *)
(* apart (CodesApart, of the upright codes against the turned ones), turning a pattern keeps     *)
(* how far it is from another turned with it, and distances obey the triangle inequality.        *)

\* Where rot6 takes a square's colour from.
TurnedFrom(s) == 6 * (5 - (s % 6)) + s \div 6

\* Four quarter turns bring each square back.
LEMMA FourTurns ==
    ASSUME NEW s \in Squares
    PROVE  TurnedFrom(s) \in Squares /\ TurnedFrom(TurnedFrom(TurnedFrom(TurnedFrom(s)))) = s
<1>1. ASSUME NEW x \in 0..5, NEW y \in 0..5
      PROVE  6 * x + y \in Squares /\ TurnedFrom(6 * x + y) = 6 * (5 - y) + x
    BY DEF TurnedFrom, Squares
<1>2. s \div 6 \in 0..5 /\ s % 6 \in 0..5 /\ s = 6 * (s \div 6) + (s % 6)
    BY DEF Squares
<1> DEFINE x == s \div 6  y == s % 6
<1> HIDE DEF x, y
<1>3. x \in 0..5 /\ y \in 0..5 /\ 5 - x \in 0..5 /\ 5 - y \in 0..5 /\ s = 6 * x + y
      /\ 5 - (5 - x) = x /\ 5 - (5 - y) = y
    BY <1>2 DEF x, y
<1>4. /\ TurnedFrom(s) = 6 * (5 - y) + x /\ TurnedFrom(s) \in Squares
      /\ TurnedFrom(6 * (5 - y) + x) = 6 * (5 - x) + (5 - y)
      /\ TurnedFrom(6 * (5 - x) + (5 - y)) = 6 * y + (5 - x)
      /\ TurnedFrom(6 * y + (5 - x)) = 6 * x + y
    BY <1>1, <1>3
<1> QED BY <1>3, <1>4

\* rot6 four times is no turn.
LEMMA TurnsBack ==
    ASSUME NEW w, w \subseteq Squares
    PROVE  Rot6(w) \subseteq Squares /\ Rot6(Rot6(Rot6(Rot6(w)))) = w
<1>1. \A v, s : s \in Rot6(v) <=> s \in Squares /\ TurnedFrom(s) \in v
    BY DEF Rot6, TurnedFrom
<1>2. \A s \in Squares : TurnedFrom(s) \in Squares
    BY FourTurns
<1>3. \A s \in Squares : s \in Rot6(Rot6(Rot6(Rot6(w)))) <=>
                         TurnedFrom(TurnedFrom(TurnedFrom(TurnedFrom(s)))) \in w
    BY <1>1, <1>2
<1>4. \A s \in Squares : s \in Rot6(Rot6(Rot6(Rot6(w)))) <=> s \in w
    BY <1>3, FourTurns
<1> QED BY <1>1, <1>4

\* The squares in which two patterns differ, which hamming() counts.
Differing(v, w) == (v \ w) \union (w \ v)

\* The squares in which two patterns differ are finitely many, and the same both ways.
LEMMA DifferingAre ==
    ASSUME NEW v, v \subseteq Squares, NEW w, w \subseteq Squares
    PROVE  /\ Differing(v, w) \subseteq Squares /\ IsFiniteSet(Differing(v, w))
           /\ Hamming(v, w) = Cardinality(Differing(v, w)) /\ Hamming(v, w) \in Nat
           /\ Hamming(v, w) = Hamming(w, v)
<1>1. IsFiniteSet(Squares)
    <2>1. 0 \in Int /\ 35 \in Int
        OBVIOUS
    <2>2. IsFiniteSet(0..35)
        BY ONLY <2>1, FS_Interval
    <2> QED BY <2>2 DEF Squares
<1>2. Differing(v, w) \subseteq Squares /\ Differing(v, w) = Differing(w, v)
    BY DEF Differing
<1>3. IsFiniteSet(Differing(v, w))
    BY <1>1, <1>2, FS_Subset
<1> QED BY <1>2, <1>3, FS_CardinalityType DEF Hamming, Differing

\* Distances through a third pattern are no shorter.
LEMMA NoShorterAround ==
    ASSUME NEW u, u \subseteq Squares, NEW v, v \subseteq Squares, NEW w, w \subseteq Squares
    PROVE  Hamming(u, w) <= Hamming(u, v) + Hamming(v, w)
<1> DEFINE a == Differing(u, v)  b == Differing(v, w)  c == Differing(u, w)
<1>1. /\ IsFiniteSet(a) /\ IsFiniteSet(b) /\ IsFiniteSet(c)
      /\ Hamming(u, v) = Cardinality(a) /\ Hamming(v, w) = Cardinality(b) /\ Hamming(u, w) = Cardinality(c)
    BY DifferingAre
<1>2. c \subseteq a \union b
    BY DEF Differing
<1> HIDE DEF a, b, c
<1>3. IsFiniteSet(a \union b) /\ IsFiniteSet(a \cap b)
      /\ Cardinality(a \union b) = Cardinality(a) + Cardinality(b) - Cardinality(a \cap b)
    BY <1>1, FS_Union, FS_Intersection
<1>4. Cardinality(c) <= Cardinality(a \union b)
    BY <1>2, <1>3, FS_Subset
<1>5. Cardinality(a) \in Nat /\ Cardinality(b) \in Nat /\ Cardinality(c) \in Nat /\ Cardinality(a \cap b) \in Nat
    BY <1>1, <1>3, FS_CardinalityType
<1> QED BY <1>1, <1>3, <1>4, <1>5

\* Two patterns turned together stay as far apart.
LEMMA TurnedTogether ==
    ASSUME NEW v, v \subseteq Squares, NEW w, w \subseteq Squares
    PROVE  Hamming(Rot6(v), Rot6(w)) = Hamming(v, w)
<1> DEFINE from == Differing(Rot6(v), Rot6(w))  to == Differing(v, w)
           f == [s \in from |-> TurnedFrom(s)]
<1>1. Rot6(v) \subseteq Squares /\ Rot6(w) \subseteq Squares
    BY TurnsBack
<1>2. /\ from \subseteq Squares /\ to \subseteq Squares /\ IsFiniteSet(from)
      /\ Hamming(Rot6(v), Rot6(w)) = Cardinality(from) /\ Hamming(v, w) = Cardinality(to)
    BY <1>1, DifferingAre
<1>3. \A s \in Squares : s \in from <=> TurnedFrom(s) \in to
    BY FourTurns DEF Rot6, TurnedFrom, Differing
<1> HIDE DEF from, to
<1>4. f \in [from -> to]
    BY <1>2, <1>3
<1>5. \A s, t \in from : f[s] = f[t] => s = t
    <2> SUFFICES ASSUME NEW s \in from, NEW t \in from, TurnedFrom(s) = TurnedFrom(t) PROVE s = t
        OBVIOUS
    <2>1. s = TurnedFrom(TurnedFrom(TurnedFrom(TurnedFrom(s)))) /\ t = TurnedFrom(TurnedFrom(TurnedFrom(TurnedFrom(t))))
        BY <1>2, FourTurns
    <2> QED BY <2>1
<1>6. \A t \in to : \E s \in from : f[s] = t
    <2> SUFFICES ASSUME NEW t \in to PROVE \E s \in from : TurnedFrom(s) = t
        OBVIOUS
    <2> DEFINE s == TurnedFrom(TurnedFrom(TurnedFrom(t)))
    <2>1. t \in Squares
        BY <1>2
    <2>2. TurnedFrom(t) \in Squares /\ TurnedFrom(TurnedFrom(t)) \in Squares /\ s \in Squares /\ TurnedFrom(s) = t
        BY <2>1, FourTurns
    <2> HIDE DEF s
    <2>3. s \in from
        BY <1>3, <2>2
    <2> QED BY <2>2, <2>3
<1>7. f \in Bijection(from, to)
    BY <1>4, <1>5, <1>6, Fun_IsBij
<1>8. Cardinality(to) = Cardinality(from)
    BY <1>2, <1>7, FS_Bijection DEF ExistsBijection
<1> QED BY <1>2, <1>8

\* CODES: every rotation is the next of the one before.
LEMMA CodesTurned ==
    ASSUME NEW id \in Ids, NEW r \in Rotations
    PROVE  /\ Turned[id][r] \subseteq Squares /\ (r + 1) % 4 \in Rotations
           /\ Turned[id][(r + 1) % 4] = Rot6(Turned[id][r])
<1>1. \A i \in Bits : SquareOf(i) \in Squares
    BY DEF Bits, SquareOf, BitX, BitY, Squares
<1> DEFINE a == Data6(id)  b == Rot6(a)  c == Rot6(b)  d == Rot6(c)
<1>2. a \subseteq Squares
    BY <1>1 DEF Data6
<1> HIDE DEF a
<1>3. b \subseteq Squares /\ c \subseteq Squares /\ d \subseteq Squares /\ Rot6(d) = a
    BY <1>2, TurnsBack
<1> HIDE DEF b, c, d
<1>4. Turned[id][r] = <<a, b, c, d>>[r + 1] /\ \A k \in Rotations : Turned[id][k] = <<a, b, c, d>>[k + 1]
    BY DEF Turned, a, b, c, d
<1>5. Turned[id][0] = a /\ Turned[id][1] = b /\ Turned[id][2] = c /\ Turned[id][3] = d
    BY <1>4 DEF Rotations
<1>6. \/ r = 0 /\ (r + 1) % 4 = 1
      \/ r = 1 /\ (r + 1) % 4 = 2
      \/ r = 2 /\ (r + 1) % 4 = 3
      \/ r = 3 /\ (r + 1) % 4 = 0
    BY DEF Rotations
<1> QED BY <1>2, <1>3, <1>5, <1>6 DEF b, c, d, Rotations

\* The codes in all rotations are as far apart as the upright ones from all.
LEMMA CodesFar ==
    ASSUME NEW a \in Ids, NEW b \in Ids, NEW r \in Rotations, NEW s \in Rotations, a /= b \/ r /= s
    PROVE  Hamming(Turned[a][r], Turned[b][s]) >= 11
<1> DEFINE Apart(i, j, k, l) == Hamming(Turned[i][k], Turned[j][l]) >= 11
           on(k) == (k + 1) % 4
<1>1. ASSUME NEW i \in Ids, NEW j \in Ids, NEW l \in Rotations, i < j \/ (i = j /\ l /= 0)
      PROVE  Apart(i, j, 0, l)
    <2>1. ~(i = j /\ l = 0) /\ ~(i > j)
        BY <1>1 DEF Ids
    <2> QED BY <2>1, CodesApart
<1>2. ASSUME NEW i \in Ids, NEW j \in Ids, NEW k \in Rotations, NEW l \in Rotations,
             Apart(i, j, on(k), on(l))
      PROVE  Apart(i, j, k, l)
    <2>1. /\ Turned[i][k] \subseteq Squares /\ Turned[i][on(k)] = Rot6(Turned[i][k])
          /\ Turned[j][l] \subseteq Squares /\ Turned[j][on(l)] = Rot6(Turned[j][l])
        BY CodesTurned
    <2>2. Hamming(Rot6(Turned[i][k]), Rot6(Turned[j][l])) = Hamming(Turned[i][k], Turned[j][l])
        BY <2>1, TurnedTogether
    <2> QED BY <1>2, <2>1, <2>2
<1>3. /\ on(0) = 1 /\ on(1) = 2 /\ on(2) = 3 /\ on(3) = 0
      /\ 0 \in Rotations /\ 1 \in Rotations /\ 2 \in Rotations /\ 3 \in Rotations
      /\ \A k \in Rotations : on(k) \in Rotations
      /\ \A k, l \in Rotations : k /= l => on(k) /= on(l)
    BY DEF Rotations
<1> HIDE DEF Apart, on
<1>4. ASSUME NEW i \in Ids, NEW j \in Ids, NEW k \in Rotations, NEW l \in Rotations,
             i < j \/ (i = j /\ k /= l)
      PROVE  Apart(i, j, k, l)
    <2>1. \A h \in Rotations : i < j \/ (i = j /\ 0 /= h) => Apart(i, j, 0, h)
        BY <1>1
    <2>2. \A h \in Rotations : i < j \/ (i = j /\ 3 /= h) => Apart(i, j, 3, h)
        BY <1>2, <1>3, <2>1
    <2>3. \A h \in Rotations : i < j \/ (i = j /\ 2 /= h) => Apart(i, j, 2, h)
        BY <1>2, <1>3, <2>2
    <2>4. \A h \in Rotations : i < j \/ (i = j /\ 1 /= h) => Apart(i, j, 1, h)
        BY <1>2, <1>3, <2>3
    <2>5. k = 0 \/ k = 1 \/ k = 2 \/ k = 3
        BY DEF Rotations
    <2> QED BY <1>4, <2>1, <2>2, <2>3, <2>4, <2>5
<1>5. a < b \/ a = b \/ b < a
    BY DEF Ids
<1>6. CASE b < a
    <2>1. Apart(b, a, s, r)
        BY <1>4, <1>6
    <2> QED BY <2>1, CodesTurned, DifferingAre DEF Apart
<1>7. CASE a < b \/ (a = b /\ r /= s)
    <2>1. Apart(a, b, r, s)
        BY <1>4, <1>7
    <2> QED BY <2>1 DEF Apart
<1> QED BY <1>5, <1>6, <1>7

\* Math.min over numbers.
LEMMA SmallestAre ==
    ASSUME NEW S, S \subseteq Nat, S /= {}
    PROVE  SmallestIn(S) \in S /\ \A y \in S : SmallestIn(S) <= y
<1>1. \E x \in S : \A y \in S : x <= y
    BY LeastNatural
<1> QED BY <1>1 DEF SmallestIn

\* decode(): a pattern at most five squares off a code is read as that tag, so turned, and all
\* other tags are further than five.
LEMMA FiveOffIsRead ==
    ASSUME NEW w, w \subseteq Squares, NEW id \in Ids, NEW rot \in Rotations,
           Hamming(w, Turned[id][rot]) <= 5
    PROVE  LET m == Decode(w)
           IN  m.id = id /\ m.rot = rot /\ m.d = Hamming(w, Turned[id][rot]) /\ m.second > 5
<1> DEFINE d == [i \in Ids |-> [r \in Rotations |-> Hamming(w, Turned[i][r])]]
           perId == [i \in Ids |-> SmallestIn({d[i][r] : r \in Rotations})]
           best == CHOOSE k \in Ids :
                      \A j \in Ids : perId[k] < perId[j] \/ (perId[k] = perId[j] /\ k <= j)
           others == {perId[j] : j \in Ids \ {best}}
           off == Hamming(w, Turned[id][rot])
<1>1. \A i \in Ids, r \in Rotations : d[i][r] = Hamming(w, Turned[i][r]) /\ d[i][r] \in Nat
    BY CodesTurned, DifferingAre
<1>2. d[id][rot] = off /\ off \in Nat /\ off <= 5
    BY <1>1
<1>3. ASSUME NEW i \in Ids, NEW r \in Rotations, i /= id \/ r /= rot PROVE d[i][r] > 5
    <2> DEFINE t == Turned[id][rot]  u == Turned[i][r]
    <2>1. t \subseteq Squares /\ u \subseteq Squares
        BY CodesTurned
    <2>2. Hamming(t, u) >= 11
        BY <1>3, CodesFar
    <2>3. Hamming(t, u) <= Hamming(t, w) + Hamming(w, u) /\ Hamming(t, w) = Hamming(w, t)
        BY <2>1, NoShorterAround, DifferingAre
    <2>4. Hamming(t, u) \in Nat /\ Hamming(w, t) \in Nat /\ Hamming(w, u) \in Nat /\ Hamming(w, t) <= 5
        BY <2>1, DifferingAre
    <2> HIDE DEF t, u
    <2>5. Hamming(w, u) > 5
        BY <2>2, <2>3, <2>4
    <2> QED BY <1>1, <2>5 DEF u
<1> HIDE DEF d, off
<1>4. ASSUME NEW i \in Ids
      PROVE  /\ perId[i] \in Nat /\ \E r \in Rotations : perId[i] = d[i][r]
             /\ \A r \in Rotations : perId[i] <= d[i][r]
    <2> DEFINE row == {d[i][r] : r \in Rotations}
    <2>1. row \subseteq Nat /\ row /= {}
        BY <1>1 DEF Rotations
    <2>2. perId[i] = SmallestIn(row)
        OBVIOUS
    <2>3. SmallestIn(row) \in row /\ \A y \in row : SmallestIn(row) <= y
        BY <2>1, SmallestAre
    <2> QED BY <2>1, <2>2, <2>3
<1> HIDE DEF perId
<1>5. perId[id] = off /\ \A i \in Ids : i /= id => perId[i] > 5
    <2>1. perId[id] <= off
        BY <1>2, <1>4
    <2>2. PICK r \in Rotations : perId[id] = d[id][r]
        BY <1>4
    <2>3. r = rot
        BY <1>1, <1>2, <1>3, <2>1, <2>2
    <2> QED BY <1>2, <1>3, <1>4, <2>2, <2>3
<1>6. best = id
    <2>1. \A j \in Ids : perId[id] < perId[j] \/ (perId[id] = perId[j] /\ id <= j)
        BY <1>2, <1>4, <1>5 DEF Ids
    <2>2. best \in Ids /\ \A j \in Ids : perId[best] < perId[j] \/ (perId[best] = perId[j] /\ best <= j)
        BY <2>1
    <2> HIDE DEF best
    <2>3. perId[best] <= perId[id]
        BY <1>4, <2>2
    <2> QED BY <1>2, <1>4, <1>5, <2>2, <2>3
<1> HIDE DEF best
<1>7. SmallestIn({r \in Rotations : d[best][r] = perId[best]}) = rot
    <2> DEFINE turns == {r \in Rotations : d[best][r] = perId[best]}
    <2>1. turns = {rot}
        <3>1. \A r \in Rotations : d[best][r] = perId[best] <=> r = rot
            BY <1>2, <1>3, <1>5, <1>6
        <3> QED BY <3>1
    <2>2. turns \subseteq Nat /\ turns /= {}
        BY <2>1 DEF Rotations
    <2> HIDE DEF turns
    <2>3. SmallestIn(turns) \in turns
        BY <2>2, SmallestAre
    <2> QED BY <2>1, <2>3 DEF turns
<1>8. SmallestIn(others) > 5
    <2>1. others \subseteq Nat /\ \A x \in others : x > 5
        BY <1>4, <1>5, <1>6
    <2>2. others /= {}
        <3>1. 0 \in Ids /\ 1 \in Ids
            BY DEF Ids
        <3>2. \E i \in Ids : i /= best
            BY <3>1
        <3> QED BY <3>2
    <2> HIDE DEF others
    <2> QED BY <2>1, <2>2, SmallestAre
<1>9. Decode(w) = [id |-> best, rot |-> SmallestIn({r \in Rotations : d[best][r] = perId[best]}),
                   d |-> perId[best], second |-> SmallestIn(others)]
    BY DEF Decode, d, perId, best, others
<1>10. /\ Decode(w).id = best /\ Decode(w).d = perId[best] /\ Decode(w).second = SmallestIn(others)
       /\ Decode(w).rot = SmallestIn({r \in Rotations : d[best][r] = perId[best]})
    BY <1>9
<1> HIDE DEF others
<1>11. perId[best] = off
    BY <1>5, <1>6
<1> QED BY <1>6, <1>7, <1>8, <1>10, <1>11 DEF off

\* However the lab's pattern is flipped, turned or drawn, it is one of squares of the tag.
LEMMA HammingStart == HammingInit => HammingTypeOK
<1> SUFFICES ASSUME HammingInit PROVE HammingTypeOK
    OBVIOUS
<1>1. 3 \in Ids /\ 0 \in Rotations /\ 3 \in 3..HamLastTag
    BY ApriltagsAssumption DEF Ids, Rotations
<1> QED BY <1>1, CodesTurned DEF HammingInit, HammingTypeOK

\* Every step keeps it.
LEMMA HammingStep == HammingTypeOK /\ [HammingNext]_hammingVars => HammingTypeOK'
<1> SUFFICES ASSUME HammingTypeOK, [HammingNext]_hammingVars PROVE HammingTypeOK'
    OBVIOUS
<1> USE DEF HammingTypeOK
<1>1. ASSUME NEW squares \in SUBSET HamCells, FlipSquares(squares) PROVE HammingTypeOK'
    BY <1>1, ApriltagsAssumption DEF FlipSquares, Squares
<1>2. CASE TurnPattern
    BY <1>2 DEF TurnPattern, Rot6
<1>3. ASSUME NEW w \in HamRandom, RandomPattern(w) PROVE HammingTypeOK'
    BY <1>3, ApriltagsAssumption DEF RandomPattern, Squares
<1>4. CASE NextTag
    <2>1. Cardinality(Ids) = 48
        <3>1. 0 \in Int /\ 47 \in Int
            OBVIOUS
        <3>2. Cardinality(0..47) = IF 0 > 47 THEN 0 ELSE 47 - 0 + 1
            BY ONLY <3>1, FS_Interval
        <3> QED BY <3>2 DEF Ids
    <2>2. hmBase' = hmBase + 1 /\ hmBase' \in 3..HamLastTag /\ hmBase' \in Ids
        BY <1>4, <2>1, ApriltagsAssumption DEF NextTag, Ids
    <2>3. Turned[hmBase'][0] \subseteq Squares
        <3>1. 0 \in Rotations
            BY DEF Rotations
        <3> QED BY <2>2, <3>1, CodesTurned
    <2> QED BY <1>4, <2>2, <2>3 DEF NextTag
<1>5. CASE UNCHANGED hammingVars
    BY <1>5 DEF hammingVars
<1> QED BY <1>1, <1>2, <1>3, <1>4, <1>5 DEF HammingNext

\* So of patterns that the lab can hold the tag is read.
LEMMA NearestIsRead == HammingTypeOK => FiveOffIsStillTheTag
BY FiveOffIsRead DEF HammingTypeOK, FiveOffIsStillTheTag

=============================================================================
