----------------------------- MODULE LabsCamera -----------------------------
(***************************************************************************)
(* The labs of the camera chapter (src/training/js/ch/03-camera.js): the   *)
(* exploded view, the journey of light and the labs on one real frame,     *)
(* which start once it has loaded; the slow-motion shutters; and focusing. *)
(***************************************************************************)
EXTENDS Integers

CONSTANTS
    CamVideos,      \* the videos that wait for a click
    LightSteps,     \* the steps of the journey of light that are scrolled to
    CamSliders,     \* the values the sliders of the photo labs are moved to
    ShutterRows,    \* rows of the rolling picture (N)
    ShutterPeriods, \* ticks of a frame at each frame rate (period)
    ShutterMaxDt,   \* the longest step of the loop, in ticks
    FocusLenses     \* the lens positions the focus slider is moved to (0..100)

ASSUME CameraAssumption ==
    /\ LightSteps \subseteq 0..7 /\ 0 \in LightSteps /\ CamSliders /= {}
    /\ ShutterRows \in Nat \ {0} /\ ShutterMaxDt \in Nat
    /\ ShutterPeriods \subseteq Nat \ {0}
    /\ \E p \in ShutterPeriods : \A q \in ShutterPeriods : p >= q
    /\ FocusLenses \subseteq 0..100 /\ 25 \in FocusLenses

-----------------------------------------------------------------------------
(* Videos and the exploded view *)

VARIABLES
    cmPlaying, \* the videos that were clicked
    cmModel,   \* the exploded view: "loading", "ok", "failed"
    cmExplode, \* ex: how far the slider explodes the camera, in tenths
    cmAt,      \* cur: how far it is shown exploded
    cmRotate   \* controls.autoRotate

explodeVars == <<cmPlaying, cmModel, cmExplode, cmAt, cmRotate>>

ExplodeTypeOK ==
    /\ cmPlaying \subseteq CamVideos /\ cmModel \in {"loading", "ok", "failed"}
    /\ cmExplode \in 0..10 /\ cmAt \in 0..10 /\ cmRotate \in BOOLEAN

ExplodeInit ==
    cmPlaying = {} /\ cmModel = "loading" /\ cmExplode = 6 /\ cmAt = 6 /\ cmRotate = TRUE

\* A click on a video puts the player in the button's place.
PlayVideo(v) ==
    /\ v \notin cmPlaying
    /\ cmPlaying' = cmPlaying \cup {v}
    /\ UNCHANGED <<cmModel, cmExplode, cmAt, cmRotate>>

\* The slider is read once the model is there; it may have been moved before.
CameraComes(result) ==
    /\ cmModel = "loading"
    /\ cmModel' = result
    /\ \/ result = "ok" /\ \E v \in {0, 6, 10} : cmExplode' = v /\ cmAt' = v
       \/ result = "failed" /\ UNCHANGED <<cmExplode, cmAt>>
    /\ UNCHANGED <<cmPlaying, cmRotate>>

SlideExplode(v) ==
    /\ cmModel = "ok"
    /\ cmExplode' = v
    /\ UNCHANGED <<cmPlaying, cmModel, cmAt, cmRotate>>

\* Each frame takes the parts some of the way (the code: 15% of it).
ExplodeTick ==
    /\ cmModel = "ok" /\ cmAt /= cmExplode
    /\ cmAt' \in IF cmAt < cmExplode THEN cmAt + 1..cmExplode ELSE cmExplode..cmAt - 1
    /\ UNCHANGED <<cmPlaying, cmModel, cmExplode, cmRotate>>

GrabCamera ==
    /\ cmModel = "ok"
    /\ cmRotate' = FALSE
    /\ UNCHANGED <<cmPlaying, cmModel, cmExplode, cmAt>>

ExplodeNext ==
    \/ \E v \in CamVideos : PlayVideo(v)
    \/ \E result \in {"ok", "failed"} : CameraComes(result)
    \/ \E v \in {0, 6, 10} : SlideExplode(v)
    \/ ExplodeTick
    \/ GrabCamera

-----------------------------------------------------------------------------
(* The journey of light and the labs on one frame *)

VARIABLES
    cmFrame,   \* FRAME: "loading", "ok", "failed"
    cmStep,    \* step: the step of the journey
    cmPicture, \* what its canvas shows, "none" before the first drawing
    cmBayer,   \* the light the three Bayer pictures show, -1 before the first
    cmQuality, \* the quality slider
    cmPend,    \* pend: the quality whose picture is to be made in the next frame, -1 if none
    cmJpeg     \* the quality of the picture shown, -1 before the first

photoVars == <<cmFrame, cmStep, cmPicture, cmBayer, cmQuality, cmPend, cmJpeg>>
jpegVars == <<cmQuality, cmPend, cmJpeg>>

\* What the journey draws at a step.
LightPicture(step) ==
    CASE step <= 2 -> "optics"  [] step = 3 -> "buckets"  [] step = 4 -> "readout"
      [] step = 5 -> "numbers"  [] step = 6 -> "jpeg"     [] OTHER -> "usb"

PhotoTypeOK ==
    /\ cmFrame \in {"loading", "ok", "failed"} /\ cmStep \in LightSteps
    /\ cmPicture \in {"none"} \cup {LightPicture(s) : s \in LightSteps}
    /\ {cmBayer, cmPend, cmJpeg} \subseteq CamSliders \cup {-1} /\ cmQuality \in CamSliders

PhotoInit ==
    /\ cmFrame = "loading" /\ cmStep = 0 /\ cmPicture = "none" /\ cmBayer = -1
    /\ cmQuality = (CHOOSE q \in CamSliders : TRUE) /\ cmPend = -1 /\ cmJpeg = -1

\* FRAME settles: the labs that wait for it start, the sliders of two of them run at once; when
\* it could not load they never start.
PhotoComes(result, light) ==
    /\ cmFrame = "loading"
    /\ cmFrame' = result
    /\ cmBayer' = IF result = "ok" THEN light ELSE cmBayer
    /\ cmPend' = IF result = "ok" THEN cmQuality ELSE cmPend
    /\ UNCHANGED <<cmStep, cmPicture, cmQuality, cmJpeg>>

ScrollLight(s) ==
    /\ cmFrame = "ok"
    /\ cmStep' = s
    /\ UNCHANGED <<cmFrame, cmPicture, cmBayer, jpegVars>>

LightTick ==
    /\ cmFrame = "ok"
    /\ cmPicture' = LightPicture(cmStep)
    /\ UNCHANGED <<cmFrame, cmStep, cmBayer, jpegVars>>

SlideLight(light) ==
    /\ cmFrame = "ok"
    /\ cmBayer' = light
    /\ UNCHANGED <<cmFrame, cmStep, cmPicture, jpegVars>>

\* Moving the quality slider takes back the picture that was to be made and asks for a new one.
SlideQuality(q) ==
    /\ cmQuality' = q
    /\ cmPend' = IF cmFrame = "ok" THEN q ELSE cmPend
    /\ UNCHANGED <<cmFrame, cmStep, cmPicture, cmBayer, cmJpeg>>

JpegFrame ==
    /\ cmPend /= -1
    /\ cmJpeg' = cmPend
    /\ cmPend' = -1
    /\ UNCHANGED <<cmFrame, cmStep, cmPicture, cmBayer, cmQuality>>

PhotoNext ==
    \/ \E result \in {"ok", "failed"}, light \in CamSliders : PhotoComes(result, light)
    \/ \E s \in LightSteps : ScrollLight(s)
    \/ LightTick
    \/ \E light \in CamSliders : SlideLight(light)
    \/ \E q \in CamSliders : SlideQuality(q)
    \/ JpegFrame

-----------------------------------------------------------------------------
(* Global and rolling shutter *)

VARIABLES
    rsMode,    \* mode: "tag" or "prop"
    rsPeriod,  \* period(): ticks of a frame at the chosen rate
    rsFrameT,  \* frameT: ticks since the frame began
    rsRow,     \* lastRow: the rows of this frame that are read out
    rsNew,     \* lastRow === 0: the frame is to begin
    rsGlobal,  \* ticks since the global shutter's photo was taken
    rsAge,     \* ticks since each row of the rolling picture was painted
    rsBright,  \* the rows painted since the picture was dimmed
    rsFigures  \* what the readouts are of: mode and period

shutterVars == <<rsMode, rsPeriod, rsFrameT, rsRow, rsNew, rsGlobal, rsAge, rsBright, rsFigures>>

\* Bound: a row's age is counted no further than two frames.
OldRow == 2 * (CHOOSE p \in ShutterPeriods : \A q \in ShutterPeriods : p >= q)
ShutterLines == 0..ShutterRows - 1

ShutterTypeOK ==
    /\ rsMode \in {"tag", "prop"} /\ rsPeriod \in ShutterPeriods /\ rsFrameT \in 0..OldRow
    /\ rsRow \in 0..ShutterRows /\ rsNew \in BOOLEAN /\ rsGlobal \in 0..OldRow
    /\ rsAge \in [ShutterLines -> 0..OldRow] /\ rsBright \subseteq ShutterLines
    /\ rsFigures \in {"tag", "prop"} \X ShutterPeriods

ShutterInit ==
    /\ rsMode = "tag" /\ rsPeriod = (CHOOSE p \in ShutterPeriods : TRUE) /\ rsFrameT = 0
    /\ rsRow = 0 /\ rsNew = TRUE /\ rsGlobal = 0 /\ rsAge = [r \in ShutterLines |-> 0]
    /\ rsBright = {} /\ rsFigures = <<rsMode, rsPeriod>>

\* restart: both photos are taken anew, the rolling one dimmed.
PickScene(mode) ==
    /\ rsMode' = mode
    /\ rsFrameT' = 0 /\ rsRow' = 0 /\ rsNew' = TRUE /\ rsGlobal' = 0 /\ rsBright' = {}
    /\ rsAge' = [r \in ShutterLines |-> 0] /\ rsFigures' = <<mode, rsPeriod>>
    /\ UNCHANGED rsPeriod

SlideRate(period) ==
    /\ rsPeriod' = period
    /\ rsFigures' = <<rsMode, period>>
    /\ UNCHANGED <<rsMode, rsFrameT, rsRow, rsNew, rsGlobal, rsAge, rsBright>>

\* The row the readout has come to: it takes 90% of the frame.
RowRead(t) == LET row == (10 * t * ShutterRows) \div (9 * rsPeriod)
              IN  IF row > ShutterRows THEN ShutterRows ELSE row

\* A frame begins: with the first step after a restart, and when the period is over.
FrameBegins(t) == rsNew \/ t >= rsPeriod

\* Site.loop's callback: the global shutter takes its photo as a frame begins, and the rolling
\* picture is dimmed; then the rows read out since the last step are painted.
ShutterTick(dt) ==
    LET t == rsFrameT + dt
        now == IF t >= rsPeriod THEN t % rsPeriod ELSE t
        begins == FrameBegins(t)
        last == IF begins THEN 0 ELSE rsRow
        row == RowRead(now)
        older == [r \in ShutterLines |-> IF rsAge[r] + dt > OldRow THEN OldRow ELSE rsAge[r] + dt]
    IN  /\ rsFrameT' = now
        /\ rsGlobal' = IF begins THEN 0 ELSE IF rsGlobal + dt > OldRow THEN OldRow
                                             ELSE rsGlobal + dt
        /\ rsRow' = IF row > last THEN row ELSE last
        /\ rsNew' = FALSE
        /\ rsAge' = [r \in ShutterLines |-> IF r \in last..row - 1 THEN 0 ELSE older[r]]
        /\ rsBright' = (IF begins THEN {} ELSE rsBright) \cup (last..row - 1)
        /\ UNCHANGED <<rsMode, rsPeriod, rsFigures>>

ShutterNext ==
    \/ \E mode \in {"tag", "prop"} : PickScene(mode)
    \/ \E period \in ShutterPeriods : SlideRate(period)
    \/ \E dt \in 1..ShutterMaxDt : ShutterTick(dt)

-----------------------------------------------------------------------------
(* Focusing *)

VARIABLES
    fcLens,   \* lens: where it is turned to
    fcTilt,   \* tilt: the lens is screwed in crooked
    fcBest,   \* best: the highest score of each column of cells so far
    fcPercent \* what the cells of each column show

focusVars == <<fcLens, fcTilt, fcBest, fcPercent>>

Columns == 0..2

\* A cell's score falls with the radius of the blur, which grows with the distance to the lens
\* position that is sharp there; the lowest is above 0 (there is noise).
Sharp(lens, tilt, col) ==
    LET away == lens - (62 + (IF tilt THEN (col - 1) * 14 ELSE 0))
    IN  13 - ((IF away < 0 THEN -away ELSE away) * 16 + 50) \div 100

FocusTypeOK ==
    /\ fcLens \in FocusLenses /\ fcTilt \in BOOLEAN /\ fcBest \in [Columns -> 1..13]
    /\ fcPercent \in [Columns -> 0..100]

\* draw: the scores are compared with the best, which they may raise.
FocusDrawn(lens, tilt, best) ==
    LET score == [c \in Columns |-> Sharp(lens, tilt, c)]
        raised == [c \in Columns |-> IF score[c] > best[c] THEN score[c] ELSE best[c]]
    IN  /\ fcLens' = lens /\ fcTilt' = tilt /\ fcBest' = raised
        /\ fcPercent' = [c \in Columns |-> (100 * score[c] + raised[c] \div 2) \div raised[c]]

\* The lab starts as if the lens had been swept once.
FocusInit ==
    /\ fcLens = 25 /\ fcTilt = FALSE /\ fcBest = [c \in Columns |-> 13]
    /\ fcPercent = [c \in Columns |-> (100 * Sharp(25, FALSE, c) + 6) \div 13]

TurnLens(lens) == FocusDrawn(lens, fcTilt, fcBest)
ResetBest == FocusDrawn(fcLens, fcTilt, [c \in Columns |-> 0])
TiltLens(tilt) == FocusDrawn(fcLens, tilt, [c \in Columns |-> 0])

FocusNext ==
    \/ \E lens \in FocusLenses : TurnLens(lens)
    \/ ResetBest
    \/ \E tilt \in BOOLEAN : TiltLens(tilt)

-----------------------------------------------------------------------------
\* The two shutters show the same frame: the global photo was taken as it began, the rows that
\* are read out were painted after it from the top down, and the dimmed ones are from before.
\* The frame's clock, its rate and the loop's steps change under the readout.
ShutterSweeps ==
    /\ rsGlobal <= rsFrameT
    /\ rsBright = {r \in ShutterLines : r < rsRow}
    /\ \A r \in ShutterLines :
          /\ r < rsRow => rsAge[r] <= rsGlobal
          /\ r >= rsRow => rsAge[r] >= rsGlobal
          /\ \A s \in ShutterLines : r < s /\ s < rsRow => rsAge[r] >= rsAge[s]

=============================================================================
