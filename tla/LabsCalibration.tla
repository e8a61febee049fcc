-------------------------- MODULE LabsCalibration --------------------------
(***************************************************************************)
(* The labs of the calibration chapter                                     *)
(* (src/training/js/ch/11-calibration.js): the pinhole's sliders and drag, *)
(* the lens distortion presets, the board slid out of the picture, the     *)
(* coverage lab that calibrates in the page, the field's animation, and a  *)
(* real calibration fetched and shown.                                     *)
(***************************************************************************)
EXTENDS Integers, FiniteSets

CONSTANTS
    CovFull,    \* snapshots the coverage lab takes: 150
    CovPerTen,  \* snapshots a button takes: 10
    CovWaiting, \* bound: solves under way
    BoardSlides,\* places of the board's slider, in percent
    FieldSpots, \* spots where the field calibration holds still
    FieldFrames \* frames the animation paints at a spot

ASSUME CalibrationAssumption ==
    /\ CovFull \in Nat \ {0} /\ CovPerTen \in Nat \ {0} /\ CovWaiting \in Nat \ {0}
    /\ BoardSlides \subseteq 0..75 /\ 30 \in BoardSlides
    /\ FieldSpots \in Nat \ {0} /\ FieldFrames \in Nat \ {0}

-----------------------------------------------------------------------------
(* The pinhole lab *)

VARIABLES
    phLens,  \* fx, fy, cx, cy: as a button set them, or the reader's own
    phPoint, \* X, Y: as the page opens, from the sliders, or under the pointer
    phDrag,  \* dragI
    phTab    \* the view of the two a phone shows

pinVars == <<phLens, phPoint, phDrag, phTab>>

PinTypeOK ==
    /\ phLens \in {"start", "ours", "ideal", "own"}
    /\ phPoint \in {"start", "own", "pointer"}
    /\ phDrag \in BOOLEAN
    /\ phTab \in {"3d", "img"}

PinInit == phLens = "start" /\ phPoint = "start" /\ phDrag = FALSE /\ phTab = "3d"

\* set: the buttons move the four sliders, which is what the figures are made of.
SetLens(lens) == phLens' = lens /\ UNCHANGED <<phPoint, phDrag, phTab>>
SlidePoint == phPoint' = "own" /\ UNCHANGED <<phLens, phDrag, phTab>>

\* fromImg: the point follows the pointer from the press to the release.
PressPoint == phDrag' = TRUE /\ phPoint' = "pointer" /\ UNCHANGED <<phLens, phTab>>
MovePoint == phDrag /\ phPoint' = "pointer" /\ UNCHANGED <<phLens, phDrag, phTab>>
ReleasePoint == phDrag /\ phDrag' = FALSE /\ UNCHANGED <<phLens, phPoint, phTab>>

PickPinTab(t) == phTab' = t /\ UNCHANGED <<phLens, phPoint, phDrag>>

PinNext ==
    \/ \E lens \in {"ours", "ideal", "own"} : SetLens(lens)
    \/ SlidePoint
    \/ PressPoint
    \/ MovePoint
    \/ ReleasePoint
    \/ \E t \in {"3d", "img"} : PickPinTab(t)

-----------------------------------------------------------------------------
(* The distortion lab *)

Presets == {"none", "barrel", "pin", "tl", "ours"}

VARIABLES
    dtFirst,  \* D[0..4]: the preset they are of, or the reader's own
    dtRest,   \* D[5..7]: the preset they are of, or zero
    dtCamera, \* K: TopLeft's or TopRight's
    dtPreset, \* the preset highlighted
    dtMode    \* mode

distVars == <<dtFirst, dtRest, dtCamera, dtPreset, dtMode>>

DistTypeOK ==
    /\ dtFirst \in Presets \cup {"own"} /\ dtRest \in Presets \cup {"zero"}
    /\ dtCamera \in {"KTL", "KTR"}
    /\ dtPreset \in Presets \cup {"nothing"}
    /\ dtMode \in {"raw", "fix"}

DistInit ==
    /\ dtFirst = "tl" /\ dtRest = "tl" /\ dtCamera = "KTL" /\ dtPreset = "tl"
    /\ dtMode = "raw"

\* setSliders tells the sliders quietly: their events change nothing.
PickPreset(v) ==
    /\ dtFirst' = v /\ dtRest' = v /\ dtPreset' = v
    /\ dtCamera' = IF v = "tl" THEN "KTL" ELSE "KTR"
    /\ UNCHANGED dtMode

\* A slider of the reader's is no preset any more, and has no k4 to k6.
SlideLens ==
    /\ dtFirst' = "own" /\ dtRest' = "zero" /\ dtPreset' = "nothing"
    /\ UNCHANGED <<dtCamera, dtMode>>

PickUndist(m) == dtMode' = m /\ UNCHANGED <<dtFirst, dtRest, dtCamera, dtPreset>>

DistNext ==
    \/ \E v \in Presets : PickPreset(v)
    \/ SlideLens
    \/ \E m \in {"raw", "fix"} : PickUndist(m)

-----------------------------------------------------------------------------
(* The board slid out of the picture: 12 by 9 squares *)

VARIABLES
    bdType,  \* type
    bdSlide, \* slide, in percent of the board's width
    bdGrab   \* drag: the slide when the board was grabbed, or NotGrabbed

boardVars == <<bdType, bdSlide, bdGrab>>

NotGrabbed == 100

BoardInit == bdType = "charuco" /\ bdSlide = 30 /\ bdGrab = NotGrabbed

\* Lengths in thousandths of the canvas's width, from the frame's left edge (fr, sq,
\* bx): the frame is 670 wide, a square 50, a marker 22/30 of one. The frame's
\* height always holds the whole board.
LineInView(i) == 35 + 6 * bdSlide + 50 * i <= 670
MarkerInView(c, r) == (c + r) % 2 = 0 /\ 3 * (35 + 6 * bdSlide + 50 * c) + 130 <= 3 * 670

\* A chessboard counts only whole; a ChArUco corner counts next to a marker seen.
CornersFound ==
    LET inside == (1..11) \X (1..8)
    IN  IF bdType = "chess"
        THEN IF \A p \in inside : LineInView(p[1]) THEN inside ELSE {}
        ELSE {p \in inside : /\ LineInView(p[1])
                             /\ \E c \in {p[1] - 1, p[1]}, r \in {p[2] - 1, p[2]} :
                                    MarkerInView(c, r)}

\* The readouts: corners found, markers read.
BoardReadout ==
    <<Cardinality(CornersFound),
      IF bdType = "chess" THEN 0
      ELSE Cardinality({m \in (0..11) \X (0..8) : MarkerInView(m[1], m[2])})>>

BoardTypeOK ==
    /\ bdType \in {"charuco", "chess"}
    /\ bdSlide \in BoardSlides
    /\ bdGrab \in BoardSlides \cup {NotGrabbed}
    /\ BoardReadout \in (0..88) \X (0..54)

PickBoard(v) == bdType' = v /\ UNCHANGED <<bdSlide, bdGrab>>
SlideBoard(s) == bdSlide' = s /\ UNCHANGED <<bdType, bdGrab>>
GrabBoard == bdGrab' = bdSlide /\ UNCHANGED <<bdType, bdSlide>>
DragBoard(s) == bdGrab /= NotGrabbed /\ bdSlide' = s /\ UNCHANGED <<bdType, bdGrab>>
DropBoard == bdGrab' = NotGrabbed /\ UNCHANGED <<bdType, bdSlide>>

BoardNext ==
    \/ \E v \in {"charuco", "chess"} : PickBoard(v)
    \/ \E s \in BoardSlides : SlideBoard(s) \/ DragBoard(s)
    \/ GrabBoard
    \/ DropBoard

-----------------------------------------------------------------------------
(* The coverage lab *)

VARIABLES
    cvSnaps,  \* Len(snaps)
    cvFit,    \* result and heat: the snapshots calibrated, or NoFit
    cvBusy,   \* the buttons are aria-busy
    cvTimer,  \* timer has not fired: the first of the two frames
    cvChains, \* solves past the timer, that nothing clears any more
    cvStatus, \* status: what it says, and of how many snapshots
    cvView    \* view

covVars == <<cvSnaps, cvFit, cvBusy, cvTimer, cvChains, cvStatus, cvView>>

NoFit == CovFull + 1
CovNeeded == 4

\* draw: what the picture says, and whether it has the errors of a solve to show.
CoverageShows ==
    [asks |-> IF cvSnaps = 0 THEN "tap" ELSE IF cvFit = NoFit THEN "more" ELSE "nothing",
     residuals |-> cvView = "err" /\ cvFit /= NoFit,
     heat |-> cvView = "model" /\ cvFit /= NoFit]

CoverageTypeOK ==
    /\ cvSnaps \in 0..CovFull
    /\ cvFit \in 0..NoFit
    /\ cvBusy \in BOOLEAN /\ cvTimer \in BOOLEAN
    /\ cvChains \in 0..CovWaiting
    /\ cvStatus \in {"none", "few", "solving", "solved", "full", "not found", "cleared"}
                      \X (0..CovFull)
    /\ cvView \in {"cov", "err", "model"}
    /\ CoverageShows \in [asks : {"tap", "more", "nothing"}, residuals : BOOLEAN, heat : BOOLEAN]

CoverageInit ==
    /\ cvSnaps = 0 /\ cvFit = NoFit
    /\ cvBusy = FALSE /\ cvTimer = FALSE /\ cvChains = 0
    /\ cvStatus = <<"none", 0>>
    /\ cvView = "cov"

\* recal, with n snapshots taken: the timer of the last call is cleared first.
Recal(n) ==
    IF n < CovNeeded
    THEN /\ cvTimer' = FALSE
         /\ cvFit' = NoFit
         /\ cvStatus' = <<"few", n>>
         /\ UNCHANGED cvBusy
    ELSE /\ cvTimer' = TRUE
         /\ cvStatus' = <<"solving", n>>
         /\ cvBusy' = TRUE
         /\ UNCHANGED cvFit

\* A click takes one snapshot; one with no board in view, or too many, is only told.
TapSnapshot(found) ==
    /\ IF cvSnaps < CovFull /\ found
       THEN cvSnaps' = cvSnaps + 1 /\ Recal(cvSnaps + 1)
       ELSE /\ cvStatus' = <<IF cvSnaps < CovFull THEN "not found" ELSE "full", 0>>
            /\ UNCHANGED <<cvSnaps, cvFit, cvBusy, cvTimer>>
    /\ UNCHANGED <<cvChains, cvView>>

\* The buttons take ten, all over the picture or all in its middle, and solve
\* however many of them found the board.
TakeTen(found) ==
    /\ LET n == IF cvSnaps + found > CovFull THEN CovFull ELSE cvSnaps + found
       IN  cvSnaps' = n /\ Recal(n)
    /\ UNCHANGED <<cvChains, cvView>>

\* The timer fires: a frame and a task later the solver runs.
TimerFires ==
    /\ cvTimer /\ cvChains < CovWaiting
    /\ cvTimer' = FALSE
    /\ cvChains' = cvChains + 1
    /\ UNCHANGED <<cvSnaps, cvFit, cvBusy, cvStatus, cvView>>

\* The solver: it calibrates the snapshots there are by now, none of them too.
SolveSnapshots ==
    /\ cvChains > 0
    /\ cvChains' = cvChains - 1
    /\ cvFit' = cvSnaps
    /\ cvBusy' = FALSE
    /\ cvStatus' = <<"solved", cvSnaps>>
    /\ UNCHANGED <<cvSnaps, cvTimer, cvView>>

ResetSnapshots ==
    /\ cvTimer' = FALSE
    /\ cvSnaps' = 0 /\ cvFit' = NoFit /\ cvBusy' = FALSE
    /\ cvStatus' = <<"cleared", 0>>
    /\ UNCHANGED <<cvChains, cvView>>

PickCovView(v) ==
    /\ cvView' = v
    /\ UNCHANGED <<cvSnaps, cvFit, cvBusy, cvTimer, cvChains, cvStatus>>

CoverageNext ==
    \/ \E found \in BOOLEAN : TapSnapshot(found)
    \/ \E found \in 0..CovPerTen : TakeTen(found)
    \/ TimerFires
    \/ SolveSnapshots
    \/ ResetSnapshots
    \/ \E v \in {"cov", "err", "model"} : PickCovView(v)

-----------------------------------------------------------------------------
(* The field's animation, for one tag that every spot sees *)

VARIABLES
    fdSpot,  \* i: the spot, or FieldSpots while it solves and when it has solved
    fdFrame, \* frames painted at the spot
    fdSeen   \* seen: sightings written at the tag

fieldVars == <<fdSpot, fdFrame, fdSeen>>

FieldTypeOK ==
    /\ fdSpot \in 0..FieldSpots
    /\ fdFrame \in 0..FieldFrames
    /\ fdSeen \in 0..(2 * FieldSpots)

FieldInit == fdSpot = 0 /\ fdFrame = 0 /\ fdSeen = 0

\* A frame: the first of a spot, and at times the second, is within the 20 ms that
\* count a sighting; the first two of the first spot, and at times the third, are
\* within the 47 ms that clear the sightings of the round before.  So it is at 60
\* frames a second; a faster display counts more of them.
FieldTick ==
    LET clears == fdSpot = 0 /\ fdFrame <= 2
        counts == fdSpot < FieldSpots /\ fdFrame <= 1
        over == fdFrame + 1 >= FieldFrames
    IN  /\ \E clear \in IF clears THEN (IF fdFrame = 2 THEN BOOLEAN ELSE {TRUE}) ELSE {FALSE},
              count \in IF counts THEN (IF fdFrame = 1 THEN BOOLEAN ELSE {TRUE}) ELSE {FALSE} :
              fdSeen' = (IF clear THEN 0 ELSE fdSeen) + (IF count THEN 1 ELSE 0)
        /\ fdFrame' = IF over THEN 0 ELSE fdFrame + 1
        /\ fdSpot' = IF over THEN (fdSpot + 1) % (FieldSpots + 1) ELSE fdSpot

FieldNext == FieldTick

-----------------------------------------------------------------------------
(* A real calibration, fetched *)

RealPictures == {"img22", "img15", "img23"}

VARIABLES
    rcData,   \* data has come
    rcPick,   \* pick
    rcAsked,  \* imgs: the pictures asked for
    rcLoaded, \* those that have come
    rcView,   \* view
    rcSnap,   \* what the snapshot's canvas shows: the pick, and whether with its picture
    rcAll     \* what the other canvas shows: a view

realVars == <<rcData, rcPick, rcAsked, rcLoaded, rcView, rcSnap, rcAll>>

NothingDrawn == <<"nothing", FALSE>>

RealTypeOK ==
    /\ rcData \in BOOLEAN
    /\ rcPick \in RealPictures
    /\ rcAsked \subseteq RealPictures /\ rcLoaded \subseteq rcAsked
    /\ rcView \in {"cov", "err", "3d"}
    /\ rcSnap \in {NothingDrawn} \cup (RealPictures \X BOOLEAN)
    /\ rcAll \in {"nothing", "cov", "err", "3d"}

\* The first pick and view are told as the page opens, before the data.
RealInit ==
    /\ rcData = FALSE /\ rcPick = "img22" /\ rcAsked = {"img22"} /\ rcLoaded = {}
    /\ rcView = "cov" /\ rcSnap = NothingDrawn /\ rcAll = "nothing"

\* drawSnap and drawAll: nothing without the data.
DrawSnap(data, pick, loaded) ==
    rcSnap' = IF data THEN <<pick, pick \in loaded>> ELSE rcSnap
DrawAll(data, view) == rcAll' = IF data THEN view ELSE rcAll

DataComes ==
    /\ ~rcData /\ rcData' = TRUE
    /\ DrawSnap(TRUE, rcPick, rcLoaded) /\ DrawAll(TRUE, rcView)
    /\ UNCHANGED <<rcPick, rcAsked, rcLoaded, rcView>>

PickRealPicture(v) ==
    /\ rcPick' = v
    /\ rcAsked' = rcAsked \cup {v}
    /\ DrawSnap(rcData, v, rcLoaded)
    /\ UNCHANGED <<rcData, rcLoaded, rcView, rcAll>>

\* A picture comes: whichever it is, the snapshot picked is drawn.
RealPictureLoads(v) ==
    /\ v \in rcAsked \ rcLoaded
    /\ rcLoaded' = rcLoaded \cup {v}
    /\ DrawSnap(rcData, rcPick, rcLoaded \cup {v})
    /\ UNCHANGED <<rcData, rcPick, rcAsked, rcView, rcAll>>

PickRealView(v) ==
    /\ rcView' = v /\ DrawAll(rcData, v)
    /\ UNCHANGED <<rcData, rcPick, rcAsked, rcLoaded, rcSnap>>

RealNext ==
    \/ DataComes
    \/ \E v \in RealPictures : PickRealPicture(v) \/ RealPictureLoads(v)
    \/ \E v \in {"cov", "err", "3d"} : PickRealView(v)

-----------------------------------------------------------------------------
\* When no solve is on its way, the buttons of the coverage lab are not busy, and
\* what it shows is the calibration of the snapshots on its picture: however taps,
\* resets and solves that cannot be called off fall between each other.
CoverageSettles ==
    ~cvTimer /\ cvChains = 0 =>
        /\ ~cvBusy
        /\ cvFit \in {cvSnaps, NoFit}
        /\ cvSnaps >= CovNeeded => cvFit = cvSnaps

=============================================================================
