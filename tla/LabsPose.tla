------------------------------ MODULE LabsPose ------------------------------
(***************************************************************************)
(* The labs of the pose chapter (src/training/js/ch/12-pose.js): the real  *)
(* frames, the scene whose robot is solved from the tags in view, the      *)
(* chain of transforms, the ambiguity of one tag, and several tags.        *)
(*                                                                         *)
(* The solver they share is in LabsSolve.  The random numbers are a count  *)
(* of those drawn since the generator was last seeded, PoseSeeds at most.  *)
(***************************************************************************)
EXTENDS Integers, FiniteSets

CONSTANTS
    PosePictures, \* the real frames
    PoseSpots,    \* places of the robot in the scene
    PoseSees,     \* which of tags 3 and 4 are fully in view from each
    PoseSeeds,    \* bound: states of the random generator
    AmbSettings,  \* settings of the ambiguity lab's sliders
    AmbErrors,    \* the errors of a solve, in fifths of a pixel
    AmbWaiting,   \* bound: runs of 200 frames asked for and not begun
    MultiSees     \* the tags in view at each distance of the multi-tag lab

ASSUME PoseAssumption ==
    /\ PosePictures /= {} /\ PoseSpots /= {} /\ AmbSettings /= {}
    /\ PoseSees \in [PoseSpots -> SUBSET {3, 4}]
    /\ AmbErrors \subseteq Nat \ {0} /\ AmbErrors /= {}
    /\ AmbWaiting \in Nat \ {0} /\ PoseSeeds \in Nat \ {0} /\ DOMAIN MultiSees /= {}
    /\ \A d \in DOMAIN MultiSees : MultiSees[d] \subseteq 1..4

-----------------------------------------------------------------------------
(* The real frames *)

VARIABLES
    pfTags,   \* det has come
    pfPick,   \* cur
    pfAsked,  \* imgs: the pictures asked for
    pfLoaded, \* those that have come
    pfShown,  \* the frame drawn with its tags, or NoFrame
    pfInfo    \* the frame that the line below tells of, or NoFrame

frameVars == <<pfTags, pfPick, pfAsked, pfLoaded, pfShown, pfInfo>>

NoFrame == "no frame"

FrameTypeOK ==
    /\ pfTags \in BOOLEAN
    /\ pfPick \in PosePictures
    /\ pfLoaded \subseteq pfAsked /\ pfAsked \subseteq PosePictures
    /\ pfShown \in PosePictures \cup {NoFrame} /\ pfInfo \in PosePictures \cup {NoFrame}

FrameInit ==
    /\ pfTags = FALSE
    /\ pfPick = CHOOSE f \in PosePictures : TRUE
    /\ pfAsked = {} /\ pfLoaded = {}
    /\ pfShown = NoFrame /\ pfInfo = NoFrame

\* draw: a frame without its picture leaves the canvas empty, the line as it was.
DrawFrame(tags, pick, loaded) ==
    /\ pfShown' = IF ~tags THEN pfShown ELSE IF pick \in loaded THEN pick ELSE NoFrame
    /\ pfInfo' = IF tags /\ pick \in loaded THEN pick ELSE pfInfo

\* show: before the tags are known a pick is only noted.
PickFrame(f) ==
    /\ pfPick' = f
    /\ pfAsked' = IF pfTags THEN pfAsked \cup {f} ELSE pfAsked
    /\ DrawFrame(pfTags, f, pfLoaded)
    /\ UNCHANGED <<pfTags, pfLoaded>>

TagsCome ==
    /\ ~pfTags /\ pfTags' = TRUE
    /\ pfAsked' = pfAsked \cup {pfPick}
    /\ DrawFrame(TRUE, pfPick, pfLoaded)
    /\ UNCHANGED <<pfPick, pfLoaded>>

\* Mutant: a picture that comes is the one drawn, whatever is picked by now.
FrameLoadsItself(f) ==
    /\ f \in pfAsked \ pfLoaded
    /\ pfLoaded' = pfLoaded \cup {f}
    /\ DrawFrame(pfTags, f, pfLoaded \cup {f})
    /\ UNCHANGED <<pfTags, pfPick, pfAsked>>

FrameLoads(f) ==
    /\ f \in pfAsked \ pfLoaded
    /\ pfLoaded' = pfLoaded \cup {f}
    /\ DrawFrame(pfTags, pfPick, pfLoaded \cup {f})
    /\ UNCHANGED <<pfTags, pfPick, pfAsked>>

FrameNext ==
    \/ \E f \in PosePictures : PickFrame(f) \/ FrameLoads(f)
    \/ TagsCome

-----------------------------------------------------------------------------
(* The scene *)

VARIABLES
    psSpot,   \* S.x, S.y, S.th
    psTwo,    \* S.two
    psChain,  \* S.chain
    psDrag,   \* dragging: the camera's controls are off meanwhile
    psSeed,   \* seed: random numbers drawn, counted from the scene's own start
    psSolve,  \* how the robot shown was solved
    psFirst   \* history: the first solve shown of each scene, or NoSolve

sceneVars == <<psSpot, psTwo, psChain, psDrag, psSeed, psSolve, psFirst>>

NoSolve == [by |-> "none", tags |-> {}, from |-> 0]
Scenes == PoseSpots \X BOOLEAN
Solves == [by : {"nothing", "one tag", "multi-tag"}, tags : SUBSET {3, 4}, from : 0..PoseSeeds]

SceneTypeOK ==
    /\ psSpot \in PoseSpots /\ psTwo \in BOOLEAN /\ psChain \in BOOLEAN /\ psDrag \in BOOLEAN
    /\ psSeed \in 0..PoseSeeds
    /\ psSolve \in Solves
    /\ psFirst \in [Scenes -> Solves \cup {NoSolve}]

\* observe and the solve: two tags in one PnP, one tag by itself, or nothing to
\* solve. The noise and the first guess are the generator's, from its state.
SolveScene(spot, two, seed) ==
    LET seen == PoseSees[spot] \cap (IF two THEN {3, 4} ELSE {3})
    IN  [by |-> IF seen = {} THEN "nothing"
                ELSE IF Cardinality(seen) > 1 THEN "multi-tag" ELSE "one tag",
         tags |-> seen, from |-> seed]

\* Mutant: the noise goes on from where the last frame's ended.
UpdateOn(spot, two) ==
    LET solve == SolveScene(spot, two, psSeed)
    IN  /\ psSolve' = solve
        /\ psSeed' = (psSeed + 1) % (PoseSeeds + 1)
        /\ psFirst' = IF psFirst[<<spot, two>>] = NoSolve
                      THEN [psFirst EXCEPT ![<<spot, two>>] = solve] ELSE psFirst

\* update: the generator is seeded by the scene, and drawn from.
Update(spot, two) ==
    LET solve == SolveScene(spot, two, 0)
    IN  /\ psSolve' = solve
        /\ psSeed' = 1
        /\ psFirst' = IF psFirst[<<spot, two>>] = NoSolve
                      THEN [psFirst EXCEPT ![<<spot, two>>] = solve] ELSE psFirst

SceneInit ==
    /\ psSpot = CHOOSE s \in PoseSpots : TRUE
    /\ psTwo = FALSE /\ psChain = TRUE /\ psDrag = FALSE
    /\ psSeed = 1
    /\ psSolve = SolveScene(psSpot, FALSE, 0)
    /\ psFirst = [c \in Scenes |-> IF c = <<psSpot, FALSE>> THEN psSolve ELSE NoSolve]

\* A press on the robot starts a drag, anywhere else the camera turns.
GrabRobot == psDrag' = TRUE /\ UNCHANGED <<psSpot, psTwo, psChain, psSeed, psSolve, psFirst>>
DropRobot ==
    /\ psDrag /\ psDrag' = FALSE
    /\ UNCHANGED <<psSpot, psTwo, psChain, psSeed, psSolve, psFirst>>

DragRobot(s) ==
    /\ psDrag
    /\ psSpot' = s /\ Update(s, psTwo)
    /\ UNCHANGED <<psTwo, psChain, psDrag>>

\* The sliders: the robot's turn, and the noise.
SlideScene(s) == psSpot' = s /\ Update(s, psTwo) /\ UNCHANGED <<psTwo, psChain, psDrag>>
PickTagCount(two) == psTwo' = two /\ Update(psSpot, two) /\ UNCHANGED <<psSpot, psChain, psDrag>>
TickChain == psChain' = ~psChain /\ Update(psSpot, psTwo) /\ UNCHANGED <<psSpot, psTwo, psDrag>>

\* The chapter's other labs draw from the same generator.
OtherLabDraws ==
    /\ psSeed' = (psSeed + 1) % (PoseSeeds + 1)
    /\ UNCHANGED <<psSpot, psTwo, psChain, psDrag, psSolve, psFirst>>

SceneNext ==
    \/ GrabRobot
    \/ DropRobot
    \/ \E s \in PoseSpots : DragRobot(s) \/ SlideScene(s)
    \/ \E two \in BOOLEAN : PickTagCount(two)
    \/ TickChain
    \/ OtherLabDraws

-----------------------------------------------------------------------------
(* The chain of transforms *)

VARIABLES
    tcWide,  \* the figure's box is 620 pixels wide or more
    tcMode,  \* mode: laid out flat or upright
    tcArrow, \* i: the arrow the dot runs along
    tcDot    \* the dot has been placed since the figure was laid out

chainVars == <<tcWide, tcMode, tcArrow, tcDot>>

ChainTypeOK ==
    /\ tcWide \in BOOLEAN /\ tcMode \in {"h", "v"} /\ tcArrow \in 0..2 /\ tcDot \in BOOLEAN

ChainInit == tcWide = TRUE /\ tcMode = "h" /\ tcArrow = 0 /\ tcDot = FALSE

\* build: laid out anew only when the other layout fits, with a dot of its own.
ChainResize(wide) ==
    LET mode == IF wide THEN "h" ELSE "v"
    IN  /\ tcWide' = wide
        /\ tcMode' = mode
        /\ tcDot' = (tcDot /\ mode = tcMode)
        /\ UNCHANGED tcArrow

ChainTick(i) ==
    /\ i \in {tcArrow, (tcArrow + 1) % 3}
    /\ tcArrow' = i /\ tcDot' = TRUE
    /\ UNCHANGED <<tcWide, tcMode>>

ChainNext ==
    \/ \E wide \in BOOLEAN : ChainResize(wide)
    \/ \E i \in 0..2 : ChainTick(i)

-----------------------------------------------------------------------------
(* One tag's two answers *)

VARIABLES
    abSet,   \* P: the sliders
    abFrame, \* cur: the errors of both answers, and the settings they were solved at
    abStats, \* stats: the settings of the 200 frames it counts, or NoStats
    abBusy,  \* the button is aria-busy
    abRuns,  \* runs asked for that have not begun
    abSays   \* the line below

ambVars == <<abSet, abFrame, abStats, abBusy, abRuns, abSays>>

NoStats == "none"

\* singleTag: both answers, the better one first. They may be the same, or near.
SingleTags == [ea : AmbErrors, eb : AmbErrors, same : BOOLEAN, near : BOOLEAN]
BestIsA(r) == r.ea <= r.eb
Ambiguous(r) ==
    LET best == IF BestIsA(r) THEN r.ea ELSE r.eb
        alt == IF BestIsA(r) THEN r.eb ELSE r.ea
    IN  ~r.same /\ 5 * best > alt
Flipped(r) == ~BestIsA(r) /\ ~r.same /\ ~r.near

\* The verdict under the pictures.
Verdict(r) ==
    IF Ambiguous(r) THEN "reject" ELSE IF Flipped(r) THEN "passed, but flipped" ELSE "right"

AmbTypeOK ==
    /\ abSet \in AmbSettings
    /\ abFrame \in [solve : SingleTags, at : AmbSettings]
    /\ abStats \in AmbSettings \cup {NoStats}
    /\ abBusy \in BOOLEAN /\ abRuns \in 0..AmbWaiting
    /\ abSays \in {"frame", "solving", "stats"}
    /\ Verdict(abFrame.solve) \in {"reject", "passed, but flipped", "right"}

\* frame: fresh noise on the corners, at the settings of the sliders.
NewFrame(settings, stats) ==
    /\ \E solve \in SingleTags : abFrame' = [solve |-> solve, at |-> settings]
    /\ abStats' = stats
    /\ abSays' = IF stats = NoStats THEN "frame" ELSE "stats"

AmbInit ==
    /\ abSet = CHOOSE s \in AmbSettings : TRUE
    /\ abFrame = [at |-> abSet, solve |-> CHOOSE r \in SingleTags : ~r.same /\ BestIsA(r)]
    /\ abStats = NoStats /\ abSays = "frame" /\ abBusy = FALSE /\ abRuns = 0

SlideAmb(s) == abSet' = s /\ NewFrame(s, NoStats) /\ UNCHANGED <<abBusy, abRuns>>
NewNoise == NewFrame(abSet, NoStats) /\ UNCHANGED <<abSet, abBusy, abRuns>>

\* run: the button says it is busy first; the 200 solves come a frame later.
AskRun ==
    /\ abRuns < AmbWaiting
    /\ abRuns' = abRuns + 1
    /\ abBusy' = TRUE /\ abSays' = "solving"
    /\ UNCHANGED <<abSet, abFrame, abStats>>

\* runNow: they are solved at the settings of by then.
RunNow ==
    /\ abRuns > 0 /\ abRuns' = abRuns - 1
    /\ abBusy' = FALSE
    /\ NewFrame(abSet, abSet)
    /\ UNCHANGED abSet

AmbNext ==
    \/ \E s \in AmbSettings : SlideAmb(s)
    \/ NewNoise
    \/ AskRun
    \/ RunNow

-----------------------------------------------------------------------------
(* Several tags *)

VARIABLES
    mtOn,    \* on: the tags switched on
    mtFar,   \* P.d
    mtBad,   \* P.bad: tag 2 hangs 15 cm from where the layout says
    mtSkip,  \* P.ex: tag 2 is left out
    mtSolved \* compute: how the 80 frames shown were solved

multiVars == <<mtOn, mtFar, mtBad, mtSkip, mtSolved>>

MultiTypeOK ==
    /\ mtOn \subseteq 1..4 /\ mtFar \in DOMAIN MultiSees
    /\ mtBad \in BOOLEAN /\ mtSkip \in BOOLEAN
    /\ mtSolved \in [tags : SUBSET (1..4), by : {"no tags", "one tag", "multi-tag"},
                     flips : BOOLEAN, wrongTag : BOOLEAN]

\* compute: one tag is solved by itself and may flip, more are one PnP.
Compute(on, far, bad, skip) ==
    LET used == (IF skip THEN on \ {2} ELSE on) \cap MultiSees[far]
    IN  [tags |-> used,
         by |-> IF used = {} THEN "no tags"
                ELSE IF Cardinality(used) = 1 THEN "one tag" ELSE "multi-tag",
         flips |-> Cardinality(used) = 1,
         wrongTag |-> bad /\ 2 \in used]

MultiInit ==
    /\ mtOn = {2} /\ mtFar = (CHOOSE d \in DOMAIN MultiSees : TRUE)
    /\ mtBad = FALSE /\ mtSkip = FALSE
    /\ mtSolved = Compute({2}, mtFar, FALSE, FALSE)

ToggleTag(i) ==
    /\ mtOn' = IF i \in mtOn THEN mtOn \ {i} ELSE mtOn \cup {i}
    /\ mtSolved' = Compute(mtOn', mtFar, mtBad, mtSkip)
    /\ UNCHANGED <<mtFar, mtBad, mtSkip>>

SlideMulti(d) ==
    /\ mtFar' = d /\ mtSolved' = Compute(mtOn, d, mtBad, mtSkip)
    /\ UNCHANGED <<mtOn, mtBad, mtSkip>>

TickMulti(bad, skip) ==
    /\ mtBad' = bad /\ mtSkip' = skip /\ (bad = mtBad) /= (skip = mtSkip)
    /\ mtSolved' = Compute(mtOn, mtFar, bad, skip)
    /\ UNCHANGED <<mtOn, mtFar>>

MultiNext ==
    \/ \E i \in 1..4 : ToggleTag(i)
    \/ \E d \in DOMAIN MultiSees : SlideMulti(d)
    \/ \E bad, skip \in BOOLEAN : TickMulti(bad, skip)

-----------------------------------------------------------------------------
\* The frame shown is the one picked, and the line below tells of it, whatever
\* order the pictures come in.
FrameOfPick ==
    /\ pfShown \in {NoFrame, pfPick}
    /\ pfTags /\ pfPick \in pfLoaded => pfShown = pfPick /\ pfInfo = pfPick

\* The same scene is always solved the same: a redraw for something unrelated, like
\* the chain's box, cannot make the solved robot jump.
SameSceneSameSolve == psSolve = psFirst[<<psSpot, psTwo>>]

\* The counts of 200 frames are of the settings on the sliders, and the button is
\* not busy when no run is on its way.
CountsOfSettings ==
    /\ abStats \in {NoStats, abSet} /\ abFrame.at = abSet
    /\ abRuns = 0 => ~abBusy /\ abSays /= "solving"

=============================================================================
