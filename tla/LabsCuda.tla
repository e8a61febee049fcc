------------------------------ MODULE LabsCuda ------------------------------
(***************************************************************************)
(* The labs of the CUDA chapter (src/training/js/ch/08-cuda.js): the line  *)
(* of cameras at the one GPU, the figures measured for it, the stages of   *)
(* the detector on a picture that loads late, the detector's slots, a      *)
(* diverging warp, the painting race and the grid of threads.              *)
(***************************************************************************)
EXTENDS Integers, Sequences, FiniteSets, Filtering

CONSTANTS
    GqPieces,     \* GPU pieces of a frame (8)
    GqMaxFrames,  \* bound: frames of a simulation
    GqLoads,      \* bound: positions of the slider for GPU work
    Stages,       \* stages of the detector's story, 0 first
    SlotCount,    \* detector slots (10)
    WarpThreads,  \* threads of the warp (32)
    RaceTiles,    \* tiles to paint (192)
    RaceCores,    \* CPU painters (6)
    RaceSlow,     \* ticks a GPU painter takes for a tile (5)
    GridPowers    \* bound: positions of the block sliders

ASSUME CudaAssumption ==
    /\ GqPieces \in Nat \ {0} /\ GqMaxFrames \in Nat
    /\ 0 \in Stages /\ SlotCount \in Nat \ {0} /\ WarpThreads \in Nat \ {0}
    /\ RaceTiles \in Nat \ {0} /\ RaceCores \in Nat \ {0} /\ RaceSlow \in Nat \ {0}
    /\ GridPowers \subseteq 0..5 /\ {3, 4} \subseteq GridPowers

CeilDiv(a, b) == (a + b - 1) \div b

-----------------------------------------------------------------------------
(* The line at the GPU.  Periods, gaps and work are left out: frames of the cameras may come, a
   piece may be ready and one may end at any tick of the simulation. *)

VARIABLES
    gqCams,     \* ncam
    gqLoad,     \* g
    gqFrames,   \* S.frames: each one's pieces done, and inQ
    gqQueue,    \* S.queue, as numbers of frames
    gqGpu,      \* S.gpu: the frame whose piece runs, 0 for none
    gqTimer,    \* mt waits to measure
    gqMeasured  \* the figures: the settings they were measured for, <<>> for "..."

queueVars == <<gqCams, gqLoad, gqFrames, gqQueue, gqGpu, gqTimer, gqMeasured>>

CamCounts == {1, 2, 4}
NoFigures == <<>>

QueueTypeOK ==
    /\ gqCams \in CamCounts /\ gqLoad \in GqLoads
    /\ Len(gqFrames) <= GqMaxFrames
    /\ \A f \in DOMAIN gqFrames :
          gqFrames[f] \in [piece : 0..GqPieces, inQ : BOOLEAN]
    /\ \A k \in DOMAIN gqQueue : gqQueue[k] \in DOMAIN gqFrames
    /\ gqGpu \in 0..GqMaxFrames
    /\ gqTimer \in BOOLEAN
    /\ gqMeasured = NoFigures \/ gqMeasured \in CamCounts \X GqLoads

QueueInit ==
    /\ gqCams = 4 /\ gqLoad \in GqLoads
    /\ gqFrames = <<>> /\ gqQueue = <<>> /\ gqGpu = 0
    /\ gqTimer = TRUE /\ gqMeasured = NoFigures

\* restart()
Restart ==
    /\ gqFrames' = <<>> /\ gqQueue' = <<>> /\ gqGpu' = 0
    /\ gqTimer' = TRUE
    /\ gqMeasured' = NoFigures

PickCams(n) == gqCams' = n /\ Restart /\ UNCHANGED gqLoad
PickLoad(g) == gqLoad' = g /\ Restart /\ UNCHANGED gqCams

\* measure(), by its timer.
Measure ==
    /\ gqTimer
    /\ gqTimer' = FALSE
    /\ gqMeasured' = <<gqCams, gqLoad>>
    /\ UNCHANGED <<gqCams, gqLoad, gqFrames, gqQueue, gqGpu>>

\* Numbers of S in ascending order.
InOrder(S) == Only([k \in 1..GqMaxFrames |-> k], S)

PieceDone(frame) == [frame EXCEPT !.piece = @ + 1, !.inQ = FALSE]

\* A tick of S.step: cameras bring frames, frames that are ready ask for the GPU, a free GPU
\* takes the first that asked, and its piece may end.
SimTick(n, ready, ends) ==
    LET frames == gqFrames
                  \o [k \in 1..n |-> [piece |-> 0, inQ |-> FALSE]]
        asks == {f \in ready : ~frames[f].inQ /\ frames[f].piece < GqPieces}
        queue == gqQueue \o InOrder(asks)
        takes == gqGpu = 0 /\ queue /= <<>>
        gpu == IF takes THEN Head(queue) ELSE gqGpu
        done == ends /\ gpu /= 0
        asked == [f \in DOMAIN frames |-> IF f \in asks THEN [frames[f] EXCEPT !.inQ = TRUE]
                                          ELSE frames[f]]
    IN  /\ gqFrames' = IF done THEN [asked EXCEPT ![gpu] = PieceDone(@)] ELSE asked
        /\ gqQueue' = IF takes THEN Tail(queue) ELSE queue
        /\ gqGpu' = IF done THEN 0 ELSE gpu
        /\ UNCHANGED <<gqCams, gqLoad, gqTimer, gqMeasured>>

QueueNext ==
    \/ \E n \in CamCounts : PickCams(n)
    \/ \E g \in GqLoads : PickLoad(g)
    \/ Measure
    \/ \E n \in 0..gqCams :
          /\ Len(gqFrames) + n <= GqMaxFrames
          /\ \E ready \in SUBSET (1..(Len(gqFrames) + n)) :
                \E ends \in BOOLEAN : SimTick(n, ready, ends)

-----------------------------------------------------------------------------
(* The stages *)

VARIABLES
    sgReady,  \* ready: the picture has been loaded and computed
    sgStage,  \* stage
    sgName,   \* the stage the title, the place and the bar show
    sgCaption \* the stage the caption tells of, -1 for none

stageVars == <<sgReady, sgStage, sgName, sgCaption>>

StageTypeOK ==
    /\ sgReady \in BOOLEAN
    /\ sgStage \in Stages /\ sgName \in Stages /\ sgCaption \in Stages \union {-1}

StageInit == sgReady = FALSE /\ sgStage = 0 /\ sgName = 0 /\ sgCaption = -1

\* setStage(i), with ready as it is then.
SetStage(i, ready) ==
    /\ sgStage' = i /\ sgName' = i
    /\ sgCaption' = IF ready THEN i ELSE sgCaption

ScrollStage(i) == SetStage(i, sgReady) /\ UNCHANGED sgReady

\* img.onload
PictureLoads == ~sgReady /\ sgReady' = TRUE /\ SetStage(sgStage, TRUE)

StageNext == (\E i \in Stages : ScrollStage(i)) \/ PictureLoads

-----------------------------------------------------------------------------
(* The slots *)

VARIABLES
    slFixed,   \* fixed: the new code's rule
    slUsed,    \* used: slots of detectors that were never freed
    slCur,     \* cur: the slot in use, -2 for none
    slCreated, \* created
    slBroke    \* broke: the handle is -1

slotVars == <<slFixed, slUsed, slCur, slCreated, slBroke>>

Slots == 0..(SlotCount - 1)

SlotTypeOK ==
    /\ slFixed \in BOOLEAN /\ slBroke \in BOOLEAN
    /\ slUsed \subseteq Slots /\ slCur \in Slots \union {-2}
    /\ slCreated \in 0..(SlotCount + 1)

SlotClear(fixed) ==
    /\ slFixed' = fixed /\ slUsed' = {} /\ slCur' = -2 /\ slCreated' = 0 /\ slBroke' = FALSE

SlotInit == slFixed \in BOOLEAN /\ slUsed = {} /\ slCur = -2 /\ slCreated = 0 /\ slBroke = FALSE

Leaked == slUsed \union ({slCur} \intersect Slots)

\* The button; with the fix the count goes on (here only as far as without it).
ChangePipeline ==
    IF slBroke THEN SlotClear(slFixed)
    ELSE /\ slCreated' = IF slCreated <= SlotCount THEN slCreated + 1 ELSE slCreated
         /\ IF slFixed
            THEN slCur' = 0 /\ UNCHANGED <<slUsed, slBroke>>
            ELSE /\ slUsed' = Leaked
                 /\ slCur' = IF slCreated < SlotCount THEN slCreated ELSE -2
                 /\ slBroke' = (slCreated >= SlotCount)
         /\ UNCHANGED slFixed

SlotNext == (\E fixed \in BOOLEAN : SlotClear(fixed)) \/ ChangePipeline

-----------------------------------------------------------------------------
(* The diverging warp *)

VARIABLES
    dvBright, \* vals: the threads whose pixel is bright
    dvAt      \* steps since the pattern was picked, in the loop of the animation

warpVars == <<dvBright, dvAt>>

Warp == 0..(WarpThreads - 1)
Patterns == {Warp, {i \in Warp : 2 * i < WarpThreads}, {i \in Warp : 32 * i < 23 * WarpThreads}}
            \union {S \in SUBSET Warp : Cardinality(S) = 2}

\* plan: each part's line, the threads that run it, and its steps.
Part(line, mask, n) == [line |-> line, mask |-> mask, n |-> n]
Branch(mask, line) == IF mask = {} THEN <<>> ELSE <<Part(line, mask, 3), Part(line + 1, mask, 1)>>
Plan(bright) ==
    <<Part(0, Warp, 1), Part(1, Warp, 1)>> \o Branch(bright, 2) \o Branch(Warp \ bright, 5)

StepsOf(plan) ==
    LET sum[k \in 0..Len(plan)] == IF k = 0 THEN 0 ELSE sum[k - 1] + plan[k].n
    IN  sum

\* The part that runs at a step, 0 in the pause before the animation starts again.
RunsAt(plan, at) ==
    LET upTo == StepsOf(plan)
    IN  IF at >= upTo[Len(plan)] THEN 0
        ELSE CHOOSE k \in 1..Len(plan) : upTo[k - 1] <= at /\ at < upTo[k]

WarpTypeOK ==
    /\ dvBright \subseteq Warp /\ dvAt \in 0..12
    /\ RunsAt(Plan(dvBright), dvAt) \in 0..Len(Plan(dvBright))

WarpInit == dvBright = Warp /\ dvAt = 0

PickPattern(bright) == dvBright' = bright /\ dvAt' = 0

\* The animation runs in a circle, with three steps of pause.
WarpTick ==
    /\ dvAt' = (dvAt + 1) % (StepsOf(Plan(dvBright))[Len(Plan(dvBright))] + 3)
    /\ UNCHANGED dvBright

WarpNext == (\E bright \in Patterns : PickPattern(bright)) \/ WarpTick

-----------------------------------------------------------------------------
(* The race *)

VARIABLES
    raMode,  \* mode
    raTicks  \* ticks of the race, as far as the longer one goes

raceVars == <<raMode, raTicks>>

CpuDone(mode, k) == IF mode = "par" THEN k \div RaceCores + 1 ELSE k + 1
GpuDone(mode, k) == IF mode = "par" THEN RaceSlow ELSE (k + 1) * RaceSlow

\* The GPU's total is that of the mode; the CPU's is worked out once, as the page is loaded.
CpuTotal == CpuDone("par", RaceTiles - 1)
GpuTotal(mode) == GpuDone(mode, RaceTiles - 1)

RaceInit == raMode = "par" /\ raTicks = 0

\* What each side shows: its total once its last tile is painted, the ticks so far before, of
\* which the CPU's are never more than its total.
Panel(last, total, soFar) ==
    [all |-> last <= raTicks, ticks |-> IF last <= raTicks THEN total ELSE soFar]
CpuShows == Panel(CpuDone(raMode, RaceTiles - 1), CpuTotal,
                  IF raTicks <= CpuTotal THEN raTicks ELSE CpuTotal)
GpuShows == Panel(GpuTotal(raMode), GpuTotal(raMode), raTicks)

RaceTypeOK ==
    /\ raMode \in {"par", "ser"} /\ raTicks \in 0..(RaceTiles * RaceSlow)
    /\ {CpuShows, GpuShows} \subseteq [all : BOOLEAN, ticks : 0..(RaceTiles * RaceSlow)]

StartRace(mode) == raMode' = mode /\ raTicks' = 0
RaceTick == raTicks < RaceTiles * RaceSlow /\ raTicks' = raTicks + 1 /\ UNCHANGED raMode
RaceNext == (\E mode \in {"par", "ser"} : StartRace(mode)) \/ RaceTick

-----------------------------------------------------------------------------
(* The grid *)

VARIABLES
    grW, grH, \* bw, bh
    grHover   \* hover, or <<>>

gridVars == <<grW, grH, grHover>>

\* The picture, and the blocks of threads laid over it.
GridW == 45
GridH == 28
Blocks == CeilDiv(GridW, grW) * CeilDiv(GridH, grH)
Idle == Blocks * grW * grH - GridW * GridH

GridTypeOK ==
    /\ {grW, grH} \subseteq {2^k : k \in GridPowers}
    /\ grHover = <<>> \/ grHover \in (0..(2 * GridW)) \X (0..(2 * GridH))
    /\ Idle >= 0

GridInit == grW = 16 /\ grH = 8 /\ grHover = <<>>

BlockSize(w, h) == grW' = w /\ grH' = h /\ UNCHANGED grHover

\* pick(): the cell, unless it is past the last block.
PointCell(x, y) ==
    /\ grHover' = IF x < CeilDiv(GridW, grW) * grW /\ y < CeilDiv(GridH, grH) * grH
                  THEN <<x, y>> ELSE <<>>
    /\ UNCHANGED <<grW, grH>>

LeaveGrid == grHover' = <<>> /\ UNCHANGED <<grW, grH>>

GridNext ==
    \/ \E k \in GridPowers : BlockSize(2^k, grH) \/ BlockSize(grW, 2^k)
    \/ \E x \in {0, GridW - 1, GridW} : \E y \in {0, GridH} : PointCell(x, y)
    \/ LeaveGrid

-----------------------------------------------------------------------------

(* A frame that waits stands in the line once, or its piece runs on the GPU, and no frame is
   anywhere it does not wait; the line holds no frame twice.  So one GPU runs the pieces of
   several cameras one at a time and none is lost or run twice. *)
OnePlaceInLine ==
    /\ \A j, k \in DOMAIN gqQueue : j /= k => gqQueue[j] /= gqQueue[k]
    /\ \A f \in DOMAIN gqFrames :
          gqFrames[f].inQ <=> (f = gqGpu \/ \E k \in DOMAIN gqQueue : gqQueue[k] = f)
    /\ \A k \in DOMAIN gqQueue : gqQueue[k] /= gqGpu
    /\ gqGpu /= 0 => gqFrames[gqGpu].piece < GqPieces

(* The figures are those of the settings shown, or none with a measurement to come, however
   the settings change while one waits. *)
FiguresOfSettings ==
    /\ gqMeasured /= NoFigures => gqMeasured = <<gqCams, gqLoad>>
    /\ gqMeasured = NoFigures => gqTimer

(* A stage picked before the picture was there gets its caption when it is: from then on title
   and caption tell of the same stage. *)
CaptionOfStage == sgName = sgStage /\ (sgReady => sgCaption = sgStage)

=============================================================================
