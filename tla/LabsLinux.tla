----------------------------- MODULE LabsLinux -----------------------------
(***************************************************************************)
(* The labs of the Linux chapter (src/training/js/ch/06-linux.js): a       *)
(* message's trip through the system's layers, played step by step; the    *)
(* crash of a service under two restart policies, told by timers; and the  *)
(* replay of two boots.                                                    *)
(***************************************************************************)
EXTENDS Integers, Sequences

CONSTANTS
    LayerDwell,  \* ticks a step of a trip is shown (DWELL)
    BootMax,     \* ticks of a boot's replay (57 s)
    BootMaxNow   \* bound: ticks of the model's clock

ASSUME LinuxAssumption == /\ LayerDwell \in Nat \ {0}
                          /\ BootMax \in Nat \ {0} /\ BootMaxNow \in Nat

-----------------------------------------------------------------------------
(* The layers *)

VARIABLES
    lyTrip,      \* trip
    lyStep,      \* i
    lyPlaying,   \* playing
    lyExploring, \* exploring: a layer that is no stop is shown
    lyElapsed,   \* elapsed
    lyFrom,      \* fromL: where the trail starts, or -1
    lyLayer,     \* the layer that is lit
    lyPause      \* the button says Pause

layersVars == <<lyTrip, lyStep, lyPlaying, lyExploring, lyElapsed, lyFrom, lyLayer, lyPause>>

Layers == 0..4
Trips == [exp |-> <<0, 1, 3, 4>>, frame |-> <<4, 3, 1, 2, 0>>]
TripLength == [t \in DOMAIN Trips |-> Len(Trips[t])]
Stop(trip, i) == Trips[trip][i + 1]

LayersTypeOK ==
    /\ lyTrip \in DOMAIN Trips
    /\ lyStep \in 0..(TripLength[lyTrip] - 1)
    /\ lyPlaying \in BOOLEAN /\ lyExploring \in BOOLEAN /\ lyPause \in BOOLEAN
    /\ lyElapsed \in 0..LayerDwell
    /\ lyFrom \in Layers \union {-1} /\ lyLayer \in Layers

\* go(k), with trip and playing as they are after the handler: prev of the first step is the
\* last one.
TripGo(trip, k) ==
    /\ lyTrip' = trip
    /\ lyStep' = k % TripLength[trip]
    /\ lyElapsed' = 0
    /\ lyExploring' = FALSE
    /\ lyFrom' = IF lyStep' = 0 THEN -1 ELSE Stop(trip, lyStep' - 1)
    /\ lyLayer' = Stop(trip, lyStep')
    /\ lyPause' = lyPlaying'

LayersInit ==
    /\ lyTrip = "exp" /\ lyStep = 0 /\ lyPlaying = TRUE /\ lyExploring = FALSE
    /\ lyElapsed = 0 /\ lyFrom = -1 /\ lyLayer = Stop("exp", 0) /\ lyPause = TRUE

OpenTrip(trip) == lyPlaying' = TRUE /\ TripGo(trip, 0)

TripPlayButton ==
    IF lyExploring
    THEN lyPlaying' = TRUE /\ TripGo(lyTrip, lyStep)
    ELSE /\ lyPlaying' = ~lyPlaying
         /\ lyPause' = lyPlaying'
         /\ UNCHANGED <<lyTrip, lyStep, lyExploring, lyElapsed, lyFrom, lyLayer>>

\* Mutant: a picked step plays on.
PickTripStepPlays(k) == UNCHANGED lyPlaying /\ TripGo(lyTrip, k)

\* The arrows and the steps' bars.
PickTripStep(k) == lyPlaying' = FALSE /\ TripGo(lyTrip, k)

\* A click on a layer: its step in this trip, or its description.
Explore(layer) ==
    LET stops == {k \in 0..(TripLength[lyTrip] - 1) : Stop(lyTrip, k) = layer}
    IN  IF stops /= {}
        THEN \E k \in stops : (\A j \in stops : k <= j) /\ PickTripStep(k)
        ELSE /\ lyPlaying' = FALSE
             /\ lyExploring' = TRUE
             /\ lyFrom' = -1
             /\ lyLayer' = layer
             /\ lyPause' = FALSE
             /\ UNCHANGED <<lyTrip, lyStep, lyElapsed>>

\* Site.loop's callback with dt > 0.
LayersTick ==
    /\ lyPlaying /\ ~lyExploring
    /\ IF lyElapsed + 1 >= LayerDwell
       THEN UNCHANGED lyPlaying /\ TripGo(lyTrip, lyStep + 1)
       ELSE /\ lyElapsed' = lyElapsed + 1
            /\ UNCHANGED <<lyTrip, lyStep, lyPlaying, lyExploring, lyFrom, lyLayer, lyPause>>

LayersNext ==
    \/ \E trip \in DOMAIN Trips : OpenTrip(trip)
    \/ TripPlayButton
    \/ PickTripStep(lyStep + 1) \/ PickTripStep(lyStep - 1)
    \/ \E k \in 0..(TripLength[lyTrip] - 1) : PickTripStep(k)
    \/ \E layer \in Layers : Explore(layer)
    \/ LayersTick

LayersSpec == LayersInit /\ [][LayersNext]_layersVars

-----------------------------------------------------------------------------
(* The crash *)

VARIABLES
    svPolicy, \* policy
    svTimers, \* timers: what is still to be shown
    svState,  \* the status line
    svLog,    \* the log's lines since it was emptied
    svStory   \* history: the policy at the last crash, "none" before it

serviceVars == <<svPolicy, svTimers, svState, svLog, svStory>>

\* What each policy's timers write, in the order of their delays.
AfterCrash == [always |-> <<"scheduled", "started", "connected">>, no |-> <<"failed for good">>]
Told == {"exited", "failed for good"} \union {AfterCrash["always"][k] : k \in 1..3}

ServiceTypeOK ==
    /\ svPolicy \in DOMAIN AfterCrash
    /\ svTimers \in Seq(Told) /\ svLog \in Seq(Told)
    /\ svState \in {"active", "failed", "activating"}
    /\ svStory \in DOMAIN AfterCrash \union {"none"}

ServiceInit ==
    /\ svPolicy = "always" /\ svTimers = <<>> /\ svState = "active" /\ svLog = <<>>
    /\ svStory = "none"

SetPolicy(policy) ==
    /\ svPolicy' = policy
    /\ UNCHANGED <<svTimers, svState, svLog, svStory>>

\* Mutant: the timers of the crash before still run.
CrashKeepsTimers ==
    /\ Len(svTimers) <= 3
    /\ svTimers' = svTimers \o AfterCrash[svPolicy]
    /\ svLog' = <<"exited">>
    /\ svState' = "failed"
    /\ svStory' = svPolicy
    /\ UNCHANGED svPolicy

\* #l-crash
Crash ==
    /\ svTimers' = AfterCrash[svPolicy]
    /\ svLog' = <<"exited">>
    /\ svState' = "failed"
    /\ svStory' = svPolicy
    /\ UNCHANGED svPolicy

\* The timer with the shortest delay left.
Tell ==
    /\ svTimers /= <<>>
    /\ svTimers' = Tail(svTimers)
    /\ svLog' = Append(svLog, Head(svTimers))
    /\ svState' = CASE Head(svTimers) = "scheduled" -> "activating"
                    [] Head(svTimers) = "connected" -> "active"
                    [] OTHER -> svState
    /\ UNCHANGED <<svPolicy, svStory>>

ServiceNext ==
    \/ \E policy \in DOMAIN AfterCrash : SetPolicy(policy)
    \/ Crash
    \/ Tell

ServiceSpec == ServiceInit /\ [][ServiceNext]_serviceVars

-----------------------------------------------------------------------------
(* The boots *)

VARIABLES
    boNow,    \* the animation's time, in ticks
    boStart,  \* t0, -1 for null
    boDone,   \* done
    boClock,  \* the second shown
    boButton  \* the button's label

bootVars == <<boNow, boStart, boDone, boClock, boButton>>

BootTypeOK ==
    /\ boNow \in 0..BootMaxNow
    /\ boStart \in -1..boNow
    /\ boDone \in BOOLEAN
    /\ boClock \in 0..BootMax
    /\ boButton \in {"Play", "Restart", "Replay"}

BootInit == boNow = 0 /\ boStart = -1 /\ boDone = FALSE /\ boClock = 0 /\ boButton = "Play"

BootPlay ==
    /\ boStart' = -1 /\ boDone' = FALSE /\ boClock' = 0 /\ boButton' = "Restart"
    /\ UNCHANGED boNow

\* A frame: the replay goes by the animation's time, from the first frame after its start.
BootTick ==
    /\ ~boDone
    /\ boStart' = IF boStart = -1 THEN boNow ELSE boStart
    /\ boClock' = IF boNow - boStart' < BootMax THEN boNow - boStart' ELSE BootMax
    /\ boDone' = (boClock' = BootMax)
    /\ boButton' = IF boDone' THEN "Replay" ELSE IF boStart = -1 THEN "Restart" ELSE boButton
    /\ UNCHANGED boNow

BootWait ==
    /\ boNow < BootMaxNow
    /\ boNow' = boNow + 1
    /\ UNCHANGED <<boStart, boDone, boClock, boButton>>

BootNext == BootPlay \/ BootTick \/ BootWait

-----------------------------------------------------------------------------

(* The lab of the layers is a player as StoryPlayer promises: a step the reader picked with an
   arrow, a bar or a layer stays until they play on, and a trip goes on one stop at a time. *)
LayersPlayer == INSTANCE StoryPlayer WITH
    Stories <- DOMAIN Trips, Length <- TripLength,
    story <- lyTrip, at <- lyStep, running <- lyPlaying
LayersKeepPlayer == LayersPlayer!Spec

(* What the log of the crash tells is the story of the last crash and of the policy it happened
   under, in order, and the rest of that story is still to come: pressing the button again, or
   changing the policy, while an earlier crash is still being told mixes no two stories. *)
OneCrashTold ==
    svStory /= "none" => svLog \o svTimers = <<"exited">> \o AfterCrash[svStory]

=============================================================================
