--------------------------- MODULE LabsLinuxProofs ---------------------------
(***************************************************************************)
(* Proofs that the layers lab of the Linux chapter (src/training/js/ch/    *)
(* 06-linux.js) plays its trips as the abstract player of StoryPlayer,     *)
(* that its log tells one crash at a time, and that its labs keep their    *)
(* types.                                                                  *)
(***************************************************************************)
EXTENDS LabsLinux, SequenceTheorems, TLAPS

\* What the player's steps rest on: the trip is one of the two, the step one of the trip's.
TripInv ==
    /\ lyTrip \in DOMAIN Trips
    /\ lyStep \in 0..(TripLength[lyTrip] - 1)
    /\ lyPlaying \in BOOLEAN

\* The two trips and their lengths (TRIPS).
LEMMA TripLengths ==
    /\ DOMAIN Trips = {"exp", "frame"}
    /\ TripLength["exp"] = 4 /\ TripLength["frame"] = 5
<1>1. DOMAIN Trips = {"exp", "frame"}
    BY DEF Trips
<1>2. Trips["exp"] = <<0, 1, 3, 4>> /\ Trips["frame"] = <<4, 3, 1, 2, 0>>
    BY DEF Trips
<1>3. Len(Trips["exp"]) = 4 /\ Len(Trips["frame"]) = 5
    BY <1>2
<1> QED BY <1>1, <1>3 DEF TripLength

\* A step number counts round the trip's length (go's k % steps().length, with prev from 0).
LEMMA StepOfTrip ==
    ASSUME NEW trip \in DOMAIN Trips, NEW k \in Int
    PROVE  /\ TripLength[trip] \in Nat \ {0}
           /\ k % TripLength[trip] \in 0..(TripLength[trip] - 1)
           /\ k \in 0..(TripLength[trip] - 1) => k % TripLength[trip] = k
<1>1. CASE trip = "exp"
    <2>1. TripLength[trip] = 4
        BY <1>1, TripLengths
    <2> QED BY <2>1
<1>2. CASE trip = "frame"
    <2>1. TripLength[trip] = 5
        BY <1>2, TripLengths
    <2> QED BY <2>1
<1> QED BY <1>1, <1>2, TripLengths

\* A step the reader picks is a picked step of the abstract player (arrows, bars, layers).
LEMMA PickSimulates ==
    ASSUME TripInv, NEW k \in Int, PickTripStep(k)
    PROVE  TripInv' /\ LayersPlayer!Next
<1> DEFINE to == k % TripLength[lyTrip]
<1>1. lyTrip' = lyTrip /\ lyStep' = to /\ lyPlaying' = FALSE
    BY DEF PickTripStep, TripGo
<1>2. to \in 0..(TripLength[lyTrip] - 1)
    BY StepOfTrip DEF TripInv
<1> HIDE DEF to
<1>3. LayersPlayer!PickStep(to)
    BY <1>1, <1>2 DEF LayersPlayer!PickStep
<1> QED BY <1>1, <1>2, <1>3 DEF TripInv, LayersPlayer!Next

\* Every step of the lab is one of the abstract player, or none.
LEMMA LayersSimulate ==
    TripInv /\ [LayersNext]_layersVars => TripInv' /\ [LayersPlayer!Next]_(LayersPlayer!storyVars)
<1> SUFFICES ASSUME TripInv, [LayersNext]_layersVars
             PROVE  TripInv' /\ [LayersPlayer!Next]_(LayersPlayer!storyVars)
    OBVIOUS
<1>0. lyTrip \in DOMAIN Trips /\ lyStep \in 0..(TripLength[lyTrip] - 1) /\ lyStep \in Int
      /\ lyPlaying \in BOOLEAN /\ TripLength[lyTrip] \in Nat
    BY StepOfTrip DEF TripInv
<1>1. ASSUME NEW trip \in DOMAIN Trips, OpenTrip(trip) PROVE TripInv' /\ LayersPlayer!Next
    <2>1. lyTrip' = trip /\ lyStep' = 0 % TripLength[trip] /\ lyPlaying' = TRUE
        BY <1>1 DEF OpenTrip, TripGo
    <2>2. 0 \in 0..(TripLength[trip] - 1) /\ lyStep' = 0
        BY <2>1, StepOfTrip
    <2>3. LayersPlayer!Open(trip)
        BY <2>1, <2>2 DEF LayersPlayer!Open
    <2> QED BY <2>1, <2>2, <2>3 DEF TripInv, LayersPlayer!Next
<1>2. ASSUME TripPlayButton
      PROVE  TripInv' /\ [LayersPlayer!Next]_(LayersPlayer!storyVars)
    <2>1. CASE lyExploring
        <3>1. lyTrip' = lyTrip /\ lyStep' = lyStep % TripLength[lyTrip] /\ lyPlaying' = TRUE
            BY <1>2, <2>1 DEF TripPlayButton, TripGo
        <3>2. lyStep' = lyStep
            BY <1>0, <3>1, StepOfTrip
        <3>3. CASE lyPlaying = TRUE
            BY <1>0, <3>1, <3>2, <3>3 DEF TripInv, LayersPlayer!storyVars
        <3>4. CASE lyPlaying = FALSE
            <4>1. LayersPlayer!Toggle
                BY <3>1, <3>2, <3>4 DEF LayersPlayer!Toggle
            <4> QED BY <1>0, <3>1, <3>2, <4>1 DEF TripInv, LayersPlayer!Next
        <3> QED BY <1>0, <3>3, <3>4
    <2>2. CASE ~lyExploring
        <3>1. lyTrip' = lyTrip /\ lyStep' = lyStep /\ lyPlaying' = ~lyPlaying
            BY <1>2, <2>2 DEF TripPlayButton
        <3>2. LayersPlayer!Toggle
            BY <3>1 DEF LayersPlayer!Toggle
        <3> QED BY <1>0, <3>1, <3>2 DEF TripInv, LayersPlayer!Next
    <2> QED BY <2>1, <2>2
<1>3. ASSUME PickTripStep(lyStep + 1) \/ PickTripStep(lyStep - 1)
      PROVE  TripInv' /\ LayersPlayer!Next
    BY <1>0, <1>3, PickSimulates
<1>4. ASSUME NEW k \in 0..(TripLength[lyTrip] - 1), PickTripStep(k)
      PROVE  TripInv' /\ LayersPlayer!Next
    <2>1. k \in Int
        BY <1>0
    <2> QED BY <1>4, <2>1, PickSimulates
<1>5. ASSUME NEW layer \in Layers, Explore(layer) PROVE TripInv' /\ LayersPlayer!Next
    <2> DEFINE stops == {k \in 0..(TripLength[lyTrip] - 1) : Stop(lyTrip, k) = layer}
    <2>1. CASE stops /= {}
        <3>1. PICK k \in stops : PickTripStep(k)
            BY <1>5, <2>1 DEF Explore
        <3>2. k \in Int
            BY <1>0, <3>1
        <3> QED BY <3>1, <3>2, PickSimulates
    <2>2. CASE stops = {}
        <3>1. lyTrip' = lyTrip /\ lyStep' = lyStep /\ lyPlaying' = FALSE
            BY <1>5, <2>2 DEF Explore
        <3>2. LayersPlayer!PickStep(lyStep)
            BY <1>0, <3>1 DEF LayersPlayer!PickStep
        <3> QED BY <1>0, <3>1, <3>2 DEF TripInv, LayersPlayer!Next
    <2> QED BY <2>1, <2>2
<1>6. ASSUME LayersTick PROVE TripInv' /\ [LayersPlayer!Next]_(LayersPlayer!storyVars)
    <2>1. CASE lyElapsed + 1 >= LayerDwell
        <3>1. /\ lyTrip' = lyTrip /\ lyStep' = (lyStep + 1) % TripLength[lyTrip]
              /\ lyPlaying /\ lyPlaying' = lyPlaying
            BY <1>6, <2>1 DEF LayersTick, TripGo
        <3>2. lyStep' \in 0..(TripLength[lyTrip] - 1)
            BY <1>0, <3>1, StepOfTrip
        <3>3. LayersPlayer!GoOn
            BY <3>1 DEF LayersPlayer!GoOn
        <3> QED BY <1>0, <3>1, <3>2, <3>3 DEF TripInv, LayersPlayer!Next
    <2>2. CASE ~(lyElapsed + 1 >= LayerDwell)
        <3>1. lyTrip' = lyTrip /\ lyStep' = lyStep /\ lyPlaying' = lyPlaying
            BY <1>6, <2>2 DEF LayersTick
        <3> QED BY <1>0, <3>1 DEF TripInv, LayersPlayer!storyVars
    <2> QED BY <2>1, <2>2
<1>7. ASSUME UNCHANGED layersVars PROVE TripInv' /\ UNCHANGED (LayersPlayer!storyVars)
    BY <1>0, <1>7 DEF layersVars, TripInv, LayersPlayer!storyVars
<1> QED BY <1>1, <1>2, <1>3, <1>4, <1>5, <1>6, <1>7 DEF LayersNext

\* Played, paused, stepped, explored and exchanged in any order, a trip is played as StoryPlayer
\* promises (06-linux.js's layers lab).
THEOREM TripsArePlayed == LayersSpec => LayersKeepPlayer
<1>1. LayersInit => TripInv /\ LayersPlayer!Init
    BY TripLengths DEF LayersInit, TripInv, LayersPlayer!Init
<1> QED BY <1>1, LayersSimulate, PTL DEF LayersSpec, LayersKeepPlayer, LayersPlayer!Spec


-----------------------------------------------------------------------------
(* The crash *)

\* What the timers and the log hold besides OneCrashTold: both are sequences, empty before the
\* first crash.
CrashInv ==
    /\ svPolicy \in DOMAIN AfterCrash
    /\ svTimers \in Seq(Told) /\ svLog \in Seq(Told)
    /\ svStory \in DOMAIN AfterCrash \union {"none"}
    /\ svStory = "none" => svTimers = <<>>
    /\ OneCrashTold

\* What is told after a crash, by the policy.
LEMMA StoriesTold ==
    ASSUME NEW policy \in DOMAIN AfterCrash
    PROVE  AfterCrash[policy] \in Seq(Told) /\ policy /= "none"
<1>1. DOMAIN AfterCrash = {"always", "no"}
    BY DEF AfterCrash
<1>2. AfterCrash["always"] = <<"scheduled", "started", "connected">>
      /\ AfterCrash["no"] = <<"failed for good">>
    BY DEF AfterCrash
<1>3. ASSUME NEW a, NEW b, NEW c
      PROVE  <<a, b, c>>[1] = a /\ <<a, b, c>>[2] = b /\ <<a, b, c>>[3] = c
    OBVIOUS
<1>4. Told = {"exited", "failed for good"}
             \union {<<"scheduled", "started", "connected">>[k] : k \in 1..3}
    BY <1>2, Zenon DEF Told
<1>5. "scheduled" \in Told /\ "started" \in Told /\ "connected" \in Told
      /\ "failed for good" \in Told
    <2>1. 1 \in 1..3 /\ 2 \in 1..3 /\ 3 \in 1..3
        OBVIOUS
    <2>2. \A k \in 1..3 : <<"scheduled", "started", "connected">>[k] \in Told
        BY <1>4, Zenon
    <2>3. "failed for good" \in Told
        BY <1>4, Zenon
    <2> QED BY <1>3, <2>1, <2>2, <2>3, Zenon
<1>6. ASSUME NEW S, NEW a \in S, NEW b \in S, NEW c \in S
      PROVE  <<a, b, c>> \in Seq(S) /\ <<a>> \in Seq(S)
    OBVIOUS
<1>7. <<"scheduled", "started", "connected">> \in Seq(Told) /\ <<"failed for good">> \in Seq(Told)
    BY <1>5, <1>6, Zenon
<1> QED BY <1>1, <1>2, <1>7, Zenon

\* A timer moves the first line still to come to the end of the log: the whole stays the same.
LEMMA TellKeepsWhole ==
    ASSUME NEW S, NEW s \in Seq(S), NEW t \in Seq(S), t /= <<>>
    PROVE  /\ Head(t) \in S /\ Tail(t) \in Seq(S)
           /\ Append(s, Head(t)) \in Seq(S)
           /\ Append(s, Head(t)) \o Tail(t) = s \o t
BY HeadTailProperties, AppendProperties, ConcatProperties, ConcatAssociative, HeadTailAppend

\* The log and the lines still to come are one story, from the button on.
LEMMA CrashInvHolds == CrashInv /\ [ServiceNext]_serviceVars => CrashInv'
<1> SUFFICES ASSUME CrashInv, [ServiceNext]_serviceVars PROVE CrashInv'
    OBVIOUS
<1>1. ASSUME NEW policy \in DOMAIN AfterCrash, SetPolicy(policy) PROVE CrashInv'
    BY <1>1 DEF CrashInv, OneCrashTold, SetPolicy
<1>2. ASSUME Crash PROVE CrashInv'
    <2>1. "exited" \in Told /\ svLog' \in Seq(Told)
        BY <1>2 DEF Crash, Told
    <2> QED BY <1>2, <2>1, StoriesTold DEF CrashInv, OneCrashTold, Crash
<1>3. ASSUME Tell PROVE CrashInv'
    <2>1. svTimers' \in Seq(Told) /\ svLog' \in Seq(Told) /\ svLog' \o svTimers' = svLog \o svTimers
        BY <1>3, TellKeepsWhole DEF CrashInv, Tell
    <2> QED BY <1>3, <2>1 DEF CrashInv, OneCrashTold, Tell
<1>4. ASSUME UNCHANGED serviceVars PROVE CrashInv'
    BY <1>4 DEF CrashInv, OneCrashTold, serviceVars
<1> QED BY <1>1, <1>2, <1>3, <1>4 DEF ServiceNext

\* However often the button is pressed and the policy changed while an earlier crash is still
\* being told (ch/06-linux.js, serviceDemo), the log tells one crash from its start, under the
\* policy it happened under.
THEOREM CrashIsToldOnce == ServiceSpec => []OneCrashTold
<1>1. ServiceInit => CrashInv
    BY DEF ServiceInit, CrashInv, OneCrashTold, AfterCrash
<1>2. CrashInv => OneCrashTold
    BY DEF CrashInv
<1> QED BY <1>1, <1>2, CrashInvHolds, PTL DEF ServiceSpec

-----------------------------------------------------------------------------
(* The types of the chapter's labs, each kept by its own steps.                                 *)

\* A message's trip stays at one of its stops, its trail and light at one of the layers (ch/06-linux.js).
LEMMA LayersTypes ==
    /\ LayersInit => LayersTypeOK
    /\ LayersTypeOK /\ [LayersNext]_layersVars => LayersTypeOK'
<1>1. ASSUME NEW trip \in DOMAIN Trips, NEW k \in 0..(TripLength[trip] - 1) PROVE Stop(trip, k) \in Layers
    <2>1. CASE trip = "exp"
        <3>1. Trips[trip] = <<0, 1, 3, 4>> /\ k \in 0..3
            BY <2>1, TripLengths DEF Trips
        <3> QED BY <3>1 DEF Stop, Layers
    <2>2. CASE trip = "frame"
        <3>1. Trips[trip] = <<4, 3, 1, 2, 0>> /\ k \in 0..4
            BY <2>2, TripLengths DEF Trips
        <3> QED BY <3>1 DEF Stop, Layers
    <2> QED BY <2>1, <2>2, TripLengths
<1>2. LayersInit => LayersTypeOK
    <2>1. "exp" \in DOMAIN Trips /\ 0 \in 0..(TripLength["exp"] - 1) /\ 0 \in 0..LayerDwell
        BY TripLengths, LinuxAssumption
    <2> QED BY <1>1, <2>1 DEF LayersInit, LayersTypeOK
<1>3. ASSUME LayersTypeOK, NEW trip \in DOMAIN Trips, NEW k \in Int, TripGo(trip, k), lyPlaying' \in BOOLEAN
      PROVE  LayersTypeOK'
    <2> DEFINE to == k % TripLength[trip]
    <2>1. to \in 0..(TripLength[trip] - 1) /\ TripLength[trip] \in Nat \ {0}
        BY StepOfTrip
    <2>2. Stop(trip, to) \in Layers
        BY <1>1, <2>1
    <2>3. to /= 0 => Stop(trip, to - 1) \in Layers
        <3>1. to /= 0 => to - 1 \in 0..(TripLength[trip] - 1)
            BY <2>1
        <3> QED BY <1>1, <3>1
    <2>4. lyTrip' = trip /\ lyStep' = to /\ lyElapsed' = 0 /\ lyExploring' = FALSE /\ lyPause' = lyPlaying'
        BY <1>3 DEF TripGo
    <2>5. lyFrom' \in Layers \union {-1} /\ lyLayer' \in Layers
        BY <1>3, <2>2, <2>3 DEF TripGo
    <2>6. 0 \in 0..LayerDwell
        BY LinuxAssumption
    <2> QED BY <1>3, <2>1, <2>4, <2>5, <2>6 DEF LayersTypeOK
<1>4. ASSUME LayersTypeOK, [LayersNext]_layersVars PROVE LayersTypeOK'
    <2>1. /\ lyTrip \in DOMAIN Trips /\ TripLength[lyTrip] \in Nat /\ lyStep \in Int /\ lyPlaying \in BOOLEAN
          /\ lyStep \in 0..(TripLength[lyTrip] - 1)
        BY <1>4, StepOfTrip DEF LayersTypeOK
    <2>2. ASSUME NEW k \in Int, PickTripStep(k) PROVE LayersTypeOK'
        BY <1>3, <1>4, <2>1, <2>2 DEF PickTripStep
    <2>3. ASSUME NEW trip \in DOMAIN Trips, OpenTrip(trip) PROVE LayersTypeOK'
        BY <1>3, <1>4, <2>3 DEF OpenTrip
    <2>4. CASE TripPlayButton
        <3>1. CASE lyExploring
            BY <1>3, <1>4, <2>1, <2>4, <3>1 DEF TripPlayButton
        <3>2. CASE ~lyExploring
            BY <1>4, <2>4, <3>2 DEF TripPlayButton, LayersTypeOK
        <3> QED BY <3>1, <3>2
    <2>5. CASE PickTripStep(lyStep + 1) \/ PickTripStep(lyStep - 1)
        BY <2>1, <2>2, <2>5
    <2>6. ASSUME NEW k \in 0..(TripLength[lyTrip] - 1), PickTripStep(k) PROVE LayersTypeOK'
        BY <2>1, <2>2, <2>6
    <2>7. ASSUME NEW layer \in Layers, Explore(layer) PROVE LayersTypeOK'
        <3> DEFINE stops == {k \in 0..(TripLength[lyTrip] - 1) : Stop(lyTrip, k) = layer}
        <3>1. CASE stops /= {}
            <4>1. PICK k \in stops : PickTripStep(k)
                BY <2>7, <3>1 DEF Explore
            <4>2. k \in Int
                BY <2>1
            <4> QED BY <2>2, <4>1, <4>2
        <3>2. CASE stops = {}
            BY <1>4, <2>7, <3>2 DEF Explore, LayersTypeOK
        <3> QED BY <3>1, <3>2
    <2>8. CASE LayersTick
        <3>1. CASE lyElapsed + 1 >= LayerDwell
            <4>1. TripGo(lyTrip, lyStep + 1) /\ lyPlaying' \in BOOLEAN
                BY <2>1, <2>8, <3>1 DEF LayersTick
            <4> QED BY <1>3, <1>4, <2>1, <4>1
        <3>2. CASE ~(lyElapsed + 1 >= LayerDwell)
            <4>1. lyElapsed' \in 0..LayerDwell
                BY <1>4, <2>8, <3>2, LinuxAssumption DEF LayersTick, LayersTypeOK
            <4> QED BY <1>4, <2>8, <3>2, <4>1 DEF LayersTick, LayersTypeOK
        <3> QED BY <3>1, <3>2
    <2>9. CASE UNCHANGED layersVars
        BY <1>4, <2>9 DEF layersVars, LayersTypeOK
    <2> QED BY <1>4, <2>3, <2>4, <2>5, <2>6, <2>7, <2>8, <2>9 DEF LayersNext
<1> QED BY <1>2, <1>4

\* What is told of a crash, and what is still to be told, are lines of its story (ch/06-linux.js).
LEMMA ServiceTypes ==
    /\ ServiceInit => ServiceTypeOK
    /\ ServiceTypeOK /\ [ServiceNext]_serviceVars => ServiceTypeOK'
<1>1. ServiceInit => ServiceTypeOK
    BY DEF ServiceInit, ServiceTypeOK, AfterCrash
<1>2. ASSUME ServiceTypeOK, [ServiceNext]_serviceVars PROVE ServiceTypeOK'
    <2> USE <1>2 DEF ServiceTypeOK
    <2>1. ASSUME NEW policy \in DOMAIN AfterCrash, SetPolicy(policy) PROVE ServiceTypeOK'
        BY <2>1 DEF SetPolicy
    <2>2. CASE Crash
        <3>1. "exited" \in Told
            BY DEF Told
        <3> QED BY <2>2, <3>1, StoriesTold DEF Crash
    <2>3. CASE Tell
        <3>1. svTimers' \in Seq(Told) /\ svLog' \in Seq(Told)
            BY <2>3, TellKeepsWhole DEF Tell
        <3> QED BY <2>3, <3>1 DEF Tell
    <2>4. CASE UNCHANGED serviceVars
        BY <2>4 DEF serviceVars
    <2> QED BY <2>1, <2>2, <2>3, <2>4 DEF ServiceNext
<1> QED BY <1>1, <1>2

\* A boot's replay starts no later than now and ends at its last second (ch/06-linux.js).
LEMMA BootTypes ==
    /\ BootInit => BootTypeOK
    /\ BootTypeOK /\ [BootNext]_bootVars => BootTypeOK'
<1>1. ASSUME BootInit PROVE BootTypeOK
    <2>1. 0 \in 0..BootMaxNow /\ -1 \in -1..0 /\ 0 \in 0..BootMax
        BY LinuxAssumption
    <2> QED BY <1>1, <2>1 DEF BootInit, BootTypeOK
<1>2. ASSUME BootTypeOK, [BootNext]_bootVars PROVE BootTypeOK'
    <2> USE <1>2, LinuxAssumption DEF BootTypeOK
    <2>1. CASE BootPlay
        <3>1. -1 \in -1..boNow /\ 0 \in 0..BootMax
            OBVIOUS
        <3> QED BY <2>1, <3>1 DEF BootPlay
    <2>2. CASE BootTick
        <3>1. boStart' \in 0..boNow /\ boNow' = boNow
            BY <2>2 DEF BootTick
        <3>2. boClock' \in 0..BootMax
            BY <2>2, <3>1 DEF BootTick
        <3>3. boDone' \in BOOLEAN /\ boButton' \in {"Play", "Restart", "Replay"}
            BY <2>2 DEF BootTick
        <3> QED BY <3>1, <3>2, <3>3
    <2>3. CASE BootWait
        BY <2>3 DEF BootWait
    <2>4. CASE UNCHANGED bootVars
        BY <2>4 DEF bootVars
    <2> QED BY <2>1, <2>2, <2>3, <2>4 DEF BootNext
<1> QED BY <1>1, <1>2

=============================================================================
