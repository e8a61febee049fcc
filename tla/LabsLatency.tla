---------------------------- MODULE LabsLatency ----------------------------
(***************************************************************************)
(* The labs of the latency chapter (src/training/js/ch/14-latency.js): the *)
(* timeline of a frame that plays, is paused and is clicked, the robot     *)
(* whose heading is looked up at the time a picture was taken, the rewind  *)
(* captions, and the ping that estimates the offset of two clocks.         *)
(*                                                                         *)
(* Times are in steps of each lab, headings in the turn of one step at a   *)
(* spin of one.                                                            *)
(***************************************************************************)
EXTENDS Integers, Sequences

CONSTANTS
    RowEnds,     \* where each row of the timeline ends, in steps
    BotSpins,    \* spin rates: W
    BotLate,     \* latencies: L
    BotKeep,     \* how long a heading is kept: 0.4 s
    BotMaxStep,  \* steps between two frames of the loop at most
    BotMaxNow,   \* bound: the lab's clock
    PingUneven,  \* settings of the network's unevenness, in hundredths of a ms
    PingFrames   \* frames a ping is shown in flight (2.2 s)

ASSUME LatencyAssumption ==
    /\ RowEnds \in Seq(Nat \ {0}) /\ RowEnds /= <<>>
    /\ \A i, j \in 1..Len(RowEnds) : i < j => RowEnds[i] < RowEnds[j]
    /\ BotSpins \subseteq Nat /\ BotLate \subseteq Nat
    /\ BotKeep \in Nat /\ BotMaxStep \in Nat \ {0}
    /\ BotSpins /= {} /\ BotLate /= {} /\ BotMaxNow \in Nat
    /\ \A l \in BotLate : l + BotMaxStep <= BotKeep
    /\ PingUneven \subseteq Nat /\ PingUneven /= {} /\ PingFrames \in Nat

-----------------------------------------------------------------------------
(* The timeline *)

VARIABLES
    tlTime,    \* T
    tlPlaying, \* playing
    tlButton,  \* what the button says
    tlCard,    \* the row the card tells of, 0 none yet
    tlLast,    \* lastShown
    tlSel      \* sel: the row clicked, 0 for none

timelineVars == <<tlTime, tlPlaying, tlButton, tlCard, tlLast, tlSel>>

Rows == 1..Len(RowEnds)
LineEnd == RowEnds[Len(RowEnds)] + 1
RowStart(i) == IF i = 1 THEN 0 ELSE RowEnds[i - 1]

\* active: the row the playhead is in, 0 past the last.
RowAt(t) == IF \E i \in Rows : RowStart(i) <= t /\ t < RowEnds[i]
            THEN CHOOSE i \in Rows : RowStart(i) <= t /\ t < RowEnds[i] ELSE 0

TimelineTypeOK ==
    /\ tlTime \in 0..LineEnd /\ tlPlaying \in BOOLEAN
    /\ tlButton \in {"Play", "Pause", "Replay"}
    /\ tlCard \in {0} \cup Rows /\ tlLast \in {0} \cup Rows /\ tlSel \in {0} \cup Rows

TimelineInit ==
    /\ tlTime = 0 /\ tlPlaying = FALSE /\ tlButton = "Play"
    /\ tlCard = 0 /\ tlLast = 0 /\ tlSel = 0

\* At the end it plays from the start.
LinePlayButton ==
    /\ tlTime' = IF ~tlPlaying /\ tlTime >= LineEnd THEN 0 ELSE tlTime
    /\ tlPlaying' = ~tlPlaying
    /\ tlButton' = IF tlPlaying THEN "Play" ELSE "Pause"
    /\ UNCHANGED <<tlCard, tlLast, tlSel>>

\* A click on a row pauses at its end and tells of it.
ClickRow(i) ==
    /\ tlSel' = i /\ tlCard' = i
    /\ tlTime' = RowEnds[i] - 1
    /\ tlPlaying' = FALSE /\ tlButton' = "Play"
    /\ UNCHANGED tlLast

\* Mutant: the card only ever goes on to later rows.
LineTickLater(d) ==
    LET t == IF tlPlaying THEN tlTime + d ELSE tlTime
        over == tlPlaying /\ t >= LineEnd
        row == RowAt(IF over THEN LineEnd ELSE t)
        tell == tlPlaying /\ ~over /\ row > tlLast
    IN  /\ tlTime' = IF over THEN LineEnd ELSE t
        /\ tlPlaying' = (tlPlaying /\ ~over)
        /\ tlButton' = IF over THEN "Replay" ELSE tlButton
        /\ tlCard' = IF tell THEN row ELSE tlCard
        /\ tlLast' = IF tell THEN row ELSE tlLast
        /\ tlSel' = IF tell THEN 0 ELSE tlSel

\* A frame of the loop: while it plays the card tells of each row once it is begun.
LineTick(d) ==
    LET t == IF tlPlaying THEN tlTime + d ELSE tlTime
        over == tlPlaying /\ t >= LineEnd
        row == RowAt(IF over THEN LineEnd ELSE t)
        tell == tlPlaying /\ ~over /\ row /= tlLast /\ row /= 0
    IN  /\ tlTime' = IF over THEN LineEnd ELSE t
        /\ tlPlaying' = (tlPlaying /\ ~over)
        /\ tlButton' = IF over THEN "Replay" ELSE tlButton
        /\ tlCard' = IF tell THEN row ELSE tlCard
        /\ tlLast' = IF tell THEN row ELSE tlLast
        /\ tlSel' = IF tell THEN 0 ELSE tlSel

TimelineNext ==
    \/ LinePlayButton
    \/ \E i \in Rows : ClickRow(i)
    \/ \E d \in 1..2 : LineTick(d)

-----------------------------------------------------------------------------
(* The robot and its stale heading *)

VARIABLES
    btNow,   \* t
    btHead,  \* head
    btSpin,  \* W
    btLate,  \* L
    btMode,  \* mode: the answer is stamped, or taken for now's
    btHist,  \* hist: the headings kept, with their times
    btTruth, \* history: the heading at every time so far
    btGuess  \* g: the heading drawn for the picture's time, or NoGuess

botVars == <<btNow, btHead, btSpin, btLate, btMode, btHist, btTruth, btGuess>>

NoGuess == [at |-> -(BotKeep + 1), h |-> 0]

BotTypeOK ==
    /\ btNow \in 0..BotMaxNow /\ btHead \in Nat
    /\ btSpin \in BotSpins /\ btLate \in BotLate /\ btMode \in {"ts", "now"}
    /\ btHist \in Seq([t : 0..BotMaxNow, h : Nat])
    /\ btTruth \in [0..btNow -> Nat]
    /\ btGuess \in [at : -(BotKeep + 1)..BotMaxNow, h : Nat]

BotInit ==
    /\ btNow = 0 /\ btHead = 0
    /\ btSpin = (CHOOSE w \in BotSpins : TRUE) /\ btLate = (CHOOSE l \in BotLate : TRUE)
    /\ btMode = "ts" /\ btHist = <<>> /\ btTruth = [t \in 0..0 |-> 0] /\ btGuess = NoGuess

\* sample: between the two headings around the time, or the oldest. Between two
\* frames the robot turns evenly, so the division has no rest.
Sample(hist, tq) ==
    IF tq <= hist[1].t THEN hist[1].h
    ELSE LET i == CHOOSE i \in 2..Len(hist) : hist[i - 1].t <= tq /\ tq <= hist[i].t
             a == hist[i - 1]
             b == hist[i]
         IN  a.h + ((b.h - a.h) * (tq - a.t)) \div (b.t - a.t)

\* The headings kept: from the front those are dropped that are older than BotKeep steps.
KeptSamples(hist, now) ==
    LET first == CHOOSE k \in 1..Len(hist) :
                    /\ hist[k].t >= now - BotKeep
                    /\ \A j \in 1..(k - 1) : hist[j].t < now - BotKeep
    IN  SubSeq(hist, first, Len(hist))

\* A frame, d steps later: the robot turns, the heading is noted, and the one of the
\* picture's time is looked up.
BotTick(d) ==
    LET now == btNow + d
        head == btHead + btSpin * d
        hist == KeptSamples(Append(btHist, [t |-> now, h |-> head]), now)
    IN  /\ now <= BotMaxNow
        /\ btNow' = now /\ btHead' = head /\ btHist' = hist
        /\ btTruth' = [t \in 0..now |-> IF t <= btNow THEN btTruth[t]
                                        ELSE btHead + btSpin * (t - btNow)]
        /\ btGuess' = [at |-> now - btLate, h |-> Sample(hist, now - btLate)]
        /\ UNCHANGED <<btSpin, btLate, btMode>>

SlideBot(w, l) ==
    /\ btSpin' = w /\ btLate' = l /\ (w = btSpin) /= (l = btLate)
    /\ UNCHANGED <<btNow, btHead, btMode, btHist, btTruth, btGuess>>

PickBotMode(m) ==
    /\ btMode' = m
    /\ UNCHANGED <<btNow, btHead, btSpin, btLate, btHist, btTruth, btGuess>>

BotNext ==
    \/ \E d \in 1..BotMaxStep : BotTick(d)
    \/ \E w \in BotSpins, l \in BotLate : SlideBot(w, l)
    \/ \E m \in {"ts", "now"} : PickBotMode(m)

-----------------------------------------------------------------------------
(* The rewind's captions *)

VARIABLES
    rwPhase,  \* ph: the phase of the 10 s cycle
    rwCaption \* cap: the caption below, -1 before the first frame

rewindVars == <<rwPhase, rwCaption>>

RewindTypeOK == rwPhase \in 0..4 /\ rwCaption \in -1..4
RewindInit == rwPhase = 0 /\ rwCaption = -1

\* A frame, in the phase of the last or the next; frames are not seen off screen, so
\* any other may follow.
RewindTick(ph) == rwPhase' = ph /\ rwCaption' = ph

RewindNext == \E ph \in 0..4 : RewindTick(ph)

-----------------------------------------------------------------------------
(* The ping between two clocks *)

VARIABLES
    pgUneven, \* asym
    pgPing,   \* ping: the trips there and back, and whether it was told, or NoPing
    pgAge,    \* frames it has been in flight
    pgFirst,  \* the page's own first ping is still to come
    pgSays    \* math: what the box tells

pingVars == <<pgUneven, pgPing, pgAge, pgFirst, pgSays>>

NoPing == [there |-> -1, back |-> -1, told |-> FALSE]
TripBase == 15
Turnaround == 2

PingTypeOK ==
    /\ pgUneven \in PingUneven
    /\ pgPing \in [there : Int, back : Int, told : BOOLEAN]
    /\ pgAge \in 0..PingFrames
    /\ pgFirst \in BOOLEAN
    /\ pgSays \in [says : {"press", "in flight", "offset", "set"}, twice : Int]

PingInit ==
    /\ pgUneven = (CHOOSE u \in PingUneven : TRUE)
    /\ pgPing = NoPing /\ pgAge = 0 /\ pgFirst = TRUE
    /\ pgSays = [says |-> "press", twice |-> 0]

\* send: each trip takes the base and some of the unevenness.
Send(a, b) ==
    /\ pgPing' = [there |-> TripBase + a, back |-> TripBase + b, told |-> FALSE]
    /\ pgAge' = 0
    /\ pgSays' = [says |-> "in flight", twice |-> 0]

PingButton ==
    /\ \E a, b \in {0, pgUneven} : Send(a, b)
    /\ UNCHANGED <<pgUneven, pgFirst>>

\* The page sends one by itself 0.4 s after it opened, unless there was one.
FirstPing ==
    /\ pgFirst /\ pgFirst' = FALSE
    /\ IF pgPing = NoPing THEN \E a, b \in {0, pgUneven} : Send(a, b)
                          ELSE UNCHANGED <<pgPing, pgAge, pgSays>>
    /\ UNCHANGED pgUneven

\* The unevenness is only said to have changed over an answer that is there.
SlideUneven(u) ==
    /\ pgUneven' = u
    /\ pgSays' = IF pgPing.told THEN [says |-> "set", twice |-> u] ELSE pgSays
    /\ UNCHANGED <<pgPing, pgAge, pgFirst>>

\* done: twice the error of offset = t1 + RTT/2 - t2, in hundredths of a ms. t1 is
\* taken before the turnaround, which the round trip holds.
TwiceOffsetError(p) == p.there - p.back - Turnaround

\* A frame: the answer is told once, when it has come back.
PingTick ==
    LET back == pgAge = PingFrames
    IN  /\ pgPing /= NoPing
        /\ pgAge' = IF back THEN pgAge ELSE pgAge + 1
        /\ pgPing' = [pgPing EXCEPT !.told = pgPing.told \/ back]
        /\ pgSays' = IF back /\ ~pgPing.told
                     THEN [says |-> "offset", twice |-> TwiceOffsetError(pgPing)] ELSE pgSays
        /\ UNCHANGED <<pgUneven, pgFirst>>

PingNext ==
    \/ PingButton
    \/ FirstPing
    \/ \E u \in PingUneven : SlideUneven(u)
    \/ PingTick

-----------------------------------------------------------------------------
\* The heading drawn for a picture is the one the robot had when it was taken,
\* however unevenly the frames came, and whatever the spin was in between.
HeadingOfThePicture ==
    btGuess /= NoGuess /\ btGuess.at >= btHist[1].t /\ btGuess.at >= 0 =>
        btGuess.h = btTruth[btGuess.at]

\* While the timeline plays the card tells of the row that the playhead is in, on the
\* first play and on a replay, or still of the row clicked last. (It may be the
\* latter: a click leaves lastShown as it is, so a row that was told of before the
\* click is not told of again after it.)
CardOfPlayhead == [][
    tlPlaying /\ tlPlaying' /\ tlTime' /= tlTime /\ RowAt(tlTime') /= 0 =>
        tlCard' \in {RowAt(tlTime'), tlSel'}
    ]_timelineVars

\* What the box tells of a ping is of the last one sent.
AnswerOfLastPing ==
    /\ pgSays.says = "in flight" => ~pgPing.told
    /\ pgSays.says = "offset" => pgPing.told /\ pgSays.twice = TwiceOffsetError(pgPing)

=============================================================================
