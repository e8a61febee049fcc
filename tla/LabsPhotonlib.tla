---------------------------- MODULE LabsPhotonlib ---------------------------
(***************************************************************************)
(* The mailbox lab (src/training/js/ch/18-photonlib.js): results arrive    *)
(* from the Jetson at the camera's rate, with a little jitter, and the     *)
(* robot's code calls for them every 20 ms.  The lab says of each result   *)
(* what became of it without running the robot's code.  Times are in       *)
(* milliseconds.                                                           *)
(***************************************************************************)
EXTENDS Integers, Sequences, FiniteSets

CONSTANTS
    MailGaps,  \* 1/fps: the times between frames that the slider offers
    MailFrames \* bound: frames whose arrival is known

ASSUME MailAssumption == MailGaps \subseteq Nat \ {0} /\ MailFrames \in Nat

MailModes == {"all", "latest", "twice"}
LOOP == 20
LOOP0 == 3

VARIABLES
    pmMode, \* P.mode: the call by which the robot reads
    pmGap,  \* 1/P.fps
    pmLate  \* hash: how early or late each frame is, as a sign

mailVars == <<pmMode, pmGap, pmLate>>

MailTypeOK ==
    /\ pmMode \in MailModes /\ pmGap \in MailGaps
    /\ pmLate \in Seq(-1..1) /\ Len(pmLate) <= MailFrames

\* When frame k arrives (arr): up to 17.5% of the gap before or after the middle of its own.
Arrival(k) == k * pmGap + pmGap \div 2 + pmLate[k + 1] * ((7 * pmGap) \div 40)

Frames == 0..(Len(pmLate) - 1)
LoopAt(j) == LOOP0 + j * LOOP

\* The first loop at or after a time.
LoopOf(t) == (t - LOOP0 + LOOP - 1) \div LOOP

\* What becomes of frame k, and the loop that decides it; the next one's arrival is known.
Classify(k) ==
    LET j == LoopOf(Arrival(k))
    IN [j |-> j,
        s |-> IF pmMode /= "latest" THEN "used"
              ELSE IF Arrival(k + 1) <= LoopAt(j) THEN "skip"
              ELSE IF Arrival(k + 1) > LoopAt(j + 1) THEN "twice" ELSE "used"]

\* The frames a loop gets, and how a frame is drawn once loop now has run: waiting, dropped,
\* handed out again, or read.
Got(j) == {k \in Frames : LoopOf(Arrival(k)) = j}
Drawn(k, now) ==
    LET c == Classify(k)
    IN IF c.j > now THEN "waiting"
       ELSE IF c.s = "skip" THEN "skip"
       ELSE IF c.s = "twice" /\ c.j + 1 <= now THEN "twice" ELSE "used"

MailInit ==
    /\ pmMode = "all"
    /\ pmGap \in MailGaps
    /\ pmLate = <<>>

SetReading(mode) ==
    /\ mode /= pmMode
    /\ pmMode' = mode
    /\ UNCHANGED <<pmGap, pmLate>>

\* A new rate gives every frame another time.
SetRate(gap) ==
    /\ gap /= pmGap
    /\ pmGap' = gap
    /\ pmLate' = <<>>
    /\ UNCHANGED pmMode

NextFrame(late) ==
    /\ Len(pmLate) < MailFrames
    /\ pmLate' = Append(pmLate, late)
    /\ UNCHANGED <<pmMode, pmGap>>

MailNext ==
    \/ \E mode \in MailModes : SetReading(mode)
    \/ \E gap \in MailGaps : SetRate(gap)
    \/ \E late \in -1..1 : NextFrame(late)

\* The robot's code itself.  A loop that asks for the latest result is handed the newest that has
\* arrived, new or not; one that asks for all the unread is handed those since the loop before.
ReadAt(j) ==
    {k \in Frames :
        /\ Arrival(k) <= LoopAt(j)
        /\ IF pmMode = "latest" THEN \A k2 \in Frames : Arrival(k2) <= LoopAt(j) => k2 <= k
                                ELSE Arrival(k) > LoopAt(j - 1)}

LoopsUpTo(now) == 0..now

\* The colours tell what the robot's code has done up to each loop: a frame is drawn as waiting
\* until a loop has read it or a newer one, as dropped only if none ever does, as handed out again
\* once two have, and else as read; asked for all, every frame is in one loop's pile.
MailboxTrue ==
    \A k \in 0..(Len(pmLate) - 2), now \in 0..LoopOf(pmGap * MailFrames) :
        LET readers == {j \in LoopsUpTo(now) : k \in ReadAt(j)}
            newer == \E j \in LoopsUpTo(now), k2 \in Frames : k2 > k /\ k2 \in ReadAt(j)
            settled == Arrival(Len(pmLate) - 1) > LoopAt(now)
        IN settled =>
           /\ Drawn(k, now) = IF Cardinality(readers) > 1 THEN "twice"
                              ELSE IF readers /= {} THEN "used"
                              ELSE IF newer /\ pmMode = "latest" THEN "skip" ELSE "waiting"
           /\ pmMode /= "latest" => Got(now) = ReadAt(now)

=============================================================================
