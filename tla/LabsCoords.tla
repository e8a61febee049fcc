----------------------------- MODULE LabsCoords -----------------------------
(***************************************************************************)
(* The field lab (src/training/js/ch/19-coords.js): the reader places a    *)
(* robot and reads its pose, or is asked for the pose of a robot, among    *)
(* four of which three are the usual mistakes.  Lengths are millimetres,   *)
(* headings degrees.                                                       *)
(***************************************************************************)
EXTENDS Integers, Sequences

CONSTANTS
    CoSpots,    \* where the reader taps: <<x, y>>
    CoTurns,    \* headings that the slider is dragged to
    CoAsked,    \* poses that a question may be about
    CoOrders,   \* orders the four answers may be shuffled into
    CoQuestions \* bound: questions asked

FieldLength == 16518
FieldWidth == 8043
Abs(n) == IF n < 0 THEN -n ELSE n

\* The poses a question may be about: not near a wall, nor near the middle between the side
\* walls, and turned to no side exactly.
Askable ==
    {p \in [x : Int, y : Int, h : {s * t : s \in {-1, 1}, t \in {30, 45, 60, 90, 120, 135, 150}}] :
        /\ p.x \in 1200..(FieldLength - 1200) /\ p.y \in 700..(FieldWidth - 700)
        /\ Abs(2 * p.y - FieldWidth) >= 2200}

AnswerKinds == {"ok", "mirror", "cw", "red"}

ASSUME CoordsAssumption ==
    /\ CoQuestions \in Nat /\ CoAsked \subseteq Askable /\ CoSpots \subseteq Int \X Int /\ CoTurns \subseteq -180..180
    /\ \A opts \in CoOrders :
           /\ opts \in [1..4 -> AnswerKinds]
           /\ \A kind \in AnswerKinds : \E i \in 1..4 : opts[i] = kind

VARIABLES
    coMode,   \* S.mode: explore or quiz
    coEx,     \* S.ex: the robot placed
    coCode,   \* the poses in the code below it: the robot's, and red's matching spot
    coQ,      \* S.q: the question's pose and its four answers in order
    coPick,   \* S.pick: the answer picked, 0 while none is
    coRight,  \* S.right
    coN,      \* S.n
    coFb,     \* the feedback shown: to pick one, or about the kind of answer that was picked
    coMarks,  \* what each of the answers' buttons is marked as
    coSeen    \* questions shown so far, kept for the properties

coordsVars == <<coMode, coEx, coCode, coQ, coPick, coRight, coN, coFb, coMarks, coSeen>>

Pose(x, y, h) == [x |-> x, y |-> y, h |-> h]
WrapDeg(h) == ((h + 180) % 360) - 180

\* The pose as the page writes it: to a tenth of a metre, the heading from -180 to 179.
PoseShown(p) == Pose((p.x + 50) \div 100, (p.y + 50) \div 100, WrapDeg(p.h))

\* Red's matching spot: turned about the middle of the field.
RedsSpot(p) == Pose(FieldLength - p.x, FieldWidth - p.y, p.h + 180)

ExCode(p) == <<PoseShown(p), PoseShown(RedsSpot(p))>>

\* The right answer and the mistakes: y from the wrong wall, clockwise, from the red corner.
Answer4(p) ==
    [ok     |-> p,
     mirror |-> Pose(p.x, FieldWidth - p.y, p.h),
     cw     |-> Pose(p.x, p.y, -p.h),
     red    |-> RedsSpot(p)]

NoQuestion == [pose |-> Pose(0, 0, 0), opts |-> <<>>]

CoordsTypeOK ==
    /\ coMode \in {"explore", "quiz"} /\ coEx.h \in -180..180
    /\ coEx.x \in 0..FieldLength /\ coEx.y \in 0..FieldWidth /\ Len(coCode) = 2
    /\ coQ = NoQuestion \/ (coQ.pose \in CoAsked /\ coQ.opts \in CoOrders)
    /\ coPick \in 0..4 /\ coN \in 0..CoQuestions /\ coRight \in 0..CoQuestions
    /\ coFb \in AnswerKinds \union {"", "pick one"}
    /\ coMarks \in [1..4 -> {"", "right", "wrong"}] /\ coSeen \in 0..CoQuestions

Unmarked == [i \in 1..4 |-> ""]

CoordsInit ==
    /\ coMode = "explore"
    /\ coEx = Pose(3000, 2000, 45)
    /\ coCode = ExCode(coEx)
    /\ coQ = NoQuestion
    /\ coPick = 0
    /\ coRight = 0
    /\ coN = 0
    /\ coFb = ""
    /\ coMarks = Unmarked
    /\ coSeen = 0

quizLeft == <<coRight, coN>>

NewQ(p, opts) ==
    /\ coSeen < CoQuestions
    /\ coQ' = [pose |-> p, opts |-> opts]
    /\ coPick' = 0
    /\ coFb' = "pick one"
    /\ coMarks' = Unmarked
    /\ coSeen' = coSeen + 1

\* The first turn to the quiz asks a question; turning back and forth keeps it.
SetFieldMode(mode) ==
    /\ mode /= coMode
    /\ coMode' = mode
    /\ IF mode = "quiz" /\ coQ = NoQuestion
       THEN \E p \in CoAsked, opts \in CoOrders : NewQ(p, opts)
       ELSE UNCHANGED <<coQ, coPick, coFb, coMarks, coSeen>>
    /\ UNCHANGED <<coEx, coCode, quizLeft>>

\* Next robot, whether or not the question was answered.
NextRobot ==
    /\ coMode = "quiz"
    /\ \E p \in CoAsked, opts \in CoOrders : NewQ(p, opts)
    /\ UNCHANGED <<coMode, coEx, coCode, quizLeft>>

\* An answer: the first counts, and the right one is shown whichever it was.
PickAnswer(i) ==
    /\ coMode = "quiz" /\ coPick = 0
    /\ coPick' = i
    /\ coN' = coN + 1
    /\ coRight' = IF coQ.opts[i] = "ok" THEN coRight + 1 ELSE coRight
    /\ coMarks' = [k \in 1..4 |-> IF coQ.opts[k] = "ok" THEN "right"
                                  ELSE IF k = i THEN "wrong" ELSE ""]
    /\ coFb' = coQ.opts[i]
    /\ UNCHANGED <<coMode, coEx, coCode, coQ, coSeen>>

Clamped(v, low, high) == IF v < low THEN low ELSE IF v > high THEN high ELSE v

\* A tap on the field, or just beside it, places the robot inside its walls; not in the quiz.
Place(spot) ==
    /\ coMode = "explore"
    /\ spot[1] \in -300..(FieldLength + 300) /\ spot[2] \in -300..(FieldWidth + 300)
    /\ coEx' = Pose(Clamped(spot[1], 450, FieldLength - 450),
                    Clamped(spot[2], 450, FieldWidth - 450), coEx.h)
    /\ coCode' = ExCode(coEx')
    /\ UNCHANGED <<coMode, coQ, coPick, coFb, coMarks, coSeen, quizLeft>>

TurnRobot(h) ==
    /\ coMode = "explore"
    /\ coEx' = [coEx EXCEPT !.h = h]
    /\ coCode' = ExCode(coEx')
    /\ UNCHANGED <<coMode, coQ, coPick, coFb, coMarks, coSeen, quizLeft>>

CoordsNext ==
    \/ \E mode \in {"explore", "quiz"} : SetFieldMode(mode)
    \/ NextRobot
    \/ \E i \in 1..4 : PickAnswer(i)
    \/ \E spot \in CoSpots : Place(spot)
    \/ \E h \in CoTurns : TurnRobot(h)
CoordsSpec == CoordsInit /\ [][CoordsNext]_coordsVars

\* In the quiz there is a question, and no two of its answers read alike once rounded, so that
\* exactly one of them is right.
QuestionFair ==
    /\ coMode = "quiz" => coQ /= NoQuestion
    /\ coQ /= NoQuestion =>
           /\ \A a, b \in AnswerKinds : a /= b =>
                  PoseShown(Answer4(coQ.pose)[a]) /= PoseShown(Answer4(coQ.pose)[b])
           /\ \A kind \in AnswerKinds : \E i \in 1..4 : coQ.opts[i] = kind

\* The marks and the feedback are of this question's answer, or of none.
MarksOfPick ==
    coQ /= NoQuestion =>
        /\ coFb = IF coPick = 0 THEN "pick one" ELSE coQ.opts[coPick]
        /\ (\E i \in 1..4 : coMarks[i] = "right") <=> coPick /= 0
        /\ \A i \in 1..4 : coMarks[i] = "wrong" <=> i = coPick /\ coFb /= "ok"

\* A question counts once, and only when it is answered, and of those that count no more are right.
ScoreTrue ==
    /\ coRight <= coN /\ coN <= coSeen
    /\ coQ /= NoQuestion /\ coPick = 0 => coN < coSeen
    /\ coPick /= 0 /\ coFb = "ok" => coRight > 0

\* The quiz asks what can be answered, and its score is of the answers given.
QuizFair == QuestionFair /\ MarksOfPick /\ ScoreTrue

\* A metre straight ahead, for a robot that faces a wall.
Along(h) == IF WrapDeg(h) = 0 THEN 1000 ELSE IF WrapDeg(h) = -180 THEN -1000 ELSE 0
Across(h) == IF WrapDeg(h) = 90 THEN 1000 ELSE IF WrapDeg(h) = -90 THEN -1000 ELSE 0
MetreAhead(p) == Pose(p.x + Along(p.h), p.y + Across(p.h), p.h)

\* The code below the field is of the robot where it stands; the robot is inside the walls, and
\* so is red's matching spot, of which the matching spot is the robot's own.  The two robots drive
\* alike: as the one goes ahead, its matching spot goes ahead of the other.
CodeOfRobot ==
    /\ coCode[1] = PoseShown(coEx)
    /\ LET red == RedsSpot(coEx)
       IN /\ red.x \in 450..(FieldLength - 450) /\ red.y \in 450..(FieldWidth - 450)
          /\ coCode[2] = PoseShown(red) /\ PoseShown(RedsSpot(red)) = coCode[1]
          /\ RedsSpot(MetreAhead(coEx)) = MetreAhead(red)

=============================================================================
