---------------------------- MODULE LabsFinale ----------------------------
(***************************************************************************)
(* The labs of the last chapter (src/training/js/ch/17-finale.js): the     *)
(* journey of one frame, a player over ten stages; the quiz, whose answers *)
(* the browser keeps; and the glossary's search.                           *)
(*                                                                         *)
(* The journey's time T is counted in half steps of the animation: a stage *)
(* is JourneyPer of them, playing moves T by two, and the odd JourneyLast  *)
(* stands for the code's end of the trip, just short of its full length.   *)
(***************************************************************************)
EXTENDS Integers, FiniteSets

CONSTANTS
    QuizQuestions, \* the quiz has questions 0..QuizQuestions-1
    QuizRight,     \* the right option of each, as written in QS
    QuizFull,      \* the questions only the full course asks
    NoAnswer,
    GlossTerms,    \* the glossary's terms
    GlossMatches   \* those the searched word is in

ASSUME FinaleAssumption ==
    /\ QuizQuestions \in Nat \ {0}
    /\ QuizRight \in [0..(QuizQuestions - 1) -> 0..3]
    /\ NoAnswer \notin 0..3
    /\ GlossMatches \subseteq GlossTerms

-----------------------------------------------------------------------------
(* Follow one frame *)

VARIABLES
    jnT,       \* T
    jnPlaying, \* playing
    jnShown,   \* shown, -1 for none
    jnPanel,   \* the text beside the stage: of which stage, in which mode, with pixel values
    jnButton,  \* the play button's label
    jnMode,    \* the page's mode
    jnPixels   \* pix: the frame's picture has been decoded

journeyVars == <<jnT, jnPlaying, jnShown, jnPanel, jnButton, jnMode, jnPixels>>

JourneyStages == 10
JourneyPer == 4
JourneyEnd == JourneyStages * JourneyPer
JourneyLast == JourneyEnd - 1

JourneyTypeOK ==
    /\ jnT \in 0..JourneyEnd
    /\ jnPlaying \in BOOLEAN
    /\ jnShown \in -1..(JourneyStages - 1)
    /\ jnPanel \in [stage : -1..(JourneyStages - 1), mode : {"short", "full"}, pixels : BOOLEAN]
    /\ jnButton \in {"Play", "Pause", "Replay"}
    /\ jnMode \in {"short", "full"}
    /\ jnPixels \in BOOLEAN

JourneyInit ==
    /\ jnT = 0 /\ jnPlaying = FALSE /\ jnShown = -1
    /\ jnMode \in {"short", "full"}
    /\ jnPanel = [stage |-> -1, mode |-> jnMode, pixels |-> FALSE]
    /\ jnButton = "Play"
    /\ jnPixels = FALSE

JourneyStage(t) == IF t >= JourneyEnd THEN JourneyStages - 1 ELSE t \div JourneyPer

\* info(i)
Info(i) == jnPanel' = [stage |-> i, mode |-> jnMode, pixels |-> jnPixels]

\* syncUI: the text follows at once, the canvas may be off screen.
SyncUI(t) ==
    /\ jnShown' = JourneyStage(t)
    /\ IF jnShown' /= jnShown THEN Info(jnShown') ELSE UNCHANGED jnPanel

\* btn.onclick
JourneyButton ==
    /\ jnPlaying' = ~jnPlaying
    /\ jnT' = IF ~jnPlaying /\ jnT >= JourneyLast THEN 0 ELSE jnT
    /\ jnButton' = IF jnPlaying' THEN "Pause" ELSE "Play"
    /\ UNCHANGED <<jnShown, jnPanel, jnMode, jnPixels>>

\* scrub.oninput and jr.onclick: to a time, or to a stage's start, and pause there.
JourneySeek(t) ==
    /\ jnT' = t
    /\ jnPlaying' = FALSE
    /\ jnButton' = "Play"
    /\ SyncUI(t)
    /\ UNCHANGED <<jnMode, jnPixels>>

\* Site.loop's callback.
JourneyTick ==
    /\ LET t == jnT + 2
           done == jnPlaying /\ t >= JourneyEnd
       IN  /\ jnT' = IF done THEN JourneyLast ELSE IF jnPlaying THEN t ELSE jnT
           /\ jnPlaying' = (jnPlaying /\ ~done)
           /\ jnButton' = IF done THEN "Replay" ELSE jnButton
    /\ LET i == JourneyStage(jnT')
       IN  /\ jnShown' = i
           /\ IF i /= jnShown \/ (i = 1 /\ jnPixels /\ ~jnPanel.pixels)
              THEN Info(i) ELSE UNCHANGED jnPanel
    /\ UNCHANGED <<jnMode, jnPixels>>

\* img.onload
JourneyPixels ==
    /\ ~jnPixels /\ jnPixels' = TRUE
    /\ UNCHANGED <<jnT, jnPlaying, jnShown, jnPanel, jnButton, jnMode>>

\* site:mode: the text is written again at the next frame (it names the mode's chapters).
JourneySwitches ==
    /\ jnMode' \in {"short", "full"} \ {jnMode}
    /\ jnShown' = -1
    /\ UNCHANGED <<jnT, jnPlaying, jnPanel, jnButton, jnPixels>>

\* The running clock over the stage, in 0.1 ms: from A[i] to B[i] over the stage's first 87 %.
ClockFrom == <<0, 0, 50, 50, 131, 157, 169, 169, 174, 179>>
ClockTo == <<0, 50, 50, 131, 157, 169, 169, 174, 179, 179>>
JourneyClock(t) ==
    LET i == JourneyStage(t)
        p == 115 * (t - i * JourneyPer)
        u == IF p > 100 * JourneyPer THEN 100 * JourneyPer ELSE p
    IN  ClockFrom[i + 1] + ((ClockTo[i + 1] - ClockFrom[i + 1]) * u) \div (100 * JourneyPer)

JourneyTimes == {t \in 0..JourneyEnd : t % 2 = 0}

JourneyNext ==
    \/ JourneyButton
    \/ \E t \in JourneyTimes : JourneySeek(t)
    \/ JourneyTick
    \/ JourneyPixels
    \/ JourneySwitches

-----------------------------------------------------------------------------
(* The quiz *)

VARIABLES
    qzAns,     \* ans
    qzStored,  \* localStorage
    qzBlocked, \* the browser keeps no storage
    qzCards,   \* the answer each card shows; its buttons are disabled
    qzScore,   \* the score line: right, asked, and what the message says
    qzMode     \* the page's mode

quizVars == <<qzAns, qzStored, qzBlocked, qzCards, qzScore, qzMode>>

Questions == 0..(QuizQuestions - 1)
QuizOptions == 0..3
NoAnswers == [q \in Questions |-> NoAnswer]
Messages == {"start", "to go", "perfect", "great", "done"}

QuizTypeOK ==
    /\ \A f \in {qzAns, qzStored, qzCards} : f \in [Questions -> QuizOptions \union {NoAnswer}]
    /\ qzBlocked \in BOOLEAN
    /\ qzScore \in [ok : Nat, of : Nat, says : Messages]
    /\ qzMode \in {"short", "full"}

\* The rotation of question q's options: option j of the card is option (j + r) % 4 of QS.
Rotation(q) == (q * 3 + 2) % 4
Written(q, j) == (j + Rotation(q)) % 4

\* The card's option that is marked right.
Marked(q) == (QuizRight[q] - Rotation(q) + 4) % 4

Asked(mode) == IF mode = "short" THEN Questions \ QuizFull ELSE Questions

\* score()
Score(ans, mode) ==
    LET n == Cardinality(Asked(mode))
        done == Cardinality({q \in Asked(mode) : ans[q] /= NoAnswer})
        ok == Cardinality({q \in Asked(mode) : ans[q] = Marked(q)})
    IN  [ok |-> ok, of |-> n,
         says |-> CASE done = 0 -> "start"
                    [] done > 0 /\ done < n -> "to go"
                    [] done > 0 /\ done = n /\ ok = n -> "perfect"
                    [] done > 0 /\ done = n /\ ok < n /\ ok >= (8 * n + 5) \div 10 -> "great"
                    [] OTHER -> "done"]

Loaded == IF qzBlocked THEN NoAnswers ELSE qzStored

QuizInit ==
    /\ qzAns = NoAnswers /\ qzStored = NoAnswers
    /\ qzBlocked \in BOOLEAN
    /\ qzCards = NoAnswers
    /\ qzMode \in {"short", "full"}
    /\ qzScore = Score(qzAns, qzMode)

Save(ans) == qzStored' = IF qzBlocked THEN qzStored ELSE ans

\* qz.onclick: a card that is answered is not answered again.
QuizClick(q, j) ==
    /\ q \in Asked(qzMode) /\ qzCards[q] = NoAnswer
    /\ qzAns' = [qzAns EXCEPT ![q] = j]
    /\ Save(qzAns')
    /\ qzCards' = [qzCards EXCEPT ![q] = j]
    /\ qzScore' = Score(qzAns', qzMode)
    /\ UNCHANGED <<qzBlocked, qzMode>>

\* #fn-reset
QuizReset ==
    /\ qzAns' = NoAnswers /\ qzCards' = NoAnswers
    /\ Save(qzAns')
    /\ qzScore' = Score(qzAns', qzMode)
    /\ UNCHANGED <<qzBlocked, qzMode>>

\* site:mode
QuizSwitch(mode) ==
    /\ qzMode' = mode
    /\ qzScore' = Score(qzAns, mode)
    /\ UNCHANGED <<qzAns, qzStored, qzBlocked, qzCards>>

\* The page is left and opened again.
QuizReload ==
    /\ qzAns' = Loaded
    /\ qzCards' = qzAns'
    /\ qzScore' = Score(qzAns', qzMode)
    /\ UNCHANGED <<qzStored, qzBlocked, qzMode>>

QuizNext ==
    \/ \E q \in Questions, j \in QuizOptions : QuizClick(q, j)
    \/ QuizReset
    \/ \E mode \in {"short", "full"} : QuizSwitch(mode)
    \/ QuizReload

-----------------------------------------------------------------------------
(* The glossary *)

VARIABLES
    glKnown,   \* Site.glossary
    glListed,  \* the terms in the list
    glSearch,  \* the word searched for is in the box
    glVisible, \* the terms not hidden
    glTimer    \* the rebuild 3 s after the chapter starts is to come

glossVars == <<glKnown, glListed, glSearch, glVisible, glTimer>>

GlossTypeOK ==
    /\ glVisible \subseteq glListed /\ glListed \subseteq glKnown
    /\ glKnown \subseteq GlossTerms
    /\ glSearch \in BOOLEAN /\ glTimer \in BOOLEAN

\* filter()
Found(terms, search) == IF search THEN terms \intersect GlossMatches ELSE terms

GlossInit ==
    /\ glKnown \in SUBSET GlossTerms
    /\ glListed = glKnown /\ glVisible = glKnown
    /\ glSearch = FALSE
    /\ glTimer = TRUE

\* A chapter's script that loads later adds its terms.
GlossLearns(term) ==
    /\ glKnown' = glKnown \union {term}
    /\ UNCHANGED <<glListed, glSearch, glVisible, glTimer>>

\* input: the word is typed, or the box emptied.
GlossSearch ==
    /\ glSearch' = ~glSearch
    /\ glVisible' = Found(glListed, glSearch')
    /\ UNCHANGED <<glKnown, glListed, glTimer>>

\* The timer: build(), which ends with filter().
GlossBuilds ==
    /\ glTimer /\ glTimer' = FALSE
    /\ glListed' = glKnown
    /\ glVisible' = Found(glKnown, glSearch)
    /\ UNCHANGED <<glKnown, glSearch>>

GlossNext == (\E term \in GlossTerms : GlossLearns(term)) \/ GlossSearch \/ GlossBuilds

-----------------------------------------------------------------------------

(* The text beside the journey is written for the version of the course being read: a text
   that stays on the screen after a switch would send the reader to a chapter the short tour
   hides. *)
JourneyTextOfMode == jnShown /= -1 => jnPanel.stage = jnShown /\ jnPanel.mode = jnMode

(* The journey's running clock never goes back while the frame travels, within a stage and
   from each stage to the next; only the reader takes it back. *)
JourneyClockForward ==
    [][jnPlaying /\ jnPlaying' => JourneyClock(jnT') >= JourneyClock(jnT)]_journeyVars

(* What the quiz marks as right is the option the question gives as right, its score counts the
   answers the reader sees in the questions of the version they read, and unless the browser
   keeps no storage the answers come back as they are. *)
QuizTrue ==
    /\ \A q \in Questions : Written(q, Marked(q)) = QuizRight[q]
    /\ qzCards = qzAns
    /\ qzScore = Score(qzCards, qzMode)
    /\ ~qzBlocked => qzStored = qzAns

(* The glossary shows what the reader searched for, also when the list is built again behind
   their back while they type. *)
GlossaryFiltered == glVisible = Found(glListed, glSearch)

=============================================================================
