------------------------------ MODULE SiteLoad ------------------------------
(***************************************************************************)
(* How the training page comes up (load, measureTimes and chrome in        *)
(* src/training/js/site.js): the sections' partials are fetched all at     *)
(* once and put in together, the reading times are measured in both modes, *)
(* and each chapter's labs are started when it first comes near the        *)
(* screen.  The page's top bar, course menu and glossary tooltips.         *)
(***************************************************************************)
EXTENDS Naturals, FiniteSets

CONSTANTS
    Chapters,       \* the sections with a partial
    FullChapters,   \* those only the full course shows
    Throwing,       \* those whose start throws an error
    Terms,          \* the glossary's terms
    NoTerm

ASSUME LoadAssumption == /\ FullChapters \subseteq Chapters /\ Throwing \subseteq Chapters
                         /\ NoTerm \notin Terms

VARIABLES
    ldMode,     \* Site.mode
    ldClass,    \* the mode in body's class
    ldAnswer,   \* how each fetch was answered
    ldContent,  \* what each section holds: its partial's answer, or "empty"
    ldMeasured, \* the chapters counted in each mode's total time
    ldWatched,  \* the chapters an IntersectionObserver still waits for
    ldStarts,   \* how often each chapter's labs were started
    ldReported, \* the chapters whose error was logged
    ldNow,      \* the chapter the top bar names, or NoTerm
    ldTicking,  \* ticking: a scroll's frame is requested
    ldAtTop,    \* the layout: the chapter at the top of the screen
    ldMenu,     \* the course menu is open
    ldTips,     \* the tooltips in the document
    ldTip       \* tip

loadVars == <<ldMode, ldClass, ldAnswer, ldContent, ldMeasured, ldWatched, ldStarts, ldReported,
              ldNow, ldTicking, ldAtTop, ldMenu, ldTips, ldTip>>
tourVars == <<ldAnswer, ldContent, ldMeasured, ldWatched, ldStarts, ldReported>>
barVars == <<ldNow, ldTicking, ldAtTop, ldMenu>>
tipVars == <<ldTips, ldTip>>

Answers == {"text", "missing", "failed"}
InMode(mode) == IF mode = "full" THEN Chapters ELSE Chapters \ FullChapters

LoadTypeOK ==
    /\ ldMode \in {"short", "full"} /\ ldClass \in {"short", "full"}
    /\ ldAnswer \in [Chapters -> Answers \union {"waiting"}]
    /\ ldContent \in [Chapters -> Answers \union {"empty"}]
    /\ ldMeasured \in [{"short", "full"} -> SUBSET Chapters]
    /\ ldWatched \subseteq Chapters
    /\ ldStarts \in [Chapters -> Nat]
    /\ ldReported \subseteq Throwing
    /\ ldNow \in Chapters \union {NoTerm} /\ ldAtTop \in Chapters
    /\ ldTicking \in BOOLEAN /\ ldMenu \in BOOLEAN
    /\ ldTips \subseteq Terms
    /\ ldTip \in Terms \union {NoTerm}

\* DOMContentLoaded: chrome() has run and load() has sent its requests.
LoadInit ==
    /\ ldMode \in {"short", "full"}
    /\ ldClass = ldMode
    /\ ldAnswer = [c \in Chapters |-> "waiting"]
    /\ ldContent = [c \in Chapters |-> "empty"]
    /\ ldMeasured = [m \in {"short", "full"} |-> {}]
    /\ ldWatched = {}
    /\ ldStarts = [c \in Chapters |-> 0]
    /\ ldReported = {}
    /\ ldNow = NoTerm /\ ldTicking = FALSE /\ ldAtTop \in InMode(ldMode)
    /\ ldMenu = FALSE
    /\ ldTips = {} /\ ldTip = NoTerm

\* A fetch is answered, with the partial or an error status, or fails on the network: each
\* gives the section something to show.
Answer(c, answer) ==
    /\ ldAnswer[c] = "waiting"
    /\ ldAnswer' = [ldAnswer EXCEPT ![c] = answer]
    /\ UNCHANGED <<ldMode, ldClass, ldContent, ldMeasured, ldWatched, ldStarts, ldReported>>
    /\ UNCHANGED barVars /\ UNCHANGED tipVars

\* Mutant: Promise.all over fetches that may reject.
AllText == \A c \in Chapters : ldAnswer[c] \in {"text", "missing"}

\* Promise.all
AllAnswered == \A c \in Chapters : ldAnswer[c] /= "waiting"

Inserted == \A c \in Chapters : ldContent[c] /= "empty"

\* The rest of load(): the partials go in, in order, and the class measureTimes switched to
\* measure each mode is the reader's again.
Insert ==
    /\ AllAnswered /\ ~Inserted
    /\ ldContent' = ldAnswer
    /\ ldMeasured' = [m \in {"short", "full"} |-> InMode(m)]
    /\ ldClass' = ldMode
    /\ ldWatched' = Chapters
    /\ UNCHANGED <<ldMode, ldAnswer, ldStarts, ldReported>>
    /\ UNCHANGED barVars /\ UNCHANGED tipVars

\* Mutant: the observer goes on watching.
ComesNearAgain(c) ==
    /\ c \in ldWatched /\ c \in InMode(ldClass)
    /\ ldStarts[c] < 2
    /\ ldStarts' = [ldStarts EXCEPT ![c] = @ + 1]
    /\ UNCHANGED <<ldMode, ldClass, ldAnswer, ldContent, ldMeasured, ldWatched, ldReported>>
    /\ UNCHANGED barVars /\ UNCHANGED tipVars

\* A chapter comes near the screen: its observer goes and its labs start.
ComesNear(c) ==
    /\ c \in ldWatched /\ c \in InMode(ldClass)
    /\ ldWatched' = ldWatched \ {c}
    /\ ldStarts' = [ldStarts EXCEPT ![c] = @ + 1]
    /\ ldReported' = IF c \in Throwing THEN ldReported \union {c} ELSE ldReported
    /\ UNCHANGED <<ldMode, ldClass, ldAnswer, ldContent, ldMeasured>>
    /\ UNCHANGED barVars /\ UNCHANGED tipVars

\* setMode: the class follows the mode at once.
SwitchTour ==
    /\ ldMode' \in {"short", "full"} \ {ldMode}
    /\ ldClass' = ldMode'
    /\ ldAtTop' \in InMode(ldMode')
    /\ UNCHANGED <<ldNow, ldTicking, ldMenu>>
    /\ UNCHANGED tourVars /\ UNCHANGED tipVars

\* chrome()'s scroll listener: one frame at a time.
ScrollTour(c) ==
    /\ c \in InMode(ldClass)
    /\ ldAtTop' = c
    /\ ldTicking' = TRUE
    /\ UNCHANGED <<ldMode, ldClass, ldNow, ldMenu>>
    /\ UNCHANGED tourVars /\ UNCHANGED tipVars

\* Its frame: the bar names the chapter at the top now.
NameChapter ==
    /\ ldTicking
    /\ ldTicking' = FALSE
    /\ ldNow' = ldAtTop
    /\ UNCHANGED <<ldMode, ldClass, ldAtTop, ldMenu>>
    /\ UNCHANGED tourVars /\ UNCHANGED tipVars

\* The menu button; its close button, the scrim, Escape or a link in the menu.
OpenMenu(open) ==
    /\ ldMenu' = open
    /\ UNCHANGED <<ldMode, ldClass, ldNow, ldTicking, ldAtTop>>
    /\ UNCHANGED tourVars /\ UNCHANGED tipVars

\* mouseover on a term, or elsewhere: the tooltip before it goes.
Hover(term) ==
    /\ ldTips' = (ldTips \ {ldTip}) \union ({term} \ {NoTerm})
    /\ ldTip' = term
    /\ UNCHANGED <<ldMode, ldClass>> /\ UNCHANGED tourVars /\ UNCHANGED barVars

LoadNext ==
    \/ \E c \in Chapters : \/ \E answer \in Answers : Answer(c, answer)
                           \/ ComesNear(c)
                           \/ ScrollTour(c)
    \/ Insert
    \/ SwitchTour
    \/ NameChapter
    \/ \E open \in BOOLEAN : OpenMenu(open)
    \/ \E term \in Terms \union {NoTerm} : Hover(term)

LoadSpec == LoadInit /\ [][LoadNext]_loadVars

-----------------------------------------------------------------------------

(* A chapter's labs start once, and only over the partial they look for their elements in:
   scrolling away and back, switching versions, or another chapter's error starts none twice,
   which would give every button two handlers. *)
StartedOnce ==
    \A c \in Chapters : ldStarts[c] <= 1 /\ (ldStarts[c] = 1 => ldContent[c] /= "empty")

(* The page always comes up: whatever partials are missing or fail to load, the others are
   shown. *)
PageComesUp == <>Inserted

=============================================================================
