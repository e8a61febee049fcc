---------------------------- MODULE SiteScrolly ----------------------------
(***************************************************************************)
(* Site.scrolly and its progress rail (src/training/js/site.js): while the *)
(* reader scrolls past a block's steps, the step nearest the middle of the *)
(* screen is the active one and its picture is drawn.  The layout is which *)
(* step's box is at the middle; a step not shown in the current mode has   *)
(* no box.  What a scroll, a resize or a switch of mode changes is looked  *)
(* at one animation frame later.                                           *)
(***************************************************************************)
EXTENDS Naturals

CONSTANTS
    ScrollySteps,   \* how many steps the block has, numbered from 1 (the code: from 0)
    ShownInShort    \* the steps the short tour shows; the full course shows all

ASSUME ScrollyAssumption == ScrollySteps \in Nat \ {0} /\ ShownInShort \subseteq 1..ScrollySteps

VARIABLES
    scMiddle,  \* the layout: the step (shown or not) whose place is at the middle
    scMode,    \* Site.mode
    scNear,    \* on: the block is near the screen
    scQueued,  \* queued: pick is requested as an animation frame
    scCur,     \* cur, 0 for none
    scRail,    \* active: the dot of the progress rail that is on
    scDrawn    \* the step the chapter's callback was last called with, 0 for none

scrollyVars == <<scMiddle, scMode, scNear, scQueued, scCur, scRail, scDrawn>>

AllSteps == 1..ScrollySteps
Shown(mode) == IF mode = "short" THEN ShownInShort ELSE AllSteps

ScrollyTypeOK ==
    /\ scMiddle \in AllSteps
    /\ scMode \in {"short", "full"}
    /\ scNear \in BOOLEAN
    /\ scQueued \in BOOLEAN
    /\ scCur \in 0..ScrollySteps
    /\ scRail \in AllSteps
    /\ scDrawn \in 0..ScrollySteps

\* Site.scrolly: the rail is built with its first dot on.
ScrollyInit ==
    /\ scMiddle = 1
    /\ scMode \in {"short", "full"}
    /\ scNear = FALSE
    /\ scQueued = FALSE
    /\ scCur = 0
    /\ scRail = 1
    /\ scDrawn = 0

Distance(a, b) == IF a <= b THEN b - a ELSE a - b

\* pick's loop over the steps: the first of those nearest the middle.
Nearest(j) ==
    /\ j \in Shown(scMode)
    /\ \A k \in Shown(scMode) :
          \/ Distance(j, scMiddle) < Distance(k, scMiddle)
          \/ Distance(j, scMiddle) = Distance(k, scMiddle) /\ j <= k

\* req: a frame is requested only near the screen, and only one at a time.
Req(near) == scQueued' = (scQueued \/ near)

\* scroll, resize, or a change of the block's own size
Moves(step) ==
    /\ scMiddle' = step
    /\ Req(scNear)
    /\ UNCHANGED <<scMode, scNear, scCur, scRail, scDrawn>>

\* The IntersectionObserver's report.
Nears(near) ==
    /\ scNear' = near
    /\ Req(near)
    /\ UNCHANGED <<scMiddle, scMode, scCur, scRail, scDrawn>>

\* Mutant: the step shown before the switch still counts as drawn.
SwitchModeKeeps(mode) ==
    /\ scMode' = mode
    /\ UNCHANGED <<scMiddle, scNear, scQueued, scCur, scRail, scDrawn>>

\* site:mode: the rail is built again with the same dot, and the step is drawn again.
SwitchMode(mode) ==
    /\ scMode' = mode
    /\ scCur' = 0
    /\ Req(scNear)
    /\ UNCHANGED <<scMiddle, scNear, scRail, scDrawn>>

Pick ==
    /\ scQueued
    /\ scQueued' = FALSE
    /\ \/ \E best \in AllSteps :
             /\ Nearest(best)
             /\ scCur' = best
             /\ IF best = scCur THEN UNCHANGED <<scRail, scDrawn>>
                                ELSE scRail' = best /\ scDrawn' = best
       \/ /\ Shown(scMode) = {}
          /\ UNCHANGED <<scCur, scRail, scDrawn>>
    /\ UNCHANGED <<scMiddle, scMode, scNear>>

ScrollyNext ==
    \/ \E step \in AllSteps : Moves(step)
    \/ \E near \in BOOLEAN : Nears(near)
    \/ \E mode \in {"short", "full"} : SwitchMode(mode)
    \/ Pick

ScrollySpec == ScrollyInit /\ [][ScrollyNext]_scrollyVars

-----------------------------------------------------------------------------

(* Near the screen, with no frame waiting, the step nearest the middle is the active one, its
   picture is the one drawn and its dot is on: no scroll, however fast or reversed, no resize
   and no switch of mode leaves a block stuck on another step. *)
SettledOnNearest ==
    scNear /\ ~scQueued =>
        \A j \in AllSteps : Nearest(j) => scCur = j /\ scDrawn = j /\ scRail = j

=============================================================================
