------------------------------ MODULE SiteLoop ------------------------------
(***************************************************************************)
(* Site.loop and Site.onVisible (src/training/js/site.js): the animation   *)
(* loop every lab of the training site runs on, here for one element.  The *)
(* browser reports when the element enters and leaves the screen, and runs *)
(* the requested animation frames, each once, with a timestamp.            *)
(***************************************************************************)
EXTENDS Naturals

CONSTANTS
    FrameIds,  \* the handles requestAnimationFrame returns
    LoopMaxDt, \* the longest step a callback is given, in ticks (50 ms)
    LoopMaxNow \* bound: ticks of the model's clock

ASSUME LoopAssumption == LoopMaxDt \in Nat /\ LoopMaxNow \in Nat

VARIABLES
    lpOn,      \* on
    lpRaf,     \* raf, the last handle requested
    lpFrames,  \* the browser's requested frames that have not run
    lpLast,    \* last: the timestamp of the frame before, 0 for none
    lpNow,     \* the browser's clock; 0 is no timestamp
    lpElapsed, \* the sum of the steps dt that the lab's callback was given
    lpSeen     \* history: ticks the element has been on screen

loopVars == <<lpOn, lpRaf, lpFrames, lpLast, lpNow, lpElapsed, lpSeen>>

LoopTypeOK ==
    /\ lpOn \in BOOLEAN
    /\ lpRaf \in FrameIds
    /\ lpFrames \in SUBSET FrameIds
    /\ lpLast \in 0..lpNow
    /\ lpNow \in 1..(LoopMaxNow + 1)
    /\ lpElapsed \in Nat
    /\ lpSeen \in Nat

LoopInit ==
    /\ lpOn = FALSE
    /\ lpRaf \in FrameIds
    /\ lpFrames = {}
    /\ lpLast = 0
    /\ lpNow = 1
    /\ lpElapsed = 0
    /\ lpSeen = 0

\* requestAnimationFrame(tick), with the frames left in `rest` still to run.
Request(rest) ==
    \E id \in FrameIds \ rest : lpRaf' = id /\ lpFrames' = rest \union {id}

\* onVisible(true); a second report in a row changes nothing.
LoopEnter ==
    /\ ~lpOn
    /\ lpOn' = TRUE
    /\ lpLast' = 0
    /\ Request(lpFrames)
    /\ UNCHANGED <<lpNow, lpElapsed, lpSeen>>

\* Mutant: a loop that stops only once its next frame comes.
LoopLeaveLate ==
    /\ lpOn' = FALSE
    /\ UNCHANGED <<lpRaf, lpFrames, lpLast, lpNow, lpElapsed, lpSeen>>

\* onVisible(false)
LoopLeave ==
    /\ lpOn' = FALSE
    /\ lpFrames' = lpFrames \ {lpRaf}
    /\ UNCHANGED <<lpRaf, lpLast, lpNow, lpElapsed, lpSeen>>

AtMost(n, most) == IF n <= most THEN n ELSE most

\* dt: no step at the first frame after coming back, and none longer than the limit.
Step == IF lpLast = 0 THEN 0 ELSE AtMost(lpNow - lpLast, LoopMaxDt)

\* tick: the callback runs, then asks for the next frame.
LoopTick(id) ==
    /\ id \in lpFrames
    /\ lpElapsed' = lpElapsed + Step
    /\ lpLast' = lpNow
    /\ IF lpOn THEN Request(lpFrames \ {id})
               ELSE lpFrames' = lpFrames \ {id} /\ UNCHANGED lpRaf
    /\ UNCHANGED <<lpOn, lpNow, lpSeen>>

LoopWait ==
    /\ lpNow <= LoopMaxNow
    /\ lpNow' = lpNow + 1
    /\ lpSeen' = IF lpOn THEN lpSeen + 1 ELSE lpSeen
    /\ UNCHANGED <<lpOn, lpRaf, lpFrames, lpLast, lpElapsed>>

LoopNext ==
    \/ LoopEnter
    \/ LoopLeave
    \/ \E id \in FrameIds : LoopTick(id)
    \/ LoopWait

LoopSpec == LoopInit /\ [][LoopNext]_loopVars

-----------------------------------------------------------------------------

(* A lab on screen has exactly one frame requested, a lab off screen none: however fast the
   reader scrolls back and forth, no lab runs two loops at once, which would play it at twice
   its speed, and none is left without a loop. *)
OneLoop == lpFrames = IF lpOn THEN {lpRaf} ELSE {}

(* A lab's own time never gets ahead of the time it was on screen: what passes while the reader
   is elsewhere is not made up for in one jump when they come back. *)
OnlySeenTime == lpElapsed <= lpSeen

=============================================================================
