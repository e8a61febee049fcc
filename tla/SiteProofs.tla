----------------------------- MODULE SiteProofs -----------------------------
(***************************************************************************)
(* Proofs about the training site's runtime (src/training/js/site.js):     *)
(* its animation loops, scrolling blocks, the reader's place, and how its  *)
(* chapters start, for any number of frames, steps, places and chapters;   *)
(* and about the page as a whole, which runs each of its parts as it runs  *)
(* by itself, so that what holds of every part holds of the page.          *)
(***************************************************************************)
EXTENDS TrainingSite, LabsProofs, LabsLinuxProofs

-----------------------------------------------------------------------------
(* Animation loops *)

\* The time since the last frame is not yet in the lab's own time, but has been seen.
LoopClock ==
    /\ lpLast \in Nat /\ lpNow \in Nat \ {0} /\ lpLast <= lpNow
    /\ lpElapsed \in Nat /\ lpSeen \in Nat
    /\ lpElapsed <= lpSeen
    /\ lpOn /\ lpLast /= 0 => lpElapsed + (lpNow - lpLast) <= lpSeen

LoopInv == lpOn \in BOOLEAN /\ OneLoop /\ LoopClock

\* A frame asked for when no other is left is the only one (requestAnimationFrame).
LEMMA RequestAlone ==
    ASSUME Request({})
    PROVE  lpFrames' = {lpRaf'}
BY DEF Request

\* The step a callback is given is no longer than the time since the frame before, and the
\* first one after coming back is none (tick's dt).
LEMMA StepBounded ==
    ASSUME LoopClock
    PROVE  /\ Step \in Nat
           /\ lpLast = 0 => Step = 0
           /\ lpLast /= 0 => Step <= lpNow - lpLast
BY LoopAssumption DEF LoopClock, Step, AtMost

\* Reports of the observer, frames and time keep one loop on screen and none off it, and the
\* lab's time within the time seen (Site.loop).
LEMMA LoopStep == LoopInv /\ [LoopNext]_loopVars => LoopInv'
<1> SUFFICES ASSUME LoopInv, [LoopNext]_loopVars PROVE LoopInv'
    OBVIOUS
<1> USE DEF LoopInv, OneLoop
<1>1. CASE LoopEnter
    <2>1. Request({}) /\ lpOn' = TRUE
        BY <1>1 DEF LoopEnter
    <2>2. OneLoop'
        BY <2>1, RequestAlone
    <2>3. LoopClock'
        BY <1>1 DEF LoopEnter, LoopClock
    <2> QED BY <2>1, <2>2, <2>3
<1>2. CASE LoopLeave
    BY <1>2 DEF LoopLeave, LoopClock
<1>3. ASSUME NEW id \in FrameIds, LoopTick(id) PROVE LoopInv'
    <2>1. lpOn /\ id = lpRaf /\ lpFrames \ {id} = {}
        BY <1>3 DEF LoopTick
    <2>2. Request({}) /\ lpOn' = lpOn
        BY <1>3, <2>1 DEF LoopTick
    <2>3. OneLoop'
        BY <2>1, <2>2, RequestAlone
    <2>4. LoopClock'
        <3>1. lpElapsed' = lpElapsed + Step /\ lpLast' = lpNow /\ lpNow' = lpNow /\ lpSeen' = lpSeen
            BY <1>3 DEF LoopTick
        <3> QED BY <2>1, <3>1, StepBounded DEF LoopClock
    <2> QED BY <2>2, <2>3, <2>4
<1>4. CASE LoopWait
    BY <1>4 DEF LoopWait, LoopClock
<1>5. CASE UNCHANGED loopVars
    BY <1>5 DEF loopVars, LoopClock
<1> QED BY <1>1, <1>2, <1>3, <1>4, <1>5 DEF LoopNext

\* A lab on screen runs one loop and a lab off screen none, whatever comes in between, and its
\* own time never gets ahead of the time it was seen (Site.loop, Site.onVisible).
THEOREM LoopsStaySingle == LoopSpec => [](OneLoop /\ OnlySeenTime)
<1>1. LoopInit => LoopInv
    <2> SUFFICES ASSUME LoopInit PROVE LoopInv
        OBVIOUS
    <2>1. lpOn = FALSE /\ lpFrames = {}
        BY DEF LoopInit
    <2>2. LoopClock
        BY DEF LoopInit, LoopClock
    <2> QED BY <2>1, <2>2 DEF LoopInv, OneLoop
<1>2. LoopInv => OneLoop /\ OnlySeenTime
    BY DEF LoopInv, LoopClock, OnlySeenTime
<1> QED BY <1>1, <1>2, LoopStep, PTL DEF LoopSpec

-----------------------------------------------------------------------------
(* Scrolling blocks *)

\* What is settled is nearest; the step that counts as current is the one drawn.
ScrollyInv ==
    /\ ScrollyTypeOK
    /\ scCur /= 0 => scDrawn = scCur /\ scRail = scCur
    /\ scNear /\ ~scQueued => \A j \in AllSteps : Nearest(j) => scCur = j

\* No two steps are both the first of the nearest (pick's comparison is of a total order).
LEMMA NearestIsOne ==
    ASSUME ScrollyTypeOK, NEW j \in AllSteps, NEW k \in AllSteps, Nearest(j), Nearest(k)
    PROVE  j = k
<1>1. j \in Nat /\ k \in Nat /\ scMiddle \in Nat
    BY ScrollyAssumption DEF ScrollyTypeOK, AllSteps
<1>2. Distance(j, scMiddle) \in Nat /\ Distance(k, scMiddle) \in Nat
    BY <1>1 DEF Distance
<1>3. /\ \/ Distance(j, scMiddle) < Distance(k, scMiddle)
         \/ Distance(j, scMiddle) = Distance(k, scMiddle) /\ j <= k
      /\ \/ Distance(k, scMiddle) < Distance(j, scMiddle)
         \/ Distance(k, scMiddle) = Distance(j, scMiddle) /\ k <= j
    BY DEF Nearest
<1> QED BY <1>1, <1>2, <1>3

\* Every step of a block keeps it on the nearest step, or a frame asked for (Site.scrolly).
LEMMA ScrollyStep == ScrollyInv /\ [ScrollyNext]_scrollyVars => ScrollyInv'
<1> SUFFICES ASSUME ScrollyInv, [ScrollyNext]_scrollyVars PROVE ScrollyInv'
    OBVIOUS
<1> USE ScrollyAssumption
<1>1. ASSUME NEW step \in AllSteps, Moves(step) PROVE ScrollyInv'
    BY <1>1 DEF Moves, Req, ScrollyInv, ScrollyTypeOK
<1>2. ASSUME NEW near \in BOOLEAN, Nears(near) PROVE ScrollyInv'
    BY <1>2 DEF Nears, Req, ScrollyInv, ScrollyTypeOK
<1>3. ASSUME NEW mode \in {"short", "full"}, SwitchMode(mode) PROVE ScrollyInv'
    BY <1>3 DEF SwitchMode, Req, ScrollyInv, ScrollyTypeOK
<1>4. ASSUME Pick PROVE ScrollyInv'
    <2>1. scMiddle' = scMiddle /\ scMode' = scMode
        BY <1>4 DEF Pick
    <2>2. \A j \in AllSteps : Nearest(j)' <=> Nearest(j)
        BY <2>1 DEF Nearest
    <2>3. CASE Shown(scMode) = {} /\ UNCHANGED <<scCur, scRail, scDrawn>>
        <3>1. \A j \in AllSteps : ~Nearest(j)
            BY <2>3 DEF Nearest
        <3> QED BY <1>4, <2>1, <2>2, <2>3, <3>1 DEF Pick, ScrollyInv, ScrollyTypeOK
    <2>4. ASSUME NEW best \in AllSteps, Nearest(best), scCur' = best,
                 IF best = scCur THEN UNCHANGED <<scRail, scDrawn>>
                                 ELSE scRail' = best /\ scDrawn' = best
          PROVE  ScrollyInv'
        <3>1. best \in 1..ScrollySteps /\ best /= 0
            BY DEF AllSteps
        <3>2. scDrawn' = best /\ scRail' = best
            BY <2>4, <3>1 DEF ScrollyInv
        <3>3. ScrollyTypeOK'
            <4>1. scQueued' \in BOOLEAN /\ scNear' \in BOOLEAN
                BY <1>4 DEF Pick, ScrollyInv, ScrollyTypeOK
            <4>2. scCur' \in 0..ScrollySteps /\ scDrawn' \in 0..ScrollySteps
                BY <2>4, <3>1, <3>2
            <4> QED BY <2>1, <3>2, <4>1, <4>2 DEF ScrollyInv, ScrollyTypeOK
        <3>4. \A j \in AllSteps : Nearest(j) => j = best
            BY <2>4, NearestIsOne DEF ScrollyInv
        <3> QED BY <2>2, <2>4, <3>2, <3>3, <3>4 DEF ScrollyInv
    <2> QED BY <1>4, <2>3, <2>4 DEF Pick
<1>5. CASE UNCHANGED scrollyVars
    BY <1>5 DEF scrollyVars, ScrollyInv, ScrollyTypeOK, Nearest
<1> QED BY <1>1, <1>2, <1>3, <1>4, <1>5 DEF ScrollyNext

\* The blocks start away from the screen, with the first step's dot on (Site.scrolly).
LEMMA ScrollyStart == ScrollyInit => ScrollyInv
<1> SUFFICES ASSUME ScrollyInit PROVE ScrollyInv
    OBVIOUS
<1>1. scNear = FALSE /\ scQueued = FALSE
    BY DEF ScrollyInit
<1>2. 1 \in AllSteps /\ 0 \in 0..ScrollySteps
    BY ScrollyAssumption DEF AllSteps
<1>3. ScrollyTypeOK
    BY <1>1, <1>2 DEF ScrollyInit, ScrollyTypeOK
<1> QED BY <1>1, <1>3 DEF ScrollyInit, ScrollyInv

\* Near the screen with no frame waiting, the active step, its picture and its dot are those of
\* the step nearest the middle, for any number of steps and any choice of those the short tour
\* hides (Site.scrolly).
THEOREM BlocksSettle == ScrollySpec => []SettledOnNearest
<1>1. ScrollyInv => SettledOnNearest
    BY ScrollyAssumption DEF ScrollyInv, SettledOnNearest, AllSteps
<1> QED BY <1>1, ScrollyStart, ScrollyStep, PTL DEF ScrollySpec

-----------------------------------------------------------------------------
(* The reader's place *)

PlaceInv == PlaceTypeOK /\ PinHolds /\ BackRemembersPlace

\* Entries whose noted place is the one the link was followed from.
Remembers(entries) ==
    \A k \in 1..Len(entries) : entries[k].left /= NoPlace => entries[k].place = entries[k].left

\* The top of the page is in both versions.
LEMMA TopVisible == \A mode \in Modes : Top \in Visible(mode)
BY PlacesAssumption DEF Visible, Anywhere

\* What a pin or the page's growth leaves at the reading line is shown, and is the anchor if
\* that is shown (applyAnchor).
LEMMA AppliedVisible ==
    ASSUME NEW mode \in Modes, NEW view \in Visible(mode), NEW anchor
    PROVE  /\ Applied(anchor, view, mode) \in Visible(mode)
           /\ anchor \in Visible(mode) => Applied(anchor, view, mode) = anchor
BY DEF Applied

\* After a pin the anchor holds (pin).
LEMMA PinKeeps ==
    ASSUME NEW mode \in Modes, plMode' = mode, NEW view \in Visible(mode),
           NEW anchor \in Anywhere, Pin(anchor, view, mode)
    PROVE  /\ plView' \in Visible(plMode') /\ plAnchor' \in Anywhere /\ plPinned' \in BOOLEAN
           /\ PinHolds'
BY AppliedVisible DEF Pin, PinHolds

\* An entry pushed on top of those up to the current one (history.pushState).
LEMMA PushedEntries ==
    ASSUME PlaceTypeOK, NEW entries \in Seq(Entries), Len(entries) = Len(plEntries),
           Remembers(entries), NEW entry \in Entries, entry.left = NoPlace, plAt < MaxEntries
    PROVE  /\ Pushed(entries, entry) \in Seq(Entries)
           /\ Len(Pushed(entries, entry)) = plAt + 1
           /\ Len(Pushed(entries, entry)) \in 1..MaxEntries
           /\ Remembers(Pushed(entries, entry))
<1> DEFINE kept == SubSeq(entries, 1, plAt)
<1>1. plAt \in 1..Len(entries) /\ plAt \in Nat
    BY DEF PlaceTypeOK
<1>2. /\ kept \in Seq(Entries) /\ Len(kept) = plAt
      /\ \A k \in 1..plAt : kept[k] = entries[k]
    BY <1>1, SubSeqProperties
<1>3. /\ Pushed(entries, entry) \in Seq(Entries)
      /\ Len(Pushed(entries, entry)) = plAt + 1
      /\ \A k \in 1..plAt : Pushed(entries, entry)[k] = entries[k]
      /\ Pushed(entries, entry)[plAt + 1] = entry
    <2> HIDE DEF kept
    <2>1. Pushed(entries, entry) = Append(kept, entry)
        BY DEF Pushed, kept
    <2> QED BY <1>1, <1>2, <2>1
<1>4. plAt + 1 \in 1..MaxEntries
    BY <1>1, PlacesAssumption
<1>5. Remembers(Pushed(entries, entry))
    <2> SUFFICES ASSUME NEW k \in 1..(plAt + 1), Pushed(entries, entry)[k].left /= NoPlace
                 PROVE  Pushed(entries, entry)[k].place = Pushed(entries, entry)[k].left
        BY <1>3 DEF Remembers
    <2>1. k \in 1..plAt /\ k \in 1..Len(entries)
        BY <1>1, <1>3
    <2> QED BY <1>3, <2>1 DEF Remembers
<1> QED BY <1>3, <1>4, <1>5

\* One entry rewritten, with its place and link agreeing (history.replaceState).
LEMMA RewrittenEntry ==
    ASSUME PlaceTypeOK, BackRemembersPlace, NEW entry \in Entries,
           entry.left /= NoPlace => entry.place = entry.left
    PROVE  /\ [plEntries EXCEPT ![plAt] = entry] \in Seq(Entries)
           /\ Len([plEntries EXCEPT ![plAt] = entry]) = Len(plEntries)
           /\ Remembers([plEntries EXCEPT ![plAt] = entry])
<1> DEFINE rewritten == [plEntries EXCEPT ![plAt] = entry]
<1>1. /\ plEntries \in Seq(Entries) /\ plAt \in 1..Len(plEntries)
    BY DEF PlaceTypeOK
<1>2. /\ rewritten \in Seq(Entries) /\ Len(rewritten) = Len(plEntries)
      /\ \A k \in 1..Len(plEntries) : rewritten[k] = IF k = plAt THEN entry ELSE plEntries[k]
    BY <1>1
<1> HIDE DEF rewritten
<1>3. Remembers(rewritten)
    BY <1>2 DEF Remembers, BackRemembersPlace
<1> QED BY <1>2, <1>3 DEF rewritten

\* The current entry.
LEMMA CurrentEntry ==
    ASSUME PlaceTypeOK, BackRemembersPlace
    PROVE  /\ plEntries[plAt] \in Entries
           /\ plEntries[plAt].left /= NoPlace => plEntries[plAt].place = plEntries[plAt].left
BY DEF PlaceTypeOK, BackRemembersPlace

\* A step that leaves the entries as they are.
LEMMA SameEntries ==
    ASSUME PlaceInv, plEntries' = plEntries, plAt' \in 1..Len(plEntries),
           plMode' \in Modes, plSaved' \in Modes,
           plView' \in Visible(plMode'), plAnchor' \in Anywhere, plPinned' \in BOOLEAN, PinHolds'
    PROVE  PlaceInv'
BY DEF PlaceInv, PlaceTypeOK, BackRemembersPlace

\* A step that writes entries.
LEMMA NewEntries ==
    ASSUME plEntries' \in Seq(Entries), Len(plEntries') \in 1..MaxEntries,
           Remembers(plEntries'), plAt' \in 1..Len(plEntries'),
           plMode' \in Modes, plSaved' \in Modes,
           plView' \in Visible(plMode'), plAnchor' \in Anywhere, plPinned' \in BOOLEAN, PinHolds'
    PROVE  PlaceInv'
BY DEF PlaceInv, PlaceTypeOK, BackRemembersPlace, Remembers

\* Every step keeps the pinned anchor at the reading line and the places in the history
\* (setMode, goTo, popstate, restorePlace, the ResizeObserver).
LEMMA PlaceStep == PlaceInv /\ [PlaceNext]_placeVars => PlaceInv'
<1> SUFFICES ASSUME PlaceInv, [PlaceNext]_placeVars PROVE PlaceInv'
    OBVIOUS
<1>0. /\ PlaceTypeOK /\ PinHolds /\ BackRemembersPlace
      /\ plMode \in Modes /\ plSaved \in Modes /\ plView \in Visible(plMode)
      /\ plAnchor \in Anywhere /\ plPinned \in BOOLEAN
      /\ plEntries \in Seq(Entries) /\ Len(plEntries) \in 1..MaxEntries
      /\ plAt \in 1..Len(plEntries) /\ plView \in Anywhere
    BY DEF PlaceInv, PlaceTypeOK, Visible
<1>c. /\ plEntries[plAt] \in Entries
      /\ plEntries[plAt].left /= NoPlace => plEntries[plAt].place = plEntries[plAt].left
    BY <1>0, CurrentEntry
<1>1. ASSUME NEW mode \in Modes, SetMode(mode) PROVE PlaceInv'
    <2> DEFINE entry == [plEntries[plAt] EXCEPT !.mode = mode]
    <2>1. entry \in Entries /\ (entry.left /= NoPlace => entry.place = entry.left)
        BY <1>c DEF Entries
    <2>2. plEntries' = [plEntries EXCEPT ![plAt] = entry]
        BY <1>1 DEF SetMode, ShowInUrl
    <2>3. plView' \in Visible(mode) /\ plAnchor' \in Anywhere
        BY <1>0, <1>1 DEF SetMode, Visible
    <2> HIDE DEF entry
    <2>4. /\ plEntries' \in Seq(Entries) /\ Len(plEntries') = Len(plEntries)
          /\ Remembers(plEntries')
        BY <1>0, <2>1, <2>2, RewrittenEntry
    <2>5. plMode' = mode /\ plSaved' = mode /\ plAt' = plAt /\ plPinned' = FALSE
        BY <1>1 DEF SetMode
    <2> QED BY <1>0, <2>3, <2>4, <2>5, NewEntries DEF PinHolds
<1>2. ASSUME NEW target \in Places, FollowLink(target) PROVE PlaceInv'
    <2> DEFINE noted == [plEntries[plAt] EXCEPT !.place = plView, !.left = plView]
               entry == [mode |-> plEntries[plAt].mode, hash |-> target,
                         place |-> NoPlace, left |-> NoPlace]
    <2>1. noted \in Entries /\ (noted.left /= NoPlace => noted.place = noted.left)
        BY <1>0, <1>c DEF Entries
    <2>2. entry \in Entries /\ entry.left = NoPlace
        BY <1>c DEF Entries, Anywhere
    <2>3. Noted(plEntries) = [plEntries EXCEPT ![plAt] = noted]
        BY DEF Noted
    <2>4. plEntries' = Pushed(Noted(plEntries), entry)
        BY <1>2 DEF FollowLink
    <2>5. plAt < MaxEntries /\ plAt' = plAt + 1 /\ plMode' = plMode /\ plSaved' = plSaved
        BY <1>2 DEF FollowLink
    <2>6. Pin(target, plView, plMode) /\ target \in Anywhere
        BY <1>2 DEF FollowLink, Anywhere
    <2> HIDE DEF noted, entry
    <2>7. /\ Noted(plEntries) \in Seq(Entries) /\ Len(Noted(plEntries)) = Len(plEntries)
          /\ Remembers(Noted(plEntries))
        <3>1. /\ [plEntries EXCEPT ![plAt] = noted] \in Seq(Entries)
              /\ Len([plEntries EXCEPT ![plAt] = noted]) = Len(plEntries)
              /\ Remembers([plEntries EXCEPT ![plAt] = noted])
            BY <1>0, <2>1, RewrittenEntry
        <3> QED BY <2>3, <3>1
    <2>8. /\ plEntries' \in Seq(Entries) /\ Len(plEntries') = plAt + 1
          /\ Len(plEntries') \in 1..MaxEntries /\ Remembers(plEntries')
        BY <1>0, <2>2, <2>4, <2>5, <2>7, PushedEntries
    <2>9. /\ plView' \in Visible(plMode') /\ plAnchor' \in Anywhere /\ plPinned' \in BOOLEAN
          /\ PinHolds'
        BY <1>0, <2>5, <2>6, PinKeeps
    <2>10. plAt' \in 1..Len(plEntries')
        BY <1>0, <2>5, <2>8
    <2> QED BY <1>0, <2>5, <2>8, <2>9, <2>10, NewEntries
<1>3. ASSUME NEW target \in Places, FollowHiddenLink(target) PROVE PlaceInv'
    <2> DEFINE entry == [mode |-> plEntries[plAt].mode, hash |-> target,
                         place |-> NoPlace, left |-> NoPlace]
    <2>1. entry \in Entries /\ entry.left = NoPlace
        BY <1>c DEF Entries, Anywhere
    <2>2. /\ plEntries' = Pushed(plEntries, entry) /\ plAt < MaxEntries /\ plAt' = plAt + 1
          /\ plPinned' = FALSE
          /\ plMode' = plMode /\ plSaved' = plSaved /\ plView' = plView /\ plAnchor' = plAnchor
        BY <1>3 DEF FollowHiddenLink
    <2>3. Remembers(plEntries)
        BY <1>0 DEF Remembers, BackRemembersPlace
    <2> HIDE DEF entry
    <2>4. /\ plEntries' \in Seq(Entries) /\ Len(plEntries') = plAt + 1
          /\ Len(plEntries') \in 1..MaxEntries /\ Remembers(plEntries')
        BY <1>0, <2>1, <2>2, <2>3, PushedEntries
    <2>5. plAt' \in 1..Len(plEntries') /\ PinHolds'
        BY <1>0, <2>2, <2>4 DEF PinHolds
    <2> QED BY <1>0, <2>2, <2>4, <2>5, NewEntries
<1>4. ASSUME FollowTopLink PROVE PlaceInv'
    <2> DEFINE entry == [plEntries[plAt] EXCEPT !.hash = Top, !.left = NoPlace]
    <2>1. entry \in Entries /\ entry.left = NoPlace
        BY <1>c DEF Entries, Anywhere
    <2>2. /\ plEntries' = Pushed(plEntries, entry) /\ plAt < MaxEntries /\ plAt' = plAt + 1
          /\ plMode' = plMode /\ plSaved' = plSaved /\ Pin(Top, plView, plMode)
        BY <1>4 DEF FollowTopLink
    <2>3. Remembers(plEntries)
        BY <1>0 DEF Remembers, BackRemembersPlace
    <2> HIDE DEF entry
    <2>4. /\ plEntries' \in Seq(Entries) /\ Len(plEntries') = plAt + 1
          /\ Len(plEntries') \in 1..MaxEntries /\ Remembers(plEntries')
        BY <1>0, <2>1, <2>2, <2>3, PushedEntries
    <2>5. /\ plView' \in Visible(plMode') /\ plAnchor' \in Anywhere /\ plPinned' \in BOOLEAN
          /\ PinHolds'
        BY <1>0, <2>2, PinKeeps DEF Anywhere
    <2>6. plAt' \in 1..Len(plEntries')
        BY <1>0, <2>2, <2>4
    <2> QED BY <1>0, <2>2, <2>4, <2>5, <2>6, NewEntries
<1>5. ASSUME NEW to \in 1..MaxEntries, Traverse(to) PROVE PlaceInv'
    <2> DEFINE entry == plEntries[to]
    <2>1. to \in 1..Len(plEntries) /\ entry \in Entries
        BY <1>0, <1>5 DEF Traverse
    <2>2. /\ plAt' = to /\ plMode' = plMode /\ plSaved' = plSaved /\ plEntries' = plEntries
        BY <1>5 DEF Traverse
    <2>3. \/ entry.place /= NoPlace /\ Pin(entry.place, plView, plMode)
          \/ entry.hash \in Visible(plMode) /\ Pin(entry.hash, plView, plMode)
          \/ UNCHANGED <<plView, plAnchor, plPinned>>
        BY <1>5 DEF Traverse
    <2>4. /\ plView' \in Visible(plMode') /\ plAnchor' \in Anywhere /\ plPinned' \in BOOLEAN
          /\ PinHolds'
        <3>1. CASE entry.place /= NoPlace /\ Pin(entry.place, plView, plMode)
            <4>1. entry.place \in Anywhere
                BY <2>1, <3>1 DEF Entries
            <4> QED BY <1>0, <2>2, <3>1, <4>1, PinKeeps
        <3>2. CASE entry.hash \in Visible(plMode) /\ Pin(entry.hash, plView, plMode)
            <4>1. entry.hash \in Anywhere
                BY <3>2 DEF Visible
            <4> QED BY <1>0, <2>2, <3>2, <4>1, PinKeeps
        <3>3. CASE UNCHANGED <<plView, plAnchor, plPinned>>
            BY <1>0, <2>2, <3>3 DEF PinHolds
        <3> QED BY <2>3, <3>1, <3>2, <3>3
    <2> QED BY <1>0, <2>1, <2>2, <2>4, SameEntries
<1>6. ASSUME Reload PROVE PlaceInv'
    <2>1. plMode' \in Modes /\ Top \in Visible(plMode')
        BY <1>c, <1>6, TopVisible DEF Reload, Entries
    <2>2. Pin(plView, Top, plMode') /\ plSaved' = plSaved /\ plEntries' = plEntries /\ plAt' = plAt
        BY <1>6 DEF Reload
    <2>3. /\ plView' \in Visible(plMode') /\ plAnchor' \in Anywhere /\ plPinned' \in BOOLEAN
          /\ PinHolds'
        BY <1>0, <2>1, <2>2, PinKeeps
    <2> QED BY <1>0, <2>1, <2>2, <2>3, SameEntries
<1>7. ASSUME NEW view \in Anywhere, Grows(view) PROVE PlaceInv'
    <2>1. /\ plView' \in Visible(plMode) /\ plMode' = plMode /\ plAnchor' = plAnchor
          /\ plPinned' = plPinned /\ plSaved' = plSaved /\ plEntries' = plEntries /\ plAt' = plAt
          /\ plPinned /\ plAnchor \in Visible(plMode) => plView' = plAnchor
        BY <1>0, <1>7, AppliedVisible DEF Grows
    <2>2. PinHolds'
        BY <2>1 DEF PinHolds
    <2> QED BY <1>0, <2>1, <2>2, SameEntries
<1>8. ASSUME NEW view \in Anywhere, Scroll(view) PROVE PlaceInv'
    BY <1>0, <1>8, SameEntries DEF Scroll, PinHolds
<1>9. ASSUME Release PROVE PlaceInv'
    BY <1>0, <1>9, SameEntries DEF Release, PinHolds
<1>10. ASSUME Resize PROVE PlaceInv'
    <2>1. /\ Pin(plAnchor, plView, plMode) /\ plMode' = plMode /\ plSaved' = plSaved
          /\ plEntries' = plEntries /\ plAt' = plAt
        BY <1>10 DEF Resize
    <2>2. /\ plView' \in Visible(plMode') /\ plAnchor' \in Anywhere /\ plPinned' \in BOOLEAN
          /\ PinHolds'
        BY <1>0, <2>1, PinKeeps
    <2> QED BY <1>0, <2>1, <2>2, SameEntries
<1>11. CASE UNCHANGED placeVars
    BY <1>0, <1>11, SameEntries DEF placeVars, PinHolds
<1> QED BY <1>1, <1>2, <1>3, <1>4, <1>5, <1>6, <1>7, <1>8, <1>9, <1>10, <1>11 DEF PlaceNext

\* The first visit satisfies the invariant (chrome, restorePlace).
LEMMA PlaceStart == PlaceInit => PlaceInv
<1> SUFFICES ASSUME PlaceInit PROVE PlaceInv
    OBVIOUS
<1> DEFINE entry == [mode |-> plMode, hash |-> NoPlace, place |-> NoPlace, left |-> NoPlace]
<1>1. plMode \in Modes /\ plSaved \in Modes /\ plEntries = <<entry>> /\ plAt = 1
    BY DEF PlaceInit
<1>2. entry \in Entries /\ entry.left = NoPlace
    BY <1>1 DEF Entries
<1> HIDE DEF entry
<1>3. /\ plEntries \in Seq(Entries) /\ Len(plEntries) = 1 /\ plEntries[1] = entry
    BY <1>1, <1>2
<1>4. plView = Top /\ plAnchor = Top /\ plPinned = FALSE
    BY DEF PlaceInit
<1>5. plView \in Visible(plMode) /\ plAnchor \in Anywhere
    BY <1>1, <1>4, TopVisible DEF Anywhere
<1>6. PlaceTypeOK
    <2>1. Len(plEntries) \in 1..MaxEntries /\ plAt \in 1..Len(plEntries)
        BY <1>1, <1>3, PlacesAssumption
    <2>2. plPinned \in BOOLEAN
        BY <1>4
    <2> QED BY <1>1, <1>3, <1>5, <2>1, <2>2 DEF PlaceTypeOK
<1>7. PinHolds /\ BackRemembersPlace
    BY <1>2, <1>3, <1>4 DEF PinHolds, BackRemembersPlace
<1> QED BY <1>6, <1>7 DEF PlaceInv

\* A pinned anchor that the version shows stays at the reading line while the page grows, jumps
\* or reloads (pin, the ResizeObserver, popstate, restorePlace).
THEOREM PinsHold == PlaceSpec => []PinHolds
<1>1. PlaceInv => PinHolds
    BY DEF PlaceInv
<1> QED BY <1>1, PlaceStart, PlaceStep, PTL DEF PlaceSpec

\* Whatever the reader did since, the entry a link was followed from holds the place it was
\* followed at, for any history length and any places (goTo).
THEOREM BackReturnsToPlace == PlaceSpec => []BackRemembersPlace
<1>1. PlaceInv => BackRemembersPlace
    BY DEF PlaceInv
<1> QED BY <1>1, PlaceStart, PlaceStep, PTL DEF PlaceSpec

-----------------------------------------------------------------------------
(* Chapters *)

\* Nothing is watched or started before the partials are in; what is watched has not started.
LoadInv ==
    /\ ldWatched \subseteq Chapters
    /\ ldStarts \in [Chapters -> {0, 1}]
    /\ ldContent \in [Chapters -> Answers \union {"empty"}]
    /\ ldAnswer \in [Chapters -> Answers \union {"waiting"}]
    /\ ~Inserted => ldWatched = {} /\ \A c \in Chapters : ldStarts[c] = 0
    /\ \A c \in Chapters :
          /\ c \in ldWatched => ldStarts[c] = 0
          /\ c \in ldWatched \/ ldStarts[c] = 1 => ldContent[c] /= "empty"

\* Every step keeps chapters from starting twice or over nothing (load and its observers).
LEMMA LoadStep == LoadInv /\ [LoadNext]_loadVars => LoadInv'
<1> SUFFICES ASSUME LoadInv, [LoadNext]_loadVars PROVE LoadInv'
    OBVIOUS
<1> USE DEF LoadInv, tourVars, Inserted
<1>1. ASSUME NEW c \in Chapters, NEW answer \in Answers, Answer(c, answer) PROVE LoadInv'
    BY <1>1 DEF Answer
<1>2. ASSUME NEW c \in Chapters, ComesNear(c) PROVE LoadInv'
    <2>1. /\ ldWatched' = ldWatched \ {c} /\ ldStarts' = [ldStarts EXCEPT ![c] = @ + 1]
          /\ c \in ldWatched /\ ldContent' = ldContent /\ ldAnswer' = ldAnswer
        BY <1>2 DEF ComesNear
    <2>2. ldStarts[c] = 0 /\ c \in ldWatched
        BY <2>1
    <2>3. ldStarts' = [ldStarts EXCEPT ![c] = 1]
        BY <2>1, <2>2
    <2>4. Inserted
        BY <2>2
    <2>5. ldStarts' \in [Chapters -> {0, 1}] /\ ldWatched' \subseteq Chapters
        BY <2>1, <2>3
    <2>6. \A d \in Chapters : /\ d \in ldWatched' => ldStarts'[d] = 0
                             /\ ldContent'[d] /= "empty"
        BY <2>1, <2>3, <2>4
    <2> QED BY <2>1, <2>5, <2>6
<1>3. ASSUME NEW c \in Chapters, ScrollTour(c) PROVE LoadInv'
    BY <1>3 DEF ScrollTour
<1>4. CASE Insert
    <2>1. /\ \A c \in Chapters : ldAnswer[c] /= "waiting"
          /\ \E c \in Chapters : ldContent[c] = "empty"
          /\ ldContent' = ldAnswer /\ ldAnswer' = ldAnswer /\ ldStarts' = ldStarts
          /\ ldWatched' = Chapters
        BY <1>4 DEF Insert, AllAnswered
    <2> QED BY <2>1 DEF Answers
<1>5. CASE SwitchTour
    BY <1>5 DEF SwitchTour
<1>6. CASE NameChapter
    BY <1>6 DEF NameChapter
<1>7. ASSUME NEW opened \in BOOLEAN, OpenMenu(opened) PROVE LoadInv'
    BY <1>7 DEF OpenMenu
<1>8. ASSUME NEW term \in Terms \union {NoTerm}, Hover(term) PROVE LoadInv'
    BY <1>8 DEF Hover
<1>9. CASE UNCHANGED loadVars
    BY <1>9 DEF loadVars
<1> QED BY <1>1, <1>2, <1>3, <1>4, <1>5, <1>6, <1>7, <1>8, <1>9 DEF LoadNext

\* A chapter's labs start once at most and only over a partial that is in, for any chapters,
\* whichever of them fail to load or throw (load).
THEOREM ChaptersStartOnce == LoadSpec => []StartedOnce
<1>1. LoadInit => LoadInv
    BY DEF LoadInit, LoadInv, Answers, Inserted
<1>2. LoadInv => StartedOnce
    BY DEF LoadInv, StartedOnce
<1> QED BY <1>1, <1>2, LoadStep, PTL DEF LoadSpec

-----------------------------------------------------------------------------
(* The types of the page's parts, each kept by the part's own steps.  Where the type is not      *)
(* inductive as it stands, because a bound follows from other variables, the lemma states the    *)
(* invariant that is, and that it implies the type.                                              *)

\* A loop's handles, clocks and sums keep their types, by the inductive invariant above.
LEMMA LoopTypes ==
    /\ LoopInit => LoopInv /\ LoopTypeOK
    /\ LoopInv /\ LoopTypeOK /\ [LoopNext]_loopVars => (LoopInv /\ LoopTypeOK)'
<1>1. ASSUME LoopInit PROVE LoopInv /\ LoopTypeOK
    <2>1. lpOn = FALSE /\ lpFrames = {} /\ lpRaf \in FrameIds /\ lpLast = 0 /\ lpNow = 1
        BY <1>1 DEF LoopInit
    <2>2. lpElapsed = 0 /\ lpSeen = 0
        BY <1>1 DEF LoopInit
    <2>3. LoopInv
        <3>1. LoopClock
            BY <2>1, <2>2 DEF LoopClock
        <3> QED BY <2>1, <3>1 DEF LoopInv, OneLoop
    <2>4. 0 \in 0..1 /\ 1 \in 1..(LoopMaxNow + 1)
        BY LoopAssumption
    <2> QED BY <2>1, <2>2, <2>3, <2>4 DEF LoopTypeOK
<1>2. ASSUME LoopInv, LoopTypeOK, [LoopNext]_loopVars PROVE (LoopInv /\ LoopTypeOK)'
    <2> USE <1>2, LoopAssumption
    <2>1. LoopInv'
        BY LoopStep
    <2>2. lpOn' \in BOOLEAN /\ lpElapsed' \in Nat /\ lpSeen' \in Nat /\ lpLast' \in 0..lpNow'
        BY <2>1 DEF LoopInv, LoopClock
    <2>3. lpRaf' \in FrameIds /\ lpFrames' \in SUBSET FrameIds /\ lpNow' \in 1..(LoopMaxNow + 1)
        <3>1. CASE LoopEnter
            BY <3>1 DEF LoopEnter, Request, LoopTypeOK
        <3>2. CASE LoopLeave
            BY <3>2 DEF LoopLeave, LoopTypeOK
        <3>3. ASSUME NEW id \in FrameIds, LoopTick(id)
              PROVE  lpRaf' \in FrameIds /\ lpFrames' \in SUBSET FrameIds /\ lpNow' \in 1..(LoopMaxNow + 1)
            BY <3>3 DEF LoopTick, Request, LoopTypeOK
        <3>4. CASE LoopWait
            BY <3>4 DEF LoopWait, LoopTypeOK
        <3>5. CASE UNCHANGED loopVars
            BY <3>5 DEF loopVars, LoopTypeOK
        <3> QED BY <3>1, <3>2, <3>3, <3>4, <3>5 DEF LoopNext
    <2> QED BY <2>1, <2>2, <2>3 DEF LoopTypeOK
<1> QED BY <1>1, <1>2

\* The journey's time, its panel and its button keep their types (ch/17-finale.js).
LEMMA JourneyTypes ==
    /\ JourneyInit => JourneyTypeOK
    /\ JourneyTypeOK /\ [JourneyNext]_journeyVars => JourneyTypeOK'
<1>1. ASSUME JourneyInit PROVE JourneyTypeOK
    <2>1. 0 \in 0..JourneyEnd /\ -1 \in -1..(JourneyStages - 1)
        BY DEF JourneyEnd, JourneyStages, JourneyPer
    <2> QED BY <1>1, <2>1 DEF JourneyInit, JourneyTypeOK
<1>2. ASSUME JourneyTypeOK, [JourneyNext]_journeyVars PROVE JourneyTypeOK'
    <2> USE <1>2 DEF JourneyTypeOK, JourneyEnd, JourneyStages, JourneyPer, JourneyLast
    <2>1. ASSUME NEW t \in 0..JourneyEnd PROVE JourneyStage(t) \in 0..(JourneyStages - 1)
        BY DEF JourneyStage
    <2>2. CASE JourneyButton
        BY <2>2 DEF JourneyButton
    <2>3. ASSUME NEW t \in JourneyTimes, JourneySeek(t) PROVE JourneyTypeOK'
        <3>1. t \in 0..JourneyEnd
            BY DEF JourneyTimes
        <3>2. JourneyStage(t) \in -1..(JourneyStages - 1)
            BY <2>1, <3>1
        <3>3. jnShown' \in -1..(JourneyStages - 1)
            BY <2>3, <3>2 DEF JourneySeek, SyncUI
        <3>4. jnPanel' \in [stage : -1..(JourneyStages - 1), mode : {"short", "full"}, pixels : BOOLEAN]
            BY <2>3, <3>3 DEF JourneySeek, SyncUI, Info
        <3> QED BY <2>3, <3>1, <3>3, <3>4 DEF JourneySeek
    <2>4. CASE JourneyTick
        <3>1. jnT' \in 0..JourneyEnd /\ jnPlaying' \in BOOLEAN /\ jnButton' \in {"Play", "Pause", "Replay"}
            BY <2>4 DEF JourneyTick
        <3>2. JourneyStage(jnT') \in 0..(JourneyStages - 1)
            BY <2>1, <3>1
        <3> QED BY <2>4, <3>1, <3>2 DEF JourneyTick, Info
    <2>5. CASE JourneyPixels
        BY <2>5 DEF JourneyPixels
    <2>6. CASE JourneySwitches
        BY <2>6 DEF JourneySwitches
    <2>7. CASE UNCHANGED journeyVars
        BY <2>7 DEF journeyVars
    <2> QED BY <2>2, <2>3, <2>4, <2>5, <2>6, <2>7 DEF JourneyNext
<1> QED BY <1>1, <1>2

\* The quiz keeps one of the options, or none, for each question (ch/17-finale.js).
LEMMA QuizTypes ==
    /\ QuizInit => QuizTypeOK
    /\ QuizTypeOK /\ [QuizNext]_quizVars => QuizTypeOK'
<1>0. ASSUME NEW ans, NEW mode PROVE Score(ans, mode) \in [ok : Nat, of : Nat, says : Messages]
    <2>1. IsFiniteSet(Questions)
        BY FS_Interval, FinaleAssumption DEF Questions
    <2>2. Asked(mode) \subseteq Questions
        BY DEF Asked
    <2>3. /\ IsFiniteSet(Asked(mode)) /\ IsFiniteSet({q \in Asked(mode) : ans[q] = Marked(q)})
        BY <2>1, <2>2, FS_Subset
    <2>4. Cardinality(Asked(mode)) \in Nat /\ Cardinality({q \in Asked(mode) : ans[q] = Marked(q)}) \in Nat
        BY <2>3, FS_CardinalityType
    <2> QED BY <2>4, Zenon DEF Score, Messages
<1>1. QuizInit => QuizTypeOK
    BY <1>0 DEF QuizInit, QuizTypeOK, NoAnswers
<1>2. ASSUME QuizTypeOK, [QuizNext]_quizVars PROVE QuizTypeOK'
    <2> USE <1>2 DEF QuizTypeOK
    <2>1. ASSUME NEW q \in Questions, NEW j \in QuizOptions, QuizClick(q, j) PROVE QuizTypeOK'
        BY <1>0, <2>1 DEF QuizClick, Save
    <2>2. CASE QuizReset
        BY <1>0, <2>2 DEF QuizReset, Save, NoAnswers
    <2>3. ASSUME NEW mode \in {"short", "full"}, QuizSwitch(mode) PROVE QuizTypeOK'
        BY <1>0, <2>3 DEF QuizSwitch
    <2>4. CASE QuizReload
        BY <1>0, <2>4 DEF QuizReload, Loaded, NoAnswers
    <2>5. CASE UNCHANGED quizVars
        BY <2>5 DEF quizVars
    <2> QED BY <2>1, <2>2, <2>3, <2>4, <2>5 DEF QuizNext
<1> QED BY <1>1, <1>2

\* The glossary's list shows terms that are listed, of those known (ch/17-finale.js).
LEMMA GlossTypes ==
    /\ GlossInit => GlossTypeOK
    /\ GlossTypeOK /\ [GlossNext]_glossVars => GlossTypeOK'
<1>1. GlossInit => GlossTypeOK
    BY DEF GlossInit, GlossTypeOK
<1>2. GlossTypeOK /\ [GlossNext]_glossVars => GlossTypeOK'
    BY DEF GlossTypeOK, GlossNext, GlossLearns, GlossSearch, GlossBuilds, Found, glossVars
<1> QED BY <1>1, <1>2

\* A trail of the problem finder is one of nodes of its tree (ch/21-pit.js).
LEMMA TrailHasType == Trail(ptPath) => FinderTypeOK
BY DEF Trail, FinderTypeOK, Visits

\* The reports' page keeps the report, the part of it and the copy button of its kinds (ch/21-pit.js).
LEMMA ReportTypes ==
    /\ ReportInit => ReportTypeOK
    /\ ReportTypeOK /\ [ReportNext]_reportVars => ReportTypeOK'
<1>1. ReportInit => ReportTypeOK
    BY PitAssumption DEF ReportInit, ReportTypeOK, LinesWithKeys, StatsParts
<1>2. ASSUME ReportTypeOK, [ReportNext]_reportVars PROVE ReportTypeOK'
    <2> USE <1>2, PitAssumption DEF ReportTypeOK
    <2>1. ASSUME NEW report \in DOMAIN LinesWithKeys, ShowReport(report) PROVE ReportTypeOK'
        BY <2>1 DEF ShowReport
    <2>2. ASSUME NEW i \in StatsParts, PickReportPart(i) PROVE ReportTypeOK'
        BY <2>2 DEF PickReportPart
    <2>3. CASE CopyWorks \/ CopyFails \/ CopyTimer
        <3>1. /\ \/ cpTimers < PitCopies /\ cpTimers' = cpTimers + 1
                 \/ cpTimers' = cpTimers
                 \/ cpTimers > 0 /\ cpTimers' = cpTimers - 1
              /\ rpReport' = rpReport /\ rpPart' = rpPart
            BY <2>3, Zenon DEF CopyWorks, CopyFails, CopyTimer
        <3>2. cpLabel' \in {"Copy", "Copied", "Select it"}
            BY <2>3, Zenon DEF CopyWorks, CopyFails, CopyTimer
        <3>3. cpTimers' \in 0..PitCopies
            <4>1. cpTimers \in 0..PitCopies /\ PitCopies \in Nat
                OBVIOUS
            <4> HIDE <1>2, PitAssumption DEF ReportTypeOK
            <4>2. CASE cpTimers < PitCopies /\ cpTimers' = cpTimers + 1
                BY <4>1, <4>2
            <4>3. CASE cpTimers' = cpTimers
                BY <4>1, <4>3
            <4>4. CASE cpTimers > 0 /\ cpTimers' = cpTimers - 1
                BY <4>1, <4>4
            <4> QED BY <3>1, <4>2, <4>3, <4>4
        <3> QED BY <3>1, <3>2, <3>3, Zenon
    <2>4. CASE UNCHANGED reportVars
        BY <2>4 DEF reportVars
    <2> QED BY <2>1, <2>2, <2>3, <2>4 DEF ReportNext
<1> QED BY <1>1, <1>2

\* The checklist's ticks and what the browser keeps of them are of its items and days (ch/21-pit.js).
LEMMA DayTypes ==
    /\ DayInit => DayTypeOK
    /\ DayTypeOK /\ [DayNext]_dayVars => DayTypeOK'
<1>0. ASSUME NEW ticked, NEW mode PROVE Count(ticked, mode) \in [done : Nat, of : Nat]
    <2>1. ItemsIn(mode) \subseteq PitItems /\ ticked \intersect ItemsIn(mode) \subseteq PitItems
        BY DEF ItemsIn
    <2>2. Cardinality(ItemsIn(mode)) \in Nat /\ Cardinality(ticked \intersect ItemsIn(mode)) \in Nat
        BY <2>1, PitAssumption, FS_Subset, FS_CardinalityType
    <2> QED BY <2>2 DEF Count
<1>1. DayInit => DayTypeOK
    BY <1>0, PitAssumption DEF DayInit, DayTypeOK
<1>2. ASSUME DayTypeOK, [DayNext]_dayVars PROVE DayTypeOK'
    <2> USE <1>2, PitAssumption DEF DayTypeOK
    <2>1. ASSUME NEW today \in 1..PitDays, NEW ticked \in SUBSET PitItems, NEW mode, CountAndSave(today, ticked, mode)
          PROVE  dyCount' \in [done : Nat, of : Nat] /\ dySaved' \in [day : 0..PitDays, on : SUBSET PitItems]
        BY <1>0, <2>1 DEF CountAndSave
    <2>2. ASSUME NEW i \in PitItems, Tick(i) PROVE DayTypeOK'
        <3>1. dyTicked' \in SUBSET PitItems /\ dyToday \in 1..PitDays /\ dyDay \in 0..PitDays
            BY <2>2 DEF Tick
        <3> QED BY <2>1, <2>2, <3>1 DEF Tick
    <2>3. CASE ClearDay
        <3>1. dyToday \in 1..PitDays /\ {} \in SUBSET PitItems
            OBVIOUS
        <3> QED BY <2>1, <2>3, <3>1 DEF ClearDay
    <2>4. ASSUME NEW mode \in {"short", "full"}, SwitchDay(mode) PROVE DayTypeOK'
        <3>1. dyToday \in 1..PitDays /\ dyTicked \in SUBSET PitItems
            OBVIOUS
        <3> QED BY <2>1, <2>4, <3>1 DEF SwitchDay
    <2>5. CASE Midnight
        BY <2>5 DEF Midnight
    <2>6. CASE OpenPage
        <3>1. KeptTicks \in SUBSET PitItems
            BY DEF KeptTicks
        <3>2. dyTicked' \in SUBSET PitItems /\ dyDay \in 1..PitDays
            BY <2>6, <3>1 DEF OpenPage
        <3>3. dyWhen' \in [PitItems -> 0..PitDays]
            BY <2>6 DEF OpenPage
        <3> QED BY <2>1, <2>6, <3>2, <3>3 DEF OpenPage
    <2>7. CASE UNCHANGED dayVars
        BY <2>7 DEF dayVars
    <2> QED BY <2>2, <2>3, <2>4, <2>5, <2>6, <2>7 DEF DayNext
<1> QED BY <1>1, <1>2

\* Four cables in four ports, lenses of the robot's or the spare one (ch/20-camsetup.js).
LEMMA PortsTypes ==
    /\ PortsInit => PortsTypeOK
    /\ PortsInv /\ PortsTypeOK /\ [PortsNext]_portsVars => PortsTypeOK'
<1>1. ASSUME NEW cable \in [Ports -> Ports], \A p, q \in Ports : p /= q => cable[p] /= cable[q]
      PROVE  Cardinality({cable[p] : p \in Ports}) = 4
    <2>1. \A p \in Ports : p = 0 \/ p = 1 \/ p = 2 \/ p = 3
        BY DEF Ports
    <2>2. 0 \in Ports /\ 1 \in Ports /\ 2 \in Ports /\ 3 \in Ports
        BY DEF Ports
    <2>3. {cable[p] : p \in Ports} = (({cable[0]} \union {cable[1]}) \union {cable[2]}) \union {cable[3]}
        BY <2>1, <2>2
    <2>4. Cardinality({cable[0]}) = 1 /\ IsFiniteSet({cable[0]})
        BY FS_Singleton
    <2>5. /\ Cardinality({cable[0]} \union {cable[1]}) = 2
          /\ IsFiniteSet({cable[0]} \union {cable[1]})
        <3>1. cable[1] \notin {cable[0]}
            BY <1>1, <2>2
        <3> QED BY <2>4, <3>1, FS_AddElement
    <2>6. /\ Cardinality(({cable[0]} \union {cable[1]}) \union {cable[2]}) = 3
          /\ IsFiniteSet(({cable[0]} \union {cable[1]}) \union {cable[2]})
        <3>1. cable[2] \notin {cable[0]} \union {cable[1]}
            BY <1>1, <2>2
        <3> QED BY <2>5, <3>1, FS_AddElement
    <2>7. Cardinality((({cable[0]} \union {cable[1]}) \union {cable[2]}) \union {cable[3]}) = 4
        <3>1. cable[3] \notin ({cable[0]} \union {cable[1]}) \union {cable[2]}
            BY <1>1, <2>2
        <3> QED BY <2>6, <3>1, FS_AddElement
    <2> QED BY <2>3, <2>7
<1>2. ASSUME PortsInit PROVE PortsTypeOK
    <2>1. PortsInv
        BY <1>2, PortsStart
    <2>2. Cardinality({csCable[p] : p \in Ports}) = 4
        BY <1>1, <2>1 DEF PortsInv
    <2> QED BY <1>2, <2>1, <2>2 DEF PortsInit, PortsInv, PortsTypeOK
<1>3. ASSUME PortsInv, PortsTypeOK, [PortsNext]_portsVars PROVE PortsTypeOK'
    <2>1. PortsInv'
        BY <1>3, PortsStep
    <2>2. (Cardinality({csCable[p] : p \in Ports}) = 4)'
        BY <1>1, <2>1 DEF PortsInv
    <2>3. /\ csLast' \in {"reset", "swap", "replace", "recal", "manual"}
          /\ csSolver' \in {"mt1", "mt2"}
        <3> USE <1>3 DEF PortsTypeOK
        <3>1. CASE (\E v \in {"mt1", "mt2"} : Solver(v)) \/ Recalibrate
            BY <3>1 DEF Solver, Recalibrate
        <3>2. CASE Setup
            BY <3>2 DEF Setup, PortsRestart
        <3>3. CASE \E p \in Ports : TapPort(p)
            BY <3>3 DEF TapPort
        <3>4. CASE UNCHANGED portsVars
            BY <3>4 DEF portsVars
        <3> QED BY <3>1, <3>2, <3>3, <3>4 DEF PortsNext
    <2> QED BY <2>1, <2>2, <2>3 DEF PortsInv, PortsTypeOK
<1> QED BY <1>2, <1>3

\* How hungry the dog may be, by what it is doing: it is patted, barks, or the robot starts.
DogInv ==
    /\ DogTypeOK
    /\ dgMode = "run" => dgHungry <= PatEvery
    /\ dgMode = "frozen" => dgHungry <= Limit
    /\ dgMode = "panic" => dgIn <= PanicReboots /\ dgHungry <= Limit + dgIn
    /\ dgMode = "boot" => dgIn <= BootTakes /\ dgHungry <= Limit + PanicReboots + 1 + dgIn

\* The dog's hunger and a boot's seconds stay within their bounds (ch/16-failsafes.js).
LEMMA DogTypes ==
    /\ DogInit => DogInv
    /\ DogInv /\ [DogNext]_dogVars => DogInv'
<1> USE DEF DogInv, DogTypeOK, PatEvery, Limit, PanicReboots, BootTakes
<1>1. ASSUME DogInit PROVE DogInv
    <2>1. dgMode = "run" /\ dgHungry = 0 /\ dgIn = 0
        BY <1>1 DEF DogInit
    <2>2. dgLabel \in {"Freeze", "Unfreeze"} /\ dgOff \in BOOLEAN
        BY <1>1, Zenon DEF DogInit
    <2> QED BY <2>1, <2>2
<1>2. ASSUME DogInv, [DogNext]_dogVars PROVE DogInv'
    <2> USE <1>2
    <2>1. CASE FreezeButton
        BY <2>1 DEF FreezeButton
    <2>2. CASE PanicButton
        BY <2>2 DEF PanicButton
    <2>3. CASE DogTick
        <3>1. CASE dgMode = "run"
            BY <2>3, <3>1 DEF DogTick
        <3>2. CASE dgMode = "frozen"
            BY <2>3, <3>2 DEF DogTick
        <3>3. CASE dgMode = "panic"
            BY <2>3, <3>3 DEF DogTick
        <3>4. CASE dgMode = "boot"
            BY <2>3, <3>4 DEF DogTick
        <3> QED BY <3>1, <3>2, <3>3, <3>4
    <2>4. CASE UNCHANGED dogVars
        BY <2>4 DEF dogVars
    <2> QED BY <2>1, <2>2, <2>3, <2>4 DEF DogNext
<1> QED BY <1>1, <1>2

\* The story of a fault: a step at least, each of a kind.
IsStory(steps) == Len(steps) \in Nat \ {0} /\ \A k \in 1..Len(steps) : steps[k].kind \in Kinds

\* Each fault of the list tells such a story (FAULTS).
LEMMA FaultsAreStories == \A fault \in DOMAIN Faults : IsStory(Faults[fault])
<1> DEFINE OfKind(a) == a.kind \in Kinds
<1>1. ASSUME NEW comps
      PROVE  OfKind(F(comps)) /\ OfKind(D(comps)) /\ OfKind(I(comps)) /\ OfKind(R(comps))
    BY DEF F, D, I, R, Kinds
<1> HIDE DEF OfKind
<1>2. ASSUME NEW a, NEW b, NEW c, NEW d, OfKind(a), OfKind(b), OfKind(c), OfKind(d)
      PROVE  IsStory(<<a, b, c, d>>)
    BY <1>2 DEF IsStory, OfKind
<1>3. ASSUME NEW a, NEW b, NEW c, NEW d, NEW e, OfKind(a), OfKind(b), OfKind(c), OfKind(d), OfKind(e)
      PROVE  IsStory(<<a, b, c, d, e>>)
    BY <1>3 DEF IsStory, OfKind
<1>4. ASSUME NEW a, NEW b, NEW c, NEW d, NEW e, NEW f,
             OfKind(a), OfKind(b), OfKind(c), OfKind(d), OfKind(e), OfKind(f)
      PROVE  IsStory(<<a, b, c, d, e, f>>)
    BY <1>4 DEF IsStory, OfKind
<1>5. ASSUME NEW a, NEW b, NEW c, NEW d, NEW e, NEW f, NEW g,
             OfKind(a), OfKind(b), OfKind(c), OfKind(d), OfKind(e), OfKind(f), OfKind(g)
      PROVE  IsStory(<<a, b, c, d, e, f, g>>)
    BY <1>5 DEF IsStory, OfKind
<1>6. IsStory(Faults["cuda"]) /\ IsStory(Faults["xhci"]) /\ IsStory(Faults["sag"]) /\ IsStory(Faults["flood"])
    BY <1>1, <1>2 DEF Faults
<1>7. IsStory(Faults["unplug"]) /\ IsStory(Faults["gpu"]) /\ IsStory(Faults["hang"]) /\ IsStory(Faults["mode"])
    BY <1>1, <1>3 DEF Faults
<1>8. IsStory(Faults["corrupt"]) /\ IsStory(Faults["crash"]) /\ IsStory(Faults["hub"])
    BY <1>1, <1>4 DEF Faults
<1>9. IsStory(Faults["power"]) /\ IsStory(Faults["heat"])
    BY <1>1, <1>5 DEF Faults
<1>10. DOMAIN Faults = {"unplug", "corrupt", "cuda", "gpu", "crash", "hang", "power", "xhci", "hub", "heat",
                        "sag", "mode", "flood"}
    BY DEF Faults
<1> QED BY <1>6, <1>7, <1>8, <1>9, <1>10

\* The player of faults is at a step of its fault and lights components as steps do (ch/16-failsafes.js).
LEMMA FaultTypes ==
    /\ FaultInit => FaultTypeOK
    /\ FaultTypeOK /\ [FaultNext]_faultVars => FaultTypeOK'
<1>0. Dark \in [Comps -> Kinds]
    BY DEF Dark, Kinds
<1>1. ASSUME NEW fault \in FaultIds, NEW k \in 1..Len(Faults[fault]), NEW state \in [Comps -> Kinds]
      PROVE  Lit(state, Faults[fault][k]) \in [Comps -> Kinds]
    <2>1. Faults[fault][k].kind \in Kinds
        BY FaultsAreStories, FaultsAssumption DEF IsStory
    <2> QED BY <2>1 DEF Lit
<1>2. ASSUME NEW fault \in FaultIds PROVE 1 \in 1..Len(Faults[fault]) /\ Len(Faults[fault]) \in Nat
    BY FaultsAreStories, FaultsAssumption DEF IsStory
<1>3. FaultInit => FaultTypeOK
    <2>1. "unplug" \in FaultIds /\ 0 \in 0..(FaultDwell + 1) /\ Faults.unplug = Faults["unplug"]
        BY FaultsAssumption, FailsafesAssumption
    <2> QED BY <1>0, <1>1, <1>2, <2>1 DEF FaultInit, FaultTypeOK
<1>4. ASSUME FaultTypeOK, [FaultNext]_faultVars PROVE FaultTypeOK'
    <2> USE <1>4 DEF FaultTypeOK
    <2>0. 0 \in 0..(FaultDwell + 1) /\ FaultDwell \in Nat /\ Len(Faults[faFault]) \in Nat
        BY <1>2, FailsafesAssumption
    <2>1. ASSUME NEW f \in FaultIds, SelectFault(f) PROVE FaultTypeOK'
        BY <1>0, <1>1, <1>2, <2>0, <2>1 DEF SelectFault
    <2>2. CASE FaultTick
        <3>1. CASE faTimer + 1 > FaultDwell /\ faStep < Len(Faults[faFault])
            <4>1. faStep + 1 \in 1..Len(Faults[faFault])
                BY <2>0, <3>1
            <4> QED BY <1>1, <2>0, <2>2, <3>1, <4>1 DEF FaultTick
        <3>2. CASE ~(faTimer + 1 > FaultDwell /\ faStep < Len(Faults[faFault]))
            <4>1. faTimer' \in 0..(FaultDwell + 1)
                BY <2>0, <2>2, <3>2 DEF FaultTick
            <4> QED BY <2>2, <3>2, <4>1 DEF FaultTick
        <3> QED BY <3>1, <3>2
    <2>3. ASSUME NEW wide \in BOOLEAN, FaultResize(wide) PROVE FaultTypeOK'
        BY <1>0, <2>3 DEF FaultResize
    <2>4. CASE UNCHANGED faultVars
        BY <2>4 DEF faultVars
    <2> QED BY <2>1, <2>2, <2>3, <2>4 DEF FaultNext
<1> QED BY <1>3, <1>4

\* The terminal's file is typed to its last line and no further.
TypedBounds == TypedInv /\ TermTypeOK /\ (teTyping > 0 => teShown < TermLines)

\* As there is one run at most, no line after the last is shown (ch/16-failsafes.js).
LEMMA TermTypes ==
    /\ TermInit => TypedBounds
    /\ TypedBounds /\ [TermNext]_termVars => TypedBounds'
<1> USE FailsafesAssumption
<1>1. ASSUME TermInit PROVE TypedBounds
    <2>1. TypedInv /\ teTyping = 0 /\ teShown = 0
        BY <1>1, TypedStart DEF TermInit
    <2>2. teFile \in {"asked", "there", "lost"} /\ teStarted \in BOOLEAN
        BY <1>1, Zenon DEF TermInit
    <2> QED BY <2>1, <2>2 DEF TypedBounds, TermTypeOK
<1>2. ASSUME TypedBounds, [TermNext]_termVars PROVE TypedBounds'
    <2>1. TypedInv'
        BY <1>2, TypedStep DEF TypedBounds
    <2>2. teTyping' \in 0..2
        BY <2>1 DEF TypedInv, TypedOnce
    <2>3. teFile' \in {"asked", "there", "lost"} /\ teStarted' \in BOOLEAN
        BY <1>2 DEF TypedBounds, TermTypeOK, TermNext, TermArrives, TermLost, TermSeen, TermTick, termVars
    <2>4. teShown' \in 0..TermLines /\ (teTyping' > 0 => teShown' < TermLines)
        <3> USE <1>2 DEF TypedBounds, TypedInv, TypedOnce, TermTypeOK
        <3>1. CASE TermArrives \/ TermSeen
            BY <3>1 DEF TermArrives, TermSeen, TermGo
        <3>2. CASE TermLost \/ UNCHANGED termVars
            BY <3>2 DEF TermLost, termVars
        <3>3. CASE TermTick
            BY <3>3 DEF TermTick
        <3> QED BY <3>1, <3>2, <3>3 DEF TermNext
    <2> QED BY <2>1, <2>2, <2>3, <2>4 DEF TypedBounds, TermTypeOK
<1> QED BY <1>1, <1>2

\* The dashboard's clocks and tiles stay within their bounds (ch/16-failsafes.js).
LEMMA DashTypes ==
    /\ DashInit => DashTypeOK
    /\ DashTypeOK /\ [DashNext]_dashVars => DashTypeOK'
<1>0. /\ DashHot[1] \in Nat \ {0} /\ DashHot[2] \in Nat \ {0} /\ DashHot[3] \in Nat \ {0}
      /\ DashSag \in Nat \ {0} /\ DashMaxOver \in Nat
      /\ DashHot[1] < DashHot[2] /\ DashHot[2] < DashHot[3]
    BY FailsafesAssumption
<1> DEFINE Tiles == {"-", "HIGH TEMP", "OVER-CURRENT", "Prev. over-current", "None"}
<1>1. ASSUME DashInit PROVE DashTypeOK
    <2>1. daShown \in Tiles /\ daDead \in BOOLEAN /\ daNow \in BOOLEAN
        BY <1>1, Zenon DEF DashInit
    <2> HIDE DEF Tiles
    <2>2. /\ daDeadT \in 0..DashHot[3] /\ daTemp \in 0..3 /\ daSag \in 0..DashSag
          /\ daOver \in 0..DashMaxOver /\ daCount \in 0..DashMaxOver
        BY <1>0, <1>1 DEF DashInit
    <2> QED BY <2>1, <2>2, Zenon DEF DashTypeOK, Tiles
<1>2. ASSUME DashTypeOK, [DashNext]_dashVars PROVE DashTypeOK'
    <2>0. /\ daShown \in Tiles /\ daDead \in BOOLEAN /\ daNow \in BOOLEAN
          /\ daDeadT \in 0..DashHot[3] /\ daTemp \in 0..3 /\ daSag \in 0..DashSag
          /\ daOver \in 0..DashMaxOver /\ daCount \in 0..DashMaxOver
        BY <1>2, Zenon DEF DashTypeOK
    <2> DEFINE Fits ==
                   /\ daDeadT' \in 0..DashHot[3] /\ daTemp' \in 0..3 /\ daSag' \in 0..DashSag
                   /\ daOver' \in 0..DashMaxOver /\ daCount' \in 0..DashMaxOver
                   /\ daDead' \in BOOLEAN /\ daNow' \in BOOLEAN
    <2>1. daShown' \in Tiles
        BY <1>2, <2>0, Zenon DEF DashNext, SagButton, FanButton, ResetButton, Redraw, dashVars
    <2> HIDE DEF Tiles
    <2> USE <1>0, <2>0
    <2>2. ASSUME SagButton PROVE Fits
        BY <2>2 DEF SagButton
    <2>3. ASSUME FanButton PROVE Fits
        BY <2>3 DEF FanButton
    <2>4. ASSUME ResetButton PROVE Fits
        <3>1. daDead' \in BOOLEAN /\ daNow' \in BOOLEAN /\ daDeadT' = daDeadT /\ daCount' = daCount
            BY <2>4, Zenon DEF ResetButton
        <3>2. daTemp' = 0 /\ daSag' = DashSag /\ daOver' = 0
            BY <2>4 DEF ResetButton
        <3> QED BY <3>1, <3>2
    <2>5. ASSUME Redraw PROVE Fits
        <3>1. daDeadT' \in 0..DashHot[3] /\ daSag' \in 0..DashSag
            <4>1. /\ daDeadT' = IF daDead /\ daDeadT < DashHot[3] THEN daDeadT + 1 ELSE daDeadT
                  /\ daSag' = IF daSag < DashSag THEN daSag + 1 ELSE daSag
                BY <2>5, Zenon DEF Redraw
            <4> QED BY <4>1
        <3>2. daTemp' \in 0..3
            <4> DEFINE deadT == IF daDead /\ daDeadT < DashHot[3] THEN daDeadT + 1 ELSE daDeadT
                       Past(k) == deadT >= DashHot[k] /\ \A j \in 1..3 : deadT >= DashHot[j] => j <= k
            <4>1. deadT \in Nat
                OBVIOUS
            <4>2. daTemp' = IF ~daDead THEN 0 ELSE IF deadT < DashHot[1] THEN 0 ELSE CHOOSE k \in 1..3 : Past(k)
                BY <2>5, Zenon DEF Redraw
            <4> HIDE DEF deadT
            <4>3. ASSUME deadT >= DashHot[1] PROVE \E k \in 1..3 : Past(k)
                <5>1. CASE deadT >= DashHot[3]
                    BY <4>1, <5>1
                <5>2. CASE deadT >= DashHot[2] /\ ~(deadT >= DashHot[3])
                    BY <4>1, <5>2
                <5>3. CASE ~(deadT >= DashHot[2])
                    BY <4>1, <4>3, <5>3
                <5> QED BY <4>1, <5>1, <5>2, <5>3
            <4>4. ~(deadT < DashHot[1]) => deadT >= DashHot[1]
                BY <4>1
            <4> HIDE DEF Past
            <4> QED BY <4>2, <4>3, <4>4
        <3>3. daDead' = daDead /\ daNow' = FALSE /\ daOver' = daOver /\ daCount' = daOver
            BY <2>5, Zenon DEF Redraw
        <3> QED BY <3>1, <3>2, <3>3
    <2>6. ASSUME UNCHANGED dashVars PROVE Fits
        BY <2>6 DEF dashVars
    <2>7. Fits
        BY <1>2, <2>2, <2>3, <2>4, <2>5, <2>6 DEF DashNext
    <2> QED BY <2>1, <2>7, Zenon DEF DashTypeOK, Tiles
<1> QED BY <1>1, <1>2

\* The pinhole's sliders and drag, the lens's presets (ch/11-calibration.js).
LEMMA PinTypes ==
    /\ PinInit => PinTypeOK
    /\ PinTypeOK /\ [PinNext]_pinVars => PinTypeOK'
<1>1. PinInit => PinTypeOK
    BY DEF PinInit, PinTypeOK
<1>2. PinTypeOK /\ [PinNext]_pinVars => PinTypeOK'
    BY DEF PinTypeOK, PinNext, SetLens, SlidePoint, PressPoint, MovePoint, ReleasePoint, PickPinTab, pinVars
<1> QED BY <1>1, <1>2

\* The lens's numbers come from a preset or the reader, and the picture is raw or undistorted
\* (ch/11-calibration.js).
LEMMA DistTypes ==
    /\ DistInit => DistTypeOK
    /\ DistTypeOK /\ [DistNext]_distVars => DistTypeOK'
<1>1. DistInit => DistTypeOK
    BY DEF DistInit, DistTypeOK, Presets
<1>2. DistTypeOK /\ [DistNext]_distVars => DistTypeOK'
    BY DEF DistTypeOK, DistNext, PickPreset, SlideLens, PickUndist, distVars
<1> QED BY <1>1, <1>2

\* The coverage lab's snapshots, solves and words stay of their kinds (ch/11-calibration.js).
CoverageBounds == cvSnaps <= CovFull /\ CoverageInv /\ CoverageTypeOK

\* With it the coverage lab's variables keep their types.
LEMMA CoverageTypes ==
    /\ CoverageInit => CoverageBounds
    /\ CoverageBounds /\ [CoverageNext]_covVars => CoverageBounds'
<1> DEFINE Says == {"none", "few", "solving", "solved", "full", "not found", "cleared"}
<1>0. /\ CovFull \in Nat \ {0} /\ CovWaiting \in Nat \ {0} /\ NoFit = CovFull + 1 /\ CovPerTen \in Nat
      /\ 0 \in 0..CovFull /\ NoFit \in 0..NoFit /\ \A n \in 0..CovFull : n \in 0..NoFit
    BY CalibrationAssumption DEF NoFit
<1>1. CoverageShows \in [asks : {"tap", "more", "nothing"}, residuals : BOOLEAN, heat : BOOLEAN]
    BY Zenon DEF CoverageShows
<1>2. CoverageShows' \in [asks : {"tap", "more", "nothing"}, residuals : BOOLEAN, heat : BOOLEAN]
    BY Zenon DEF CoverageShows
<1>3. ASSUME CoverageInit PROVE CoverageBounds
    <2>1. /\ cvBusy \in BOOLEAN /\ cvTimer \in BOOLEAN /\ cvView \in {"cov", "err", "model"}
          /\ cvStatus \in Says \X (0..CovFull)
        BY <1>0, <1>3, Zenon DEF CoverageInit
    <2>2. cvSnaps \in 0..CovFull /\ cvFit \in 0..NoFit /\ cvChains \in 0..CovWaiting
        BY <1>0, <1>3 DEF CoverageInit
    <2> QED BY <1>1, <1>3, <2>1, <2>2, CoverageStart DEF CoverageBounds, CoverageTypeOK
<1>4. ASSUME CoverageBounds, [CoverageNext]_covVars PROVE CoverageBounds'
    <2>1. (cvSnaps <= CovFull /\ CoverageInv)'
        BY <1>4, CoverageStep DEF CoverageBounds
    <2>2. cvSnaps' \in 0..CovFull /\ cvSnaps \in 0..CovFull
        BY <1>4, <2>1 DEF CoverageInv, CoverageBounds
    <2> USE <1>4 DEF CoverageBounds, CoverageTypeOK
    <2>3. cvChains' \in 0..CovWaiting
        <3>1. \/ cvChains' = cvChains
              \/ cvChains < CovWaiting /\ cvChains' = cvChains + 1
              \/ cvChains > 0 /\ cvChains' = cvChains - 1
            <4>1. (\E found \in BOOLEAN : TapSnapshot(found)) => cvChains' = cvChains
                BY Zenon DEF TapSnapshot
            <4>2. (\E found \in 0..CovPerTen : TakeTen(found)) => cvChains' = cvChains
                BY Zenon DEF TakeTen
            <4>3. TimerFires => cvChains < CovWaiting /\ cvChains' = cvChains + 1
                BY Zenon DEF TimerFires
            <4>4. SolveSnapshots => cvChains > 0 /\ cvChains' = cvChains - 1
                BY Zenon DEF SolveSnapshots
            <4>5. ResetSnapshots => cvChains' = cvChains
                BY Zenon DEF ResetSnapshots
            <4>6. (\E v \in {"cov", "err", "model"} : PickCovView(v)) \/ UNCHANGED covVars => cvChains' = cvChains
                BY Zenon DEF PickCovView, covVars
            <4>7. CoverageNext \/ UNCHANGED covVars
                BY <1>4, Zenon
            <4> HIDE <1>4 DEF CoverageBounds, CoverageTypeOK
            <4> QED BY <4>1, <4>2, <4>3, <4>4, <4>5, <4>6, <4>7, Zenon DEF CoverageNext
        <3>2. cvChains \in 0..CovWaiting
            OBVIOUS
        <3> HIDE <1>4 DEF CoverageBounds, CoverageTypeOK
        <3> QED BY <1>0, <3>1, <3>2
    <2>4. ASSUME NEW n \in 0..CovFull, Recal(n)
          PROVE  cvFit' \in 0..NoFit /\ cvBusy' \in BOOLEAN /\ cvTimer' \in BOOLEAN
                 /\ cvStatus' \in Says \X (0..CovFull)
        <3>1. cvFit' \in {cvFit, NoFit} /\ cvBusy' \in {cvBusy, TRUE} /\ cvTimer' \in BOOLEAN
              /\ cvStatus' \in {<<"few", n>>, <<"solving", n>>}
            BY <2>4, Zenon DEF Recal
        <3>2. <<"few", n>> \in Says \X (0..CovFull) /\ <<"solving", n>> \in Says \X (0..CovFull)
            BY <2>4, Zenon
        <3> QED BY <1>0, <3>1, <3>2, Zenon
    <2>5. /\ cvFit' \in 0..NoFit /\ cvBusy' \in BOOLEAN /\ cvTimer' \in BOOLEAN
          /\ cvStatus' \in Says \X (0..CovFull) /\ cvView' \in {"cov", "err", "model"}
        <3>1. ASSUME NEW found \in BOOLEAN, TapSnapshot(found)
              PROVE  /\ cvFit' \in 0..NoFit /\ cvBusy' \in BOOLEAN /\ cvTimer' \in BOOLEAN
                     /\ cvStatus' \in Says \X (0..CovFull) /\ cvView' = cvView
            <4>1. CASE cvSnaps < CovFull /\ found
                <5>1. cvSnaps + 1 \in 0..CovFull
                    <6> HIDE <1>4 DEF CoverageBounds, CoverageTypeOK
                    <6> QED BY <1>0, <2>2, <4>1
                <5>2. Recal(cvSnaps + 1) /\ cvView' = cvView
                    BY <3>1, <4>1, Zenon DEF TapSnapshot
                <5> QED BY <2>4, <5>1, <5>2, Zenon
            <4>2. CASE ~(cvSnaps < CovFull /\ found)
                <5>1. /\ cvFit' = cvFit /\ cvBusy' = cvBusy /\ cvTimer' = cvTimer /\ cvView' = cvView
                      /\ cvStatus' \in {<<"not found", 0>>, <<"full", 0>>}
                    BY <3>1, <4>2, Zenon DEF TapSnapshot
                <5>2. <<"not found", 0>> \in Says \X (0..CovFull) /\ <<"full", 0>> \in Says \X (0..CovFull)
                    BY <1>0, Zenon
                <5> QED BY <5>1, <5>2, Zenon
            <4> QED BY <4>1, <4>2, Zenon
        <3>2. ASSUME NEW found \in 0..CovPerTen, TakeTen(found)
              PROVE  /\ cvFit' \in 0..NoFit /\ cvBusy' \in BOOLEAN /\ cvTimer' \in BOOLEAN
                     /\ cvStatus' \in Says \X (0..CovFull) /\ cvView' = cvView
            <4> DEFINE n == IF cvSnaps + found > CovFull THEN CovFull ELSE cvSnaps + found
            <4>1. n \in 0..CovFull
                <5> HIDE <1>4 DEF CoverageBounds, CoverageTypeOK
                <5> QED BY <1>0, <2>2
            <4>2. Recal(n) /\ cvView' = cvView
                BY <3>2, Zenon DEF TakeTen
            <4> HIDE DEF n
            <4> QED BY <2>4, <4>1, <4>2, Zenon
        <3>3. CASE TimerFires
            BY <3>3, Zenon DEF TimerFires
        <3>4. CASE SolveSnapshots
            <4>1. cvSnaps \in 0..NoFit
                BY <1>0, <2>2
            <4> QED BY <2>2, <3>4, <4>1, Zenon DEF SolveSnapshots
        <3>5. CASE ResetSnapshots
            BY <1>0, <3>5, Zenon DEF ResetSnapshots
        <3>6. CASE (\E v \in {"cov", "err", "model"} : PickCovView(v)) \/ UNCHANGED covVars
            BY <3>6, Zenon DEF PickCovView, covVars
        <3> QED BY <3>1, <3>2, <3>3, <3>4, <3>5, <3>6, Zenon DEF CoverageNext
    <2> QED BY <1>2, <2>1, <2>2, <2>3, <2>5, Zenon
<1> QED BY <1>3, <1>4

\* Twice a tag's sightings a spot, of the spots passed since they were cleared (ch/11-calibration.js).
FieldInv ==
    /\ FieldTypeOK
    /\ fdFrame = 0 \/ fdFrame < FieldFrames
    /\ fdSpot \in 1..(FieldSpots - 1) => fdSeen <= 2 * fdSpot + (IF fdFrame <= 2 THEN fdFrame ELSE 2)
    /\ fdSpot = 0 /\ fdFrame > 0 => fdSeen <= (IF fdFrame <= 2 THEN fdFrame ELSE 2)

\* The count of sightings is at most two for each spot that was begun (ch/11-calibration.js).
LEMMA FieldTypes ==
    /\ FieldInit => FieldInv
    /\ FieldInv /\ [FieldNext]_fieldVars => FieldInv'
<1> USE DEF FieldInv, FieldTypeOK
<1>0. FieldSpots \in Nat \ {0} /\ FieldFrames \in Nat \ {0}
    BY CalibrationAssumption
<1>1. FieldInit => FieldInv
    BY <1>0 DEF FieldInit
<1>2. ASSUME FieldInv, [FieldNext]_fieldVars PROVE FieldInv'
    <2>1. CASE FieldTick
        <3> DEFINE over == fdFrame + 1 >= FieldFrames
                   least == IF fdSpot = 0 /\ fdFrame <= 1 THEN 0 ELSE fdSeen
                   more == IF fdSpot < FieldSpots /\ fdFrame <= 1 THEN 1 ELSE 0
        <3>1. fdSeen' \in 0..(least + more)
            <4>1. PICK clear \in (IF fdSpot = 0 /\ fdFrame <= 2
                                 THEN (IF fdFrame = 2 THEN BOOLEAN ELSE {TRUE}) ELSE {FALSE}),
                       count \in (IF fdSpot < FieldSpots /\ fdFrame <= 1
                                 THEN (IF fdFrame = 1 THEN BOOLEAN ELSE {TRUE}) ELSE {FALSE}) :
                       fdSeen' = (IF clear THEN 0 ELSE fdSeen) + (IF count THEN 1 ELSE 0)
                BY <2>1, Zenon DEF FieldTick
            <4>2. ~(fdSpot < FieldSpots /\ fdFrame <= 1) => ~count
                BY <4>1, Zenon
            <4>3. fdSpot = 0 /\ fdFrame <= 1 => clear
                <5>1. fdSpot = 0 /\ fdFrame <= 1 => fdFrame <= 2 /\ fdFrame /= 2
                    BY <1>0, <1>2
                <5> QED BY <4>1, <5>1, Zenon
            <4>4. fdSeen \in Nat
                BY <1>0, <1>2
            <4> DEFINE kept == IF clear THEN 0 ELSE fdSeen
                       new == IF count THEN 1 ELSE 0
            <4>5. kept \in 0..least
                BY <4>3, <4>4
            <4>6. new \in 0..more
                BY <4>2
            <4>7. fdSeen' = kept + new
                BY <4>1, Zenon
            <4>8. least \in Nat /\ more \in Nat
                BY <4>4
            <4> HIDE DEF kept, new, least, more
            <4> QED BY <4>5, <4>6, <4>7, <4>8
        <3>2. fdFrame' = IF over THEN 0 ELSE fdFrame + 1
            BY <2>1 DEF FieldTick
        <3>3. fdSpot' = IF over THEN (fdSpot + 1) % (FieldSpots + 1) ELSE fdSpot
            BY <2>1 DEF FieldTick
        <3>4. (fdSpot + 1) % (FieldSpots + 1) = IF fdSpot = FieldSpots THEN 0 ELSE fdSpot + 1
            BY <1>0, <1>2
        <3>5. CASE fdSpot = FieldSpots
            BY <1>0, <1>2, <3>1, <3>2, <3>3, <3>4, <3>5
        <3>6. CASE fdSpot = 0 /\ fdFrame <= 1
            BY <1>0, <1>2, <3>1, <3>2, <3>3, <3>4, <3>6
        <3>7. CASE fdSpot < FieldSpots /\ ~(fdSpot = 0 /\ fdFrame <= 1)
            BY <1>0, <1>2, <3>1, <3>2, <3>3, <3>4, <3>7
        <3> QED BY <1>0, <1>2, <3>5, <3>6, <3>7
    <2>2. CASE UNCHANGED fieldVars
        BY <1>2, <2>2 DEF fieldVars
    <2> QED BY <1>2, <2>1, <2>2 DEF FieldNext
<1> QED BY <1>1, <1>2

\* The real calibration's picks and pictures (ch/11-calibration.js).
LEMMA RealTypes ==
    /\ RealInit => RealTypeOK
    /\ RealTypeOK /\ [RealNext]_realVars => RealTypeOK'
<1> USE DEF RealTypeOK, NothingDrawn
<1>0. ASSUME NEW data \in BOOLEAN, NEW pick \in RealPictures, NEW loaded, DrawSnap(data, pick, loaded),
             rcSnap \in {NothingDrawn} \union (RealPictures \X BOOLEAN)
      PROVE  rcSnap' \in {NothingDrawn} \union (RealPictures \X BOOLEAN)
    <2> DEFINE with == pick \in loaded
    <2>1. with \in BOOLEAN
        OBVIOUS
    <2>2. rcSnap' = IF data THEN <<pick, with>> ELSE rcSnap
        BY <1>0, Zenon DEF DrawSnap
    <2> HIDE DEF with
    <2>3. <<pick, with>> \in RealPictures \X BOOLEAN
        BY <2>1
    <2> QED BY <1>0, <2>2, <2>3, Zenon
<1>1. RealInit => RealTypeOK
    BY DEF RealInit, RealPictures
<1>2. ASSUME RealTypeOK, [RealNext]_realVars PROVE RealTypeOK'
    <2> USE <1>2
    <2> DEFINE Drawings == {NothingDrawn} \union (RealPictures \X BOOLEAN)
    <2>1. CASE DataComes
        <3>1. rcSnap' \in Drawings
            BY <1>0, <2>1 DEF DataComes
        <3> HIDE DEF Drawings
        <3> QED BY <2>1, <3>1, Zenon DEF DataComes, DrawAll, Drawings
    <2>2. ASSUME NEW v \in RealPictures, PickRealPicture(v) PROVE RealTypeOK'
        <3>1. rcSnap' \in Drawings
            BY <1>0, <2>2 DEF PickRealPicture
        <3>2. /\ rcPick' = v /\ rcAsked' = rcAsked \union {v} /\ rcData' = rcData /\ rcLoaded' = rcLoaded
              /\ rcView' = rcView /\ rcAll' = rcAll
            BY <2>2, Zenon DEF PickRealPicture
        <3> QED BY <3>1, <3>2, Zenon
    <2>3. ASSUME NEW v \in RealPictures, RealPictureLoads(v) PROVE RealTypeOK'
        <3>1. rcSnap' \in Drawings
            BY <1>0, <2>3 DEF RealPictureLoads
        <3>2. /\ v \in rcAsked /\ rcLoaded' = rcLoaded \union {v} /\ rcData' = rcData /\ rcAsked' = rcAsked
              /\ rcView' = rcView /\ rcAll' = rcAll /\ rcPick' = rcPick
            BY <2>3, Zenon DEF RealPictureLoads
        <3> QED BY <3>1, <3>2, Zenon
    <2>4. ASSUME NEW v \in {"cov", "err", "3d"}, PickRealView(v) PROVE RealTypeOK'
        BY <2>4 DEF PickRealView, DrawAll
    <2>5. CASE UNCHANGED realVars
        BY <2>5 DEF realVars
    <2> QED BY <2>1, <2>2, <2>3, <2>4, <2>5 DEF RealNext
<1> QED BY <1>1, <1>2

\* No more steps are tried than the rounds so far allow (calibrate's and pnp's loops).
StepsBound ==
    /\ SolveTypeOK /\ soKept <= soStep /\ soFits <= soStep
    /\ soStep <= soRound * SolveTries[soWho] + soTry
    /\ soRound = SolveRounds => soTry = 0

\* The rounds and steps of a solver stay within its bounds (ch/11-calibration.js, ch/12-pose.js).
LEMMA SolveTypes ==
    /\ SolveInit => StepsBound
    /\ StepsBound /\ [SolveNext]_solveVars => StepsBound'
<1>0. /\ SolveRounds \in Nat \ {0} /\ SolveTries["calibrate"] \in Nat \ {0} /\ SolveTries["pnp"] \in Nat \ {0}
      /\ SolveCosts \subseteq Nat
    BY SolveAssumption
<1>1. ASSUME NEW r \in Nat, NEW t \in Nat PROVE r * t \in Nat /\ (r + 1) * t = r * t + t /\ 0 * t = 0
    OBVIOUS
<1>2. ASSUME NEW r \in Nat, NEW n \in Nat, r <= n, NEW t \in Nat PROVE r * t <= n * t
    <2>1. PICK d \in Nat : n = r + d
        BY <1>2
    <2>2. n * t = r * t + d * t /\ d * t \in Nat /\ r * t \in Nat
        BY <2>1
    <2> QED BY <2>2
<1>3. ASSUME SolveInit PROVE StepsBound
    <2>1. /\ soWho \in {"calibrate", "pnp"} /\ soCost \in SolveCosts /\ soKept = 0 /\ soFits = 0 /\ soStep = 0
          /\ soRound = 0 /\ soTry = 0 /\ soDone = FALSE /\ soTried = {soCost}
        BY <1>3, Zenon DEF SolveInit
    <2>2. SolveTries[soWho] \in Nat \ {0}
        BY <1>0, <2>1
    <2>3. MostSteps \in Nat /\ 0 * SolveTries[soWho] = 0
        BY <1>0, <1>1, <2>2 DEF MostSteps
    <2>4. /\ soKept \in 0..MostSteps /\ soFits \in 0..MostSteps /\ soStep \in 0..MostSteps
          /\ soRound \in 0..SolveRounds /\ soTry \in 0..SolveTries[soWho]
          /\ soKept <= soStep /\ soFits <= soStep
          /\ soStep <= soRound * SolveTries[soWho] + soTry /\ (soRound = SolveRounds => soTry = 0)
        BY <1>0, <2>1, <2>2, <2>3
    <2>5. soDone \in BOOLEAN /\ soTried \subseteq SolveCosts \union {NotFinite}
        BY <2>1, Zenon
    <2> QED BY <2>1, <2>4, <2>5, Zenon DEF StepsBound, SolveTypeOK
<1>4. ASSUME StepsBound, [SolveNext]_solveVars PROVE StepsBound'
    <2> DEFINE T == SolveTries[soWho]
    <2>1. /\ soWho \in {"calibrate", "pnp"} /\ soCost \in SolveCosts /\ soDone \in BOOLEAN
          /\ soTried \subseteq SolveCosts \union {NotFinite}
          /\ soKept \in 0..MostSteps /\ soFits \in 0..MostSteps /\ soStep \in 0..MostSteps
          /\ soRound \in 0..SolveRounds /\ soTry \in 0..T
          /\ soKept <= soStep /\ soFits <= soStep
          /\ soStep <= soRound * T + soTry /\ (soRound = SolveRounds => soTry = 0)
        BY <1>4, Zenon DEF StepsBound, SolveTypeOK
    <2>10. soKept \in Nat /\ soFits \in Nat /\ soStep \in Nat
        BY <2>1
    <2>2. T \in Nat \ {0} /\ MostSteps = SolveRounds * T /\ MostSteps \in Nat
        BY <1>0, <1>1, <2>1 DEF MostSteps
    <2>3. soWho' = soWho
        BY <1>4 DEF SolveNext, Improves, Reject, Return, solveVars
    <2>4. MostSteps' = MostSteps /\ SolveTries[soWho'] = T
        BY <2>3 DEF MostSteps
    <2> DEFINE Fits == /\ soKept' \in 0..MostSteps /\ soFits' \in 0..MostSteps /\ soStep' \in 0..MostSteps
                       /\ soRound' \in 0..SolveRounds /\ soTry' \in 0..T
                       /\ soKept' <= soStep' /\ soFits' <= soStep'
                       /\ soStep' <= soRound' * T + soTry' /\ (soRound' = SolveRounds => soTry' = 0)
               Costs == soCost' \in SolveCosts /\ soDone' \in BOOLEAN
                        /\ soTried' \subseteq SolveCosts \union {NotFinite}
    <2>5. ASSUME NEW c \in SolveCosts, Improves(c) PROVE Fits /\ Costs
        <3>1. Costs
            BY <2>1, <2>5, Zenon DEF Improves
        <3>2. /\ soRound < SolveRounds /\ soTry < T /\ soKept' = soStep + 1 /\ soFits' = soStep + 1
              /\ soStep' = soStep + 1 /\ soTry' = 0
            BY <2>5, Zenon DEF Improves, Working
        <3>3. soRound' \in {soRound + 1, SolveRounds}
            BY <2>5 DEF Improves
        <3> HIDE DEF T
        <3>4. soRound + 1 <= SolveRounds /\ soRound \in Nat /\ soStep + 1 <= soRound * T + T
              /\ soRound * T \in Nat
            BY <1>0, <1>1, <2>1, <2>2, <3>2
        <3>5. soStep + 1 <= (soRound + 1) * T
            BY <1>1, <2>2, <3>4
        <3>6. (soRound + 1) * T <= SolveRounds * T /\ (soRound + 1) * T \in Nat
            BY <1>0, <1>1, <1>2, <2>2, <3>4
        <3>7. soStep + 1 <= soRound' * T /\ soRound' \in 0..SolveRounds /\ soRound' * T \in Nat
            <4>1. CASE soRound' = soRound + 1
                BY <1>0, <2>2, <3>4, <3>5, <3>6, <4>1
            <4>2. CASE soRound' = SolveRounds
                BY <1>0, <2>1, <2>2, <3>5, <3>6, <4>2
            <4> QED BY <3>3, <4>1, <4>2
        <3>8. soStep + 1 <= MostSteps /\ soStep + 1 \in 0..MostSteps
            BY <2>1, <2>2, <3>5, <3>6
        <3>9. Fits
            <4>1. soTry' \in 0..T
                BY <2>2, <3>2
            <4>2. soKept' <= soStep' /\ soFits' <= soStep'
                BY <2>10, <3>2
            <4>3. soStep' <= soRound' * T + soTry' /\ (soRound' = SolveRounds => soTry' = 0)
                BY <3>2, <3>7
            <4> QED BY <3>2, <3>7, <3>8, <4>1, <4>2, <4>3, Zenon
        <3> QED BY <3>1, <3>9
    <2>6. ASSUME NEW c \in SolveCosts \union {NotFinite}, Reject(c) PROVE Fits /\ Costs
        <3>1. Costs
            BY <2>1, <2>6, Zenon DEF Reject
        <3>2. /\ soRound < SolveRounds /\ soTry < T /\ soTry' = soTry + 1 /\ soStep' = soStep + 1
              /\ soKept' = soKept /\ soFits' = soFits /\ soRound' = soRound
            BY <2>6, Zenon DEF Reject, Working
        <3> HIDE DEF T
        <3>3. soRound + 1 <= SolveRounds /\ soRound \in Nat /\ soStep + 1 <= soRound * T + T
              /\ soRound * T \in Nat
            BY <1>0, <1>1, <2>1, <2>2, <3>2
        <3>4. soRound * T + T = (soRound + 1) * T /\ (soRound + 1) * T <= SolveRounds * T
            BY <1>0, <1>1, <1>2, <2>2, <3>3
        <3>5. soStep + 1 \in 0..MostSteps
            BY <2>1, <2>2, <3>3, <3>4
        <3>6. soTry' \in 0..T /\ soRound' \in 0..SolveRounds /\ soRound' /= SolveRounds
            BY <1>0, <2>1, <2>2, <3>2
        <3>7. soStep' <= soRound' * T + soTry' /\ soKept' <= soStep' /\ soFits' <= soStep'
            BY <2>1, <2>2, <3>2, <3>3
        <3>8. Fits
            BY <2>1, <3>2, <3>5, <3>6, <3>7
        <3> QED BY <3>1, <3>8
    <2>7. ASSUME Return \/ UNCHANGED solveVars PROVE Fits /\ Costs
        <3>1. /\ soCost' = soCost /\ soKept' = soKept /\ soFits' = soFits /\ soStep' = soStep
              /\ soRound' = soRound /\ soTry' = soTry /\ soTried' = soTried
              /\ soDone' \in BOOLEAN
            BY <2>1, <2>7, Zenon DEF Return, solveVars
        <3>2. Costs
            BY <2>1, <3>1, Zenon
        <3>3. /\ soKept \in 0..MostSteps /\ soFits \in 0..MostSteps /\ soStep \in 0..MostSteps
              /\ soRound \in 0..SolveRounds /\ soTry \in 0..T
              /\ soKept <= soStep /\ soFits <= soStep
              /\ soStep <= soRound * T + soTry /\ (soRound = SolveRounds => soTry = 0)
            BY <2>1
        <3>4. Fits
            BY <3>1, <3>3
        <3> QED BY <3>2, <3>4
    <2> HIDE DEF Fits, Costs
    <2>8. Fits /\ Costs
        <3>1. SolveNext \/ UNCHANGED solveVars
            BY <1>4
        <3> QED BY <2>5, <2>6, <2>7, <3>1, Zenon DEF SolveNext
    <2> USE DEF Fits, Costs
    <2> QED BY <2>1, <2>3, <2>4, <2>8, Zenon DEF StepsBound, SolveTypeOK
<1> QED BY <1>3, <1>4

\* A set with a number of its own for each member has no more members than numbers.
LEMMA CountedInto ==
    ASSUME NEW S, NEW n \in Nat, NEW f \in [S -> 0..(n - 1)], \A x, y \in S : f[x] = f[y] => x = y
    PROVE  IsFiniteSet(S) /\ Cardinality(S) \in 0..n
<1>1. IsFiniteSet(0..(n - 1)) /\ Cardinality(0..(n - 1)) = n
    BY FS_Interval
<1>2. f \in Injection(S, 0..(n - 1))
    BY DEF Injection, IsInjective
<1>3. IsFiniteSet(S) /\ Cardinality(S) <= n
    BY <1>1, <1>2, FS_Injection
<1> QED BY <1>3, FS_CardinalityType

\* The readouts count corners and markers of a board of 12 by 9 squares (ch/11-calibration.js).
LEMMA BoardTypes ==
    /\ BoardInit => BoardTypeOK
    /\ BoardTypeOK /\ [BoardNext]_boardVars => BoardTypeOK'
<1> DEFINE inside == (1..11) \X (1..8)
           marks == {m \in (0..11) \X (0..8) : (m[1] + m[2]) % 2 = 0}
<1>1. \A S : S \subseteq inside => Cardinality(S) \in 0..88
    <2> DEFINE f == [p \in inside |-> 8 * (p[1] - 1) + p[2] - 1]
    <2>1. \A p \in inside : p[1] \in 1..11 /\ p[2] \in 1..8 /\ p = <<p[1], p[2]>>
        OBVIOUS
    <2>2. f \in [inside -> 0..(88 - 1)]
        BY <2>1
    <2>3. ASSUME NEW p \in inside, NEW q \in inside, f[p] = f[q] PROVE p = q
        <3>1. 8 * (p[1] - 1) + p[2] - 1 = 8 * (q[1] - 1) + q[2] - 1
            BY <2>3
        <3>2. p[1] = q[1] /\ p[2] = q[2]
            BY <2>1, <3>1
        <3> QED BY <2>1, <3>2
    <2> HIDE DEF f
    <2>4. IsFiniteSet(inside) /\ Cardinality(inside) \in 0..88
        BY <2>2, <2>3, CountedInto
    <2> HIDE DEF inside
    <2>5. ASSUME NEW S, S \subseteq inside PROVE Cardinality(S) \in 0..88
        <3>1. IsFiniteSet(S) /\ Cardinality(S) <= Cardinality(inside)
            BY <2>4, <2>5, FS_Subset
        <3>2. Cardinality(S) \in Nat
            BY <3>1, FS_CardinalityType
        <3> QED BY <2>4, <3>1, <3>2
    <2> QED BY <2>5
<1>2. \A S : S \subseteq marks => Cardinality(S) \in 0..54
    <2> DEFINE f == [p \in marks |-> (9 * p[1] + p[2]) \div 2]
    <2>1. \A p \in marks : p[1] \in 0..11 /\ p[2] \in 0..8 /\ p = <<p[1], p[2]>> /\ (p[1] + p[2]) % 2 = 0
        OBVIOUS
    <2>2. f \in [marks -> 0..(54 - 1)]
        BY <2>1
    <2>3. ASSUME NEW p \in marks, NEW q \in marks, f[p] = f[q] PROVE p = q
        <3>1. (9 * p[1] + p[2]) \div 2 = (9 * q[1] + q[2]) \div 2
            BY <2>3
        <3>2. 9 * p[1] + p[2] = 9 * q[1] + q[2]
            BY <2>1, <3>1
        <3>3. p[1] = q[1] /\ p[2] = q[2]
            BY <2>1, <3>2
        <3> QED BY <2>1, <3>3
    <2> HIDE DEF f
    <2>4. IsFiniteSet(marks) /\ Cardinality(marks) \in 0..54
        BY <2>2, <2>3, CountedInto
    <2> HIDE DEF marks
    <2>5. ASSUME NEW S, S \subseteq marks PROVE Cardinality(S) \in 0..54
        <3>1. IsFiniteSet(S) /\ Cardinality(S) <= Cardinality(marks)
            BY <2>4, <2>5, FS_Subset
        <3>2. Cardinality(S) \in Nat
            BY <3>1, FS_CardinalityType
        <3> QED BY <2>4, <3>1, <3>2
    <2> QED BY <2>5
<1>3. BoardReadout \in (0..88) \X (0..54)
    <2>1. Cardinality(CornersFound) \in 0..88
        <3>1. CornersFound \subseteq inside
            BY DEF CornersFound
        <3> HIDE DEF inside
        <3> QED BY <1>1, <3>1
    <2>2. Cardinality({m \in (0..11) \X (0..8) : MarkerInView(m[1], m[2])}) \in 0..54
        <3>1. {m \in (0..11) \X (0..8) : MarkerInView(m[1], m[2])} \subseteq marks
            BY DEF MarkerInView
        <3> HIDE DEF marks
        <3> QED BY <1>2, <3>1
    <2> DEFINE corners == Cardinality(CornersFound)
               markers == IF bdType = "chess" THEN 0
                          ELSE Cardinality({m \in (0..11) \X (0..8) : MarkerInView(m[1], m[2])})
    <2>3. 0 \in 0..54
        OBVIOUS
    <2>4. corners \in 0..88 /\ markers \in 0..54
        BY <2>1, <2>2, <2>3, Zenon
    <2>5. BoardReadout = <<corners, markers>>
        BY DEF BoardReadout
    <2> HIDE DEF corners, markers
    <2> QED BY <2>4, <2>5
<1>4. BoardReadout' \in (0..88) \X (0..54)
    <2>1. Cardinality(CornersFound') \in 0..88
        <3>1. CornersFound' \subseteq inside
            BY DEF CornersFound
        <3> HIDE DEF inside
        <3> QED BY <1>1, <3>1
    <2>2. Cardinality({m \in (0..11) \X (0..8) : MarkerInView(m[1], m[2])'}) \in 0..54
        <3>1. {m \in (0..11) \X (0..8) : MarkerInView(m[1], m[2])'} \subseteq marks
            BY DEF MarkerInView
        <3> HIDE DEF marks
        <3> QED BY <1>2, <3>1
    <2> DEFINE corners == Cardinality(CornersFound')
               markers == IF bdType' = "chess" THEN 0
                          ELSE Cardinality({m \in (0..11) \X (0..8) : MarkerInView(m[1], m[2])'})
    <2>3. 0 \in 0..54
        OBVIOUS
    <2>4. corners \in 0..88 /\ markers \in 0..54
        BY <2>1, <2>2, <2>3, Zenon
    <2>5. BoardReadout' = <<corners, markers>>
        BY DEF BoardReadout
    <2> HIDE DEF corners, markers
    <2> QED BY <2>4, <2>5
<1>5. BoardInit => BoardTypeOK
    BY <1>3, CalibrationAssumption, Zenon DEF BoardInit, BoardTypeOK
<1>6. ASSUME BoardTypeOK, [BoardNext]_boardVars PROVE BoardTypeOK'
    <2> DEFINE Fits == /\ bdType' \in {"charuco", "chess"} /\ bdSlide' \in BoardSlides
                       /\ bdGrab' \in BoardSlides \union {NotGrabbed}
    <2>1. Fits
        BY <1>6, Zenon DEF BoardTypeOK, BoardNext, PickBoard, SlideBoard, GrabBoard, DragBoard, DropBoard,
                           boardVars
    <2> QED BY <1>4, <2>1, Zenon DEF BoardTypeOK
<1> QED BY <1>5, <1>6

\* The frame shown and the pictures that came are of the real frames (ch/12-pose.js).
LEMMA FrameTypes ==
    /\ FrameInit => FrameTypeOK
    /\ FrameTypeOK /\ [FrameNext]_frameVars => FrameTypeOK'
<1>1. FrameInit => FrameTypeOK
    BY PoseAssumption DEF FrameInit, FrameTypeOK
<1>2. ASSUME FrameTypeOK, [FrameNext]_frameVars PROVE FrameTypeOK'
    <2> USE <1>2 DEF FrameTypeOK
    <2>1. ASSUME NEW f \in PosePictures, PickFrame(f) PROVE FrameTypeOK'
        BY <2>1 DEF PickFrame, DrawFrame
    <2>2. ASSUME NEW f \in PosePictures, FrameLoads(f) PROVE FrameTypeOK'
        BY <2>2 DEF FrameLoads, DrawFrame
    <2>3. CASE TagsCome
        BY <2>3 DEF TagsCome, DrawFrame
    <2>4. CASE UNCHANGED frameVars
        BY <2>4 DEF frameVars
    <2> QED BY <2>1, <2>2, <2>3, <2>4 DEF FrameNext
<1> QED BY <1>1, <1>2

\* The chain of transforms is laid out across or down, with at most three arrows
\* (ch/12-pose.js).
LEMMA ChainTypes ==
    /\ ChainInit => ChainTypeOK
    /\ ChainTypeOK /\ [ChainNext]_chainVars => ChainTypeOK'
<1>0. 0 \in 0..2
    OBVIOUS
<1>1. ChainInit => ChainTypeOK
    BY <1>0, Zenon DEF ChainInit, ChainTypeOK
<1>2. ASSUME ChainTypeOK, [ChainNext]_chainVars PROVE ChainTypeOK'
    <2>1. ASSUME NEW wide \in BOOLEAN, ChainResize(wide) PROVE ChainTypeOK'
        <3>1. (tcDot /\ (IF wide THEN "h" ELSE "v") = tcMode) \in BOOLEAN
            OBVIOUS
        <3> QED BY <1>2, <2>1, <3>1, Zenon DEF ChainTypeOK, ChainResize
    <2>2. ASSUME NEW i \in 0..2, ChainTick(i) PROVE ChainTypeOK'
        BY <1>2, <2>2, Zenon DEF ChainTypeOK, ChainTick
    <2>3. CASE UNCHANGED chainVars
        BY <1>2, <2>3, Zenon DEF ChainTypeOK, chainVars
    <2> QED BY <1>2, <2>1, <2>2, <2>3, Zenon DEF ChainNext
<1> QED BY <1>1, <1>2

\* What is solved of the scene, now and first, is from a state of the generator (ch/12-pose.js).
SceneBounds == SceneTypeOK /\ SceneInv

\* With it the scene's variables keep their types.
LEMMA SceneTypes ==
    /\ SceneInit => SceneBounds
    /\ SceneBounds /\ [SceneNext]_sceneVars => SceneBounds'
<1>1. PoseSeeds \in Nat \ {0} /\ 0 \in 0..PoseSeeds /\ 1 \in 0..PoseSeeds
    BY PoseAssumption
<1>2. \A c : SolvedAt(c) \in Solves
    BY <1>1 DEF SolvedAt, SolveScene, Solves
<1>3. SceneInv => psSpot \in PoseSpots /\ psTwo \in BOOLEAN /\ psSolve \in Solves
    BY <1>2 DEF SceneInv
<1>4. ASSUME SceneInit PROVE SceneBounds
    <2>1. SceneInv
        BY <1>4, SceneStart
    <2>2. psFirst \in [Scenes -> Solves \union {NoSolve}]
        BY <1>3, <1>4, <2>1, Zenon DEF SceneInit
    <2>3. psSeed \in 0..PoseSeeds /\ psChain \in BOOLEAN /\ psDrag \in BOOLEAN
        BY <1>1, <1>4, Zenon DEF SceneInit
    <2> QED BY <1>3, <2>1, <2>2, <2>3 DEF SceneBounds, SceneTypeOK
<1>5. ASSUME SceneBounds, [SceneNext]_sceneVars PROVE SceneBounds'
    <2>1. SceneInv'
        BY <1>5, SceneStep DEF SceneBounds
    <2>2. psSpot' \in PoseSpots /\ psTwo' \in BOOLEAN /\ psSolve' \in Solves
        BY <1>2, <2>1 DEF SceneInv
    <2>3. ASSUME NEW spot, NEW two, Update(spot, two)
          PROVE  psFirst' \in [Scenes -> Solves \union {NoSolve}] /\ psSeed' \in 0..PoseSeeds
        <3>1. SolveScene(spot, two, 0) \in Solves
            BY <1>1 DEF SolveScene, Solves
        <3>2. psFirst \in [Scenes -> Solves \union {NoSolve}]
            BY <1>5 DEF SceneBounds, SceneTypeOK
        <3>3. psSeed' = 1 /\ psFirst' = IF psFirst[<<spot, two>>] = NoSolve
                      THEN [psFirst EXCEPT ![<<spot, two>>] = SolveScene(spot, two, 0)] ELSE psFirst
            BY <2>3, Zenon DEF Update
        <3> QED BY <1>1, <3>1, <3>2, <3>3
    <2>4. /\ psFirst' \in [Scenes -> Solves \union {NoSolve}] /\ psSeed' \in 0..PoseSeeds
          /\ psChain' \in BOOLEAN /\ psDrag' \in BOOLEAN
        <3>0. /\ psFirst \in [Scenes -> Solves \union {NoSolve}] /\ psSeed \in 0..PoseSeeds
              /\ psChain \in BOOLEAN /\ psDrag \in BOOLEAN
            BY <1>5, Zenon DEF SceneBounds, SceneTypeOK
        <3>1. CASE GrabRobot \/ DropRobot \/ UNCHANGED sceneVars
            BY <3>0, <3>1, Zenon DEF GrabRobot, DropRobot, sceneVars
        <3>2. ASSUME NEW s \in PoseSpots, DragRobot(s) \/ SlideScene(s)
              PROVE  \E spot, two : Update(spot, two) /\ psChain' = psChain /\ psDrag' = psDrag
            BY <3>2, Zenon DEF DragRobot, SlideScene
        <3>3. ASSUME NEW two \in BOOLEAN, PickTagCount(two)
              PROVE  \E spot, tags : Update(spot, tags) /\ psChain' = psChain /\ psDrag' = psDrag
            BY <3>3, Zenon DEF PickTagCount
        <3>4. CASE TickChain
            <4>1. (~psChain) \in BOOLEAN
                BY <3>0
            <4> QED BY <2>3, <3>0, <3>4, <4>1, Zenon DEF TickChain
        <3>5. CASE OtherLabDraws
            <4>1. (psSeed + 1) % (PoseSeeds + 1) \in 0..PoseSeeds
                BY <1>1, <3>0
            <4> QED BY <3>0, <3>5, <4>1, Zenon DEF OtherLabDraws
        <3> QED BY <1>5, <2>3, <3>0, <3>1, <3>2, <3>3, <3>4, <3>5, Zenon DEF SceneNext
    <2> QED BY <2>1, <2>2, <2>4, Zenon DEF SceneBounds, SceneTypeOK
<1> QED BY <1>4, <1>5

\* A frame solved has two answers with their errors, and a verdict (ch/12-pose.js, frame and run).
LEMMA AmbTypes ==
    /\ AmbInit => AmbTypeOK
    /\ AmbTypeOK /\ [AmbNext]_ambVars => AmbTypeOK'
<1> DEFINE Pairs == [solve : SingleTags, at : AmbSettings]
<1>1. \A r : Verdict(r) \in {"reject", "passed, but flipped", "right"}
    BY Zenon DEF Verdict
<1>2. ASSUME AmbInit PROVE AmbTypeOK
    <2>1. PICK e \in AmbErrors : e \in Nat
        BY PoseAssumption
    <2>2. \E r \in SingleTags : ~r.same /\ BestIsA(r)
        <3> DEFINE r == [ea |-> e, eb |-> e, same |-> FALSE, near |-> FALSE]
        <3>1. r \in SingleTags /\ ~r.same /\ r.ea = e /\ r.eb = e
            BY DEF SingleTags
        <3> HIDE DEF r
        <3>2. BestIsA(r)
            BY <2>1, <3>1 DEF BestIsA
        <3> QED BY <3>1, <3>2
    <2>3. (CHOOSE r \in SingleTags : ~r.same /\ BestIsA(r)) \in SingleTags
        BY <2>2
    <2>4. abSet \in AmbSettings
        BY <1>2, PoseAssumption DEF AmbInit
    <2>5. abFrame \in Pairs
        BY <1>2, <2>3, <2>4, Zenon DEF AmbInit
    <2>6. 0 \in 0..AmbWaiting
        BY PoseAssumption
    <2> QED BY <1>1, <1>2, <2>4, <2>5, <2>6, Zenon DEF AmbInit, AmbTypeOK
<1>3. ASSUME AmbTypeOK, [AmbNext]_ambVars PROVE AmbTypeOK'
    <2>0. /\ abSet \in AmbSettings /\ abFrame \in Pairs /\ abStats \in AmbSettings \union {NoStats}
          /\ abBusy \in BOOLEAN /\ abRuns \in 0..AmbWaiting /\ abSays \in {"frame", "solving", "stats"}
          /\ AmbWaiting \in Nat
        BY <1>3, PoseAssumption, Zenon DEF AmbTypeOK
    <2>1. ASSUME NEW settings \in AmbSettings, NEW stats \in AmbSettings \union {NoStats},
                 NewFrame(settings, stats)
          PROVE  /\ abFrame' \in Pairs /\ abStats' \in AmbSettings \union {NoStats}
                 /\ abSays' \in {"frame", "solving", "stats"}
        <3>1. PICK solve \in SingleTags : abFrame' = [solve |-> solve, at |-> settings]
            BY <2>1, Zenon DEF NewFrame
        <3>2. abStats' = stats /\ abSays' \in {"frame", "stats"}
            BY <2>1, Zenon DEF NewFrame
        <3> QED BY <3>1, <3>2
    <2> DEFINE Fits == /\ abSet' \in AmbSettings /\ abFrame' \in Pairs
                       /\ abStats' \in AmbSettings \union {NoStats} /\ abBusy' \in BOOLEAN
                       /\ abRuns' \in 0..AmbWaiting /\ abSays' \in {"frame", "solving", "stats"}
    <2> HIDE DEF Pairs
    <2>2. ASSUME NEW s \in AmbSettings, SlideAmb(s) PROVE Fits
        BY <2>0, <2>1, <2>2, Zenon DEF SlideAmb
    <2>3. ASSUME NewNoise PROVE Fits
        BY <2>0, <2>1, <2>3, Zenon DEF NewNoise
    <2>4. ASSUME AskRun PROVE Fits
        <3>1. abRuns < AmbWaiting /\ abRuns' = abRuns + 1
            BY <2>4, Zenon DEF AskRun
        <3>2. abRuns' \in 0..AmbWaiting
            BY <2>0, <3>1
        <3> QED BY <2>0, <2>4, <3>2, Zenon DEF AskRun
    <2>5. ASSUME RunNow PROVE Fits
        <3>1. abRuns > 0 /\ abRuns' = abRuns - 1
            BY <2>5, Zenon DEF RunNow
        <3>2. abRuns' \in 0..AmbWaiting
            BY <2>0, <3>1
        <3> QED BY <2>0, <2>1, <2>5, <3>2, Zenon DEF RunNow
    <2>6. ASSUME UNCHANGED ambVars PROVE Fits
        BY <2>0, <2>6, Zenon DEF ambVars
    <2> HIDE DEF Fits
    <2>7. Fits
        BY <1>3, <2>2, <2>3, <2>4, <2>5, <2>6, Zenon DEF AmbNext
    <2>8. Verdict(abFrame.solve)' \in {"reject", "passed, but flipped", "right"}
        BY Zenon DEF Verdict
    <2> QED BY <2>7, <2>8, Zenon DEF Fits, Pairs, AmbTypeOK
<1> QED BY <1>2, <1>3

\* The tags solved by are of those switched on (ch/12-pose.js, compute).
LEMMA MultiTypes ==
    /\ MultiInit => MultiTypeOK
    /\ MultiTypeOK /\ [MultiNext]_multiVars => MultiTypeOK'
<1> DEFINE Solved == [tags : SUBSET (1..4), by : {"no tags", "one tag", "multi-tag"},
                     flips : BOOLEAN, wrongTag : BOOLEAN]
<1>1. ASSUME NEW on \in SUBSET (1..4), NEW far, NEW bad \in BOOLEAN, NEW skip
      PROVE  Compute(on, far, bad, skip) \in Solved
    <2> DEFINE used == (IF skip THEN on \ {2} ELSE on) \intersect MultiSees[far]
               lone == Cardinality(used) = 1
               wrong == bad /\ 2 \in used
               way == IF used = {} THEN "no tags" ELSE IF Cardinality(used) = 1 THEN "one tag" ELSE "multi-tag"
    <2>1. used \in SUBSET (1..4)
        BY Zenon
    <2>2. lone \in BOOLEAN /\ wrong \in BOOLEAN
        OBVIOUS
    <2>3. way \in {"no tags", "one tag", "multi-tag"}
        BY Zenon
    <2>4. Compute(on, far, bad, skip) = [tags |-> used, by |-> way, flips |-> lone, wrongTag |-> wrong]
        BY DEF Compute
    <2> HIDE DEF used, lone, wrong, way
    <2>5. ASSUME NEW a \in SUBSET (1..4), NEW b \in {"no tags", "one tag", "multi-tag"},
                 NEW c \in BOOLEAN, NEW d \in BOOLEAN
          PROVE  [tags |-> a, by |-> b, flips |-> c, wrongTag |-> d] \in Solved
        OBVIOUS
    <2> HIDE DEF Solved
    <2> QED BY <2>1, <2>2, <2>3, <2>4, <2>5, Zenon
<1>2. ASSUME MultiInit PROVE MultiTypeOK
    <2>1. {2} \in SUBSET (1..4) /\ (CHOOSE d \in DOMAIN MultiSees : TRUE) \in DOMAIN MultiSees
        BY PoseAssumption
    <2> HIDE DEF Solved
    <2>2. mtSolved \in Solved
        BY <1>1, <1>2, <2>1, Zenon DEF MultiInit
    <2> QED BY <1>2, <2>1, <2>2, Zenon DEF MultiInit, MultiTypeOK, Solved
<1>3. ASSUME MultiTypeOK, [MultiNext]_multiVars PROVE MultiTypeOK'
    <2>0. mtOn \in SUBSET (1..4) /\ mtFar \in DOMAIN MultiSees /\ mtBad \in BOOLEAN /\ mtSkip \in BOOLEAN
          /\ mtSolved \in Solved
        BY <1>3, Zenon DEF MultiTypeOK
    <2> HIDE DEF Solved
    <2> DEFINE Fits == /\ mtOn' \in SUBSET (1..4) /\ mtFar' \in DOMAIN MultiSees /\ mtBad' \in BOOLEAN
                       /\ mtSkip' \in BOOLEAN /\ mtSolved' \in Solved
    <2>1. ASSUME NEW i \in 1..4, ToggleTag(i) PROVE Fits
        <3>1. mtOn' \in SUBSET (1..4)
            BY <2>0, <2>1, Zenon DEF ToggleTag
        <3> QED BY <1>1, <2>0, <2>1, <3>1, Zenon DEF ToggleTag
    <2>2. ASSUME NEW d \in DOMAIN MultiSees, SlideMulti(d) PROVE Fits
        BY <1>1, <2>0, <2>2, Zenon DEF SlideMulti
    <2>3. ASSUME NEW bad \in BOOLEAN, NEW skip \in BOOLEAN, TickMulti(bad, skip) PROVE Fits
        BY <1>1, <2>0, <2>3, Zenon DEF TickMulti
    <2>4. ASSUME UNCHANGED multiVars PROVE Fits
        BY <2>0, <2>4, Zenon DEF multiVars
    <2> HIDE DEF Fits
    <2>5. Fits
        BY <1>3, <2>1, <2>2, <2>3, <2>4, Zenon DEF MultiNext
    <2> QED BY <2>5, Zenon DEF Fits, Solved, MultiTypeOK
<1> QED BY <1>2, <1>3

\* The camera is exploded as far as the slider goes (ch/03-camera.js).
LEMMA ExplodeTypes ==
    /\ ExplodeInit => ExplodeTypeOK
    /\ ExplodeTypeOK /\ [ExplodeNext]_explodeVars => ExplodeTypeOK'
<1>0. 6 \in 0..10 /\ 0 \in 0..10 /\ 10 \in 0..10
    OBVIOUS
<1>1. ExplodeInit => ExplodeTypeOK
    BY <1>0, Zenon DEF ExplodeInit, ExplodeTypeOK
<1>2. ASSUME ExplodeTypeOK, [ExplodeNext]_explodeVars PROVE ExplodeTypeOK'
    <2>0. /\ cmPlaying \subseteq CamVideos /\ cmModel \in {"loading", "ok", "failed"}
          /\ cmExplode \in 0..10 /\ cmAt \in 0..10 /\ cmRotate \in BOOLEAN
        BY <1>2, Zenon DEF ExplodeTypeOK
    <2>1. ASSUME NEW v \in CamVideos, PlayVideo(v) PROVE ExplodeTypeOK'
        BY <2>0, <2>1, Zenon DEF PlayVideo, ExplodeTypeOK
    <2>2. ASSUME NEW result \in {"ok", "failed"}, CameraComes(result) PROVE ExplodeTypeOK'
        <3>1. {0, 6, 10} \subseteq 0..10
            BY <1>0
        <3> QED BY <2>0, <2>2, <3>1, Zenon DEF CameraComes, ExplodeTypeOK
    <2>3. ASSUME NEW v \in {0, 6, 10}, SlideExplode(v) PROVE ExplodeTypeOK'
        <3>1. v \in 0..10
            BY <1>0
        <3> QED BY <2>0, <2>3, <3>1, Zenon DEF SlideExplode, ExplodeTypeOK
    <2>4. CASE ExplodeTick
        <3>1. cmAt' \in IF cmAt < cmExplode THEN cmAt + 1..cmExplode ELSE cmExplode..cmAt - 1
            BY <2>4, Zenon DEF ExplodeTick
        <3>2. cmAt' \in 0..10
            BY <2>0, <3>1
        <3> QED BY <2>0, <2>4, <3>2, Zenon DEF ExplodeTick, ExplodeTypeOK
    <2>5. CASE GrabCamera \/ UNCHANGED explodeVars
        BY <2>0, <2>5, Zenon DEF GrabCamera, explodeVars, ExplodeTypeOK
    <2> QED BY <1>2, <2>1, <2>2, <2>3, <2>4, <2>5, Zenon DEF ExplodeNext
<1> QED BY <1>1, <1>2

\* The labs on one frame show what their sliders were moved to (ch/03-camera.js).
LEMMA PhotoTypes ==
    /\ PhotoInit => PhotoTypeOK
    /\ PhotoTypeOK /\ [PhotoNext]_photoVars => PhotoTypeOK'
<1> USE DEF PhotoTypeOK
<1>1. ASSUME PhotoInit PROVE PhotoTypeOK
    <2>1. (CHOOSE q \in CamSliders : TRUE) \in CamSliders /\ 0 \in LightSteps
        BY CameraAssumption
    <2> QED BY <1>1, <2>1, Zenon DEF PhotoInit
<1>2. ASSUME PhotoTypeOK, [PhotoNext]_photoVars PROVE PhotoTypeOK'
    <2> USE <1>2 DEF jpegVars
    <2>1. ASSUME NEW result \in {"ok", "failed"}, NEW light \in CamSliders, PhotoComes(result, light)
          PROVE  PhotoTypeOK'
        BY <2>1, Zenon DEF PhotoComes
    <2>2. ASSUME NEW s \in LightSteps, ScrollLight(s) PROVE PhotoTypeOK'
        BY <2>2, Zenon DEF ScrollLight
    <2>3. CASE LightTick
        BY <2>3, Zenon DEF LightTick
    <2>4. ASSUME NEW light \in CamSliders, SlideLight(light) PROVE PhotoTypeOK'
        BY <2>4, Zenon DEF SlideLight
    <2>5. ASSUME NEW q \in CamSliders, SlideQuality(q) PROVE PhotoTypeOK'
        BY <2>5, Zenon DEF SlideQuality
    <2>6. CASE JpegFrame
        BY <2>6, Zenon DEF JpegFrame
    <2>7. CASE UNCHANGED photoVars
        BY <2>7, Zenon DEF photoVars
    <2> QED BY <2>1, <2>2, <2>3, <2>4, <2>5, <2>6, <2>7, Zenon DEF PhotoNext
<1> QED BY <1>1, <1>2

\* Every data square has a bit of its own (site.js, tagBitIndex).
LEMMA SquaresHaveBits == \A s \in Squares : TagBitIndex(s) \in Bits
<1>1. /\ SquareOf(0) = 0 /\ SquareOf(1) = 1 /\ SquareOf(2) = 2 /\ SquareOf(3) = 3
      /\ SquareOf(4) = 4 /\ SquareOf(5) = 7 /\ SquareOf(6) = 8 /\ SquareOf(7) = 9
      /\ SquareOf(8) = 14
    BY DEF SquareOf, BitX, BitY
<1>2. /\ SquareOf(9) = 5 /\ SquareOf(10) = 11 /\ SquareOf(11) = 17 /\ SquareOf(12) = 23
      /\ SquareOf(13) = 29 /\ SquareOf(14) = 10 /\ SquareOf(15) = 16 /\ SquareOf(16) = 22
      /\ SquareOf(17) = 15
    BY DEF SquareOf, BitX, BitY
<1>3. /\ SquareOf(18) = 35 /\ SquareOf(19) = 34 /\ SquareOf(20) = 33 /\ SquareOf(21) = 32
      /\ SquareOf(22) = 31 /\ SquareOf(23) = 28 /\ SquareOf(24) = 27 /\ SquareOf(25) = 26
      /\ SquareOf(26) = 21
    BY DEF SquareOf, BitX, BitY
<1>4. /\ SquareOf(27) = 30 /\ SquareOf(28) = 24 /\ SquareOf(29) = 18 /\ SquareOf(30) = 12
      /\ SquareOf(31) = 6 /\ SquareOf(32) = 25 /\ SquareOf(33) = 19 /\ SquareOf(34) = 13
      /\ SquareOf(35) = 20
    BY DEF SquareOf, BitX, BitY
<1>5. ASSUME NEW s \in Squares PROVE \E i \in Bits : SquareOf(i) = s
    <2>1. CASE s \in {0, 1, 2, 3, 4, 7, 8, 9, 14}
        BY <1>1, <2>1 DEF Bits
    <2>2. CASE s \in {5, 11, 17, 23, 29, 10, 16, 22, 15}
        BY <1>2, <2>2 DEF Bits
    <2>3. CASE s \in {35, 34, 33, 32, 31, 28, 27, 26, 21}
        BY <1>3, <2>3 DEF Bits
    <2>4. CASE s \in {30, 24, 18, 12, 6, 25, 19, 13, 20}
        BY <1>4, <2>4 DEF Bits
    <2> QED BY <2>1, <2>2, <2>3, <2>4 DEF Squares
<1> QED BY <1>5 DEF TagBitIndex

\* A tag, a square and a bit of its code (ch/02-apriltags.js).
LEMMA AnatomyTypes ==
    /\ AnatomyInit => AnatomyTypeOK
    /\ AnatomyTypeOK /\ [AnatomyNext]_anatomyVars => AnatomyTypeOK'
<1>1. AnatomyInit => AnatomyTypeOK
    BY DEF AnatomyInit, AnatomyTypeOK, Ids
<1>2. ASSUME AnatomyTypeOK, [AnatomyNext]_anatomyVars PROVE AnatomyTypeOK'
    <2> USE <1>2 DEF AnatomyTypeOK
    <2>1. ASSUME NEW id \in Ids, DrawTag(id) PROVE AnatomyTypeOK'
        BY <2>1 DEF DrawTag
    <2>2. CASE PrevTag \/ FollowingTag \/ ShowNumbers
        <3>1. anId \in Ids /\ (anId - 1 + 48) % 48 \in Ids /\ (anId + 1 + 48) % 48 \in Ids
            BY DEF Ids
        <3> QED BY <2>1, <2>2, <3>1 DEF PrevTag, FollowingTag, ShowNumbers
    <2>3. ASSUME NEW v \in {-1, 0, 48}, TypeTag(v) PROVE AnatomyTypeOK'
        <3>1. (IF v < 0 THEN 0 ELSE IF v > 47 THEN 47 ELSE v) \in Ids
            BY DEF Ids
        <3> QED BY <2>1, <2>3, <3>1 DEF TypeTag
    <2>4. ASSUME NEW s \in Squares, PointSquare(s) PROVE AnatomyTypeOK'
        BY <2>4, SquaresHaveBits DEF PointSquare
    <2>5. ASSUME NEW s \in HamCells, PointSquare(s) PROVE AnatomyTypeOK'
        BY <2>4, <2>5, ApriltagsAssumption DEF Squares
    <2>6. ASSUME NEW i, PointBit(i) PROVE AnatomyTypeOK'
        BY <2>4, <2>6 DEF PointBit
    <2>7. CASE PointBorder \/ UNCHANGED anatomyVars
        BY <2>7 DEF PointBorder, anatomyVars
    <2> QED BY <2>2, <2>3, <2>5, <2>6, <2>7 DEF AnatomyNext
<1> QED BY <1>1, <1>2

\* No tick of the shutters is counted past two frames of the slowest rate (ch/03-camera.js).
ShutterBounds == ShutterInv /\ ShutterTypeOK

\* With it the shutter lab's variables keep their types.
LEMMA ShutterTypes ==
    /\ ShutterInit => ShutterBounds
    /\ ShutterBounds /\ [ShutterNext]_shutterVars => ShutterBounds'
<1>1. OldRow \in Nat /\ \A p \in ShutterPeriods : p \in Nat \ {0} /\ p <= OldRow
    <2> DEFINE slowest == CHOOSE p \in ShutterPeriods : \A q \in ShutterPeriods : p >= q
    <2>1. slowest \in ShutterPeriods /\ \A q \in ShutterPeriods : slowest >= q
        BY CameraAssumption
    <2>2. OldRow = 2 * slowest
        BY DEF OldRow
    <2> HIDE DEF slowest
    <2>3. slowest \in Nat \ {0} /\ \A p \in ShutterPeriods : p \in Nat \ {0}
        BY <2>1, CameraAssumption
    <2> QED BY <2>1, <2>2, <2>3
<1>2. 0 \in 0..OldRow
    BY <1>1
<1>3. ASSUME ShutterInit PROVE ShutterBounds
    <2>1. ShutterInv
        BY <1>3, ShutterStart
    <2>2. rsAge \in [ShutterLines -> 0..OldRow] /\ rsFrameT = 0 /\ rsGlobal = 0 /\ rsBright = {}
        BY <1>2, <1>3, Zenon DEF ShutterInit
    <2>3. rsMode = "tag" /\ rsNew \in BOOLEAN /\ rsFigures = <<rsMode, rsPeriod>>
        BY <1>3, Zenon DEF ShutterInit
    <2>4. rsPeriod \in ShutterPeriods /\ rsRow \in 0..ShutterRows
        BY <2>1 DEF ShutterInv
    <2>5. rsFigures \in {"tag", "prop"} \X ShutterPeriods
        BY <2>3, <2>4
    <2> QED BY <1>2, <2>1, <2>2, <2>3, <2>4, <2>5, Zenon DEF ShutterBounds, ShutterTypeOK
<1>4. ASSUME ShutterBounds, [ShutterNext]_shutterVars PROVE ShutterBounds'
    <2>1. ShutterInv'
        BY <1>4, ShutterStep DEF ShutterBounds
    <2>2. rsPeriod' \in ShutterPeriods /\ rsRow' \in 0..ShutterRows
        BY <2>1 DEF ShutterInv
    <2>3. /\ rsMode \in {"tag", "prop"} /\ rsPeriod \in ShutterPeriods /\ rsFrameT \in 0..OldRow
          /\ rsRow \in 0..ShutterRows /\ rsNew \in BOOLEAN /\ rsGlobal \in 0..OldRow
          /\ rsAge \in [ShutterLines -> 0..OldRow] /\ rsBright \subseteq ShutterLines
          /\ rsFigures \in {"tag", "prop"} \X ShutterPeriods
        BY <1>4, Zenon DEF ShutterBounds, ShutterTypeOK
    <2>4. rsBright' \subseteq ShutterLines
        BY <2>1 DEF ShutterInv, ShutterSweeps
    <2> DEFINE Fits == /\ rsMode' \in {"tag", "prop"} /\ rsFrameT' \in 0..OldRow /\ rsNew' \in BOOLEAN
                       /\ rsGlobal' \in 0..OldRow /\ rsAge' \in [ShutterLines -> 0..OldRow]
                       /\ rsFigures' \in {"tag", "prop"} \X ShutterPeriods
    <2>5. ASSUME NEW mode \in {"tag", "prop"}, PickScene(mode) PROVE Fits
        <3>1. <<mode, rsPeriod>> \in {"tag", "prop"} \X ShutterPeriods
            BY <2>3
        <3> QED BY <1>2, <2>3, <2>5, <3>1, Zenon DEF PickScene
    <2>6. ASSUME NEW period \in ShutterPeriods, SlideRate(period) PROVE Fits
        <3>1. <<rsMode, period>> \in {"tag", "prop"} \X ShutterPeriods
            BY <2>3
        <3> QED BY <2>3, <2>6, <3>1, Zenon DEF SlideRate
    <2>7. ASSUME NEW dt \in 1..ShutterMaxDt, ShutterTick(dt) PROVE Fits
        <3> DEFINE t == rsFrameT + dt
                   begins == FrameBegins(t)
                   row == RowRead(IF t >= rsPeriod THEN t % rsPeriod ELSE t)
                   last == IF begins THEN 0 ELSE rsRow
                   older == [r \in ShutterLines |-> IF rsAge[r] + dt > OldRow THEN OldRow ELSE rsAge[r] + dt]
        <3>1. dt \in Nat /\ rsPeriod \in Nat \ {0} /\ rsPeriod <= OldRow /\ OldRow \in Nat
            BY <1>1, <2>3, CameraAssumption
        <3>2. rsFrameT' \in 0..OldRow
            <4>1. rsFrameT' = IF t >= rsPeriod THEN t % rsPeriod ELSE t
                BY <2>7, Zenon DEF ShutterTick
            <4>2. t \in Nat
                BY <2>3, <3>1
            <4> HIDE DEF t
            <4> QED BY <3>1, <4>1, <4>2
        <3>3. rsGlobal' \in 0..OldRow
            <4>1. rsGlobal' = IF begins THEN 0 ELSE IF rsGlobal + dt > OldRow THEN OldRow ELSE rsGlobal + dt
                BY <2>7, Zenon DEF ShutterTick
            <4> HIDE DEF begins
            <4> QED BY <2>3, <3>1, <4>1
        <3>4. \A r \in ShutterLines : older[r] \in 0..OldRow
            BY <2>3, <3>1
        <3>5. rsAge' = [r \in ShutterLines |-> IF r \in last..row - 1 THEN 0 ELSE older[r]]
            BY <2>7, Zenon DEF ShutterTick
        <3> HIDE DEF older, last, row
        <3>6. rsAge' \in [ShutterLines -> 0..OldRow]
            BY <1>2, <3>4, <3>5, Zenon
        <3>7. rsNew' \in BOOLEAN /\ rsMode' = rsMode /\ rsFigures' = rsFigures
            BY <2>7, Zenon DEF ShutterTick
        <3> QED BY <2>3, <3>2, <3>3, <3>6, <3>7, Zenon
    <2>8. ASSUME UNCHANGED shutterVars PROVE Fits
        BY <2>3, <2>8, Zenon DEF shutterVars
    <2> HIDE DEF Fits
    <2>9. Fits
        BY <1>4, <2>5, <2>6, <2>7, <2>8, Zenon DEF ShutterNext
    <2> QED BY <2>1, <2>2, <2>4, <2>9, Zenon DEF Fits, ShutterBounds, ShutterTypeOK
<1> QED BY <1>3, <1>4

\* A cell's score is one to thirteen, and no percentage is above a hundred (ch/03-camera.js).
LEMMA FocusTypes ==
    /\ FocusInit => FocusTypeOK
    /\ FocusTypeOK /\ [FocusNext]_focusVars => FocusTypeOK'
<1> USE DEF Columns
<1>1. ASSUME NEW lens \in 0..100, NEW tilt \in BOOLEAN, NEW col \in Columns PROVE Sharp(lens, tilt, col) \in 1..13
    <2> DEFINE away == lens - (62 + (IF tilt THEN (col - 1) * 14 ELSE 0))
    <2>1. away \in -76..52
        BY DEF Columns
    <2>2. Sharp(lens, tilt, col) = 13 - ((IF away < 0 THEN -away ELSE away) * 16 + 50) \div 100
        BY DEF Sharp
    <2> HIDE DEF away
    <2> QED BY <2>1, <2>2
<1>2. ASSUME NEW s \in 1..13, NEW b \in 1..13, s <= b PROVE (100 * s + b \div 2) \div b \in 0..100
    <2>1. CASE b \in 1..4
        BY <1>2, <2>1
    <2>2. CASE b \in 5..8
        BY <1>2, <2>2
    <2>3. CASE b \in 9..13
        BY <1>2, <2>3
    <2> QED BY <2>1, <2>2, <2>3
<1>3. \A lens \in FocusLenses : lens \in 0..100
    BY CameraAssumption
<1>4. ASSUME FocusInit PROVE FocusTypeOK
    <2>1. \A c \in Columns : (100 * Sharp(25, FALSE, c) + 6) \div 13 \in 0..100
        <3> TAKE c \in Columns
        <3>1. 25 \in 0..100 /\ FALSE \in BOOLEAN
            OBVIOUS
        <3>2. Sharp(25, FALSE, c) \in 1..13
            BY <1>1, <3>1, Zenon
        <3>3. ASSUME NEW s \in 1..13 PROVE (100 * s + 6) \div 13 \in 0..100
            OBVIOUS
        <3> QED BY <3>2, <3>3, Zenon
    <2>2. 25 \in FocusLenses /\ 13 \in 1..13
        BY CameraAssumption
    <2> QED BY <1>4, <2>1, <2>2, Zenon DEF FocusInit, FocusTypeOK
<1>5. ASSUME NEW lens \in FocusLenses, NEW tilt \in BOOLEAN, NEW best \in [Columns -> 0..13],
             FocusDrawn(lens, tilt, best)
      PROVE  FocusTypeOK'
    <2> DEFINE score == [c \in Columns |-> Sharp(lens, tilt, c)]
               raised == [c \in Columns |-> IF score[c] > best[c] THEN score[c] ELSE best[c]]
    <2>1. \A c \in Columns : score[c] \in 1..13
        BY <1>1, <1>3
    <2>2. \A c \in Columns : raised[c] \in 1..13 /\ score[c] <= raised[c]
        <3> HIDE DEF score
        <3> QED BY <2>1
    <2>3. fcLens' = lens /\ fcTilt' = tilt /\ fcBest' = raised
          /\ fcPercent' = [c \in Columns |-> (100 * score[c] + raised[c] \div 2) \div raised[c]]
        BY <1>5, Zenon DEF FocusDrawn
    <2>4. raised = [c \in Columns |-> raised[c]]
        OBVIOUS
    <2> HIDE DEF score, raised
    <2>5. \A c \in Columns : (100 * score[c] + raised[c] \div 2) \div raised[c] \in 0..100
        BY <1>2, <2>1, <2>2
    <2> HIDE DEF Columns
    <2>6. fcBest' \in [Columns -> 1..13] /\ fcPercent' \in [Columns -> 0..100]
        BY <2>2, <2>3, <2>4, <2>5, Zenon
    <2> QED BY <2>3, <2>6, Zenon DEF FocusTypeOK
<1>6. ASSUME FocusTypeOK, [FocusNext]_focusVars PROVE FocusTypeOK'
    <2>1. fcLens \in FocusLenses /\ fcTilt \in BOOLEAN /\ fcBest \in [Columns -> 1..13]
        BY <1>6, Zenon DEF FocusTypeOK
    <2>2. fcBest \in [Columns -> 0..13] /\ [c \in Columns |-> 0] \in [Columns -> 0..13]
        BY <2>1
    <2> HIDE DEF Columns
    <2>3. ASSUME NEW lens \in FocusLenses, TurnLens(lens) PROVE FocusTypeOK'
        BY <1>5, <2>1, <2>2, <2>3, Zenon DEF TurnLens
    <2>4. CASE ResetBest
        BY <1>5, <2>1, <2>2, <2>4, Zenon DEF ResetBest
    <2>5. ASSUME NEW tilt \in BOOLEAN, TiltLens(tilt) PROVE FocusTypeOK'
        BY <1>5, <2>1, <2>2, <2>5, Zenon DEF TiltLens
    <2>6. CASE UNCHANGED focusVars
        BY <1>6, <2>6, Zenon DEF focusVars, FocusTypeOK
    <2> QED BY <1>6, <2>3, <2>4, <2>5, <2>6, Zenon DEF FocusNext
<1> QED BY <1>4, <1>6

\* The fades that wait are to stages of the story, and none has ended (ch/02-apriltags.js).
FadeBounds == FadeInv /\ FadeTypeOK

\* With it the story's variables keep their types.
LEMMA FadeTypes ==
    /\ FadeInit => FadeBounds
    /\ FadeBounds /\ [FadeNext]_fadeVars => FadeBounds'
<1> DEFINE Waiting == [stage : StoryStages, age : 0..FadeFrames]
<1>0. 0 \in StoryStages /\ FadeFrames \in Nat \ {0}
    BY ApriltagsAssumption
<1>1. FadeInit => FadeBounds
    BY <1>0, FadeStart DEF FadeInit, FadeBounds, FadeTypeOK
<1>2. ASSUME FadeBounds, [FadeNext]_fadeVars PROVE FadeBounds'
    <2>1. FadeInv'
        BY <1>2, FadeStep DEF FadeBounds
    <2>2. /\ sdReduced \in BOOLEAN /\ sdShown \in StoryStages /\ sdDrawn \in StoryStages
          /\ sdFades \in Seq(Waiting) /\ \A i \in DOMAIN sdFades : sdFades[i].age < FadeFrames
        BY <1>2 DEF FadeBounds, FadeTypeOK
    <2>3. DOMAIN sdFades = 1..Len(sdFades) /\ Len(sdFades) \in Nat
        BY <2>2, LenProperties
    <2>4. ASSUME NEW s \in StoryStages, StoryGo(s) PROVE FadeTypeOK'
        <3>1. CASE sdReduced
            BY <2>2, <2>4, <3>1 DEF StoryGo, FadeTypeOK
        <3>2. CASE ~sdReduced
            <4> DEFINE fade == [stage |-> s, age |-> 0]
            <4>1. fade \in Waiting /\ fade.age = 0
                BY <1>0
            <4>2. sdFades' = Append(sdFades, fade) /\ sdShown' = s /\ sdReduced' = sdReduced /\ sdDrawn' = sdDrawn
                BY <2>4, <3>2 DEF StoryGo
            <4> HIDE DEF fade, Waiting
            <4>3. sdFades' \in Seq(Waiting) /\ DOMAIN sdFades' = 1..(Len(sdFades) + 1)
                  /\ \A i \in 1..(Len(sdFades) + 1) :
                         sdFades'[i] = IF i = Len(sdFades) + 1 THEN fade ELSE sdFades[i]
                BY <2>2, <2>3, <4>1, <4>2, AppendProperties
            <4>4. \A i \in DOMAIN sdFades' : sdFades'[i].age < FadeFrames
                BY <1>0, <2>2, <2>3, <4>1, <4>3
            <4> QED BY <2>2, <4>2, <4>3, <4>4, Zenon DEF FadeTypeOK, Waiting
        <3> QED BY <3>1, <3>2
    <2>5. CASE FadeFrame
        <3> DEFINE older == [i \in DOMAIN sdFades |-> [sdFades[i] EXCEPT !.age = @ + 1]]
                   young == [stage : {sdShown}, age : 0..(FadeFrames - 1)]
        <3>1. sdFades' = Only(older, young) /\ sdDrawn' = sdFades[Len(sdFades)].stage
              /\ sdShown' = sdShown /\ sdReduced' = sdReduced /\ sdFades /= <<>>
            BY <2>5 DEF FadeFrame
        <3>2. \A i \in 1..Len(sdFades) : sdFades[i] \in Waiting /\ sdFades[i].age < FadeFrames
            BY <2>2, <2>3, ElementOfSeq
        <3>3. older \in [1..Len(sdFades) -> Waiting]
            BY <1>0, <2>3, <3>2
        <3>4. older \in Seq(Waiting)
            <4> HIDE DEF older, Waiting
            <4> QED BY <2>3, <3>3, SeqDef
        <3>5. Len(sdFades) \in 1..Len(sdFades)
            BY <2>2, <2>3, <3>1, EmptySeq
        <3>6. sdDrawn' \in StoryStages
            BY <3>1, <3>2, <3>5
        <3> HIDE DEF older
        <3>7. sdFades' \in Seq(Waiting) /\ ItemsOf(sdFades') \subseteq young
            <4> HIDE DEF young, Waiting
            <4> QED BY <3>1, <3>4, OnlyLeaves
        <3>8. DOMAIN sdFades' = 1..Len(sdFades')
            BY <3>7, LenProperties
        <3>9. \A i \in DOMAIN sdFades' : sdFades'[i] \in young
            BY <3>7, <3>8 DEF ItemsOf
        <3>10. \A i \in DOMAIN sdFades' : sdFades'[i].age < FadeFrames
            BY <1>0, <3>9
        <3>11. sdReduced' \in BOOLEAN /\ sdShown' \in StoryStages
            BY <2>2, <3>1, Zenon
        <3> HIDE DEF young
        <3> QED BY <2>1, <3>6, <3>7, <3>10, <3>11, Zenon DEF FadeBounds, FadeTypeOK
    <2>6. CASE UNCHANGED fadeVars
        <3>1. sdReduced' = sdReduced /\ sdShown' = sdShown /\ sdDrawn' = sdDrawn /\ sdFades' = sdFades
            BY <2>6, Zenon DEF fadeVars
        <3> QED BY <2>1, <2>2, <3>1, Zenon DEF FadeBounds, FadeTypeOK
    <2> QED BY <1>2, <2>1, <2>4, <2>5, <2>6, Zenon DEF FadeNext, FadeBounds
<1> QED BY <1>1, <1>2

\* Every label is one of the model's, and every node lit or moved is one of its nodes
\* (ch/05-jetson.js).
LEMMA KitTypes ==
    /\ KitInit => KitTypeOK
    /\ KitTypeOK /\ [KitNext]_kitVars => KitTypeOK'
<1> DEFINE PartsPicked == KitPicks \cup {NoPick}
<1>1. \A h \in Hots : HotNodes[h] \subseteq Nodes
    BY DEF Nodes
<1>2. \A ex : MovedBy(ex) \subseteq Nodes
    <2>1. {"heatsink", "fan", "module", "ssd", "wifi", "antennas", "base"} \subseteq Hots
        BY DEF Hots, HotNodes
    <2>2. /\ HotNodes["heatsink"] = {"heatsink"} /\ HotNodes["fan"] = {"fan"}
          /\ HotNodes["module"] = {"module", "module_screws"} /\ HotNodes["ssd"] = {"ssd"}
          /\ HotNodes["wifi"] = {"wifi", "m2_key_e"} /\ HotNodes["antennas"] = {"antennas"}
          /\ HotNodes["base"] = {"base", "standoffs"}
        BY DEF HotNodes
    <2>3. {"heatsink", "fan", "module", "module_screws", "ssd", "wifi", "antennas", "base", "standoffs"}
          \subseteq Nodes
        BY <1>1, <2>1, <2>2, Zenon
    <2> QED BY <2>3 DEF MovedBy
<1>3. ASSUME NEW step \in KitSteps
      PROVE  \A i \in DOMAIN KitStep[step + 1].hl : KitStep[step + 1].hl[i] \in Hots
    <2>1. step \in 0..9
        BY JetsonAssumption
    <2>2. CASE step \in 0..4
        BY <2>2 DEF KitStep, Hots, HotNodes
    <2>3. CASE step = 5
        BY <2>3 DEF KitStep, Hots, HotNodes
    <2>4. CASE step \in 6..7
        BY <2>4 DEF KitStep, Hots, HotNodes
    <2>5. CASE step \in 8..9
        BY <2>5 DEF KitStep, Hots, HotNodes
    <2> QED BY <2>1, <2>2, <2>3, <2>4, <2>5
<1>4. ASSUME NEW step \in KitSteps, KitStep[step + 1].hl /= <<>>
      PROVE  1 \in DOMAIN KitStep[step + 1].hl
    <2>1. step \in 0..9
        BY JetsonAssumption
    <2>2. CASE step \in 0..4
        BY <1>4, <2>2 DEF KitStep
    <2>3. CASE step \in 5..9
        BY <1>4, <2>3 DEF KitStep
    <2> QED BY <2>1, <2>2, <2>3
<1> HIDE DEF Hots, Nodes, HotNodes, KitStep
<1>5. ASSUME NEW step \in KitSteps, NEW pick \in PartsPicked
      PROVE  HighlightedIn(step, pick) \subseteq Hots /\ InfoOf(step, pick) \in Hots \cup {"kit", "ports"}
    <2>1. HighlightedIn(step, pick) \subseteq Hots
        BY <1>3, KitAssumption, Zenon DEF HighlightedIn, PartsPicked
    <2>2. InfoOf(step, pick) \in Hots \cup {"kit", "ports"}
        BY <1>3, <1>4, KitAssumption, Zenon DEF InfoOf, PartsPicked
    <2> QED BY <2>1, <2>2
<1>6. ASSUME NEW step \in KitSteps, NEW free \in BOOLEAN, NEW pick \in PartsPicked, NEW ready \in BOOLEAN,
             ApplyStep(step, free, pick, ready), jxCamera \in KitSteps
      PROVE  /\ jxLit' \subseteq Nodes /\ jxMoved' \subseteq Nodes
             /\ jxLabels' \subseteq Hots /\ jxOn' \subseteq jxLabels'
             /\ jxInfo' \in Hots \cup {"kit", "ports"} /\ jxCamera' \in KitSteps
    <2> DEFINE hl == HighlightedIn(step, pick)
    <2>1. hl \subseteq Hots
        BY <1>5
    <2>2. UNION {HotNodes[h] : h \in hl} \subseteq Nodes
        BY <1>1, <2>1, Zenon
    <2>3. jxLit' \subseteq Nodes /\ jxMoved' \subseteq Nodes
        BY <1>2, <1>6, <2>2, Zenon DEF ApplyStep
    <2>4. jxLabels' \subseteq Hots /\ jxOn' \subseteq jxLabels'
        BY <1>6, <2>1, Zenon DEF ApplyStep
    <2>5. jxInfo' \in Hots \cup {"kit", "ports"} /\ jxCamera' \in KitSteps
        BY <1>5, <1>6, Zenon DEF ApplyStep
    <2> QED BY <2>3, <2>4, <2>5
<1>7. KitInit => KitTypeOK
    <2>1. 0 \in KitSteps /\ {} \subseteq Nodes
        BY JetsonAssumption
    <2> QED BY <2>1, Zenon DEF KitInit, KitTypeOK
<1>8. ASSUME KitTypeOK, [KitNext]_kitVars PROVE KitTypeOK'
    <2>1. /\ jxStep \in KitSteps /\ jxFree \in BOOLEAN /\ jxPick \in PartsPicked
          /\ jxReady \in {"loading", "ready", "failed", NoModel} /\ jxCamera \in KitSteps
          /\ jxLit \subseteq Nodes /\ jxMoved \subseteq Nodes
          /\ jxLabels \subseteq Hots /\ jxOn \subseteq jxLabels
          /\ jxInfo \in Hots \cup {"kit", "ports"}
        BY <1>8, Zenon DEF KitTypeOK
    <2>2. NoPick \in PartsPicked /\ (~jxFree) \in BOOLEAN /\ TRUE \in BOOLEAN /\ (jxReady = "ready") \in BOOLEAN
        OBVIOUS
    <2>3. ASSUME NEW i \in KitSteps, ScrollKit(i) PROVE KitTypeOK'
        <3>1. /\ jxStep' = i /\ jxPick' = (IF jxFree THEN jxPick ELSE NoPick)
              /\ jxFree' = jxFree /\ jxReady' = jxReady
            BY <2>3, Zenon DEF ScrollKit
        <3>2. jxPick' \in PartsPicked
            BY <2>1, <2>2, <3>1, Zenon
        <3>3. CASE jxReady = "ready"
            <4>1. ApplyStep(i, jxFree, jxPick', TRUE)
                BY <2>3, <3>3, Zenon DEF ScrollKit
            <4>2. /\ jxLit' \subseteq Nodes /\ jxMoved' \subseteq Nodes
                  /\ jxLabels' \subseteq Hots /\ jxOn' \subseteq jxLabels'
                  /\ jxInfo' \in Hots \cup {"kit", "ports"} /\ jxCamera' \in KitSteps
                BY <1>6, <2>1, <2>2, <3>2, <4>1, Zenon
            <4> QED BY <2>1, <3>1, <3>2, <4>2, Zenon DEF KitTypeOK, PartsPicked
        <3>4. CASE jxReady /= "ready"
            <4>1. /\ jxInfo' = InfoOf(i, jxPick') /\ jxLit' = jxLit /\ jxMoved' = jxMoved
                  /\ jxLabels' = jxLabels /\ jxOn' = jxOn /\ jxCamera' = jxCamera
                BY <2>3, <3>4, Zenon DEF ScrollKit
            <4>2. jxInfo' \in Hots \cup {"kit", "ports"}
                BY <1>5, <3>2, <4>1, Zenon
            <4> QED BY <2>1, <3>1, <3>2, <4>1, <4>2, Zenon DEF KitTypeOK, PartsPicked
        <3> QED BY <3>3, <3>4, Zenon
    <2>4. CASE ExploreButton
        <3>1. /\ jxFree' = ~jxFree /\ jxPick' = (IF jxFree THEN NoPick ELSE jxPick)
              /\ jxStep' = jxStep /\ jxReady' = jxReady
              /\ ApplyStep(jxStep, ~jxFree, jxPick', jxReady = "ready")
            BY <2>4, Zenon DEF ExploreButton
        <3>2. jxPick' \in PartsPicked /\ jxFree' \in BOOLEAN
            BY <2>1, <2>2, <3>1, Zenon
        <3>3. /\ jxLit' \subseteq Nodes /\ jxMoved' \subseteq Nodes
              /\ jxLabels' \subseteq Hots /\ jxOn' \subseteq jxLabels'
              /\ jxInfo' \in Hots \cup {"kit", "ports"} /\ jxCamera' \in KitSteps
            BY <1>6, <2>1, <2>2, <3>1, <3>2, Zenon
        <3> QED BY <2>1, <3>1, <3>2, <3>3, Zenon DEF KitTypeOK, PartsPicked
    <2>5. ASSUME NEW h \in KitPicks, PickPart(h) PROVE KitTypeOK'
        <3>1. /\ jxPick' = (IF h = jxPick THEN NoPick ELSE h)
              /\ jxFree' = jxFree /\ jxStep' = jxStep /\ jxReady' = jxReady
              /\ ApplyStep(jxStep, jxFree, jxPick', jxReady = "ready")
            BY <2>5, Zenon DEF PickPart
        <3>2. jxPick' \in PartsPicked
            BY <2>2, <3>1, Zenon
        <3>3. /\ jxLit' \subseteq Nodes /\ jxMoved' \subseteq Nodes
              /\ jxLabels' \subseteq Hots /\ jxOn' \subseteq jxLabels'
              /\ jxInfo' \in Hots \cup {"kit", "ports"} /\ jxCamera' \in KitSteps
            BY <1>6, <2>1, <2>2, <3>1, <3>2, Zenon
        <3> QED BY <2>1, <3>1, <3>2, <3>3, Zenon DEF KitTypeOK, PartsPicked
    <2>6. CASE ModelLoads
        <3>1. /\ jxReady' = "ready" /\ jxFree' = jxFree /\ jxStep' = jxStep /\ jxPick' = jxPick
              /\ ApplyStep(jxStep, jxFree, jxPick, TRUE)
            BY <2>6, Zenon DEF ModelLoads
        <3>2. /\ jxLit' \subseteq Nodes /\ jxMoved' \subseteq Nodes
              /\ jxLabels' \subseteq Hots /\ jxOn' \subseteq jxLabels'
              /\ jxInfo' \in Hots \cup {"kit", "ports"} /\ jxCamera' \in KitSteps
            BY <1>6, <2>1, <2>2, <3>1, Zenon
        <3> QED BY <2>1, <3>1, <3>2, Zenon DEF KitTypeOK, PartsPicked
    <2>7. CASE ModelFails
        BY <2>1, <2>7, Zenon DEF ModelFails, KitTypeOK
    <2>8. CASE UNCHANGED kitVars
        BY <2>1, <2>8, Zenon DEF kitVars, KitTypeOK
    <2> QED BY <1>8, <2>3, <2>4, <2>5, <2>6, <2>7, <2>8, Zenon DEF KitNext
<1> QED BY <1>7, <1>8

\* A block painted is one of the diagram's (ch/05-jetson.js).
LEMMA BusTypes ==
    /\ BusInit => BusTypeOK
    /\ BusTypeOK /\ [BusNext]_busVars => BusTypeOK'
<1>1. /\ \A l \in BlockLinks : l \subseteq BusBlocks
      /\ {"lpddr", "memctrl"} \subseteq BusBlocks
    BY DEF BlockLinks, BusBlocks, BlockGroups
<1> HIDE DEF BlockLinks, BusBlocks, BlockGroups
<1>2. ASSUME NEW group, NEW sel \in BusPicks \cup {NoPick} PROVE Painted(group, sel) \subseteq BusBlocks
    <2>1. UNION {l \in BlockLinks : sel \in l} \subseteq BusBlocks
        BY <1>1, Zenon
    <2>2. CASE sel = NoPick
        BY <2>2, Zenon DEF Painted
    <2>3. CASE sel \in BusBlocks
        <3> DEFINE linked == UNION {l \in BlockLinks : sel \in l}
                   mem == IF sel \in {"cpu", "gpu", "jpg1", "jpg2", "dec", "memctrl"}
                          THEN {"lpddr", "memctrl"} ELSE {}
                   all == IF sel = "lpddr" THEN {b \in BusBlocks : "mem" \in BlockGroups[b]} ELSE {}
        <3>1. mem \subseteq BusBlocks /\ all \subseteq BusBlocks
            BY <1>1, Zenon
        <3>2. CASE sel = NoPick
            BY <3>2, Zenon DEF Painted
        <3>3. CASE sel /= NoPick
            <4>1. Painted(group, sel) = ((({sel} \cup linked) \cup mem) \cup all)
                BY <3>3, Zenon DEF Painted
            <4> HIDE DEF linked, mem, all
            <4> QED BY <2>1, <2>3, <3>1, <4>1 DEF linked
        <3> QED BY <3>2, <3>3, Zenon
    <2> QED BY <2>2, <2>3, BusAssumption
<1>3. BusInit => BusTypeOK
    BY <1>2, Zenon DEF BusInit, BusTypeOK
<1>4. ASSUME BusTypeOK, [BusNext]_busVars PROVE BusTypeOK'
    BY <1>2, <1>4, Zenon DEF BusTypeOK, BusNext, busVars, PickBlock, PickBusGroup, BusResize
<1> QED BY <1>3, <1>4

\* The comparison's cores are drawn in no more frames than they need (ch/05-jetson.js).
LEMMA CoreTypes ==
    /\ CoreInit => CoreTypeOK
    /\ CoreTypeOK /\ [CoreNext]_coreVars => CoreTypeOK'
<1>1. CoreInit => CoreTypeOK
    BY JetsonAssumption DEF CoreInit, CoreTypeOK
<1>2. ASSUME CoreTypeOK, [CoreNext]_coreVars PROVE CoreTypeOK'
    <2>1. CASE CoreTick
        BY <1>2, <2>1, JetsonAssumption DEF CoreTick, CoreTypeOK
    <2>2. ASSUME NEW b \in CoreBoards, CoreFit(b) PROVE CoreTypeOK'
        BY <1>2, <2>2 DEF CoreFit, CoreTypeOK
    <2>3. CASE UNCHANGED coreVars
        BY <1>2, <2>3 DEF coreVars, CoreTypeOK
    <2> QED BY <1>2, <2>1, <2>2, <2>3 DEF CoreNext
<1> QED BY <1>1, <1>2

\* The playhead stays between the line's ends, and the card tells of a row of it
\* (ch/14-latency.js, the timeline).
LEMMA TimelineTypes ==
    /\ TimelineInit => TimelineTypeOK
    /\ TimelineTypeOK /\ [TimelineNext]_timelineVars => TimelineTypeOK'
<1>1. Len(RowEnds) \in Nat \ {0} /\ \A i \in Rows : RowEnds[i] \in Nat \ {0}
    BY LatencyAssumption, LenProperties, EmptySeq, ElementOfSeq DEF Rows
<1>2. LineEnd \in Nat /\ LineEnd = RowEnds[Len(RowEnds)] + 1 /\ Len(RowEnds) \in Rows
    BY <1>1 DEF LineEnd, Rows
<1>3. \A i \in Rows : RowEnds[i] <= RowEnds[Len(RowEnds)]
    <2> TAKE i \in Rows
    <2>1. CASE i = Len(RowEnds)
        BY <1>1, <1>2, <2>1
    <2>2. CASE i < Len(RowEnds)
        BY <1>1, <1>2, <2>2, LatencyAssumption DEF Rows
    <2> QED BY <1>1, <2>1, <2>2 DEF Rows
<1>4. \A t : RowAt(t) \in {0} \cup Rows
    BY Zenon DEF RowAt
<1> HIDE DEF Rows
<1>5. ASSUME TimelineInit PROVE TimelineTypeOK
    <2>1. 0 \in 0..LineEnd
        BY <1>2
    <2> QED BY <1>5, <2>1, Zenon DEF TimelineInit, TimelineTypeOK
<1>6. ASSUME TimelineTypeOK, [TimelineNext]_timelineVars PROVE TimelineTypeOK'
    <2>1. /\ tlTime \in 0..LineEnd /\ tlPlaying \in BOOLEAN
          /\ tlButton \in {"Play", "Pause", "Replay"}
          /\ tlCard \in {0} \cup Rows /\ tlLast \in {0} \cup Rows /\ tlSel \in {0} \cup Rows
        BY <1>6, Zenon DEF TimelineTypeOK
    <2>2. 0 \in 0..LineEnd /\ LineEnd \in 0..LineEnd
        BY <1>2
    <2>3. CASE LinePlayButton
        <3>1. tlTime' \in 0..LineEnd
            BY <2>1, <2>2, <2>3, Zenon DEF LinePlayButton
        <3>2. tlPlaying' \in BOOLEAN /\ tlButton' \in {"Play", "Pause", "Replay"}
              /\ tlCard' = tlCard /\ tlLast' = tlLast /\ tlSel' = tlSel
            BY <2>1, <2>3, Zenon DEF LinePlayButton
        <3> QED BY <2>1, <3>1, <3>2, Zenon DEF TimelineTypeOK
    <2>4. ASSUME NEW i \in Rows, ClickRow(i) PROVE TimelineTypeOK'
        <3>1. RowEnds[i] - 1 \in 0..LineEnd
            BY <1>1, <1>2, <1>3
        <3>2. /\ tlTime' = RowEnds[i] - 1 /\ tlPlaying' = FALSE /\ tlButton' = "Play"
              /\ tlSel' = i /\ tlCard' = i /\ tlLast' = tlLast
            BY <2>4, Zenon DEF ClickRow
        <3> QED BY <2>1, <3>1, <3>2, Zenon DEF TimelineTypeOK
    <2>5. ASSUME NEW d \in 1..2, LineTick(d) PROVE TimelineTypeOK'
        <3> DEFINE t == IF tlPlaying THEN tlTime + d ELSE tlTime
                   over == tlPlaying /\ t >= LineEnd
                   row == RowAt(IF over THEN LineEnd ELSE t)
                   tell == tlPlaying /\ ~over /\ row /= tlLast /\ row /= 0
        <3>1. t \in Nat /\ (t >= LineEnd \/ t <= LineEnd) /\ (~tlPlaying => t = tlTime)
            BY <1>2, <2>1
        <3>2. ~over => t \in 0..LineEnd
            BY <1>2, <2>1, <3>1
        <3>3. tlTime' = (IF over THEN LineEnd ELSE t)
            BY <2>5, Zenon DEF LineTick
        <3>4. tlTime' \in 0..LineEnd
            BY <2>2, <3>2, <3>3, Zenon
        <3>5. row \in {0} \cup Rows
            BY <1>4, Zenon
        <3>6. tlCard' \in {0} \cup Rows /\ tlLast' \in {0} \cup Rows /\ tlSel' \in {0} \cup Rows
            <4>1. /\ tlCard' = (IF tell THEN row ELSE tlCard) /\ tlLast' = (IF tell THEN row ELSE tlLast)
                  /\ tlSel' = (IF tell THEN 0 ELSE tlSel)
                BY <2>5, Zenon DEF LineTick
            <4> HIDE DEF tell, row
            <4>2. 0 \in {0} \cup Rows
                OBVIOUS
            <4> QED BY <2>1, <3>5, <4>1, <4>2, Zenon
        <3>7. tlPlaying' = (tlPlaying /\ ~over) /\ tlButton' = (IF over THEN "Replay" ELSE tlButton)
            BY <2>5, Zenon DEF LineTick
        <3> HIDE DEF over, t, row, tell
        <3>8. tlPlaying' \in BOOLEAN /\ tlButton' \in {"Play", "Pause", "Replay"}
            BY <2>1, <3>7, Zenon
        <3> QED BY <3>4, <3>6, <3>8, Zenon DEF TimelineTypeOK
    <2>6. CASE UNCHANGED timelineVars
        BY <2>1, <2>6, Zenon DEF timelineVars, TimelineTypeOK
    <2> QED BY <1>6, <2>3, <2>4, <2>5, <2>6, Zenon DEF TimelineNext
<1> QED BY <1>5, <1>6

\* The headings kept are of times up to now, and the robot's way is known at every time up
\* to now (ch/14-latency.js, hist).
BotBounds == HeadInv /\ BotTypeOK

\* With it the robot's variables keep their types.
LEMMA BotTypes ==
    /\ BotInit => BotBounds
    /\ BotBounds /\ [BotNext]_botVars => BotBounds'
<1> DEFINE StampedHeads == [t : 0..BotMaxNow, h : Nat]
           Guesses == [at : -(BotKeep + 1)..BotMaxNow, h : Nat]
<1>1. BotKeep \in Nat /\ BotMaxNow \in Nat /\ \A l \in BotLate : l \in Nat /\ l <= BotKeep
    BY LatencyAssumption
<1>2. NoGuess \in Guesses
    BY <1>1 DEF NoGuess
<1>3. ASSUME BotInit PROVE BotTypeOK
    <2>1. 0 \in 0..BotMaxNow /\ 0 \in Nat
        BY <1>1
    <2>2. (CHOOSE w \in BotSpins : TRUE) \in BotSpins /\ (CHOOSE l \in BotLate : TRUE) \in BotLate
        BY LatencyAssumption, Zenon
    <2>3. [t \in 0..0 |-> 0] \in [0..0 -> Nat] /\ <<>> \in Seq(StampedHeads)
        BY EmptySeq
    <2> HIDE DEF StampedHeads, Guesses
    <2> QED BY <1>2, <1>3, <2>1, <2>2, <2>3, Zenon DEF BotInit, BotTypeOK, StampedHeads, Guesses
<1>4. ASSUME BotBounds, [BotNext]_botVars PROVE BotBounds'
    <2>1. HeadInv /\ HeadInv'
        BY <1>4, HeadStep DEF BotBounds
    <2>2. /\ btNow \in 0..BotMaxNow /\ btHead \in Nat
          /\ btSpin \in BotSpins /\ btLate \in BotLate /\ btMode \in {"ts", "now"}
          /\ btHist \in Seq(StampedHeads) /\ btTruth \in [0..btNow -> Nat] /\ btGuess \in Guesses
        BY <1>4, Zenon DEF BotBounds, BotTypeOK
    <2>3. ASSUME NEW d \in 1..BotMaxStep, BotTick(d) PROVE BotTypeOK'
        <3> DEFINE now == btNow + d
                   e == [t |-> now, h |-> btHead + btSpin * d]
                   more == Append(btHist, e)
        <3>1. d \in Nat \ {0} /\ btSpin \in Nat /\ btLate \in Nat
            BY <2>2, LatencyAssumption
        <3>2. /\ now <= BotMaxNow /\ btNow' = now /\ btHead' = btHead + btSpin * d
              /\ btHist' = KeptSamples(more, now)
              /\ btTruth' = [t \in 0..now |-> IF t <= btNow THEN btTruth[t]
                                              ELSE btHead + btSpin * (t - btNow)]
              /\ btGuess' = [at |-> now - btLate, h |-> Sample(btHist', now - btLate)]
              /\ btSpin' = btSpin /\ btLate' = btLate /\ btMode' = btMode
            BY <2>3, Zenon DEF BotTick
        <3>3. now \in 0..BotMaxNow /\ now \in Nat /\ e \in Headings /\ e.t = now
            <4>1. now \in 0..BotMaxNow /\ now \in Nat
                BY <1>1, <2>2, <3>1, <3>2
            <4>2. btHead + btSpin * d \in Nat
                <5>1. btHead \in Nat
                    BY <2>2
                <5> HIDE <2>2
                <5> QED BY <3>1, <5>1
            <4> HIDE DEF now
            <4> QED BY <4>1, <4>2 DEF Headings
        <3>4. btTruth' \in [0..now -> Nat]
            <4>1. ASSUME NEW t \in 0..now, ~(t <= btNow) PROVE btHead + btSpin * (t - btNow) \in Nat
                <5>1. btHead \in Nat /\ btNow \in Nat /\ t \in Nat /\ d \in Nat
                    BY <2>2, <3>1, <3>3
                <5>2. t - btNow \in Nat
                    BY <4>1, <5>1
                <5> HIDE <2>2
                <5>3. btSpin * (t - btNow) \in Nat
                    BY <3>1, <5>2
                <5> QED BY <5>1, <5>3
            <4>2. ASSUME NEW t \in 0..now, t <= btNow PROVE btTruth[t] \in Nat
                BY <2>2, <4>2
            <4> QED BY <3>2, <4>1, <4>2
        <3>5. btHist \in Seq(Headings)
            BY <2>1 DEF HeadInv
        <3> HIDE DEF e
        <3>6. more \in Seq(Headings) /\ more /= <<>> /\ more[Len(more)] = e
            <4>1. more \in Seq(Headings) /\ Len(more) = Len(btHist) + 1 /\ more[Len(btHist) + 1] = e
                BY <3>3, <3>5, AppendProperties
            <4>2. Len(btHist) \in Nat
                BY <3>5, LenProperties
            <4> HIDE DEF more
            <4> QED BY <4>1, <4>2, EmptySeq
        <3> HIDE DEF more, now
        <3>7. btHist' \in Seq(Headings) /\ Len(btHist') \in Nat \ {0}
            <4>1. PICK first \in 1..Len(more) : btHist' = SubSeq(more, first, Len(more))
                BY <3>2, <3>3, <3>6, KeptAreLast
            <4>2. Len(more) \in Nat
                BY <3>6, LenProperties
            <4>3. /\ first \in 1..(Len(more) + 1) /\ Len(more) \in (first - 1)..Len(more)
                  /\ \A i \in first..Len(more) : more[i] \in Headings
                BY <3>6, <4>2, ElementOfSeq
            <4>4. Len(btHist') = IF first <= Len(more) THEN Len(more) - first + 1 ELSE 0
                BY <4>1, <4>2, <4>3, SubSeqProperties
            <4>5. btHist' \in Seq(Headings)
                BY <2>1 DEF HeadInv
            <4> QED BY <4>2, <4>4, <4>5
        <3>8. /\ \A k \in 1..Len(btHist') : btHist'[k] \in Headings
              /\ Tracks(btHist', btTruth', now) /\ btHist' /= <<>>
              /\ btHist'[Len(btHist')].t = now
            <4>1. btHist' /= <<>>
                BY <3>7, EmptySeq
            <4>2. btHist'[Len(btHist')] = [t |-> now, h |-> btHead'] /\ Tracks(btHist', btTruth', now)
                BY <2>1, <3>2, <4>1, Zenon DEF HeadInv
            <4> QED BY <3>7, <4>1, <4>2, ElementOfSeq
        <3>9. btHist' \in Seq(StampedHeads)
            <4>1. \A k \in 1..Len(btHist') : btHist'[k] \in StampedHeads
                <5> TAKE k \in 1..Len(btHist')
                <5>1. btHist'[k] \in Headings /\ btHist'[k].t <= now
                    BY <3>8, Zenon DEF Tracks
                <5>2. \A x \in Headings : x.t \in Nat /\ x.h \in Nat /\ x = [t |-> x.t, h |-> x.h]
                    BY DEF Headings
                <5>3. ASSUME NEW x \in Headings, x.t <= now PROVE x \in StampedHeads
                    <6>1. x.t \in 0..BotMaxNow
                        BY <1>1, <3>3, <5>2, <5>3
                    <6> QED BY <5>2, <6>1
                <5> QED BY <5>1, <5>3, Zenon
            <4> HIDE DEF StampedHeads
            <4> QED BY <3>7, <4>1, SeqOfItems
        <3>10. Sample(btHist', now - btLate) \in Nat
            <4>0. 1 \in 1..Len(btHist')
                BY <3>7
            <4>1. btHist'[1].t \in Nat /\ btHist'[1].h \in Nat
                BY <3>8, <4>0 DEF Headings
            <4>2. CASE now - btLate <= btHist'[1].t
                BY <4>1, <4>2, Zenon DEF Sample
            <4>3. CASE ~(now - btLate <= btHist'[1].t)
                <5>1. /\ now - btLate \in Int /\ btHist'[1].t <= now - btLate /\ now - btLate <= now
                      /\ now - btLate \in 0..now
                    BY <3>1, <3>3, <4>1, <4>3
                <5>2. Sample(btHist', now - btLate) = btTruth'[now - btLate]
                    BY <3>3, <3>7, <3>8, <5>1, SampleIsTruth
                <5> QED BY <3>4, <5>1, <5>2
            <4> QED BY <4>2, <4>3
        <3>11. now - btLate \in -(BotKeep + 1)..BotMaxNow
            BY <1>1, <2>2, <3>1, <3>3
        <3>12. btGuess' \in Guesses
            <4>1. ASSUME NEW at \in -(BotKeep + 1)..BotMaxNow, NEW h \in Nat
                  PROVE  [at |-> at, h |-> h] \in Guesses
                OBVIOUS
            <4> HIDE DEF Guesses
            <4> QED BY <3>2, <3>10, <3>11, <4>1, Zenon
        <3>13. btHead' \in Nat
            <4>1. btHead \in Nat /\ btHead' = btHead + btSpin * d
                BY <2>2, <3>2, Zenon
            <4> HIDE <2>2
            <4> QED BY <3>1, <4>1
        <3> HIDE DEF StampedHeads, Guesses
        <3> QED BY <2>2, <3>2, <3>3, <3>4, <3>9, <3>12, <3>13, Zenon DEF BotTypeOK, StampedHeads, Guesses
    <2> HIDE DEF StampedHeads, Guesses
    <2>4. ASSUME NEW w \in BotSpins, NEW l \in BotLate, SlideBot(w, l) PROVE BotTypeOK'
        BY <2>2, <2>4, Zenon DEF SlideBot, BotTypeOK, StampedHeads, Guesses
    <2>5. ASSUME NEW m \in {"ts", "now"}, PickBotMode(m) PROVE BotTypeOK'
        BY <2>2, <2>5, Zenon DEF PickBotMode, BotTypeOK, StampedHeads, Guesses
    <2>6. ASSUME UNCHANGED botVars PROVE BotTypeOK'
        <3>1. /\ btNow' = btNow /\ btHead' = btHead /\ btSpin' = btSpin /\ btLate' = btLate
              /\ btMode' = btMode /\ btHist' = btHist /\ btTruth' = btTruth /\ btGuess' = btGuess
            BY <2>6, Zenon DEF botVars
        <3> QED BY <2>2, <3>1, Zenon DEF BotTypeOK, StampedHeads, Guesses
    <2> QED BY <1>4, <2>1, <2>3, <2>4, <2>5, <2>6, Zenon DEF BotNext, BotBounds
<1> QED BY <1>3, <1>4, HeadStart, Zenon DEF BotBounds

\* The captions are of the phase (ch/14-latency.js, the rewind).
LEMMA RewindTypes ==
    /\ RewindInit => RewindTypeOK
    /\ RewindTypeOK /\ [RewindNext]_rewindVars => RewindTypeOK'
BY DEF RewindInit, RewindTypeOK, RewindNext, RewindTick, rewindVars

\* A ping is shown in flight for no longer than it flies (ch/14-latency.js).
PingBounds == PingInv /\ PingTypeOK

\* With it the ping lab's variables keep their types.
LEMMA PingTypes ==
    /\ PingInit => PingBounds
    /\ PingBounds /\ [PingNext]_pingVars => PingBounds'
<1> DEFINE Says == [says : {"press", "in flight", "offset", "set"}, twice : Int]
<1>0. PingFrames \in Nat /\ \A u \in PingUneven : u \in Nat
    BY LatencyAssumption
<1>1. \A says \in {"press", "in flight", "offset", "set"}, twice \in Int : [says |-> says, twice |-> twice] \in Says
    OBVIOUS
<1>2. 0 \in 0..PingFrames /\ 0 \in Int
    BY <1>0
<1> HIDE DEF Says
<1>3. ASSUME PingInit PROVE PingBounds
    <2>1. PingInv
        BY <1>3, PingStart
    <2> QED BY <1>1, <1>2, <1>3, <2>1, Zenon DEF PingInit, PingInv, PingBounds, PingTypeOK, Says
<1>4. ASSUME PingBounds, [PingNext]_pingVars PROVE PingBounds'
    <2>1. PingInv'
        BY <1>4, PingStep DEF PingBounds
    <2>2. /\ pgPing \in [there : Int, back : Int, told : BOOLEAN]
          /\ pgAge \in 0..PingFrames /\ pgFirst \in BOOLEAN /\ pgSays \in Says
        BY <1>4, Zenon DEF PingBounds, PingTypeOK, Says
    <2> DEFINE Fits == pgAge' \in 0..PingFrames /\ pgFirst' \in BOOLEAN /\ pgSays' \in Says
    <2>3. ASSUME NEW a, NEW b, Send(a, b) PROVE pgAge' \in 0..PingFrames /\ pgSays' \in Says
        BY <1>1, <1>2, <2>3, Zenon DEF Send
    <2>4. ASSUME PingButton PROVE Fits
        BY <2>2, <2>3, <2>4, Zenon DEF PingButton
    <2>5. ASSUME FirstPing PROVE Fits
        BY <2>2, <2>3, <2>5, Zenon DEF FirstPing
    <2>6. ASSUME NEW u \in PingUneven, SlideUneven(u) PROVE Fits
        <3>1. u \in Int
            BY <1>0
        <3> QED BY <1>1, <2>2, <2>6, <3>1, Zenon DEF SlideUneven
    <2>7. ASSUME PingTick PROVE Fits
        <3>1. TwiceOffsetError(pgPing) \in Int
            BY <2>2 DEF TwiceOffsetError, Turnaround
        <3>2. pgAge' = (IF pgAge = PingFrames THEN pgAge ELSE pgAge + 1)
            BY <2>7, Zenon DEF PingTick
        <3>3. pgAge' \in 0..PingFrames
            BY <1>0, <2>2, <3>2
        <3>4. pgSays' \in Says /\ pgFirst' = pgFirst
            BY <1>1, <2>2, <2>7, <3>1, Zenon DEF PingTick
        <3> QED BY <2>2, <3>3, <3>4, Zenon
    <2>8. ASSUME UNCHANGED pingVars PROVE Fits
        BY <2>2, <2>8, Zenon DEF pingVars
    <2> HIDE DEF Fits
    <2>9. Fits
        BY <1>4, <2>4, <2>5, <2>6, <2>7, <2>8, Zenon DEF PingNext
    <2>10. PingTypeOK'
        BY <2>1, <2>9, Zenon DEF Fits, PingInv, PingTypeOK, Says
    <2> QED BY <2>1, <2>10, Zenon DEF PingBounds
<1> QED BY <1>3, <1>4

\* The settings are those of the sliders, and one picture is shown at most (ch/04-settings.js).
SettingsBounds == PresetInv /\ SettingsTypeOK

\* With it the settings' variables keep their types.
LEMMA SettingsTypes ==
    /\ SettingsInit => SettingsBounds
    /\ SettingsBounds /\ [SettingsNext]_settingsVars => SettingsBounds'
<1>1. \A key \in Sliders : \A x \in SliderValues(key) : x \in 0..200
    BY SlidersInRange
<1>2. ASSUME NEW settings \in Settings, NEW key \in Sliders, NEW x \in 0..200
      PROVE  [settings EXCEPT ![key] = x] \in Settings
    BY DEF Settings
<1>3. ASSUME NEW settings \in Settings, NEW p \in CameraPresets PROVE WithPreset(settings, p) \in Settings
    BY SlidersInRange DEF Settings, WithPreset
<1>4. ASSUME SettingsInit PROVE SettingsBounds
    <2>1. PresetInv
        BY <1>4, SlidersInRange DEF SettingsInit, PresetInv, PresetIsSet
    <2>2. Cardinality({}) <= 1
        BY FS_EmptySet
    <2>3. "ours" \in CameraPresets /\ Default \in Settings
        BY SlidersInRange DEF CameraPresets, PresetValues, Settings
    <2> QED BY <1>4, <2>1, <2>2, <2>3, Zenon DEF SettingsInit, SettingsBounds, SettingsTypeOK
<1>5. ASSUME SettingsBounds, [SettingsNext]_settingsVars PROVE SettingsBounds'
    <2>1. PresetInv'
        BY <1>5, PresetInvHolds DEF SettingsBounds
    <2>2. /\ stReady \in {"loading", "ready", "failed"}
          /\ stPick \in CameraPresets \union {"custom"} /\ stCustom \in BOOLEAN
          /\ stInputs \in Settings /\ stS \in Settings /\ stPend \in BOOLEAN
          /\ Cardinality(stView) <= 1 /\ \A shown \in stView : shown \in Settings
        BY <1>5, Zenon DEF SettingsBounds, SettingsTypeOK
    <2> HIDE DEF Settings
    <2>3. ASSUME NEW key \in Sliders, NEW x \in SliderValues(key), MoveUnbound(key, x) PROVE SettingsTypeOK'
        <3>1. [stInputs EXCEPT ![key] = x] \in Settings
            BY <1>1, <1>2, <2>2
        <3> QED BY <2>2, <2>3, <3>1, Zenon DEF MoveUnbound, SettingsTypeOK
    <2>4. ASSUME NEW key \in Sliders, NEW x \in SliderValues(key), DragSlider(key, x) PROVE SettingsTypeOK'
        <3>1. [stInputs EXCEPT ![key] = x] \in Settings /\ [stS EXCEPT ![key] = x] \in Settings
            BY <1>1, <1>2, <2>2
        <3> QED BY <2>2, <2>4, <3>1, Zenon DEF DragSlider, SettingsTypeOK
    <2>5. ASSUME NEW p \in CameraPresets, PickUnbound(p) PROVE SettingsTypeOK'
        BY <2>2, <2>5, Zenon DEF PickUnbound, SettingsTypeOK
    <2>6. ASSUME NEW p \in CameraPresets, ApplyPreset(p) PROVE SettingsTypeOK'
        BY <1>3, <2>2, <2>6, Zenon DEF ApplyPreset, SettingsTypeOK
    <2>7. ASSUME Bind \/ FailToLoad \/ ResizeHistogram PROVE SettingsTypeOK'
        BY <2>2, <2>7, Zenon DEF Bind, FailToLoad, ResizeHistogram, SettingsTypeOK
    <2>8. ASSUME RenderPicture PROVE SettingsTypeOK'
        <3>1. Cardinality({stS}) <= 1
            BY FS_Singleton
        <3> QED BY <2>2, <2>8, <3>1, Zenon DEF RenderPicture, SettingsTypeOK
    <2>9. ASSUME UNCHANGED settingsVars PROVE SettingsTypeOK'
        BY <2>2, <2>9, Zenon DEF settingsVars, SettingsTypeOK
    <2>10. SettingsTypeOK'
        BY <1>5, <2>3, <2>4, <2>5, <2>6, <2>7, <2>8, <2>9, Zenon DEF SettingsNext
    <2> QED BY <2>1, <2>10, Zenon DEF SettingsBounds
<1> QED BY <1>4, <1>5

\* The line's frames are counted, and the figures are for settings of the sliders (ch/08-cuda.js).
QueueBounds == LineInv /\ QueueTypeOK

\* With it the queue's variables keep their types.
LEMMA QueueTypes ==
    /\ QueueInit => QueueBounds
    /\ QueueBounds /\ [QueueNext]_queueVars => QueueBounds'
<1> DEFINE LineFrames == [piece : 0..GqPieces, inQ : BOOLEAN]
           Fits == /\ gqCams \in CamCounts /\ gqLoad \in GqLoads /\ gqTimer \in BOOLEAN
                   /\ gqMeasured = NoFigures \/ gqMeasured \in CamCounts \X GqLoads
<1>1. ASSUME LineInv, Fits PROVE QueueTypeOK
    <2>1. /\ Len(gqFrames) \in Nat /\ Len(gqFrames) <= GqMaxFrames /\ DOMAIN gqFrames = 1..Len(gqFrames)
          /\ \A f \in DOMAIN gqFrames : gqFrames[f] \in LineFrames
        <3>1. gqFrames \in Seq(LineFrames) /\ Len(gqFrames) <= GqMaxFrames
            BY <1>1, Zenon DEF LineInv
        <3> HIDE DEF LineFrames
        <3> QED BY <3>1, LenProperties, ElementOfSeq
    <2>2. \A k \in DOMAIN gqQueue : gqQueue[k] \in DOMAIN gqFrames
        BY <1>1, <2>1 DEF LineInv, ItemsOf
    <2>3. gqGpu \in 0..GqMaxFrames
        BY <1>1, <2>1, CudaAssumption DEF LineInv
    <2> HIDE DEF LineFrames
    <2> QED BY <1>1, <2>1, <2>2, <2>3, Zenon DEF QueueTypeOK, LineFrames
<1>2. ASSUME QueueInit PROVE QueueBounds
    <2>1. LineInv
        BY <1>2, LineStart
    <2>2. Fits
        BY <1>2 DEF QueueInit, CamCounts
    <2> QED BY <1>1, <2>1, <2>2, Zenon DEF QueueBounds
<1>3. ASSUME QueueBounds, [QueueNext]_queueVars PROVE QueueBounds'
    <2>1. LineInv'
        BY <1>3, LineStep DEF QueueBounds
    <2>2. Fits
        BY <1>3, Zenon DEF QueueBounds, QueueTypeOK
    <2>3. ASSUME NEW n \in CamCounts, PickCams(n) PROVE Fits'
        BY <2>2, <2>3, Zenon DEF PickCams, Restart
    <2>4. ASSUME NEW g \in GqLoads, PickLoad(g) PROVE Fits'
        BY <2>2, <2>4, Zenon DEF PickLoad, Restart
    <2>5. ASSUME Measure PROVE Fits'
        <3>1. <<gqCams, gqLoad>> \in CamCounts \X GqLoads
            BY <2>2
        <3> QED BY <2>2, <2>5, <3>1, Zenon DEF Measure
    <2>6. ASSUME NEW n, NEW ready, NEW ends, SimTick(n, ready, ends) PROVE Fits'
        BY <2>2, <2>6, Zenon DEF SimTick
    <2>7. ASSUME UNCHANGED queueVars PROVE Fits'
        BY <2>2, <2>7, Zenon DEF queueVars
    <2>8. LineInv' /\ Fits' => QueueTypeOK'
        <3> SUFFICES ASSUME LineInv', Fits' PROVE QueueTypeOK'
            OBVIOUS
        <3>1. /\ Len(gqFrames') \in Nat /\ Len(gqFrames') <= GqMaxFrames /\ DOMAIN gqFrames' = 1..Len(gqFrames')
              /\ \A f \in DOMAIN gqFrames' : gqFrames'[f] \in LineFrames
            <4>1. gqFrames' \in Seq(LineFrames) /\ Len(gqFrames') <= GqMaxFrames
                BY Zenon DEF LineInv
            <4> HIDE DEF LineFrames
            <4> QED BY <4>1, LenProperties, ElementOfSeq
        <3>2. \A k \in DOMAIN gqQueue' : gqQueue'[k] \in DOMAIN gqFrames'
            BY <3>1 DEF LineInv, ItemsOf
        <3>3. gqGpu' \in 0..GqMaxFrames
            BY <3>1, CudaAssumption DEF LineInv
        <3> HIDE DEF LineFrames
        <3> QED BY <3>1, <3>2, <3>3, Zenon DEF QueueTypeOK, LineFrames
    <2> HIDE DEF Fits
    <2>9. Fits'
        BY <1>3, <2>3, <2>4, <2>5, <2>6, <2>7, Zenon DEF QueueNext
    <2> QED BY <2>1, <2>8, <2>9, Zenon DEF QueueBounds
<1> QED BY <1>2, <1>3

\* Title and caption are of stages of the story (ch/08-cuda.js).
LEMMA StageTypes ==
    /\ StageInit => StageTypeOK
    /\ StageTypeOK /\ [StageNext]_stageVars => StageTypeOK'
<1>1. StageInit => StageTypeOK
    BY CudaAssumption DEF StageInit, StageTypeOK
<1>2. ASSUME StageTypeOK, [StageNext]_stageVars PROVE StageTypeOK'
    BY <1>2, Zenon DEF StageTypeOK, StageNext, stageVars, ScrollStage, PictureLoads, SetStage
<1> QED BY <1>1, <1>2

\* No detector is made in a slot there is not (ch/08-cuda.js).
LEMMA SlotTypes ==
    /\ SlotInit => SlotTypeOK
    /\ SlotTypeOK /\ [SlotNext]_slotVars => SlotTypeOK'
<1>0. SlotCount \in Nat \ {0}
    BY CudaAssumption
<1>1. ASSUME SlotInit PROVE SlotTypeOK
    <2>1. 0 \in 0..(SlotCount + 1)
        BY <1>0
    <2> QED BY <1>1, <2>1, Zenon DEF SlotInit, SlotTypeOK
<1>2. ASSUME SlotTypeOK, [SlotNext]_slotVars PROVE SlotTypeOK'
    <2>1. /\ slFixed \in BOOLEAN /\ slBroke \in BOOLEAN /\ slUsed \subseteq Slots
          /\ slCur \in Slots \union {-2} /\ slCreated \in 0..(SlotCount + 1)
        BY <1>2, Zenon DEF SlotTypeOK
    <2>2. 0 \in 0..(SlotCount + 1) /\ 0 \in Slots
        BY <1>0 DEF Slots
    <2>3. ASSUME NEW fixed \in BOOLEAN, SlotClear(fixed) PROVE SlotTypeOK'
        BY <2>2, <2>3, Zenon DEF SlotClear, SlotTypeOK
    <2>4. ASSUME ChangePipeline PROVE SlotTypeOK'
        <3>1. CASE slBroke
            BY <2>1, <2>3, <2>4, <3>1, Zenon DEF ChangePipeline
        <3>2. CASE ~slBroke
            <4>1. slCreated' = (IF slCreated <= SlotCount THEN slCreated + 1 ELSE slCreated)
                BY <2>4, <3>2, Zenon DEF ChangePipeline
            <4>2. slCreated' \in 0..(SlotCount + 1)
                BY <1>0, <2>1, <4>1
            <4>3. Leaked \subseteq Slots
                BY <2>1, Zenon DEF Leaked
            <4>4. (slCreated < SlotCount) => slCreated \in Slots
                BY <1>0, <2>1 DEF Slots
            <4>5. CASE slFixed
                <5>1. slCur' = 0 /\ slUsed' = slUsed /\ slBroke' = slBroke /\ slFixed' = slFixed
                    BY <2>4, <3>2, <4>5, Zenon DEF ChangePipeline
                <5> QED BY <2>1, <2>2, <4>2, <5>1, Zenon DEF SlotTypeOK
            <4>6. CASE ~slFixed
                <5>1. /\ slUsed' = Leaked /\ slCur' = (IF slCreated < SlotCount THEN slCreated ELSE -2)
                      /\ slBroke' = (slCreated >= SlotCount) /\ slFixed' = slFixed
                    BY <2>4, <3>2, <4>6, Zenon DEF ChangePipeline
                <5>2. slBroke' \in BOOLEAN /\ slCur' \in Slots \union {-2}
                    <6>1. (slCreated >= SlotCount) \in BOOLEAN
                        OBVIOUS
                    <6> QED BY <4>4, <5>1, <6>1, Zenon
                <5> QED BY <2>1, <4>2, <4>3, <5>1, <5>2, Zenon DEF SlotTypeOK
            <4> QED BY <4>5, <4>6
        <3> QED BY <3>1, <3>2
    <2>5. CASE UNCHANGED slotVars
        BY <2>1, <2>5, Zenon DEF slotVars, SlotTypeOK
    <2> QED BY <1>2, <2>3, <2>4, <2>5, Zenon DEF SlotNext
<1> QED BY <1>1, <1>2

\* Where each part of a warp's plan begins, in steps (plan).
LEMMA PartsBegin ==
    ASSUME NEW plan, Len(plan) = 4 \/ Len(plan) = 6,
           plan[1].n = 1, plan[2].n = 1, plan[3].n = 3, plan[4].n = 1,
           Len(plan) = 6 => plan[5].n = 3 /\ plan[6].n = 1
    PROVE  /\ StepsOf(plan)[0] = 0 /\ StepsOf(plan)[1] = 1 /\ StepsOf(plan)[2] = 2
           /\ StepsOf(plan)[3] = 5 /\ StepsOf(plan)[4] = 6
           /\ Len(plan) = 6 => StepsOf(plan)[5] = 9 /\ StepsOf(plan)[6] = 10
<1> DEFINE next(h) == [k \in 0..Len(plan) |-> IF k = 0 THEN 0 ELSE h[k - 1] + plan[k].n]
           sum == CHOOSE h : h = next(h)
           ends == <<1, 2, 5, 6, 9, 10>>
           f == [k \in 0..Len(plan) |-> IF k = 0 THEN 0 ELSE ends[k]]
<1>1. f = next(f)
    <2>1. \A k \in 1..Len(plan) : ends[k] = f[k - 1] + plan[k].n
        <3> TAKE k \in 1..Len(plan)
        <3>1. k - 1 \in 0..Len(plan) /\ (k - 1 = 0 <=> k = 1)
            OBVIOUS
        <3>2. f[k - 1] = IF k = 1 THEN 0 ELSE ends[k - 1]
            BY <3>1
        <3>3. /\ ends[1] = 1 /\ ends[2] = 2 /\ ends[3] = 5 /\ ends[4] = 6
              /\ ends[5] = 9 /\ ends[6] = 10
            OBVIOUS
        <3> HIDE DEF f, ends
        <3>4. CASE k = 1 \/ k = 2 \/ k = 3 \/ k = 4
            BY <3>2, <3>3, <3>4
        <3>5. CASE Len(plan) = 6 /\ (k = 5 \/ k = 6)
            BY <3>2, <3>3, <3>5
        <3> QED BY <3>4, <3>5
    <2>2. \A k \in 0..Len(plan) : f[k] = IF k = 0 THEN 0 ELSE f[k - 1] + plan[k].n
        BY <2>1
    <2>3. f = [k \in 0..Len(plan) |-> f[k]]
        OBVIOUS
    <2> HIDE DEF f
    <2> QED BY <2>2, <2>3
<1>2. sum = next(sum)
    <2> HIDE DEF next, f
    <2> QED BY <1>1
<1>3. StepsOf(plan) = sum
    BY DEF StepsOf
<1> HIDE DEF sum
<1>4. sum[0] = 0
    BY <1>2
<1>5. ASSUME NEW k \in 1..Len(plan) PROVE sum[k] = sum[k - 1] + plan[k].n
    BY <1>2
<1> HIDE DEF next
<1>6. sum[1] = 1
    BY <1>4, <1>5
<1>7. sum[2] = 2
    BY <1>5, <1>6
<1>8. sum[3] = 5
    BY <1>5, <1>7
<1>9. sum[4] = 6
    BY <1>5, <1>8
<1>10. Len(plan) = 6 => sum[5] = 9
    BY <1>5, <1>9
<1>11. Len(plan) = 6 => sum[6] = 10
    BY <1>5, <1>10
<1> QED BY <1>3, <1>4, <1>6, <1>7, <1>8, <1>9, <1>10, <1>11

\* A warp's plan has four parts, or six where its threads part ways.
LEMMA PartsOfPlan ==
    ASSUME NEW bright, bright \subseteq Warp
    PROVE  LET plan == Plan(bright)
           IN  /\ Len(plan) = 4 \/ Len(plan) = 6
               /\ plan[1].n = 1 /\ plan[2].n = 1 /\ plan[3].n = 3 /\ plan[4].n = 1
               /\ Len(plan) = 6 => plan[5].n = 3 /\ plan[6].n = 1
<1>1. \A line, mask, n : Part(line, mask, n).n = n
    BY DEF Part
<1>2. Warp /= {}
    <2>1. 0 \in Warp
        BY CudaAssumption DEF Warp
    <2> QED BY <2>1
<1> DEFINE a == Part(0, Warp, 1)
           b == Part(1, Warp, 1)
           c == Part(2, bright, 3)
           d == Part(3, bright, 1)
           e == Part(5, Warp \ bright, 3)
           g == Part(6, Warp \ bright, 1)
<1>3. a.n = 1 /\ b.n = 1 /\ c.n = 3 /\ d.n = 1 /\ e.n = 3 /\ g.n = 1
    BY <1>1
<1>4. /\ Branch(bright, 2) = IF bright = {} THEN <<>> ELSE <<c, d>>
      /\ Branch(Warp \ bright, 5) = IF Warp \ bright = {} THEN <<>> ELSE <<e, g>>
    BY DEF Branch
<1>5. Plan(bright) = (<<a, b>> \o Branch(bright, 2)) \o Branch(Warp \ bright, 5)
    BY DEF Plan
<1> HIDE DEF a, b, c, d, e, g
<1>9. ASSUME NEW x, NEW y, Plan(bright) = (<<a, b>> \o x) \o y,
             x \in {<<>>, <<c, d>>}, y \in {<<>>, <<e, g>>}
      PROVE  LET plan == Plan(bright)
             IN  /\ Len(plan) = 2 + Len(x) + Len(y) /\ plan[1] = a /\ plan[2] = b
                 /\ x = <<c, d>> => plan[3] = c /\ plan[4] = d
                 /\ x = <<c, d>> /\ y = <<e, g>> => plan[5] = e /\ plan[6] = g
                 /\ x = <<>> /\ y = <<e, g>> => plan[3] = e /\ plan[4] = g
    <2> DEFINE S == {a, b, c, d, e, g}
               p == <<a, b>>
               px == p \o x
    <2>1. /\ p \in Seq(S) /\ Len(p) = 2 /\ p[1] = a /\ p[2] = b
          /\ <<c, d>> \in Seq(S) /\ Len(<<c, d>>) = 2 /\ <<c, d>>[1] = c /\ <<c, d>>[2] = d
          /\ <<e, g>> \in Seq(S) /\ Len(<<e, g>>) = 2 /\ <<e, g>>[1] = e /\ <<e, g>>[2] = g
          /\ <<>> \in Seq(S) /\ Len(<<>>) = 0
        OBVIOUS
    <2>2. x \in Seq(S) /\ y \in Seq(S)
        BY <1>9, <2>1
    <2>3. Len(x) \in {0, 2} /\ Len(y) \in {0, 2} /\ (x = <<>> => Len(x) = 0) /\ (y = <<>> => Len(y) = 0)
          /\ (x = <<c, d>> => Len(x) = 2 /\ x[1] = c /\ x[2] = d)
          /\ (y = <<e, g>> => Len(y) = 2 /\ y[1] = e /\ y[2] = g)
        BY <1>9, <2>1
    <2> HIDE DEF S, p
    <2>4. /\ px \in Seq(S) /\ Len(px) = 2 + Len(x)
          /\ \A i \in 1..(2 + Len(x)) : px[i] = IF i <= 2 THEN p[i] ELSE x[i - 2]
        <3>1. /\ px \in Seq(S) /\ Len(px) = Len(p) + Len(x)
              /\ \A i \in 1..Len(p) + Len(x) : px[i] = IF i <= Len(p) THEN p[i] ELSE x[i - Len(p)]
            BY <2>1, <2>2, ConcatProperties, Zenon
        <3>2. Len(p) = 2
            BY <2>1
        <3> HIDE DEF px
        <3> QED BY <3>1, <3>2
    <2>5. Plan(bright) = px \o y
        BY <1>9 DEF p
    <2> HIDE DEF px
    <2>6. /\ Len(Plan(bright)) = 2 + Len(x) + Len(y)
          /\ \A i \in 1..(2 + Len(x) + Len(y)) :
                 Plan(bright)[i] = IF i <= 2 + Len(x) THEN px[i] ELSE y[i - (2 + Len(x))]
        <3> DEFINE all == px \o y
        <3>1. /\ Len(all) = Len(px) + Len(y)
              /\ \A i \in 1..Len(px) + Len(y) : all[i] = IF i <= Len(px) THEN px[i] ELSE y[i - Len(px)]
            BY <2>2, <2>4, ConcatProperties, Zenon
        <3>2. Len(px) = 2 + Len(x) /\ Plan(bright) = all
            BY <2>4, <2>5
        <3> HIDE DEF all
        <3> QED BY <3>1, <3>2
    <2> HIDE <1>9
    <2>7. px[1] = a /\ px[2] = b /\ (x = <<c, d>> => px[3] = c /\ px[4] = d)
        BY <2>1, <2>3, <2>4
    <2> QED BY <2>3, <2>6, <2>7
<1>10. <<c, d>> /= <<>> /\ <<e, g>> /= <<>> /\ Len(<<>>) = 0 /\ Len(<<c, d>>) = 2 /\ Len(<<e, g>>) = 2
    OBVIOUS
<1>6. CASE bright = {}
    <2>1. Plan(bright) = (<<a, b>> \o <<>>) \o <<e, g>>
        BY <1>2, <1>4, <1>5, <1>6
    <2>2. /\ Len(Plan(bright)) = 2 + 0 + 2 /\ Plan(bright)[1] = a /\ Plan(bright)[2] = b
          /\ Plan(bright)[3] = e /\ Plan(bright)[4] = g
        BY <1>9, <1>10, <2>1
    <2> QED BY <1>3, <2>2
<1>7. CASE bright /= {} /\ Warp \ bright = {}
    <2>1. Plan(bright) = (<<a, b>> \o <<c, d>>) \o <<>>
        BY <1>4, <1>5, <1>7
    <2>2. /\ Len(Plan(bright)) = 2 + 2 + 0 /\ Plan(bright)[1] = a /\ Plan(bright)[2] = b
          /\ Plan(bright)[3] = c /\ Plan(bright)[4] = d
        BY <1>9, <1>10, <2>1
    <2> QED BY <1>3, <2>2
<1>8. CASE bright /= {} /\ Warp \ bright /= {}
    <2>1. Plan(bright) = (<<a, b>> \o <<c, d>>) \o <<e, g>>
        BY <1>4, <1>5, <1>8
    <2>2. /\ Len(Plan(bright)) = 2 + 2 + 2 /\ Plan(bright)[1] = a /\ Plan(bright)[2] = b
          /\ Plan(bright)[3] = c /\ Plan(bright)[4] = d /\ Plan(bright)[5] = e /\ Plan(bright)[6] = g
        BY <1>9, <1>10, <2>1
    <2> QED BY <1>3, <2>2
<1> QED BY <1>6, <1>7, <1>8

\* The part that a warp runs is one of its plan, at every step of the animation's circle
\* (ch/08-cuda.js, plan and draw).
LEMMA WarpTypes ==
    /\ WarpInit => WarpTypeOK
    /\ WarpTypeOK /\ [WarpNext]_warpVars => WarpTypeOK'
<1>1. ASSUME NEW bright, bright \subseteq Warp, NEW at \in Nat
      PROVE  RunsAt(Plan(bright), at) \in 0..Len(Plan(bright))
    <2> DEFINE plan == Plan(bright)
               upTo == StepsOf(plan)
               Runs(k) == upTo[k - 1] <= at /\ at < upTo[k]
    <2>1. /\ Len(plan) = 4 \/ Len(plan) = 6
          /\ plan[1].n = 1 /\ plan[2].n = 1 /\ plan[3].n = 3 /\ plan[4].n = 1
          /\ Len(plan) = 6 => plan[5].n = 3 /\ plan[6].n = 1
        BY <1>1, PartsOfPlan
    <2> HIDE DEF plan
    <2>2. /\ upTo[0] = 0 /\ upTo[1] = 1 /\ upTo[2] = 2 /\ upTo[3] = 5 /\ upTo[4] = 6
          /\ Len(plan) = 6 => upTo[5] = 9 /\ upTo[6] = 10
        BY <2>1, PartsBegin
    <2> HIDE DEF upTo
    <2>3. CASE at >= upTo[Len(plan)]
        <3>1. RunsAt(plan, at) = 0
            BY <2>3, Zenon DEF RunsAt, upTo
        <3> QED BY <2>1, <3>1 DEF plan
    <2>4. CASE ~(at >= upTo[Len(plan)])
        <3>1. RunsAt(plan, at) = CHOOSE k \in 1..Len(plan) : Runs(k)
            BY <2>4, Zenon DEF RunsAt, upTo
        <3>2. \E k \in 1..Len(plan) : Runs(k)
            <4>1. /\ at \in 0..0 => Runs(1)
                  /\ at \in 1..1 => Runs(2)
                  /\ at \in 2..4 => Runs(3)
                  /\ at \in 5..5 => Runs(4)
                  /\ Len(plan) = 6 /\ at \in 6..8 => Runs(5)
                  /\ Len(plan) = 6 /\ at \in 9..9 => Runs(6)
                BY <2>2
            <4>2. at \in 0..0 \/ at \in 1..1 \/ at \in 2..4 \/ at \in 5..5
                  \/ (Len(plan) = 6 /\ at \in 6..8) \/ (Len(plan) = 6 /\ at \in 9..9)
                <5>1. CASE Len(plan) = 4
                    <6>1. ~(at >= 6)
                        BY <2>2, <2>4, <5>1
                    <6> HIDE <2>2, <2>4
                    <6> QED BY <6>1
                <5>2. CASE Len(plan) = 6
                    <6>1. ~(at >= 10)
                        BY <2>2, <2>4, <5>2
                    <6> HIDE <2>2, <2>4
                    <6> QED BY <5>2, <6>1
                <5> QED BY <2>1, <5>1, <5>2
            <4>3. {1, 2, 3, 4} \subseteq 1..Len(plan) /\ (Len(plan) = 6 => {5, 6} \subseteq 1..Len(plan))
                BY <2>1
            <4> HIDE DEF Runs
            <4> QED BY <4>1, <4>2, <4>3
        <3> HIDE DEF Runs
        <3>3. RunsAt(plan, at) \in 1..Len(plan)
            BY <3>1, <3>2, Zenon
        <3> QED BY <3>3, <2>1 DEF plan
    <2> QED BY <2>3, <2>4
<1>2. ASSUME NEW bright, bright \subseteq Warp, NEW at \in Nat
      PROVE  (at + 1) % (StepsOf(Plan(bright))[Len(Plan(bright))] + 3) \in 0..12
    <2> DEFINE plan == Plan(bright)
    <2>1. /\ Len(plan) = 4 \/ Len(plan) = 6
          /\ plan[1].n = 1 /\ plan[2].n = 1 /\ plan[3].n = 3 /\ plan[4].n = 1
          /\ Len(plan) = 6 => plan[5].n = 3 /\ plan[6].n = 1
        BY <1>2, PartsOfPlan
    <2>2. StepsOf(plan)[Len(plan)] \in {6, 10}
        <3> HIDE DEF plan
        <3> QED BY <2>1, PartsBegin
    <2>3. \A n \in {6, 10} : (at + 1) % (n + 3) \in 0..12
        OBVIOUS
    <2> QED BY <2>2, <2>3
<1>3. WarpInit => WarpTypeOK
    <2>1. 0 \in 0..12 /\ 0 \in Nat /\ Warp \subseteq Warp
        OBVIOUS
    <2> QED BY <1>1, <2>1, Zenon DEF WarpInit, WarpTypeOK
<1>4. ASSUME WarpTypeOK, [WarpNext]_warpVars PROVE WarpTypeOK'
    <2>1. dvBright \subseteq Warp /\ dvAt \in 0..12 /\ dvAt \in Nat
        BY <1>4 DEF WarpTypeOK
    <2>2. dvBright' \subseteq Warp /\ dvAt' \in 0..12
        <3>1. ASSUME NEW bright \in Patterns, PickPattern(bright) PROVE dvBright' \subseteq Warp /\ dvAt' \in 0..12
            BY <3>1 DEF PickPattern, Patterns
        <3>2. ASSUME WarpTick PROVE dvBright' \subseteq Warp /\ dvAt' \in 0..12
            BY <1>2, <2>1, <3>2, Zenon DEF WarpTick
        <3>3. ASSUME UNCHANGED warpVars PROVE dvBright' \subseteq Warp /\ dvAt' \in 0..12
            BY <2>1, <3>3, Zenon DEF warpVars
        <3> QED BY <1>4, <3>1, <3>2, <3>3, Zenon DEF WarpNext
    <2>3. dvAt' \in Nat
        BY <2>2
    <2> QED BY <1>1, <2>2, <2>3, Zenon DEF WarpTypeOK
<1> QED BY <1>3, <1>4

\* A quotient is not more than what is divided.
LEMMA QuotientIsLess == \A n \in Nat, c \in Nat \ {0} : n \div c <= n
<1> SUFFICES ASSUME NEW n \in Nat, NEW c \in Nat \ {0} PROVE n \div c <= n
    OBVIOUS
<1> DEFINE q == n \div c
<1>1. q \in Nat /\ c * q <= n
    OBVIOUS
<1>2. ASSUME NEW k \in Nat, c * k <= n PROVE k <= n
    <2>1. c * k = k + (c - 1) * k /\ (c - 1) * k \in Nat
        OBVIOUS
    <2> QED BY <1>2, <2>1
<1> QED BY <1>1, <1>2

\* Neither side of the race shows more ticks than there were (ch/08-cuda.js).
LEMMA RaceTypes ==
    /\ RaceInit => RaceTypeOK
    /\ RaceTypeOK /\ [RaceNext]_raceVars => RaceTypeOK'
<1> DEFINE all == RaceTiles * RaceSlow
           Boards == [all : BOOLEAN, ticks : 0..all]
<1>1. all \in Nat
    BY CudaAssumption
<1>2. /\ CpuTotal \in Nat
      /\ \A mode \in {"par", "ser"} : /\ CpuDone(mode, RaceTiles - 1) \in Nat
                                     /\ CpuTotal <= CpuDone(mode, RaceTiles - 1)
                                     /\ GpuTotal(mode) \in Nat
    <2> DEFINE share == (RaceTiles - 1) \div RaceCores
    <2>1. share \in Nat /\ RaceSlow \in Nat /\ RaceTiles \in Nat /\ RaceTiles * RaceSlow \in Nat
          /\ (RaceTiles - 1) + 1 = RaceTiles
        BY CudaAssumption
    <2>2. share <= RaceTiles - 1
        BY QuotientIsLess, CudaAssumption
    <2> HIDE DEF share
    <2>3. share + 1 \in Nat /\ share + 1 <= RaceTiles
        BY <2>1, <2>2
    <2>4. share + 1 <= share + 1 /\ RaceTiles <= RaceTiles
        BY <2>1
    <2>5. /\ CpuDone("par", RaceTiles - 1) = share + 1
          /\ CpuDone("ser", RaceTiles - 1) = RaceTiles
        BY <2>1, Zenon DEF CpuDone, share
    <2> QED BY <2>1, <2>3, <2>4, <2>5, Zenon DEF CpuTotal, GpuTotal, GpuDone
<1> HIDE DEF all
<1>3. ASSUME NEW last \in Nat, NEW total \in Nat, total <= last, NEW ticks \in 0..all,
             NEW soFar \in Nat, soFar <= ticks
      PROVE  [all |-> last <= ticks, ticks |-> IF last <= ticks THEN total ELSE soFar] \in Boards
    <2>1. (last <= ticks) \in BOOLEAN
        OBVIOUS
    <2>2. (IF last <= ticks THEN total ELSE soFar) \in 0..all
        BY <1>1, <1>3
    <2> QED BY <2>1, <2>2, Zenon
\* What is shown before the last tile is no more than the ticks so far.
<1>8. ASSUME NEW total \in Nat, NEW ticks \in 0..all
      PROVE  /\ ticks \in Nat /\ ticks <= ticks /\ total <= total
             /\ (IF ticks <= total THEN ticks ELSE total) \in Nat
             /\ (IF ticks <= total THEN ticks ELSE total) <= ticks
    BY <1>1
<1>4. ASSUME raMode \in {"par", "ser"}, raTicks \in 0..all PROVE RaceTypeOK
    <2>1. /\ raTicks \in Nat /\ raTicks <= raTicks /\ GpuTotal(raMode) \in Nat
          /\ GpuTotal(raMode) <= GpuTotal(raMode)
          /\ CpuDone(raMode, RaceTiles - 1) \in Nat /\ CpuTotal <= CpuDone(raMode, RaceTiles - 1)
        BY <1>2, <1>8, <1>4, Zenon
    <2>2. /\ (IF raTicks <= CpuTotal THEN raTicks ELSE CpuTotal) \in Nat
          /\ (IF raTicks <= CpuTotal THEN raTicks ELSE CpuTotal) <= raTicks
        BY <1>2, <1>8, <1>4, Zenon
    <2>3. CpuShows \in Boards
        BY <1>2, <1>3, <1>4, <2>1, <2>2, Zenon DEF CpuShows, Panel
    <2>4. GpuShows \in Boards
        BY <1>3, <1>4, <2>1, Zenon DEF GpuShows, Panel
    <2> HIDE DEF Boards
    <2> QED BY <1>4, <2>3, <2>4, Zenon DEF RaceTypeOK, Boards, all
<1>5. raMode' \in {"par", "ser"} /\ raTicks' \in 0..all => RaceTypeOK'
    <2> SUFFICES ASSUME raMode' \in {"par", "ser"}, raTicks' \in 0..all PROVE RaceTypeOK'
        OBVIOUS
    <2>1. /\ raTicks' \in Nat /\ raTicks' <= raTicks' /\ GpuTotal(raMode') \in Nat
          /\ GpuTotal(raMode') <= GpuTotal(raMode')
          /\ CpuDone(raMode', RaceTiles - 1) \in Nat /\ CpuTotal <= CpuDone(raMode', RaceTiles - 1)
        BY <1>2, <1>8, Zenon
    <2>2. /\ (IF raTicks' <= CpuTotal THEN raTicks' ELSE CpuTotal) \in Nat
          /\ (IF raTicks' <= CpuTotal THEN raTicks' ELSE CpuTotal) <= raTicks'
        BY <1>2, <1>8, Zenon
    <2>3. CpuShows' \in Boards
        BY <1>2, <1>3, <2>1, <2>2, Zenon DEF CpuShows, Panel
    <2>4. GpuShows' \in Boards
        BY <1>3, <2>1, Zenon DEF GpuShows, Panel
    <2> HIDE DEF Boards
    <2> QED BY <2>3, <2>4, Zenon DEF RaceTypeOK, Boards, all
<1>6. RaceInit => RaceTypeOK
    <2>1. 0 \in 0..all
        BY <1>1
    <2> QED BY <1>4, <2>1, Zenon DEF RaceInit
<1>7. ASSUME RaceTypeOK, [RaceNext]_raceVars PROVE RaceTypeOK'
    <2>1. raMode \in {"par", "ser"} /\ raTicks \in 0..all
        BY <1>7, Zenon DEF RaceTypeOK, all
    <2>2. 0 \in 0..all
        BY <1>1
    <2>3. ASSUME NEW mode \in {"par", "ser"}, StartRace(mode) PROVE RaceTypeOK'
        BY <1>5, <2>2, <2>3, Zenon DEF StartRace
    <2>4. CASE RaceTick
        <3>1. raTicks < all /\ raTicks' = raTicks + 1 /\ raMode' = raMode
            BY <2>4, Zenon DEF RaceTick, all
        <3>2. raTicks' \in 0..all
            BY <1>1, <2>1, <3>1
        <3> QED BY <1>5, <2>1, <3>1, <3>2, Zenon
    <2>5. CASE UNCHANGED raceVars
        BY <1>5, <2>1, <2>5, Zenon DEF raceVars
    <2> QED BY <1>7, <2>3, <2>4, <2>5, Zenon DEF RaceNext
<1> QED BY <1>6, <1>7

\* The blocks cover the picture, so that none of it is left without a thread (ch/08-cuda.js).
LEMMA GridTypes ==
    /\ GridInit => GridTypeOK
    /\ GridTypeOK /\ [GridNext]_gridVars => GridTypeOK'
<1> DEFINE Sizes == {2^k : k \in GridPowers}
           Cells == (0..(2 * GridW)) \X (0..(2 * GridH))
<1>1. \A k \in GridPowers : 2^k \in Nat \ {0}
    <2>1. 2^0 = 1 /\ 2^1 = 2 /\ 2^2 = 4 /\ 2^3 = 8 /\ 2^4 = 16 /\ 2^5 = 32
        OBVIOUS
    <2>2. \A k \in GridPowers : k = 0 \/ k = 1 \/ k = 2 \/ k = 3 \/ k = 4 \/ k = 5
        BY CudaAssumption
    <2>3. \A k \in GridPowers : 2^k \in {1, 2, 4, 8, 16, 32}
        BY <2>1, <2>2, Zenon
    <2>4. {1, 2, 4, 8, 16, 32} \subseteq Nat \ {0}
        OBVIOUS
    <2> QED BY <2>3, <2>4, Zenon
<1>2. \A w \in Sizes : w \in Nat \ {0}
    BY <1>1
<1>3. 16 \in Sizes /\ 8 \in Sizes
    <2>1. 2^3 = 8 /\ 2^4 = 16 /\ 3 \in GridPowers /\ 4 \in GridPowers
        BY CudaAssumption
    <2> QED BY <2>1, Zenon
<1>4. ASSUME NEW n \in Nat, NEW w \in Nat \ {0}
      PROVE  CeilDiv(n, w) \in Nat /\ CeilDiv(n, w) * w >= n
    <2> DEFINE q == (n + w - 1) \div w
               rest == (n + w - 1) % w
    <2>1. q \in Int /\ rest \in 0..(w - 1) /\ n + w - 1 = w * q + rest
        OBVIOUS
    <2>2. q \in Nat
        OBVIOUS
    <2> HIDE DEF q, rest
    <2>3. w * q > n - 1
        BY <2>1
    <2>4. q * w = w * q /\ w * q \in Int
        BY <2>1
    <2>5. CeilDiv(n, w) = q
        BY DEF CeilDiv, q
    <2> QED BY <2>1, <2>2, <2>3, <2>4, <2>5
<1>5. ASSUME NEW a \in Nat, NEW b \in Nat, NEW w \in Nat, NEW h \in Nat, a * w >= 45, b * h >= 28
      PROVE  ((a * b) * w) * h - 45 * 28 >= 0
    <2>1. ((a * b) * w) * h = (a * w) * (b * h) /\ a * w \in Nat /\ b * h \in Nat
        OBVIOUS
    <2>2. \A x, y \in Nat : x >= 45 /\ y >= 28 => x * y >= 45 * 28
        OBVIOUS
    <2> QED BY <1>5, <2>1, <2>2
<1> HIDE DEF Sizes
<1>6. ASSUME NEW w \in Sizes, NEW h \in Sizes
      PROVE  (CeilDiv(45, w) * CeilDiv(28, h)) * w * h - 45 * 28 >= 0
    <2>1. w \in Nat \ {0} /\ h \in Nat \ {0}
        BY <1>2
    <2>2. /\ CeilDiv(45, w) \in Nat /\ CeilDiv(45, w) * w >= 45
          /\ CeilDiv(28, h) \in Nat /\ CeilDiv(28, h) * h >= 28
        BY <1>4, <2>1
    <2> HIDE DEF CeilDiv
    <2> QED BY <1>5, <2>1, <2>2
<1>7. (grW \in Sizes /\ grH \in Sizes => Idle >= 0) /\ (grW' \in Sizes /\ grH' \in Sizes => Idle' >= 0)
    BY <1>6, Zenon DEF Idle, Blocks, GridW, GridH
<1>8. ASSUME GridInit PROVE GridTypeOK
    BY <1>3, <1>7, <1>8, Zenon DEF GridInit, GridTypeOK, Sizes
<1>9. ASSUME GridTypeOK, [GridNext]_gridVars PROVE GridTypeOK'
    <2>1. grW \in Sizes /\ grH \in Sizes /\ (grHover = <<>> \/ grHover \in Cells)
        BY <1>9, Zenon DEF GridTypeOK, Sizes
    <2> DEFINE Fits == grW' \in Sizes /\ grH' \in Sizes /\ (grHover' = <<>> \/ grHover' \in Cells)
    <2>2. \A k \in GridPowers : 2^k \in Sizes
        BY Zenon DEF Sizes
    <2>3. \A x \in {0, GridW - 1, GridW} : \A y \in {0, GridH} : <<x, y>> \in Cells
        BY DEF GridW, GridH
    <2> HIDE DEF Cells
    <2>4. ASSUME NEW k \in GridPowers, BlockSize(2^k, grH) \/ BlockSize(grW, 2^k) PROVE Fits
        BY <2>1, <2>2, <2>4, Zenon DEF BlockSize
    <2>5. ASSUME NEW x \in {0, GridW - 1, GridW}, NEW y \in {0, GridH}, PointCell(x, y) PROVE Fits
        BY <2>1, <2>3, <2>5, Zenon DEF PointCell
    <2>6. ASSUME LeaveGrid PROVE Fits
        BY <2>1, <2>6, Zenon DEF LeaveGrid
    <2>7. ASSUME UNCHANGED gridVars PROVE Fits
        BY <2>1, <2>7, Zenon DEF gridVars
    <2> HIDE DEF Fits
    <2>8. Fits
        BY <1>9, <2>4, <2>5, <2>6, <2>7, Zenon DEF GridNext
    <2> QED BY <1>7, <2>8, Zenon DEF Fits, GridTypeOK, Sizes, Cells
<1> QED BY <1>8, <1>9

\* The folders of the tree are opened and closed, and its topics selected (ch/15-networktables.js).
LEMMA TreeTypes ==
    /\ TreeInit => TreeTypeOK
    /\ TreeTypeOK /\ [TreeNext]_treeVars => TreeTypeOK'
<1>1. TreeInit => TreeTypeOK
    <2>1. "rawBytes" \in NtNodes \ {"root"} /\ \E n \in NtNodes \ {"root"} : NtParent[n] = "root"
        BY NetworktablesAssumption
    <2> QED BY <2>1 DEF TreeInit, TreeTypeOK, NtFolders
<1>2. TreeTypeOK /\ [TreeNext]_treeVars => TreeTypeOK'
    <2> SUFFICES ASSUME TreeTypeOK, [TreeNext]_treeVars PROVE TreeTypeOK'
        OBVIOUS
    <2>1. ASSUME NEW k \in 0..4, PickLayer(k) PROVE TreeTypeOK'
        BY <2>1 DEF PickLayer, TreeTypeOK
    <2>2. ASSUME NEW n \in NtNodes, ClickTopic(n) PROVE TreeTypeOK'
        BY <2>2 DEF ClickTopic, TreeTypeOK
    <2>3. ASSUME NEW p \in NtPorts, PickNtPort(p) PROVE TreeTypeOK'
        BY <2>3 DEF PickNtPort, TreeTypeOK
    <2>4. CASE UNCHANGED treeVars
        BY <2>4 DEF treeVars, TreeTypeOK
    <2> QED BY <2>1, <2>2, <2>3, <2>4 DEF TreeNext
<1> QED BY <1>1, <1>2

\* The page comes up and is read (site.js).
LEMMA LoadTypes ==
    /\ LoadInit => LoadInv /\ LoadTypeOK
    /\ LoadInv /\ LoadTypeOK /\ [LoadNext]_loadVars => LoadInv' /\ LoadTypeOK'
<1>1. LoadInit => LoadInv /\ LoadTypeOK
    <2> SUFFICES ASSUME LoadInit PROVE LoadInv /\ LoadTypeOK
        OBVIOUS
    <2>1. InMode(ldMode) \subseteq Chapters
        BY DEF InMode
    <2>2. /\ ldMode \in {"short", "full"} /\ ldClass = ldMode
          /\ ldNow = NoTerm /\ ldTicking = FALSE /\ ldAtTop \in InMode(ldMode) /\ ldMenu = FALSE
          /\ ldTips = {} /\ ldTip = NoTerm /\ ldReported = {} /\ ldWatched = {}
        BY Zenon DEF LoadInit
    <2>3. LoadInv
        BY DEF LoadInit, LoadInv, Answers, Inserted
    <2>4. ldMeasured \in [{"short", "full"} -> SUBSET Chapters] /\ ldStarts \in [Chapters -> Nat]
        BY DEF LoadInit
    <2>5. /\ ldContent \in [Chapters -> Answers \union {"empty"}]
          /\ ldAnswer \in [Chapters -> Answers \union {"waiting"}]
        BY <2>3 DEF LoadInv
    <2> HIDE DEF LoadInit, LoadInv
    <2> QED BY <2>1, <2>2, <2>3, <2>4, <2>5 DEF LoadTypeOK
<1>2. LoadInv /\ LoadTypeOK /\ [LoadNext]_loadVars => LoadInv' /\ LoadTypeOK'
    <2> SUFFICES ASSUME LoadInv, LoadTypeOK, [LoadNext]_loadVars PROVE LoadTypeOK'
        BY LoadStep
    <2>0. \A m : InMode(m) \subseteq Chapters
        BY DEF InMode
    <2> USE DEF LoadTypeOK, tourVars, barVars, tipVars
    <2>1. ASSUME NEW c \in Chapters, NEW answer \in Answers, Answer(c, answer) PROVE LoadTypeOK'
        BY <2>1 DEF Answer
    <2>2. ASSUME NEW c \in Chapters, ComesNear(c) PROVE LoadTypeOK'
        <3>1. ldStarts' \in [Chapters -> Nat]
            BY <2>2 DEF ComesNear
        <3>2. ldReported' \subseteq Throwing /\ ldWatched' \subseteq Chapters
            BY <2>2 DEF ComesNear
        <3> QED BY <2>2, <3>1, <3>2 DEF ComesNear
    <2>3. ASSUME NEW c \in Chapters, ScrollTour(c) PROVE LoadTypeOK'
        BY <2>3 DEF ScrollTour
    <2>4. CASE Insert
        <3>1. ldMeasured' \in [{"short", "full"} -> SUBSET Chapters]
            BY <2>0, <2>4 DEF Insert
        <3>2. ldContent' \in [Chapters -> Answers \union {"empty"}]
            BY <2>4 DEF Insert, AllAnswered
        <3> QED BY <2>4, <3>1, <3>2 DEF Insert
    <2>5. CASE SwitchTour
        BY <2>0, <2>5 DEF SwitchTour
    <2>6. CASE NameChapter
        BY <2>6 DEF NameChapter
    <2>7. ASSUME NEW opened \in BOOLEAN, OpenMenu(opened) PROVE LoadTypeOK'
        BY <2>7 DEF OpenMenu
    <2>8. ASSUME NEW term \in Terms \union {NoTerm}, Hover(term) PROVE LoadTypeOK'
        BY <2>8 DEF Hover
    <2>9. CASE UNCHANGED loadVars
        BY <2>9 DEF loadVars
    <2> QED BY <2>1, <2>2, <2>3, <2>4, <2>5, <2>6, <2>7, <2>8, <2>9 DEF LoadNext
<1> QED BY <1>1, <1>2

\* What the field lab shows besides its question and its code (ch/19-coords.js).
AskedInv ==
    /\ QuizInv /\ CodeInv
    /\ coMode \in {"explore", "quiz"} /\ coEx.h \in -180..180
    /\ coFb \in AnswerKinds \union {"", "pick one"}
    /\ coMarks \in [1..4 -> {"", "right", "wrong"}] /\ coSeen \in 0..CoQuestions

\* With it the field's variables keep their types.
LEMMA CoordsTypes ==
    /\ CoordsInit => AskedInv
    /\ AskedInv => CoordsTypeOK
    /\ AskedInv /\ [CoordsNext]_coordsVars => AskedInv'
<1>1. CoordsInit => AskedInv
    <2> SUFFICES ASSUME CoordsInit PROVE AskedInv
        OBVIOUS
    <2>1. QuizInv
        <3>1. /\ coMode = "explore" /\ coQ = NoQuestion /\ coPick = 0 /\ coN = 0 /\ coRight = 0
              /\ coSeen = 0
            BY DEF CoordsInit
        <3> QED BY <3>1 DEF QuizInv, QuizFair, QuestionFair, MarksOfPick, ScoreTrue
    <2>2. CodeInv
        <3>1. 3000 \in 450..(FieldLength - 450) /\ 2000 \in 450..(FieldWidth - 450) /\ 45 \in Int
            BY DEF FieldLength, FieldWidth
        <3>2. coEx = Pose(3000, 2000, 45) /\ coCode = ExCode(coEx)
            BY DEF CoordsInit
        <3> QED BY <3>1, <3>2 DEF CodeInv
    <2>3. coEx.h \in -180..180
        <3>1. coEx = Pose(3000, 2000, 45)
            BY Zenon DEF CoordsInit
        <3> HIDE DEF CoordsInit
        <3>2. coEx.h = 45
            BY <3>1 DEF Pose
        <3> QED BY <3>2
    <2>4. CoQuestions \in Nat
        BY CoordsAssumption
    <2>5. coSeen \in 0..CoQuestions
        <3>1. coSeen = 0
            BY Zenon DEF CoordsInit
        <3> HIDE DEF CoordsInit
        <3> QED BY <2>4, <3>1
    <2>6. coMarks \in [1..4 -> {"", "right", "wrong"}]
        BY DEF CoordsInit, Unmarked
    <2>7. coMode = "explore" /\ coFb = ""
        BY Zenon DEF CoordsInit
    <2> QED BY <2>1, <2>2, <2>3, <2>5, <2>6, <2>7, Zenon DEF AskedInv
<1>2. AskedInv => CoordsTypeOK
    <2> SUFFICES ASSUME AskedInv PROVE CoordsTypeOK
        OBVIOUS
    <2>1. PICK x \in 450..(FieldLength - 450), y \in 450..(FieldWidth - 450), h \in Int :
              coEx = Pose(x, y, h)
        BY DEF AskedInv, CodeInv
    <2>2. coEx.x = x /\ coEx.y = y
        BY <2>1 DEF Pose
    <2>3. x \in 0..FieldLength /\ y \in 0..FieldWidth
        BY DEF FieldLength, FieldWidth
    <2>4. Len(coCode) = 2
        BY DEF AskedInv, CodeInv, ExCode
    <2>5. coN \in 0..CoQuestions /\ coRight \in 0..CoQuestions
        <3>1. coN \in Nat /\ coRight \in Nat /\ coRight <= coN /\ coN <= coSeen
            BY Zenon DEF AskedInv, QuizInv, QuizFair, ScoreTrue
        <3>2. coSeen \in 0..CoQuestions
            BY DEF AskedInv
        <3>3. CoQuestions \in Nat
            BY CoordsAssumption
        <3> HIDE DEF AskedInv
        <3> QED BY <3>1, <3>2, <3>3
    <2> QED BY <2>2, <2>3, <2>4, <2>5, Zenon DEF AskedInv, QuizInv, CoordsTypeOK
<1>3. AskedInv /\ [CoordsNext]_coordsVars => AskedInv'
    <2> SUFFICES ASSUME AskedInv, [CoordsNext]_coordsVars PROVE AskedInv'
        OBVIOUS
    <2> DEFINE Fits == /\ coMode' \in {"explore", "quiz"} /\ coEx'.h \in -180..180
                       /\ coFb' \in AnswerKinds \union {"", "pick one"}
                       /\ coMarks' \in [1..4 -> {"", "right", "wrong"}] /\ coSeen' \in 0..CoQuestions
    <2>1. QuizInv' /\ CodeInv'
        BY QuizInvHolds, CodeInvHolds DEF AskedInv
    <2>2. ASSUME NEW p \in CoAsked, NEW opts \in CoOrders, NewQ(p, opts)
          PROVE  /\ coFb' \in AnswerKinds \union {"", "pick one"} /\ coSeen' \in 0..CoQuestions
                 /\ coMarks' \in [1..4 -> {"", "right", "wrong"}]
        <3>1. coSeen \in 0..CoQuestions /\ coSeen < CoQuestions /\ coSeen' = coSeen + 1
              /\ CoQuestions \in Nat
            BY <2>2, CoordsAssumption DEF NewQ, AskedInv
        <3>2. coSeen' \in 0..CoQuestions
            BY <3>1
        <3>3. coFb' = "pick one" /\ coMarks' = Unmarked
            BY <2>2 DEF NewQ
        <3>4. Unmarked \in [1..4 -> {"", "right", "wrong"}]
            BY DEF Unmarked
        <3> QED BY <3>2, <3>3, <3>4
    <2>3. ASSUME NEW mode \in {"explore", "quiz"}, SetFieldMode(mode) PROVE Fits
        <3>1. coMode' = mode /\ coEx' = coEx
            BY <2>3 DEF SetFieldMode
        <3>2. CASE mode = "quiz" /\ coQ = NoQuestion
            <4>1. PICK p \in CoAsked, opts \in CoOrders : NewQ(p, opts)
                BY <2>3, <3>2 DEF SetFieldMode
            <4> QED BY <2>2, <3>1, <4>1 DEF AskedInv
        <3>3. CASE ~(mode = "quiz" /\ coQ = NoQuestion)
            BY <2>3, <3>1, <3>3 DEF SetFieldMode, AskedInv
        <3> QED BY <3>2, <3>3
    <2>4. ASSUME NextRobot PROVE Fits
        BY <2>2, <2>4 DEF NextRobot, AskedInv
    <2>5. ASSUME NEW i \in 1..4, PickAnswer(i) PROVE Fits
        <3>1. coFb' = coQ.opts[i] /\ coQ /= NoQuestion
            BY <2>5 DEF PickAnswer, AskedInv, QuizInv, QuizFair, QuestionFair
        <3>2. coQ.opts \in [1..4 -> AnswerKinds]
            BY <3>1, CoordsAssumption DEF AskedInv, QuizInv
        <3>3. coMarks' \in [1..4 -> {"", "right", "wrong"}]
            BY <2>5 DEF PickAnswer
        <3>4. coFb' \in AnswerKinds
            BY <3>1, <3>2
        <3>5. coMode' = coMode /\ coEx' = coEx /\ coSeen' = coSeen
            BY <2>5 DEF PickAnswer
        <3>6. coMode \in {"explore", "quiz"} /\ coEx.h \in -180..180 /\ coSeen \in 0..CoQuestions
            BY Zenon DEF AskedInv
        <3>7. coFb' \in AnswerKinds \union {"", "pick one"}
            BY <3>4
        <3> QED BY <3>3, <3>5, <3>6, <3>7, Zenon
    <2>6. ASSUME NEW spot \in CoSpots, Place(spot) PROVE Fits
        <3>1. coEx'.h = coEx.h
            BY <2>6 DEF Place, Pose
        <3> QED BY <2>6, <3>1 DEF Place, AskedInv
    <2>7. ASSUME NEW h \in CoTurns, TurnRobot(h) PROVE Fits
        <3>1. coEx' = [coEx EXCEPT !.h = h] /\ h \in -180..180
            BY <2>7, CoordsAssumption DEF TurnRobot
        <3>2. coEx'.h = h
            <4>1. PICK x \in 450..(FieldLength - 450), y \in 450..(FieldWidth - 450), k \in Int :
                      coEx = Pose(x, y, k)
                BY DEF AskedInv, CodeInv
            <4> QED BY <3>1, <4>1 DEF Pose
        <3> QED BY <2>7, <3>1, <3>2 DEF TurnRobot, AskedInv
    <2>8. ASSUME UNCHANGED coordsVars PROVE Fits
        BY <2>8 DEF coordsVars, AskedInv
    <2>9. Fits
        <3> HIDE DEF Fits
        <3> QED BY <2>3, <2>4, <2>5, <2>6, <2>7, <2>8, Zenon DEF CoordsNext
    <2> QED BY <2>1, <2>9 DEF AskedInv
<1> QED BY <1>1, <1>2, <1>3

\* The ports with a camera, each of them once in the line.
Plugged(cams) == {i \in UsbPorts : cams[i] /= NoCamera}
UsbBounds ==
    /\ UsbInv
    /\ NoneTwice(ubLine) /\ ItemsOf(ubLine) = Plugged(ubCams)
    /\ ubPreset \in DOMAIN UsbPresets /\ ubTouched \in 0..UsbTouches

\* What a camera asks for makes it one, not an empty port.
LEMMA CameraIsOne ==
    ASSUME NEW cam, NEW type, cam.alloc \in ToSet(CamAllocs(type))
    PROVE  cam /= NoCamera
<1>1. 0 \notin ToSet(CamAllocs(type))
    BY DEF CamAllocs, ToSet
<1>2. NoCamera.alloc = 0
    BY DEF NoCamera, Fixed
<1> QED BY <1>1, <1>2

\* A preset's line has each port it plugs into once.
LEMMA PresetPlugs ==
    ASSUME NEW k \in DOMAIN UsbPresets
    PROVE  NoneTwice(PresetLine(k)) /\ ItemsOf(PresetLine(k)) = Plugged(PresetCams(k))
<1> DEFINE items == UsbPresets[k]
           line == PresetLine(k)
           cams == PresetCams(k)
<1>1. PICK last \in Nat : GoodItems(items, last)
    <2>1. DOMAIN UsbPresets = {"stock2", "stock3", "usbc", "ours", "greedy"}
        BY DEF UsbPresets
    <2> QED BY <2>1, PresetsAsk DEF PresetAsks
<1>2. /\ line \in Seq(UsbPorts) /\ Len(line) = last
      /\ \A n \in 1..last : line[n] = items[n][1] /\ cams[line[n]] = items[n][2]
      /\ cams \in [UsbPorts -> [type : CamTypes \union {""}, alloc : Nat]]
    BY <1>1, PresetByItems DEF GoodItems
<1>3. \A m, n \in 1..last : m /= n => items[m][1] /= items[n][1]
    BY <1>1 DEF GoodItems
<1>5. \A i \in UsbPorts : i \notin ToSet(line) => cams[i] = NoCamera
    <2> HIDE DEF line
    <2>1. cams = [i \in UsbPorts |->
                     IF i \in ToSet(line)
                     THEN UsbPresets[k][CHOOSE n \in DOMAIN line : line[n] = i][2] ELSE NoCamera]
        BY Zenon DEF cams, PresetCams, line
    <2> HIDE DEF cams
    <2> QED BY <2>1
<1> HIDE DEF items, line, cams
<1>6. NoneTwice(line)
    BY <1>2, <1>3 DEF NoneTwice
<1>7. ToSet(line) = ItemsOf(line) /\ ItemsOf(line) \subseteq UsbPorts
    BY <1>2, ItemsAreOf
<1>8. ASSUME NEW i \in ItemsOf(line) PROVE cams[i] /= NoCamera
    <2>1. cams[i].alloc \in ToSet(CamAllocs(cams[i].type))
        BY PresetIsOwn DEF OwnAllocs, cams, line
    <2> QED BY <2>1, CameraIsOne
<1>9. ItemsOf(line) = Plugged(cams)
    BY <1>5, <1>7, <1>8 DEF Plugged
<1> QED BY <1>6, <1>9 DEF line, cams

\* A cable out or in leaves each plugged port once in the line.
LEMMA LineChanged ==
    ASSUME NEW line \in Seq(UsbPorts), NEW i \in UsbPorts, NoneTwice(line)
    PROVE  /\ NoneTwice(Unplug(line, i)) /\ ItemsOf(Unplug(line, i)) = ItemsOf(line) \ {i}
           /\ NoneTwice(PlugIn(line, i)) /\ ItemsOf(PlugIn(line, i)) = ItemsOf(line) \union {i}
<1> DEFINE rest == Unplug(line, i)
<1>1. /\ rest \in Seq(UsbPorts) /\ ItemsOf(rest) = ItemsOf(line) \ {i}
    BY Unplugged
<1>2. NoneTwice(rest)
    BY OnlyLeaves DEF Unplug
<1>3. PlugIn(line, i) = Append(rest, i)
    BY DEF PlugIn
<1> HIDE DEF rest
<1>4. NoneTwice(Append(rest, i)) /\ ItemsOf(Append(rest, i)) = ItemsOf(rest) \union {i}
    BY <1>1, <1>2, OneItemMore
<1> QED BY <1>1, <1>2, <1>3, <1>4 DEF rest

\* The table of the bus is of numbers and of the three things that become of a camera.
LEMMA TableTypes ==
    ASSUME UsbInv
    PROVE  ubModel.total \in Nat /\ ubModel.status \in Seq(UsbStatuses)
<1> DEFINE last == Len(ubLine)
<1>1. /\ ubLine \in Seq(UsbPorts) /\ ubModel = Evaluate(ubCams, ubLine)
      /\ \A i \in UsbPorts : ubCams[i].alloc \in Nat
    BY DEF UsbInv
<1>2. PICK t \in [0..last -> 0..(UsbRefuses - 1)] : BusFills(t, ubCams, ubLine, ubModel)
    BY <1>1, EvaluateIs
<1>3. last \in Nat
    BY <1>1
<1>4. ubModel.total = t[last] /\ Len(ubModel.status) = last
    BY <1>2 DEF BusFills
<1>5. ubModel.total \in Nat
    BY <1>2, <1>3, <1>4
<1>6. ubModel.status \in Seq(UsbStatuses)
    BY <1>2 DEF BusFills
<1> QED BY <1>5, <1>6

\* With it the bus's variables keep their types.
LEMMA UsbTypes ==
    /\ UsbInit => UsbBounds
    /\ UsbBounds => UsbTypeOK
    /\ UsbBounds /\ [UsbNext]_usbVars => UsbBounds'
<1>0. UsbTouches \in Nat /\ 0 \in 0..UsbTouches
    BY SpeedAssumption
<1>1. UsbInit => UsbBounds
    <2> SUFFICES ASSUME UsbInit PROVE UsbBounds
        OBVIOUS
    <2>1. "ours" \in DOMAIN UsbPresets
        BY DEF UsbPresets
    <2>2. /\ ubCams = PresetCams("ours") /\ ubLine = PresetLine("ours") /\ ubPreset = "ours"
          /\ ubTouched = 0
        BY Zenon DEF UsbInit
    <2> QED BY <1>0, <2>1, <2>2, PresetPlugs, UsbStart DEF UsbBounds
<1>2. UsbBounds => UsbTypeOK
    <2> SUFFICES ASSUME UsbBounds PROVE UsbTypeOK
        OBVIOUS
    <2>1. ubLine \in Seq(UsbPorts) /\ NoneTwice(ubLine) /\ ItemsOf(ubLine) = Plugged(ubCams)
        BY DEF UsbBounds, UsbInv
    <2>2. IsInjective(ubLine)
        BY <2>1 DEF IsInjective, NoneTwice
    <2>3. ToSet(ubLine) = {i \in UsbPorts : ubCams[i] /= NoCamera}
        BY <2>1, ItemsAreOf DEF Plugged
    <2>4. ubModel.total \in Nat /\ ubModel.status \in Seq(UsbStatuses)
        BY TableTypes DEF UsbBounds
    <2> QED BY <2>1, <2>2, <2>3, <2>4, Zenon DEF UsbBounds, UsbInv, UsbTypeOK
<1>3. UsbBounds /\ [UsbNext]_usbVars => UsbBounds'
    <2> SUFFICES ASSUME UsbBounds, [UsbNext]_usbVars PROVE UsbBounds'
        OBVIOUS
    <2> DEFINE Cams == [type : CamTypes \union {""}, alloc : Nat]
    <2>1. /\ UsbInv /\ ubLine \in Seq(UsbPorts) /\ NoneTwice(ubLine)
          /\ ItemsOf(ubLine) = Plugged(ubCams) /\ ubPreset \in DOMAIN UsbPresets
          /\ ubTouched \in 0..UsbTouches /\ ubCams \in [UsbPorts -> Cams]
        BY Zenon DEF UsbBounds, UsbInv
    <2>2. UsbInv'
        BY <2>1, UsbStep
    <2>3. ASSUME NEW k \in DOMAIN UsbPresets, UsbPick(k) PROVE UsbBounds'
        <3>1. /\ ubCams' = PresetCams(k) /\ ubLine' = PresetLine(k) /\ ubPreset' = k
              /\ ubTouched' = 0
            BY <2>3, Zenon DEF UsbPick, Render
        <3> QED BY <1>0, <2>2, <3>1, PresetPlugs DEF UsbBounds
    <2>4. ASSUME NEW cams, NEW line, Touch, Render(cams, line), NoneTwice(line),
                 ItemsOf(line) = Plugged(cams)
          PROVE  UsbBounds'
        <3>1. ubCams' = cams /\ ubLine' = line /\ ubPreset' = ubPreset
            BY <2>4, Zenon DEF Touch, Render
        <3>2. ubTouched < UsbTouches /\ ubTouched' = ubTouched + 1
            BY <2>4, Zenon DEF Touch
        <3>3. ubTouched' \in 0..UsbTouches
            <4>1. ubTouched \in 0..UsbTouches
                BY <2>1, Zenon
            <4> HIDE <2>1, <2>2, <2>4, <3>1
            <4> QED BY <1>0, <3>2, <4>1
        <3> QED BY <2>1, <2>2, <2>4, <3>1, <3>3, Zenon DEF UsbBounds
    <2>5. ASSUME NEW i \in UsbPorts, NEW cam \in Cams, cam /= NoCamera
          PROVE  Plugged([ubCams EXCEPT ![i] = cam]) = Plugged(ubCams) \union {i}
        BY <2>1, <2>5 DEF Plugged
    <2>6. ASSUME NEW i \in UsbPorts
          PROVE  Plugged([ubCams EXCEPT ![i] = NoCamera]) = Plugged(ubCams) \ {i}
        BY <2>1 DEF Plugged
    <2>7. ASSUME NEW i \in UsbPorts, NEW type \in CamTypes \union {""}, ChangeCamera(i, type)
          PROVE  UsbBounds'
        <3>1. CASE type = ""
            <4>1. Touch /\ Render([ubCams EXCEPT ![i] = NoCamera], Unplug(ubLine, i))
                BY <2>7, <3>1 DEF ChangeCamera
            <4> QED BY <2>1, <2>4, <2>6, <4>1, LineChanged
        <3>2. CASE type /= ""
            <4> DEFINE cam == Fixed(type, CamAllocs(type)[1])
            <4>1. Touch /\ Render([ubCams EXCEPT ![i] = cam], PlugIn(ubLine, i))
                BY <2>7, <3>2 DEF ChangeCamera
            <4>2. CamAllocs(type)[1] \in Nat
                BY StockIsOwn, AllocsAreNumbers
            <4>3. cam \in Cams
                BY <4>2, Zenon DEF Fixed
            <4>4. cam.alloc \in ToSet(CamAllocs(type))
                BY StockIsOwn DEF Fixed
            <4> HIDE DEF cam
            <4>5. cam /= NoCamera
                BY <4>4, CameraIsOne
            <4> QED BY <2>1, <2>4, <2>5, <4>1, <4>3, <4>5, LineChanged
        <3> QED BY <3>1, <3>2
    <2>8. ASSUME NEW i \in UsbPorts, NEW alloc, ChangeAlloc(i, alloc) PROVE UsbBounds'
        <3> DEFINE cam == [ubCams[i] EXCEPT !.alloc = alloc]
        <3>1. /\ Touch /\ alloc \in ToSet(CamAllocs(ubCams[i].type))
            BY <2>8 DEF ChangeAlloc
        <3>2. Render([ubCams EXCEPT ![i] = cam], PlugIn(ubLine, i))
            <4>1. [ubCams EXCEPT ![i].alloc = alloc] = [ubCams EXCEPT ![i] = cam]
                BY Zenon
            <4> QED BY <2>8, <4>1 DEF ChangeAlloc
        <3>3. alloc \in Nat /\ ubCams[i] \in Cams
            BY <2>1, <3>1, AllocsAreNumbers
        <3>4. cam \in Cams /\ cam.alloc = alloc
            BY <3>3
        <3> HIDE DEF cam
        <3>5. cam /= NoCamera
            BY <3>1, <3>4, CameraIsOne
        <3> QED BY <2>1, <2>4, <2>5, <3>1, <3>2, <3>4, <3>5, LineChanged
    <2>9. CASE UNCHANGED usbVars
        BY <2>1, <2>2, <2>9 DEF usbVars, UsbBounds
    <2> QED BY <2>3, <2>7, <2>8, <2>9 DEF UsbNext
<1> QED BY <1>1, <1>2, <1>3

\* A topic's value is one the page has published: raw's is the number of a result, any other's is
\* of two.
ValueFits(k, v, seq) == IF k = "raw" THEN v \in 0..seq ELSE v \in 0..1
ValuesFit(q, seq) == \A i \in 1..Len(q) : ValueFits(q[i].topic, q[i].value, seq)
PubsubBounds ==
    /\ PubsubInv
    /\ ValuesFit(ntFlights, ntSeq) /\ \A k \in NtTopics : ValueFits(k, ntTopics[k], ntSeq)
    /\ ntSeq <= ntCount /\ ntCount \in 0..NtEvents
    /\ ntDemo \in BOOLEAN /\ ntLabels \in [rec : 0..1, pipe : 0..1]

\* A value that fits goes on fitting as more results are published.
LEMMA FitsLater ==
    ASSUME NEW seq \in Nat, NEW later \in Nat, seq <= later, NEW k, NEW v, ValueFits(k, v, seq)
    PROVE  ValueFits(k, v, later)
BY DEF ValueFits

\* A message that fits joins messages that fit.
LEMMA OneFitMore ==
    ASSUME NEW q \in Seq(NtMessages), NEW f \in NtMessages, NEW seq \in Nat, NEW later \in Nat,
           seq <= later, ValuesFit(q, seq), ValueFits(f.topic, f.value, later)
    PROVE  ValuesFit(Append(q, f), later) /\ Append(q, f) \in Seq(NtMessages)
<1> DEFINE r == Append(q, f)
<1>1. /\ r \in Seq(NtMessages) /\ Len(r) = Len(q) + 1 /\ r[Len(q) + 1] = f /\ Len(q) \in Nat
      /\ \A i \in 1..Len(q) : r[i] = q[i]
    OBVIOUS
<1> HIDE DEF r
<1>2. ASSUME NEW i \in 1..Len(r) PROVE ValueFits(r[i].topic, r[i].value, later)
    <2>1. CASE i \in 1..Len(q)
        <3>1. ValueFits(q[i].topic, q[i].value, seq) /\ r[i] = q[i]
            BY <1>1, <2>1 DEF ValuesFit
        <3> QED BY <3>1, FitsLater
    <2>2. CASE i \notin 1..Len(q)
        <3>1. i = Len(q) + 1
            BY <1>1, <2>2
        <3> QED BY <1>1, <3>1
    <2> QED BY <2>1, <2>2
<1> QED BY <1>1, <1>2 DEF ValuesFit, r

\* A message published is one of those there are.
LEMMA SentAre ==
    ASSUME NEW k \in NtTopics, NEW v \in Nat, NEW then \in Thens
    PROVE  LET f == Publish(k, v, then) IN f \in NtMessages /\ f.topic = k /\ f.value = v
BY DEF Publish, NtMessages

\* The topics, and what may follow a message.
LEMMA TopicsNamed ==
    /\ {"raw", "has", "pir", "pis", "rec"} = NtTopics
    /\ Nothing \in Thens /\ 0 \in Thens /\ 1 \in Thens /\ Thens \subseteq Nat
    /\ \A n : SawTag(n) \in 0..1
BY DEF NtTopics, Thens, Nothing, SawTag

\* What an event publishes fits.
LEMMA EventsFit ==
    ASSUME PubsubBounds, NEW event \in {"result", "record", "pipe"}, Happens(event)
    PROVE  /\ ValuesFit(ntFlights', ntSeq') /\ \A k \in NtTopics : ValueFits(k, ntTopics'[k], ntSeq')
           /\ ntSeq' <= ntCount' /\ ntCount' \in 0..NtEvents
           /\ ntLabels' \in [rec : 0..1, pipe : 0..1]
<1> DEFINE q == ntFlights
<1>1. /\ q \in Seq(NtMessages) /\ ValuesFit(q, ntSeq) /\ \A k \in NtTopics : ValueFits(k, ntTopics[k], ntSeq)
      /\ ntSeq \in Nat /\ ntSeq <= ntCount /\ ntCount \in 0..NtEvents
    BY Zenon DEF PubsubBounds, PubsubInv
<1>2. /\ ntCount < NtEvents /\ ntCount' = ntCount + 1 /\ ntTopics' = ntTopics
      /\ ntSeq' = (IF event = "result" THEN ntSeq + 1 ELSE ntSeq)
      /\ ntFlights' = q \o Published(event)
      /\ ntLabels' = [rec |-> 1 - ntTopics.rec, pipe |-> 1 - ntTopics.pir]
    BY Zenon DEF Happens
<1>3. ntTopics.rec \in 0..1 /\ ntTopics.pir \in 0..1 /\ ntTopics["rec"] \in 0..1 /\ ntTopics["pir"] \in 0..1
    BY <1>1, TopicsNamed DEF ValueFits
<1>4. 1 - ntTopics.rec \in 0..1 /\ 1 - ntTopics.pir \in 0..1
    BY <1>3
<1>5. ntLabels' \in [rec : 0..1, pipe : 0..1]
    BY <1>2, <1>4
<1>6. NtEvents \in Nat
    BY NetworktablesAssumption
<1>7. ntSeq' \in Nat /\ ntSeq <= ntSeq' /\ ntSeq' <= ntCount' /\ ntCount' \in 0..NtEvents
    <2>1. CASE event = "result"
        <3>1. ntSeq' = ntSeq + 1
            BY <1>2, <2>1
        <3> HIDE <2>1, <1>5
        <3> QED BY <1>1, <1>2, <1>6, <3>1
    <2>2. CASE event /= "result"
        <3>1. ntSeq' = ntSeq
            BY <1>2, <2>2
        <3> HIDE <2>2, <1>5
        <3> QED BY <1>1, <1>2, <1>6, <3>1
    <2> QED BY <2>1, <2>2
<1>8. \A k \in NtTopics : ValueFits(k, ntTopics'[k], ntSeq')
    BY <1>1, <1>2, <1>7, FitsLater
<1>9. ValuesFit(ntFlights', ntSeq')
    <2>1. CASE event = "result"
        <3> DEFINE a == Publish("raw", ntSeq + 1, Nothing)
                   b == Publish("has", SawTag(ntSeq + 1), Nothing)
        <3>1. ntFlights' = q \o <<a, b>> /\ ntSeq' = ntSeq + 1
            BY <1>2, <2>1 DEF Published
        <3>2. ntSeq + 1 \in Nat /\ SawTag(ntSeq + 1) \in 0..1 /\ SawTag(ntSeq + 1) \in Nat
            BY <1>1, TopicsNamed
        <3>8. "raw" \in NtTopics /\ "has" \in NtTopics /\ Nothing \in Thens
            BY TopicsNamed
        <3>3. a \in NtMessages /\ a.topic = "raw" /\ a.value = ntSeq + 1
            BY <3>2, <3>8, SentAre, Zenon
        <3>4. b \in NtMessages /\ b.topic = "has" /\ b.value = SawTag(ntSeq + 1)
            BY <3>2, <3>8, SentAre, Zenon
        <3> HIDE DEF a, b, q
        <3>5. ntFlights' = Append(Append(q, a), b)
            BY <1>1, <3>1, <3>3, <3>4
        <3>6. ValueFits(a.topic, a.value, ntSeq') /\ ValueFits(b.topic, b.value, ntSeq')
            <4>1. ntSeq + 1 \in 0..(ntSeq + 1)
                BY <1>1
            <4> QED BY <3>1, <3>2, <3>3, <3>4, <4>1 DEF ValueFits
        <3>7. ntSeq' \in Nat /\ ntSeq <= ntSeq' /\ ntSeq' <= ntSeq'
            BY <1>7
        <3>9. ValuesFit(Append(q, a), ntSeq') /\ Append(q, a) \in Seq(NtMessages)
            BY <1>1, <3>3, <3>6, <3>7, OneFitMore
        <3> QED BY <3>4, <3>5, <3>6, <3>7, <3>9, OneFitMore
    <2>2. ASSUME NEW k \in {"rec", "pir"}, NEW v \in 0..1, NEW then \in Thens,
                 ntFlights' = q \o <<Publish(k, v, then)>>
          PROVE  ValuesFit(ntFlights', ntSeq')
        <3> DEFINE f == Publish(k, v, then)
        <3>1. f \in NtMessages /\ f.topic = k /\ f.value = v /\ k \in NtTopics
            BY TopicsNamed, SentAre
        <3>2. ntFlights' = q \o <<f>>
            BY <2>2
        <3> HIDE DEF f, q
        <3>3. ntFlights' = Append(q, f)
            BY <1>1, <3>1, <3>2
        <3>4. ValueFits(f.topic, f.value, ntSeq')
            BY <3>1 DEF ValueFits
        <3> QED BY <1>1, <1>7, <3>1, <3>3, <3>4, OneFitMore
    <2>3. CASE event = "record"
        <3>1. ntFlights' = q \o <<Publish("rec", 1 - ntTopics.rec, Nothing)>>
            BY <1>2, <2>3 DEF Published
        <3> QED BY <1>4, <2>2, <3>1, TopicsNamed
    <2>4. CASE event = "pipe"
        <3>1. ntFlights' = q \o <<Publish("pir", 1 - ntTopics.pir, 1 - ntTopics.pir)>>
            BY <1>2, <2>4 DEF Published
        <3>2. 1 - ntTopics.pir \in Thens
            BY <1>4 DEF Thens
        <3> QED BY <1>4, <2>2, <3>1, <3>2
    <2> QED BY <2>1, <2>3, <2>4
<1> QED BY <1>5, <1>7, <1>8, <1>9

\* A frame brings messages to their topics and sends on what follows them, all of which fits.
LEMMA FramesFit ==
    ASSUME PubsubBounds, FliesOn
    PROVE  ValuesFit(ntFlights', ntSeq') /\ \A k \in NtTopics : ValueFits(k, ntTopics'[k], ntSeq')
<1> DEFINE q == ntFlights
<1>1. /\ q \in Seq(NtMessages) /\ ValuesFit(q, ntSeq) /\ \A k \in NtTopics : ValueFits(k, ntTopics[k], ntSeq)
      /\ ntPace \subseteq NtSteps /\ ntTopics \in [NtTopics -> Nat]
    BY Zenon DEF PubsubBounds, PubsubInv
<1>2. PICK d \in ntPace :
          LET moved == [i \in DOMAIN q |-> Aged(q[i], d)]
              gone == Landed(moved)
          IN  /\ ntFlights' = Flying(moved) \o SecondLegs(moved)
              /\ ntTopics' = [k \in DOMAIN ntTopics |-> ShownOf(k, gone)]
              /\ UNCHANGED ntSeq
    BY DEF FliesOn
<1>3. d \in NtSteps
    BY <1>1
<1>4. FrameOn(q, d) = [i \in DOMAIN q |-> Aged(q[i], d)]
    BY <1>1 DEF FrameOn
<1> DEFINE r == Flying(FrameOn(q, d)) \o SecondLegs(FrameOn(q, d))
           landed == Landed(FrameOn(q, d))
<1>5. /\ ntFlights' = r /\ ntTopics' = [k \in DOMAIN ntTopics |-> ShownOf(k, landed)]
      /\ ntSeq' = ntSeq
    BY <1>2, <1>4
<1>6. r \in Seq(NtMessages) /\ \E from, m : FrameMoves(q, r, d, from, m)
    BY <1>1, <1>3, FlyingAre
<1>7. landed \in Seq(NtMessages) /\ \E down : FrameLands(q, landed, d, down)
    BY <1>1, <1>3, LandedAre
<1> HIDE DEF r, landed
<1>8. PICK from, m : FrameMoves(q, r, d, from, m)
    BY <1>6
<1>9. PICK down : FrameLands(q, landed, d, down)
    BY <1>7
<1>10. \A k \in NtTopics : ntTopics'[k] = ShownOf(k, landed)
    BY <1>1, <1>5, <1>7, RowsAre
<1>11. ASSUME NEW i \in 1..Len(landed) PROVE ValueFits(landed[i].topic, landed[i].value, ntSeq)
    <2>1. /\ down[i] \in 1..Len(q) /\ landed[i].topic = q[down[i]].topic
          /\ landed[i].value = q[down[i]].value
        BY <1>9 DEF FrameLands
    <2> QED BY <1>1, <2>1 DEF ValuesFit
<1>12. ASSUME NEW k \in NtTopics PROVE ValueFits(k, ntTopics'[k], ntSeq)
    <2>1. \/ ShownOf(k, landed) = ntTopics[k]
          \/ \E p \in 1..Len(landed) : landed[p].topic = k /\ ShownOf(k, landed) = landed[p].value
        BY <1>7, ShownIs
    <2> QED BY <1>1, <1>10, <1>11, <2>1
<1>13. ASSUME NEW i \in 1..Len(r) PROVE ValueFits(r[i].topic, r[i].value, ntSeq)
    <2>1. from[i] \in 1..Len(q) /\ r[i].topic = q[from[i]].topic /\ r[i].value = q[from[i]].value
        BY <1>8 DEF FrameMoves
    <2> QED BY <1>1, <2>1 DEF ValuesFit
<1>14. ValuesFit(r, ntSeq)
    BY <1>13 DEF ValuesFit
<1> QED BY <1>5, <1>12, <1>14

\* With it the diagram's variables keep their types.
LEMMA PubsubTypes ==
    /\ PubsubInit => PubsubBounds
    /\ PubsubBounds => PubsubTypeOK
    /\ PubsubBounds /\ [PubsubNext]_pubsubVars => PubsubBounds'
<1>0. NtEvents \in Nat
    BY NetworktablesAssumption
<1>1. PubsubInit => PubsubBounds
    <2> SUFFICES ASSUME PubsubInit PROVE PubsubBounds
        OBVIOUS
    <2>1. PubsubInv
        BY PubsubStart
    <2>2. /\ ntTopics = [raw |-> 0, has |-> 0, pir |-> 0, pis |-> 0, rec |-> 0]
          /\ ntFlights = <<>> /\ ntSeq = 0 /\ ntDemo = TRUE /\ ntLabels = [rec |-> 1, pipe |-> 1]
          /\ ntCount = 0
        BY Zenon DEF PubsubInit
    <2> HIDE DEF PubsubInit
    <2>3. \A k \in NtTopics : ntTopics[k] = 0
        BY <2>2 DEF NtTopics
    <2>4. \A k : ValueFits(k, 0, 0)
        BY DEF ValueFits
    <2>5. ValuesFit(ntFlights, ntSeq)
        <3>1. Len(ntFlights) = 0
            BY <2>2
        <3> QED BY <3>1 DEF ValuesFit
    <2>6. ntSeq <= ntCount /\ ntCount \in 0..NtEvents
        BY <1>0, <2>2
    <2>7. ntLabels \in [rec : 0..1, pipe : 0..1]
        BY <2>2
    <2>8. \A k \in NtTopics : ValueFits(k, ntTopics[k], ntSeq)
        BY <2>2, <2>3, <2>4, Zenon
    <2>9. ntDemo \in BOOLEAN
        BY <2>2, Zenon
    <2> QED BY <2>1, <2>5, <2>6, <2>7, <2>8, <2>9, Zenon DEF PubsubBounds
<1>2. PubsubBounds => PubsubTypeOK
    <2> SUFFICES ASSUME PubsubBounds PROVE PubsubTypeOK
        OBVIOUS
    <2>1. /\ ntFlights \in Seq(NtMessages) /\ \A i \in 1..Len(ntFlights) : OnItsWay(ntFlights[i])
          /\ ntTimers \in Seq(Thens) /\ ntSeq \in Nat /\ ntAuto \in 0..4 /\ ntPace \subseteq NtSteps
          /\ ntTopics \in [NtTopics -> Nat] /\ \A k \in NtTopics : ValueFits(k, ntTopics[k], ntSeq)
        BY Zenon DEF PubsubBounds, PubsubInv
    <2>2. /\ ntSeq <= ntCount /\ ntCount \in 0..NtEvents
          /\ ntDemo \in BOOLEAN /\ ntLabels \in [rec : 0..1, pipe : 0..1]
        BY Zenon DEF PubsubBounds
    <2>3. ntSeq \in 0..NtEvents
        <3>1. ntSeq <= ntCount /\ ntCount \in 0..NtEvents /\ ntSeq \in Nat
            BY <2>1, <2>2, Zenon
        <3> HIDE DEF PubsubBounds
        <3> HIDE <2>1, <2>2
        <3> QED BY <1>0, <3>1
    <2>4. ntTopics \in Topics
        <3>1. /\ ntTopics["has"] \in 0..1 /\ ntTopics["pir"] \in 0..1 /\ ntTopics["pis"] \in 0..1
              /\ ntTopics["rec"] \in 0..1 /\ ntTopics["raw"] \in 0..ntSeq
            BY <2>1, TopicsNamed DEF ValueFits
        <3>2. ntTopics["raw"] \in 0..NtEvents
            <4>1. ntTopics["raw"] \in 0..ntSeq /\ ntSeq \in 0..NtEvents
                BY <2>3, <3>1, Zenon
            <4> HIDE <2>1, <2>2, <3>1
            <4> QED BY <1>0, <4>1
        <3>3. DOMAIN ntTopics = {"raw", "has", "pir", "pis", "rec"}
            BY <2>1, TopicsNamed
        <3> QED BY <2>1, <3>1, <3>2, <3>3 DEF Topics, NtTopics
    <2>5. ASSUME NEW i \in DOMAIN ntFlights
          PROVE  /\ ntFlights[i].topic \in DOMAIN ntTopics /\ ntFlights[i].leg \in 1..2
                 /\ ntFlights[i].age \in 0..(NtLegs[ntFlights[i].leg] - 1) /\ ntFlights[i].then \in Thens
        <3>1. i \in 1..Len(ntFlights) /\ DOMAIN ntTopics = NtTopics
            BY <2>1
        <3>2. ntFlights[i] \in NtMessages /\ OnItsWay(ntFlights[i])
            BY <2>1, <3>1, ElementOfSeq
        <3>3. /\ ntFlights[i].topic \in NtTopics /\ ntFlights[i].leg \in 1..2
              /\ ntFlights[i].age \in Nat /\ ntFlights[i].then \in Thens
            BY <3>2 DEF NtMessages
        <3>4. ntFlights[i].age < NtLegs[ntFlights[i].leg]
            BY <3>2 DEF OnItsWay
        <3>5. ntFlights[i].age \in 0..(NtLegs[ntFlights[i].leg] - 1)
            <4>1. NtLegs[ntFlights[i].leg] \in Nat
                BY <3>3, LegsAre
            <4> QED BY <3>3, <3>4, <4>1
        <3> QED BY <3>1, <3>3, <3>5
    <2>6. \A i \in DOMAIN ntTimers : ntTimers[i] \in Thens
        BY <2>1
    <2> QED BY <2>1, <2>2, <2>3, <2>4, <2>5, <2>6, Zenon DEF PubsubTypeOK
<1>3. PubsubBounds /\ [PubsubNext]_pubsubVars => PubsubBounds'
    <2> SUFFICES ASSUME PubsubBounds, [PubsubNext]_pubsubVars PROVE PubsubBounds'
        OBVIOUS
    <2> DEFINE Fits == /\ ValuesFit(ntFlights', ntSeq')
                       /\ \A k \in NtTopics : ValueFits(k, ntTopics'[k], ntSeq')
                       /\ ntSeq' <= ntCount' /\ ntCount' \in 0..NtEvents
                       /\ ntDemo' \in BOOLEAN /\ ntLabels' \in [rec : 0..1, pipe : 0..1]
    <2>1. PubsubInv'
        BY PubsubStep DEF PubsubBounds
    <2>2. /\ ValuesFit(ntFlights, ntSeq) /\ \A k \in NtTopics : ValueFits(k, ntTopics[k], ntSeq)
          /\ ntSeq <= ntCount /\ ntCount \in 0..NtEvents
          /\ ntDemo \in BOOLEAN /\ ntLabels \in [rec : 0..1, pipe : 0..1]
          /\ ntFlights \in Seq(NtMessages) /\ ntSeq \in Nat /\ ntTimers \in Seq(Thens)
          /\ ntAuto \in 0..4
        BY Zenon DEF PubsubBounds, PubsubInv
    <2>3. ASSUME NEW event \in {"result", "record", "pipe"}, Click(event) PROVE Fits
        <3>1. Happens(event) /\ ntDemo' = FALSE
            BY <2>3 DEF Click
        <3> QED BY <3>1, EventsFit
    <2>4. ASSUME DemoPlays PROVE Fits
        <3> DEFINE event == <<"result", "result", "pipe", "result", "record">>[ntAuto + 1]
        <3>1. event \in {"result", "record", "pipe"}
            BY <2>2
        <3>2. Happens(event) /\ ntDemo' = ntDemo
            BY <2>4 DEF DemoPlays
        <3> HIDE DEF event
        <3> QED BY <2>2, <3>1, <3>2, EventsFit
    <2>5. ASSUME FliesOn PROVE Fits
        <3>1. UNCHANGED <<ntSeq, ntDemo, ntLabels, ntCount>>
            BY <2>5 DEF FliesOn
        <3> QED BY <2>2, <2>5, <3>1, FramesFit
    <2>6. ASSUME TimeoutRuns PROVE Fits
        <3>1. /\ UNCHANGED <<ntTopics, ntSeq, ntDemo, ntLabels, ntCount>> /\ ntTimers /= <<>>
              /\ Head(ntTimers) = Nothing => ntFlights' = ntFlights
              /\ Head(ntTimers) /= Nothing =>
                     ntFlights' = Append(ntFlights, Publish("pis", Head(ntTimers), Nothing))
            BY <2>6 DEF TimeoutRuns
        <3>2. Head(ntTimers) \in Thens
            BY <2>2, <3>1
        <3>3. ValuesFit(ntFlights', ntSeq')
            <4>1. CASE Head(ntTimers) = Nothing
                BY <2>2, <3>1, <4>1
            <4>2. CASE Head(ntTimers) /= Nothing
                <5> DEFINE f == Publish("pis", Head(ntTimers), Nothing)
                <5>1. Head(ntTimers) \in 0..1 /\ Head(ntTimers) \in Nat
                    BY <3>2, <4>2 DEF Thens
                <5>2. f \in NtMessages /\ f.topic = "pis" /\ f.value = Head(ntTimers)
                    BY <5>1, TopicsNamed, SentAre
                <5> HIDE DEF f
                <5>3. ValueFits(f.topic, f.value, ntSeq)
                    BY <5>1, <5>2 DEF ValueFits
                <5>4. ntSeq <= ntSeq
                    BY <2>2
                <5>5. ntFlights' = Append(ntFlights, f) /\ ntSeq' = ntSeq
                    BY <3>1, <4>2 DEF f
                <5> QED BY <2>2, <5>2, <5>3, <5>4, <5>5, OneFitMore
            <4> QED BY <4>1, <4>2
        <3> QED BY <2>2, <3>1, <3>3
    <2>7. ASSUME UNCHANGED pubsubVars PROVE Fits
        BY <2>2, <2>7 DEF pubsubVars
    <2>8. Fits
        <3> HIDE DEF Fits
        <3> QED BY <2>3, <2>4, <2>5, <2>6, <2>7, Zenon DEF PubsubNext
    <2> QED BY <2>1, <2>8, Zenon DEF PubsubBounds
<1> QED BY <1>1, <1>2, <1>3

-----------------------------------------------------------------------------
(* The page as a whole (TrainingSite): what is proved of a part by itself holds of the page,     *)
(* since a step of the page is one of each part or leaves it alone.                              *)

\* The page's start is a start of each of its parts.
LEMMA EachPartStarts ==
    Init =>
        /\ LoopInit /\ ScrollyInit /\ PlaceInit /\ LoadInit /\ JourneyInit
        /\ QuizInit /\ GlossInit /\ LayersInit /\ ServiceInit /\ BootInit
        /\ FinderInit /\ ReportInit /\ DayInit /\ PortsInit /\ SheetInit
        /\ DogInit /\ FaultInit /\ TermInit /\ DashInit /\ HammingInit
        /\ AnatomyInit /\ FadeInit /\ PipelineInit /\ FloodInit /\ QueueInit
        /\ StageInit /\ SlotInit /\ WarpInit /\ RaceInit /\ GridInit
        /\ SolveInit /\ PinInit /\ DistInit /\ BoardInit /\ CoverageInit
        /\ FieldInit /\ RealInit /\ FrameInit /\ SceneInit /\ ChainInit
        /\ AmbInit /\ MultiInit /\ KitInit /\ BusInit /\ CoreInit
        /\ TimelineInit /\ BotInit /\ RewindInit /\ PingInit /\ ExplodeInit
        /\ PhotoInit /\ ShutterInit /\ FocusInit /\ UsbInit /\ IdctInit
        /\ LowInit /\ SettingsInit /\ MailInit /\ CoordsInit /\ PubsubInit
        /\ TreeInit
BY Zenon DEF Init

\* A step of the page is a step of each of its parts, or none.
LEMMA EachPartAlone ==
    [Next]_siteVars =>
        /\ [LoopNext]_loopVars /\ [ScrollyNext]_scrollyVars /\ [PlaceNext]_placeVars
        /\ [LoadNext]_loadVars /\ [JourneyNext]_journeyVars /\ [QuizNext]_quizVars
        /\ [GlossNext]_glossVars /\ [LayersNext]_layersVars /\ [ServiceNext]_serviceVars
        /\ [BootNext]_bootVars /\ [FinderNext]_finderVars /\ [ReportNext]_reportVars
        /\ [DayNext]_dayVars /\ [PortsNext]_portsVars /\ [SheetNext]_sheetVars
        /\ [DogNext]_dogVars /\ [FaultNext]_faultVars /\ [TermNext]_termVars
        /\ [DashNext]_dashVars /\ [HammingNext]_hammingVars /\ [AnatomyNext]_anatomyVars
        /\ [FadeNext]_fadeVars /\ [PipelineNext]_pipeVars /\ [FloodNext]_floodVars
        /\ [QueueNext]_queueVars /\ [StageNext]_stageVars /\ [SlotNext]_slotVars
        /\ [WarpNext]_warpVars /\ [RaceNext]_raceVars /\ [GridNext]_gridVars
        /\ [SolveNext]_solveVars /\ [PinNext]_pinVars /\ [DistNext]_distVars
        /\ [BoardNext]_boardVars /\ [CoverageNext]_covVars /\ [FieldNext]_fieldVars
        /\ [RealNext]_realVars /\ [FrameNext]_frameVars /\ [SceneNext]_sceneVars
        /\ [ChainNext]_chainVars /\ [AmbNext]_ambVars /\ [MultiNext]_multiVars
        /\ [KitNext]_kitVars /\ [BusNext]_busVars /\ [CoreNext]_coreVars
        /\ [TimelineNext]_timelineVars /\ [BotNext]_botVars /\ [RewindNext]_rewindVars
        /\ [PingNext]_pingVars /\ [ExplodeNext]_explodeVars /\ [PhotoNext]_photoVars
        /\ [ShutterNext]_shutterVars /\ [FocusNext]_focusVars /\ [UsbNext]_usbVars
        /\ [IdctNext]_idctVars /\ [LowNext]_llVars /\ [SettingsNext]_settingsVars
        /\ [MailNext]_mailVars /\ [CoordsNext]_coordsVars /\ [PubsubNext]_pubsubVars
        /\ [TreeNext]_treeVars
<1> SUFFICES ASSUME [Next]_siteVars
             PROVE  /\ [LoopNext]_loopVars /\ [ScrollyNext]_scrollyVars
                    /\ [PlaceNext]_placeVars /\ [LoadNext]_loadVars
                    /\ [JourneyNext]_journeyVars /\ [QuizNext]_quizVars
                    /\ [GlossNext]_glossVars /\ [LayersNext]_layersVars
                    /\ [ServiceNext]_serviceVars /\ [BootNext]_bootVars
                    /\ [FinderNext]_finderVars /\ [ReportNext]_reportVars
                    /\ [DayNext]_dayVars /\ [PortsNext]_portsVars
                    /\ [SheetNext]_sheetVars /\ [DogNext]_dogVars
                    /\ [FaultNext]_faultVars /\ [TermNext]_termVars
                    /\ [DashNext]_dashVars /\ [HammingNext]_hammingVars
                    /\ [AnatomyNext]_anatomyVars /\ [FadeNext]_fadeVars
                    /\ [PipelineNext]_pipeVars /\ [FloodNext]_floodVars
                    /\ [QueueNext]_queueVars /\ [StageNext]_stageVars
                    /\ [SlotNext]_slotVars /\ [WarpNext]_warpVars
                    /\ [RaceNext]_raceVars /\ [GridNext]_gridVars
                    /\ [SolveNext]_solveVars /\ [PinNext]_pinVars
                    /\ [DistNext]_distVars /\ [BoardNext]_boardVars
                    /\ [CoverageNext]_covVars /\ [FieldNext]_fieldVars
                    /\ [RealNext]_realVars /\ [FrameNext]_frameVars
                    /\ [SceneNext]_sceneVars /\ [ChainNext]_chainVars
                    /\ [AmbNext]_ambVars /\ [MultiNext]_multiVars
                    /\ [KitNext]_kitVars /\ [BusNext]_busVars
                    /\ [CoreNext]_coreVars /\ [TimelineNext]_timelineVars
                    /\ [BotNext]_botVars /\ [RewindNext]_rewindVars
                    /\ [PingNext]_pingVars /\ [ExplodeNext]_explodeVars
                    /\ [PhotoNext]_photoVars /\ [ShutterNext]_shutterVars
                    /\ [FocusNext]_focusVars /\ [UsbNext]_usbVars
                    /\ [IdctNext]_idctVars /\ [LowNext]_llVars
                    /\ [SettingsNext]_settingsVars /\ [MailNext]_mailVars
                    /\ [CoordsNext]_coordsVars /\ [PubsubNext]_pubsubVars
                    /\ [TreeNext]_treeVars
    OBVIOUS
<1>1. CASE Next
    BY <1>1, Zenon DEF Next
<1>2. CASE UNCHANGED siteVars
    BY <1>2, Zenon DEF siteVars
<1> QED BY <1>1, <1>2

\* The page behaves, in each of its parts, as the part by itself: so every theorem about a part's
\* specification is one about the page.
THEOREM PageRunsItsParts ==
    Spec => /\ LoopSpec /\ ScrollySpec /\ PlaceSpec /\ LoadSpec
            /\ LayersSpec /\ ServiceSpec /\ DaySpec /\ PipelineSpec
            /\ SolveSpec /\ LowSpec /\ SettingsSpec /\ CoordsSpec
<1>1. Spec => LoopSpec /\ ScrollySpec /\ PlaceSpec /\ LoadSpec
    BY EachPartStarts, EachPartAlone, PTL DEF Spec, LoopSpec, ScrollySpec, PlaceSpec, LoadSpec
<1>2. Spec => LayersSpec /\ ServiceSpec /\ DaySpec /\ PipelineSpec
    BY EachPartStarts, EachPartAlone, PTL DEF Spec, LayersSpec, ServiceSpec, DaySpec, PipelineSpec
<1>3. Spec => SolveSpec /\ LowSpec /\ SettingsSpec /\ CoordsSpec
    BY EachPartStarts, EachPartAlone, PTL DEF Spec, SolveSpec, LowSpec, SettingsSpec, CoordsSpec
<1> QED BY <1>1, <1>2, <1>3

\* What the browser and the page keep of the reader's answers, ticks, bench pages and terms is what
\* the reader did and left, through every reload, switch of the tour and loss of the storage
\* (ch/17-finale.js, ch/19-coords.js, ch/20-camsetup.js, ch/21-pit.js).
THEOREM KeptIsAsSeen == Spec => []KeptAsSeen
<1>1. Init => QuizTrue /\ (SheetTypeOK /\ SheetOfCamera) /\ GlossaryFiltered
    BY EachPartStarts, QuizStart, SheetStart, GlossStart
<1>2. /\ QuizTrue /\ [Next]_siteVars => QuizTrue'
      /\ (SheetTypeOK /\ SheetOfCamera) /\ [Next]_siteVars => (SheetTypeOK /\ SheetOfCamera)'
      /\ GlossaryFiltered /\ [Next]_siteVars => GlossaryFiltered'
    BY EachPartAlone, QuizStep, SheetStep, GlossStep
<1>3. QuizTrue /\ TickedToday /\ SheetOfCamera /\ QuizFair /\ GlossaryFiltered => KeptAsSeen
    BY DEF KeptAsSeen
<1> QED BY <1>1, <1>2, <1>3, PageRunsItsParts, TicksAreTodays, QuizIsFair, PTL DEF Spec

\* Each story of the page is one: the log of the last crash (ch/06-linux.js), the fault picked last
\* and the file typed once (ch/16-failsafes.js), the line of frames at the GPU with a place for each
\* (ch/08-cuda.js), a lab's own time within the time it was seen (site.js).
THEOREM StoriesStayOne == Spec => []OneStoryAtATime
<1>1. Init => LitInv /\ TypedInv /\ LineInv
    BY EachPartStarts, LitStart, TypedStart, LineStart
<1>2. /\ LitInv /\ [Next]_siteVars => LitInv'
      /\ TypedInv /\ [Next]_siteVars => TypedInv'
      /\ LineInv /\ [Next]_siteVars => LineInv'
    BY EachPartAlone, LitStep, TypedStep, LineStep
<1>3. OneCrashTold /\ LitInv /\ TypedInv /\ LineInv /\ OnlySeenTime => OneStoryAtATime
    BY LitIsByTheSteps, LineIsInOrder DEF OneStoryAtATime, TypedInv
<1> QED BY <1>1, <1>2, <1>3, PageRunsItsParts, CrashIsToldOnce, LoopsStaySingle, PTL DEF Spec

\* However the pixels of a picture of any size are coloured, both ways of finding its blobs, joining
\* pixels to their neighbours and filling from one pixel over its neighbours', end with the blobs
\* and their sizes (ch/02-apriltags.js, ch/08-cuda.js).
THEOREM PicturesInBlobsAlways == Spec => []PicturesInBlobs
<1>1. Init => FillInv
    BY EachPartStarts, FillStart
<1>2. FillInv /\ [Next]_siteVars => FillInv'
    BY EachPartAlone, FillStep
<1>3. BlobsAreComponents /\ FillInv => PicturesInBlobs
    BY FloodFound DEF PicturesInBlobs
<1> QED BY <1>1, <1>2, <1>3, PageRunsItsParts, UnionFindFindsBlobs, PTL DEF Spec

\* What the page shows is of the settings, the step or the pick that is set now, in each of these
\* labs, whatever comes late and however the reader goes on meanwhile (ch/02, 03, 04, 05, 08, 11,
\* 12, 14, 17, 19).
THEOREM ShownIsOfNow == Spec => []ShownIsCurrent
<1>1. Init => /\ JourneyTime /\ JourneyInv
              /\ FadeInv /\ CaptionOfStage /\ FiguresOfSettings /\ PictureInv
              /\ KitAsScrolled /\ CountsInv /\ PingInv /\ HeadInv
              /\ cvSnaps <= CovFull /\ CoverageInv
              /\ ShutterInv
    BY EachPartStarts, JourneyStart, FadeStart, StageStart, FiguresStart, PictureStart, KitStart,
       CountsStart, PingStart, HeadStart, CoverageStart, ShutterStart
<1>2. /\ JourneyTime /\ JourneyInv /\ [Next]_siteVars => (JourneyTime /\ JourneyInv)'
      /\ FadeInv /\ [Next]_siteVars => FadeInv'
      /\ CaptionOfStage /\ [Next]_siteVars => CaptionOfStage'
      /\ FiguresOfSettings /\ [Next]_siteVars => FiguresOfSettings'
      /\ PictureInv /\ [Next]_siteVars => PictureInv'
      /\ KitAsScrolled /\ [Next]_siteVars => KitAsScrolled'
    BY EachPartAlone, JourneyStep, FadeStep, StageStep, FiguresStep, PictureStep, KitMoves
<1>3. /\ CountsInv /\ [Next]_siteVars => CountsInv'
      /\ PingInv /\ [Next]_siteVars => PingInv'
      /\ HeadInv /\ [Next]_siteVars => HeadInv'
      /\ (cvSnaps <= CovFull /\ CoverageInv) /\ [Next]_siteVars => (cvSnaps <= CovFull /\ CoverageInv)'
      /\ ShutterInv /\ [Next]_siteVars => ShutterInv'
    BY EachPartAlone, CountsStep, PingStep, HeadStep, CoverageStep, ShutterStep
<1>4. /\ JourneyInv /\ FadeInv /\ CaptionOfStage /\ FiguresOfSettings /\ PictureInv
      /\ KitAsScrolled /\ CountsInv /\ PingInv /\ HeadInv /\ CoverageInv /\ ShutterInv
      /\ PresetIsSet /\ CodeOfRobot
      => ShownIsCurrent
    BY FadesEnd, SolvesSettle
       DEF ShownIsCurrent, JourneyInv, PictureInv, CountsInv, PingInv, HeadInv, ShutterInv
<1> QED BY <1>1, <1>2, <1>3, <1>4, PageRunsItsParts, PresetNamedIsSet, CodeIsOfRobot, PTL DEF Spec

\* What the page plays goes forward: the journey's clock (ch/17-finale.js), the card of the latency
\* timeline with the playhead (ch/14-latency.js), the frames taken from a camera (ch/10-speed.js).
THEOREM PlaysForward == Spec => PlaybackForward
<1>1. Init => (JourneyTime /\ JourneyInv) /\ CardInv
    BY EachPartStarts, JourneyStart, CardStart
<1>2. /\ (JourneyTime /\ JourneyInv) /\ [Next]_siteVars => (JourneyTime /\ JourneyInv)'
      /\ CardInv /\ [Next]_siteVars => CardInv'
    BY EachPartAlone, JourneyStep, CardStep
<1>3. JourneyTime /\ [Next]_siteVars =>
          [jnPlaying /\ jnPlaying' => JourneyClock(jnT') >= JourneyClock(jnT)]_journeyVars
    BY EachPartAlone, ClockStep
<1>4. CardInv /\ [Next]_siteVars =>
          [tlPlaying /\ tlPlaying' /\ tlTime' /= tlTime /\ RowAt(tlTime') /= 0 =>
              tlCard' \in {RowAt(tlTime'), tlSel'}]_timelineVars
    BY EachPartAlone, CardTells
<1>5. Spec => JourneyClockForward
    BY <1>1, <1>2, <1>3, PTL DEF Spec, JourneyClockForward
<1>6. Spec => CardOfPlayhead
    BY <1>1, <1>2, <1>4, PTL DEF Spec, CardOfPlayhead
<1> QED BY <1>5, <1>6, PageRunsItsParts, FramesNeverRepeat, PTL DEF PlaybackForward

\* What the page explains is true of what it explains: the notes of the ports, of the trail of
\* questions and of the reports (ch/12, 21), the solved robot (ch/12-pose.js), the bus's table, the
\* zigzag and the frames that waiting loses (ch/10-speed.js), and what the robot read of its mailbox
\* (ch/18-photonlib.js), whatever the reader sets and in whatever order.
THEOREM NotesAreTrue == Spec => []NotesTellTruth
<1>1. Init => /\ PortsInv /\ Trail(ptPath) /\ rpReport \in {"ok", "hit"} /\ SceneInv
              /\ UsbInv /\ IdctTypeOK /\ MailTypeOK
    BY EachPartStarts, PortsStart, TrailStart, ReportStart, SceneStart, UsbStart, IdctStart, MailStart
<1>2. /\ PortsInv /\ [Next]_siteVars => PortsInv'
      /\ Trail(ptPath) /\ [Next]_siteVars => Trail(ptPath)'
      /\ rpReport \in {"ok", "hit"} /\ [Next]_siteVars => (rpReport \in {"ok", "hit"})'
      /\ SceneInv /\ [Next]_siteVars => SceneInv'
    BY EachPartAlone, PortsStep, TrailStep, ReportStep, SceneStep
<1>3. /\ UsbInv /\ [Next]_siteVars => UsbInv'
      /\ IdctTypeOK /\ [Next]_siteVars => IdctTypeOK'
      /\ MailTypeOK /\ [Next]_siteVars => MailTypeOK'
    BY EachPartAlone, UsbStep, IdctStep, MailStep
<1>4. PortsInv /\ Trail(ptPath) /\ rpReport \in {"ok", "hit"} /\ SceneInv =>
          NoteTellsPorts /\ TrailLeadsHere /\ NotesAllPlaced /\ SameSceneSameSolve
    BY NoteIsTrue, TrailIsTrue, NotesPlaced DEF SceneInv, SameSceneSameSolve
<1>5. UsbInv /\ IdctTypeOK /\ MailTypeOK => UsbTableTrue /\ ZigzagKeeps /\ MailboxTrue
    BY TableIsTrue, ZigzagIsKept, MailboxIsTrue
<1>6. /\ NoteTellsPorts /\ TrailLeadsHere /\ NotesAllPlaced /\ SameSceneSameSolve
      /\ UsbTableTrue /\ ZigzagKeeps /\ WaitingLoses /\ NewestTaken /\ MailboxTrue
      => NotesTellTruth
    BY DEF NotesTellTruth
<1> QED BY <1>1, <1>2, <1>3, <1>4, <1>5, <1>6, PageRunsItsParts, WaitingNeverGains, FramesAreNewest,
           PTL DEF Spec

\* On a display whose frames take the same time each, the publish/subscribe diagram shows in the end
\* the last result published and the answer to the last request, and the row hasTarget is about the
\* result shown at any moment, on every display (ch/15-networktables.js), for any length of the
\* legs, any click at any moment, and answers whose timers run while the frames stand still.
THEOREM RequestsAreAnswered == Spec => []StateAnswersRequest
<1>1. Init => PubsubInv
    BY EachPartStarts, PubsubStart
<1>2. PubsubInv /\ [Next]_siteVars => PubsubInv'
    BY EachPartAlone, PubsubStep
<1> QED BY <1>1, <1>2, PubsubAnswers, PTL DEF Spec

\* Whatever the reader of the Hamming lab (ch/02-apriltags.js) flips, turns or draws, a pattern
\* up to five squares off a tag is read as that tag, with no other tag as near: the codes are far
\* apart, turning moves a pattern and the codes alike, and distances obey the triangle inequality.
THEOREM NearestTagIsRead == Spec => []NearestTagIsTheTag
<1>1. Init => HammingTypeOK
    BY EachPartStarts, HammingStart
<1>2. HammingTypeOK /\ [Next]_siteVars => HammingTypeOK'
    BY EachPartAlone, HammingStep
<1>3. HammingTypeOK => NearestTagIsTheTag
    BY NearestIsRead DEF NearestTagIsTheTag
<1> QED BY <1>1, <1>2, <1>3, PTL DEF Spec

\* Everything the page's parts keep stays of its type: the reader's place and the history, the
\* queue's frames, the watchdog's hunger, a solver's steps, the flood's stack and the sizes of its
\* blobs, the messages on their way and the values the server shows (site.js and the labs of ch/01
\* to ch/21), for every value of the constants.
THEOREM SiteTypesHold == Spec => []SiteTypeOK
\* The page's own parts (site.js), the finale and the glossary.
<1>1. Spec => [](/\ LoopTypeOK /\ ScrollyTypeOK /\ PlaceTypeOK /\ LoadTypeOK /\ JourneyTypeOK
                 /\ QuizTypeOK /\ GlossTypeOK /\ LayersTypeOK /\ ServiceTypeOK /\ BootTypeOK)
    <2>1. Init =>
              /\ (LoopInv /\ LoopTypeOK) /\ ScrollyInv /\ PlaceInv /\ (LoadInv /\ LoadTypeOK)
              /\ JourneyTypeOK /\ QuizTypeOK /\ GlossTypeOK /\ LayersTypeOK /\ ServiceTypeOK
              /\ BootTypeOK
        BY EachPartStarts, LoopTypes, ScrollyStart, PlaceStart, LoadTypes, JourneyTypes,
           QuizTypes, GlossTypes, LayersTypes, ServiceTypes, BootTypes
    <2>2. /\ (LoopInv /\ LoopTypeOK) /\ [Next]_siteVars => (LoopInv /\ LoopTypeOK)'
          /\ ScrollyInv /\ [Next]_siteVars => ScrollyInv'
          /\ PlaceInv /\ [Next]_siteVars => PlaceInv'
          /\ (LoadInv /\ LoadTypeOK) /\ [Next]_siteVars => (LoadInv /\ LoadTypeOK)'
          /\ JourneyTypeOK /\ [Next]_siteVars => JourneyTypeOK'
          /\ QuizTypeOK /\ [Next]_siteVars => QuizTypeOK'
          /\ GlossTypeOK /\ [Next]_siteVars => GlossTypeOK'
          /\ LayersTypeOK /\ [Next]_siteVars => LayersTypeOK'
          /\ ServiceTypeOK /\ [Next]_siteVars => ServiceTypeOK'
          /\ BootTypeOK /\ [Next]_siteVars => BootTypeOK'
        BY EachPartAlone, LoopTypes, ScrollyStep, PlaceStep, LoadTypes, JourneyTypes, QuizTypes,
           GlossTypes, LayersTypes, ServiceTypes, BootTypes
    <2>3. /\ ScrollyInv => ScrollyTypeOK
          /\ PlaceInv => PlaceTypeOK
        BY DEF ScrollyInv, PlaceInv
    <2> QED BY <2>1, <2>2, <2>3, PTL DEF Spec
\* The pit, the camera setup and the failsafes.
<1>2. Spec => [](/\ FinderTypeOK /\ ReportTypeOK /\ DayTypeOK /\ PortsTypeOK /\ SheetTypeOK
                 /\ DogTypeOK /\ FaultTypeOK /\ TermTypeOK /\ DashTypeOK)
    <2>1. Init =>
              /\ Trail(ptPath) /\ ReportTypeOK /\ DayTypeOK /\ (PortsInv /\ PortsTypeOK)
              /\ (SheetTypeOK /\ SheetOfCamera) /\ DogInv /\ FaultTypeOK /\ TypedBounds
              /\ DashTypeOK
        BY EachPartStarts, TrailStart, ReportTypes, DayTypes, PortsStart, PortsTypes, SheetStart,
           DogTypes, FaultTypes, TermTypes, DashTypes
    <2>2. /\ Trail(ptPath) /\ [Next]_siteVars => Trail(ptPath)'
          /\ ReportTypeOK /\ [Next]_siteVars => ReportTypeOK'
          /\ DayTypeOK /\ [Next]_siteVars => DayTypeOK'
          /\ (PortsInv /\ PortsTypeOK) /\ [Next]_siteVars => (PortsInv /\ PortsTypeOK)'
          /\ (SheetTypeOK /\ SheetOfCamera) /\ [Next]_siteVars => (SheetTypeOK /\ SheetOfCamera)'
          /\ DogInv /\ [Next]_siteVars => DogInv'
          /\ FaultTypeOK /\ [Next]_siteVars => FaultTypeOK'
          /\ TypedBounds /\ [Next]_siteVars => TypedBounds'
          /\ DashTypeOK /\ [Next]_siteVars => DashTypeOK'
        BY EachPartAlone, TrailStep, ReportTypes, DayTypes, PortsStep, PortsTypes, SheetStep,
           DogTypes, FaultTypes, TermTypes, DashTypes
    <2>3. /\ Trail(ptPath) => FinderTypeOK
          /\ DogInv => DogTypeOK
          /\ TypedBounds => TermTypeOK
        BY TrailHasType DEF DogInv, TypedBounds
    <2> QED BY <2>1, <2>2, <2>3, PTL DEF Spec
\* The tags' labs and the pictures' blobs, and those of CUDA.
<1>3. Spec => [](/\ HammingTypeOK /\ AnatomyTypeOK /\ FadeTypeOK /\ PipelineTypeOK /\ FloodTypeOK
                 /\ QueueTypeOK /\ StageTypeOK /\ SlotTypeOK /\ WarpTypeOK /\ RaceTypeOK
                 /\ GridTypeOK)
    <2>1. Init =>
              /\ HammingTypeOK /\ AnatomyTypeOK /\ FadeBounds /\ PipelineBounds /\ FloodBounds
              /\ QueueBounds /\ StageTypeOK /\ SlotTypeOK /\ WarpTypeOK /\ RaceTypeOK
              /\ GridTypeOK
        BY EachPartStarts, HammingStart, AnatomyTypes, FadeTypes, PipelineTypes, FloodTypes,
           QueueTypes, StageTypes, SlotTypes, WarpTypes, RaceTypes, GridTypes
    <2>2. /\ HammingTypeOK /\ [Next]_siteVars => HammingTypeOK'
          /\ AnatomyTypeOK /\ [Next]_siteVars => AnatomyTypeOK'
          /\ FadeBounds /\ [Next]_siteVars => FadeBounds'
          /\ PipelineBounds /\ [Next]_siteVars => PipelineBounds'
          /\ FloodBounds /\ [Next]_siteVars => FloodBounds'
          /\ QueueBounds /\ [Next]_siteVars => QueueBounds'
          /\ StageTypeOK /\ [Next]_siteVars => StageTypeOK'
          /\ SlotTypeOK /\ [Next]_siteVars => SlotTypeOK'
          /\ WarpTypeOK /\ [Next]_siteVars => WarpTypeOK'
          /\ RaceTypeOK /\ [Next]_siteVars => RaceTypeOK'
          /\ GridTypeOK /\ [Next]_siteVars => GridTypeOK'
        BY EachPartAlone, HammingStep, AnatomyTypes, FadeTypes, PipelineTypes, FloodTypes,
           QueueTypes, StageTypes, SlotTypes, WarpTypes, RaceTypes, GridTypes
    <2>3. /\ FadeBounds => FadeTypeOK
          /\ PipelineBounds => PipelineTypeOK
          /\ FloodBounds => FloodTypeOK
          /\ QueueBounds => QueueTypeOK
        BY PipelineTypes, FloodTypes DEF FadeBounds, QueueBounds
    <2> QED BY <2>1, <2>2, <2>3, PTL DEF Spec
\* Calibration and pose.
<1>4. Spec => [](/\ SolveTypeOK /\ PinTypeOK /\ DistTypeOK /\ BoardTypeOK /\ CoverageTypeOK
                 /\ FieldTypeOK /\ RealTypeOK /\ FrameTypeOK /\ SceneTypeOK /\ ChainTypeOK
                 /\ AmbTypeOK /\ MultiTypeOK)
    <2>1. Init =>
              /\ StepsBound /\ PinTypeOK /\ DistTypeOK /\ BoardTypeOK /\ CoverageBounds
              /\ FieldInv /\ RealTypeOK /\ FrameTypeOK /\ SceneBounds /\ ChainTypeOK /\ AmbTypeOK
              /\ MultiTypeOK
        BY EachPartStarts, SolveTypes, PinTypes, DistTypes, BoardTypes, CoverageTypes, FieldTypes,
           RealTypes, FrameTypes, SceneTypes, ChainTypes, AmbTypes, MultiTypes
    <2>2. /\ StepsBound /\ [Next]_siteVars => StepsBound'
          /\ PinTypeOK /\ [Next]_siteVars => PinTypeOK'
          /\ DistTypeOK /\ [Next]_siteVars => DistTypeOK'
          /\ BoardTypeOK /\ [Next]_siteVars => BoardTypeOK'
          /\ CoverageBounds /\ [Next]_siteVars => CoverageBounds'
          /\ FieldInv /\ [Next]_siteVars => FieldInv'
          /\ RealTypeOK /\ [Next]_siteVars => RealTypeOK'
          /\ FrameTypeOK /\ [Next]_siteVars => FrameTypeOK'
          /\ SceneBounds /\ [Next]_siteVars => SceneBounds'
          /\ ChainTypeOK /\ [Next]_siteVars => ChainTypeOK'
          /\ AmbTypeOK /\ [Next]_siteVars => AmbTypeOK'
          /\ MultiTypeOK /\ [Next]_siteVars => MultiTypeOK'
        BY EachPartAlone, SolveTypes, PinTypes, DistTypes, BoardTypes, CoverageTypes, FieldTypes,
           RealTypes, FrameTypes, SceneTypes, ChainTypes, AmbTypes, MultiTypes
    <2>3. /\ StepsBound => SolveTypeOK
          /\ CoverageBounds => CoverageTypeOK
          /\ FieldInv => FieldTypeOK
          /\ SceneBounds => SceneTypeOK
        BY DEF StepsBound, CoverageBounds, FieldInv, SceneBounds
    <2> QED BY <2>1, <2>2, <2>3, PTL DEF Spec
\* The Jetson, the latencies and the camera.
<1>5. Spec => [](/\ KitTypeOK /\ BusTypeOK /\ CoreTypeOK /\ TimelineTypeOK /\ BotTypeOK
                 /\ RewindTypeOK /\ PingTypeOK /\ ExplodeTypeOK /\ PhotoTypeOK /\ ShutterTypeOK
                 /\ FocusTypeOK)
    <2>1. Init =>
              /\ KitTypeOK /\ BusTypeOK /\ CoreTypeOK /\ TimelineTypeOK /\ BotBounds
              /\ RewindTypeOK /\ PingBounds /\ ExplodeTypeOK /\ PhotoTypeOK /\ ShutterBounds
              /\ FocusTypeOK
        BY EachPartStarts, KitTypes, BusTypes, CoreTypes, TimelineTypes, BotTypes, RewindTypes,
           PingTypes, ExplodeTypes, PhotoTypes, ShutterTypes, FocusTypes
    <2>2. /\ KitTypeOK /\ [Next]_siteVars => KitTypeOK'
          /\ BusTypeOK /\ [Next]_siteVars => BusTypeOK'
          /\ CoreTypeOK /\ [Next]_siteVars => CoreTypeOK'
          /\ TimelineTypeOK /\ [Next]_siteVars => TimelineTypeOK'
          /\ BotBounds /\ [Next]_siteVars => BotBounds'
          /\ RewindTypeOK /\ [Next]_siteVars => RewindTypeOK'
          /\ PingBounds /\ [Next]_siteVars => PingBounds'
          /\ ExplodeTypeOK /\ [Next]_siteVars => ExplodeTypeOK'
          /\ PhotoTypeOK /\ [Next]_siteVars => PhotoTypeOK'
          /\ ShutterBounds /\ [Next]_siteVars => ShutterBounds'
          /\ FocusTypeOK /\ [Next]_siteVars => FocusTypeOK'
        BY EachPartAlone, KitTypes, BusTypes, CoreTypes, TimelineTypes, BotTypes, RewindTypes,
           PingTypes, ExplodeTypes, PhotoTypes, ShutterTypes, FocusTypes
    <2>3. /\ BotBounds => BotTypeOK
          /\ PingBounds => PingTypeOK
          /\ ShutterBounds => ShutterTypeOK
        BY DEF BotBounds, PingBounds, ShutterBounds
    <2> QED BY <2>1, <2>2, <2>3, PTL DEF Spec
\* Speed, settings, the mailbox, the field and the network tables.
<1>6. Spec => [](/\ UsbTypeOK /\ IdctTypeOK /\ LowTypeOK /\ SettingsTypeOK /\ MailTypeOK
                 /\ CoordsTypeOK /\ PubsubTypeOK /\ TreeTypeOK)
    <2>1. Init =>
              /\ UsbBounds /\ IdctTypeOK /\ LowInv /\ SettingsBounds /\ MailTypeOK /\ AskedInv
              /\ PubsubBounds /\ TreeTypeOK
        BY EachPartStarts, UsbTypes, IdctStart, LowInvInit, SettingsTypes, MailStart, CoordsTypes,
           PubsubTypes, TreeTypes
    <2>2. /\ UsbBounds /\ [Next]_siteVars => UsbBounds'
          /\ IdctTypeOK /\ [Next]_siteVars => IdctTypeOK'
          /\ LowInv /\ [Next]_siteVars => LowInv'
          /\ SettingsBounds /\ [Next]_siteVars => SettingsBounds'
          /\ MailTypeOK /\ [Next]_siteVars => MailTypeOK'
          /\ AskedInv /\ [Next]_siteVars => AskedInv'
          /\ PubsubBounds /\ [Next]_siteVars => PubsubBounds'
          /\ TreeTypeOK /\ [Next]_siteVars => TreeTypeOK'
        BY EachPartAlone, UsbTypes, IdctStep, LowInvHolds, SettingsTypes, MailStep, CoordsTypes,
           PubsubTypes, TreeTypes
    <2>3. /\ UsbBounds => UsbTypeOK
          /\ LowInv => LowTypeOK
          /\ SettingsBounds => SettingsTypeOK
          /\ AskedInv => CoordsTypeOK
          /\ PubsubBounds => PubsubTypeOK
        BY UsbTypes, CoordsTypes, PubsubTypes DEF LowInv, SettingsBounds
    <2> QED BY <2>1, <2>2, <2>3, PTL DEF Spec
<1> QED BY <1>1, <1>2, <1>3, <1>4, <1>5, <1>6, PTL DEF SiteTypeOK

=============================================================================
