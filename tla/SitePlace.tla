----------------------------- MODULE SitePlace -----------------------------
(***************************************************************************)
(* The version of the course being read (short tour or full course) and    *)
(* the reader's place in it (src/training/js/site.js): both live in the    *)
(* page, in the browser's history entries and in its storage, and the      *)
(* reader moves with links, Back and Forward, reloads and switches of      *)
(* version while the page above is still growing.                          *)
(*                                                                         *)
(* A place is an element that can be at the reading line; Top is the top   *)
(* of the page.  A pin holds the anchor at the reading line until it runs  *)
(* out or the reader does something.                                       *)
(***************************************************************************)
EXTENDS Naturals, Sequences

CONSTANTS
    Places,       \* the elements a link can lead to, Top not among them
    FullPlaces,   \* those the short tour hides
    Top,
    NoPlace,
    MaxEntries    \* bound: history entries of the tab

ASSUME PlacesAssumption ==
    /\ FullPlaces \subseteq Places
    /\ Top \notin Places /\ NoPlace \notin Places /\ Top /= NoPlace
    /\ MaxEntries \in Nat \ {0}

VARIABLES
    plMode,    \* Site.mode
    plSaved,   \* localStorage vt-mode
    plEntries, \* the tab's history: address and state of each entry
    plAt,      \* the current entry
    plView,    \* what is at the reading line
    plAnchor,  \* anchor, NoPlace for null
    plPinned   \* performance.now() < pinUntil

placeVars == <<plMode, plSaved, plEntries, plAt, plView, plAnchor, plPinned>>

Modes == {"short", "full"}
Anywhere == Places \union {Top}
Visible(mode) == IF mode = "full" THEN Anywhere ELSE Anywhere \ FullPlaces

\* An entry: the mode and target its address names, the place its state holds, and
\* (history) the place a link was followed from while it was the current entry.
Entries == [mode : Modes, hash : Anywhere \union {NoPlace},
            place : Anywhere \union {NoPlace}, left : Anywhere \union {NoPlace}]

PlaceTypeOK ==
    /\ plMode \in Modes
    /\ plSaved \in Modes
    /\ plEntries \in Seq(Entries) /\ Len(plEntries) \in 1..MaxEntries
    /\ plAt \in 1..Len(plEntries)
    /\ plView \in Visible(plMode)
    /\ plAnchor \in Anywhere
    /\ plPinned \in BOOLEAN

\* A first visit: the address names no mode, so the last choice decides, and chrome() and
\* restorePlace() put the mode in the address and take the anchor.
PlaceInit ==
    /\ plSaved \in Modes
    /\ plMode = plSaved
    /\ plEntries = <<[mode |-> plMode, hash |-> NoPlace, place |-> NoPlace, left |-> NoPlace]>>
    /\ plAt = 1
    /\ plView = Top
    /\ plAnchor = Top
    /\ plPinned = FALSE

\* applyAnchor: an element that is not shown is left alone.
Applied(anchor, view, mode) == IF anchor \in Visible(mode) THEN anchor ELSE view

Pin(anchor, view, mode) ==
    /\ plAnchor' = anchor
    /\ plPinned' = TRUE
    /\ plView' = Applied(anchor, view, mode)

\* showInUrl: history.replaceState with the entry's own state.
ShowInUrl(entries, mode) == [entries EXCEPT ![plAt] = [@ EXCEPT !.mode = mode]]

\* setMode: the click has released the pin.  What was at the reading line stays there unless
\* the new mode hides it.
SetMode(mode) ==
    /\ plMode' = mode
    /\ plSaved' = mode
    /\ plEntries' = ShowInUrl(plEntries, mode)
    /\ plPinned' = FALSE
    /\ IF plView \in Visible(mode)
       THEN UNCHANGED <<plView, plAnchor>>
       ELSE \E view \in Visible(mode) : plView' = view /\ plAnchor' = view
    /\ UNCHANGED plAt

\* history.pushState: the entries ahead of the current one are gone.
Pushed(entries, entry) == Append(SubSeq(entries, 1, plAt), entry)

\* Mutant: the link's new entry is pushed without noting the place in the old one.
Noted0(entries) == [entries EXCEPT ![plAt] = [@ EXCEPT !.left = plView]]

\* goTo's replaceState: here is where Back returns to.
Noted(entries) == [entries EXCEPT ![plAt] = [@ EXCEPT !.place = plView, !.left = plView]]

\* A link to an element that is shown: goTo.
FollowLink(target) ==
    /\ target \in Visible(plMode)
    /\ plAt < MaxEntries
    /\ plEntries' = Pushed(Noted(plEntries),
                           [mode |-> plEntries[plAt].mode, hash |-> target,
                            place |-> NoPlace, left |-> NoPlace])
    /\ plAt' = plAt + 1
    /\ Pin(target, plView, plMode)
    /\ UNCHANGED <<plMode, plSaved>>

\* A link to an element this mode hides: goTo declines and the browser follows it, which
\* changes the address and scrolls nowhere.
FollowHiddenLink(target) ==
    /\ target \notin Visible(plMode)
    /\ plAt < MaxEntries
    /\ plEntries' = Pushed(plEntries, [mode |-> plEntries[plAt].mode, hash |-> target,
                                       place |-> NoPlace, left |-> NoPlace])
    /\ plAt' = plAt + 1
    /\ plPinned' = FALSE
    /\ UNCHANGED <<plMode, plSaved, plView, plAnchor>>

\* The link to the top: the new entry takes over the old one's state.
FollowTopLink ==
    /\ plAt < MaxEntries
    /\ plEntries' = Pushed(plEntries, [plEntries[plAt] EXCEPT !.hash = Top, !.left = NoPlace])
    /\ plAt' = plAt + 1
    /\ Pin(Top, plView, plMode)
    /\ UNCHANGED <<plMode, plSaved>>

\* popstate, after Back or Forward: to the place the entry holds, or else to its target.
Traverse(to) ==
    /\ to \in 1..Len(plEntries) \ {plAt}
    /\ plAt' = to
    /\ LET entry == plEntries[to]
       IN  CASE entry.place /= NoPlace -> Pin(entry.place, plView, plMode)
             [] entry.place = NoPlace /\ entry.hash \in Visible(plMode) ->
                   Pin(entry.hash, plView, plMode)
             [] OTHER -> UNCHANGED <<plView, plAnchor, plPinned>>
    /\ UNCHANGED <<plMode, plSaved, plEntries>>

\* pagehide, then the same entry loaded again: the mode is the one its address names, and
\* restorePlace pins the place kept in sessionStorage.
Reload ==
    /\ plMode' = plEntries[plAt].mode
    /\ Pin(plView, Top, plMode')
    /\ UNCHANGED <<plSaved, plEntries, plAt>>

\* Mutant: the page grows and nothing holds the anchor.
GrowsUnheld(view) ==
    /\ view \in Visible(plMode)
    /\ plView' = view
    /\ UNCHANGED <<plMode, plSaved, plEntries, plAt, plAnchor, plPinned>>

\* A chapter above starts up or changes size; the ResizeObserver holds a pinned anchor.
Grows(view) ==
    /\ view \in Visible(plMode)
    /\ plView' = IF plPinned THEN Applied(plAnchor, view, plMode) ELSE view
    /\ UNCHANGED <<plMode, plSaved, plEntries, plAt, plAnchor, plPinned>>

\* The pin runs out, or wheel, touchstart, keydown or pointerdown releases it.
Release ==
    /\ plPinned
    /\ plPinned' = FALSE
    /\ UNCHANGED <<plMode, plSaved, plEntries, plAt, plView, plAnchor>>

\* The reader scrolls, which released the pin, and the anchor follows.
Scroll(view) ==
    /\ ~plPinned
    /\ view \in Visible(plMode)
    /\ plView' = view
    /\ plAnchor' = view
    /\ UNCHANGED <<plMode, plSaved, plEntries, plAt, plPinned>>

\* The window's width changes: back to the anchor.
Resize ==
    /\ Pin(plAnchor, plView, plMode)
    /\ UNCHANGED <<plMode, plSaved, plEntries, plAt>>

PlaceNext ==
    \/ \E mode \in Modes : SetMode(mode)
    \/ \E target \in Places : FollowLink(target) \/ FollowHiddenLink(target)
    \/ FollowTopLink
    \/ \E to \in 1..MaxEntries : Traverse(to)
    \/ Reload
    \/ \E view \in Anywhere : Grows(view) \/ Scroll(view)
    \/ Release
    \/ Resize

PlaceSpec == PlaceInit /\ [][PlaceNext]_placeVars

-----------------------------------------------------------------------------

(* While the page settles after a jump, a reload or a resize, the reader stays at the anchor:
   chapters that start up above it do not push it away, and Back to a place another mode
   shows does not hold the wrong one. *)
PinHolds == plPinned /\ plAnchor \in Visible(plMode) => plView = plAnchor

(* The place a link was followed from is still in its history entry, whatever the reader did
   since: followed more links, went back and forth, reloaded, or switched versions. *)
BackRemembersPlace ==
    \A k \in 1..Len(plEntries) :
        plEntries[k].left /= NoPlace => plEntries[k].place = plEntries[k].left

(* What showInUrl's comment says: "The address always says which version you're on, so a copied
   or shared link opens the same one" (src/training/js/site.js:336). *)
AddressSaysMode == plEntries[plAt].mode = plMode

=============================================================================
