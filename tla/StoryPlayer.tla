---------------------------- MODULE StoryPlayer ----------------------------
(***************************************************************************)
(* What a step-by-step player of the training site promises its reader: a  *)
(* story goes on by itself one step at a time and only while it runs, a    *)
(* step the reader picks is held, and a story that is opened runs from its *)
(* start.                                                                  *)
(***************************************************************************)
EXTENDS Naturals

CONSTANTS
    Stories,
    Length     \* the number of steps of each story, at least one

VARIABLES
    story,
    at,      \* its step, from 0
    running  \* it goes on by itself

storyVars == <<story, at, running>>

Init ==
    /\ story \in Stories
    /\ at = 0
    /\ running \in BOOLEAN

GoOn ==
    /\ running
    /\ at' = (at + 1) % Length[story]
    /\ UNCHANGED <<story, running>>

PickStep(k) ==
    /\ k \in 0..(Length[story] - 1)
    /\ at' = k
    /\ running' = FALSE
    /\ UNCHANGED story

Toggle ==
    /\ running' = ~running
    /\ UNCHANGED <<story, at>>

Open(s) ==
    /\ story' = s
    /\ at' = 0
    /\ running' = TRUE

Next ==
    \/ GoOn
    \/ \E k \in 0..(Length[story] - 1) : PickStep(k)
    \/ Toggle
    \/ \E s \in Stories : Open(s)

Spec == Init /\ [][Next]_storyVars

=============================================================================
