--------------------------- MODULE LabsFailsafes ---------------------------
(***************************************************************************)
(* The labs of the failsafes chapter (src/training/js/ch/16-failsafes.js): *)
(* the watchdog's dog, the player of faults with the diagram it lights,    *)
(* the health check's output typed into a terminal, and the dashboard.     *)
(*                                                                         *)
(* The dog's time is in seconds of the story, the player's in frames, the  *)
(* dashboard's in its redraws (about 30 s of the story each).              *)
(***************************************************************************)
EXTENDS Integers, Sequences

CONSTANTS
    FaultIds,    \* the faults of the list that are played
    FaultDwell,  \* frames a step of a fault is shown (1.7 s)
    TermLines,   \* lines of the terminal's file
    DashSag,     \* redraws the sag's current shows (10 s)
    DashHot,     \* redraws without the fan until it is hot: warn, bad, throttled
    DashMaxOver  \* bound: over-current events

ASSUME FailsafesAssumption ==
    /\ FaultDwell \in Nat \ {0} /\ TermLines \in Nat \ {0}
    /\ DashSag \in Nat \ {0} /\ DashMaxOver \in Nat
    /\ DashHot \in [1..3 -> Nat \ {0}] /\ DashHot[1] < DashHot[2] /\ DashHot[2] < DashHot[3]

-----------------------------------------------------------------------------
(* The watchdog's dog *)

VARIABLES
    dgMode,   \* mode
    dgHungry, \* sim - lastPat
    dgIn,     \* sim - panicAt in a panic, sim - boot in a boot, 0 elsewhere
    dgLabel,  \* the freeze button's label
    dgOff     \* the buttons are disabled

dogVars == <<dgMode, dgHungry, dgIn, dgLabel, dgOff>>

PatEvery == 6
Limit == 30
PanicReboots == 3
BootTakes == 20

DogTypeOK ==
    /\ dgMode \in {"run", "frozen", "panic", "boot"}
    /\ dgHungry \in 0..(Limit + PatEvery + PanicReboots + BootTakes + 2)
    /\ dgIn \in 0..(BootTakes + 1)
    /\ dgLabel \in {"Freeze", "Unfreeze"}
    /\ dgOff \in BOOLEAN

DogInit ==
    dgMode = "run" /\ dgHungry = 0 /\ dgIn = 0 /\ dgLabel = "Freeze" /\ dgOff = FALSE

FreezeButton ==
    /\ ~dgOff /\ dgMode \in {"run", "frozen"}
    /\ dgMode' = IF dgMode = "run" THEN "frozen" ELSE "run"
    /\ dgHungry' = IF dgMode = "run" THEN dgHungry ELSE 0
    /\ dgLabel' = IF dgMode = "run" THEN "Unfreeze" ELSE "Freeze"
    /\ UNCHANGED <<dgIn, dgOff>>

PanicButton ==
    /\ ~dgOff /\ dgMode \in {"run", "frozen"}
    /\ dgMode' = "panic"
    /\ dgIn' = 0
    /\ UNCHANGED <<dgHungry, dgLabel, dgOff>>

\* A frame, one second of the story later.
DogTick ==
    LET hungry == dgHungry + 1
        in == IF dgMode \in {"panic", "boot"} THEN dgIn + 1 ELSE 0
        resets == \/ dgMode = "frozen" /\ hungry > Limit
                  \/ dgMode = "panic" /\ in > PanicReboots
        booted == dgMode = "boot" /\ in > BootTakes
    IN  /\ dgMode' = IF resets THEN "boot" ELSE IF booted THEN "run" ELSE dgMode
        /\ dgHungry' = IF booted \/ (dgMode = "run" /\ hungry > PatEvery) THEN 0 ELSE hungry
        /\ dgIn' = IF resets \/ booted THEN 0 ELSE in
        /\ dgLabel' = IF booted \/ (dgMode = "frozen" /\ resets) THEN "Freeze" ELSE dgLabel
        /\ dgOff' = (dgMode' \in {"panic", "boot"})

DogNext == FreezeButton \/ PanicButton \/ DogTick

-----------------------------------------------------------------------------
(* The player of faults *)

Comps == {"camA", "camB", "pwr", "hub", "xhci", "kern", "pv", "gpu", "sysd", "robot", "wd",
          "ssd", "fan"}

\* FAULTS: what each step does to which components.
F(comps) == [kind |-> "fault", comps |-> comps]
D(comps) == [kind |-> "detect", comps |-> comps]
I(comps) == [kind |-> "info", comps |-> comps]
R(comps) == [kind |-> "recover", comps |-> comps]

Faults == [
    unplug |-> <<F({"camA"}), D({"pv"}), I({"camB", "robot"}), R({"camA", "hub", "kern"}),
                 R({"pv", "gpu", "robot"})>>,
    corrupt |-> <<F({"camB"}), D({"pv"}), D({"pv", "kern", "hub"}), R({"camB", "kern"}),
                  R({"pv", "robot"}), I({"pv"})>>,
    cuda |-> <<F({"gpu"}), D({"gpu", "pv"}), R({"gpu"}), I({"robot"})>>,
    gpu |-> <<F({"gpu"}), D({"gpu"}), D({"sysd"}), R({"sysd", "pv"}), R({"gpu", "robot"})>>,
    crash |-> <<F({"pv"}), D({"sysd"}), R({"sysd", "pv"}), R({"gpu", "robot"}), I({"ssd"}),
                I({"sysd"})>>,
    hang |-> <<F({"kern", "sysd"}), D({"wd"}), I({"kern"}), R({"kern", "sysd", "pv"}),
               R({"gpu", "robot"})>>,
    power |-> <<F({"pwr", "ssd"}), I({"ssd"}), D({"kern", "ssd"}),
                R({"sysd", "pv", "gpu", "robot"}), I({"ssd"}), F({"ssd"}), R({"ssd", "pv"})>>,
    xhci |-> <<F({"xhci"}), D({"kern"}), R({"xhci", "hub"}), R({"camA", "camB", "pv"})>>,
    hub |-> <<F({"hub", "camA", "camB"}), D({"kern"}), I({"hub"}), D({"pv", "robot"}),
              F({"xhci", "wd"}), R({"pwr", "camA", "camB"})>>,
    heat |-> <<I({"fan"}), F({"fan"}), D({"fan", "robot"}), I({"gpu"}), R({"robot"}),
               I({"fan", "pv"}), I({"fan", "robot"})>>,
    sag |-> <<F({"pwr"}), R({"pwr"}), D({"gpu", "robot"}), I({"ssd"})>>,
    mode |-> <<F({"camB"}), I({"pv"}), D({"pv"}), R({"camB", "pv"}), D({"robot"})>>,
    flood |-> <<F({"pv", "ssd"}), I({"ssd"}), R({"pv"}), R({"ssd"})>>]

\* The page opens with the first of the list.
ASSUME FaultsAssumption == FaultIds \subseteq DOMAIN Faults /\ "unplug" \in FaultIds

VARIABLES
    faFault,  \* cur
    faStep,   \* stepI: steps told
    faTimer,  \* timer, in frames
    faState,  \* compState: what each component is lit as
    faPaint,  \* what the diagram's boxes show
    faWide    \* L is WIDE

faultVars == <<faFault, faStep, faTimer, faState, faPaint, faWide>>

Kinds == {"fault", "detect", "info", "recover", "none"}
Dark == [c \in Comps |-> "none"]

FaultTypeOK ==
    /\ faFault \in FaultIds
    /\ faStep \in 1..Len(Faults[faFault])
    /\ faTimer \in 0..(FaultDwell + 1)
    /\ faState \in [Comps -> Kinds] /\ faPaint \in [Comps -> Kinds]
    /\ faWide \in BOOLEAN

Lit(state, step) == [c \in Comps |-> IF c \in step.comps THEN step.kind ELSE state[c]]

FaultInit ==
    /\ faFault = "unplug" /\ faStep = 1 /\ faTimer = 0
    /\ faState = Lit(Dark, Faults.unplug[1]) /\ faPaint = faState
    /\ faWide \in BOOLEAN

\* select(f) and its advance(): a fault of the list, or cur again by the replay button.
SelectFault(f) ==
    /\ faFault' = f /\ faStep' = 1 /\ faTimer' = 0
    /\ faState' = Lit(Dark, Faults[f][1])
    /\ faPaint' = faState'
    /\ UNCHANGED faWide

\* The loop: the next step when the one shown has had its time.
FaultTick ==
    IF faTimer + 1 > FaultDwell /\ faStep < Len(Faults[faFault])
    THEN /\ faTimer' = 0
         /\ faStep' = faStep + 1
         /\ faState' = Lit(faState, Faults[faFault][faStep + 1])
         /\ faPaint' = faState'
         /\ UNCHANGED <<faFault, faWide>>
    ELSE /\ faTimer' = IF faTimer > FaultDwell THEN faTimer ELSE faTimer + 1
         /\ UNCHANGED <<faFault, faStep, faState, faPaint, faWide>>

\* The panel's ResizeObserver: the boxes are drawn again, and lit only when the layout changed.
FaultResize(wide) ==
    /\ faWide' = wide
    /\ faPaint' = IF wide = faWide THEN Dark ELSE faState
    /\ UNCHANGED <<faFault, faStep, faTimer, faState>>

FaultNext ==
    \/ \E f \in FaultIds : SelectFault(f)
    \/ FaultTick
    \/ \E wide \in BOOLEAN : FaultResize(wide)

-----------------------------------------------------------------------------
(* The terminal *)

VARIABLES
    teFile,    \* the fetch: "asked", "there" (lines is set) or "lost"
    teStarted, \* started
    teTyping,  \* runs of go() that are typing, each with its timer
    teShown    \* lines shown

termVars == <<teFile, teStarted, teTyping, teShown>>

TermTypeOK ==
    /\ teFile \in {"asked", "there", "lost"}
    /\ teStarted \in BOOLEAN
    /\ teTyping \in 0..2
    /\ teShown \in 0..TermLines

TermInit == teFile = "asked" /\ teStarted = FALSE /\ teTyping = 0 /\ teShown = 0

\* go() with its first tick.
TermGo(there, started) ==
    IF there /\ started
    THEN /\ teTyping' = teTyping + (IF TermLines > 1 THEN 1 ELSE 0)
         /\ teShown' = 1
    ELSE UNCHANGED <<teTyping, teShown>>

TermArrives ==
    /\ teFile = "asked"
    /\ teFile' = "there"
    /\ TermGo(TRUE, teStarted)
    /\ UNCHANGED teStarted

TermLost == teFile = "asked" /\ teFile' = "lost" /\ UNCHANGED <<teStarted, teTyping, teShown>>

\* The terminal comes into view for the first time.
TermSeen ==
    /\ ~teStarted
    /\ teStarted' = TRUE
    /\ TermGo(teFile = "there", TRUE)
    /\ UNCHANGED teFile

\* A timer's tick.
TermTick ==
    /\ teTyping > 0
    /\ teShown' = teShown + 1
    /\ teTyping' = IF teShown + 1 < TermLines THEN teTyping ELSE teTyping - 1
    /\ UNCHANGED <<teFile, teStarted>>

TermNext == TermArrives \/ TermLost \/ TermSeen \/ TermTick

-----------------------------------------------------------------------------
(* The dashboard *)

VARIABLES
    daDead,  \* S.fanDead
    daDeadT, \* S.deadT, in redraws, at most DashHot[3]
    daTemp,  \* S.temp: the marks of DashHot it is past
    daSag,   \* S.sagT, in redraws, at most DashSag
    daOver,  \* S.oc
    daShown, \* the throttle tile
    daCount, \* the tile of over-current events, which the throttle's also names
    daNow    \* acc is 1: the next frame redraws

dashVars == <<daDead, daDeadT, daTemp, daSag, daOver, daShown, daCount, daNow>>

DashTypeOK ==
    /\ daDead \in BOOLEAN /\ daNow \in BOOLEAN
    /\ daDeadT \in 0..DashHot[3] /\ daTemp \in 0..3
    /\ daSag \in 0..DashSag
    /\ daOver \in 0..DashMaxOver
    /\ daShown \in {"-", "HIGH TEMP", "OVER-CURRENT", "Prev. over-current", "None"}
    /\ daCount \in 0..DashMaxOver

DashInit ==
    /\ daDead = FALSE /\ daDeadT = 0 /\ daTemp = 0 /\ daSag = DashSag /\ daOver = 0
    /\ daShown = "-" /\ daCount = 0 /\ daNow = TRUE

SagButton ==
    /\ daOver < DashMaxOver
    /\ daSag' = 0 /\ daOver' = daOver + 1 /\ daNow' = TRUE
    /\ UNCHANGED <<daDead, daDeadT, daTemp, daShown, daCount>>

FanButton ==
    /\ daDead' = ~daDead /\ daDeadT' = 0 /\ daNow' = TRUE
    /\ daTemp' = IF daDead THEN 0 ELSE daTemp
    /\ UNCHANGED <<daSag, daOver, daShown, daCount>>

ResetButton ==
    /\ daDead' = FALSE /\ daTemp' = 0 /\ daSag' = DashSag /\ daOver' = 0 /\ daNow' = TRUE
    /\ UNCHANGED <<daDeadT, daShown, daCount>>

\* A frame that redraws, after a click or after half a second.
Redraw ==
    LET deadT == IF daDead /\ daDeadT < DashHot[3] THEN daDeadT + 1 ELSE daDeadT
        sag == IF daSag < DashSag THEN daSag + 1 ELSE daSag
    IN  /\ daDeadT' = deadT
        /\ daSag' = sag
        /\ daTemp' = IF ~daDead THEN 0 ELSE IF deadT < DashHot[1] THEN 0
                     ELSE CHOOSE k \in 1..3 :
                        deadT >= DashHot[k] /\ \A j \in 1..3 : deadT >= DashHot[j] => j <= k
        /\ daShown' = CASE daTemp' = 3 -> "HIGH TEMP"
                        [] daTemp' < 3 /\ sag < DashSag -> "OVER-CURRENT"
                        [] daTemp' < 3 /\ sag = DashSag /\ daOver > 0 -> "Prev. over-current"
                        [] OTHER -> "None"
        /\ daCount' = daOver
        /\ daNow' = FALSE
        /\ UNCHANGED <<daDead, daOver>>

DashNext == SagButton \/ FanButton \/ ResetButton \/ Redraw

-----------------------------------------------------------------------------

(* The components of the diagram are lit as the steps of this fault told so far left them, the
   last step that names a component deciding; the boxes show that, or nothing after a resize
   that kept the layout (until the next step paints them). *)
LitByTheSteps ==
    LET told(c) == {k \in 1..faStep : c \in Faults[faFault][k].comps}
    IN  /\ \A c \in Comps :
              faState[c] = IF told(c) = {} THEN "none"
                           ELSE Faults[faFault][CHOOSE k \in told(c) :
                                                   \A j \in told(c) : j <= k].kind
        /\ faPaint \in {faState, Dark}

(* The file's lines and the terminal's coming into view may be in either order: it is typed by
   one run, never by two at once. *)
TypedOnce == teTyping <= 1 /\ (teShown > 0 => teFile = "there" /\ teStarted)

=============================================================================
