----------------------------- MODULE LabsJetson -----------------------------
(***************************************************************************)
(* The labs of the Jetson chapter (src/training/js/ch/05-jetson.js): the   *)
(* exploded view that the page's scroll takes apart and that may be turned *)
(* freely, the block diagram and the comparison of cores.  The chart of a  *)
(* fanless board and its presets are left out.                             *)
(***************************************************************************)
EXTENDS Integers, Sequences

CONSTANTS
    KitSteps, \* the steps of the exploded view that are scrolled through
    KitPicks, \* its labels that are picked
    BusPicks, \* the blocks of the diagram that are picked
    CoreFrames \* frames until the cores of the comparison are all drawn (1.6 s)

ASSUME JetsonAssumption ==
    /\ KitSteps \subseteq 0..9 /\ 0 \in KitSteps
    /\ CoreFrames \in Nat \ {0}

-----------------------------------------------------------------------------
(* The exploded view *)

\* HOTS: the nodes of the model that each label covers.
HotNodes == [
    fan |-> {"fan"}, heatsink |-> {"heatsink"}, module |-> {"module", "module_screws"},
    sodimm |-> {"sodimm"}, pcb |-> {"pcb", "carrier_parts"}, usb |-> {"usb_a1", "usb_a2"},
    ethernet |-> {"ethernet"}, usb_c |-> {"usb_c"}, displayport |-> {"displayport"},
    dc_jack |-> {"dc_jack"}, csi |-> {"csi"}, header40 |-> {"header40"}, ssd |-> {"ssd"},
    m2 |-> {"m2_key_m"}, wifi |-> {"wifi", "m2_key_e"}, antennas |-> {"antennas"},
    base |-> {"base", "standoffs"}]

Hots == DOMAIN HotNodes
Nodes == UNION {HotNodes[h] : h \in Hots}

ASSUME KitAssumption == KitPicks \subseteq Hots

\* STEPS: the labels highlighted, in order, and how far the kit is open.
KitStep == <<
    [hl |-> <<>>, ex |-> "closed"],
    [hl |-> <<"heatsink", "fan">>, ex |-> "fan"],
    [hl |-> <<"module">>, ex |-> "heat"],
    [hl |-> <<"sodimm">>, ex |-> "heat"],
    [hl |-> <<"pcb">>, ex |-> "heat"],
    [hl |-> <<"usb", "ethernet", "usb_c", "displayport", "dc_jack">>, ex |-> "closed"],
    [hl |-> <<"csi", "header40">>, ex |-> "closed"],
    [hl |-> <<"ssd", "m2">>, ex |-> "under"],
    [hl |-> <<"wifi", "antennas">>, ex |-> "under"],
    [hl |-> <<>>, ex |-> "closed"]>>

\* offsetFor: the nodes that are off their place.
MovedBy(ex) ==
    IF ex = "closed" THEN {}
    ELSE {"heatsink", "fan"}
         \cup (IF ex = "fan" THEN {} ELSE {"module", "module_screws"})
         \cup (IF ex = "under" THEN {"ssd", "wifi", "antennas", "base", "standoffs"} ELSE {})

NoPick == "none"
NoModel == "no model"

VARIABLES
    jxStep,   \* step
    jxFree,   \* free: the reader turns the kit
    jxPick,   \* selected
    jxReady,  \* the model is loading, ready, or failed to load
    jxLit,    \* glowT: the nodes lit, and the rest is dim
    jxMoved,  \* offT: the nodes off their place
    jxLabels, \* the labels not hidden
    jxOn,     \* those marked on
    jxInfo,   \* the text: a label's, or the step's own
    jxCamera  \* camT: the step whose view is held, or the reader's
kitVars == <<jxStep, jxFree, jxPick, jxReady, jxLit, jxMoved, jxLabels, jxOn, jxInfo, jxCamera>>

KitTypeOK ==
    /\ jxStep \in KitSteps /\ jxFree \in BOOLEAN /\ jxPick \in KitPicks \cup {NoPick}
    /\ jxReady \in {"loading", "ready", "failed", NoModel}
    /\ jxLit \subseteq Nodes /\ jxMoved \subseteq Nodes
    /\ jxLabels \subseteq Hots /\ jxOn \subseteq jxLabels
    /\ jxInfo \in Hots \cup {"kit", "ports"}
    /\ jxCamera \in KitSteps

HighlightedIn(step, pick) ==
    IF pick /= NoPick THEN {pick}
    ELSE {KitStep[step + 1].hl[i] : i \in DOMAIN KitStep[step + 1].hl}

\* stepInfo: the pick's text, or the step's first label's.
InfoOf(step, pick) ==
    IF pick /= NoPick THEN pick
    ELSE IF KitStep[step + 1].hl = <<>> THEN "kit"
    ELSE IF step = 5 THEN "ports" ELSE KitStep[step + 1].hl[1]

\* In free mode the kit opens as far as it takes to see the part picked.
OpenFor(step, free, pick) ==
    CASE free /\ pick \in {"ssd", "m2", "wifi", "antennas", "base"} -> "under"
      [] free /\ pick \in {"module", "sodimm", "pcb"} -> "heat"
      [] free /\ pick \in {"heatsink", "fan"} -> "fan"
      [] OTHER -> KitStep[step + 1].ex

\* applyStep. Before the model is there it has no parts to light or move.
ApplyStep(step, free, pick, ready) ==
    LET hl == HighlightedIn(step, pick)
    IN  /\ jxLit' = IF ready THEN UNION {HotNodes[h] : h \in hl} ELSE {}
        /\ jxMoved' = IF ready THEN MovedBy(OpenFor(step, free, pick)) ELSE {}
        /\ jxLabels' = IF free THEN Hots ELSE hl
        /\ jxOn' = IF free /\ pick = NoPick THEN {} ELSE hl
        /\ jxInfo' = InfoOf(step, pick)
        /\ jxCamera' = IF free THEN jxCamera ELSE step

KitInit ==
    /\ jxStep = 0 /\ jxFree = FALSE /\ jxPick = NoPick
    /\ jxReady \in {"loading", NoModel}
    /\ jxLit = {} /\ jxMoved = {} /\ jxLabels = {} /\ jxOn = {}
    /\ jxInfo = "kit" /\ jxCamera = 0

\* Site.scrolly's callback: the tour drops the pick; before the model is ready, and
\* without WebGL, only the text follows.
ScrollKit(i) ==
    /\ i /= jxStep /\ jxStep' = i
    /\ jxPick' = IF jxFree THEN jxPick ELSE NoPick
    /\ IF jxReady = "ready"
       THEN ApplyStep(i, jxFree, jxPick', TRUE)
       ELSE /\ jxInfo' = InfoOf(i, jxPick')
            /\ UNCHANGED <<jxLit, jxMoved, jxLabels, jxOn, jxCamera>>
    /\ UNCHANGED <<jxFree, jxReady>>

\* The button: back in the tour nothing is picked. Without WebGL it is disabled.
ExploreButton ==
    /\ jxReady /= NoModel
    /\ jxFree' = ~jxFree
    /\ jxPick' = IF jxFree THEN NoPick ELSE jxPick
    /\ ApplyStep(jxStep, ~jxFree, jxPick', jxReady = "ready")
    /\ UNCHANGED <<jxStep, jxReady>>

\* select: a label not hidden, or a part of the model; again, or elsewhere, is none.
PickPart(h) ==
    /\ h \in jxLabels \/ jxReady = "ready"
    /\ jxPick' = IF h = jxPick THEN NoPick ELSE h
    /\ ApplyStep(jxStep, jxFree, jxPick', jxReady = "ready")
    /\ UNCHANGED <<jxStep, jxFree, jxReady>>

\* The model is there: it is shown as the step scrolled to by now has it.
ModelLoads ==
    /\ jxReady = "loading" /\ jxReady' = "ready"
    /\ ApplyStep(jxStep, jxFree, jxPick, TRUE)
    /\ UNCHANGED <<jxStep, jxFree, jxPick>>

ModelFails ==
    /\ jxReady = "loading" /\ jxReady' = "failed"
    /\ UNCHANGED <<jxStep, jxFree, jxPick, jxLit, jxMoved, jxLabels, jxOn, jxInfo, jxCamera>>

KitNext ==
    \/ \E i \in KitSteps : ScrollKit(i)
    \/ ExploreButton
    \/ \E h \in KitPicks : PickPart(h)
    \/ ModelLoads
    \/ ModelFails

-----------------------------------------------------------------------------
(* The block diagram *)

\* SOC and DEV: the groups of each block.
BlockGroups == [
    lpddr |-> {"mem"}, memctrl |-> {"mem"}, cpu |-> {"mem"}, gpu |-> {"mem"},
    jpg1 |-> {"mem", "eng"}, jpg2 |-> {"mem", "eng"}, dec |-> {"mem", "eng"}, enc |-> {"eng"},
    pcie |-> {"pcie"}, usb |-> {"usb2", "usb3"}, eth |-> {"io"}, disp |-> {"io"},
    csiin |-> {"io"}, ssd |-> {"pcie"}, m2e |-> {"pcie"}, wifi |-> {"pcie", "usb2"},
    hub |-> {"usb2", "usb3"}, usbc |-> {"usb2", "usb3"}, ethj |-> {"io"}, dpj |-> {"io"},
    csij |-> {"io"}]

BusBlocks == DOMAIN BlockGroups
BusGroups == {"mem", "pcie", "usb2", "usb3", "eng"}

ASSUME BusAssumption == BusPicks \subseteq BusBlocks

\* LINKS: which block of the chip reaches which device.
BlockLinks == {{"pcie", "ssd"}, {"pcie", "m2e"}, {"pcie", "wifi"}, {"usb", "wifi"},
               {"usb", "hub"}, {"usb", "usbc"}, {"eth", "ethj"}, {"disp", "dpj"},
               {"csiin", "csij"}}

VARIABLES
    jbTall,  \* the diagram is narrower than 640 pixels
    jbMode,  \* mode: the layout drawn
    jbGroup, \* group
    jbSel,   \* sel
    jbLit    \* the blocks highlighted

busVars == <<jbTall, jbMode, jbGroup, jbSel, jbLit>>

BusTypeOK ==
    /\ jbTall \in BOOLEAN /\ jbMode \in {"tall", "wide"}
    /\ jbGroup \in BusGroups \cup {"all"} /\ jbSel \in BusPicks \cup {NoPick}
    /\ jbLit \subseteq BusBlocks

\* paint: the group's blocks, or the block picked with those it works with.
Painted(group, sel) ==
    IF sel = NoPick THEN {b \in BusBlocks : group \in BlockGroups[b]}
    ELSE {sel} \cup (UNION {l \in BlockLinks : sel \in l})
         \cup (IF sel \in {"cpu", "gpu", "jpg1", "jpg2", "dec", "memctrl"}
               THEN {"lpddr", "memctrl"} ELSE {})
         \cup (IF sel = "lpddr" THEN {b \in BusBlocks : "mem" \in BlockGroups[b]} ELSE {})

BusInit ==
    /\ jbTall = FALSE /\ jbMode = "wide" /\ jbGroup = "all" /\ jbSel = NoPick
    /\ jbLit = Painted("all", NoPick)

PickBlock(b) ==
    /\ jbSel' = IF b = jbSel THEN NoPick ELSE b
    /\ jbLit' = Painted(jbGroup, jbSel')
    /\ UNCHANGED <<jbTall, jbMode, jbGroup>>

PickBusGroup(v) ==
    /\ jbGroup' = v /\ jbSel' = NoPick
    /\ jbLit' = Painted(v, NoPick)
    /\ UNCHANGED <<jbTall, jbMode>>

\* render: the other layout is drawn from nothing, and painted.
BusResize(tall) ==
    /\ jbTall' = tall
    /\ jbMode' = IF tall THEN "tall" ELSE "wide"
    /\ jbLit' = Painted(jbGroup, jbSel)
    /\ UNCHANGED <<jbGroup, jbSel>>

BusNext ==
    \/ \E b \in BusPicks : PickBlock(b)
    \/ \E v \in BusGroups \cup {"all"} : PickBusGroup(v)
    \/ \E tall \in BOOLEAN : BusResize(tall)

-----------------------------------------------------------------------------
(* The comparison of cores: two of its boards *)

CoreBoards == {"pi5", "jetson"}

VARIABLES
    jcAge,   \* t - t0, in frames
    jcDrawn, \* drawn: -1 after a resize, 0 while it fills, 1 when all is drawn
    jcShows  \* what each canvas shows: nothing, a part of its cores, or all

coreVars == <<jcAge, jcDrawn, jcShows>>

CoreTypeOK ==
    /\ jcAge \in 0..CoreFrames
    /\ jcDrawn \in [CoreBoards -> {-1, 0, 1}]
    /\ jcShows \in [CoreBoards -> {"nothing", "part", "all"}]

CoreInit ==
    /\ jcAge = 0
    /\ jcDrawn = [b \in CoreBoards |-> -1] /\ jcShows = [b \in CoreBoards |-> "nothing"]

\* fit: a new size empties the canvas.
CoreFit(b) ==
    /\ jcDrawn' = [jcDrawn EXCEPT ![b] = -1] /\ jcShows' = [jcShows EXCEPT ![b] = "nothing"]
    /\ UNCHANGED jcAge

\* A frame: a canvas that shows all is left alone.
CoreTick ==
    LET all == jcAge = CoreFrames
    IN  /\ jcDrawn' = [b \in CoreBoards |-> IF all THEN 1 ELSE 0]
        /\ jcShows' = [b \in CoreBoards |-> IF jcDrawn[b] = 1 /\ all THEN jcShows[b]
                                            ELSE IF all THEN "all" ELSE "part"]
        /\ jcAge' = IF all THEN jcAge ELSE jcAge + 1

CoreNext == CoreTick \/ \E b \in CoreBoards : CoreFit(b)

-----------------------------------------------------------------------------
\* Once the model is there it is as the step and the pick have it, however far the
\* page was scrolled, and whatever was pressed, before it came.
KitAsScrolled ==
    jxReady = "ready" =>
        /\ jxLit = UNION {HotNodes[h] : h \in HighlightedIn(jxStep, jxPick)}
        /\ jxMoved = MovedBy(OpenFor(jxStep, jxFree, jxPick))
        /\ jxInfo = InfoOf(jxStep, jxPick)
        /\ ~jxFree => jxCamera = jxStep

=============================================================================
