--------------------------- MODULE LabsCamSetup ---------------------------
(***************************************************************************)
(* The camera setup page (src/training/js/ch/20-camsetup.js): a robot with *)
(* four cameras on four ports, whose cables can be swapped and one camera  *)
(* replaced, and a bench sheet per camera that the browser keeps.          *)
(*                                                                         *)
(* A lens is its principal point in 0.1 px.  How far a port's estimate     *)
(* misses the robot is left out: it is nothing when the port has the mount *)
(* and the calibration of the camera in it.                                *)
(***************************************************************************)
EXTENDS Integers, FiniteSets

CONSTANTS
    SheetCams,  \* the cameras the bench sheet has a page for
    SheetSteps  \* the steps of a page

-----------------------------------------------------------------------------
(* Plug in the cameras *)

VARIABLES
    csCable,  \* S.cable: the mount whose camera is in each port
    csLens,   \* S.lens: the lens on each mount
    csCalib,  \* S.calib: the lens each port was calibrated with
    csSel,    \* S.sel: the port picked, or -1
    csLast,   \* S.last: what the note is about
    csSolver  \* S.solver

portsVars == <<csCable, csLens, csCalib, csSel, csLast, csSolver>>

Ports == 0..3
Cameras0 == [p \in Ports |-> p]
Lens0 == [m \in Ports |-> <<6505, 5979, 6243, 6118>>[m + 1]]
Spare == 6120
Lenses == {Lens0[m] : m \in Ports} \union {Spare}

PortsTypeOK ==
    /\ csCable \in [Ports -> Ports] /\ Cardinality({csCable[p] : p \in Ports}) = 4
    /\ csLens \in [Ports -> Lenses] /\ csCalib \in [Ports -> Lenses]
    /\ csSel \in -1..3
    /\ csLast \in {"reset", "swap", "replace", "recal", "manual"}
    /\ csSolver \in {"mt1", "mt2"}

PortsInit ==
    /\ csCable = Cameras0 /\ csLens = Lens0 /\ csCalib = Lens0
    /\ csSel = -1 /\ csLast = "reset" /\ csSolver = "mt2"

\* solve(): what is right at port p.
MountOk(p) == csCable[p] = p
CalOk(p) == LET d == csLens[csCable[p]] - csCalib[p] IN d < 5 /\ d > -5

Solver(v) == csSolver' = v /\ UNCHANGED <<csCable, csLens, csCalib, csSel, csLast>>

\* The buttons: reset, the example of swapped cables, and that of a replaced camera start from
\* a robot that is set up right.
PortsRestart(act, cable, lens) ==
    /\ csCable' = cable /\ csLens' = lens /\ csCalib' = Lens0
    /\ csSel' = -1
    /\ csLast' = act
    /\ UNCHANGED csSolver

Setup ==
    \/ PortsRestart("reset", Cameras0, Lens0)
    \/ PortsRestart("swap", [Cameras0 EXCEPT ![0] = 1, ![1] = 0], Lens0)
    \/ PortsRestart("replace", Cameras0, [Lens0 EXCEPT ![0] = Spare])

\* Every port is calibrated with the camera that is in it.
Recalibrate ==
    /\ csCalib' = [p \in Ports |-> csLens[csCable[p]]]
    /\ csSel' = -1
    /\ csLast' = "recal"
    /\ UNCHANGED <<csCable, csLens, csSolver>>

\* A tap on a port: pick it, drop it, or swap the two cables.
TapPort(p) ==
    /\ csSel' = IF csSel < 0 THEN p ELSE -1
    /\ IF csSel < 0 \/ csSel = p
       THEN UNCHANGED <<csCable, csLast>>
       ELSE /\ csCable' = [csCable EXCEPT ![p] = csCable[csSel], ![csSel] = csCable[p]]
            /\ csLast' = "manual"
    /\ UNCHANGED <<csLens, csCalib, csSolver>>

PortsNext ==
    \/ \E v \in {"mt1", "mt2"} : Solver(v)
    \/ Setup
    \/ Recalibrate
    \/ \E p \in Ports : TapPort(p)

-----------------------------------------------------------------------------
(* The bench sheet *)

VARIABLES
    shCam,    \* cam
    shData,   \* data: the steps ticked for each camera
    shStored, \* localStorage
    shBlocked, \* the browser keeps no storage: each use of it throws, and is caught
    shBoxes   \* the boxes ticked on the page

sheetVars == <<shCam, shData, shStored, shBlocked, shBoxes>>

NoSheet == [c \in SheetCams |-> {}]

SheetTypeOK ==
    /\ shCam \in SheetCams
    /\ shData \in [SheetCams -> SUBSET SheetSteps] /\ shStored \in [SheetCams -> SUBSET SheetSteps]
    /\ shBlocked \in BOOLEAN
    /\ shBoxes \in SUBSET SheetSteps

SheetInit ==
    /\ shCam \in SheetCams
    /\ shData = NoSheet /\ shStored = NoSheet
    /\ shBlocked \in BOOLEAN
    /\ shBoxes = {}

ShowSheet(cam, data) == shBoxes' = data[cam]

\* save(): what cannot be kept is only on the page.
SaveSheet(data) == shStored' = IF shBlocked THEN shStored ELSE data

Toggled(set, i) == IF i \in set THEN set \ {i} ELSE set \union {i}

TickStep(i) ==
    /\ shData' = [shData EXCEPT ![shCam] = Toggled(@, i)]
    /\ SaveSheet(shData')
    /\ ShowSheet(shCam, shData')
    /\ UNCHANGED <<shCam, shBlocked>>

ChooseCam(cam) ==
    /\ shCam' = cam
    /\ ShowSheet(cam, shData)
    /\ UNCHANGED <<shData, shStored, shBlocked>>

ClearSheet ==
    /\ shData' = [shData EXCEPT ![shCam] = {}]
    /\ SaveSheet(shData')
    /\ ShowSheet(shCam, shData')
    /\ UNCHANGED <<shCam, shBlocked>>

\* The page is opened again, with the first camera's button on.
OpenSheet(cam) ==
    /\ shData' = IF shBlocked THEN NoSheet ELSE shStored
    /\ shCam' = cam
    /\ ShowSheet(cam, shData')
    /\ UNCHANGED <<shStored, shBlocked>>

SheetNext ==
    \/ \E i \in SheetSteps : TickStep(i)
    \/ \E cam \in SheetCams : ChooseCam(cam) \/ OpenSheet(cam)
    \/ ClearSheet

-----------------------------------------------------------------------------

(* The note tells what is wrong with the robot in front of the reader: after an example only
   what it set up is wrong, after a calibration no port has another lens's, and a swap never
   loses a camera or leaves a single one in the wrong port. *)
NoteTellsPorts ==
    LET wrong == {p \in Ports : ~MountOk(p)}
        lens == {p \in Ports : ~CalOk(p)}
    IN  /\ csLast = "reset" => wrong = {} /\ lens = {}
        /\ csLast = "swap" => wrong = {0, 1} /\ lens = {0, 1}
        /\ csLast = "replace" => wrong = {} /\ lens = {0}
        /\ csLast = "recal" => lens = {}
        /\ Cardinality(wrong) /= 1

(* The page ticked is the page of the camera chosen, and what is ticked is what the browser
   keeps, where it keeps anything. *)
SheetOfCamera == shBoxes = shData[shCam] /\ (~shBlocked => shStored = shData)

=============================================================================
