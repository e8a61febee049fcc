---------------------------- MODULE LabsSettings ----------------------------
(***************************************************************************)
(* The camera simulator (src/training/js/ch/04-settings.js): a picture and *)
(* its tags are fetched, and only then are the sliders and the list of     *)
(* presets bound; each change asks for a frame, in which the picture is    *)
(* computed from the settings.  Gain, contrast and gamma are handled as    *)
(* the brightness is, and are left out.                                    *)
(***************************************************************************)
EXTENDS Naturals, FiniteSets

Sliders == {"exp", "bri", "sharp", "spin"}
PresetKeys == Sliders \ {"spin"}

\* P: what each preset sets, exposures in tenths of a millisecond.
PresetValues ==
    [ours  |-> [exp |-> 50,  bri |-> 0,  sharp |-> 5],
     auto  |-> [exp |-> 200, bri |-> 0,  sharp |-> 5],
     cal   |-> [exp |-> 150, bri |-> 0,  sharp |-> 5],
     dark  |-> [exp |-> 12,  bri |-> 0,  sharp |-> 5],
     wash  |-> [exp |-> 50,  bri |-> 55, sharp |-> 5],
     sharp |-> [exp |-> 50,  bri |-> 0,  sharp |-> 10]]
CameraPresets == DOMAIN PresetValues

\* The values a slider is dragged to: those of the presets, and two turns of the robot.
SliderValues(key) ==
    IF key = "spin" THEN {0, 3} ELSE {PresetValues[p][key] : p \in CameraPresets}

VARIABLES
    stReady,  \* whether the picture and the tags have come
    stPick,   \* pick.value: the entry the list of presets shows
    stCustom, \* whether the entry Custom (you moved a slider) is in the list
    stInputs, \* where the page's sliders are
    stS,      \* S: the settings the picture is computed from
    stPend,   \* pend: a frame is asked for
    stView    \* the settings of the picture shown, its badges and goals; none before: {}

settingsVars == <<stReady, stPick, stCustom, stInputs, stS, stPend, stView>>

Settings == [Sliders -> 0..200]
SettingsTypeOK ==
    /\ stReady \in {"loading", "ready", "failed"}
    /\ stPick \in CameraPresets \union {"custom"} /\ stCustom \in BOOLEAN
    /\ stInputs \in Settings /\ stS \in Settings
    /\ stPend \in BOOLEAN
    /\ Cardinality(stView) <= 1 /\ \A shown \in stView : shown \in Settings

Default == [exp |-> 50, bri |-> 0, sharp |-> 5, spin |-> 3]

SettingsInit ==
    /\ stReady = "loading"
    /\ stPick = "ours"
    /\ stCustom = FALSE
    /\ stInputs = Default
    /\ stS = Default
    /\ stPend = FALSE
    /\ stView = {}

\* Until the picture has come the controls move by themselves.
MoveUnbound(key, x) ==
    /\ stReady /= "ready"
    /\ stInputs' = [stInputs EXCEPT ![key] = x]
    /\ UNCHANGED <<stReady, stPick, stCustom, stS, stPend, stView>>

PickUnbound(p) ==
    /\ stReady /= "ready"
    /\ stPick' = p
    /\ UNCHANGED <<stReady, stCustom, stInputs, stS, stPend, stView>>

\* The picture has come.  Binding a slider takes its value as if it had been moved (Site.range
\* calls its handler at once), which clears the preset; the one that the list showed is then not
\* applied any more.
Bind ==
    /\ stReady = "loading"
    /\ stReady' = "ready"
    /\ stS' = stInputs
    /\ stPick' = "custom"
    /\ stCustom' = TRUE
    /\ stPend' = TRUE
    /\ UNCHANGED <<stInputs, stView>>

\* The picture or the tags fail to load: nothing is ever bound.
FailToLoad ==
    /\ stReady = "loading"
    /\ stReady' = "failed"
    /\ UNCHANGED <<stPick, stCustom, stInputs, stS, stPend, stView>>

\* A slider is dragged: except for the robot's spin, which is no setting of the camera, that
\* clears the preset.
DragSlider(key, x) ==
    /\ stReady = "ready"
    /\ stInputs' = [stInputs EXCEPT ![key] = x]
    /\ stS' = [stS EXCEPT ![key] = x]
    /\ IF key = "spin" THEN UNCHANGED <<stPick, stCustom>>
                       ELSE stPick' = "custom" /\ stCustom' = TRUE
    /\ stPend' = TRUE
    /\ UNCHANGED <<stReady, stView>>

\* The settings once a preset's sliders are set; the robot spins as before.
WithPreset(settings, p) ==
    [key \in Sliders |-> IF key \in PresetKeys THEN PresetValues[p][key] ELSE settings[key]]

\* A preset sets its sliders, and while it does (applying) they clear nothing.
ApplyPreset(p) ==
    /\ stReady = "ready"
    /\ p /= stPick
    /\ stPick' = p
    /\ stCustom' = FALSE
    /\ stInputs' = WithPreset(stInputs, p)
    /\ stS' = WithPreset(stS, p)
    /\ stPend' = TRUE
    /\ UNCHANGED <<stReady, stView>>

\* The histogram is measured again after a resize.
ResizeHistogram ==
    /\ stReady = "ready"
    /\ stPend' = TRUE
    /\ UNCHANGED <<stReady, stPick, stCustom, stInputs, stS, stView>>

\* The frame asked for, or one of the noise loop, which computes the picture as well.
RenderPicture ==
    /\ stReady = "ready"
    /\ stView' = {stS}
    /\ stPend' \in {FALSE, stPend}
    /\ UNCHANGED <<stReady, stPick, stCustom, stInputs, stS>>

SettingsNext ==
    \/ \E key \in Sliders : \E x \in SliderValues(key) : MoveUnbound(key, x) \/ DragSlider(key, x)
    \/ \E p \in CameraPresets : PickUnbound(p) \/ ApplyPreset(p)
    \/ Bind \/ FailToLoad \/ ResizeHistogram \/ RenderPicture
SettingsSpec == SettingsInit /\ [][SettingsNext]_settingsVars

\* The list never names a preset that is not the one set: any slider of the camera moved since
\* makes it Custom, an entry shown exactly then; the picture is of the settings or is about to be,
\* and they are where the sliders are, also those moved while the picture was being fetched.
PresetIsSet ==
    stReady = "ready" =>
        /\ stPick /= "custom" => \A key \in PresetKeys : stS[key] = PresetValues[stPick][key]
        /\ stCustom <=> stPick = "custom"
        /\ stS = stInputs
        /\ stPend \/ stView = {stS}

=============================================================================
