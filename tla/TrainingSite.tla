---------------------------- MODULE TrainingSite ----------------------------
(***************************************************************************)
(* The training site (src/training/js): the page's runtime and the labs of *)
(* its chapters, one module per script.  Each lab is a closure of its own  *)
(* and the labs' modules share no variable, so a state of the page is a    *)
(* state of each part, and no property below relates two of them but those *)
(* of the runtime, which are one part: it is enough to explore the parts   *)
(* one at a time, while the others stay as the page loads them.  open      *)
(* names the part the reader is at.                                        *)
(***************************************************************************)
EXTENDS SiteLoop, SiteScrolly, SitePlace, SiteLoad, LabsFinale, LabsLinux, LabsPit,
        LabsCamSetup, LabsFailsafes, LabsApriltags, BlobFlood, LabsCuda, LabsSolve,
        LabsCalibration, LabsPose, LabsJetson, LabsLatency, LabsCamera, LabsNetworktables,
        LabsSettings, LabsSpeed, LabsPhotonlib, LabsCoords

VARIABLE open \* the part that moves

Parts == {"loop", "scrolly", "place", "load", "journey", "quiz", "glossary", "layers", "service",
          "boot", "finder", "reports", "checklist", "ports", "sheet", "watchdog", "faults",
          "terminal", "dashboard", "hamming", "anatomy", "crossfade", "pipeline", "flood",
          "queue", "stages", "slots", "warp", "race", "grid", "solver", "pinhole", "distortion",
          "board", "coverage", "field", "real", "frames", "scene", "chain", "ambiguity",
          "multitag", "kit", "bus", "cores", "timeline", "bot", "rewind", "ping", "explode",
          "photo", "shutter", "focus", "usb", "idct", "lowlatency", "settings", "mailbox",
          "coords", "pubsub", "tree"}

siteVars == <<open, loopVars, scrollyVars, placeVars, loadVars, journeyVars, quizVars, glossVars,
              layersVars, serviceVars, bootVars, finderVars, reportVars, dayVars, portsVars,
              sheetVars, dogVars, faultVars, termVars, dashVars, hammingVars, anatomyVars,
              fadeVars, pipeVars, floodVars, queueVars, stageVars, slotVars, warpVars, raceVars,
              gridVars, solveVars, pinVars, distVars, boardVars, covVars, fieldVars, realVars,
              frameVars, sceneVars, chainVars, ambVars, multiVars, kitVars, busVars, coreVars,
              timelineVars, botVars, rewindVars, pingVars, explodeVars, photoVars, shutterVars,
              focusVars, usbVars, idctVars, llVars, settingsVars, mailVars, coordsVars,
              pubsubVars, treeVars>>

\* A part that is not open stays in one of the states the page may load it in.
Init ==
    /\ open \in Parts
    /\ LoopInit /\ (open /= "loop" => lpRaf = (CHOOSE id \in FrameIds : TRUE))
    /\ ScrollyInit /\ (open /= "scrolly" => scMode = "short")
    /\ PlaceInit /\ (open /= "place" => plSaved = "short")
    /\ LoadInit /\ (open /= "load" => ldMode = "short" /\ ldAtTop = (CHOOSE c \in InMode("short") : TRUE))
    /\ JourneyInit /\ (open /= "journey" => jnMode = "short")
    /\ QuizInit /\ (open /= "quiz" => ~qzBlocked /\ qzMode = "short")
    /\ GlossInit /\ (open /= "glossary" => glKnown = {})
    /\ LayersInit
    /\ ServiceInit
    /\ BootInit
    /\ FinderInit
    /\ ReportInit
    /\ DayInit /\ (open /= "checklist" => ~dyBlocked /\ dyMode = "short")
    /\ PortsInit
    /\ SheetInit /\ (open /= "sheet" => ~shBlocked /\ shCam = (CHOOSE c \in SheetCams : TRUE))
    /\ DogInit
    /\ FaultInit /\ (open /= "faults" => faWide)
    /\ TermInit
    /\ DashInit
    /\ HammingInit
    /\ AnatomyInit
    /\ FadeInit /\ (open /= "crossfade" => ~sdReduced)
    /\ PipelineInit /\ (open /= "pipeline" => piImage = (CHOOSE image \in Images : TRUE))
    /\ FloodInit /\ (open /= "flood" => flImage = (CHOOSE image \in Images : TRUE))
    /\ QueueInit /\ (open /= "queue" => gqLoad = (CHOOSE load \in GqLoads : TRUE))
    /\ StageInit
    /\ SlotInit /\ (open /= "slots" => slFixed)
    /\ WarpInit
    /\ RaceInit
    /\ GridInit
    /\ SolveInit /\ (open /= "solver" => soWho = "pnp" /\ soCost = (CHOOSE cost \in SolveCosts : TRUE))
    /\ PinInit
    /\ DistInit
    /\ BoardInit
    /\ CoverageInit
    /\ FieldInit
    /\ RealInit
    /\ FrameInit
    /\ SceneInit
    /\ ChainInit
    /\ AmbInit
    /\ MultiInit
    /\ KitInit /\ (open /= "kit" => jxReady = "loading")
    /\ BusInit
    /\ CoreInit
    /\ TimelineInit
    /\ BotInit
    /\ RewindInit
    /\ PingInit
    /\ ExplodeInit
    /\ PhotoInit
    /\ ShutterInit
    /\ FocusInit
    /\ UsbInit
    /\ IdctInit
    /\ LowInit /\ (open /= "lowlatency" => llP = (CHOOSE p \in LlTimes : TRUE))
    /\ SettingsInit
    /\ MailInit /\ (open /= "mailbox" => pmGap = (CHOOSE gap \in MailGaps : TRUE))
    /\ CoordsInit
    /\ PubsubInit /\ (open /= "pubsub" => ntPace = NtSteps)
    /\ TreeInit

Next ==
    /\ UNCHANGED open
    /\ IF open = "loop" THEN LoopNext ELSE UNCHANGED loopVars
    /\ IF open = "scrolly" THEN ScrollyNext ELSE UNCHANGED scrollyVars
    /\ IF open = "place" THEN PlaceNext ELSE UNCHANGED placeVars
    /\ IF open = "load" THEN LoadNext ELSE UNCHANGED loadVars
    /\ IF open = "journey" THEN JourneyNext ELSE UNCHANGED journeyVars
    /\ IF open = "quiz" THEN QuizNext ELSE UNCHANGED quizVars
    /\ IF open = "glossary" THEN GlossNext ELSE UNCHANGED glossVars
    /\ IF open = "layers" THEN LayersNext ELSE UNCHANGED layersVars
    /\ IF open = "service" THEN ServiceNext ELSE UNCHANGED serviceVars
    /\ IF open = "boot" THEN BootNext ELSE UNCHANGED bootVars
    /\ IF open = "finder" THEN FinderNext ELSE UNCHANGED finderVars
    /\ IF open = "reports" THEN ReportNext ELSE UNCHANGED reportVars
    /\ IF open = "checklist" THEN DayNext ELSE UNCHANGED dayVars
    /\ IF open = "ports" THEN PortsNext ELSE UNCHANGED portsVars
    /\ IF open = "sheet" THEN SheetNext ELSE UNCHANGED sheetVars
    /\ IF open = "watchdog" THEN DogNext ELSE UNCHANGED dogVars
    /\ IF open = "faults" THEN FaultNext ELSE UNCHANGED faultVars
    /\ IF open = "terminal" THEN TermNext ELSE UNCHANGED termVars
    /\ IF open = "dashboard" THEN DashNext ELSE UNCHANGED dashVars
    /\ IF open = "hamming" THEN HammingNext ELSE UNCHANGED hammingVars
    /\ IF open = "anatomy" THEN AnatomyNext ELSE UNCHANGED anatomyVars
    /\ IF open = "crossfade" THEN FadeNext ELSE UNCHANGED fadeVars
    /\ IF open = "pipeline" THEN PipelineNext ELSE UNCHANGED pipeVars
    /\ IF open = "flood" THEN FloodNext ELSE UNCHANGED floodVars
    /\ IF open = "queue" THEN QueueNext ELSE UNCHANGED queueVars
    /\ IF open = "stages" THEN StageNext ELSE UNCHANGED stageVars
    /\ IF open = "slots" THEN SlotNext ELSE UNCHANGED slotVars
    /\ IF open = "warp" THEN WarpNext ELSE UNCHANGED warpVars
    /\ IF open = "race" THEN RaceNext ELSE UNCHANGED raceVars
    /\ IF open = "grid" THEN GridNext ELSE UNCHANGED gridVars
    /\ IF open = "solver" THEN SolveNext ELSE UNCHANGED solveVars
    /\ IF open = "pinhole" THEN PinNext ELSE UNCHANGED pinVars
    /\ IF open = "distortion" THEN DistNext ELSE UNCHANGED distVars
    /\ IF open = "board" THEN BoardNext ELSE UNCHANGED boardVars
    /\ IF open = "coverage" THEN CoverageNext ELSE UNCHANGED covVars
    /\ IF open = "field" THEN FieldNext ELSE UNCHANGED fieldVars
    /\ IF open = "real" THEN RealNext ELSE UNCHANGED realVars
    /\ IF open = "frames" THEN FrameNext ELSE UNCHANGED frameVars
    /\ IF open = "scene" THEN SceneNext ELSE UNCHANGED sceneVars
    /\ IF open = "chain" THEN ChainNext ELSE UNCHANGED chainVars
    /\ IF open = "ambiguity" THEN AmbNext ELSE UNCHANGED ambVars
    /\ IF open = "multitag" THEN MultiNext ELSE UNCHANGED multiVars
    /\ IF open = "kit" THEN KitNext ELSE UNCHANGED kitVars
    /\ IF open = "bus" THEN BusNext ELSE UNCHANGED busVars
    /\ IF open = "cores" THEN CoreNext ELSE UNCHANGED coreVars
    /\ IF open = "timeline" THEN TimelineNext ELSE UNCHANGED timelineVars
    /\ IF open = "bot" THEN BotNext ELSE UNCHANGED botVars
    /\ IF open = "rewind" THEN RewindNext ELSE UNCHANGED rewindVars
    /\ IF open = "ping" THEN PingNext ELSE UNCHANGED pingVars
    /\ IF open = "explode" THEN ExplodeNext ELSE UNCHANGED explodeVars
    /\ IF open = "photo" THEN PhotoNext ELSE UNCHANGED photoVars
    /\ IF open = "shutter" THEN ShutterNext ELSE UNCHANGED shutterVars
    /\ IF open = "focus" THEN FocusNext ELSE UNCHANGED focusVars
    /\ IF open = "usb" THEN UsbNext ELSE UNCHANGED usbVars
    /\ IF open = "idct" THEN IdctNext ELSE UNCHANGED idctVars
    /\ IF open = "lowlatency" THEN LowNext ELSE UNCHANGED llVars
    /\ IF open = "settings" THEN SettingsNext ELSE UNCHANGED settingsVars
    /\ IF open = "mailbox" THEN MailNext ELSE UNCHANGED mailVars
    /\ IF open = "coords" THEN CoordsNext ELSE UNCHANGED coordsVars
    /\ IF open = "pubsub" THEN PubsubNext ELSE UNCHANGED pubsubVars
    /\ IF open = "tree" THEN TreeNext ELSE UNCHANGED treeVars

\* Each fetch is answered one way or another, and the promise that waits for them all then runs.
Fairness ==
    /\ WF_loadVars(open = "load" /\ Insert)
    /\ \A c \in Chapters : WF_loadVars(open = "load" /\ \E answer \in Answers : Answer(c, answer))

Spec == Init /\ [][Next]_siteVars /\ Fairness

-----------------------------------------------------------------------------
\* Every part's variables keep their types; among them the flood fill's stack, which holds a
\* pixel at most once.
SiteTypeOK ==
    /\ LoopTypeOK /\ ScrollyTypeOK /\ PlaceTypeOK /\ LoadTypeOK /\ JourneyTypeOK /\ QuizTypeOK
    /\ GlossTypeOK /\ LayersTypeOK /\ ServiceTypeOK /\ BootTypeOK /\ FinderTypeOK
    /\ ReportTypeOK /\ DayTypeOK /\ PortsTypeOK /\ SheetTypeOK /\ DogTypeOK /\ FaultTypeOK
    /\ TermTypeOK /\ DashTypeOK /\ HammingTypeOK /\ AnatomyTypeOK /\ FadeTypeOK
    /\ PipelineTypeOK /\ FloodTypeOK /\ QueueTypeOK /\ StageTypeOK /\ SlotTypeOK /\ WarpTypeOK
    /\ RaceTypeOK /\ GridTypeOK /\ SolveTypeOK /\ PinTypeOK /\ DistTypeOK /\ BoardTypeOK
    /\ CoverageTypeOK /\ FieldTypeOK /\ RealTypeOK /\ FrameTypeOK /\ SceneTypeOK /\ ChainTypeOK
    /\ AmbTypeOK /\ MultiTypeOK /\ KitTypeOK /\ BusTypeOK /\ CoreTypeOK /\ TimelineTypeOK
    /\ BotTypeOK /\ RewindTypeOK /\ PingTypeOK /\ ExplodeTypeOK /\ PhotoTypeOK /\ ShutterTypeOK
    /\ FocusTypeOK /\ UsbTypeOK /\ IdctTypeOK /\ LowTypeOK /\ SettingsTypeOK /\ MailTypeOK
    /\ CoordsTypeOK /\ PubsubTypeOK /\ TreeTypeOK

\* However many partials fail to load, the page comes up (load's promise).
SiteComesUp == open = "load" => PageComesUp

\* While the page plays something it goes forward: the clock of one frame's journey, the card of
\* the latency timeline, which follows the playhead, and the frames taken from a camera, of which
\* none is processed twice.
PlaybackForward == JourneyClockForward /\ CardOfPlayhead /\ FramesForward

\* A pattern up to five squares off a tag is read as that tag and no other is as near, however the
\* reader of the Hamming lab flips and turns it.
NearestTagIsTheTag == open = "hamming" => FiveOffIsStillTheTag

\* Both ways of finding blobs in a picture, union-find and the flood fill, name the connected
\* components, each pixel's and no other.
PicturesInBlobs == BlobsAreComponents /\ FloodNamesBlobs

\* Stories told by timers, observers and frames stay one story each: the log of the last crash,
\* the fault picked last, the file typed once, the GPU's line of frames with a place for each;
\* no lab's clock gets ahead of the time it was seen.
OneStoryAtATime == OneCrashTold /\ LitByTheSteps /\ TypedOnce /\ OnePlaceInLine /\ OnlySeenTime

\* What the page shows is of the settings, the step or the pick that is set now, whatever loads
\* late, is measured late, or fades still: the journey's text, the pipeline's stages, the GPU's
\* figures, the pose frames, the exploded kit, the counts of runs, the answer to a ping, the
\* heading looked up for a picture, the calibration of the snapshots, the two shutters' photos,
\* the preset that the settings are, the pose of the robot on the field.
ShownIsCurrent ==
    /\ JourneyTextOfMode /\ FadeEndsOnShown /\ CaptionOfStage /\ FiguresOfSettings
    /\ FrameOfPick /\ KitAsScrolled /\ CountsOfSettings /\ AnswerOfLastPing
    /\ HeadingOfThePicture /\ CoverageSettles /\ ShutterSweeps /\ PresetIsSet /\ CodeOfRobot

\* What the browser keeps is what the reader did, and is shown as they left it: the quiz's
\* answers, the ticks of today's checklist, the page of each camera's bench sheet; so are, while
\* the page is open, the answers to the quiz on the field; and the glossary's list stays the
\* searched one when it is built again.
KeptAsSeen == QuizTrue /\ TickedToday /\ SheetOfCamera /\ QuizFair /\ GlossaryFiltered

\* The explanations are true of what they explain: the note of what is wrong with the ports,
\* the trail to a question of the problem finder, the notes under a report's lines, the solved
\* robot of a scene, the cameras that the USB bus refuses, the frequencies a picture is rebuilt
\* from, the frames that waiting for the next one loses, and what became of each result in the
\* robot's mailbox.
NotesTellTruth ==
    /\ NoteTellsPorts /\ TrailLeadsHere /\ NotesAllPlaced /\ SameSceneSameSolve
    /\ UsbTableTrue /\ (open = "idct" => ZigzagKeeps) /\ WaitingLoses /\ NewestTaken
    /\ MailboxTrue

=============================================================================
