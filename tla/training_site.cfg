\* The page's runtime and its labs, one part at a time. Some parts end (a picture is worked
\* through, a solver returns, a file is typed): the site then waits for the reader.
SPECIFICATION Spec
CHECK_DEADLOCK FALSE

CONSTANTS
    FrameIds = {1, 2, 3}
    LoopMaxDt = 2
    LoopMaxNow = 6
    ScrollySteps = 4
    ShownInShort = {1, 4}
    Places = {"a", "b"}
    FullPlaces = {"b"}
    Top = "top"
    NoPlace = "none"
    MaxEntries = 2
    Chapters = {"c1", "c2"}
    FullChapters = {"c2"}
    Throwing = {"c1"}
    Terms = {"t"}
    NoTerm = "none"
    QuizQuestions = 3
    QuizFull = {1}
    NoAnswer = 9
    GlossTerms = {"t1", "t2", "t3"}
    GlossMatches = {"t1", "t3"}
    LayerDwell = 3
    BootMax = 3
    BootMaxNow = 6
    PitItems = {"i1", "i2"}
    PitFullItems = {"i2"}
    PitDays = 3
    PitCopies = 2
    SheetCams = {1, 2}
    SheetSteps = {1, 2}
    FaultIds = {"unplug", "power", "hub", "corrupt"}
    FaultDwell = 2
    TermLines = 3
    DashSag = 3
    DashMaxOver = 2
    HamCells = {0, 5, 14, 30, 35}
    HamLastTag = 4
    StoryStages = {0, 1, 2}
    FadeFrames = 2
    W = 4
    H = 3
    TS = 1
    MinBlob = 2
    GqPieces = 2
    GqMaxFrames = 3
    GqLoads = {1, 2}
    Stages = {0, 1, 2}
    SlotCount = 3
    WarpThreads = 4
    RaceTiles = 6
    RaceCores = 2
    RaceSlow = 2
    GridPowers = {2, 3, 4}
    SolveCosts = {0, 1, 2, 3}
    NotFinite = 4
    SolveRounds = 3
    CovFull = 6
    CovPerTen = 4
    CovWaiting = 2
    BoardSlides = {0, 30, 60}
    FieldSpots = 3
    FieldFrames = 4
    PosePictures = {"a", "b", "c"}
    PoseSpots = {1, 2, 3}
    PoseSeeds = 2
    AmbSettings = {"s", "t"}
    AmbErrors = {1, 6}
    AmbWaiting = 2
    KitSteps = {0, 1, 5, 7}
    KitPicks = {"fan", "module", "ssd", "usb"}
    BusPicks = {"cpu", "usb", "lpddr", "hub"}
    CoreFrames = 2
    BotSpins = {0, 2}
    BotLate = {1, 2}
    BotKeep = 4
    BotMaxStep = 2
    BotMaxNow = 6
    PingUneven = {0, 30}
    PingFrames = 2
    CamVideos = {"yt"}
    LightSteps = {0, 3, 4, 5, 6, 7}
    CamSliders = {10, 50}
    ShutterRows = 3
    ShutterPeriods = {4, 6}
    ShutterMaxDt = 2
    FocusLenses = {0, 25, 48, 62, 76, 100}
    NtEvents = 3
    NtSteps = {1, 2}
    NtNodes = {"root", "TopLeft", "rawBytes", "targets"}
    NtPorts = {"TopLeft", "TopRight"}
    UsbTouches = 2
    LlUntil = 3000
    MailGaps = {8, 16, 26, 66}
    MailFrames = 5
    CoQuestions = 2
    CoSpots <- MCCoSpots
    CoTurns <- MCCoTurns
    CoAsked <- MCCoAsked
    CoOrders <- MCCoOrders
    LlTimes <- MCLlTimes
    QuizRight <- MCQuizRight
    DashHot <- MCDashHot
    HamRandom <- MCHamRandom
    SolveTries <- MCSolveTries
    PoseSees <- MCPoseSees
    MultiSees <- MCMultiSees
    RowEnds <- MCRowEnds
    NtLegs <- MCNtLegs
    NtParent <- MCNtParent
    Images <- MCImages

INVARIANTS
    SiteTypeOK
    OneLoop
    SettledOnNearest
    PinHolds
    BackRemembersPlace
    StartedOnce
    StateAnswersRequest
    NearestTagIsTheTag
    PicturesInBlobs
    ParentsComeFirst
    SolverKeepsBest
    OneStoryAtATime
    ShownIsCurrent
    KeptAsSeen
    NotesTellTruth

PROPERTIES
    SiteComesUp
    PlaybackForward
    LayersKeepPlayer
