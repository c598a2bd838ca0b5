\* Arguments, processes, descriptors and names, one part per behaviour.
INIT LibInit
NEXT LibNext
CONSTANTS
    CommandLines <- SomeCommandLines
    Parsers <- SomeParsers
    IntMax = 1
    LLongMax = 4
    PathEntries <- SomeEntries
    ArgVectors <- SomeArgVectors
    ForeignLines <- SomeForeignLines
    FirstBlock = 4
    PointerSize = 2
    WinThread = {t1, t2}
    ExecThread = t1
    WinCalls <- SomeCalls
    KnownFds = {0, 1, 3}
    FirstMax = 1
    ListAllocFails = FALSE
    RemoteThreadFails = FALSE
    MaxFd = 3
    FileNames = {"old", "new"}
    OpenFlags <- SomeFlags
    CrtModes = {"binary", "text"}
    Buffers <- SomeBuffers
    FileOps = 4
    FdThreads = 1
    PipeExhausts = FALSE
    Trees <- SomeTrees
    Platforms = {"posix", "win32"}
    RemoveFlags <- SomeRemoveFlags
    LockedSets <- SomeLocked
    MkdirPaths <- SomePaths
    Interference = 1
    RecursionMax = 3
    Caller = {c1, c2}
    Link = {"x", "y", "z", "u"}
    FileId <- OneFileEach
    StartName <- OwnNames
    Volume <- TwoVolumes
    NameCalls <- SomeNameCalls
    MaxVolumes = 1
    Refusals = TRUE
    Sources <- SomeSources
    CopyFlags <- SomeCopyFlags
    MaxBlocks = 3
    PathStrings <- SomePathStrings
    Client = {"c1", "c2"}
    Pairing = {"c2"}
    SendMsgs <- SomeSendMsgs
    RecvBufs <- SomeRecvBufs
    MaxData = 4
    MaxHandle = 5
    MaxSends = 2
    Backlog = 2
    Mishaps = {}
    PathSeparators <- BothSeparators
    MapThread = {"t1", "t2"}
    Pages = 4
    MapLengths = {1, 2}
    MIN_NUM_ENTRIES = 1
    MapCalls = 3
    MunmapFails = FALSE
    EnvName = {"a", "b"}
    Folded <- Distinct
    EnvWord = {"u", "v"}
    EnvRoom = 1
    EnvCalls = 3
    EnvFaults = {"create", "putenv"}
    SEC_IN_NSEC = 3
    NUM_TS_MAX = 4
    STEP_NEED_INIT = 100
    MaxClock = 6
    Delays = {1, 2}
    Overheads = {0, 1}
    MaxPrints = 2
    Labels = {"x"}
    KeepsUnlabelled = FALSE
INVARIANTS
    ParseMeetsGrammar
    ArgvRoundTrip
    WaitTellsOwnChild
    HandlesAccounted
    ChildGetsMap
    InfoTellsFile
    CountsTellCaller
    RemovesWholeTree
    
    FailedRenameKeepsName
    LinksAccounted
    CopyAllOrNothing
    PathSplits
    IpcDelivers
    MappingsExact
    EnvAgrees
    ProfileTellsTimes
PROPERTIES
    ContentsKept
    RemovesOnlyAsked
CHECK_DEADLOCK FALSE
