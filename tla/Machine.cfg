SPECIFICATION Spec
CONSTANTS
    LockCpus = {1, 2, 3}
    LevelMax = 2
    Width = 4
    MaxTicket = 5
    SlotCount = 3
    Aps = {1}
    Marks = 2
    Frames = {1, 2, 3}
    Spaces = {1, 2, 3}
    Pages = {1, 2}
    Windows = {1}
    Objs = {1, 2}
    Sgs = {1, 2}
    PagesMax = 2
    ListMax = 2
    Values = {0, 1}
    Cpus = {1, 2}
    Devices = {1, 2}
    Modules = {1, 2}
    Instances = {1, 2}
    Names = {1, 2}
    Needs <- DriverNeeds
    Priority <- DriverPriority
    Matches <- DriverMatches
    Restarts <- DriverRestarts
    Stops = {1}
    Scopes = {"locks", "pair", "heap", "windows", "lists", "images", "messages", "table", "vectors", "restart", "depends", "modules", "failing", "queue", "nvme", "capsule", "cache"}
INVARIANTS
    MutualExclusion
    NoDeadlock
    RunsOnOneProcessor
    FramesCounted
    CowIsolated
    VectorsOwned
    OneDriver
    AnswerIsOwn
    NoRequestForgotten
PROPERTY LoadsAllOrNothing
CHECK_DEADLOCK FALSE
