SPECIFICATION MCSpec
CONSTANTS
    Slots = {1, 2, 3}
    GenMax = 1
    Options = {"UNTRACED"}
    Dispositions = {"default", "ignore", "catch"}
    Stoppable = {2}
    SpawnHeld = {TRUE, FALSE}
    InitSlots = {1}
    Kernel = Kernel
    SlotCount = 4
    Aps = {}
    Marks = 2
INVARIANTS
    FamilyIsLive
    NoWaitSleepsOn
    ReturnsToRunnable
PROPERTIES
    OrphansEnd
    QueueMovesOn
