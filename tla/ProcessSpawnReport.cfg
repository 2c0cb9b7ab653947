SPECIFICATION Spec
CONSTANTS
    Slots = {1, 2}
    GenMax = 1
    Options = {"UNTRACED"}
    Dispositions = {"default"}
    Stoppable = {2}
    SpawnHeld = {FALSE}
    InitSlots = {1}
    Kernel = Kernel
INVARIANTS
    ReportedChildIsStopped
