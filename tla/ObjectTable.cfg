SPECIFICATION MCSpec
CONSTANTS
    bsp = bsp
    ap = ap
    t1 = t1
    t2 = t2
    p1 = p1
    p2 = p2
    wait = wait
    transfer = transfer
    None = None
    CPUs = {bsp, ap}
    SyscallCPUs = {bsp}
    Tasks = {t1, t2}
    KOBJECT_MAX = 2
    KHANDLE_MAX = 2
    Places = {p1, p2}
    Rights = {wait, transfer}
    TRANSFER = transfer
    RefMax = 3
    GenMax = 2
    MaxCreate = 3
INVARIANTS
    ReferencesAreHolders
    NoDanglingPointer
    DestroyedOnce
    HandlesSound
PROPERTIES
    UnheldObjectIsFreed
