SPECIFICATION Spec
CONSTANTS
    Tasks = {1, 2}
    Events = {e1, e2}
    WaitMax = 2
    Stoppable = {1}
    Wrap = 2
    Timeouts = {0}
INVARIANT BrokenWaitIsOver
