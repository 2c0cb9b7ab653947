SPECIFICATION MCSpec
CONSTANTS
    e1 = e1
    e2 = e2
    timer1 = timer1
    port1 = port1
    bridge1 = bridge1
    Events <- MCEvents
    Timers <- MCTimers
    Completions <- MCCompletions
    Bridges <- MCBridges
    Tasks = {1, 2, 3}
    WaitMax = 2
    Stoppable = {}
    Wrap = 4
    Timeouts = {0, 1}
    REQUEST_MAX = 2
    GENERATIONS = 2
    QUEUE_MAX = 2
    SEQUENCES = 4
    Intervals = {0, 1}
    MaxBegins = 3
INVARIANTS
    WaitsSound
    AlarmsOnTime
    CompletionsReachTheirOwn
PROPERTIES
    TimedWaitReturns
    ImplementsAbstract
