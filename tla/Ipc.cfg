SPECIFICATION MCSpec
CONSTANTS
    Slots = {1, 2, 3}
    GenMax = 1
    Wrap = 6
    Timeouts = {2}
    Stoppable = {1}
    Any = Any
INVARIANTS
    ParkedForCause
    SendsAcyclic
    AnswersTrue
PROPERTIES
    TimedSendReturns
