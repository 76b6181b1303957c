SPECIFICATION FairSpec
CONSTANTS
    Calls = {c1, c2}
    T = 2
    KillWait = 1
    Window = 2
    MaxSignals = 2
INVARIANTS TypeOK RunningIsSpared ShutdownIsBounded
PROPERTY SignalEndsServer
