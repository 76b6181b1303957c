SPECIFICATION Spec
CONSTANTS
    Cmds = {"a", "b", "c"}
    Hashes <- MCHashes
    NoHash = "nohash"
    Crc <- MCCrc
    Calls <- MCCalls
    Window = 1
    TransportCodes = {"UNAVAILABLE"}
    N = 2
    MaxAttempts = 2
    MaxRestarts = 0
    AckBeforeFailure = TRUE
    CommandLists <- MCCommandLists
    Configs <- MCConfigs
    NoResult = NoResult
    Watched = 0
INVARIANTS TypeOK AtMostOnce RunsArePermittedPrefix ReportIsExact NoneMissing SuccessIsQuiet
PROPERTIES EventIsFinal ImplementsAbstractRun
