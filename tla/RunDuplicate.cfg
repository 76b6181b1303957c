SPECIFICATION Spec
CONSTANTS
    Cmds = {"a", "b", "c"}
    Hashes <- MCHashes
    NoHash = "nohash"
    Crc <- MCCrc
    Calls <- MCCalls
    Window = 1
    TransportCodes = {"UNAVAILABLE"}
    N = 2
    MaxAttempts = 2
    MaxRestarts = 0
    AckBeforeFailure = FALSE
    CommandLists <- GoodList
    Configs <- OpenOnly
    NoResult = NoResult
    Watched = 0
INVARIANT AtMostOnce
