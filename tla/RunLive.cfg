SPECIFICATION FairSpec
CONSTANTS
    Cmds = {"a", "b", "c"}
    Hashes <- MCHashes
    NoHash = "nohash"
    Crc <- MCCrc
    Calls <- MCCalls
    Window = 1
    TransportCodes = {"UNAVAILABLE"}
    N = 4
    MaxAttempts = 1
    MaxRestarts = 0
    AckBeforeFailure = TRUE
    CommandLists <- MCCommandLists
    Configs <- OpenOnly
    NoResult = NoResult
    Watched = 0
PROPERTIES AlwaysReports HandlersReturn CompletesUnaided
