SPECIFICATION FairSpec
CONSTANTS
    Cmds = {"a", "b", "c"}
    Hashes <- MCHashes
    NoHash = "nohash"
    Crc <- MCCrc
    Calls <- MCCalls
    Window = 1
    TransportCodes = {}
    N = 1
    MaxAttempts = 1
    MaxRestarts = 1
    AckBeforeFailure = TRUE
    CommandLists <- GoodList
    Configs <- OpenOnly
    NoResult = NoResult
    Watched = 0
PROPERTY HandlersReturn
