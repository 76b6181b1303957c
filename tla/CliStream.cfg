SPECIFICATION FairSpec
CONSTANTS
    Cmds = {"a", "b"}
    Hashes <- MCHashes
    NoHash = "nohash"
    Crc <- MCCrc
    Call = "call"
    Calls <- MCCalls
    Window = 1
    TransportCodes = {"UNAVAILABLE"}
    Clients = {"cpp", "py"}
    CommandLists <- MCCommandLists
    Configs <- MCConfigs
INVARIANTS ZeroMeansAllAnswered StallsBeyondCapacity
PROPERTY AlwaysEnds
CHECK_DEADLOCK FALSE
