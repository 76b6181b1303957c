SPECIFICATION MainSpec
CONSTANTS
    Cmds = {"a", "b"}
    Hashes <- MCHashes
    NoHash = "nohash"
    Crc <- MCCrc
    Calls = {c1, c2, m1, m2}
    MainCalls = {m1, m2}
    Requests <- MCRequests
    Configs <- MCConfigs
    MaxSeq = 1
    MainInputs <- MCInputs
    Files <- MCFiles
    Writable <- MCWritable
SYMMETRY CallSymmetry
INVARIANTS StatusIsCurrent OnlyAdmittedRuns OutcomeIsHonest ExitCodeIsHonest
