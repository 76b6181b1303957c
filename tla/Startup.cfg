SPECIFICATION Spec
CONSTANTS
    MaxPath = 5
    Chars <- MCChars
    NameChars <- MCNameChars
    Hashes <- MCHashes
    NoHash <- MCNoHash
    Cmds <- MCCmds
    Crc <- MCCrc
    Inputs <- MCInputs
    Headers <- MCHeaders
    Files <- MCFiles
    Writable <- MCWritable
    Regex <- MCRegex
CHECK_DEADLOCK FALSE
INVARIANTS
    TypeOK
    AuthIsEnforced
    ExpansionIsByReference
    
    ListsAsWritten
