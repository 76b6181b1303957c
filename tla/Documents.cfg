SPECIFICATION DocumentsSpec
CONSTANTS
    MaxPath = 5
    Chars <- MCChars
    NameChars <- MCNameChars
    Hashes <- MCHashes
    NoHash <- MCNoHash
    Cmds <- MCCmds
    Crc <- MCCrc
    Inputs <- DocumentInputs
    Headers <- MCHeaders
    Files <- DocumentFiles
    Writable <- MCWritable
    Regex <- MCRegex
CHECK_DEADLOCK FALSE
INVARIANT OnePromiseIsKept
