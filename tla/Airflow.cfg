SPECIFICATION Spec
CONSTANTS
    Tasks = {s, t}
    Inputs <- MCInputs
    ConnIds = {"c", "d"}
    Versions <- MCVersions
    CaContents = {"ca1", "ca2"}
    EmptyFile = "empty"
    NoCa = "system"
    Unread = "unread"
    NoConn = NoConn
    MaxAttempts = 2
    MaxEdits = 1
    MaxFaults = 1
INVARIANTS CallIsOfOneConnection ChannelIsShared XComIsExact OrderedBelowTen
SYMMETRY MCSymmetry
CHECK_DEADLOCK FALSE
