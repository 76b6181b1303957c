SPECIFICATION FairSpec
CONSTANTS
    MaxSteps = 4
    Programs <- MCPrograms
    PipeSize = 1
    Limits = {"positive", "zero", "negative"}
INVARIANTS TypeOK NothingLost ReturnIsHonest NoChildLeft
PROPERTY AlwaysReturns
