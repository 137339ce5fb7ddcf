\* Two sessions in either direction over a faulty line.
SPECIFICATION FairSpec
CONSTANTS
    Length <- MCLength
    OldFile <- MCOldFile
    NoFile = NoFile
    Sendings <- MCSendings
    Receivings <- MCReceivings
    PktUnits = 3
    ObufLen = 2
    SeqNums = 4
    NSlots = 2
    Retry = 0
    NumFiles = 2
    PeerLimit = 2
    Cap = 2
    MaxFaults = 2
    MaxIo = 1
    MaxSessions = 2
INVARIANTS
    InOrder
    WholeAtEnd
    GivesUpLate
    NoHandleLeak
PROPERTIES
    Completes
CHECK_DEADLOCK FALSE
