\* MCU update: every interleaving of commands, failures and power losses.
CONSTANTS
    A = A
    L = L
    X = X
    Images = {A, L, X}
    Genuine = {A, L}
    Size <- MCSize
    SlotPages = 2
    MaxU32 = 65535
    CntCap = 4
    Bad = Bad
    NoFile = NoFile
SPECIFICATION FairSpec
INVARIANTS UpdateComplete OnlyGenuine NeverBricked
PROPERTIES RunningSlotUntouched TransferSpec LoopEnds
