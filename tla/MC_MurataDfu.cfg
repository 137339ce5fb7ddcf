\* Modem update: every interleaving of commands, failures and power losses.
CONSTANTS
    A = A
    B = B
    C = C
    D = D
    v1 = v1
    v2 = v2
    v3 = v3
    Images = {A, B, C, D}
    Versions = {v1, v2, v3}
    Size <- MCSize
    Target <- MCTarget
    MaxU32 = 65535
    None = None
SPECIFICATION FairSpec
INVARIANTS InstallsWholeImage
PROPERTIES UpdateEnds TransferSpec
