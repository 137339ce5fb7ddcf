\* WiFi update: refused chunks, failing reads and power losses.
CONSTANTS
    A = A
    B = B
    C = C
    D = D
    E = E
    Images = {A, B, C, D, E}
    Size <- MCSize
    FileLen <- MCFileLen
    Words = {0, 4095, 9000, 20000}
    MaxU32 = 65535
    None = None
SPECIFICATION WifiFairSpec
INVARIANTS CompleteMeansWhole
PROPERTIES UpdateEnds TransferSpec
