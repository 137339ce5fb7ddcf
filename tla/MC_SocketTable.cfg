\* The shell's sockets; two failed closes exhaust the records.
CONSTANTS
    MaxSockRec = 3
    MaxFds = 2
    Kinds <- MCKinds
    XferSize = 3
    MaxFragment = 2
    FragmentArgs = {0, 5}
    Sizes = {0, 1, 4}
    MaxLost = 2
SPECIFICATION FairSpec
INVARIANTS OneRecord BulkInOrder 
PROPERTY BulkEnds
