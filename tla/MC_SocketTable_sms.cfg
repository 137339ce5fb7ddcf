\* Text messages, while the web demo thread has a socket of its own.
CONSTANTS
    MaxSockRec = 3
    MaxFds = 2
    Kinds <- MCKinds
    XferSize = 3
    MaxFragment = 2
    FragmentArgs = {0, 5}
    Sizes = {0, 1, 4}
    MaxLost = 0
SPECIFICATION FairSpec
INVARIANT SmsThroughSocket
