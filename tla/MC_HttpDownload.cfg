\* Downloads with every failure of the server, the network and the file system.
CONSTANTS
    bin = bin
    sha = sha
    Files = {bin, sha}
    Length <- MCLength
    Lists <- MCLists
SPECIFICATION FairSpec
INVARIANTS StoredInOrder WholeOrError NoSocketLeak
PROPERTY CommandEnds
