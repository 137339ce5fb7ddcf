\* Three rounds in a connection, three attempts, four faults at any moment.
CONSTANTS
    MaxIterations = 3
    ConnectTries = 3
    Cap = 2
    MaxFaults = 4
SPECIFICATION FairSpec
INVARIANTS SessionTrue PublishesInOrder
PROPERTY Recovers
