\* Sentences of the receiver and commands of the shell at every moment of the thread.
CONSTANTS
    MaxSentences = 3
    MaxCommands = 3

SPECIFICATION FairSpec

INVARIANTS
    FreshLocation
    TimedByColdStart

PROPERTY SetUpAgain
