\* Every order of interrupts, callbacks, commands and steps of the thread.
CONSTANTS
    MaxNotes = 2
    JingleNotes = 2
    MaxEdges = 2
    MaxLinks = 2
SPECIFICATION BleFairSpec
INVARIANTS ToldIsRecorded SomebodySilences
PROPERTY Served
