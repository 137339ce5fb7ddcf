\* Every timing of edges, timers and the main thread.
CONSTANTS
    DEBOUNCE = 2
    FACTORY_RESET_TIMEOUT = 6
    TimeCap = 8
SPECIFICATION ButtonFairSpec
INVARIANTS OneReport DeinitIsQuiet
PROPERTY PressReported
