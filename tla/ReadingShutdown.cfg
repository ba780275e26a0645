SPECIFICATION BufferSpec
CONSTANTS
    Calls = 7
    Bad = {2, 5}
    BatchSize = 2
    MaxBuffer = 3
INVARIANTS
    ShutdownFlushes
CHECK_DEADLOCK FALSE
