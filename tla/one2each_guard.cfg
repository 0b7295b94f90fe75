\* Two readers of the object queue, one event: the guards' relaxed countdown.
SPECIFICATION MemorySpec
CONSTANTS
    Cap = 2
    SeqMod = 4
    NReaders = 2
    Object = TRUE
    MayDrop = {}
    MaxOpen = 1
    MaxEvents = 3
INVARIANTS
    NoDataRace
CHECK_DEADLOCK FALSE
