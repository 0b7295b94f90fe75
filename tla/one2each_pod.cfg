\* Three readers of the pod queue with the orders of its atomics, a 3-bit counter
\* that wraps.
SPECIFICATION MemoryFairSpec
CONSTANTS
    Cap = 2
    SeqMod = 4
    NReaders = 3
    Object = FALSE
    MayDrop = {255, 0, 1, 2}
    MaxOpen = 1
    MaxEvents = 9
INVARIANTS
    NoDataRace
    EmptyIffAllTaken
PROPERTIES
    PublishedIsTaken
