\* Two readers with guards in any order, a 3-bit counter that wraps.
SPECIFICATION FairSpec
CONSTANTS
    Cap = 2
    SeqMod = 4
    NReaders = 2
    Object = TRUE
    MayDrop = {255, 0, 1}
    MaxOpen = 2
    MaxEvents = 9
INVARIANTS
    FullIffUnreleased
    DestroyedOnce
PROPERTIES
    ImplementsChannel
    FullIsTemporary
