\* The object queue with the smallest capacity the code allows and a 4-bit
\* counter: 20 events wrap the sequence number twice and the counter once.
SPECIFICATION FairSpec
CONSTANTS
    Cap = 4
    SeqMod = 8
    Object = TRUE
    MaxEvents = 20
INVARIANTS
    GuardSeesItsEvent
    MarkIsExact
    FullIffUnreleased
    NothingLeaks
PROPERTIES
    ImplementsChannel
    FullIsTemporary
