\* The object queue as instantiated with std::uint8_t, with as many readers as
\* create_reader hands out.
SPECIFICATION SlowReadersSpec
CONSTANTS
    Cap = 4
    SeqMod = 128
    NReaders = 255
    Object = TRUE
    MayDrop = {}
    MaxOpen = 1
    MaxEvents = 5
INVARIANT FullIffUnreleased
CHECK_DEADLOCK FALSE
