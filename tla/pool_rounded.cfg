\* A measuring program asked for three events: a pool for three, and the channel of
\* four that three are rounded up to.
SPECIFICATION MeasureSpec
CONSTANTS
    Readers = {r1, r2}
    Writer = w
    Cap = 4
    CounterBits = 8
    MaxEvents = 7
    MaxOpen = 1
    Requested = 3
    Extra = 1
INVARIANTS
    ConstructsInRawMemory
CHECK_DEADLOCK FALSE
