\* A channel of four events (the least to2pow gives) and its five slabs, each
\* used again; two readers; the logger's process and a measuring program.
SPECIFICATION ProgramSpec
CONSTANTS
    Readers = {r1, r2}
    Writer = w
    Cap = 4
    CounterBits = 8
    MaxEvents = 6
    MaxOpen = 2
    Requested = 4
    Extra = 1
INVARIANTS
    SlabsExact
    OffersActiveSlab
    CountersBalance
PROPERTIES
    ImplementsChannel
    MeasureEnds
