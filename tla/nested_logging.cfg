\* One inner log statement, in a channel with room for both events.
SPECIFICATION NestedSpec
CONSTANTS
    Readers = {r1}
    Writer = w
    Cap = 2
    MaxEvents = 4
    Requested = 2
    Extra = 1
INVARIANTS
    OffersActiveSlab
CHECK_DEADLOCK FALSE
