\* The pod queue as instantiated with std::uint8_t and the largest capacity
\* to2pow<std::uint8_t> returns, alone and in both directions of a ping-pong; 260
\* events wrap the 8-bit counter.  Arenas of up to 9 bytes at three origins; events
\* of 8 bytes with up to 3 arguments; lists of two cpus' or ranges' texts.
SPECIFICATION PartsSpec
CONSTANTS
    Cap = 64
    SeqMod = 128
    Object = FALSE
    MaxEvents = 260
    Iters = 5
    Origins = {0, 1, 3}
    ArenaSizes = {0, 5, 9}
    Aligns = {1, 2, 4}
    TypeSizes = {1, 2, 4}
    Counts = {0, 1, 2, 5, 15}
    SizeMod = 16
    MaxBlocks = 3
    BufferSize = 8
    ScalarSize = 1
    ViewSize = 2
    TextSizes = {0, 2, 3}
    MaxArgs = 3
    MaxPattern = 4
    CpuMod = 5
    MAX_CPUS = 3
    ListNames = {"isolcpus", "nohz_full", "rcu_nocbs"}
    Texts <- CpuTexts
    Cores = 3
    Runtime = 3
    Thresholds = {1, 2}
INVARIANTS
    EmptyIffAllTaken
    NeverAborts
    BlocksStayApart
    PrintsWhatWasLogged
    ListsAreExact
    ReportNeedsAllOrNone
PROPERTIES
    PingPongEnds
    CpuListsAreRead
    JitterIsReported
CHECK_DEADLOCK FALSE
