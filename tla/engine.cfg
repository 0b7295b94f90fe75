\* Three names, one of them the logger's; two bodies, so that a name may be given
\* two tasks; 9 is narrowed to 1, and core 3 is not isolated.
SPECIFICATION FairSpec
CONSTANTS
    Names = {1, 2, 3}
    LOGGER_TASK = 2
    Values = {0, 1, 2, 3, 9}
    UMod = 8
    TotalCpus = 4
    Isolated = {0, 1, 2}
    Bodies = {f, g}
    DISPATCH = dispatch
    QueueSize = 1
    MaxEvents = 3
INVARIANTS
    ConstructorFindsEveryTask
    OneThreadPerCore
    NoThreadOutlivesMain
    NothingLeftWithoutLogger
PROPERTIES
    StopEnds
    LoggerKeepsUp
