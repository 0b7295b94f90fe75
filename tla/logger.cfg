\* Main and two threads, up to three events each, in all three regimes.
SPECIFICATION FairSpec
CONSTANTS
    Threads = {main, t1, t2}
    Main = main
    Logger = logger
    QueueSize = 1
    MaxEvents = 3
    MaxTotal <- Totals
    EngineCrew = {t1}
    MaxChanges = 1
    MaxListeners = 1
    Regimes = {"synch", "async", "engine"}
INVARIANTS
    TypeOK
    SynchLeavesNothing
    NobodyIsPassedOver
    InstalledListenerIsFlushed
PROPERTIES
    AsyncShowsInOrder
    QueuesAreChannels
    QueuesDrain
CHECK_DEADLOCK FALSE
