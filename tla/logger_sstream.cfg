\* The default mode with a second thread.
SPECIFICATION Spec
CONSTANTS
    Threads = {main, t1}
    Main = main
    Logger = logger
    QueueSize = 1
    MaxEvents = 2
    MaxTotal <- Totals
    EngineCrew = {}
    MaxChanges = 1
    MaxListeners = 1
    Regimes = {"synch"}
INVARIANTS
    EveryReadEventIsShown
CHECK_DEADLOCK FALSE
