--------------------------- MODULE LoggerAdapter ---------------------------
(***************************************************************************)
(* The logger: clients that write events into a queue of their thread, and *)
(* dispatch, which takes one event from the queues in turn, formats it and *)
(* hands the text to the listener.  In synch mode every thread calls       *)
(* dispatch itself after each event; in async mode one thread calls it in  *)
(* a loop.                                                                 *)
(*                                                                         *)
(* The mutex guards the consumers, the cursor m_cindex, the listener and   *)
(* the mode, and dispatch opens it around the call of notify.  m_synch is  *)
(* a flag of each client that its thread reads without the mutex, and the  *)
(* formatted text stays in the one stream all dispatches share.            *)
(*                                                                         *)
(* A queue is the channel of Channel.tla with one reader, whose guards are *)
(* the set open; an event is its thread and its ordinal.  Slabs and boxes  *)
(* are in EventPool.  Formatting is left out: a text is the event it was   *)
(* made from.  An event a full queue refuses changes m_lost, which nobody  *)
(* reads, and is left out; in particular it is not followed by dispatch.   *)
(***************************************************************************)
EXTENDS Integers, Sequences, FiniteSets

Free == "free"
None == <<>>

CONSTANTS
    Threads,      \* the threads that log
    Main,         \* the one the adapter registers when it is constructed
    Logger,       \* the thread that does nothing but dispatch
    QueueSize,    \* QUEUE_SIZE
    MaxEvents,    \* bound: events a thread writes
    MaxTotal,     \* bound: events all threads write together in each regime
    EngineCrew,   \* bound: threads that register in the engine regime
    MaxChanges,   \* bound: calls of change_mode
    MaxListeners, \* bound: calls of replace_listener
    Regimes       \* the ways of using the logger, see Init

ASSUME LoggerAssumption ==
    /\ Main \in Threads
    /\ Logger \notin Threads
    /\ Free \notin Threads \cup {Logger}
    /\ QueueSize \in Nat \ {0}
    /\ MaxEvents \in Nat
    /\ MaxTotal \in [Regimes -> Nat]
    /\ EngineCrew \subseteq Threads
    /\ MaxChanges \in Nat /\ MaxListeners \in Nat
    /\ Regimes \subseteq {"synch", "async", "engine"}

Dispatchers == Threads \cup {Logger}
Events == Threads \X (0..(MaxEvents - 1))

VARIABLES
    regime,     \* how the program uses the logger
    consumers,  \* the registered threads, in the order of impl.consumers
    mode,       \* impl.mode, TRUE for synch
    m_synch,    \* the flag of each thread's client
    logged,     \* events a thread has written into its queue
    read,       \* events taken from a thread's queue
    open,       \* events whose guard is open
    mutex,      \* the dispatcher that holds impl.mutex, or Free
    m_cindex,
    sstream,    \* the text in the shared stream: an event, or None
    listener,   \* the listener installed; listeners are numbered
    unflushed,  \* listeners notified since they were last flushed
    changes,    \* number of calls of change_mode so far
    pc, i, event, target,  \* of a dispatcher: place, loop index, event, listener
    shown,      \* history: the events whose text a listener was given
    passed      \* history: events of others taken while a queue was waiting

queueVars == <<logged, read, open>>
sharedVars == <<consumers, mode, mutex, m_cindex, listener>>
threadVars == <<pc, i, event, target>>
outputVars == <<sstream, unflushed, shown>>
vars == <<regime, m_synch, changes, passed,
          queueVars, sharedVars, threadVars, outputVars>>

Registered == {consumers[k] : k \in 1..Len(consumers)}

TypeOK ==
    /\ regime \in Regimes
    /\ consumers \in Seq(Threads)
    /\ mode \in BOOLEAN
    /\ m_synch \in [Threads -> BOOLEAN]
    /\ logged \in [Threads -> 0..MaxEvents]
    /\ read \in [Threads -> 0..MaxEvents]
    /\ open \subseteq Events
    /\ mutex \in Dispatchers \cup {Free}
    /\ m_cindex \in 0..(Len(consumers) - 1)
    /\ sstream \in Events \cup {None}
    /\ listener \in 0..MaxListeners
    /\ unflushed \subseteq 0..MaxListeners
    /\ changes \in 0..MaxChanges
    /\ pc \in [Dispatchers -> {"idle", "wrote", "setmode", "lock", "scan",
                               "notify", "release", "relock"}]
    /\ i \in [Dispatchers -> Nat]
    /\ event \in [Dispatchers -> Events \cup {None}]
    /\ target \in [Dispatchers -> 0..MaxListeners]
    /\ shown \subseteq Events
    /\ passed \in [Threads -> Nat]

(***************************************************************************)
(*   synch   the default: no logger thread, the mode is never changed      *)
(*   async   main changes the mode first, then other threads register;     *)
(*           the logger's thread dispatches (logger_mthreads.cpp)          *)
(*   engine  the logger's thread runs, and the mode changes while the      *)
(*           other threads log (engine_main.cpp)                           *)
(***************************************************************************)
Init ==
    /\ regime \in Regimes
    /\ consumers = <<Main>>
    /\ mode = TRUE
    /\ m_synch = [t \in Threads |-> TRUE]
    /\ logged = [t \in Threads |-> 0]
    /\ read = [t \in Threads |-> 0]
    /\ open = {}
    /\ mutex = Free
    /\ m_cindex = 0
    /\ sstream = None
    /\ listener = 0
    /\ unflushed = {}
    /\ changes = 0
    /\ pc = [d \in Dispatchers |-> "idle"]
    /\ i = [d \in Dispatchers |-> 0]
    /\ event = [d \in Dispatchers |-> None]
    /\ target = [d \in Dispatchers |-> 0]
    /\ shown = {}
    /\ passed = [t \in Threads |-> 0]

\* In the async regime nothing is logged before the mode is async.
Started == regime = "async" => changes > 0 /\ pc[Main] # "setmode"

Goto(d, place) == pc' = [pc EXCEPT ![d] = place]

\* The locals of a call end with it.
Return(d) ==
    /\ Goto(d, "idle")
    /\ i' = [i EXCEPT ![d] = 0]
    /\ event' = [event EXCEPT ![d] = None]
    /\ target' = [target EXCEPT ![d] = 0]
-----------------------------------------------------------------------------
(***************************************************************************)
(* The application threads.                                                *)
(***************************************************************************)

\* Mutant: a client starts in the default mode.
Register_InSynch(t) ==
    /\ t \notin Registered
    /\ regime = "engine" => t \in EngineCrew
    /\ Started
    /\ mutex = Free
    /\ consumers' = Append(consumers, t)
    /\ UNCHANGED <<regime, m_synch, changes, passed, queueVars, mode, mutex,
                   m_cindex, listener, threadVars, outputVars>>

\* The thread guard: the queue is made outside the lock, and the client takes
\* the mode over under it.  Only then has the thread a client.
Register(t) ==
    /\ t \notin Registered
    /\ regime = "engine" => t \in EngineCrew
    /\ Started
    /\ mutex = Free
    /\ consumers' = Append(consumers, t)
    /\ m_synch' = [m_synch EXCEPT ![t] = mode]
    /\ UNCHANGED <<regime, changes, passed, queueVars, mode, mutex, m_cindex,
                   listener, threadVars, outputVars>>

\* Mutant: the queue counts one place too many.
HasRoom_OneMore(t) ==
    LET oldest == logged[t] - QueueSize - 1
    IN  oldest < read[t] /\ <<t, oldest>> \notin open

HasRoom(t) ==
    LET oldest == logged[t] - QueueSize
    IN  oldest < read[t] /\ <<t, oldest>> \notin open

\* try_log_event up to the successful try_write.
Log(t) ==
    /\ t \in Registered
    /\ Started
    /\ pc[t] = "idle"
    /\ logged[t] < MaxEvents
    /\ Cardinality({e \in Events : e[2] < logged[e[1]]}) < MaxTotal[regime]
    /\ HasRoom(t)
    /\ logged' = [logged EXCEPT ![t] = @ + 1]
    /\ Goto(t, "wrote")
    /\ UNCHANGED <<regime, m_synch, changes, passed, read, open, sharedVars,
                   i, event, target, outputVars>>

\* Mutant: the client keeps the mode it was made with.
ReadMode_Ignored(t) ==
    /\ pc[t] = "wrote"
    /\ Goto(t, "idle")
    /\ UNCHANGED <<regime, m_synch, changes, passed, queueVars, sharedVars,
                   i, event, target, outputVars>>

\* And the rest of it: the flag is read without the mutex.
ReadMode(t) ==
    /\ pc[t] = "wrote"
    /\ Goto(t, IF m_synch[t] THEN "lock" ELSE "idle")
    /\ UNCHANGED <<regime, m_synch, changes, passed, queueVars, sharedVars,
                   i, event, target, outputVars>>

\* change_mode, called by main: the flags are set one by one under the mutex.
ChangeMode ==
    /\ regime # "synch"
    /\ regime = "async" => mode
    /\ changes < MaxChanges
    /\ pc[Main] = "idle"
    /\ mutex = Free
    /\ changes' = changes + 1
    /\ mode' = ~ mode
    /\ mutex' = Main
    /\ Goto(Main, "setmode")
    /\ i' = [i EXCEPT ![Main] = 0]
    /\ UNCHANGED <<regime, m_synch, passed, queueVars, consumers, m_cindex,
                   listener, event, target, outputVars>>

SetMode ==
    /\ pc[Main] = "setmode"
    /\ i[Main] < Len(consumers)
    /\ m_synch' = [m_synch EXCEPT ![consumers[i[Main] + 1]] = mode]
    /\ i' = [i EXCEPT ![Main] = @ + 1]
    /\ UNCHANGED <<regime, changes, passed, queueVars, sharedVars,
                   pc, event, target, outputVars>>

ChangeModeDone ==
    /\ pc[Main] = "setmode"
    /\ i[Main] = Len(consumers)
    /\ mutex' = Free
    /\ Return(Main)
    /\ UNCHANGED <<regime, m_synch, changes, passed, queueVars, consumers, mode,
                   m_cindex, listener, outputVars>>

ReplaceListener ==
    /\ Started
    /\ listener < MaxListeners
    /\ mutex = Free
    /\ listener' = listener + 1
    /\ UNCHANGED <<regime, m_synch, changes, passed, queueVars, consumers, mode,
                   mutex, m_cindex, threadVars, outputVars>>
-----------------------------------------------------------------------------
(***************************************************************************)
(* dispatch.                                                               *)
(***************************************************************************)

\* The logger's thread calls it again and again.
CallDispatch ==
    /\ regime # "synch"
    /\ pc[Logger] = "idle"
    /\ Goto(Logger, "lock")
    /\ UNCHANGED <<regime, m_synch, changes, passed, queueVars, sharedVars,
                   i, event, target, outputVars>>

Lock(d) ==
    /\ pc[d] = "lock"
    /\ mutex = Free
    /\ mutex' = d
    /\ i' = [i EXCEPT ![d] = 0]
    /\ Goto(d, "scan")
    /\ UNCHANGED <<regime, m_synch, changes, passed, queueVars, consumers, mode,
                   m_cindex, listener, event, target, outputVars>>

Waiting(t) == read[t] < logged[t]

\* The queue dispatch looks at in turn j of its loop, and now: consumers counts
\* from 1, cindex from 0.
InTurn(j) == consumers[((m_cindex + j) % Len(consumers)) + 1]
Source(d) == InTurn(i[d])

\* Mutant: the scan gives up at the first empty queue.
ScanEmpty_GivesUp(d) ==
    /\ pc[d] = "scan"
    /\ i[d] < Len(consumers)
    /\ ~ Waiting(Source(d))
    /\ i' = [i EXCEPT ![d] = Len(consumers)]
    /\ UNCHANGED <<regime, m_synch, changes, passed, queueVars, sharedVars,
                   pc, event, target, outputVars>>

ScanEmpty(d) ==
    /\ pc[d] = "scan"
    /\ i[d] < Len(consumers)
    /\ ~ Waiting(Source(d))
    /\ i' = [i EXCEPT ![d] = @ + 1]
    /\ UNCHANGED <<regime, m_synch, changes, passed, queueVars, sharedVars,
                   pc, event, target, outputVars>>

\* try_read finds an event: it is formatted into the stream, the listener is
\* copied, and the mutex is opened.
ScanFound(d) ==
    LET t == Source(d)
        e == <<t, read[t]>>
    IN  /\ pc[d] = "scan"
        /\ i[d] < Len(consumers)
        /\ Waiting(t)
        /\ read' = [read EXCEPT ![t] = @ + 1]
        /\ open' = open \cup {e}
        /\ event' = [event EXCEPT ![d] = e]
        /\ sstream' = e
        /\ target' = [target EXCEPT ![d] = listener]
        /\ passed' = [u \in Threads |->
                        IF u = t \/ ~ Waiting(u) THEN 0 ELSE passed[u] + 1]
        /\ mutex' = Free
        /\ Goto(d, "notify")
        /\ UNCHANGED <<regime, m_synch, changes, logged, consumers, mode, m_cindex,
                       listener, i, unflushed, shown>>

ScanDone(d) ==
    /\ pc[d] = "scan"
    /\ i[d] = Len(consumers)
    /\ mutex' = Free
    /\ Return(d)
    /\ UNCHANGED <<regime, m_synch, changes, passed, queueVars, consumers, mode,
                   m_cindex, listener, outputVars>>

\* The listener sees what the stream holds now.
Notify(d) ==
    /\ pc[d] = "notify"
    /\ shown' = shown \cup {sstream}
    /\ unflushed' = unflushed \cup {target[d]}
    /\ Goto(d, "release")
    /\ UNCHANGED <<regime, m_synch, changes, passed, queueVars, sharedVars,
                   i, event, target, sstream>>

\* Leaving the block closes the guard, still without the mutex.
Release(d) ==
    /\ pc[d] = "release"
    /\ open' = open \ {event[d]}
    /\ Goto(d, "relock")
    /\ UNCHANGED <<regime, m_synch, changes, passed, logged, read, sharedVars,
                   i, event, target, outputVars>>

\* Mutant: the cursor stays on the queue just served.
Relock_StaysPut(d) ==
    /\ pc[d] = "relock"
    /\ mutex = Free
    /\ unflushed' = unflushed \ {listener}
    /\ m_cindex' = (m_cindex + i[d]) % Len(consumers)
    /\ Return(d)
    /\ UNCHANGED <<regime, m_synch, changes, passed, queueVars, consumers, mode,
                   mutex, listener, sstream, shown>>

\* Mutant: the modulus is forgotten.
Relock_NoWrap(d) ==
    /\ pc[d] = "relock"
    /\ mutex = Free
    /\ unflushed' = unflushed \ {listener}
    /\ m_cindex' = m_cindex + i[d] + 1
    /\ Return(d)
    /\ UNCHANGED <<regime, m_synch, changes, passed, queueVars, consumers, mode,
                   mutex, listener, sstream, shown>>

\* Mutant: nobody flushes.
Relock_NoFlush(d) ==
    /\ pc[d] = "relock"
    /\ mutex = Free
    /\ m_cindex' = (m_cindex + i[d] + 1) % Len(consumers)
    /\ Return(d)
    /\ UNCHANGED <<regime, m_synch, changes, passed, queueVars, consumers, mode,
                   mutex, listener, outputVars>>

\* flush, and the cursor moves past the queue that was served, all under the
\* mutex; dispatch then returns true.
Relock(d) ==
    /\ pc[d] = "relock"
    /\ mutex = Free
    /\ unflushed' = unflushed \ {listener}
    /\ m_cindex' = (m_cindex + i[d] + 1) % Len(consumers)
    /\ Return(d)
    /\ UNCHANGED <<regime, m_synch, changes, passed, queueVars, consumers, mode,
                   mutex, listener, sstream, shown>>
-----------------------------------------------------------------------------
Dispatch(d) ==
    \/ Lock(d)
    \/ ScanEmpty(d)
    \/ ScanFound(d)
    \/ ScanDone(d)
    \/ Notify(d)
    \/ Release(d)
    \/ Relock(d)

\* A step of a call that has begun, and the next call of the logger's thread.
Proceed(d) ==
    \/ d \in Threads /\ ReadMode(d)
    \/ d = Main /\ (SetMode \/ ChangeModeDone)
    \/ d = Logger /\ CallDispatch
    \/ Dispatch(d)

Next ==
    \/ \E t \in Threads : Register(t) \/ Log(t)
    \/ ChangeMode
    \/ ReplaceListener
    \/ \E d \in Dispatchers : Proceed(d)

Spec == Init /\ [][Next]_vars

\* A thread inside a call goes on, and the logger's thread keeps calling; when a
\* thread logs, registers or changes something is its own affair.
Fairness == \A d \in Dispatchers : WF_vars(Proceed(d))

FairSpec == Spec /\ Fairness
-----------------------------------------------------------------------------
(***************************************************************************)
(* Properties.                                                             *)
(***************************************************************************)

\* What dispatch took and let go of, the listener has been given: format, notify
\* and the end of the guard are three steps of which two run without the mutex
\* (logger_adapter.cpp:193-202).
EveryReadEventIsShown ==
    \A t \in Threads : \A n \in 0..(read[t] - 1) :
        \/ <<t, n>> \in shown
        \/ \E d \in Dispatchers : pc[d] = "notify" /\ event[d] = <<t, n>>

\* It holds when the mode was made asynchronous before other threads registered.
AsyncShowsEveryEvent == regime = "async" => EveryReadEventIsShown

\* Its text is given to the listener once, and after the texts of all events its thread
\* logged before it: the order in which a reader of the log sees a thread's events.
AsyncShowsInOrder ==
    [][regime = "async" =>
        \A d \in Dispatchers : pc[d] = "notify" /\ pc'[d] # "notify" =>
            /\ event[d] \notin shown
            /\ shown' = shown \cup {event[d]}
            /\ \A n \in 0..(event[d][2] - 1) : <<event[d][1], n>> \in shown]_vars

\* In synch mode a thread that returns from a log statement may have had its event
\* taken by another thread's dispatch, and that thread's by a third one's; still,
\* when all have returned no event is left behind (logger_adapter.h:19-24).
SynchLeavesNothing ==
    regime = "synch" /\ (\A d \in Dispatchers : pc[d] = "idle") =>
        \A t \in Threads : ~ Waiting(t)

\* The cursor makes dispatch fair: while a queue waits, no more events are taken from
\* the others than there are queues.  It is not one of each other queue: when threads
\* register between the scan and the step of the cursor, this wraps at the new number
\* of queues and may fall behind the one just served, or jump over others
\* (logger_adapter.cpp:178, 211-212).
NobodyIsPassedOver ==
    regime = "async" => \A t \in Threads : passed[t] <= Len(consumers)

\* Whoever notified the listener that is still installed is on the way to flush it.
InstalledListenerIsFlushed ==
    listener \in unflushed =>
        \E d \in Dispatchers : pc[d] \in {"release", "relock"}

\* To each thread its queue is the channel that One2OneQueue implements, although any
\* dispatcher may read from it and two may have an event of it in hand at once
\* (logger_adapter.cpp:181-202): events are taken in order and once, and the writer
\* finds room only behind the events that were let go of.  The channel's reader
\* is the adapter, under the logger's name; whom it has looked at does not matter.
Queue(t) == INSTANCE Channel WITH
    Readers   <- {Logger},
    Writer    <- t,
    Cap       <- QueueSize,
    sent      <- logged[t],
    taken     <- [r \in {Logger} |-> read[t]],
    held      <- [r \in {Logger} |-> {n \in 0..MaxEvents : <<t, n>> \in open}],
    delivered <- [r \in {Logger} |-> -1],
    handles   <- {Logger, t}

QueuesAreChannels ==
    /\ \A t \in Threads : Queue(t)!ChannelInit
    /\ [][\A t \in Threads : [Queue(t)!ChannelNext]_(Queue(t)!channelVars)]_vars

\* Once the threads fall silent (here when they reach their bound) the queues
\* drain and stay so, whatever mode changes overtook an event between its write
\* and the reading of the flag.
QueuesDrain == <>[](\A t \in Threads : ~ Waiting(t))
=============================================================================
