-------------------------- MODULE MeasureProgram --------------------------
(***************************************************************************)
(* A measuring program of the channel: test_main with the controller       *)
(* perf_allocated_test, over the channel and the pool of EventPool.        *)
(*                                                                         *)
(* main checks its arguments, makes the queue, starts the readers' threads *)
(* and then the writer's, and joins them.  A reader counts itself off the  *)
(* barrier and takes total_events events one by one; the writer waits      *)
(* until all have, and offers each event until it is taken.  Constructions *)
(* and destructions are counted per thread and added up when a thread has  *)
(* done its work.                                                          *)
(*                                                                         *)
(* While eager is FALSE the process is the logger's, and its threads do    *)
(* what EventPool lets them.  Times, statistics of failed attempts, thread *)
(* names and binding to cpus are left out.                                 *)
(***************************************************************************)
EXTENDS EventPool, FiniteSets

CONSTANTS
    CounterBits,    \* the width of the channel's counter
    MaxOpen         \* bound: events a reader of the logger's process holds

\* The capacity of the channel that is made for n events: the least power of two
\* that holds them, between four and a quarter of the counter's range.
to2pow(n) ==
    LET fits  == {2 ^ k : k \in 2..(CounterBits - 2)}
        holds == {p \in fits : n <= p}
    IN  CHOOSE p \in fits :
            IF holds = {} THEN \A q \in fits : q <= p
            ELSE p \in holds /\ \A q \in holds : p <= q

ASSUME SizeAssumption ==
    /\ CounterBits \in Nat \ 0..3
    /\ Cap = to2pow(Requested)

total_events == MaxEvents
Threads == Readers \cup {Writer}

VARIABLES
    main,       \* where main is, or how the process ended
    pc,         \* thread -> where it is
    waitinig,   \* the readers not yet at the barrier
    seen,       \* reader -> the j of its loop
    g_local,    \* thread -> the events it has built or destroyed
    m_global_allocated,
    m_global_released

programVars == <<main, pc, waitinig, seen, g_local,
                 m_global_allocated, m_global_released>>
vars == <<poolAndChannel, programVars>>

Over == {"usage", "success", "failure", "aborted"}

ProgramInit ==
    /\ Init
    /\ main = IF eager THEN "arguments" ELSE "logger"
    /\ pc = [t \in Threads |-> "unborn"]
    /\ waitinig = Cardinality(Readers)
    /\ seen = [r \in Readers |-> 0]
    /\ g_local = [t \in Threads |-> 0]
    /\ m_global_allocated = 0
    /\ m_global_released = 0
-----------------------------------------------------------------------------
(***************************************************************************)
(* main.                                                                   *)
(***************************************************************************)
\* The arguments besides those that are constants: whether help is asked for, and
\* how many cpus are named (none for "#").
Arguments == [help : BOOLEAN, cpus : 0..(Cardinality(Threads) + 1)]

\* A list of cpus names one for each thread, or there is none.
CheckArguments ==
    /\ main = "arguments"
    /\ \E a \in Arguments :
        main' = IF a.help THEN "usage"
                ELSE IF a.cpus \in {0, Cardinality(Readers) + 1} THEN "spawn"
                ELSE "failure"
    /\ UNCHANGED <<poolAndChannel, pc, waitinig, seen, g_local,
                   m_global_allocated, m_global_released>>

\* The writer's thread is the last to start.
Spawn(t) ==
    /\ main = "spawn"
    /\ pc[t] = "unborn"
    /\ t = Writer => \A r \in Readers : pc[r] # "unborn"
    /\ pc' = [pc EXCEPT ![t] = "started"]
    /\ main' = IF t = Writer THEN "join" ELSE main
    /\ UNCHANGED <<poolAndChannel, waitinig, seen, g_local,
                   m_global_allocated, m_global_released>>

Join ==
    /\ main = "join"
    /\ \A t \in Threads : pc[t] = "ended"
    /\ main' = "success"
    /\ UNCHANGED <<poolAndChannel, pc, waitinig, seen, g_local,
                   m_global_allocated, m_global_released>>
-----------------------------------------------------------------------------
(***************************************************************************)
(* The threads.  abort ends all of them.                                   *)
(***************************************************************************)
At(t, place) == main \notin Over /\ pc[t] = place
Goes(t, place) == pc' = [pc EXCEPT ![t] = place]

ReaderReady(r) ==
    /\ At(r, "started")
    /\ waitinig' = waitinig - 1
    /\ Goes(r, "loop")
    /\ UNCHANGED <<poolAndChannel, main, seen, g_local,
                   m_global_allocated, m_global_released>>

\* Mutant: an attempt that finds nothing counts as an event.
TryRead_CountsMisses(r) ==
    /\ At(r, "loop")
    /\ seen[r] < total_events
    /\ \/ TakeBox(r) /\ Goes(r, "check") /\ UNCHANGED seen
       \/ /\ taken[r] = sent
          /\ seen' = [seen EXCEPT ![r] = @ + 1]
          /\ UNCHANGED <<poolAndChannel, pc>>
    /\ UNCHANGED <<main, waitinig, g_local,
                   m_global_allocated, m_global_released>>

\* An attempt that finds nothing is repeated.
TryRead(r) ==
    /\ At(r, "loop")
    /\ seen[r] < total_events
    /\ TakeBox(r)
    /\ Goes(r, "check")
    /\ UNCHANGED <<main, waitinig, seen, g_local,
                   m_global_allocated, m_global_released>>

CheckData(r) ==
    /\ At(r, "check")
    /\ LookInBox(r)
    /\ IF delivered'[r] = seen[r]
       THEN /\ seen' = [seen EXCEPT ![r] = @ + 1]
            /\ Goes(r, "release")
            /\ UNCHANGED main
       ELSE main' = "aborted" /\ UNCHANGED <<pc, seen>>
    /\ UNCHANGED <<waitinig, g_local, m_global_allocated, m_global_released>>

\* Mutant: every guard counts a destruction.
ReleaseData_EveryGuard(r) ==
    /\ At(r, "release")
    /\ ReleaseBox(r)
    /\ g_local' = [g_local EXCEPT ![r] = @ + 1]
    /\ Goes(r, "loop")
    /\ UNCHANGED <<main, waitinig, seen, m_global_allocated, m_global_released>>

\* The guard goes at the end of the iteration; the last reader's destroys.
ReleaseData(r) ==
    /\ At(r, "release")
    /\ ReleaseBox(r)
    /\ g_local' = [g_local EXCEPT ![r] = @ + (IF slab' # slab THEN 1 ELSE 0)]
    /\ Goes(r, "loop")
    /\ UNCHANGED <<main, waitinig, seen, m_global_allocated, m_global_released>>

ReaderDone(r) ==
    /\ At(r, "loop")
    /\ seen[r] = total_events
    /\ m_global_released' = m_global_released + g_local[r]
    /\ Goes(r, "done")
    /\ UNCHANGED <<poolAndChannel, main, waitinig, seen, g_local, m_global_allocated>>

WriterReady ==
    /\ At(Writer, "started")
    /\ waitinig = 0
    /\ Goes(Writer, "loop")
    /\ UNCHANGED <<poolAndChannel, main, waitinig, seen, g_local,
                   m_global_allocated, m_global_released>>

Allocate ==
    /\ At(Writer, "loop")
    /\ TakeSlab
    /\ UNCHANGED programVars

CreateData ==
    /\ At(Writer, "loop")
    /\ Construct
    /\ g_local' = [g_local EXCEPT ![Writer] = @ + 1]
    /\ UNCHANGED <<main, pc, waitinig, seen, m_global_allocated, m_global_released>>

\* An attempt that finds the channel full is repeated.
TryWrite ==
    /\ At(Writer, "loop")
    /\ TryWriteDone
    /\ UNCHANGED programVars

WriterDone ==
    /\ At(Writer, "loop")
    /\ sent = total_events
    /\ m_global_allocated' = m_global_allocated + g_local[Writer]
    /\ Goes(Writer, "done")
    /\ UNCHANGED <<poolAndChannel, main, waitinig, seen, g_local, m_global_released>>

\* A thread's handle goes with its function's arguments.
EndThread(t) ==
    /\ At(t, "done")
    /\ DropHandle(t)
    /\ Goes(t, "ended")
    /\ UNCHANGED <<main, waitinig, seen, g_local,
                   m_global_allocated, m_global_released>>

ReaderStep(r) ==
    ReaderReady(r) \/ TryRead(r) \/ CheckData(r) \/ ReleaseData(r) \/ ReaderDone(r)

WriterStep ==
    WriterReady \/ Allocate \/ CreateData \/ TryWrite \/ WriterDone

MainStep ==
    CheckArguments \/ Join \/ \E t \in Threads : Spawn(t)

LoggerStep ==
    /\ ~ eager
    /\ Next
    /\ \A r \in Readers : Cardinality(held'[r]) <= MaxOpen
    /\ UNCHANGED programVars

\* The process is over, or the logger's has no more to do.
Stopped == (main \in Over \/ ~ eager) /\ UNCHANGED vars

ProgramNext ==
    \/ MainStep
    \/ WriterStep
    \/ \E r \in Readers : ReaderStep(r)
    \/ \E t \in Threads : EndThread(t)
    \/ LoggerStep
    \/ Stopped

\* main and every thread of the measuring program go on.
Fairness ==
    /\ WF_vars(MainStep)
    /\ WF_vars(WriterStep)
    /\ \A r \in Readers : WF_vars(ReaderStep(r))
    /\ \A t \in Threads : WF_vars(EndThread(t))

ProgramSpec == ProgramInit /\ [][ProgramNext]_vars /\ Fairness

\* The measuring program alone.
MeasureInit == ProgramInit /\ eager

MeasureSpec == MeasureInit /\ [][ProgramNext]_vars
-----------------------------------------------------------------------------
(***************************************************************************)
(* Properties.                                                             *)
(***************************************************************************)
\* "must be zero" (data_heap.h:71): when main returns, the events the writer's
\* thread counted as built are those the readers' threads counted as destroyed,
\* although every reader destroys only what it was last to release and adds its
\* count before its handle is gone; and no slab holds an event.
CountersBalance ==
    main = "success" =>
        /\ m_global_allocated = total_events
        /\ m_global_released = m_global_allocated
        /\ \A p \in Slabs : slab[p] = NoEvent

\* A measurement comes to its end: the barrier opens, no reader meets an event
\* that is not the next (which would abort), none waits for an event that will
\* not come, and a full channel never stops the writer for good.
MeasureEnds == eager ~> main \in Over \ {"aborted"}
=============================================================================
