------------------------------- MODULE Engine -------------------------------
(***************************************************************************)
(* engine_main: the checks, the configuration, the registration of tasks,  *)
(* one thread per task bound to its cpu, the stop flag the signal handler  *)
(* clears, and the join.  If a logical cpu is called logger, its thread    *)
(* dispatches the log events and the mode becomes asynchronous.            *)
(*                                                                         *)
(* Of the logger there is one queue per thread, with only the number of    *)
(* its events, and a dispatch in one step (LoggerAdapter has the others).  *)
(* Names are numbered as std::map orders them.  A task is a name and a     *)
(* body; the container is a multimap, so one name may have several.  The   *)
(* reset of a thread's affinity is taken to succeed.                       *)
(***************************************************************************)
EXTENDS Integers, FiniteSets

CONSTANTS
    Names,      \* the names of logical cpus and tasks, natural numbers
    LOGGER_TASK, \* the one among them that is special
    Values,     \* the integers a configuration may contain
    UMod,       \* the number of values of unsigned
    TotalCpus,  \* platform::get_total_cpus
    Isolated,   \* cpus with isolation, nohz_full and rcu_nocbs
    Bodies,     \* bodies of the tasks an application registers
    DISPATCH,   \* the body engine_main gives the logger's task
    QueueSize,  \* the events a log queue has room for
    MaxEvents   \* bound: events all threads log together

ASSUME EngineAssumption ==
    /\ Names \subseteq Nat /\ IsFiniteSet(Names)
    /\ Values \subseteq Int
    /\ UMod \in Nat \ {0}
    /\ TotalCpus \in Nat
    /\ Isolated \subseteq Nat
    /\ IsFiniteSet(Bodies) /\ DISPATCH \notin Bodies
    /\ QueueSize \in Nat \ {0}
    /\ MaxEvents \in Nat

Main == -1      \* the main thread, beside the names of the others
Unbound == -1   \* a thread that runs wherever the system puts it

VARIABLES
    pc,         \* the place of the main thread in engine_main
    cpu,        \* get_name_2_cpu(): a function from names to cpus
    tasks,      \* m_tasks: the set of registered <<name, body>>
    g_until,
    thread,     \* place of each thread, "none" before it is created
    body,       \* the task moved into each thread
    affinity,   \* the cpu a thread is bound to, or Unbound
    joined,     \* threads that have been joined
    synch,      \* the logger's mode
    queued,     \* events in each thread's queue
    events      \* bound: number of events logged so far

threadVars == <<thread, body, joined>>
logVars == <<synch, queued, events>>
vars == <<pc, cpu, tasks, g_until, affinity, threadVars, logVars>>

Entries == Names \X (Bodies \cup {DISPATCH})
Named(n) == {e \in tasks : e[1] = n}
First(S) == CHOOSE n \in S : \A m \in S : n <= m

TypeOK ==
    /\ pc \in {"check", "config", "signals", "bind", "register", "until",
               "replace", "create", "spawn", "join", "exit", "abort"}
    /\ DOMAIN cpu \subseteq Names
    /\ \A n \in DOMAIN cpu : cpu[n] \in Isolated /\ cpu[n] < TotalCpus
    /\ tasks \subseteq Entries
    /\ g_until \in BOOLEAN
    /\ thread \in [Names -> {"none", "start", "loop", "task", "wrote", "done"}]
    /\ body \in [Names -> Bodies \cup {DISPATCH}]
    /\ affinity \in [Names \cup {Main} -> Isolated \cup {Unbound}]
    /\ joined \subseteq Names
    /\ synch \in BOOLEAN
    /\ queued \in [Names -> 0..QueueSize]
    /\ events \in 0..MaxEvents

Init ==
    /\ pc = "check"
    /\ cpu = [n \in {} |-> 0]
    /\ tasks = {}
    /\ g_until = TRUE
    /\ thread = [n \in Names |-> "none"]
    /\ body = [n \in Names |-> DISPATCH]
    /\ affinity = [t \in Names \cup {Main} |-> Unbound]
    /\ joined = {}
    /\ synch = TRUE
    /\ queued = [n \in Names |-> 0]
    /\ events = 0

Goto(place) == pc' = place
Enter(n, place) == thread' = [thread EXCEPT ![n] = place]
-----------------------------------------------------------------------------
(***************************************************************************)
(* The start of engine_main.  Every failure returns EXIT_FAILURE.          *)
(***************************************************************************)
Fail ==
    /\ Goto("exit")
    /\ UNCHANGED <<cpu, tasks, g_until, threadVars, logVars>>

\* check_system, the arguments, the file.
CheckSystem ==
    /\ pc = "check"
    /\ \/ Goto("config") /\ UNCHANGED <<cpu, tasks, g_until, threadVars, logVars>>
       \/ Fail
    /\ UNCHANGED affinity

\* The integers of the section are narrowed to unsigned.
Narrowed(raw) == [n \in DOMAIN raw |-> raw[n] % UMod]

Valid(map) ==
    /\ DOMAIN map # {}
    /\ \A n \in DOMAIN map : map[n] < TotalCpus /\ map[n] \in Isolated
    /\ \A n, m \in DOMAIN map : map[n] = map[m] => n = m

\* cpus_config::parse; a missing section is an empty map.
ParseConfig ==
    /\ pc = "config"
    /\ \E names \in SUBSET Names : \E raw \in [names -> Values] :
          LET map == Narrowed(raw)
          IN  \/ /\ Valid(map)
                 /\ cpu' = map
                 /\ Goto("signals")
                 /\ UNCHANGED <<tasks, g_until, threadVars, logVars>>
              \/ ~ Valid(map) /\ Fail
    /\ UNCHANGED affinity

SetupSignals ==
    /\ pc = "signals"
    /\ \/ Goto("bind") /\ UNCHANGED <<cpu, tasks, g_until, threadVars, logVars>>
       \/ Fail
    /\ UNCHANGED affinity

\* bind: the affinity may be refused, and so may the name; then m_binded is
\* false and the destructor leaves the affinity as it is.
BindMain ==
    /\ pc = "bind"
    /\ \/ /\ affinity' = [affinity EXCEPT ![Main] = cpu[First(DOMAIN cpu)]]
          /\ \/ Goto("register") /\ UNCHANGED <<cpu, tasks, g_until, threadVars, logVars>>
             \/ Fail
       \/ Fail /\ UNCHANGED affinity

\* The application's callback: add_task, any number of times.
AddTask ==
    /\ pc = "register"
    /\ \E n \in Names, b \in Bodies :
          /\ <<n, b>> \notin tasks
          /\ tasks' = tasks \cup {<<n, b>>}
    /\ UNCHANGED <<pc, cpu, g_until, affinity, threadVars, logVars>>

\* Mutant: logical_cpu lives until engine_main returns.
RegisterDone_StaysBound ==
    /\ pc = "register"
    /\ Goto("until") /\ UNCHANGED <<cpu, tasks, g_until, affinity, threadVars, logVars>>

\* The callback returns; logical_cpu goes out of scope either way.
RegisterDone ==
    /\ pc = "register"
    /\ affinity' = [affinity EXCEPT ![Main] = Unbound]
    /\ \/ Goto("until") /\ UNCHANGED <<cpu, tasks, g_until, threadVars, logVars>>
       \/ Fail

CheckUntil ==
    /\ pc = "until"
    /\ Goto(IF g_until THEN "replace" ELSE "exit")
    /\ UNCHANGED <<cpu, tasks, g_until, affinity, threadVars, logVars>>

HasLogger == LOGGER_TASK \in DOMAIN cpu

\* Mutant: the application's own task stays.
ReplaceTask_Kept ==
    /\ pc = "replace"
    /\ Goto("create")
    /\ UNCHANGED <<cpu, tasks, g_until, affinity, threadVars, logVars>>

ReplaceTask ==
    /\ pc = "replace"
    /\ tasks' = IF HasLogger
                  THEN (tasks \ Named(LOGGER_TASK)) \cup {<<LOGGER_TASK, DISPATCH>>}
                  ELSE tasks
    /\ Goto("create")
    /\ UNCHANGED <<cpu, g_until, affinity, threadVars, logVars>>
-----------------------------------------------------------------------------
(***************************************************************************)
(* engine: creation, and the end.                                          *)
(***************************************************************************)

\* Mutant: duplicates are not looked for.
Accepted_Duplicates ==
    /\ Cardinality(DOMAIN cpu) = Cardinality(tasks)
    /\ \A e \in tasks : e[1] \in DOMAIN cpu

Accepted ==
    /\ Cardinality(DOMAIN cpu) = Cardinality(tasks)
    /\ \A e, f \in tasks : e[1] = f[1] => e = f
    /\ \A e \in tasks : e[1] \in DOMAIN cpu

CreateEngine ==
    /\ pc = "create"
    /\ \/ /\ Accepted
          /\ Goto("spawn")
          /\ UNCHANGED <<cpu, tasks, g_until, threadVars, logVars>>
       \/ ~ Accepted /\ Fail
    /\ UNCHANGED affinity

Unspawned == {n \in DOMAIN cpu : thread[n] = "none"}

\* One turn of the constructor's loop: a thread, or abort.
Spawn ==
    /\ pc = "spawn"
    /\ Unspawned # {}
    /\ LET n == First(Unspawned)
       IN  \/ /\ Named(n) = {}
              /\ Goto("abort")
              /\ UNCHANGED <<thread, body>>
           \/ /\ Enter(n, "start")
              /\ \E e \in Named(n) : body' = [body EXCEPT ![n] = e[2]]
              /\ UNCHANGED pc
    /\ UNCHANGED <<cpu, tasks, g_until, affinity, joined, logVars>>

\* Mutant: the mode changes whether or not there is a logger.
ChangeMode_Always ==
    /\ pc = "spawn"
    /\ Unspawned = {}
    /\ synch' = FALSE
    /\ Goto("join")
    /\ UNCHANGED <<cpu, tasks, g_until, affinity, threadVars, queued, events>>

\* After create has returned.
ChangeMode ==
    /\ pc = "spawn"
    /\ Unspawned = {}
    /\ synch' = ~ HasLogger
    /\ Goto("join")
    /\ UNCHANGED <<cpu, tasks, g_until, affinity, threadVars, queued, events>>

Unjoined == DOMAIN cpu \ joined

Join ==
    /\ pc = "join"
    /\ Unjoined # {}
    /\ thread[First(Unjoined)] = "done"
    /\ joined' = joined \cup {First(Unjoined)}
    /\ UNCHANGED <<pc, cpu, tasks, g_until, affinity, thread, body, logVars>>

\* Mutant: m_joined is set after the first thread.
JoinDone_First ==
    /\ pc = "join"
    /\ joined # {}
    /\ Goto("exit")
    /\ UNCHANGED <<cpu, tasks, g_until, affinity, threadVars, logVars>>

\* m_joined is set, the destructor does not join again, and main returns.
JoinDone ==
    /\ pc = "join"
    /\ Unjoined = {}
    /\ Goto("exit")
    /\ UNCHANGED <<cpu, tasks, g_until, affinity, threadVars, logVars>>

\* SIGINT, on any thread, once the handler is set up.
Signal ==
    /\ pc \notin {"check", "config", "signals", "exit", "abort"}
    /\ g_until
    /\ g_until' = FALSE
    /\ UNCHANGED <<pc, cpu, tasks, affinity, threadVars, logVars>>
-----------------------------------------------------------------------------
(***************************************************************************)
(* A thread of the engine.                                                 *)
(***************************************************************************)
Quit(n) ==
    /\ Enter(n, "done")
    /\ affinity' = [affinity EXCEPT ![n] = Unbound]

\* bind, which may fail: then the thread ends without a word.
Bind(n) ==
    /\ thread[n] = "start"
    /\ \/ /\ Enter(n, "loop")
          /\ affinity' = [affinity EXCEPT ![n] = cpu[n]]
       \/ Quit(n)
    /\ UNCHANGED <<pc, cpu, tasks, g_until, body, joined, logVars>>

\* Mutant: the loop does not look at the flag.
Stopped_Unseen == FALSE

Stopped == ~ g_until

Stop(n) ==
    /\ thread[n] = "loop"
    /\ Stopped
    /\ Quit(n)
    /\ UNCHANGED <<pc, cpu, tasks, g_until, body, joined, logVars>>

CallTask(n) ==
    /\ thread[n] = "loop"
    /\ ~ Stopped
    /\ body[n] # DISPATCH
    /\ Enter(n, "task")
    /\ UNCHANGED <<pc, cpu, tasks, g_until, affinity, body, joined, logVars>>

\* dispatch takes an event if there is one; the task returns true, always.
TakeOne ==
    IF \A m \in Names : queued[m] = 0 THEN UNCHANGED queued
    ELSE \E m \in Names : queued[m] > 0 /\ queued' = [queued EXCEPT ![m] = @ - 1]

CallDispatch(n) ==
    /\ thread[n] = "loop"
    /\ ~ Stopped
    /\ body[n] = DISPATCH
    /\ TakeOne
    /\ UNCHANGED <<pc, cpu, tasks, g_until, affinity, threadVars, synch, events>>

HasRoom(n) == queued[n] < QueueSize

\* A log statement of the task: a full queue refuses the event.
Log(n) ==
    /\ thread[n] = "task"
    /\ events < MaxEvents
    /\ events' = events + 1
    /\ \/ /\ HasRoom(n)
          /\ queued' = [queued EXCEPT ![n] = @ + 1]
          /\ Enter(n, "wrote")
       \/ ~ HasRoom(n) /\ UNCHANGED <<queued, thread>>
    /\ UNCHANGED <<pc, cpu, tasks, g_until, affinity, body, joined, synch>>

\* The mode is read after the write, and dispatch is called in synch mode.
ReadMode(n) ==
    /\ thread[n] = "wrote"
    /\ Enter(n, "task")
    /\ IF synch THEN TakeOne ELSE UNCHANGED queued
    /\ UNCHANGED <<pc, cpu, tasks, g_until, affinity, body, joined, synch, events>>

\* The task returns true, to be called again, or false.
TaskReturns(n) ==
    /\ thread[n] = "task"
    /\ \/ Enter(n, "loop") /\ UNCHANGED affinity
       \/ Quit(n)
    /\ UNCHANGED <<pc, cpu, tasks, g_until, body, joined, logVars>>
-----------------------------------------------------------------------------
MainStep ==
    \/ CheckSystem \/ ParseConfig \/ SetupSignals
    \/ BindMain \/ AddTask \/ RegisterDone
    \/ CheckUntil \/ ReplaceTask
    \/ CreateEngine \/ Spawn \/ ChangeMode
    \/ Join \/ JoinDone

ThreadStep(n) ==
    \/ Bind(n) \/ Stop(n)
    \/ CallTask(n) \/ Log(n) \/ ReadMode(n) \/ TaskReturns(n)
    \/ CallDispatch(n)

\* The process ends when engine_main returns.
Finished == pc = "exit" /\ UNCHANGED vars

Next ==
    \/ MainStep
    \/ \E n \in Names : pc # "exit" /\ ThreadStep(n)
    \/ Signal
    \/ Finished

Spec == Init /\ [][Next]_vars

\* Threads run, the callback and the tasks return.  The application decides what
\* to register, what to log, and when to be stopped.
Fairness ==
    /\ WF_vars(MainStep)
    /\ \A n \in Names : WF_vars(pc # "exit" /\ ThreadStep(n))

FairSpec == Spec /\ Fairness
-----------------------------------------------------------------------------
(***************************************************************************)
(* Properties.                                                             *)
(***************************************************************************)

\* The three checks of create, none of which looks for a cpu without a task, leave
\* the constructor nothing to abort on (engine.cpp:16-37 and 46-50).
ConstructorFindsEveryTask ==
    pc = "spawn" => \A n \in DOMAIN cpu : \E b \in Bodies \cup {DISPATCH} :
                                             Named(n) = {<<n, b>>}

\* Never are two threads bound to the same core: the configuration is checked after
\* narrowing, and main leaves the first core before the thread that owns it is
\* created (cpus_config.h:72-76, engine_main.cpp:158-175).
OneThreadPerCore ==
    \A s, t \in Names \cup {Main} :
        s # t /\ affinity[s] # Unbound => affinity[s] # affinity[t]

\* When engine_main returns, and its exit handlers delete the logger's clients, no
\* thread is alive, whichever way it returns (engine.cpp:74-85).
NoThreadOutlivesMain ==
    pc = "exit" => \A n \in Names : thread[n] \in {"none", "done"}

\* Without a logger's thread the mode stays synch, and what the tasks logged and
\* the queues took was dispatched when engine_main returns, stopped or not.
NothingLeftWithoutLogger ==
    pc = "exit" /\ ~ HasLogger => \A n \in Names : queued[n] = 0

\* A caught signal ends the program, whatever main and the threads are doing.
StopEnds == ~ g_until ~> pc = "exit"

\* With a logger's thread the queues drain when the tasks fall silent, unless the
\* program was stopped first or that thread could not be bound.
LoggerKeepsUp ==
    (\E n \in Names : queued[n] > 0) ~>
        \/ \A n \in Names : queued[n] = 0
        \/ ~ g_until
        \/ HasLogger /\ thread[LOGGER_TASK] = "done"
=============================================================================
