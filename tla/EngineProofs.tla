---------------------------- MODULE EngineProofs ----------------------------
(***************************************************************************)
(* Proofs about Engine: the checks of engine::create are enough, no core   *)
(* is shared, no thread outlives engine_main, and without a logger's       *)
(* thread no event is left in a queue.                                     *)
(***************************************************************************)
EXTENDS Engine, FiniteSetTheorems, Functions, WellFoundedInduction, TLAPS

\* The first of some names, as begin() and the order of the map give it.
LEMMA FirstIsMember ==
    ASSUME NEW S, S \subseteq Nat, S # {}
    PROVE  First(S) \in S
<1>. DEFINE R == {ss \in Nat \X Nat : ss[1] < ss[2]}
<1>1. IsWellFoundedOn(R, Nat)
    BY NatLessThanWellFounded DEF OpToRel
<1>2. PICK n \in S : \A m \in S : ~ (<<m, n>> \in R)
    BY <1>1, WFMin, Zenon
<1>3. ASSUME NEW m \in S
      PROVE  n <= m
    <2>1. m \in Nat /\ n \in Nat
        OBVIOUS
    <2>2. ~ (m < n)
        BY <1>2, <2>1
    <2>. QED BY <2>1, <2>2
<1>. QED BY <1>3 DEF First

\* The pigeonhole of engine::create: as many tasks as cpus, no name twice and every
\* task on a cpu leave no cpu without its task (engine.cpp:16-37).
LEMMA AcceptedIsOnto ==
    ASSUME TypeOK, Accepted
    PROVE  \A n \in DOMAIN cpu : \E e \in tasks : Named(n) = {e}
<1>. DEFINE f == [e \in tasks |-> e[1]]
<1>1. IsFiniteSet(DOMAIN cpu)
    BY FS_Subset, EngineAssumption DEF TypeOK
<1>2. f \in Injection(tasks, DOMAIN cpu)
    BY DEF Accepted, Injection, IsInjective
<1>3. f \in Surjection(tasks, DOMAIN cpu)
    BY <1>1, <1>2, FS_Injection DEF Accepted
<1>4. \A n \in DOMAIN cpu : \E e \in tasks : e[1] = n
    BY <1>3 DEF Surjection
<1>. QED BY <1>4 DEF Accepted, Named
-----------------------------------------------------------------------------
(***************************************************************************)
(* The inductive invariant.                                                *)
(***************************************************************************)
Early == {"check", "config", "signals", "bind", "register", "until",
          "replace", "create"}

NoThreads == \A n \in Names : thread[n] = "none"

\* No thread is created before create has accepted the tasks.
QuietBefore == pc \in Early => NoThreads /\ joined = {}

\* A configuration that was accepted is not empty, and its cores are distinct.
Configured == pc \notin {"check", "config", "exit"} => DOMAIN cpu # {}
Distinct == \A n, m \in DOMAIN cpu : cpu[n] = cpu[m] => n = m

\* What create checked holds while the constructor runs.
OneTaskEach ==
    /\ pc = "spawn" => \A n \in DOMAIN cpu : \E e \in tasks : Named(n) = {e}
    /\ pc # "abort"

\* Threads belong to logical cpus, and those joined are over.
OwnThreads ==
    /\ \A n \in Names : thread[n] # "none" => n \in DOMAIN cpu
    /\ \A n \in joined : thread[n] = "done"

\* A bound thread is on its own core; main is bound before there are others.
ThreadsBound ==
    \A n \in Names : affinity[n] # Unbound =>
        /\ n \in DOMAIN cpu /\ affinity[n] = cpu[n]
        /\ thread[n] \in {"loop", "task", "wrote"}
MainBound == affinity[Main] # Unbound => pc \in {"register", "exit"} /\ NoThreads

IInv ==
    /\ TypeOK /\ QuietBefore /\ Configured /\ Distinct /\ OneTaskEach
    /\ OwnThreads /\ ThreadsBound /\ MainBound /\ NoThreadOutlivesMain

USE DEF Main, Unbound

LEMMA InitIInv == Init => IInv
<1>. SUFFICES ASSUME Init PROVE IInv
    OBVIOUS
<1>1. TypeOK
    BY EngineAssumption DEF Init, TypeOK
<1>2. Main \notin Names
    BY EngineAssumption
<1>. QED BY <1>1, <1>2 DEF Init, IInv, QuietBefore, NoThreads, Configured, Distinct,
            OneTaskEach, OwnThreads, ThreadsBound, MainBound, NoThreadOutlivesMain

\* A failure before there are threads ends the program in a state that satisfies
\* the invariant, wherever main is bound.
LEMMA FailKeepsIInv ==
    ASSUME IInv, pc \in Early, Fail,
           affinity' = affinity \/ affinity' = [affinity EXCEPT ![Main] = Unbound]
                \/ (DOMAIN cpu # {} /\ affinity' = [affinity EXCEPT ![Main] = cpu[First(DOMAIN cpu)]])
    PROVE  IInv'
<1>1. DOMAIN cpu # {} => First(DOMAIN cpu) \in DOMAIN cpu
    BY FirstIsMember, EngineAssumption DEF IInv, TypeOK
<1>2. Main \notin Names
    BY EngineAssumption
<1>3. affinity' \in [Names \cup {Main} -> Isolated \cup {Unbound}]
    BY <1>1 DEF IInv, TypeOK
<1>4. \A n \in Names : affinity'[n] = affinity[n]
    BY <1>2 DEF IInv, TypeOK
<1>5. TypeOK'
    BY <1>3 DEF Fail, Goto, threadVars, logVars, IInv, TypeOK
<1>6. NoThreads
    BY DEF IInv, QuietBefore
<1>. QED BY <1>4, <1>5, <1>6 DEF Fail, Goto, threadVars, logVars, Early, IInv, QuietBefore,
            NoThreads, Configured, Distinct, OneTaskEach, OwnThreads, ThreadsBound, MainBound,
            NoThreadOutlivesMain, Named
-----------------------------------------------------------------------------
(***************************************************************************)
(* The steps of main.                                                      *)
(***************************************************************************)
LEMMA StartKeepsIInv ==
    ASSUME IInv, CheckSystem \/ SetupSignals \/ AddTask \/ CheckUntil \/ ReplaceTask
    PROVE  IInv'
<1>. USE DEF threadVars, logVars, Goto
<1>1. CASE (CheckSystem \/ SetupSignals) /\ Fail
    BY <1>1, FailKeepsIInv DEF CheckSystem, SetupSignals, Early
<1>2. CASE (CheckSystem \/ SetupSignals) /\ ~ Fail
    <2>1. TypeOK'
        BY <1>2 DEF CheckSystem, SetupSignals, IInv, TypeOK
    <2>. QED BY <1>2, <2>1 DEF CheckSystem, SetupSignals, Early, IInv, QuietBefore, NoThreads,
                Configured, Distinct, OneTaskEach, OwnThreads, ThreadsBound, MainBound,
                NoThreadOutlivesMain
<1>3. CASE AddTask
    <2>1. TypeOK'
        BY <1>3 DEF AddTask, IInv, TypeOK, Entries
    <2>. QED BY <1>3, <2>1 DEF AddTask, Early, IInv, QuietBefore, NoThreads,
                Configured, Distinct, OneTaskEach, OwnThreads, ThreadsBound, MainBound,
                NoThreadOutlivesMain
<1>4. CASE CheckUntil
    <2>1. TypeOK'
        BY <1>4 DEF CheckUntil, IInv, TypeOK
    <2>. QED BY <1>4, <2>1 DEF CheckUntil, Early, IInv, QuietBefore, NoThreads,
                Configured, Distinct, OneTaskEach, OwnThreads, ThreadsBound, MainBound,
                NoThreadOutlivesMain
<1>5. CASE ReplaceTask
    <2>1. TypeOK'
        BY <1>5 DEF ReplaceTask, HasLogger, IInv, TypeOK, Entries
    <2>. QED BY <1>5, <2>1 DEF ReplaceTask, Early, IInv, QuietBefore, NoThreads,
                Configured, Distinct, OneTaskEach, OwnThreads, ThreadsBound, MainBound,
                NoThreadOutlivesMain
<1>. QED BY <1>1, <1>2, <1>3, <1>4, <1>5

\* Narrowing maps integers to unsigned values; what passes the checks is a map from
\* some names to distinct isolated cores.
LEMMA ParseKeepsIInv ==
    ASSUME IInv, ParseConfig
    PROVE  IInv'
<1>. USE DEF threadVars, logVars, Goto
<1>1. CASE Fail
    BY <1>1, FailKeepsIInv DEF ParseConfig, Early
<1>2. CASE ~ Fail
    <2>0. PICK names \in SUBSET Names : \E raw \in [names -> Values] :
             /\ Valid(Narrowed(raw))
             /\ cpu' = Narrowed(raw)
             /\ pc' = "signals"
             /\ UNCHANGED <<tasks, g_until, threadVars, logVars, affinity>>
        BY <1>2 DEF ParseConfig
    <2>1. PICK raw \in [names -> Values] :
             /\ Valid(Narrowed(raw))
             /\ cpu' = Narrowed(raw)
             /\ pc' = "signals"
             /\ UNCHANGED <<tasks, g_until, threadVars, logVars, affinity>>
        BY <2>0
    <2>2. DOMAIN cpu' = names
        BY <2>1 DEF Narrowed
    <2>3. TypeOK'
        BY <2>1, <2>2 DEF Valid, IInv, TypeOK
    <2>4. NoThreads /\ pc = "config"
        BY DEF ParseConfig, IInv, QuietBefore, Early
    <2>. QED BY <2>1, <2>2, <2>3, <2>4 DEF Valid, Early, IInv, QuietBefore, NoThreads, Configured,
                Distinct, OneTaskEach, OwnThreads, ThreadsBound, MainBound, NoThreadOutlivesMain
<1>. QED BY <1>1, <1>2

LEMMA BindMainKeepsIInv ==
    ASSUME IInv, BindMain \/ RegisterDone
    PROVE  IInv'
<1>. USE DEF threadVars, logVars, Goto
<1>1. CASE Fail
    BY <1>1, FailKeepsIInv DEF BindMain, RegisterDone, Early, IInv, Configured
<1>2. First(DOMAIN cpu) \in DOMAIN cpu
    BY FirstIsMember, EngineAssumption DEF BindMain, RegisterDone, IInv, TypeOK, Configured
<1>3. Main \notin Names
    BY EngineAssumption
<1>4. CASE BindMain /\ ~ Fail
    <2>1. TypeOK'
        BY <1>2, <1>4 DEF BindMain, IInv, TypeOK
    <2>2. \A n \in Names : affinity'[n] = affinity[n]
        BY <1>3, <1>4 DEF BindMain, IInv, TypeOK
    <2>. QED BY <1>4, <2>1, <2>2 DEF BindMain, Early, IInv, QuietBefore, NoThreads, Configured,
                Distinct, OneTaskEach, OwnThreads, ThreadsBound, MainBound, NoThreadOutlivesMain
<1>5. CASE RegisterDone /\ ~ Fail
    <2>1. TypeOK'
        BY <1>5 DEF RegisterDone, IInv, TypeOK
    <2>2. (\A n \in Names : affinity'[n] = affinity[n]) /\ affinity'[Main] = Unbound
        BY <1>3, <1>5 DEF RegisterDone, IInv, TypeOK
    <2>. QED BY <1>5, <2>1, <2>2 DEF RegisterDone, Early, IInv, QuietBefore, NoThreads, Configured,
                Distinct, OneTaskEach, OwnThreads, ThreadsBound, MainBound, NoThreadOutlivesMain
<1>. QED BY <1>1, <1>4, <1>5

LEMMA CreateKeepsIInv ==
    ASSUME IInv, CreateEngine
    PROVE  IInv'
<1>. USE DEF threadVars, logVars, Goto
<1>1. CASE Fail
    BY <1>1, FailKeepsIInv DEF CreateEngine, Early
<1>2. CASE ~ Fail
    <2>1. TypeOK'
        BY <1>2 DEF CreateEngine, IInv, TypeOK
    <2>2. \A n \in DOMAIN cpu : \E e \in tasks : Named(n) = {e}
        BY <1>2, AcceptedIsOnto DEF CreateEngine, IInv
    <2>. QED BY <1>2, <2>1, <2>2 DEF CreateEngine, Named, Early, IInv, QuietBefore, NoThreads,
                Configured, Distinct, OneTaskEach, OwnThreads, ThreadsBound, MainBound,
                NoThreadOutlivesMain
<1>. QED BY <1>1, <1>2

\* The constructor finds a task for each name, so it does not abort.
LEMMA SpawnKeepsIInv ==
    ASSUME IInv, Spawn
    PROVE  IInv'
<1>. USE DEF threadVars, logVars, Goto
<1>. DEFINE n == First(Unspawned)
<1>1. n \in DOMAIN cpu /\ thread[n] = "none"
    <2>1. Unspawned \subseteq Nat /\ Unspawned # {}
        BY EngineAssumption DEF Spawn, Unspawned, IInv, TypeOK
    <2>2. n \in Unspawned
        BY <2>1, FirstIsMember
    <2>. QED BY <2>2 DEF Unspawned
<1>2. PICK e \in tasks : Named(n) = {e}
    BY <1>1 DEF Spawn, IInv, OneTaskEach
<1>3. /\ thread' = [thread EXCEPT ![n] = "start"]
      /\ body' = [body EXCEPT ![n] = e[2]]
      /\ UNCHANGED <<pc, cpu, tasks, g_until, affinity, joined, logVars>>
    BY <1>2 DEF Spawn, Enter
<1>4. e[2] \in Bodies \cup {DISPATCH}
    BY DEF IInv, TypeOK, Entries
<1>5. TypeOK'
    BY <1>1, <1>3, <1>4 DEF IInv, TypeOK
<1>6. pc = "spawn" /\ n \in Names
    BY <1>1 DEF Spawn, IInv, TypeOK
<1>7. \A t \in Names : t # n => thread'[t] = thread[t]
    BY <1>3 DEF IInv, TypeOK
<1>8. OwnThreads' /\ ThreadsBound'
    BY <1>1, <1>3, <1>7 DEF IInv, OwnThreads, ThreadsBound, TypeOK
<1>. QED BY <1>3, <1>5, <1>6, <1>8 DEF Early, IInv, QuietBefore, Configured, Distinct,
            OneTaskEach, Named, MainBound, NoThreadOutlivesMain

LEMMA EndKeepsIInv ==
    ASSUME IInv, ChangeMode \/ Join \/ JoinDone \/ Signal
    PROVE  IInv'
<1>. USE DEF threadVars, logVars, Goto
<1>1. CASE ChangeMode
    <2>1. TypeOK'
        BY <1>1 DEF ChangeMode, HasLogger, IInv, TypeOK
    <2>. QED BY <1>1, <2>1 DEF ChangeMode, Early, IInv, QuietBefore, Configured, Distinct,
                OneTaskEach, OwnThreads, ThreadsBound, MainBound, NoThreadOutlivesMain
<1>2. CASE Join
    <2>1. First(Unjoined) \in DOMAIN cpu
        <3>1. Unjoined \subseteq Nat /\ Unjoined # {}
            BY <1>2, EngineAssumption DEF Join, Unjoined, IInv, TypeOK
        <3>2. First(Unjoined) \in Unjoined
            BY <3>1, FirstIsMember
        <3>. QED BY <3>2 DEF Unjoined
    <2>2. TypeOK'
        BY <1>2, <2>1 DEF Join, IInv, TypeOK
    <2>. QED BY <1>2, <2>2 DEF Join, Early, IInv, QuietBefore, Configured, Distinct,
                OneTaskEach, OwnThreads, ThreadsBound, MainBound, NoThreadOutlivesMain, NoThreads
<1>3. CASE JoinDone
    <2>1. TypeOK'
        BY <1>3 DEF JoinDone, IInv, TypeOK
    <2>2. NoThreadOutlivesMain'
        BY <1>3 DEF JoinDone, Unjoined, IInv, OwnThreads, NoThreadOutlivesMain
    <2>. QED BY <1>3, <2>1, <2>2 DEF JoinDone, Early, IInv, QuietBefore, Configured, Distinct,
                OneTaskEach, OwnThreads, ThreadsBound, MainBound
<1>4. CASE Signal
    <2>1. TypeOK'
        BY <1>4 DEF Signal, IInv, TypeOK
    <2>. QED BY <1>4, <2>1 DEF Signal, Named, Early, IInv, QuietBefore, NoThreads, Configured, Distinct,
                OneTaskEach, OwnThreads, ThreadsBound, MainBound, NoThreadOutlivesMain
<1>. QED BY <1>1, <1>2, <1>3, <1>4
-----------------------------------------------------------------------------
(***************************************************************************)
(* The steps of a thread.                                                  *)
(***************************************************************************)

\* A thread that steps was created, so main is past create, and what it does to
\* itself leaves the other threads and main alone.
LEMMA ThreadKeepsIInv ==
    ASSUME IInv, pc # "exit", NEW n \in Names, ThreadStep(n)
    PROVE  IInv'
<1>. USE DEF threadVars, logVars, Enter
<1>1. /\ thread[n] \notin {"none", "done"}
      /\ n \in DOMAIN cpu
      /\ pc \notin Early
    BY DEF ThreadStep, Bind, Stop, CallTask, Log, ReadMode, TaskReturns, CallDispatch,
           IInv, OwnThreads, QuietBefore, NoThreads
<1>2. Main \notin Names
    BY EngineAssumption
<1>3. /\ UNCHANGED <<pc, cpu, tasks, g_until, body, joined, synch>>
      /\ affinity[Main] = Unbound
    BY <1>1 DEF ThreadStep, Bind, Stop, CallTask, Log, ReadMode, TaskReturns, CallDispatch,
                IInv, MainBound, NoThreads
<1>4. /\ thread' \in [Names -> {"none", "start", "loop", "task", "wrote", "done"}]
      /\ \A t \in Names : t # n => thread'[t] = thread[t]
      /\ thread'[n] # "none"
      /\ affinity' \in [Names \cup {Main} -> Isolated \cup {Unbound}]
      /\ \A t \in Names \cup {Main} : t # n => affinity'[t] = affinity[t]
      /\ affinity'[n] # Unbound =>
            affinity'[n] = cpu[n] /\ thread'[n] \in {"loop", "task", "wrote"}
    <2>1. CASE Bind(n)
        BY <1>1, <2>1 DEF Bind, Quit, IInv, TypeOK, ThreadsBound
    <2>2. CASE Stop(n)
        BY <1>1, <2>2 DEF Stop, Quit, IInv, TypeOK, ThreadsBound
    <2>3. CASE CallTask(n)
        BY <1>1, <2>3 DEF CallTask, IInv, TypeOK, ThreadsBound
    <2>4. CASE Log(n)
        BY <1>1, <2>4 DEF Log, IInv, TypeOK, ThreadsBound
    <2>5. CASE ReadMode(n)
        BY <1>1, <2>5 DEF ReadMode, IInv, TypeOK, ThreadsBound
    <2>6. CASE TaskReturns(n)
        BY <1>1, <2>6 DEF TaskReturns, Quit, IInv, TypeOK, ThreadsBound
    <2>7. CASE CallDispatch(n)
        BY <1>1, <2>7 DEF CallDispatch, IInv, TypeOK, ThreadsBound
    <2>. QED BY <2>1, <2>2, <2>3, <2>4, <2>5, <2>6, <2>7 DEF ThreadStep
<1>5. queued' \in [Names -> 0..QueueSize] /\ events' \in 0..MaxEvents
    <2>1. QueueSize \in Nat /\ MaxEvents \in Nat
        BY EngineAssumption
    <2>2. TakeOne => queued' \in [Names -> 0..QueueSize]
        BY <2>1 DEF TakeOne, IInv, TypeOK
    <2>3. CASE Log(n)
        BY <2>1, <2>3 DEF Log, HasRoom, IInv, TypeOK
    <2>4. CASE ReadMode(n) \/ CallDispatch(n)
        BY <2>2, <2>4 DEF ReadMode, CallDispatch, IInv, TypeOK
    <2>5. CASE Bind(n) \/ Stop(n) \/ CallTask(n) \/ TaskReturns(n)
        BY <2>5 DEF Bind, Stop, CallTask, TaskReturns, IInv, TypeOK
    <2>. QED BY <2>3, <2>4, <2>5 DEF ThreadStep
<1>6. TypeOK'
    BY <1>3, <1>4, <1>5 DEF IInv, TypeOK
<1>7. OwnThreads' /\ ThreadsBound'
    BY <1>1, <1>3, <1>4 DEF IInv, OwnThreads, ThreadsBound, TypeOK
<1>8. MainBound'
    BY <1>2, <1>3, <1>4 DEF MainBound
<1>. QED BY <1>1, <1>3, <1>6, <1>7, <1>8 DEF IInv, QuietBefore, Configured, Distinct,
            OneTaskEach, Named, NoThreadOutlivesMain
-----------------------------------------------------------------------------
(***************************************************************************)
(* The theorems.                                                           *)
(***************************************************************************)

\* The invariant holds always.
THEOREM EngineInductive == Spec => []IInv
<1>1. IInv /\ [Next]_vars => IInv'
    <2>. SUFFICES ASSUME IInv, [Next]_vars PROVE IInv'
        OBVIOUS
    <2>1. CASE MainStep
        BY <2>1, StartKeepsIInv, ParseKeepsIInv, BindMainKeepsIInv, CreateKeepsIInv,
           SpawnKeepsIInv, EndKeepsIInv DEF MainStep
    <2>2. CASE \E n \in Names : pc # "exit" /\ ThreadStep(n)
        BY <2>2, ThreadKeepsIInv
    <2>3. CASE Signal
        BY <2>3, EndKeepsIInv
    <2>4. CASE UNCHANGED vars
        BY <2>4 DEF vars, threadVars, logVars, IInv, TypeOK, QuietBefore, NoThreads, Configured,
                Distinct, OneTaskEach, Named, OwnThreads, ThreadsBound, MainBound,
                NoThreadOutlivesMain
    <2>. QED BY <2>1, <2>2, <2>3, <2>4 DEF Next, Finished
<1>. QED BY <1>1, InitIInv, PTL DEF Spec

\* The types hold always; in particular no configured value reaches the affinity
\* call that is not an isolated core of the machine (cpus_config.h:50-70).
THEOREM EngineTypeCorrect == Spec => []TypeOK
<1>1. IInv => TypeOK
    BY DEF IInv
<1>. QED BY <1>1, EngineInductive, PTL

\* For any configuration and any registered tasks, the constructor of an accepted
\* engine does not abort (engine.cpp:12-51).
THEOREM ConstructorNeverAborts == Spec => []ConstructorFindsEveryTask
<1>1. IInv => ConstructorFindsEveryTask
    <2>. SUFFICES ASSUME IInv, pc = "spawn", NEW n \in DOMAIN cpu
                  PROVE  \E b \in Bodies \cup {DISPATCH} : Named(n) = {<<n, b>>}
        BY DEF ConstructorFindsEveryTask
    <2>1. PICK e \in tasks : Named(n) = {e}
        BY DEF IInv, OneTaskEach
    <2>2. e[1] = n /\ e \in Names \X (Bodies \cup {DISPATCH})
        BY <2>1 DEF Named, IInv, TypeOK, Entries
    <2>. QED BY <2>1, <2>2
<1>. QED BY <1>1, EngineInductive, PTL

\* However many cores and names there are, a core is never shared
\* (cpus_config.h:72-76, engine_main.cpp:155-175).
THEOREM CoresAreExclusive == Spec => []OneThreadPerCore
<1>1. IInv => OneThreadPerCore
    <2>. SUFFICES ASSUME IInv, NEW s \in Names \cup {Main}, NEW t \in Names \cup {Main},
                         s # t, affinity[s] # Unbound, affinity[s] = affinity[t]
                  PROVE  FALSE
        BY DEF OneThreadPerCore
    <2>1. CASE s \in Names /\ t \in Names
        BY <2>1 DEF IInv, ThreadsBound, Distinct
    <2>2. CASE s = Main \/ t = Main
        BY <2>2 DEF IInv, MainBound, ThreadsBound, NoThreads
    <2>. QED BY <2>1, <2>2
<1>. QED BY <1>1, EngineInductive, PTL

\* When engine_main returns, no thread of the engine is alive (engine.cpp:74-85).
THEOREM ThreadsEndBeforeMain == Spec => []NoThreadOutlivesMain
<1>1. IInv => NoThreadOutlivesMain
    BY DEF IInv
<1>. QED BY <1>1, EngineInductive, PTL
-----------------------------------------------------------------------------
(***************************************************************************)
(* The queues of a program without a logger's thread.  A thread that has   *)
(* written an event and has not read the mode yet will dispatch one event, *)
(* and there are never more events than such threads: that every thread    *)
(* finds an event, its own or another's, is what the count shows.          *)
(***************************************************************************)
Queued == {q \in Names \X Nat : q[2] < queued[q[1]]}
Writers == {n \in Names : thread[n] = "wrote"}

LogInv ==
    /\ pc \in Early => synch /\ Queued = {}
    /\ ~ HasLogger => synch /\ Cardinality(Queued) <= Cardinality(Writers)

LEMMA LogSetsAreFinite ==
    ASSUME TypeOK
    PROVE  IsFiniteSet(Queued) /\ IsFiniteSet(Writers)
<1>1. IsFiniteSet(Names) /\ QueueSize \in Nat
    BY EngineAssumption
<1>2. IsFiniteSet(Writers)
    BY <1>1, FS_Subset DEF Writers
<1>3. IsFiniteSet(0..QueueSize)
    BY <1>1, FS_Interval
<1>4. IsFiniteSet(Names \X (0..QueueSize))
    BY <1>1, <1>3, FS_Product
<1>5. Queued \subseteq Names \X (0..QueueSize)
    <2>1. ASSUME NEW n \in Names, NEW k \in Nat, k < queued[n]
          PROVE  k \in 0..QueueSize
        BY <1>1, <2>1 DEF TypeOK
    <2>. QED BY <2>1 DEF Queued
<1>. QED BY <1>2, <1>4, <1>5, FS_Subset

LEMMA QueuedEmpty ==
    ASSUME TypeOK
    PROVE  Queued = {} <=> \A n \in Names : queued[n] = 0
<1>. USE EngineAssumption DEF TypeOK
<1>1. ASSUME NEW n \in Names, queued[n] # 0
      PROVE  <<n, 0>> \in Queued
    BY <1>1 DEF Queued
<1>2. ASSUME \A n \in Names : queued[n] = 0
      PROVE  Queued = {}
    <2>1. ASSUME NEW q \in Queued
          PROVE  FALSE
        <3>1. q[1] \in Names /\ q[2] \in Nat /\ q[2] < queued[q[1]]
            BY DEF Queued
        <3>2. queued[q[1]] = 0
            BY <1>2, <3>1
        <3>. HIDE DEF TypeOK
        <3>. QED BY <3>1, <3>2
    <2>. QED BY <2>1
<1>. QED BY <1>1, <1>2

LEMMA InitLogInv == Init => LogInv
<1>. SUFFICES ASSUME Init PROVE LogInv
    OBVIOUS
<1>1. TypeOK
    BY InitIInv DEF IInv
<1>2. Queued = {} /\ Writers = {}
    BY <1>1, QueuedEmpty DEF Init, Writers
<1>3. Cardinality(Queued) <= Cardinality(Writers) /\ synch
    BY <1>2, FS_EmptySet DEF Init
<1>. QED BY <1>2, <1>3 DEF LogInv

\* Taking the newest event of a queue takes one pair.
LEMMA NewestTaken ==
    ASSUME TypeOK, NEW m \in Names, queued[m] > 0,
           queued' = [queued EXCEPT ![m] = @ - 1],
           NEW q, q = <<m, queued[m] - 1>>
    PROVE  q \in Queued /\ Queued' = Queued \ {q}
<1>1. queued[m] \in Nat /\ queued'[m] = queued[m] - 1
    BY EngineAssumption DEF TypeOK
<1>2. \A n \in Names : n # m => queued'[n] = queued[n]
    BY DEF TypeOK
<1>3. q \in Queued
    BY <1>1 DEF Queued
<1>4. ASSUME NEW n \in Names, NEW k \in Nat
      PROVE  <<n, k>> \in Queued' <=> <<n, k>> \in Queued \ {q}
    BY <1>1, <1>2 DEF Queued
<1>5. ASSUME NEW x \in Names \X Nat
      PROVE  x \in Queued' <=> x \in Queued \ {q}
    <2>1. x = <<x[1], x[2]>> /\ x[1] \in Names /\ x[2] \in Nat
        OBVIOUS
    <2>2. <<x[1], x[2]>> \in Queued' <=> <<x[1], x[2]>> \in Queued \ {q}
        BY <1>4, <2>1
    <2>. HIDE DEF Queued
    <2>. QED BY <2>1, <2>2
<1>6. Queued' \subseteq Names \X Nat /\ Queued \subseteq Names \X Nat
    BY DEF Queued
<1>. QED BY <1>3, <1>5, <1>6

\* What TakeOne takes.
LEMMA TakeOneTakes ==
    ASSUME TypeOK, TakeOne
    PROVE  \/ Queued = {} /\ Queued' = {}
           \/ \E q \in Queued : Queued' = Queued \ {q}
<1>. USE EngineAssumption DEF TypeOK
<1>1. CASE \A m \in Names : queued[m] = 0
    <2>1. Queued = {}
        BY <1>1, QueuedEmpty
    <2>2. Queued' = Queued
        BY <1>1 DEF TakeOne, Queued
    <2>. QED BY <2>1, <2>2
<1>2. CASE ~ \A m \in Names : queued[m] = 0
    <2>1. PICK m \in Names : queued[m] > 0 /\ queued' = [queued EXCEPT ![m] = @ - 1]
        BY <1>2 DEF TakeOne
    <2>2. PICK q : q = <<m, queued[m] - 1>>
        OBVIOUS
    <2>3. q \in Queued /\ Queued' = Queued \ {q}
        BY <2>1, <2>2, NewestTaken
    <2>. QED BY <2>3
<1>. QED BY <1>1, <1>2

\* Main moves no event and is at no log statement.
LEMMA MainKeepsLogInv ==
    ASSUME IInv, LogInv, MainStep \/ Signal
    PROVE  LogInv'
<1>. USE DEF threadVars, logVars, Goto
<1>1. UNCHANGED queued /\ Queued' = Queued
    BY DEF MainStep, CheckSystem, ParseConfig, SetupSignals, BindMain, AddTask, RegisterDone,
           CheckUntil, ReplaceTask, CreateEngine, Spawn, ChangeMode, Join, JoinDone, Signal,
           Fail, Queued
<1>2. UNCHANGED Writers
    <2>1. CASE Spawn
        <3>1. PICK n : /\ n \in Unspawned
                       /\ UNCHANGED thread \/ thread' = [thread EXCEPT ![n] = "start"]
            <4>1. Unspawned \subseteq Nat /\ Unspawned # {}
                BY <2>1, EngineAssumption DEF Spawn, Unspawned, IInv, TypeOK
            <4>. QED BY <2>1, <4>1, FirstIsMember DEF Spawn, Enter
        <3>2. thread[n] = "none"
            BY <3>1 DEF Unspawned
        <3>. QED BY <3>1, <3>2 DEF Writers, IInv, TypeOK
    <2>2. CASE ~ Spawn
        BY <2>2 DEF MainStep, CheckSystem, ParseConfig, SetupSignals, BindMain, AddTask, RegisterDone,
           CheckUntil, ReplaceTask, CreateEngine, ChangeMode, Join, JoinDone, Signal,
           Fail, Writers
    <2>. QED BY <2>1, <2>2
<1>3. CASE ParseConfig
    <2>1. pc = "config" /\ UNCHANGED synch
        BY <1>3 DEF ParseConfig, Fail
    <2>2. synch' /\ Queued' = {} /\ Writers' = {}
        BY <1>1, <1>2, <2>1 DEF LogInv, Early, IInv, QuietBefore, NoThreads, Writers
    <2>3. Cardinality(Queued') <= Cardinality(Writers')
        BY <2>2, FS_EmptySet
    <2>. QED BY <2>2, <2>3 DEF LogInv
<1>4. CASE ~ ParseConfig
    <2>1. UNCHANGED cpu /\ (pc' \in Early => pc \in Early)
        BY <1>4 DEF MainStep, CheckSystem, SetupSignals, BindMain, AddTask, RegisterDone,
           CheckUntil, ReplaceTask, CreateEngine, Spawn, ChangeMode, Join, JoinDone, Signal,
           Fail, Early
    <2>2. CASE ChangeMode
        BY <1>1, <1>2, <2>1, <2>2 DEF ChangeMode, LogInv, HasLogger, Early
    <2>3. CASE ~ ChangeMode
        <3>1. UNCHANGED synch
            BY <1>4, <2>3 DEF MainStep, CheckSystem, SetupSignals, BindMain, AddTask, RegisterDone,
               CheckUntil, ReplaceTask, CreateEngine, Spawn, Join, JoinDone, Signal, Fail
        <3>. QED BY <1>1, <1>2, <2>1, <3>1 DEF LogInv, HasLogger
    <2>. QED BY <2>2, <2>3
<1>. QED BY <1>3, <1>4

LEMMA ThreadKeepsLogInv ==
    ASSUME IInv, LogInv, pc # "exit", NEW n \in Names, ThreadStep(n)
    PROVE  LogInv'
<1>. USE DEF threadVars, logVars, Enter
<1>1. pc \notin Early
    BY DEF ThreadStep, Bind, Stop, CallTask, Log, ReadMode, TaskReturns, CallDispatch,
           IInv, QuietBefore, NoThreads
<1>2. UNCHANGED <<pc, cpu, synch>>
    BY DEF ThreadStep, Bind, Stop, CallTask, Log, ReadMode, TaskReturns, CallDispatch
<1>3. /\ IsFiniteSet(Queued) /\ IsFiniteSet(Writers)
      /\ Cardinality(Queued) \in Nat /\ Cardinality(Writers) \in Nat
    BY LogSetsAreFinite, FS_CardinalityType DEF IInv
<1>4. SUFFICES ASSUME ~ HasLogger
               PROVE  Cardinality(Queued') <= Cardinality(Writers')
    BY <1>1, <1>2 DEF LogInv, HasLogger
<1>5. synch /\ Cardinality(Queued) <= Cardinality(Writers)
    BY <1>4 DEF LogInv
<1>6. TakeOne => \/ Queued = {} /\ Queued' = {}
                 \/ \E q \in Queued : Queued' = Queued \ {q}
    BY TakeOneTakes DEF IInv
<1>7. CASE Log(n)
    <2>1. CASE HasRoom(n) /\ thread' = [thread EXCEPT ![n] = "wrote"]
               /\ queued' = [queued EXCEPT ![n] = @ + 1]
        <3>1. Writers' = Writers \cup {n} /\ n \notin Writers
            BY <1>7, <2>1 DEF Log, Writers, IInv, TypeOK
        <3>. DEFINE q == <<n, queued[n]>>
        <3>2. queued[n] \in Nat
            BY EngineAssumption DEF IInv, TypeOK
        <3>3. ASSUME NEW m \in Names, NEW k \in Nat
              PROVE  <<m, k>> \in Queued' <=> <<m, k>> \in Queued \/ <<m, k>> = q
            BY <2>1, <3>2, EngineAssumption DEF Queued, IInv, TypeOK
        <3>4. q \notin Queued /\ q \in Names \X Nat
            BY <3>2 DEF Queued
        <3>5. Queued' \subseteq Names \X Nat /\ Queued \subseteq Names \X Nat
            BY DEF Queued
        <3>. HIDE DEF q
        <3>6. Queued' = Queued \cup {q}
            BY <3>3, <3>4, <3>5
        <3>7. /\ Cardinality(Queued') = Cardinality(Queued) + 1
              /\ Cardinality(Writers') = Cardinality(Writers) + 1
            BY <1>3, <3>1, <3>4, <3>6, FS_AddElement
        <3>. QED BY <1>3, <1>5, <3>7
    <2>2. CASE UNCHANGED <<queued, thread>>
        BY <1>5, <2>2 DEF Queued, Writers
    <2>. QED BY <1>7, <2>1, <2>2 DEF Log
<1>8. CASE ReadMode(n)
    <2>1. Writers' = Writers \ {n} /\ n \in Writers
        BY <1>8 DEF ReadMode, Writers, IInv, TypeOK
    <2>2. Cardinality(Writers') = Cardinality(Writers) - 1
        BY <1>3, <2>1, FS_RemoveElement
    <2>3. CASE Queued' = {}
        <3>1. IsFiniteSet(Writers')
            BY <1>3, <2>1, FS_RemoveElement
        <3>2. Cardinality(Writers') \in Nat
            BY <3>1, FS_CardinalityType
        <3>. QED BY <2>3, <3>2, FS_EmptySet
    <2>4. CASE \E q \in Queued : Queued' = Queued \ {q}
        <3>1. Cardinality(Queued') = Cardinality(Queued) - 1
            BY <1>3, <2>4, FS_RemoveElement
        <3>. QED BY <1>3, <1>5, <2>2, <3>1
    <2>. QED BY <1>5, <1>6, <1>8, <2>3, <2>4 DEF ReadMode
<1>9. CASE CallDispatch(n)
    <2>1. Writers' = Writers
        BY <1>9 DEF CallDispatch, Writers
    <2>2. Queued' \subseteq Queued
        BY <1>6, <1>9 DEF CallDispatch
    <2>3. Cardinality(Queued') <= Cardinality(Queued) /\ Cardinality(Queued') \in Nat
        BY <1>3, <2>2, FS_Subset, FS_CardinalityType
    <2>. QED BY <1>3, <1>5, <2>1, <2>3
<1>10. CASE Bind(n) \/ Stop(n) \/ CallTask(n) \/ TaskReturns(n)
    <2>1. Writers' = Writers /\ Queued' = Queued
        BY <1>10 DEF Bind, Stop, CallTask, TaskReturns, Quit, Writers, Queued, IInv, TypeOK
    <2>. QED BY <1>5, <2>1
<1>. QED BY <1>7, <1>8, <1>9, <1>10 DEF ThreadStep

\* The numbers of the queues and of the threads that owe a dispatch stay in step.
THEOREM LogInductive == Spec => [](IInv /\ LogInv)
<1>1. IInv /\ LogInv /\ [Next]_vars => LogInv'
    <2>. SUFFICES ASSUME IInv, LogInv, [Next]_vars PROVE LogInv'
        OBVIOUS
    <2>1. CASE MainStep \/ Signal
        BY <2>1, MainKeepsLogInv
    <2>2. CASE \E n \in Names : pc # "exit" /\ ThreadStep(n)
        BY <2>2, ThreadKeepsLogInv
    <2>3. CASE UNCHANGED vars
        BY <2>3 DEF vars, threadVars, logVars, LogInv, HasLogger, Queued, Writers
    <2>. QED BY <2>1, <2>2, <2>3 DEF Next, Finished
<1>. QED BY <1>1, InitLogInv, EngineInductive, PTL DEF Spec

\* Without a logger's thread nothing that the queues took is left when engine_main
\* returns, for any number of threads: the mode stays synch and each thread
\* dispatches once for each event it wrote, whichever event that takes
\* (engine_main.cpp:193-198, logger_adapter.h:19-24).
THEOREM EngineLeavesNothing == Spec => []NothingLeftWithoutLogger
<1>1. IInv /\ LogInv => NothingLeftWithoutLogger
    <2>. SUFFICES ASSUME IInv, LogInv, pc = "exit", ~ HasLogger
                  PROVE  \A n \in Names : queued[n] = 0
        BY DEF NothingLeftWithoutLogger
    <2>1. Writers = {}
        BY DEF Writers, IInv, NoThreadOutlivesMain
    <2>2. Cardinality(Queued) <= 0
        BY <2>1, FS_EmptySet DEF LogInv
    <2>3. Queued = {}
        BY <2>2, LogSetsAreFinite, FS_CardinalityType, FS_EmptySet DEF IInv
    <2>. QED BY <2>3, QueuedEmpty DEF IInv
<1>. QED BY <1>1, LogInductive, PTL
=============================================================================
